-------------------------- MODULE SupervisorProofs --------------------------
(***************************************************************************)
(* The hosts and supervisors of any number of attempts, runs and bots.     *)
(* The locks are not state of their own: that a host is alone in what it   *)
(* does follows from where the others are (Locked).  The rest of the       *)
(* invariant says what a place in the code of a host or of a supervisor    *)
(* lets it rely on.                                                        *)
(***************************************************************************)
EXTENDS Supervisor, TLAPS

Locked ==
  \A g, h \in Hosts :
    g # h /\ host[g] # Idle /\ host[h] # Idle =>
      /\ RunOf[host[g].attempt] # RunOf[host[h].attempt]
      /\ host[g].at \in {"placing", "spawning"}
         /\ host[h].at \in {"placing", "spawning"} =>
           BotOf[host[g].attempt] # BotOf[host[h].attempt]

\* The answer is reserved before the task is rewritten, and both once.
Answered(a) == Resumes[a] # None => task[a] = 1
TaskKept ==
  \A a \in Attempts :
    /\ task[a] = 0 \/ (task[a] = 1 /\ answer[a] = 1)
    /\ answer[a] \in {None, 1}
    /\ Resumes[a] = None => answer[a] = None
    /\ a \in launch => Answered(a)

HostPlaces ==
  \A h \in Hosts, a \in Attempts :
    /\ At(h, "answering", a) => Resumes[a] # None /\ answer[a] = 1
    /\ At(h, "starting", a) \/ At(h, "placing", a) => Answered(a)
    /\ At(h, "answering", a) \/ At(h, "starting", a) \/ At(h, "placing", a)
         => a \notin launch
    /\ At(h, "placing", a) => Available(a)
    /\ At(h, "spawning", a) => a \in launch /\ sup[a] = "none"
    /\ At(h, "stopping", a) => observed[a] = None

SupPlaces ==
  \A a \in Attempts :
    /\ sup[a] # "none" => a \in launch
    /\ sup[a] \in {"none", "spawned"} => receipt[a] = None
    /\ Supervised(a) => receipt[a] # None /\ ~receipt[a].finished
    /\ a \in group => sup[a] \in {"watching", "looked", "ending", "gone"}
    /\ Supervised(a) /\ sup[a] # "recorded" => output[a] # "left"
    /\ Finished(a) => sup[a] = "gone"

OnePerBot ==
  \A a, b \in Holding : BotOf[a] = BotOf[b] => a = b

SInv ==
  /\ STypeOK
  /\ Locked /\ TaskKept /\ HostPlaces /\ SupPlaces /\ OnePerBot
  /\ NothingOutlives /\ OutcomeKept /\ FreshResult

-----------------------------------------------------------------------------
(* What many steps leave alone. *)

\* A step that moves a host only.
LEMMA HostOnly ==
  ASSUME SInv, UNCHANGED <<files, agents, observed>>
  PROVE  /\ TaskKept' /\ SupPlaces' /\ OnePerBot'
         /\ NothingOutlives' /\ OutcomeKept' /\ FreshResult'
<1>1. \A a \in Attempts :
        /\ Finished(a)' = Finished(a) /\ Outcome(a)' = Outcome(a)
        /\ Supervised(a)' = Supervised(a) /\ Answered(a)' = Answered(a)
  BY DEF files, agents, Finished, Outcome, Supervised, Answered
<1>2. TaskKept' /\ SupPlaces'
  BY <1>1 DEF SInv, TaskKept, SupPlaces, files, agents
<1>3. OnePerBot'
  BY <1>1 DEF SInv, STypeOK, OnePerBot, Holding, files
<1>4. NothingOutlives' /\ OutcomeKept' /\ FreshResult'
  BY <1>1 DEF SInv, NothingOutlives, OutcomeKept, FreshResult, files, agents
<1>5. QED
  BY <1>2, <1>3, <1>4

\* A step of a supervisor, an agent or the clock: hosts keep what they rely
\* on if nothing is launched and no receipt reopened.
LEMMA NoHost ==
  ASSUME SInv,
         UNCHANGED <<host, launch, task, answer, observed>>,
         \A a \in Attempts :
           /\ sup[a] = "none" => sup'[a] = "none"
           /\ Finished(a) => Finished(a)'
  PROVE  Locked' /\ TaskKept' /\ HostPlaces' /\ OnePerBot'
<1>1. Locked' /\ TaskKept'
  BY DEF SInv, Locked, TaskKept, Answered
<1>2. HostPlaces'
  BY DEF SInv, STypeOK, HostPlaces, At, Answered, Available
<1>3. OnePerBot'
  BY DEF SInv, STypeOK, OnePerBot, Holding
<1>4. QED
  BY <1>1, <1>2, <1>3

\* A host that takes up an attempt, or goes on with its own, is alone in the
\* run, and in the bot unless it goes where the bot's lock is held.
LEMMA Moves ==
  ASSUME SInv, NEW h \in Hosts, NEW a \in Attempts,
         \/ host[h] = Idle /\ Free(a)
         \/ host[h] # Idle /\ host[h].attempt = a,
         NEW place \in {"answering", "starting", "placing", "spawning", "stopping"},
         Goes(h, place, a),
         place \in {"placing", "spawning"} =>
           CapacityFree(a) \/ host[h].at \in {"placing", "spawning"}
  PROVE  Locked'
<1> SUFFICES ASSUME NEW f \in Hosts, NEW g \in Hosts, f # g,
                    host'[f] # Idle, host'[g] # Idle
             PROVE  /\ RunOf[host'[f].attempt] # RunOf[host'[g].attempt]
                    /\ host'[f].at \in {"placing", "spawning"}
                       /\ host'[g].at \in {"placing", "spawning"} =>
                         BotOf[host'[f].attempt] # BotOf[host'[g].attempt]
  BY DEF Locked
<1>1. /\ host' = [host EXCEPT ![h] = [at |-> place, attempt |-> a]]
      /\ host \in [Hosts -> HostStates]
  BY DEF Goes, SInv, STypeOK
<1>2. /\ host'[h] = [at |-> place, attempt |-> a]
      /\ \A i \in Hosts : i # h => host'[i] = host[i]
  BY <1>1
<1>3. ASSUME NEW i \in Hosts, i # h, host[i] # Idle
      PROVE  /\ RunOf[host[i].attempt] # RunOf[a]
             /\ host[i].at \in {"placing", "spawning"}
                /\ place \in {"placing", "spawning"} =>
                  BotOf[host[i].attempt] # BotOf[a]
  <2>1. CASE host[h] = Idle /\ Free(a)
    BY <1>3, <2>1 DEF Free, CapacityFree, Idle
  <2>2. CASE host[h] # Idle /\ host[h].attempt = a
    BY <1>3, <2>2 DEF SInv, Locked, CapacityFree
  <2>3. QED
    BY <2>1, <2>2
<1>4. CASE f = h
  BY <1>2, <1>3, <1>4
<1>5. CASE g = h
  BY <1>2, <1>3, <1>5
<1>6. CASE f # h /\ g # h
  BY <1>2, <1>6 DEF SInv, Locked
<1>7. QED
  BY <1>4, <1>5, <1>6

-----------------------------------------------------------------------------
(* A host's steps. *)

LEMMA Inits ==
  ASSUME Init
  PROVE  SInv
<1>1. STypeOK
  BY SupervisorAssumption
  DEF Init, STypeOK, Idle, HostStates, SupStates, Outputs
<1>2. Locked /\ TaskKept /\ HostPlaces
  BY DEF Init, Locked, TaskKept, HostPlaces, At, Idle, Answered
<1>3. SupPlaces /\ OnePerBot
  BY DEF Init, SupPlaces, OnePerBot, Supervised, Finished, Holding
<1>4. NothingOutlives /\ OutcomeKept /\ FreshResult
  BY DEF Init, NothingOutlives, OutcomeKept, FreshResult, Finished
<1>5. QED
  BY <1>1, <1>2, <1>3, <1>4 DEF SInv

LEMMA StartKeeps ==
  ASSUME SInv, NEW h \in Hosts, NEW a \in Attempts, Start(h, a)
  PROVE  SInv'
<1>1. UNCHANGED <<files, agents, observed, failures>> /\ Goes(h, "starting", a)
      /\ host[h] = Idle /\ Free(a) /\ Resumes[a] = None /\ a \notin launch
  BY DEF Start
<1>2. STypeOK'
  BY <1>1 DEF SInv, STypeOK, Goes, HostStates, files, agents
<1>3. Locked'
  BY <1>1, Moves
<1>4. HostPlaces'
  BY <1>1 DEF SInv, STypeOK, HostPlaces, At, Goes, Answered, Available,
              Finished, files, agents
<1>5. QED
  BY <1>1, <1>2, <1>3, <1>4, HostOnly DEF SInv

LEMMA PlaceKeeps ==
  ASSUME SInv, NEW h \in Hosts, NEW a \in Attempts, Place(h, a)
  PROVE  SInv'
<1>1. UNCHANGED <<files, agents, observed, failures>> /\ Goes(h, "placing", a)
      /\ At(h, "starting", a) /\ CapacityFree(a) /\ Available(a)
  BY DEF Place
<1>2. STypeOK'
  BY <1>1 DEF SInv, STypeOK, Goes, HostStates, files, agents
<1>3. Locked'
  BY <1>1, Moves DEF At, Idle
<1>4. HostPlaces'
  BY <1>1 DEF SInv, STypeOK, HostPlaces, At, Goes, Answered, Available,
              Finished, files, agents
<1>5. QED
  BY <1>1, <1>2, <1>3, <1>4, HostOnly DEF SInv

LEMMA StopKeeps ==
  ASSUME SInv, NEW h \in Hosts, NEW a \in Attempts, Stop(h, a)
  PROVE  SInv'
<1>1. UNCHANGED <<files, agents, observed, failures>> /\ Goes(h, "stopping", a)
      /\ host[h] = Idle /\ Free(a) /\ SeemsRunning(a)
  BY DEF Stop
<1>2. STypeOK'
  BY <1>1 DEF SInv, STypeOK, Goes, HostStates, files, agents
<1>3. Locked'
  BY <1>1, Moves
<1>4. observed[a] = None
  BY <1>1 DEF SInv, OutcomeKept, SeemsRunning
<1>5. HostPlaces'
  BY <1>1, <1>4 DEF SInv, STypeOK, HostPlaces, At, Goes, Answered, Available,
                    Finished, files, agents
<1>6. QED
  BY <1>1, <1>2, <1>3, <1>5, HostOnly DEF SInv

\* A host that rests lets go of its locks.
LEMMA Resting ==
  ASSUME SInv, NEW h \in Hosts, Rests(h)
  PROVE  /\ Locked' /\ host' \in [Hosts -> HostStates]
         /\ \A g \in Hosts, a \in Attempts : \A place \in
              {"answering", "starting", "placing", "spawning", "stopping"} :
              At(g, place, a)' => At(g, place, a) /\ g # h
<1>1. host' = [host EXCEPT ![h] = Idle] /\ host \in [Hosts -> HostStates]
  BY DEF SInv, STypeOK, Rests
<1>2. host' \in [Hosts -> HostStates]
  BY <1>1 DEF HostStates
<1>3. Locked'
  BY <1>1 DEF SInv, Locked
<1>4. QED
  BY <1>1, <1>2, <1>3 DEF At, Idle

LEMMA RestKeeps ==
  ASSUME SInv, NEW h \in Hosts, Rests(h),
         UNCHANGED <<files, agents, observed>>, failures' \in 0 .. MaxFailures
  PROVE  SInv'
<1>1. STypeOK'
  BY Resting DEF SInv, STypeOK, files, agents
<1>2. HostPlaces'
  BY Resting DEF SInv, STypeOK, HostPlaces, Answered, Available, Finished,
                 files, agents
<1>3. QED
  BY <1>1, <1>2, Resting, HostOnly DEF SInv

LEMMA PrepareKeeps ==
  ASSUME SInv, NEW h \in Hosts, NEW a \in Attempts, Prepare(h, a)
  PROVE  SInv'
<1>1. /\ UNCHANGED <<launch, cancel, receipt, output, task, agents, observed, failures>>
      /\ Goes(h, "answering", a) /\ host[h] = Idle /\ Free(a)
      /\ Resumes[a] # None /\ a \notin launch
      /\ answer' = [answer EXCEPT ![a] = IF @ = None THEN task[a] + 1 ELSE @]
  BY DEF Prepare
<1>2. answer'[a] = 1 /\ \A b \in Attempts : b # a => answer'[b] = answer[b]
  BY <1>1, SupervisorAssumption DEF SInv, STypeOK, TaskKept
<1>3. STypeOK'
  BY <1>1, <1>2 DEF SInv, STypeOK, Goes, HostStates, agents
<1>4. Locked'
  BY <1>1, Moves
<1>5. TaskKept'
  BY <1>1, <1>2 DEF SInv, TaskKept, Answered
<1>6. HostPlaces'
  BY <1>1, <1>2 DEF SInv, STypeOK, HostPlaces, At, Goes, Answered, Available,
                    Finished, agents
<1>7. SupPlaces' /\ OnePerBot'
  BY <1>1 DEF SInv, STypeOK, SupPlaces, OnePerBot, Holding, Supervised,
              Finished, agents
<1>8. NothingOutlives' /\ OutcomeKept' /\ FreshResult'
  BY <1>1 DEF SInv, NothingOutlives, OutcomeKept, FreshResult, Finished,
              Outcome, agents
<1>9. QED
  BY <1>3, <1>4, <1>5, <1>6, <1>7, <1>8 DEF SInv

LEMMA RewriteKeeps ==
  ASSUME SInv, NEW h \in Hosts, NEW a \in Attempts, Rewrite(h, a)
  PROVE  SInv'
<1>1. /\ UNCHANGED <<launch, cancel, receipt, output, answer, agents, observed, failures>>
      /\ Goes(h, "starting", a) /\ At(h, "answering", a)
      /\ task' = [task EXCEPT ![a] = answer[a]]
  BY DEF Rewrite
<1>2. /\ Resumes[a] # None /\ answer[a] = 1 /\ a \notin launch
      /\ task'[a] = 1 /\ \A b \in Attempts : b # a => task'[b] = task[b]
  BY <1>1 DEF SInv, STypeOK, HostPlaces
<1>3. STypeOK'
  BY <1>1, <1>2 DEF SInv, STypeOK, Goes, HostStates, agents
<1>4. Locked'
  BY <1>1, Moves DEF At, Idle
<1>5. TaskKept'
  BY <1>1, <1>2 DEF SInv, TaskKept, Answered
<1>6. HostPlaces'
  BY <1>1, <1>2 DEF SInv, STypeOK, HostPlaces, At, Goes, Answered, Available,
                    Finished, agents
<1>7. SupPlaces' /\ OnePerBot'
  BY <1>1 DEF SInv, STypeOK, SupPlaces, OnePerBot, Holding, Supervised,
              Finished, agents
<1>8. NothingOutlives' /\ OutcomeKept' /\ FreshResult'
  BY <1>1 DEF SInv, NothingOutlives, OutcomeKept, FreshResult, Finished,
              Outcome, agents
<1>9. QED
  BY <1>3, <1>4, <1>5, <1>6, <1>7, <1>8 DEF SInv

\* The bot's lock has been held since its capacity was found free.
LEMMA ReserveKeeps ==
  ASSUME SInv, NEW h \in Hosts, NEW a \in Attempts, Reserve(h, a)
  PROVE  SInv'
<1>1. /\ UNCHANGED <<cancel, receipt, output, task, answer, agents, observed, failures>>
      /\ Goes(h, "spawning", a) /\ At(h, "placing", a)
      /\ launch' = launch \cup {a}
  BY DEF Reserve
<1>2. a \notin launch /\ Answered(a) /\ Available(a)
  BY <1>1 DEF SInv, HostPlaces
<1>3. sup[a] = "none" /\ receipt[a] = None
  BY <1>2 DEF SInv, SupPlaces
<1>4. STypeOK'
  BY <1>1 DEF SInv, STypeOK, Goes, HostStates, agents
<1>5. Locked'
  BY <1>1, Moves DEF At, Idle
<1>6. TaskKept'
  BY <1>1, <1>2 DEF SInv, TaskKept, Answered
<1>7. HostPlaces'
  <2> SUFFICES ASSUME NEW g \in Hosts, NEW b \in Attempts
               PROVE  /\ At(g, "answering", b)' => Resumes[b] # None /\ answer'[b] = 1
                      /\ At(g, "starting", b)' \/ At(g, "placing", b)' => Answered(b)'
                      /\ At(g, "answering", b)' \/ At(g, "starting", b)'
                           \/ At(g, "placing", b)' => b \notin launch'
                      /\ At(g, "placing", b)' => Available(b)'
                      /\ At(g, "spawning", b)' => b \in launch' /\ sup'[b] = "none"
                      /\ At(g, "stopping", b)' => observed'[b] = None
    BY DEF HostPlaces
  <2>1. CASE g = h
    BY <1>1, <1>3, <2>1 DEF SInv, STypeOK, At, Goes, agents
  <2>2. CASE g # h
    <3>1. host'[g] = host[g]
      BY <1>1, <2>2 DEF SInv, STypeOK, Goes
    <3>2. host[g] # Idle => /\ RunOf[host[g].attempt] # RunOf[a]
                            /\ host[g].at = "placing" => BotOf[host[g].attempt] # BotOf[a]
      BY <1>1, <2>2 DEF SInv, Locked, At, Idle
    <3>3. ASSUME At(g, "placing", b)'
          PROVE  Available(b)'
      <4>1. At(g, "placing", b) /\ host[g] # Idle
        BY <3>1, <3>3 DEF At, Idle
      <4>2. Available(b)
        BY <4>1 DEF SInv, HostPlaces
      <4>3. BotOf[b] # BotOf[a]
        BY <3>2, <4>1 DEF At
      <4>4. QED
        BY <1>1, <4>2, <4>3 DEF Available, Finished
    <3>4. ASSUME NEW place \in
                   {"answering", "starting", "placing", "spawning", "stopping"},
                 At(g, place, b)'
          PROVE  At(g, place, b) /\ b # a
      <4>1. At(g, place, b) /\ host[g] # Idle /\ host[g].attempt = b
        BY <3>1, <3>4 DEF At, Idle
      <4>2. QED
        BY <3>2, <4>1
    <3>5. Answered(b)' = Answered(b)
      BY <1>1 DEF Answered
    <3>6. QED
      BY <1>1, <3>3, <3>4, <3>5 DEF SInv, HostPlaces, agents
  <2>3. QED
    BY <2>1, <2>2
<1>8. SupPlaces'
  BY <1>1 DEF SInv, STypeOK, SupPlaces, Supervised, Finished, agents
<1>9. OnePerBot'
  BY <1>1, <1>2 DEF SInv, STypeOK, OnePerBot, Holding, Available, Finished
<1>10. NothingOutlives' /\ OutcomeKept' /\ FreshResult'
  BY <1>1 DEF SInv, NothingOutlives, OutcomeKept, FreshResult, Finished,
              Outcome, agents
<1>11. QED
  BY <1>4, <1>5, <1>6, <1>7, <1>8, <1>9, <1>10 DEF SInv

\* No other host is where it relies on the attempt.
LEMMA Alone ==
  ASSUME SInv, NEW h \in Hosts, NEW a \in Attempts, At(h, "spawning", a)
  PROVE  /\ a \in launch /\ sup[a] = "none" /\ receipt[a] = None
         /\ a \notin group
         /\ \A g \in Hosts : g # h /\ host[g] # Idle => host[g].attempt # a
<1>1. a \in launch /\ sup[a] = "none"
  BY DEF SInv, HostPlaces
<1>2. receipt[a] = None /\ a \notin group
  BY <1>1 DEF SInv, SupPlaces
<1>3. QED
  BY <1>1, <1>2 DEF SInv, Locked, At, Idle

\* A host that rests, of an attempt nobody else is at.
LEMMA RestPlaces ==
  ASSUME SInv, NEW h \in Hosts, NEW a \in Attempts, Rests(h),
         At(h, "spawning", a), UNCHANGED <<receipt, task, answer, observed>>,
         launch' \in {launch, launch \ {a}},
         \A b \in Attempts : b # a => sup'[b] = sup[b]
  PROVE  HostPlaces'
<1> SUFFICES ASSUME NEW g \in Hosts, NEW b \in Attempts, NEW place \in
                      {"answering", "starting", "placing", "spawning", "stopping"},
                    At(g, place, b)'
             PROVE  /\ place = "answering" => Resumes[b] # None /\ answer'[b] = 1
                    /\ place \in {"starting", "placing"} => Answered(b)'
                    /\ place \in {"answering", "starting", "placing"} => b \notin launch'
                    /\ place = "placing" => Available(b)'
                    /\ place = "spawning" => b \in launch' /\ sup'[b] = "none"
                    /\ place = "stopping" => observed'[b] = None
  BY DEF HostPlaces
<1>1. At(g, place, b) /\ g # h
  BY Resting
<1>2. b # a
  BY <1>1, Alone DEF At, Idle
<1>3. Available(b) => Available(b)'
  BY DEF Available, Finished
<1>4. QED
  BY <1>1, <1>2, <1>3 DEF SInv, HostPlaces, Answered

LEMMA SpawnKeeps ==
  ASSUME SInv, NEW h \in Hosts, NEW a \in Attempts, Spawn(h, a)
  PROVE  SInv'
<1>1. /\ UNCHANGED <<files, leader, group, late, observed, failures>>
      /\ Rests(h) /\ At(h, "spawning", a) /\ sup' = [sup EXCEPT ![a] = "spawned"]
  BY DEF Spawn
<1>2. STypeOK'
  BY <1>1, Resting DEF SInv, STypeOK, SupStates, files
<1>3. TaskKept'
  BY <1>1 DEF SInv, TaskKept, Answered, files
<1>4. HostPlaces'
  BY <1>1, RestPlaces DEF SInv, STypeOK, files
<1>5. SupPlaces'
  BY <1>1, Alone DEF SInv, STypeOK, SupPlaces, Supervised, Finished, files
<1>6. OnePerBot'
  BY <1>1 DEF SInv, STypeOK, OnePerBot, Holding, Finished, files
<1>7. NothingOutlives' /\ OutcomeKept' /\ FreshResult'
  BY <1>1 DEF SInv, NothingOutlives, OutcomeKept, FreshResult, Finished,
              Outcome, files
<1>8. QED
  BY <1>1, <1>2, <1>3, <1>4, <1>5, <1>6, <1>7, Resting DEF SInv

LEMMA SpawnFailsKeeps ==
  ASSUME SInv, NEW h \in Hosts, NEW a \in Attempts, SpawnFails(h, a)
  PROVE  SInv'
<1>1. /\ UNCHANGED <<cancel, receipt, output, task, answer, sup, leader, group,
                     observed>>
      /\ Rests(h) /\ At(h, "spawning", a)
      /\ failures < MaxFailures /\ failures' = failures + 1
      /\ launch' = launch \ {a} /\ late' = late \ {a}
  BY DEF SpawnFails
<1>2. STypeOK'
  BY <1>1, Resting, SupervisorAssumption DEF SInv, STypeOK
<1>3. TaskKept'
  BY <1>1 DEF SInv, TaskKept, Answered
<1>4. HostPlaces'
  BY <1>1, RestPlaces
<1>5. SupPlaces'
  BY <1>1, Alone DEF SInv, STypeOK, SupPlaces, Supervised, Finished
<1>6. OnePerBot'
  BY <1>1 DEF SInv, STypeOK, OnePerBot, Holding, Finished
<1>7. NothingOutlives' /\ OutcomeKept' /\ FreshResult'
  BY <1>1 DEF SInv, NothingOutlives, OutcomeKept, FreshResult, Finished, Outcome
<1>8. QED
  BY <1>1, <1>2, <1>3, <1>4, <1>5, <1>6, <1>7, Resting DEF SInv

LEMMA PollKeeps ==
  ASSUME SInv, NEW h \in Hosts, NEW a \in Attempts, Poll(h, a)
  PROVE  SInv'
<1>1. /\ UNCHANGED <<host, files, agents, failures>>
      /\ host[h] = Idle /\ Free(a) /\ Finished(a)
      /\ observed' = [observed EXCEPT ![a] = Outcome(a)]
  BY DEF Poll
<1>2. STypeOK'
  BY <1>1 DEF SInv, STypeOK, Outcome, Outcomes, files, agents
<1>3. Locked' /\ TaskKept'
  BY <1>1 DEF SInv, Locked, TaskKept, Answered, files
<1>4. HostPlaces'
  BY <1>1 DEF SInv, STypeOK, HostPlaces, At, Idle, Free, Answered, Available,
              Finished, files, agents
<1>5. SupPlaces' /\ OnePerBot'
  BY <1>1 DEF SInv, STypeOK, SupPlaces, OnePerBot, Holding, Supervised,
              Finished, files, agents
<1>6. NothingOutlives' /\ OutcomeKept' /\ FreshResult'
  BY <1>1 DEF SInv, STypeOK, NothingOutlives, OutcomeKept, FreshResult,
              Finished, Outcome, files, agents
<1>7. QED
  BY <1>2, <1>3, <1>4, <1>5, <1>6 DEF SInv

\* Nobody has been told of the attempt that is cancelled.
LEMMA CancelKeeps ==
  ASSUME SInv, NEW h \in Hosts, NEW a \in Attempts, Cancel(h, a)
  PROVE  SInv'
<1>1. /\ UNCHANGED <<launch, receipt, output, task, answer, agents, observed, failures>>
      /\ Rests(h) /\ At(h, "stopping", a) /\ cancel' = cancel \cup {a}
  BY DEF Cancel
<1>2. STypeOK'
  BY <1>1, Resting DEF SInv, STypeOK, agents
<1>3. TaskKept'
  BY <1>1 DEF SInv, TaskKept, Answered
<1>4. HostPlaces'
  BY <1>1, Resting DEF SInv, STypeOK, HostPlaces, Answered, Available,
                       Finished, agents
<1>5. SupPlaces' /\ OnePerBot'
  BY <1>1 DEF SInv, STypeOK, SupPlaces, OnePerBot, Holding, Supervised,
              Finished, agents
<1>6. observed[a] = None
  BY <1>1 DEF SInv, HostPlaces
<1>7. NothingOutlives' /\ OutcomeKept' /\ FreshResult'
  BY <1>1, <1>6 DEF SInv, NothingOutlives, OutcomeKept, FreshResult, Finished,
                    Outcome, agents
<1>8. QED
  BY <1>1, <1>2, <1>3, <1>4, <1>5, <1>7, Resting DEF SInv

-----------------------------------------------------------------------------
(* The steps of a supervisor that write its receipt. *)

LEMMA RecordKeeps ==
  ASSUME SInv, NEW a \in Attempts, Record(a)
  PROVE  SInv'
<1> DEFINE first == [finished |-> FALSE, success |-> FALSE, timed_out |-> FALSE,
                     result |-> "none"]
<1>1. /\ UNCHANGED <<host, launch, cancel, output, task, answer, leader, group,
                     late, observed, failures>>
      /\ sup[a] = "spawned" /\ receipt[a] = None
      /\ receipt' = [receipt EXCEPT ![a] = first]
      /\ sup' = [sup EXCEPT ![a] = "recorded"]
  BY DEF Record, Goto
<1>2. first \in Receipts /\ first # None /\ ~first.finished
  <2>1. first \in Receipts
    BY DEF Receipts, Outputs
  <2>2. QED
    BY <2>1, SupervisorAssumption
<1>3. /\ receipt'[a] = first /\ sup'[a] = "recorded"
      /\ \A b \in Attempts : b # a => receipt'[b] = receipt[b] /\ sup'[b] = sup[b]
  BY <1>1 DEF SInv, STypeOK
<1> HIDE DEF first
<1>4. STypeOK'
  BY <1>1, <1>2 DEF SInv, STypeOK, SupStates
<1>5. SupPlaces'
  BY <1>1, <1>2, <1>3 DEF SInv, SupPlaces, Supervised, Finished
<1>6. Locked' /\ TaskKept' /\ HostPlaces' /\ OnePerBot'
  BY <1>1, <1>3, NoHost DEF Finished
<1>7. NothingOutlives' /\ OutcomeKept' /\ FreshResult'
  BY <1>1, <1>2, <1>3 DEF SInv, NothingOutlives, OutcomeKept, FreshResult,
                          Finished, Outcome
<1>8. QED
  BY <1>4, <1>5, <1>6, <1>7 DEF SInv

\* The receipt of a supervisor that is at work.
LEMMA Unfinished ==
  ASSUME SInv, NEW a \in Attempts, Supervised(a)
  PROVE  receipt[a] \in Receipts /\ ~receipt[a].finished /\ receipt[a] # None
BY DEF SInv, STypeOK, SupPlaces

LEMMA SeeEndKeeps ==
  ASSUME SInv, NEW a \in Attempts, SeeEnd(a)
  PROVE  SInv'
<1> DEFINE ended == [receipt[a] EXCEPT !.timed_out = a \in late]
<1>1. /\ UNCHANGED <<host, launch, cancel, output, task, answer, leader, group,
                     late, observed, failures>>
      /\ sup[a] = "watching" /\ sup' = [sup EXCEPT ![a] = "ending"]
      /\ receipt' = [receipt EXCEPT ![a].timed_out = a \in late]
  BY DEF SeeEnd, Goto
<1>2. receipt[a] \in Receipts /\ ~receipt[a].finished
  BY <1>1, Unfinished DEF Supervised
<1>3. ended \in Receipts /\ ~ended.finished
  <2>1. \A t \in BOOLEAN : /\ [receipt[a] EXCEPT !.timed_out = t] \in Receipts
                           /\ ~[receipt[a] EXCEPT !.timed_out = t].finished
    BY <1>2 DEF Receipts
  <2>2. (a \in late) \in BOOLEAN
    BY SMT
  <2>3. QED
    BY <2>1, <2>2, Zenon
<1>4. ended # None
  BY <1>3, SupervisorAssumption
<1>5. /\ receipt'[a] = ended /\ sup'[a] = "ending"
      /\ \A b \in Attempts : b # a => receipt'[b] = receipt[b] /\ sup'[b] = sup[b]
  BY <1>1 DEF SInv, STypeOK
<1> HIDE DEF ended
<1>6. STypeOK'
  BY <1>1, <1>3, <1>5 DEF SInv, STypeOK, SupStates
<1>7. SupPlaces'
  BY <1>1, <1>3, <1>4, <1>5 DEF SInv, SupPlaces, Supervised, Finished
<1>8. Locked' /\ TaskKept' /\ HostPlaces' /\ OnePerBot'
  BY <1>1, <1>2, <1>5, NoHost DEF Finished
<1>9. NothingOutlives' /\ OutcomeKept' /\ FreshResult'
  BY <1>1, <1>2, <1>3, <1>5 DEF SInv, NothingOutlives, OutcomeKept, FreshResult,
                                Finished, Outcome
<1>10. QED
  BY <1>6, <1>7, <1>8, <1>9 DEF SInv

\* The receipt is completed once, when the group is gone.
LEMMA SettleKeeps ==
  ASSUME SInv, NEW a \in Attempts, Settle(a)
  PROVE  /\ SInv' /\ ~Finished(a) /\ Finished(a)' /\ a \in launch
         /\ \A b \in Attempts : b # a => Finished(b)' = Finished(b)
<1> DEFINE done == [receipt[a] EXCEPT !.finished = TRUE,
                                      !.success = sup[a] = "succeeding",
                                      !.result = output[a]]
<1>1. /\ UNCHANGED <<host, launch, cancel, output, task, answer, leader, group,
                     late, observed, failures>>
      /\ sup[a] \in {"succeeding", "failing"}
      /\ sup' = [sup EXCEPT ![a] = "gone"]
      /\ receipt' = [receipt EXCEPT ![a].finished = TRUE,
                                    ![a].success = sup[a] = "succeeding",
                                    ![a].result = output[a]]
  BY DEF Settle, Goto
<1>2. receipt[a] \in Receipts /\ ~receipt[a].finished
  BY <1>1, Unfinished DEF Supervised
<1>3. done \in Receipts /\ done.finished /\ done.result = output[a]
  BY <1>2 DEF Receipts, SInv, STypeOK
<1>4. done # None
  BY <1>3, SupervisorAssumption
<1>5. /\ receipt'[a] = done /\ sup'[a] = "gone"
      /\ \A b \in Attempts : b # a => receipt'[b] = receipt[b] /\ sup'[b] = sup[b]
  BY <1>1 DEF SInv, STypeOK
<1> HIDE DEF done
<1>6. a \in launch /\ a \notin group /\ output[a] # "left" /\ observed[a] = None
  BY <1>1, <1>2 DEF SInv, SupPlaces, Supervised, OutcomeKept, Finished
<1>7. STypeOK'
  BY <1>1, <1>3, <1>5 DEF SInv, STypeOK, SupStates
<1>8. SupPlaces'
  BY <1>1, <1>3, <1>4, <1>5, <1>6 DEF SInv, SupPlaces, Supervised, Finished
<1>9. Locked' /\ TaskKept' /\ HostPlaces' /\ OnePerBot'
  BY <1>1, <1>2, <1>5, NoHost DEF Finished
<1>10. NothingOutlives' /\ OutcomeKept' /\ FreshResult'
  BY <1>1, <1>3, <1>5, <1>6 DEF SInv, NothingOutlives, OutcomeKept, FreshResult,
                                Finished, Outcome
<1>11. QED
  BY <1>2, <1>3, <1>4, <1>5, <1>6, <1>7, <1>8, <1>9, <1>10 DEF SInv, Finished
-----------------------------------------------------------------------------
(* The steps of supervisors, agents and the clock that write no receipt. *)

LEMMA ArchiveKeeps ==
  ASSUME SInv, NEW a \in Attempts, Archive(a)
  PROVE  SInv'
<1>1. /\ UNCHANGED <<host, launch, cancel, receipt, task, answer, leader, group,
                     late, observed, failures>>
      /\ sup[a] = "recorded" /\ sup' = [sup EXCEPT ![a] = "ready"]
      /\ output' = [output EXCEPT ![a] = "none"]
  BY DEF Archive, Goto
<1>2. STypeOK'
  BY <1>1 DEF SInv, STypeOK, SupStates, Outputs
<1>3. SupPlaces'
  BY <1>1 DEF SInv, STypeOK, SupPlaces, Supervised, Finished
<1>4. Locked' /\ TaskKept' /\ HostPlaces' /\ OnePerBot'
  BY <1>1, NoHost DEF SInv, STypeOK, Finished
<1>5. NothingOutlives' /\ OutcomeKept' /\ FreshResult'
  BY <1>1 DEF SInv, NothingOutlives, OutcomeKept, FreshResult, SupPlaces,
              Supervised, Finished, Outcome
<1>6. QED
  BY <1>2, <1>3, <1>4, <1>5 DEF SInv

LEMMA SpawnAgentKeeps ==
  ASSUME SInv, NEW a \in Attempts, SpawnAgent(a)
  PROVE  SInv'
<1>1. /\ UNCHANGED <<host, files, late, observed, failures>>
      /\ sup[a] = "ready" /\ sup' = [sup EXCEPT ![a] = "watching"]
      /\ leader' = [leader EXCEPT ![a] = "running"] /\ group' = group \cup {a}
  BY DEF SpawnAgent, Goto
<1>2. STypeOK'
  BY <1>1 DEF SInv, STypeOK, SupStates, files
<1>3. SupPlaces'
  BY <1>1 DEF SInv, STypeOK, SupPlaces, Supervised, Finished, files
<1>4. Locked' /\ TaskKept' /\ HostPlaces' /\ OnePerBot'
  BY <1>1, NoHost DEF SInv, STypeOK, SupPlaces, Supervised, Finished, files
<1>5. NothingOutlives' /\ OutcomeKept' /\ FreshResult'
  BY <1>1 DEF SInv, NothingOutlives, OutcomeKept, FreshResult, SupPlaces,
              Supervised, Finished, Outcome, files
<1>6. QED
  BY <1>2, <1>3, <1>4, <1>5 DEF SInv

LEMMA LookKeeps ==
  ASSUME SInv, NEW a \in Attempts, Look(a)
  PROVE  SInv'
<1>1. /\ UNCHANGED <<host, files, leader, group, late, observed, failures>>
      /\ sup[a] = "watching" /\ sup' = [sup EXCEPT ![a] = "looked"]
  BY DEF Look, Goto
<1>2. STypeOK'
  BY <1>1 DEF SInv, STypeOK, SupStates, files
<1>3. SupPlaces'
  BY <1>1 DEF SInv, STypeOK, SupPlaces, Supervised, Finished, files
<1>4. Locked' /\ TaskKept' /\ HostPlaces' /\ OnePerBot'
  BY <1>1, NoHost DEF SInv, STypeOK, SupPlaces, Supervised, Finished, files
<1>5. NothingOutlives' /\ OutcomeKept' /\ FreshResult'
  BY <1>1 DEF SInv, NothingOutlives, OutcomeKept, FreshResult, SupPlaces,
              Supervised, Finished, Outcome, files
<1>6. QED
  BY <1>2, <1>3, <1>4, <1>5 DEF SInv

LEMMA SeeExitKeeps ==
  ASSUME SInv, NEW a \in Attempts, SeeExit(a)
  PROVE  SInv'
<1>1. /\ UNCHANGED <<host, files, leader, group, late, observed, failures>>
      /\ sup[a] = "looked"
      /\ \E place \in {"watching", "ending"} : sup' = [sup EXCEPT ![a] = place]
  BY DEF SeeExit, Goto
<1>2. STypeOK'
  BY <1>1 DEF SInv, STypeOK, SupStates, files
<1>3. SupPlaces'
  BY <1>1 DEF SInv, STypeOK, SupPlaces, Supervised, Finished, files
<1>4. Locked' /\ TaskKept' /\ HostPlaces' /\ OnePerBot'
  BY <1>1, NoHost DEF SInv, STypeOK, SupPlaces, Supervised, Finished, files
<1>5. NothingOutlives' /\ OutcomeKept' /\ FreshResult'
  BY <1>1 DEF SInv, NothingOutlives, OutcomeKept, FreshResult, SupPlaces,
              Supervised, Finished, Outcome, files
<1>6. QED
  BY <1>2, <1>3, <1>4, <1>5 DEF SInv

LEMMA CollectKeeps ==
  ASSUME SInv, NEW a \in Attempts, Collect(a)
  PROVE  SInv'
<1>1. /\ UNCHANGED <<host, files, group, observed, failures>>
      /\ sup[a] = "ending" /\ a \notin group
      /\ \E place \in {"succeeding", "failing"} : sup' = [sup EXCEPT ![a] = place]
      /\ leader' = [leader EXCEPT ![a] = "reaped"] /\ late' = late \ {a}
  BY DEF Collect, Goto
<1>2. STypeOK'
  BY <1>1 DEF SInv, STypeOK, SupStates, files
<1>3. SupPlaces'
  BY <1>1 DEF SInv, STypeOK, SupPlaces, Supervised, Finished, files
<1>4. Locked' /\ TaskKept' /\ HostPlaces' /\ OnePerBot'
  BY <1>1, NoHost DEF SInv, STypeOK, SupPlaces, Supervised, Finished, files
<1>5. NothingOutlives' /\ OutcomeKept' /\ FreshResult'
  BY <1>1 DEF SInv, NothingOutlives, OutcomeKept, FreshResult, SupPlaces,
              Supervised, Finished, Outcome, files
<1>6. QED
  BY <1>2, <1>3, <1>4, <1>5 DEF SInv

LEMMA GiveUpKeeps ==
  ASSUME SInv, NEW a \in Attempts, GiveUp(a)
  PROVE  SInv'
<1>1. /\ UNCHANGED <<host, files, leader, group, late, observed>>
      /\ failures < MaxFailures /\ failures' = failures + 1
      /\ sup[a] \notin {"none", "gone"} /\ sup' = [sup EXCEPT ![a] = "gone"]
      /\ a \in group => sup[a] = "ending"
  BY DEF GiveUp, Goto, SInv, SupPlaces
<1>2. STypeOK'
  BY <1>1, SupervisorAssumption DEF SInv, STypeOK, SupStates, files
<1>3. SupPlaces'
  BY <1>1 DEF SInv, STypeOK, SupPlaces, Supervised, Finished, files
<1>4. Locked' /\ TaskKept' /\ HostPlaces' /\ OnePerBot'
  BY <1>1, NoHost DEF SInv, STypeOK, SupPlaces, Supervised, Finished, files
<1>5. NothingOutlives' /\ OutcomeKept' /\ FreshResult'
  BY <1>1 DEF SInv, NothingOutlives, OutcomeKept, FreshResult, SupPlaces,
              Supervised, Finished, Outcome, files
<1>6. QED
  BY <1>2, <1>3, <1>4, <1>5 DEF SInv

LEMMA SupervisorDiesKeeps ==
  ASSUME SInv, NEW a \in Attempts, SupervisorDies(a)
  PROVE  SInv'
<1>1. /\ UNCHANGED <<host, files, leader, group, late, observed>>
      /\ failures < MaxFailures /\ failures' = failures + 1
      /\ Supervised(a) /\ sup' = [sup EXCEPT ![a] = "gone"]
  BY DEF SupervisorDies, Goto
<1>2. STypeOK'
  BY <1>1, SupervisorAssumption DEF SInv, STypeOK, SupStates, files
<1>3. SupPlaces'
  BY <1>1 DEF SInv, STypeOK, SupPlaces, Supervised, Finished, files
<1>4. Locked' /\ TaskKept' /\ HostPlaces' /\ OnePerBot'
  BY <1>1, NoHost DEF SInv, STypeOK, SupPlaces, Supervised, Finished, files
<1>5. NothingOutlives' /\ OutcomeKept' /\ FreshResult'
  BY <1>1 DEF SInv, NothingOutlives, OutcomeKept, FreshResult, SupPlaces,
              Supervised, Finished, Outcome, files
<1>6. QED
  BY <1>2, <1>3, <1>4, <1>5 DEF SInv

LEMMA AgentWritesKeeps ==
  ASSUME SInv, NEW a \in Attempts, AgentWrites(a)
  PROVE  SInv'
<1>1. /\ UNCHANGED <<host, launch, cancel, receipt, task, answer, agents, observed, failures>>
      /\ a \in group /\ output' = [output EXCEPT ![a] = "own"]
  BY DEF AgentWrites
<1>2. STypeOK'
  BY <1>1 DEF SInv, STypeOK, SupStates, Outputs, agents
<1>3. SupPlaces'
  BY <1>1 DEF SInv, STypeOK, SupPlaces, Supervised, Finished, agents
<1>4. Locked' /\ TaskKept' /\ HostPlaces' /\ OnePerBot'
  BY <1>1, NoHost DEF SInv, STypeOK, Finished, agents
<1>5. NothingOutlives' /\ OutcomeKept' /\ FreshResult'
  BY <1>1 DEF SInv, NothingOutlives, OutcomeKept, FreshResult, SupPlaces,
              Supervised, Finished, Outcome, agents
<1>6. QED
  BY <1>2, <1>3, <1>4, <1>5 DEF SInv

LEMMA AgentExitsKeeps ==
  ASSUME SInv, NEW a \in Attempts, AgentExits(a)
  PROVE  SInv'
<1>1. /\ UNCHANGED <<host, files, sup, late, observed, failures>>
      /\ \E exit \in {"ok", "bad"} : leader' = [leader EXCEPT ![a] = exit]
      /\ group' \in {group, group \ {a}}
  BY DEF AgentExits
<1>2. STypeOK'
  BY <1>1 DEF SInv, STypeOK, SupStates, files
<1>3. SupPlaces'
  BY <1>1 DEF SInv, STypeOK, SupPlaces, Supervised, Finished, files
<1>4. Locked' /\ TaskKept' /\ HostPlaces' /\ OnePerBot'
  BY <1>1, NoHost DEF SInv, STypeOK, SupPlaces, Supervised, Finished, files
<1>5. NothingOutlives' /\ OutcomeKept' /\ FreshResult'
  BY <1>1 DEF SInv, NothingOutlives, OutcomeKept, FreshResult, SupPlaces,
              Supervised, Finished, Outcome, files
<1>6. QED
  BY <1>2, <1>3, <1>4, <1>5 DEF SInv

LEMMA ChildrenExitKeeps ==
  ASSUME SInv, NEW a \in Attempts, ChildrenExit(a)
  PROVE  SInv'
<1>1. /\ UNCHANGED <<host, files, sup, leader, late, observed, failures>>
      /\ group' = group \ {a}
  BY DEF ChildrenExit
<1>2. STypeOK'
  BY <1>1 DEF SInv, STypeOK, SupStates, files
<1>3. SupPlaces'
  BY <1>1 DEF SInv, STypeOK, SupPlaces, Supervised, Finished, files
<1>4. Locked' /\ TaskKept' /\ HostPlaces' /\ OnePerBot'
  BY <1>1, NoHost DEF SInv, STypeOK, SupPlaces, Supervised, Finished, files
<1>5. NothingOutlives' /\ OutcomeKept' /\ FreshResult'
  BY <1>1 DEF SInv, NothingOutlives, OutcomeKept, FreshResult, SupPlaces,
              Supervised, Finished, Outcome, files
<1>6. QED
  BY <1>2, <1>3, <1>4, <1>5 DEF SInv

LEMMA KilledKeeps ==
  ASSUME SInv, NEW a \in Attempts, Killed(a)
  PROVE  SInv'
<1>1. /\ UNCHANGED <<host, files, sup, late, observed, failures>>
      /\ group' = group \ {a}
      /\ leader' = [leader EXCEPT ![a] = IF @ = "running" THEN "bad" ELSE @]
  BY DEF Killed
<1>2. STypeOK'
  BY <1>1 DEF SInv, STypeOK, SupStates, files
<1>3. SupPlaces'
  BY <1>1 DEF SInv, STypeOK, SupPlaces, Supervised, Finished, files
<1>4. Locked' /\ TaskKept' /\ HostPlaces' /\ OnePerBot'
  BY <1>1, NoHost DEF SInv, STypeOK, SupPlaces, Supervised, Finished, files
<1>5. NothingOutlives' /\ OutcomeKept' /\ FreshResult'
  BY <1>1 DEF SInv, NothingOutlives, OutcomeKept, FreshResult, SupPlaces,
              Supervised, Finished, Outcome, files
<1>6. QED
  BY <1>2, <1>3, <1>4, <1>5 DEF SInv

LEMMA DeadlinePassesKeeps ==
  ASSUME SInv, NEW a \in Attempts, DeadlinePasses(a)
  PROVE  SInv'
<1>1. /\ UNCHANGED <<host, files, sup, leader, group, observed, failures>>
      /\ late' = late \cup {a}
  BY DEF DeadlinePasses
<1>2. STypeOK'
  BY <1>1 DEF SInv, STypeOK, SupStates, files
<1>3. SupPlaces'
  BY <1>1 DEF SInv, STypeOK, SupPlaces, Supervised, Finished, files
<1>4. Locked' /\ TaskKept' /\ HostPlaces' /\ OnePerBot'
  BY <1>1, NoHost DEF SInv, STypeOK, SupPlaces, Supervised, Finished, files
<1>5. NothingOutlives' /\ OutcomeKept' /\ FreshResult'
  BY <1>1 DEF SInv, NothingOutlives, OutcomeKept, FreshResult, SupPlaces,
              Supervised, Finished, Outcome, files
<1>6. QED
  BY <1>2, <1>3, <1>4, <1>5 DEF SInv

-----------------------------------------------------------------------------
(* The invariant. *)

LEMMA Keeps ==
  ASSUME SInv, [Next]_vars
  PROVE  SInv'
<1>1. CASE UNCHANGED vars
  BY <1>1, HostOnly DEF vars, files, agents, SInv, STypeOK, Locked, HostPlaces,
                        At, Answered, Available, Finished
<1>2. CASE \E h \in Hosts : HostDies(h)
  <2> PICK h \in Hosts : HostDies(h)
    BY <1>2
  <2>1. failures' \in 0 .. MaxFailures
    BY SupervisorAssumption DEF SInv, STypeOK, HostDies
  <2>2. QED
    BY <2>1, RestKeeps DEF HostDies
<1>3. CASE \E h \in Hosts, a \in Attempts : HostStep(h, a)
  <2> PICK h \in Hosts, a \in Attempts : HostStep(h, a)
    BY <1>3
  <2>1. CASE Refuse(h, a)
    <3>1. failures' \in 0 .. MaxFailures
      BY <2>1 DEF SInv, STypeOK, Refuse
    <3>2. QED
      BY <2>1, <3>1, RestKeeps DEF Refuse
  <2>2. QED
    BY <2>1, StartKeeps, PrepareKeeps, RewriteKeeps, PlaceKeeps, ReserveKeeps,
       SpawnKeeps, SpawnFailsKeeps, PollKeeps, StopKeeps, CancelKeeps
    DEF HostStep
<1>4. CASE \E a \in Attempts :
             \/ SupervisorStep(a) \/ GiveUp(a) \/ SupervisorDies(a)
             \/ AgentStep(a) \/ DeadlinePasses(a)
  BY <1>4, RecordKeeps, ArchiveKeeps, SpawnAgentKeeps, SeeEndKeeps, LookKeeps,
     SeeExitKeeps, CollectKeeps, SettleKeeps, GiveUpKeeps, SupervisorDiesKeeps,
     AgentWritesKeeps, AgentExitsKeeps, ChildrenExitKeeps, KilledKeeps,
     DeadlinePassesKeeps
  DEF SupervisorStep, AgentStep
<1>5. QED
  BY <1>1, <1>2, <1>3, <1>4 DEF Next

LEMMA Invariant == Spec => []SInv
<1>1. QED
  BY Inits, Keeps, PTL DEF Spec

(* Hosts, receipts, supervisors and agents keep their types (agent.rs), for *)
(* any number of hosts, attempts, bots and failures.                        *)
THEOREM TypeCorrect == Spec => []STypeOK
<1>1. SInv => STypeOK
  BY DEF SInv
<1>2. QED
  BY <1>1, Invariant, PTL

(* A completed receipt is written when nothing of the agent executes any   *)
(* more (OwnedChild::finish before the receipt of worker_main_at).         *)
THEOREM Quiet == Spec => []NothingOutlives
<1>1. SInv => NothingOutlives
  BY DEF SInv
<1>2. QED
  BY <1>1, Invariant, PTL

(* Every later poll of a finished attempt tells what the first one told,   *)
(* however its cancellation raced its end (poll_inner and stop).           *)
THEOREM SameOutcome == Spec => []OutcomeKept
<1>1. SInv => OutcomeKept
  BY DEF SInv
<1>2. QED
  BY <1>1, Invariant, PTL

(* No receipt delivers a result found in the attempt's directory           *)
(* (worker_main_at archives it before it starts the agent).                *)
THEOREM EarnedResult == Spec => []FreshResult
<1>1. SInv => FreshResult
  BY DEF SInv
<1>2. QED
  BY <1>1, Invariant, PTL

(* An attempt that resumes another is launched with the owner's answer in  *)
(* its task exactly once (resume_answer reserves the whole task).          *)
THEOREM OneAnswer == Spec => []AnsweredOnce
<1>1. SInv => AnsweredOnce
  BY SupervisorAssumption DEF SInv, STypeOK, TaskKept, Answered, AnsweredOnce
<1>2. QED
  BY <1>1, Invariant, PTL
-----------------------------------------------------------------------------
(* What steps do. *)

LEMMA SpawnIsFirst ==
  ASSUME SInv, [Next]_vars
  PROVE  \A a \in Attempts : sup'[a] = "spawned" => sup[a] \in {"none", "spawned"}
<1> SUFFICES ASSUME NEW a \in Attempts, sup'[a] = "spawned", sup[a] # "spawned"
             PROVE  sup[a] = "none"
  OBVIOUS
<1>1. sup \in [Attempts -> SupStates]
  BY DEF SInv, STypeOK
<1>2. CASE UNCHANGED sup
  BY <1>2
<1>3. CASE \E h \in Hosts, b \in Attempts : Spawn(h, b)
  <2> PICK h \in Hosts, b \in Attempts : Spawn(h, b)
    BY <1>3
  <2>1. sup[b] = "none" /\ sup' = [sup EXCEPT ![b] = "spawned"]
    BY Alone DEF Spawn
  <2>2. QED
    BY <1>1, <2>1
<1>4. CASE \E b \in Attempts, place \in SupStates \ {"spawned"} :
             sup' = [sup EXCEPT ![b] = place]
  BY <1>1, <1>4
<1>5. QED
  <2>1. CASE UNCHANGED vars \/ \E h \in Hosts : HostDies(h)
    BY <1>2, <2>1 DEF vars, HostDies, agents
  <2>2. CASE \E h \in Hosts, b \in Attempts : HostStep(h, b)
    BY <1>2, <1>3, <2>2
    DEF HostStep, Start, Prepare, Rewrite, Place, Refuse, Reserve, SpawnFails,
        Poll, Stop, Cancel, agents
  <2>3. ASSUME NEW b \in Attempts,
               SupervisorStep(b) \/ GiveUp(b) \/ SupervisorDies(b)
        PROVE  sup[a] = "none"
    BY <1>4, <2>3
    DEF SupervisorStep, Record, Archive, SpawnAgent, SeeEnd, Look, SeeExit,
        Collect, Settle, GiveUp, SupervisorDies, Goto, SupStates
  <2>4. ASSUME NEW b \in Attempts, AgentStep(b) \/ DeadlinePasses(b)
        PROVE  sup[a] = "none"
    BY <1>2, <2>4
    DEF AgentStep, AgentWrites, AgentExits, ChildrenExit, Killed,
        DeadlinePasses, agents
  <2>5. QED
    BY <2>1, <2>2, <2>3, <2>4 DEF Next

(* No attempt is given a second supervisor, however often hosts die and    *)
(* come back (start_inner: a reservation is never relaunched).             *)
THEOREM OneSupervisor == Spec => SupervisedOnce
<1>1. SInv /\ [Next]_vars =>
        [\A a \in Attempts :
           sup'[a] = "spawned" => sup[a] \in {"none", "spawned"}]_vars
  BY SpawnIsFirst
<1>2. QED
  BY <1>1, Invariant, PTL DEF Spec, SupervisedOnce

-----------------------------------------------------------------------------
(* The attempts share their bots' capacity. *)

Settled == {a \in Attempts : Finished(a)}

\* A step that launches nothing and finishes nothing.
LEMMA Stutters ==
  ASSUME launch \subseteq Attempts, UNCHANGED launch,
         \A a \in Attempts : Finished(a)' = Finished(a)
  PROVE  UNCHANGED <<Holding, Settled>>
BY DEF Holding, Settled

LEMMA ReserveTakes ==
  ASSUME SInv, NEW h \in Hosts, NEW a \in Attempts, Reserve(h, a)
  PROVE  Capacity!Take(a)
<1>1. launch' = launch \cup {a} /\ UNCHANGED receipt /\ launch \subseteq Attempts
  BY DEF Reserve, SInv, STypeOK
<1>2. a \notin launch /\ Available(a)
  BY DEF Reserve, SInv, HostPlaces
<1>3. receipt[a] = None
  BY <1>2 DEF SInv, SupPlaces
<1>4. Holding' = Holding \cup {a} /\ UNCHANGED Settled
  BY <1>1, <1>3 DEF Holding, Settled, Finished
<1>5. /\ a \notin Holding \cup Settled
      /\ \A b \in Holding : BotOf[b] # BotOf[a]
  BY <1>1, <1>2, <1>3 DEF Holding, Settled, Finished, Available
<1>6. QED
  BY <1>4, <1>5 DEF Capacity!Take, Settled

LEMMA SpawnFailsGivesBack ==
  ASSUME SInv, NEW h \in Hosts, NEW a \in Attempts, SpawnFails(h, a)
  PROVE  Capacity!GiveBack(a)
<1>1. launch' = launch \ {a} /\ UNCHANGED receipt /\ launch \subseteq Attempts
  BY DEF SpawnFails, SInv, STypeOK
<1>2. a \in launch /\ receipt[a] = None
  BY Alone DEF SpawnFails
<1>3. a \in Holding /\ Holding' = Holding \ {a} /\ UNCHANGED Settled
  BY <1>1, <1>2 DEF Holding, Settled, Finished
<1>4. QED
  BY <1>3 DEF Capacity!GiveBack, Settled

LEMMA SettleSettles ==
  ASSUME SInv, NEW a \in Attempts, Settle(a)
  PROVE  Capacity!Settle(a)
<1>1. UNCHANGED launch /\ launch \subseteq Attempts
  BY DEF Settle, SInv, STypeOK
<1>2. /\ ~Finished(a) /\ Finished(a)' /\ a \in launch
      /\ \A b \in Attempts : b # a => Finished(b)' = Finished(b)
  BY SettleKeeps
<1>3. a \in Holding /\ Holding' = Holding \ {a} /\ Settled' = Settled \cup {a}
  BY <1>1, <1>2 DEF Holding, Settled
<1>4. QED
  BY <1>3 DEF Capacity!Settle, Settled

\* The receipts a supervisor writes before its last.
LEMMA ReceiptStutters ==
  ASSUME SInv, NEW a \in Attempts, Record(a) \/ SeeEnd(a)
  PROVE  UNCHANGED <<Holding, Settled>>
<1>1. UNCHANGED launch /\ launch \subseteq Attempts
  BY DEF Record, SeeEnd, SInv, STypeOK
<1>2. CASE Record(a)
  <2>1. \A b \in Attempts : Finished(b)' = Finished(b)
    BY <1>2 DEF SInv, STypeOK, Record, Finished
  <2>2. QED
    BY <1>1, <2>1, Stutters
<1>3. CASE SeeEnd(a)
  <2>1. receipt[a] \in Receipts /\ ~receipt[a].finished
    BY <1>3, Unfinished DEF SeeEnd, Supervised
  <2>2. ~receipt'[a].finished /\ \A b \in Attempts : b # a => receipt'[b] = receipt[b]
    BY <1>3, <2>1 DEF SInv, STypeOK, SeeEnd, Receipts
  <2>3. \A b \in Attempts : Finished(b)' = Finished(b)
    BY <2>1, <2>2 DEF Finished
  <2>4. QED
    BY <1>1, <2>3, Stutters
<1>4. QED
  BY <1>2, <1>3

LEMMA CapacityStep ==
  ASSUME SInv, [Next]_vars
  PROVE  [Capacity!Next]_<<Holding, Settled>>
<1>1. CASE UNCHANGED <<launch, receipt>>
  BY <1>1, Stutters DEF SInv, STypeOK, Finished
<1>2. CASE UNCHANGED vars \/ \E h \in Hosts : HostDies(h)
  BY <1>1, <1>2 DEF vars, HostDies, files
<1>3. ASSUME NEW h \in Hosts, NEW a \in Attempts, HostStep(h, a)
      PROVE  [Capacity!Next]_<<Holding, Settled>>
  <2>1. CASE Reserve(h, a)
    BY <2>1, ReserveTakes DEF Capacity!Next
  <2>2. CASE SpawnFails(h, a)
    BY <2>2, SpawnFailsGivesBack DEF Capacity!Next
  <2>3. QED
    BY <1>1, <1>3, <2>1, <2>2
    DEF HostStep, Start, Prepare, Rewrite, Place, Refuse, Spawn, Poll, Stop,
        Cancel, files
<1>4. ASSUME NEW a \in Attempts,
             \/ SupervisorStep(a) \/ GiveUp(a) \/ SupervisorDies(a)
             \/ AgentStep(a) \/ DeadlinePasses(a)
      PROVE  [Capacity!Next]_<<Holding, Settled>>
  <2>1. CASE Settle(a)
    BY <2>1, SettleSettles DEF Capacity!Next
  <2>2. CASE Record(a) \/ SeeEnd(a)
    BY <2>2, ReceiptStutters
  <2>3. QED
    BY <1>1, <1>4, <2>1, <2>2
    DEF SupervisorStep, AgentStep, Archive, SpawnAgent, Look, SeeExit, Collect,
        GiveUp, SupervisorDies, AgentWrites, AgentExits, ChildrenExit, Killed,
        DeadlinePasses, files
<1>5. QED
  BY <1>2, <1>3, <1>4 DEF Next

(* The attempts of all runs share their bots: one that is not settled at a *)
(* time, and one that is settled stays so (the refinement of BotCapacity), *)
(* however many hosts start attempts at once (start_inner, available).     *)
THEOREM CapacityShared == Spec => BotsShared
<1>1. Init => Capacity!Init
  BY DEF Init, Capacity!Init, Holding, Settled, Finished
<1>2. SInv /\ [Next]_vars => [Capacity!Next]_<<Holding, Settled>>
  BY CapacityStep
<1>3. QED
  BY <1>1, <1>2, Invariant, PTL DEF Spec, BotsShared, Capacity!Spec, Settled
=============================================================================
