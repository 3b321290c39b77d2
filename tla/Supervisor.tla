----------------------------- MODULE Supervisor -----------------------------
(***************************************************************************)
(* The attempts of all runs under one root, and what executes them         *)
(* (agent.rs).  A host reserves an attempt by launch.json and spawns a     *)
(* detached supervisor, which starts the agent in a process group of its   *)
(* own, enforces the deadline, kills the group and leaves a receipt.  The  *)
(* two share nothing but the files of the attempt's directory.             *)
(*                                                                         *)
(* A host holds run.lock of the attempt's run in everything it does here,  *)
(* so launch.lock and answer.lock, held within, are never contended.  The  *)
(* locks go with the process that holds them.  Files are replaced by       *)
(* rename.  A worker of the Hermes protocol, whose work outlives its       *)
(* process, is HermesTurn.                                                 *)
(***************************************************************************)
EXTENDS Naturals

CONSTANTS
  Hosts, Attempts, None,
  BotOf,      \* attempt -> its bot
  RunOf,      \* attempt -> its run
  Resumes,    \* attempt -> the attempt whose question its owner answered, or None
  MaxFailures \* bound on failed spawns, and hosts and supervisors that die

VARIABLES
  host,     \* what each host does in this module, and to which attempt
  launch,   \* attempts with a launch.json
  cancel,   \* attempts with a cancel file
  receipt,  \* process.json, or None
  output,   \* what result.json holds: "none", "left" from before, "own"
  task,     \* how often task.md has the owner's answer
  answer,   \* the task prepared in owner-answer.json, as that number, or None
  sup,      \* how far the supervisor is
  leader,   \* the agent: "none", "running", how it exited, "ok" or "bad", "reaped"
  group,    \* attempts with a process of the agent's group alive
  late,     \* launches past their deadline, until the agent is reaped
  observed, \* history: the outcome some host was told
  failures

vars ==
  <<host, launch, cancel, receipt, output, task, answer, sup, leader, group,
    late, observed, failures>>
files == <<launch, cancel, receipt, output, task, answer>>
agents == <<sup, leader, group, late>>

Idle == [at |-> "idle", attempt |-> None]
HostStates ==
  {Idle} \cup
  [at : {"answering", "starting", "placing", "spawning", "stopping"},
   attempt : Attempts]
SupStates ==
  {"none", "spawned", "recorded", "ready", "watching", "looked", "ending",
   "succeeding", "failing", "gone"}
Outputs == {"none", "left", "own"}
Receipts ==
  [finished : BOOLEAN, success : BOOLEAN, timed_out : BOOLEAN,
   result : Outputs]
Outcomes == {"success", "failure"}

ASSUME SupervisorAssumption ==
  /\ None \notin Attempts /\ None \notin Nat
  /\ None \notin Receipts /\ None \notin Outcomes
  /\ Resumes \in [Attempts -> Attempts \cup {None}]
  \* An answer resumes an attempt of the same step, by the same bot.
  /\ \A a \in Attempts : Resumes[a] # None =>
       BotOf[Resumes[a]] = BotOf[a] /\ RunOf[Resumes[a]] = RunOf[a]
  /\ MaxFailures \in Nat

STypeOK ==
  /\ host \in [Hosts -> HostStates]
  /\ launch \subseteq Attempts /\ cancel \subseteq Attempts
  /\ receipt \in [Attempts -> Receipts \cup {None}]
  /\ output \in [Attempts -> Outputs]
  /\ task \in [Attempts -> 0 .. 2]
  /\ answer \in [Attempts -> (0 .. 2) \cup {None}]
  /\ sup \in [Attempts -> SupStates]
  /\ leader \in [Attempts -> {"none", "running", "ok", "bad", "reaped"}]
  /\ group \subseteq Attempts /\ late \subseteq Attempts
  /\ observed \in [Attempts -> Outcomes \cup {None}]
  /\ failures \in 0 .. MaxFailures

Init ==
  /\ host = [h \in Hosts |-> Idle]
  /\ launch = {} /\ cancel = {}
  /\ receipt = [a \in Attempts |-> None]
  /\ output \in [Attempts -> {"none", "left"}]
  /\ task = [a \in Attempts |-> 0]
  /\ answer = [a \in Attempts |-> None]
  /\ sup = [a \in Attempts |-> "none"]
  /\ leader = [a \in Attempts |-> "none"]
  /\ group = {} /\ late = {}
  /\ observed = [a \in Attempts |-> None]
  /\ failures = 0
-----------------------------------------------------------------------------
(* What a host sees. *)

Finished(a) == receipt[a] # None /\ receipt[a].finished

\* poll, of a receipt; a cancel file counts however late it was written.
Outcome(a) ==
  IF receipt[a].success /\ ~receipt[a].timed_out /\ a \notin cancel
  THEN "success" ELSE "failure"

\* The supervisor's lifetime lock, worker.lock, is held.
Supervised(a) == sup[a] \notin {"none", "spawned", "gone"}

\* poll, without a receipt to go by: in the first seconds of a launch, and
\* while its supervisor lives.  It fails on every other unfinished attempt.
SeemsRunning(a) ==
  a \in launch /\ ~Finished(a) /\ (receipt[a] = None \/ Supervised(a))

\* available, for the bot of attempt a.
Available(a) ==
  \A b \in launch : BotOf[b] = BotOf[a] => Finished(b)

At(h, place, a) == host[h] = [at |-> place, attempt |-> a]
Goes(h, place, a) == host' = [host EXCEPT ![h] = [at |-> place, attempt |-> a]]
Rests(h) == host' = [host EXCEPT ![h] = Idle]

\* run.lock of the attempt's run is free.
Free(a) ==
  \A h \in Hosts : host[h] # Idle => RunOf[host[h].attempt] # RunOf[a]
\* .bot-<bot>.lock is free.
CapacityFree(a) ==
  \A h \in Hosts :
    host[h].at \in {"placing", "spawning"} => BotOf[host[h].attempt] # BotOf[a]
-----------------------------------------------------------------------------
(* A host: start and resume_after_answer. *)

\* Mutant: a launch is not recognised.
StartAnyhow(h, a) ==
  /\ host[h] = Idle /\ Free(a) /\ Resumes[a] = None
  /\ Goes(h, "starting", a)
  /\ UNCHANGED <<files, agents, observed, failures>>

\* A start of a launched attempt returns its handle and does nothing.
Start(h, a) ==
  /\ host[h] = Idle /\ Free(a) /\ Resumes[a] = None
  /\ a \notin launch
  /\ Goes(h, "starting", a)
  /\ UNCHANGED <<files, agents, observed, failures>>

\* Mutant: the task is prepared anew by every call.
PrepareAgain(h, a) ==
  /\ host[h] = Idle /\ Free(a) /\ Resumes[a] # None
  /\ Finished(Resumes[a]) /\ Outcome(Resumes[a]) = "success"
  /\ a \notin launch
  /\ answer' = [answer EXCEPT ![a] = task[a] + 1]
  /\ Goes(h, "answering", a)
  /\ UNCHANGED <<launch, cancel, receipt, output, task, agents, observed, failures>>

\* Mutant: the answered task is not reserved.
PrepareUnrecorded(h, a) ==
  /\ host[h] = Idle /\ Free(a) /\ Resumes[a] # None
  /\ Finished(Resumes[a]) /\ Outcome(Resumes[a]) = "success"
  /\ a \notin launch
  /\ Goes(h, "answering", a)
  /\ UNCHANGED <<files, agents, observed, failures>>

\* resume_answer: the whole answered task is reserved before it replaces
\* task.md, or was by an earlier call.
Prepare(h, a) ==
  /\ host[h] = Idle /\ Free(a) /\ Resumes[a] # None
  /\ Finished(Resumes[a]) /\ Outcome(Resumes[a]) = "success"
  /\ a \notin launch
  /\ answer' = [answer EXCEPT ![a] = IF @ = None THEN task[a] + 1 ELSE @]
  /\ Goes(h, "answering", a)
  /\ UNCHANGED <<launch, cancel, receipt, output, task, agents, observed, failures>>

Rewrite(h, a) ==
  /\ At(h, "answering", a)
  /\ task' = [task EXCEPT ![a] = answer[a]]
  /\ Goes(h, "starting", a)
  /\ UNCHANGED <<launch, cancel, receipt, output, answer, agents, observed, failures>>

\* Mutant: capacity is looked up without its lock.
PlaceUnlocked(h, a) ==
  /\ At(h, "starting", a) /\ Available(a)
  /\ Goes(h, "placing", a)
  /\ UNCHANGED <<files, agents, observed, failures>>

\* The lock of the bot is taken and its capacity found free.
Place(h, a) ==
  /\ At(h, "starting", a) /\ CapacityFree(a) /\ Available(a)
  /\ Goes(h, "placing", a)
  /\ UNCHANGED <<files, agents, observed, failures>>

\* "bot already has an unresolved attempt", or a preparation fails: the
\* executable, task.md, worker.log.
Refuse(h, a) ==
  /\ At(h, "starting", a) \/ At(h, "placing", a)
  /\ Rests(h)
  /\ UNCHANGED <<files, agents, observed, failures>>

Reserve(h, a) ==
  /\ At(h, "placing", a)
  /\ launch' = launch \cup {a}
  /\ Goes(h, "spawning", a)
  /\ UNCHANGED <<cancel, receipt, output, task, answer, agents, observed, failures>>

Spawn(h, a) ==
  /\ At(h, "spawning", a)
  /\ sup' = [sup EXCEPT ![a] = "spawned"]
  /\ Rests(h)
  /\ UNCHANGED <<files, leader, group, late, observed, failures>>

\* A launch known not to have happened is given back.
SpawnFails(h, a) ==
  /\ At(h, "spawning", a)
  /\ failures < MaxFailures /\ failures' = failures + 1
  /\ launch' = launch \ {a} /\ late' = late \ {a}
  /\ Rests(h)
  /\ UNCHANGED <<cancel, receipt, output, task, answer, sup, leader, group,
                 observed>>
-----------------------------------------------------------------------------
(* A host: poll and stop. *)

Poll(h, a) ==
  /\ host[h] = Idle /\ Free(a) /\ Finished(a)
  /\ observed' = [observed EXCEPT ![a] = Outcome(a)]
  /\ UNCHANGED <<host, files, agents, failures>>

\* Mutant: stop does not look first.
StopBlindly(h, a) ==
  /\ host[h] = Idle /\ Free(a) /\ a \in launch
  /\ Goes(h, "stopping", a)
  /\ UNCHANGED <<files, agents, observed, failures>>

\* stop confirms a finished attempt, which is a Poll, or goes on to cancel.
Stop(h, a) ==
  /\ host[h] = Idle /\ Free(a) /\ SeemsRunning(a)
  /\ Goes(h, "stopping", a)
  /\ UNCHANGED <<files, agents, observed, failures>>

Cancel(h, a) ==
  /\ At(h, "stopping", a)
  /\ cancel' = cancel \cup {a}
  /\ Rests(h)
  /\ UNCHANGED <<launch, receipt, output, task, answer, agents, observed, failures>>

\* A host dies and lets go of its locks; another takes its place.
HostDies(h) ==
  /\ host[h] # Idle /\ failures < MaxFailures
  /\ Rests(h) /\ failures' = failures + 1
  /\ UNCHANGED <<files, agents, observed>>

HostStep(h, a) ==
  \/ Start(h, a) \/ Prepare(h, a) \/ Rewrite(h, a) \/ Place(h, a)
  \/ Refuse(h, a) \/ Reserve(h, a) \/ Spawn(h, a) \/ SpawnFails(h, a)
  \/ Poll(h, a) \/ Stop(h, a) \/ Cancel(h, a)
-----------------------------------------------------------------------------
(* A supervisor: worker_main_at. *)

Goto(a, place) == sup' = [sup EXCEPT ![a] = place]

\* It takes worker.lock, and refuses an attempt that has a receipt.
Record(a) ==
  /\ sup[a] = "spawned" /\ receipt[a] = None
  /\ receipt' = [receipt EXCEPT ![a] =
       [finished |-> FALSE, success |-> FALSE, timed_out |-> FALSE,
        result |-> "none"]]
  /\ Goto(a, "recorded")
  /\ UNCHANGED <<host, launch, cancel, output, task, answer, leader, group,
                 late, observed, failures>>

\* Mutant: a result left in the directory stays there.
ArchiveNothing(a) ==
  /\ sup[a] = "recorded"
  /\ Goto(a, "ready")
  /\ UNCHANGED <<host, files, leader, group, late, observed, failures>>

Archive(a) ==
  /\ sup[a] = "recorded"
  /\ output' = [output EXCEPT ![a] = "none"]
  /\ Goto(a, "ready")
  /\ UNCHANGED <<host, launch, cancel, receipt, task, answer, leader, group,
                 late, observed, failures>>

SpawnAgent(a) ==
  /\ sup[a] = "ready"
  /\ leader' = [leader EXCEPT ![a] = "running"] /\ group' = group \cup {a}
  /\ Goto(a, "watching")
  /\ UNCHANGED <<host, files, late, observed, failures>>

\* Mutant: the deadline is left to the host.
SeeCancel(a) ==
  /\ sup[a] = "watching" /\ a \in cancel
  /\ Goto(a, "ending")
  /\ UNCHANGED <<host, files, leader, group, late, observed, failures>>

\* One round of the loop looks for a cancellation and the deadline, and
\* commits either before the group is signalled,
SeeEnd(a) ==
  /\ sup[a] = "watching" /\ a \in cancel \cup late
  /\ receipt' = [receipt EXCEPT ![a].timed_out = a \in late]
  /\ Goto(a, "ending")
  /\ UNCHANGED <<host, launch, cancel, output, task, answer, leader, group,
                 late, observed, failures>>
Look(a) ==
  /\ sup[a] = "watching" /\ a \notin cancel \cup late
  /\ Goto(a, "looked")
  /\ UNCHANGED <<host, files, leader, group, late, observed, failures>>
\* then for the agent's exit.
SeeExit(a) ==
  /\ sup[a] = "looked"
  /\ Goto(a, IF leader[a] = "running" THEN "watching" ELSE "ending")
  /\ UNCHANGED <<host, files, leader, group, late, observed, failures>>

\* Mutant: the exit of the leader is taken for that of its group.
CollectAtExit(a) ==
  /\ sup[a] = "ending" /\ leader[a] # "running"
  /\ Goto(a, IF /\ leader[a] = "ok" /\ output[a] # "none"
                /\ ~receipt[a].timed_out /\ a \notin cancel
             THEN "succeeding" ELSE "failing")
  /\ leader' = [leader EXCEPT ![a] = "reaped"] /\ late' = late \ {a}
  /\ UNCHANGED <<host, files, group, observed, failures>>

\* finish has killed the whole group; the agent's exit, protocol and result
\* are collected, and a cancellation once more looked for.
Collect(a) ==
  /\ sup[a] = "ending" /\ a \notin group
  /\ Goto(a, IF /\ leader[a] = "ok" /\ output[a] # "none"
                /\ ~receipt[a].timed_out /\ a \notin cancel
             THEN "succeeding" ELSE "failing")
  /\ leader' = [leader EXCEPT ![a] = "reaped"] /\ late' = late \ {a}
  /\ UNCHANGED <<host, files, group, observed, failures>>

Settle(a) ==
  /\ sup[a] \in {"succeeding", "failing"}
  /\ receipt' = [receipt EXCEPT ![a].finished = TRUE,
                                ![a].success = sup[a] = "succeeding",
                                ![a].result = output[a]]
  /\ Goto(a, "gone")
  /\ UNCHANGED <<host, launch, cancel, output, task, answer, leader, group,
                 late, observed, failures>>

\* An error ends it without a completed receipt: it refuses the attempt, it
\* cannot start the agent, or the group outlives its SIGKILL.
GiveUp(a) ==
  /\ \/ sup[a] \in {"spawned", "recorded", "ready"}
     \/ sup[a] = "ending" /\ a \in group
  /\ failures < MaxFailures /\ failures' = failures + 1
  /\ Goto(a, "gone")
  /\ UNCHANGED <<host, files, leader, group, late, observed>>

\* It is killed, which leaves the agent alone.
SupervisorDies(a) ==
  /\ Supervised(a) /\ failures < MaxFailures
  /\ Goto(a, "gone") /\ failures' = failures + 1
  /\ UNCHANGED <<host, files, leader, group, late, observed>>

SupervisorStep(a) ==
  \/ Record(a) \/ Archive(a) \/ SpawnAgent(a) \/ SeeEnd(a) \/ Look(a)
  \/ SeeExit(a) \/ Collect(a) \/ Settle(a)
-----------------------------------------------------------------------------
(* The agent and the clock. *)

AgentWrites(a) ==
  /\ a \in group /\ output[a] # "own"
  /\ output' = [output EXCEPT ![a] = "own"]
  /\ UNCHANGED <<host, launch, cancel, receipt, task, answer, agents, observed,
                 failures>>

\* It exits, by itself or signalled; it may leave children behind.
AgentExits(a) ==
  /\ a \in group /\ leader[a] = "running"
  /\ \E exit \in {"ok", "bad"} : leader' = [leader EXCEPT ![a] = exit]
  /\ group' \in {group, group \ {a}}
  /\ UNCHANGED <<host, files, sup, late, observed, failures>>

ChildrenExit(a) ==
  /\ a \in group /\ leader[a] # "running"
  /\ group' = group \ {a}
  /\ UNCHANGED <<host, files, sup, leader, late, observed, failures>>

\* The group is killed by the signal of its supervisor.
Killed(a) ==
  /\ a \in group /\ sup[a] = "ending"
  /\ leader' = [leader EXCEPT ![a] = IF @ = "running" THEN "bad" ELSE @]
  /\ group' = group \ {a}
  /\ UNCHANGED <<host, files, sup, late, observed, failures>>

\* The deadline counts from the launch, as long as there is one to look.
DeadlinePasses(a) ==
  /\ a \in launch \ late /\ sup[a] \notin {"succeeding", "failing", "gone"}
  /\ late' = late \cup {a}
  /\ UNCHANGED <<host, files, sup, leader, group, observed, failures>>

AgentStep(a) ==
  AgentWrites(a) \/ AgentExits(a) \/ ChildrenExit(a) \/ Killed(a)

Next ==
  \/ \E h \in Hosts : HostDies(h)
  \/ \E h \in Hosts, a \in Attempts : HostStep(h, a)
  \/ \E a \in Attempts :
       \/ SupervisorStep(a) \/ GiveUp(a) \/ SupervisorDies(a)
       \/ AgentStep(a) \/ DeadlinePasses(a)

Spec == Init /\ [][Next]_vars

\* A live supervisor goes on, and a group dies of SIGKILL.
Fairness ==
  \A a \in Attempts : WF_vars(SupervisorStep(a)) /\ WF_vars(Killed(a))
-----------------------------------------------------------------------------
(* No two attempts of a bot are unsettled at once, in whichever runs, and  *)
(* a settled attempt is never launched again ("Capacity covers every run", *)
(* agent.rs), also when hosts and supervisors die.                         *)
Holding == {a \in launch : ~Finished(a)}
Capacity ==
  INSTANCE BotCapacity
    WITH holding <- Holding, settled <- {a \in Attempts : Finished(a)}
BotsShared == Capacity!Spec

(* A completed receipt says that nothing of the agent executes any more,   *)
(* also of the children an agent left behind ("a stuck tool cannot release *)
(* a retry merely because its leader exited").                             *)
NothingOutlives == \A a \in Attempts : Finished(a) => a \notin group

(* What a host was once told of a finished attempt stays so, and a success *)
(* is never told of an attempt that a host has asked to stop: neither the  *)
(* cancel file nor the receipt can come later than the other unseen.       *)
OutcomeKept ==
  \A a \in Attempts :
    observed[a] # None => Finished(a) /\ observed[a] = Outcome(a)

(* The result delivered is one this launch wrote, not one found in its     *)
(* directory ("A fresh launch must earn fresh result evidence").           *)
FreshResult == \A a \in Attempts : Finished(a) => receipt[a].result # "left"

(* A resumed attempt is launched with the owner's answer in its task once, *)
(* wherever a host died while it prepared it.                              *)
AnsweredOnce ==
  \A a \in launch : task[a] = IF Resumes[a] = None THEN 0 ELSE 1

(* An attempt is given a supervisor once, however often the host that      *)
(* forgot it asks ("never automatically relaunched").                      *)
SupervisedOnce ==
  [][\A a \in Attempts :
       sup'[a] = "spawned" => sup[a] \in {"none", "spawned"}]_vars

(* A supervisor ends an attempt that is cancelled or late, whether a host  *)
(* lives or not and whatever the agent does.                               *)
EndsInTime ==
  \A a \in Attempts :
    a \in cancel \cup late /\ Supervised(a) ~> ~Supervised(a)
=============================================================================
