--------------------------- MODULE ServiceProofs ---------------------------
(***************************************************************************)
(* Proofs about what the hub relies on: the visits of a run's event log    *)
(* (VisitLog), for every workflow; the tracker (Tracker), for any          *)
(* requests, people and sizes of a page; the check that a workflow cannot  *)
(* run for ever by itself (WorkflowCycles), for any steps; publication     *)
(* (CodeHost), evidence (Checks) and the creation of a run (Intake).       *)
(*                                                                         *)
(* The log: a run's counters are those of its log because every step of    *)
(* the run logs one event of one step.  The tracker: the memory and the    *)
(* file of a tracker say of its requests only what is so in the thread     *)
(* (TrackerInv); then each exchange is a step of Correspondence, and a     *)
(* cursor leaves nothing behind it that answers its request (CursorInv).   *)
(* The cycles: the counts are those of the edges from the steps that are   *)
(* left, and steps that lead to one another are never removed (CyclesInv). *)
(***************************************************************************)
EXTENDS VisitLog, FlowRunProofs, FiniteSetTheorems, WellFoundedInduction, TLAPS

-----------------------------------------------------------------------------
(* The visits of the event log (VisitLog). *)

\* q is r with one more event of its current step logged, whose route is
\* `route`: what hub::visits makes of that event.
Logs(r, q, route) ==
  /\ q.last = r.current
  /\ \A s \in Steps :
       q.visits[s] = r.visits[s]
                       + (IF s = r.current /\ r.last # s THEN 1 ELSE 0)
                       + (IF s = r.current /\ route = s THEN 1 ELSE 0)

\* Any event but a route.
LEMMA EventLogs ==
  ASSUME NEW r \in RunType
  PROVE  Logs(r, Event(r), None)
<1> DEFINE n == IF r.last = r.current THEN r.visits[r.current]
                ELSE r.visits[r.current] + 1
           v == [r.visits EXCEPT ![r.current] = n]
<1>1. r.current \in Steps /\ r.visits \in [Steps -> Nat] /\ None \notin Steps
  BY FlowAssumption DEF RunType
<1>2. Event(r) = [r EXCEPT !.visits = v, !.last = r.current]
  BY DEF Event
<1>3. /\ v[r.current] = n
      /\ \A s \in Steps \ {r.current} : v[s] = r.visits[s]
  BY <1>1
<1> HIDE DEF v
<1>4. Event(r).visits = v /\ Event(r).last = r.current
  BY <1>2 DEF RunType
<1>5. \A s \in Steps : r.visits[s] \in Nat
  BY <1>1
<1>6. QED
  BY <1>1, <1>3, <1>4, <1>5 DEF Logs

\* A transition logs one event, with its target.
LEMMA TransitionLogs ==
  ASSUME NEW r \in RunType, NEW next \in Target
  PROVE  /\ Logs(r, Transition(r, next), next)
         /\ Transition(r, next).current
              = IF next = None THEN r.current ELSE next
<1> DEFINE left == [LeaveStep(r) EXCEPT !.active = None]
           e == Event(left)
<1>1. left \in RunType
  <2>1. LeaveStep(r) \in RunType
    BY LeaveStepFacts
  <2>2. QED
    BY <2>1 DEF RunType
<1>2. /\ left.current = r.current /\ left.visits = r.visits
      /\ left.last = r.last
  BY DEF LeaveStep, RunType
<1> HIDE DEF left
<1>3. e \in RunType /\ Logs(left, e, None) /\ e.current = r.current
  BY <1>1, <1>2, EventFacts, EventLogs
<1>4. Logs(r, e, None)
  BY <1>2, <1>3 DEF Logs
<1>5. CASE next = None
  <2>1. Transition(r, next) = [e EXCEPT !.status = "Done"]
    BY <1>5 DEF Transition, left
  <2> HIDE DEF e
  <2>2. /\ Transition(r, next).current = e.current
        /\ Transition(r, next).visits = e.visits
        /\ Transition(r, next).last = e.last
    BY <1>3, <2>1 DEF RunType
  <2>3. QED
    BY <1>3, <1>4, <1>5, <2>2 DEF Logs
<1>6. CASE next # None
  <2> DEFINE v == [e.visits EXCEPT ![next] = @ + 1]
             x == IF next = r.current THEN [e EXCEPT !.visits = v] ELSE e
  <2>1. next \in Steps /\ None \notin Steps
    BY <1>6, FlowAssumption DEF Target
  <2>2. Transition(r, next) = [x EXCEPT !.current = next, !.status = "Ready"]
    BY <1>2, <1>6 DEF Transition, RouteEvent, left
  <2> HIDE DEF e
  <2>3. e.visits \in [Steps -> Nat]
    BY <1>3 DEF RunType
  <2>4. /\ v[next] = e.visits[next] + 1
        /\ \A s \in Steps \ {next} : v[s] = e.visits[s]
    BY <2>1, <2>3
  <2>5. r.current \in Steps /\ r.visits \in [Steps -> Nat]
    BY DEF RunType
  <2> HIDE DEF v
  <2>6. /\ x.last = e.last
        /\ x.visits = IF next = r.current THEN v ELSE e.visits
    BY <1>3 DEF RunType
  <2>7. /\ Transition(r, next).visits = x.visits
        /\ Transition(r, next).last = x.last
        /\ Transition(r, next).current = next
    <3>1. CASE next = r.current
      <4>1. Transition(r, next) = [e EXCEPT !.visits = v, !.current = next,
                                            !.status = "Ready"]
        BY <1>3, <2>2, <3>1 DEF RunType
      <4>2. QED
        BY <1>3, <2>6, <3>1, <4>1 DEF RunType
    <3>2. CASE next # r.current
      <4>1. Transition(r, next) = [e EXCEPT !.current = next,
                                            !.status = "Ready"]
        BY <2>2, <3>2
      <4>2. QED
        BY <1>3, <2>6, <3>2, <4>1 DEF RunType
    <3>3. QED
      BY <3>1, <3>2
  <2> HIDE DEF x
  <2>8. \A s \in Steps : e.visits[s] \in Nat /\ r.visits[s] \in Nat
    BY <2>3, <2>5
  <2>9. \A s \in Steps :
          x.visits[s] = e.visits[s]
                          + (IF s = r.current /\ next = s THEN 1 ELSE 0)
    <3> SUFFICES ASSUME NEW s \in Steps
                 PROVE  x.visits[s] = e.visits[s]
                          + (IF s = r.current /\ next = s THEN 1 ELSE 0)
      OBVIOUS
    <3>1. CASE next = r.current
      <4>1. x.visits[s] = v[s]
        BY <2>6, <3>1
      <4>2. v[s] = e.visits[s] + (IF s = next THEN 1 ELSE 0)
        BY <2>4, <2>8
      <4>3. QED
        BY <3>1, <4>1, <4>2
    <3>2. CASE next # r.current
      <4>1. x.visits[s] = e.visits[s]
        BY <2>6, <3>2
      <4>2. QED
        BY <2>8, <3>2, <4>1
    <3>3. QED
      BY <3>1, <3>2
  <2>10. QED
    BY <1>4, <1>6, <2>1, <2>5, <2>6, <2>7, <2>8, <2>9 DEF Logs
<1>7. QED
  BY <1>5, <1>6

\* An approval logs one event, of the gate.
LEMMA ApprovalLogs ==
  ASSUME NEW r \in RunType
  PROVE  /\ Logs(r, ApproveGate(r), None)
         /\ ApproveGate(r).current
              = IF Flow[r.current].next = None THEN r.current
                ELSE Flow[r.current].next
<1> DEFINE e == Event(r)
           left == LeaveStep(e)
           next == Flow[r.current].next
<1>1. e \in RunType /\ Logs(r, e, None) /\ e.current = r.current
  BY EventFacts, EventLogs
<1> HIDE DEF e
<1>2. /\ left \in RunType /\ left.current = e.current
      /\ left.visits = e.visits /\ left.last = e.last
  <2>1. left \in RunType /\ left.current = e.current
    BY <1>1, LeaveStepFacts
  <2>2. left.visits = e.visits /\ left.last = e.last
    BY <1>1 DEF LeaveStep, RunType
  <2>3. QED
    BY <2>1, <2>2
<1>3. ApproveGate(r) = IF next = None THEN [left EXCEPT !.status = "Done"]
                       ELSE [left EXCEPT !.current = next, !.status = "Ready"]
  BY DEF ApproveGate, e
<1> HIDE DEF left, next
<1>4. /\ ApproveGate(r).visits = left.visits
      /\ ApproveGate(r).last = left.last
      /\ ApproveGate(r).current = IF next = None THEN left.current ELSE next
  BY <1>2, <1>3 DEF RunType
<1>5. QED
  BY <1>1, <1>2, <1>4 DEF Logs, next

-----------------------------------------------------------------------------
Entries == [step : Steps, route : Target]

\* The run has the last step and the visits that its log tells.
LogInv ==
  /\ run \in RunType
  /\ log \in Seq(Entries)
  /\ run.last = LastStep
  /\ \A s \in Steps :
       run.visits[s] = Cardinality(Entered(s)) + Cardinality(Rerouted(s))

\* Places of a log are numbers up to its length.
LEMMA PlacesFinite ==
  ASSUME log \in Seq(Entries), NEW s
  PROVE  /\ IsFiniteSet(Entered(s)) /\ IsFiniteSet(Rerouted(s))
         /\ Cardinality(Entered(s)) \in Nat /\ Cardinality(Rerouted(s)) \in Nat
<1>1. Len(log) \in Nat /\ DOMAIN log = 1 .. Len(log)
  OBVIOUS
<1>2. IsFiniteSet(1 .. Len(log))
  BY <1>1, FS_Interval
<1>3. Entered(s) \in SUBSET (1 .. Len(log)) /\ Rerouted(s) \in SUBSET (1 .. Len(log))
  BY <1>1 DEF Entered, Rerouted
<1>4. IsFiniteSet(Entered(s)) /\ IsFiniteSet(Rerouted(s))
  BY <1>2, <1>3, FS_Subset
<1>5. QED
  BY <1>4, FS_CardinalityType

\* An event adds its place to the entries of its step, unless the event
\* before was of that step, and to its reroutes if it leads back to it.
LEMMA LogGrows ==
  ASSUME log \in Seq(Entries), NEW step \in Steps, NEW route \in Target,
         log' = Append(log, Logged(step, route)), NEW s \in Steps
  PROVE  /\ log' \in Seq(Entries)
         /\ LastStep' = step
         /\ Cardinality(Entered(s)') = Cardinality(Entered(s))
              + (IF s = step /\ LastStep # s THEN 1 ELSE 0)
         /\ Cardinality(Rerouted(s)') = Cardinality(Rerouted(s))
              + (IF s = step /\ route = s THEN 1 ELSE 0)
<1> DEFINE e == Logged(step, route)
           end == Len(log) + 1
<1>1. e \in Entries /\ e.step = step /\ e.route = route
  BY DEF Entries, Logged
<1> HIDE DEF e
<1>2. /\ log' = Append(log, e) /\ Len(log) \in Nat
      /\ DOMAIN log = 1 .. Len(log) /\ None \notin Steps
  BY FlowAssumption DEF e
<1>3. /\ log' \in Seq(Entries) /\ Len(log') = end
      /\ DOMAIN log' = 1 .. end /\ log'[end] = e
      /\ \A i \in 1 .. Len(log) : log'[i] = log[i]
  BY <1>1, <1>2
<1>4. log' # <<>>
  BY <1>2, <1>3
<1>5. LastStep' = step
  BY <1>1, <1>3, <1>4 DEF LastStep
<1>6. end \notin Entered(s) /\ end \notin Rerouted(s)
  BY <1>2 DEF Entered, Rerouted
<1>7. Cardinality(Entered(s)') = Cardinality(Entered(s))
        + (IF s = step /\ LastStep # s THEN 1 ELSE 0)
  <2>1. \A i \in 1 .. Len(log) : i \in Entered(s)' <=> i \in Entered(s)
    BY <1>2, <1>3 DEF Entered
  <2>2. end \in Entered(s)' <=> s = step /\ LastStep # s
    <3>1. CASE log = <<>>
      BY <1>1, <1>2, <1>3, <3>1 DEF Entered, LastStep
    <3>2. CASE log # <<>>
      <4>1. Len(log) \in 1 .. Len(log)
        BY <1>2, <3>2
      <4>2. log'[end - 1] = log[Len(log)] /\ end # 1
        BY <1>2, <1>3, <4>1
      <4>a. end \in DOMAIN log'
        BY <1>2, <1>3
      <4>3. end \in Entered(s)' <=> log'[end].step = s /\ log'[end - 1].step # s
        BY <4>2, <4>a DEF Entered
      <4>4. LastStep = log[Len(log)].step
        BY <3>2 DEF LastStep
      <4>5. QED
        BY <1>1, <1>3, <4>2, <4>3, <4>4
    <3>3. QED
      BY <3>1, <3>2
  <2>3. \A i \in Entered(s)' : i \in 1 .. Len(log) \/ i = end
    BY <1>2, <1>3 DEF Entered
  <2>4. \A i \in Entered(s) : i \in 1 .. Len(log)
    BY <1>2 DEF Entered
  <2>5. CASE s = step /\ LastStep # s
    <3>1. Entered(s)' = Entered(s) \cup {end}
      BY <2>1, <2>2, <2>3, <2>4, <2>5
    <3>2. Cardinality(Entered(s) \cup {end}) = Cardinality(Entered(s)) + 1
      BY <1>6, PlacesFinite, FS_AddElement
    <3>3. QED
      BY <2>5, <3>1, <3>2
  <2>6. CASE ~(s = step /\ LastStep # s)
    <3>1. Entered(s)' = Entered(s)
      BY <2>1, <2>2, <2>3, <2>4, <2>6
    <3>2. QED
      BY <2>6, <3>1, PlacesFinite
  <2>7. QED
    BY <2>5, <2>6
<1>8. Cardinality(Rerouted(s)') = Cardinality(Rerouted(s))
        + (IF s = step /\ route = s THEN 1 ELSE 0)
  <2>1. \A i \in 1 .. Len(log) : i \in Rerouted(s)' <=> i \in Rerouted(s)
    BY <1>2, <1>3 DEF Rerouted
  <2>2. end \in Rerouted(s)' <=> s = step /\ route = s
    BY <1>1, <1>2, <1>3 DEF Rerouted
  <2>3. \A i \in Rerouted(s)' : i \in 1 .. Len(log) \/ i = end
    BY <1>2, <1>3 DEF Rerouted
  <2>4. \A i \in Rerouted(s) : i \in 1 .. Len(log)
    BY <1>2 DEF Rerouted
  <2>5. CASE s = step /\ route = s
    <3>1. Rerouted(s)' = Rerouted(s) \cup {end}
      BY <2>1, <2>2, <2>3, <2>4, <2>5
    <3>2. Cardinality(Rerouted(s) \cup {end}) = Cardinality(Rerouted(s)) + 1
      BY <1>6, PlacesFinite, FS_AddElement
    <3>3. QED
      BY <2>5, <3>1, <3>2
  <2>6. CASE ~(s = step /\ route = s)
    <3>1. Rerouted(s)' = Rerouted(s)
      BY <2>1, <2>2, <2>3, <2>4, <2>6
    <3>2. QED
      BY <2>6, <3>1, PlacesFinite
  <2>7. QED
    BY <2>5, <2>6
<1>9. QED
  BY <1>3, <1>5, <1>7, <1>8

\* A run that logs what its log is told keeps the agreement, and the visits
\* it counts of s grow by the entry of s, if it enters s.
LEMMA LogsInStep ==
  ASSUME LogInv, NEW route \in Target, run' \in RunType,
         Logs(run, run', route), log' = Append(log, Logged(run.current, route))
  PROVE  LogInv'
<1>1. run.current \in Steps /\ log \in Seq(Entries)
  BY DEF LogInv, RunType
<1>2. /\ log' \in Seq(Entries)
      /\ LastStep' = run.current
      /\ \A s \in Steps :
           /\ Cardinality(Entered(s)') = Cardinality(Entered(s))
                + (IF s = run.current /\ LastStep # s THEN 1 ELSE 0)
           /\ Cardinality(Rerouted(s)') = Cardinality(Rerouted(s))
                + (IF s = run.current /\ route = s THEN 1 ELSE 0)
  BY <1>1, LogGrows
<1>3. run'.last = LastStep'
  BY <1>2 DEF Logs
<1>4. \A s \in Steps : run'.visits[s]
                        = Cardinality(Entered(s)') + Cardinality(Rerouted(s)')
  <2> SUFFICES ASSUME NEW s \in Steps
               PROVE  run'.visits[s]
                        = Cardinality(Entered(s)') + Cardinality(Rerouted(s)')
    OBVIOUS
  <2>1. /\ Cardinality(Entered(s)) \in Nat /\ Cardinality(Rerouted(s)) \in Nat
        /\ run.visits[s] = Cardinality(Entered(s)) + Cardinality(Rerouted(s))
        /\ run.last = LastStep
    BY <1>1, PlacesFinite DEF LogInv
  <2>2. run'.visits[s] = run.visits[s]
                           + (IF s = run.current /\ run.last # s THEN 1 ELSE 0)
                           + (IF s = run.current /\ route = s THEN 1 ELSE 0)
    BY DEF Logs
  <2>3. /\ Cardinality(Entered(s)') = Cardinality(Entered(s))
             + (IF s = run.current /\ LastStep # s THEN 1 ELSE 0)
        /\ Cardinality(Rerouted(s)') = Cardinality(Rerouted(s))
             + (IF s = run.current /\ route = s THEN 1 ELSE 0)
    BY <1>2
  <2>4. QED
    BY <2>1, <2>2, <2>3
<1>5. QED
  BY <1>2, <1>3, <1>4 DEF LogInv

\* Every step logs one event of the run, with a route if it is one.
LEMMA LogSteps ==
  ASSUME LogInv, LogNext
  PROVE  \E route \in Target :
           /\ Logs(run, run', route) /\ run' \in RunType
           /\ log' = Append(log, Logged(run.current, route))
           /\ route # None <=> LogRoute
           /\ route # None => run'.current = route
<1>1. /\ run \in RunType /\ run.current \in Steps /\ log \in Seq(Entries)
      /\ None \notin Steps
  BY FlowAssumption DEF LogInv, RunType
<1>2. \A route \in Target :
        /\ log' = Append(log, Logged(run.current, None))
        /\ log' = Append(log, Logged(run.current, route))
        => route = None
  <2> SUFFICES ASSUME NEW route \in Target,
                      Append(log, Logged(run.current, None))
                        = Append(log, Logged(run.current, route))
               PROVE  route = None
    OBVIOUS
  <2>1. /\ Logged(run.current, None) \in Entries
        /\ Logged(run.current, route) \in Entries
    BY <1>1 DEF Entries, Logged, Target
  <2>2. Logged(run.current, None) = Logged(run.current, route)
    BY <1>1, <2>1
  <2>3. QED
    BY <2>2 DEF Logged
<1>3. log' = Append(log, Logged(run.current, None)) => ~LogRoute
  <2>1. \A next \in Steps : next \in Target /\ next # None
    BY <1>1 DEF Target
  <2>2. QED
    BY <1>2, <2>1 DEF LogRoute
<1>4. None \in Target
  BY DEF Target
<1>5. CASE LogEvent
  BY <1>1, <1>3, <1>4, <1>5, EventFacts, EventLogs DEF LogEvent
<1>6. CASE LogRoute
  <2>1. PICK next \in Steps :
          /\ run' = Transition(run, next)
          /\ log' = Append(log, Logged(run.current, next))
    BY <1>6 DEF LogRoute
  <2>2. next \in Target /\ next # None
    BY <1>1 DEF Target
  <2>3. /\ Logs(run, run', next) /\ run' \in RunType /\ run'.current = next
    BY <1>1, <2>1, <2>2, TransitionFacts, TransitionLogs
  <2>4. QED
    BY <1>6, <2>1, <2>2, <2>3
<1>7. CASE LogDone
  BY <1>1, <1>3, <1>4, <1>7, TransitionFacts, TransitionLogs DEF LogDone
<1>8. CASE LogApproval
  BY <1>1, <1>3, <1>4, <1>8, ApproveGateFacts, ApprovalLogs DEF LogApproval
<1>9. QED
  BY <1>5, <1>6, <1>7, <1>8 DEF LogNext

LEMMA LogInvariance ==
  ASSUME Start \in Steps
  PROVE  LogSpec => []LogInv
<1>1. LogInit => LogInv
  <2> SUFFICES ASSUME LogInit PROVE LogInv
    OBVIOUS
  <2>1. run = NewRun(Start) /\ log = <<>>
    BY DEF LogInit
  <2>2. NewRun(Start) \in RunType
    BY DEF NewRun, RunType, Statuses, Target
  <2>3. /\ run.last = None
        /\ \A s \in Steps : run.visits[s] = 0
    BY <2>1 DEF NewRun
  <2>4. LastStep = None
    BY <2>1 DEF LastStep
  <2>5. \A s \in Steps : Entered(s) = {} /\ Rerouted(s) = {}
    BY <2>1 DEF Entered, Rerouted
  <2>6. \A s \in Steps : run.visits[s]
                           = Cardinality(Entered(s)) + Cardinality(Rerouted(s))
    <3> SUFFICES ASSUME NEW s \in Steps
                 PROVE  run.visits[s]
                          = Cardinality(Entered(s)) + Cardinality(Rerouted(s))
      OBVIOUS
    <3>1. Cardinality(Entered(s)) = 0 /\ Cardinality(Rerouted(s)) = 0
      BY <2>5, FS_EmptySet
    <3>2. 0 + 0 = 0
      OBVIOUS
    <3>3. QED
      BY <2>3, <3>1, <3>2
  <2>7. log \in Seq(Entries)
    BY <2>1
  <2>8. QED
    BY <2>1, <2>2, <2>3, <2>4, <2>6, <2>7 DEF LogInv
<1>2. LogInv /\ [LogNext]_lvars => LogInv'
  <2> SUFFICES ASSUME LogInv, [LogNext]_lvars PROVE LogInv'
    OBVIOUS
  <2>1. CASE LogNext
    BY <2>1, LogSteps, LogsInStep
  <2>2. CASE UNCHANGED lvars
    BY <2>2 DEF lvars, LogInv, LastStep, Entered, Rerouted
  <2>3. QED
    BY <2>1, <2>2
<1>3. QED
  BY <1>1, <1>2, PTL DEF LogSpec

\* What the run counts of a step is what its log tells.
LEMMA CountedIsLogged == LogInv => VisitsOfLog
<1> SUFFICES ASSUME LogInv, NEW s \in Steps
             PROVE  Visits(run, s) = Count(run, s)
  BY DEF VisitsOfLog
<1>1. /\ log \in Seq(Entries) /\ run.last = LastStep
      /\ run.visits[s] = Cardinality(Entered(s)) + Cardinality(Rerouted(s))
  BY DEF LogInv
<1>2. Cardinality(Entered(s)) \in Nat /\ Cardinality(Rerouted(s)) \in Nat
  BY <1>1, PlacesFinite
<1>3. QED
  BY <1>1, <1>2 DEF Visits, Count

(* The visits a limit is compared with are those hub::visits derives from  *)
(* the log, for every workflow and every log the hub and the controls can  *)
(* write, however long.                                                    *)
THEOREM CountsTheLog ==
  ASSUME Start \in Steps
  PROVE  LogSpec => []VisitsOfLog
<1>1. QED
  BY CountedIsLogged, LogInvariance, PTL

(* A step that is entered is charged one visit and no other step any: a    *)
(* retry, a check rerun, an answer or an alert repeats the present visit.  *)
THEOREM OneVisitEach ==
  ASSUME Start \in Steps
  PROVE  LogSpec => EntryIsOneVisit
<1> DEFINE Charged ==
      \A s \in Steps :
        Count(run, s)' - Count(run, s) =
          IF run'.current = s /\ (run.current # s \/ LogRoute) THEN 1 ELSE 0
<1>1. LogInv' => VisitsOfLog'
  BY CountedIsLogged, PTL
<1>2. LogInv /\ LogInv' /\ [LogNext]_lvars => [Charged]_lvars
  <2> SUFFICES ASSUME LogInv, LogInv', LogNext PROVE Charged
    OBVIOUS
  <2>1. PICK route \in Target :
          /\ Logs(run, run', route)
          /\ log' = Append(log, Logged(run.current, route))
          /\ route # None <=> LogRoute
          /\ route # None => run'.current = route
    BY LogSteps
  <2> SUFFICES ASSUME NEW s \in Steps
               PROVE  Count(run, s)' - Count(run, s) =
                        IF run'.current = s /\ (run.current # s \/ LogRoute)
                        THEN 1 ELSE 0
    OBVIOUS
  <2>2. Count(run, s) = Visits(run, s)
    BY CountedIsLogged DEF VisitsOfLog
  <2>3. Count(run, s)' = Visits(run', s)
    BY <1>1 DEF VisitsOfLog, Visits
  <2>4. /\ run \in RunType /\ run' \in RunType /\ None \notin Steps
    BY FlowAssumption DEF LogInv
  <2>5. /\ run.visits[s] \in Nat /\ run'.visits[s] \in Nat
        /\ run.current \in Steps
    BY <2>4 DEF RunType
  <2>6. CASE route = None
    <3>1. ~LogRoute
      BY <2>1, <2>6
    <3>2. QED
      BY <2>1, <2>2, <2>3, <2>4, <2>5, <2>6, <3>1 DEF Logs, Visits
  <2>7. CASE route # None
    <3>1. LogRoute /\ run'.current = route
      BY <2>1, <2>7
    <3>2. QED
      BY <2>1, <2>2, <2>3, <2>4, <2>5, <3>1 DEF Logs, Visits
  <2>8. QED
    BY <2>6, <2>7
<1>3. QED
  BY <1>2, LogInvariance, PTL DEF LogSpec, EntryIsOneVisit
-----------------------------------------------------------------------------
(* The tracker (Tracker). *)

CONSTANTS
  GateIds, QuestionIds, Alerts, Rendered, Go, Blank, Words, Owner, App,
  Stranger, Remarks, PageSize, PageLimit, MaxRemarks, MaxTime

VARIABLES mem, disk, thread, clock, call, heard

T == INSTANCE Tracker WITH Gates <- GateIds, Questions <- QuestionIds

Topics == GateIds \cup QuestionIds \cup Alerts
Bodies == (UNION {Rendered[k] : k \in Topics}) \cup T!Replies
Ids == {<<k, 0>> : k \in T!Keys}
Posts ==
  [id : Ids \cup {<<None, 0>>}, body : Bodies,
   user : {App} \cup {remark.user : remark \in Remarks},
   time : Nat, parent : Ids \cup {None}]
Cursors == [since : Nat, after : Nat, max : Nat]
Requests ==
  [body : Bodies, posted : BOOLEAN, cursor : Cursors,
   reply : T!Replies \cup {None}]
IsKnown(m) ==
  /\ m = [k \in DOMAIN m |-> m[k]] /\ DOMAIN m \subseteq T!Keys
  /\ \A k \in DOMAIN m : m[k] \in Requests
Calls ==
  [at : {"idle", "bind", "create", "recover", "reply"},
   for : Topics \cup {None}, key : T!Keys \cup {None},
   body : Bodies \cup {None}, pages : Nat]

TrackerTypes ==
  /\ thread \in Seq(Posts) /\ clock \in Nat \ {0}
  /\ IsKnown(mem) /\ IsKnown(disk)
  /\ call \in Calls

\* The call in progress: about the request the hub asked for, or about the
\* acknowledgement of the reply that was read to it.
CallInv ==
  call.at # "idle" =>
    /\ call.for \in Topics /\ call.body \in Bodies
    /\ \/ call.key = call.for
       \/ /\ call.for \in QuestionIds /\ call.key = T!Ack(call.for)
          /\ call.for \in DOMAIN mem
          /\ mem[call.for].reply = call.body /\ call.body # None
          /\ call.at # "reply"
    /\ call.at # "bind" => call.key \in DOMAIN mem
    /\ call.at = "reply" => call.key \in GateIds \cup QuestionIds

\* The comments of the thread: a request has one at most.
ThreadInv ==
  /\ \A i, j \in DOMAIN thread :
       thread[i].id = thread[j].id /\ thread[i].id # <<None, 0>> => i = j
  /\ \A i \in DOMAIN thread, k \in T!Keys :
       thread[i].parent = <<k, 0>> =>
         T!Published(k) /\ thread[i].body \in T!Replies

\* Comments are in the order of their times.
TimesInv ==
  /\ \A i \in DOMAIN thread : thread[i].time \in 1 .. clock
  /\ \A i, j \in DOMAIN thread : i < j => thread[i].time <= thread[j].time

\* The comment of a request is among posts.
IsIn(k, posts) == \E i \in DOMAIN posts : posts[i].id = T!CommentId(k)

\* What is noted of a request in m is so in the thread.
IsTrue(m, posts) ==
  \A k \in DOMAIN m :
    /\ m[k].posted => IsIn(k, posts)
    /\ m[k].reply # None =>
         /\ k \in GateIds \cup QuestionIds
         /\ \E i \in DOMAIN posts :
              T!Fits(posts[i], k) /\ posts[i].body = m[k].reply

\* Only of a gate may the memory be ahead of the file.
InStep ==
  \A k \in T!Keys \ GateIds :
    /\ k \in DOMAIN mem <=> k \in DOMAIN disk
    /\ k \in DOMAIN mem => mem[k] = disk[k]

\* What the hub has heard is the one reply there can be, or the one noted.
HeardInv ==
  \A entry \in heard :
    \E k \in GateIds \cup QuestionIds, w \in T!Replies :
      /\ entry = <<k, w>>
      /\ k \in GateIds => w = Go
      /\ k \in QuestionIds => k \in DOMAIN disk /\ disk[k].reply = w

TrackerInv ==
  /\ TrackerTypes /\ CallInv /\ ThreadInv /\ TimesInv
  /\ IsTrue(mem, thread) /\ IsTrue(disk, thread) /\ InStep /\ HeardInv

\* The assumption, and what it says of requests and their comments.
LEMMA KeyFacts ==
  ASSUME T!TrackerAssumption
  PROVE  /\ None \notin T!Replies /\ None \notin T!Keys
         /\ \A k \in T!Keys : <<k, 0>> # None /\ <<k, 0>> # <<None, 0>>
         /\ \A k \in T!Keys : T!CommentId(k) = <<k, 0>>
         /\ Topics \subseteq T!Keys
         /\ \A q \in QuestionIds : T!Ack(q) \in T!Keys
         /\ \A k \in Topics : T!Ack(k) \notin Topics
         /\ \A k \in GateIds : k \notin QuestionIds /\ k \notin Alerts
         /\ \A k \in QuestionIds : k \notin Alerts
         /\ Go \in T!Replies /\ T!Replies \subseteq Bodies
<1>1. T!TrackerAssumption
  OBVIOUS
<1>2. /\ None \notin T!Replies /\ None \notin T!Keys
      /\ \A k \in T!Keys : <<k, 0>> # None
  BY <1>1 DEF T!TrackerAssumption
<1>3. \A k \in T!Keys : <<k, 0>> # <<None, 0>>
  BY <1>2
<1>4. \A k \in T!Keys : T!CommentId(k) = <<k, 0>>
  BY DEF T!CommentId
<1>5. Topics \subseteq T!Keys
  BY DEF Topics, T!Keys
<1>6. /\ \A q \in QuestionIds : T!Ack(q) \in T!Keys
      /\ \A k \in Topics : T!Ack(k) \notin Topics
  BY <1>1 DEF T!TrackerAssumption, T!Keys, Topics
<1>7. /\ \A k \in GateIds : k \notin QuestionIds /\ k \notin Alerts
      /\ \A k \in QuestionIds : k \notin Alerts
  BY <1>1 DEF T!TrackerAssumption
<1>8. Go \in T!Replies /\ T!Replies \subseteq Bodies
  BY DEF T!Replies, Bodies
<1>9. QED
  BY <1>2, <1>3, <1>4, <1>5, <1>6, <1>7, <1>8

LEMMA TrackerCardinality == \A S : T!Cardinality(S) = Cardinality(S)
BY DEF T!Cardinality, Cardinality

-----------------------------------------------------------------------------
(* What the thread says, and how a comment changes it. *)

\* A comment more: the thread is a function of its places.
LEMMA PostFacts ==
  ASSUME thread \in Seq(Posts), NEW post \in Posts,
         thread' = Append(thread, post)
  PROVE  /\ thread' \in Seq(Posts)
         /\ Len(thread) \in Nat /\ Len(thread) + 1 \notin DOMAIN thread
         /\ DOMAIN thread' = DOMAIN thread \cup {Len(thread) + 1}
         /\ thread'[Len(thread) + 1] = post
         /\ \A i \in DOMAIN thread : thread'[i] = thread[i]
<1>1. Len(thread) \in Nat /\ DOMAIN thread = 1 .. Len(thread)
  OBVIOUS
<1>2. thread' \in Seq(Posts) /\ Len(thread') = Len(thread) + 1
      /\ DOMAIN thread' = 1 .. Len(thread')
  OBVIOUS
<1>3. /\ thread'[Len(thread) + 1] = post
      /\ \A i \in 1 .. Len(thread) : thread'[i] = thread[i]
  OBVIOUS
<1>4. 1 .. Len(thread) + 1 = (1 .. Len(thread)) \cup {Len(thread) + 1}
  BY <1>1
<1>5. QED
  BY <1>1, <1>2, <1>3, <1>4

\* A request is published when its comment is in the thread, and there is one.
ThreadKnown == T!TrackerAssumption /\ thread \in Seq(Posts) /\ ThreadInv
CopiesCounted ==
  \A k \in T!Keys : T!Copies[k] = IF T!Published(k) THEN 1 ELSE 0
LEMMA CopyFacts == ThreadKnown => CopiesCounted
<1> SUFFICES ASSUME T!TrackerAssumption, thread \in Seq(Posts), ThreadInv,
                    NEW k \in T!Keys
             PROVE  T!Copies[k] = IF T!Published(k) THEN 1 ELSE 0
  BY DEF ThreadKnown, CopiesCounted
<1>1. T!Copies[k] = Cardinality(T!Comments(k))
  BY TrackerCardinality DEF T!Copies
<1>2. \A i \in DOMAIN thread : thread[i] \in Posts
  OBVIOUS
<1>3. \A i \in DOMAIN thread : thread[i].id[1] = k <=> thread[i].id = <<k, 0>>
  <2> SUFFICES ASSUME NEW i \in DOMAIN thread
               PROVE  thread[i].id[1] = k <=> thread[i].id = <<k, 0>>
    OBVIOUS
  <2>1. \E l : thread[i].id = <<l, 0>>
    BY <1>2 DEF Posts, Ids
  <2>2. QED
    BY <2>1
<1>4. CASE T!Published(k)
  <2>1. PICK i \in DOMAIN thread : thread[i].id = <<k, 0>>
    BY <1>4 DEF T!Published, T!CommentId
  <2>2. <<k, 0>> # <<None, 0>>
    BY KeyFacts
  <2>3. \A j \in DOMAIN thread : thread[j].id = <<k, 0>> => j = i
    BY <2>1, <2>2 DEF ThreadInv
  <2>4. T!Comments(k) = {i}
    BY <1>3, <2>1, <2>3 DEF T!Comments
  <2>5. QED
    BY <1>1, <1>4, <2>4, FS_Singleton
<1>5. CASE ~T!Published(k)
  <2>1. T!Comments(k) = {}
    BY <1>3, <1>5 DEF T!Comments, T!Published, T!CommentId
  <2>2. QED
    BY <1>1, <1>5, <2>1, FS_EmptySet
<1>6. QED
  BY <1>4, <1>5

\* The owner has said what a fitting comment of theirs says.
LEMMA SaidFacts ==
  ASSUME T!TrackerAssumption, NEW k \in T!Keys, NEW i \in DOMAIN thread,
         T!Fits(thread[i], k)
  PROVE  thread[i].body \in T!Said[k]
<1>1. /\ thread[i].user = Owner /\ thread[i].parent = <<k, 0>>
      /\ thread[i].parent # None
  BY KeyFacts DEF T!Fits
<1>2. thread[i].parent[1] = k
  BY <1>1
<1>3. QED
  BY <1>1, <1>2 DEF T!Said

\* As long as the thread stays, so does what is seen of it.
LEMMA SameThread ==
  ASSUME thread' = thread
  PROVE  /\ T!Copies' = T!Copies /\ T!Said' = T!Said
         /\ \A k : T!Published(k)' <=> T!Published(k)
         /\ ThreadInv => ThreadInv'
BY DEF T!Copies, T!Comments, T!Said, T!Published, T!CommentId, ThreadInv

\* A comment leaves the others in the thread, and what is noted of them true.
LEMMA MorePosts ==
  ASSUME thread \in Seq(Posts), NEW post \in Posts,
         thread' = Append(thread, post)
  PROVE  /\ \A k : T!Published(k) => T!Published(k)'
         /\ \A k : T!Published(k)' =>
                     T!Published(k) \/ post.id = T!CommentId(k)
         /\ \A m : IsTrue(m, thread) => IsTrue(m, thread')
<1>1. /\ DOMAIN thread' = DOMAIN thread \cup {Len(thread) + 1}
      /\ thread'[Len(thread) + 1] = post
      /\ \A i \in DOMAIN thread : thread'[i] = thread[i]
  BY PostFacts
<1>2. \A k : T!Published(k) => T!Published(k)'
  BY <1>1 DEF T!Published, T!CommentId
<1>3. \A k : T!Published(k)' => T!Published(k) \/ post.id = T!CommentId(k)
  BY <1>1 DEF T!Published, T!CommentId
<1>4. \A m : IsTrue(m, thread) => IsTrue(m, thread')
  BY <1>1 DEF IsTrue, IsIn
<1>5. QED
  BY <1>2, <1>3, <1>4

\* How many comments there are of each request, after a step.
LEMMA CopiesThen ==
  ASSUME T!TrackerAssumption, thread' \in Seq(Posts), ThreadInv'
  PROVE  \A k \in T!Keys : T!Copies'[k] = IF T!Published(k)' THEN 1 ELSE 0
<1>1. ThreadKnown' => CopiesCounted'
  BY CopyFacts, PTL
<1>2. ThreadKnown'
  <2>1. T!TrackerAssumption'
    BY DEF T!TrackerAssumption, T!Replies, T!Keys, T!Ack
  <2>2. thread' \in Seq(Posts')
    BY DEF Posts, Ids, Bodies, Topics, T!Keys, T!Replies, T!Ack
  <2>3. QED
    BY <2>1, <2>2 DEF ThreadKnown
<1>3. QED
  BY <1>1, <1>2 DEF CopiesCounted, T!Keys, T!Ack

\* A request's comment that was not there before.
LEMMA PostRequest ==
  ASSUME T!TrackerAssumption, thread \in Seq(Posts), ThreadInv,
         NEW k \in T!Keys, ~T!Published(k),
         NEW post \in Posts, post.id = <<k, 0>>, post.parent = None,
         thread' = Append(thread, post)
  PROVE  /\ ThreadInv' /\ T!Published(k)'
         /\ T!Copies[k] = 0 /\ T!Copies' = [T!Copies EXCEPT ![k] = 1]
         /\ T!Said' = T!Said
<1> DEFINE end == Len(thread) + 1
<1>1. /\ thread' \in Seq(Posts) /\ end \notin DOMAIN thread
      /\ DOMAIN thread' = DOMAIN thread \cup {end}
      /\ thread'[end] = post
      /\ \A i \in DOMAIN thread : thread'[i] = thread[i]
  BY PostFacts
<1> HIDE DEF end
<1>2. /\ \A l : T!Published(l) => T!Published(l)'
      /\ \A l : T!Published(l)' => T!Published(l) \/ post.id = T!CommentId(l)
  BY MorePosts
<1>3. \A i \in DOMAIN thread : thread[i].id # <<k, 0>>
  BY DEF T!Published, T!CommentId
<1>4. T!Published(k)'
  BY <1>1 DEF T!Published, T!CommentId
<1>5. ThreadInv'
  <2>1. \A i, j \in DOMAIN thread' :
          thread'[i].id = thread'[j].id /\ thread'[i].id # <<None, 0>> => i = j
    BY <1>1, <1>3 DEF ThreadInv
  <2>2. \A l \in T!Keys : <<l, 0>> # None
    BY KeyFacts
  <2>3. \A i \in DOMAIN thread', l \in T!Keys :
          thread'[i].parent = <<l, 0>> =>
            T!Published(l)' /\ thread'[i].body \in T!Replies
    BY <1>1, <1>2, <2>2 DEF ThreadInv
  <2>4. QED
    BY <2>1, <2>3 DEF ThreadInv
<1>6. \A l \in T!Keys : T!Copies[l] = IF T!Published(l) THEN 1 ELSE 0
  BY CopyFacts DEF ThreadKnown, CopiesCounted
<1>7. \A l \in T!Keys : T!Copies'[l] = IF T!Published(l)' THEN 1 ELSE 0
  BY <1>1, <1>5, CopiesThen
<1>8. \A l \in T!Keys \ {k} : T!Published(l)' <=> T!Published(l)
  BY <1>2 DEF T!CommentId
<1>9. T!Copies[k] = 0 /\ T!Copies' = [T!Copies EXCEPT ![k] = 1]
  <2>1. /\ T!Copies = [l \in T!Keys |-> T!Copies[l]]
        /\ T!Copies' = [l \in T!Keys |-> T!Copies'[l]]
    BY DEF T!Copies
  <2>2. \A l \in T!Keys : T!Copies'[l] = IF l = k THEN 1 ELSE T!Copies[l]
    BY <1>4, <1>6, <1>7, <1>8
  <2> HIDE DEF T!Copies
  <2>3. QED
    BY <1>6, <2>1, <2>2
<1>10. T!Said' = T!Said
  <2>1. \A l \in T!Keys :
          {i \in DOMAIN thread' :
             /\ thread'[i].user = Owner
             /\ thread'[i].parent # None /\ thread'[i].parent[1] = l}
          = {i \in DOMAIN thread :
               /\ thread[i].user = Owner
               /\ thread[i].parent # None /\ thread[i].parent[1] = l}
    BY <1>1
  <2>2. QED
    BY <1>1, <2>1 DEF T!Said
<1>11. QED
  BY <1>4, <1>5, <1>9, <1>10

\* A remark of anybody is nobody's request.
LEMMA PostRemark ==
  ASSUME T!TrackerAssumption, thread \in Seq(Posts), ThreadInv,
         NEW remark \in Remarks,
         remark.to = None \/ T!Published(remark.to),
         NEW post \in Posts, post.id = <<None, 0>>,
         post.body = remark.body, post.user = remark.user,
         post.parent = IF remark.to = None THEN None ELSE <<remark.to, 0>>,
         thread' = Append(thread, post)
  PROVE  /\ ThreadInv' /\ T!Copies' = T!Copies
         /\ IF remark.user = Owner /\ remark.to # None
            THEN T!Said' = [T!Said EXCEPT ![remark.to] = @ \cup {remark.body}]
            ELSE T!Said' = T!Said
<1> DEFINE end == Len(thread) + 1
           to == remark.to
<1>1. /\ thread' \in Seq(Posts) /\ end \notin DOMAIN thread
      /\ DOMAIN thread' = DOMAIN thread \cup {end}
      /\ thread'[end] = post
      /\ \A i \in DOMAIN thread : thread'[i] = thread[i]
  BY PostFacts
<1> HIDE DEF end
<1>2. to \in T!Keys \cup {None} /\ remark.body \in T!Replies
  BY DEF T!TrackerAssumption
<1> HIDE DEF to
<1>3. \A k \in T!Keys : /\ <<k, 0>> # None /\ <<k, 0>> # <<None, 0>>
                         /\ T!CommentId(k) = <<k, 0>>
  BY KeyFacts
<1>4. \A l \in T!Keys : T!Published(l)' <=> T!Published(l)
  BY <1>3, MorePosts
<1>5. ThreadInv'
  <2>1. \A i, j \in DOMAIN thread' :
          thread'[i].id = thread'[j].id /\ thread'[i].id # <<None, 0>> => i = j
    BY <1>1 DEF ThreadInv
  <2>2. ASSUME NEW l \in T!Keys, post.parent = <<l, 0>>
        PROVE  to = l
    <3>1. to # None /\ <<to, 0>> = <<l, 0>>
      BY <1>3, <2>2 DEF to
    <3>2. QED
      BY <3>1
  <2>3. \A i \in DOMAIN thread', l \in T!Keys :
          thread'[i].parent = <<l, 0>> =>
            T!Published(l)' /\ thread'[i].body \in T!Replies
    <3> SUFFICES ASSUME NEW i \in DOMAIN thread', NEW l \in T!Keys,
                        thread'[i].parent = <<l, 0>>
                 PROVE  T!Published(l)' /\ thread'[i].body \in T!Replies
      OBVIOUS
    <3>1. CASE i = end
      <4>1. to = l /\ l # None
        BY <1>1, <2>2, <3>1, KeyFacts
      <4>2. T!Published(l)
        BY <4>1 DEF to
      <4>3. QED
        BY <1>1, <1>2, <1>4, <3>1, <4>2
    <3>2. CASE i # end
      BY <1>1, <1>4, <3>2 DEF ThreadInv
    <3>3. QED
      BY <3>1, <3>2
  <2>4. QED
    BY <2>1, <2>3 DEF ThreadInv
<1>6. T!Copies' = T!Copies
  <2>1. \A l \in T!Keys : T!Copies'[l] = T!Copies[l]
    <3>1. \A l \in T!Keys : T!Copies[l] = IF T!Published(l) THEN 1 ELSE 0
      BY CopyFacts DEF ThreadKnown, CopiesCounted
    <3>2. \A l \in T!Keys : T!Copies'[l] = IF T!Published(l)' THEN 1 ELSE 0
      BY <1>1, <1>5, CopiesThen
    <3>3. QED
      BY <1>4, <3>1, <3>2
  <2>2. /\ T!Copies = [l \in T!Keys |-> T!Copies[l]]
        /\ T!Copies' = [l \in T!Keys |-> T!Copies'[l]]
    BY DEF T!Copies
  <2> HIDE DEF T!Copies
  <2>3. QED
    BY <2>1, <2>2
<1> DEFINE Of(l) == {i \in DOMAIN thread : /\ thread[i].user = Owner
                                           /\ thread[i].parent # None
                                           /\ thread[i].parent[1] = l}
           Of2(l) == {i \in DOMAIN thread' : /\ thread'[i].user = Owner
                                             /\ thread'[i].parent # None
                                             /\ thread'[i].parent[1] = l}
<1>7. /\ T!Said = [l \in T!Keys |-> {thread[i].body : i \in Of(l)}]
      /\ T!Said' = [l \in T!Keys |-> {thread'[i].body : i \in Of2(l)}]
  BY DEF T!Said, T!Keys, T!Ack
<1>8. CASE remark.user = Owner /\ remark.to # None
  <2>1. to \in T!Keys /\ post.parent = <<to, 0>> /\ post.parent # None
    BY <1>2, <1>3, <1>8 DEF to
  <2>2. post.parent[1] = to /\ post.user = Owner
    BY <1>8, <2>1
  <2>3. /\ Of2(to) = Of(to) \cup {end}
        /\ \A l \in T!Keys \ {to} : Of2(l) = Of(l)
    BY <1>1, <2>1, <2>2
  <2>4. \A l \in T!Keys : \A i \in Of(l) : i \in DOMAIN thread
    OBVIOUS
  <2> HIDE DEF Of, Of2
  <2>5. /\ {thread'[i].body : i \in Of2(to)}
             = {thread[i].body : i \in Of(to)} \cup {remark.body}
        /\ \A l \in T!Keys \ {to} : {thread'[i].body : i \in Of2(l)}
             = {thread[i].body : i \in Of(l)}
    BY <1>1, <2>1, <2>3, <2>4
  <2>6. T!Said' = [T!Said EXCEPT ![to] = @ \cup {remark.body}]
    BY <1>7, <2>1, <2>5
  <2>7. QED
    BY <1>5, <1>6, <1>8, <2>6 DEF to
<1>9. CASE ~(remark.user = Owner /\ remark.to # None)
  <2>1. ~(post.user = Owner /\ post.parent # None)
    BY <1>9
  <2>2. \A l \in T!Keys : Of2(l) = Of(l)
    BY <1>1, <2>1
  <2>3. \A l \in T!Keys : \A i \in Of(l) : i \in DOMAIN thread
    OBVIOUS
  <2> HIDE DEF Of, Of2
  <2>4. \A l \in T!Keys : {thread'[i].body : i \in Of2(l)}
                             = {thread[i].body : i \in Of(l)}
    BY <1>1, <2>2, <2>3
  <2>5. T!Said' = T!Said
    BY <1>7, <2>4
  <2>6. QED
    BY <1>5, <1>6, <1>9, <2>5
<1>10. QED
  BY <1>8, <1>9
-----------------------------------------------------------------------------
(* The tracker's notes, and the reply the hub is told. *)

\* The thread keeps what is there, and gains at most comment k.
Puts(k) ==
  /\ T!Copies' = [T!Copies EXCEPT ![k] = 1] /\ T!Said' = T!Said
  /\ IsIn(k, thread')
  /\ thread' \in Seq(Posts) /\ ThreadInv'
  /\ \A m : IsTrue(m, thread) => IsTrue(m, thread')
  /\ clock' \in Nat \ {0} /\ TimesInv'

\* The reply noted of a question stays noted.
KeepsReplies ==
  \A q \in QuestionIds, w \in T!Replies :
    q \in DOMAIN disk /\ disk[q].reply = w =>
      q \in DOMAIN disk' /\ disk'[q].reply = w

\* Memory and file after a step.
NotesInv ==
  IsKnown(mem) /\ IsKnown(disk) /\ IsTrue(mem, thread) /\ IsTrue(disk, thread)
    /\ InStep

LEMMA WithFacts ==
  ASSUME IsKnown(mem), NEW k \in T!Keys, NEW r \in Requests
  PROVE  /\ IsKnown(T!With(k, r)) /\ DOMAIN T!With(k, r) = DOMAIN mem \cup {k}
         /\ T!With(k, r)[k] = r
         /\ \A l \in DOMAIN mem \ {k} : T!With(k, r)[l] = mem[l]
BY DEF IsKnown, T!With

\* A comment that is in the thread is put by doing nothing.
LEMMA PutsAgain ==
  ASSUME TrackerInv, T!TrackerAssumption, NEW k \in T!Keys, T!Published(k),
         UNCHANGED <<thread, clock>>
  PROVE  Puts(k)
<1>1. /\ T!Copies' = T!Copies /\ T!Said' = T!Said
      /\ IsIn(k, thread') /\ ThreadInv'
  BY SameThread DEF TrackerInv, T!Published, IsIn
<1>2. T!Copies[k] = 1
  BY CopyFacts DEF ThreadKnown, CopiesCounted, TrackerInv, TrackerTypes
<1>3. T!Copies = [l \in T!Keys |-> T!Copies[l]]
  BY DEF T!Copies
<1> HIDE DEF T!Copies
<1>4. T!Copies' = [T!Copies EXCEPT ![k] = 1]
  BY <1>1, <1>2, <1>3
<1>5. QED
  BY <1>1, <1>4 DEF Puts, TrackerInv, TrackerTypes, TimesInv

\* A comment that is put, with nothing told to the hub, is one step, or none.
LEMMA PutStep ==
  ASSUME TrackerInv, T!TrackerAssumption, NEW k \in T!Keys, Puts(k),
         heard' = heard
  PROVE  [T!C!Next]_<<T!Copies, T!Said, heard>>
<1>1. T!Copies[k] = 0 \/ T!Copies[k] = 1
  BY CopyFacts DEF ThreadKnown, CopiesCounted, TrackerInv, TrackerTypes
<1>2. T!Copies = [l \in T!Keys |-> T!Copies[l]]
  BY DEF T!Copies
<1>3. /\ T!Copies' = [T!Copies EXCEPT ![k] = 1] /\ T!Said' = T!Said
  BY DEF Puts
<1> HIDE DEF T!Copies
<1>4. CASE T!Copies[k] = 0
  <2>1. T!C!Put(k)
    BY <1>3, <1>4 DEF T!C!Put
  <2>2. QED
    BY <2>1 DEF T!C!Next
<1>5. CASE T!Copies[k] = 1
  <2>1. T!Copies' = T!Copies
    BY <1>2, <1>3, <1>5
  <2>2. QED
    BY <1>3, <2>1
<1>6. QED
  BY <1>1, <1>4, <1>5

\* What is told to the hub agrees with what it has heard.
LEMMA HearFacts ==
  ASSUME TrackerInv, T!TrackerAssumption, KeepsReplies,
         NEW k \in GateIds \cup QuestionIds, NEW w \in T!Replies,
         k \in GateIds => w = Go,
         k \in QuestionIds => k \in DOMAIN disk' /\ disk'[k].reply = w,
         heard' = heard \cup {<<k, w>>}
  PROVE  HeardInv' /\ \A entry \in heard : entry[1] = k => entry[2] = w
<1>1. \A l \in GateIds : l \notin QuestionIds
  BY KeyFacts
<1>2. \A entry \in heard :
        \E l \in GateIds \cup QuestionIds, v \in T!Replies :
          /\ entry = <<l, v>>
          /\ l \in GateIds => v = Go
          /\ l \in QuestionIds => l \in DOMAIN disk' /\ disk'[l].reply = v
  BY DEF TrackerInv, HeardInv, KeepsReplies
<1>3. HeardInv'
  BY <1>2 DEF HeardInv, T!Replies
<1>4. ASSUME NEW entry \in heard, entry[1] = k
      PROVE  entry[2] = w
  <2>1. PICK l \in GateIds \cup QuestionIds, v \in T!Replies :
          /\ entry = <<l, v>>
          /\ l \in GateIds => v = Go
          /\ l \in QuestionIds => l \in DOMAIN disk' /\ disk'[l].reply = v
    BY <1>2
  <2>2. l = k /\ entry[2] = v
    BY <1>4, <2>1
  <2>3. QED
    BY <2>1, <2>2
<1>5. QED
  BY <1>3, <1>4

\* The hub is told the reply of a gate, or of an acknowledged question.
LEMMA HearStep ==
  ASSUME TrackerInv, T!TrackerAssumption, KeepsReplies,
         NEW k \in GateIds \cup QuestionIds, NEW w \in T!Replies,
         k \in GateIds => w = Go /\ T!Copies' = T!Copies,
         k \in QuestionIds => /\ k \in DOMAIN disk' /\ disk'[k].reply = w
                              /\ T!Copies' = [T!Copies EXCEPT ![T!Ack(k)] = 1],
         heard' = heard \cup {<<k, w>>},
         T!Said' = T!Said, w \in T!Said[k]
  PROVE  HeardInv' /\ [T!C!Next]_<<T!Copies, T!Said, heard>>
<1>1. HeardInv' /\ \A entry \in heard : entry[1] = k => entry[2] = w
  BY HearFacts
<1>2. k \in T!Keys /\ (k \in GateIds => k \notin QuestionIds)
  BY KeyFacts DEF Topics
<1>3. T!C!Hear(k, w)
  BY <1>1, <1>2 DEF T!C!Hear
<1>4. T!C!Next
  BY <1>2, <1>3 DEF T!C!Next
<1>5. QED
  BY <1>1, <1>4

\* HeardInv while nothing is told.
LEMMA HeardStays ==
  ASSUME TrackerInv, KeepsReplies, heard' = heard
  PROVE  HeardInv'
BY DEF TrackerInv, HeardInv, KeepsReplies, T!Replies
-----------------------------------------------------------------------------
(* How a call ends, or goes on. *)

\* The thread keeps what is there.
ThreadGoesOn ==
  /\ thread' \in Seq(Posts) /\ ThreadInv' /\ clock' \in Nat \ {0} /\ TimesInv'
  /\ \A m : IsTrue(m, thread) => IsTrue(m, thread')

\* m has what is in memory of the requests that are no gates.
Agrees(m) ==
  \A k \in T!Keys \ GateIds :
    /\ k \in DOMAIN m <=> k \in DOMAIN mem
    /\ k \in DOMAIN mem => m[k] = mem[k]

LEMMA IdleFacts ==
  ASSUME call' = T!Idle
  PROVE  call' \in Calls /\ CallInv'
BY DEF T!Idle, Calls, CallInv

\* The request of a call is the one asked for, or its acknowledgement.
LEMMA CallFacts ==
  ASSUME TrackerInv, T!TrackerAssumption, call.at # "idle"
  PROVE  /\ call.key \in T!Keys /\ call.for \in T!Keys /\ call.for \in Topics
         /\ call.body \in Bodies /\ call \in Calls
         /\ call.key = call.for
              \/ (call.for \in QuestionIds /\ call.key = T!Ack(call.for)
                  /\ call.key \notin Topics /\ call.for \notin GateIds
                  /\ call.for # call.key)
         /\ call.for \in GateIds => call.key = call.for
BY KeyFacts DEF TrackerInv, TrackerTypes, CallInv, Topics

\* A failed call tells nothing; only a gate's leaves its trace in memory.
LEMMA FailStep ==
  ASSUME TrackerInv, T!TrackerAssumption, ThreadGoesOn,
         NEW m, T!Fail(m), IsKnown(m), IsTrue(m, thread'),
         call.for \in GateIds => Agrees(m)
  PROVE  TrackerInv' /\ heard' = heard
<1>1. /\ mem' = IF call.for \in GateIds THEN m ELSE disk
      /\ disk' = disk /\ call' = T!Idle /\ heard' = heard
  BY DEF T!Fail, T!Return
<1>2. IsKnown(disk) /\ IsTrue(disk, thread') /\ InStep
  BY DEF TrackerInv, TrackerTypes, ThreadGoesOn
<1>3. IsKnown(mem') /\ IsKnown(disk') /\ IsTrue(mem', thread')
      /\ IsTrue(disk', thread')
  BY <1>1, <1>2
<1>4. InStep'
  BY <1>1, <1>2 DEF InStep, Agrees, T!Keys, T!Ack
<1>5. HeardInv'
  BY <1>1, HeardStays DEF KeepsReplies
<1>6. call' \in Calls /\ CallInv'
  BY <1>1, IdleFacts
<1>7. QED
  BY <1>1, <1>3, <1>4, <1>5, <1>6
  DEF TrackerInv, TrackerTypes, ThreadGoesOn

\* Notes of the request of the call that are true, and forget no reply.
LEMMA SaveStep ==
  ASSUME TrackerInv, T!TrackerAssumption, call.at # "idle", ThreadGoesOn,
         NEW r \in Requests,
         r.posted => IsIn(call.key, thread'),
         r.reply # None =>
           /\ call.key \in GateIds \cup QuestionIds
           /\ \E i \in DOMAIN thread' :
                T!Fits(thread'[i], call.key) /\ thread'[i].body = r.reply,
         call.key \in DOMAIN mem =>
           mem[call.key].reply = None \/ r.reply = mem[call.key].reply
  PROVE  /\ T!Fail(T!With(call.key, r)) => TrackerInv' /\ heard' = heard
         /\ mem' = T!With(call.key, r) /\ disk' = mem' =>
              /\ NotesInv' /\ KeepsReplies
              /\ call.key \in DOMAIN mem' /\ mem'[call.key] = r
              /\ \A k \in DOMAIN mem \ {call.key} :
                   k \in DOMAIN mem' /\ mem'[k] = mem[k]
<1> DEFINE m == T!With(call.key, r)
<1>1. /\ call.key \in T!Keys
      /\ call.for \in GateIds => call.key = call.for
  BY CallFacts
<1>2. IsKnown(mem) /\ IsTrue(mem, thread') /\ InStep
  BY DEF TrackerInv, TrackerTypes, ThreadGoesOn
<1>3. /\ IsKnown(m) /\ DOMAIN m = DOMAIN mem \cup {call.key}
      /\ m[call.key] = r
      /\ \A l \in DOMAIN mem \ {call.key} : m[l] = mem[l]
  BY <1>1, <1>2, WithFacts
<1> HIDE DEF m
<1>4. IsTrue(m, thread')
  BY <1>2, <1>3 DEF IsTrue
<1>5. call.for \in GateIds => Agrees(m)
  BY <1>1, <1>3 DEF Agrees
<1>6. T!Fail(m) => TrackerInv' /\ heard' = heard
  BY <1>3, <1>4, <1>5, FailStep
<1>7. ASSUME mem' = m, disk' = mem'
      PROVE  /\ NotesInv' /\ KeepsReplies
             /\ call.key \in DOMAIN mem' /\ mem'[call.key] = r
             /\ \A k \in DOMAIN mem \ {call.key} :
                  k \in DOMAIN mem' /\ mem'[k] = mem[k]
  <2>1. IsKnown(mem') /\ IsTrue(mem', thread') /\ IsKnown(disk')
        /\ IsTrue(disk', thread')
    BY <1>3, <1>4, <1>7
  <2>2. InStep'
    BY <1>7 DEF InStep
  <2>3. KeepsReplies
    <3> SUFFICES ASSUME NEW q \in QuestionIds, NEW w \in T!Replies,
                        q \in DOMAIN disk, disk[q].reply = w
                 PROVE  q \in DOMAIN disk' /\ disk'[q].reply = w
      BY DEF KeepsReplies
    <3>1. q \in T!Keys \ GateIds
      BY KeyFacts DEF Topics
    <3>2. q \in DOMAIN mem /\ mem[q].reply = w /\ w # None
      BY <1>2, <3>1, KeyFacts DEF InStep
    <3>3. QED
      BY <1>3, <1>7, <3>2
  <2>4. QED
    BY <1>3, <1>7, <2>1, <2>2, <2>3 DEF NotesInv
<1>8. QED
  BY <1>6, <1>7 DEF m

\* What follows a comment that is known to be posted.
LEMMA ProceedStep ==
  ASSUME TrackerInv, T!TrackerAssumption, T!Proceed,
         call.at \in {"bind", "recover", "create"},
         Puts(call.key), NotesInv', KeepsReplies, call.key \in DOMAIN mem',
         \A k \in DOMAIN mem \ {call.key} :
           k \in DOMAIN mem' /\ mem'[k] = mem[k]
  PROVE  TrackerInv' /\ [T!C!Next]_<<T!Copies, T!Said, heard>>
<1>1. /\ call.key \in T!Keys /\ call.for \in Topics /\ call.for \in T!Keys
      /\ call.body \in Bodies /\ call \in Calls
      /\ call.key = call.for
           \/ (call.for \in QuestionIds /\ call.key = T!Ack(call.for)
               /\ call.key \notin Topics /\ call.for \notin GateIds
                  /\ call.for # call.key)
  BY CallFacts
<1>2. CASE call.key \in GateIds \cup QuestionIds
  <2>1. call' = [call EXCEPT !.at = "reply"] /\ heard' = heard
    BY <1>2 DEF T!Proceed
  <2>2. call.key = call.for
    BY <1>1, <1>2 DEF Topics
  <2>3. /\ call' \in Calls /\ call'.at = "reply" /\ call'.for = call.for
        /\ call'.key = call.key /\ call'.body = call.body
    BY <1>1, <2>1 DEF Calls
  <2>4. CallInv'
    BY <1>1, <1>2, <2>2, <2>3 DEF CallInv
  <2>5. HeardInv'
    BY <2>1, HeardStays
  <2>6. QED
    BY <1>1, <2>1, <2>3, <2>4, <2>5, PutStep
    DEF Puts, NotesInv, TrackerInv, TrackerTypes
<1>3. CASE call.key = T!Ack(call.for) /\ call.key \notin Topics
  <2> DEFINE w == mem[call.for].reply
  <2>1. /\ call.for \in QuestionIds /\ call.for \in DOMAIN mem
        /\ call.for # call.key /\ w = call.body /\ w # None
    BY <1>1, <1>3 DEF TrackerInv, CallInv
  <2>2. /\ call' = T!Idle
        /\ heard' = heard \cup {<<call.for, w>>}
    BY <1>3 DEF T!Proceed, T!Hear, Topics
  <2>3. /\ w \in T!Replies
        /\ \E i \in DOMAIN thread :
             T!Fits(thread[i], call.for) /\ thread[i].body = w
    BY <2>1 DEF TrackerInv, TrackerTypes, IsKnown, Requests, IsTrue
  <2>4. w \in T!Said[call.for]
    BY <1>1, <2>3, SaidFacts
  <2>5. call.for \in DOMAIN disk' /\ disk'[call.for].reply = w
    <3>1. call.for \in T!Keys \ GateIds
      BY <1>1, <2>1, KeyFacts
    <3>2. call.for \in DOMAIN mem' /\ mem'[call.for].reply = w
      BY <2>1
    <3>3. QED
      BY <3>1, <3>2 DEF NotesInv, InStep, T!Keys, T!Ack
  <2>6. /\ T!Copies' = [T!Copies EXCEPT ![T!Ack(call.for)] = 1]
        /\ T!Said' = T!Said
    BY <1>3 DEF Puts
  <2>7. call.for \notin GateIds
    BY <2>1, KeyFacts
  <2> HIDE DEF w
  <2>8. HeardInv' /\ [T!C!Next]_<<T!Copies, T!Said, heard>>
    BY <2>1, <2>2, <2>3, <2>4, <2>5, <2>6, <2>7, HearStep
  <2>9. QED
    BY <2>2, <2>8, IdleFacts
    DEF Puts, NotesInv, TrackerInv, TrackerTypes
<1>4. CASE call.key = call.for /\ call.key \in Alerts
  <2>1. call.key \notin GateIds \cup QuestionIds
    BY <1>4, KeyFacts
  <2>3. call.key # T!Ack(call.for)
    BY <1>1, <1>4, KeyFacts DEF Topics
  <2>4. call' = T!Idle /\ heard' = heard
    BY <2>1, <2>3 DEF T!Proceed, T!Return
  <2>5. HeardInv'
    BY <2>4, HeardStays
  <2>6. [T!C!Next]_<<T!Copies, T!Said, heard>>
    BY <1>1, <2>4, PutStep
  <2>7. QED
    BY <2>4, <2>5, <2>6, IdleFacts
    DEF Puts, NotesInv, TrackerInv, TrackerTypes
<1>5. QED
  BY <1>1, <1>2, <1>3, <1>4 DEF Topics
-----------------------------------------------------------------------------
(* The pages of the replies. *)

LEMMA HasLeast ==
  ASSUME NEW S, S \subseteq Nat, S # {}
  PROVE  \E x \in S : \A y \in S : x <= y
<1> DEFINE R == OpToRel(<, Nat)
<1>1. \A x, y \in Nat : x < y => <<x, y>> \in R
  BY DEF OpToRel
<1>2. IsWellFoundedOn(R, Nat)
  BY NatLessThanWellFounded
<1> HIDE DEF R
<1>3. PICK x \in S : \A y \in S : ~(<<y, x>> \in R)
  BY <1>2, WFMin
<1>4. ASSUME NEW y \in S
      PROVE  x <= y
  <2>1. x \in Nat /\ y \in Nat
    OBVIOUS
  <2>2. ~(y < x)
    BY <1>1, <1>3, <2>1
  <2>3. QED
    BY <2>1, <2>2
<1>5. QED
  BY <1>4

LEMMA HasGreatest ==
  ASSUME NEW S, S \subseteq Nat, S # {}, NEW b \in Nat, \A y \in S : y <= b
  PROVE  \E x \in S : \A y \in S : y <= x
<1> DEFINE U == {n \in Nat : \E y \in S : n = b - y}
<1>1. PICK y \in S : TRUE
  OBVIOUS
<1>2. b - y \in U
  BY <1>1
<1>3. PICK n \in U : \A k \in U : n <= k
  BY <1>2, HasLeast
<1>4. PICK x \in S : n = b - x
  BY <1>3
<1>5. \A z \in S : z <= x
  <2> SUFFICES ASSUME NEW z \in S PROVE z <= x
    OBVIOUS
  <2>1. b - z \in U
    OBVIOUS
  <2>2. n <= b - z
    BY <1>3, <2>1
  <2> HIDE DEF U
  <2>3. x \in Nat /\ z \in Nat
    OBVIOUS
  <2>4. QED
    BY <1>4, <2>2, <2>3
<1>6. QED
  BY <1>5

\* i comes before j in the order of the service.
Before(i, j, newest) == IF newest THEN i > j ELSE i < j

\* The places of a page: some, unless the scan is over, and the first ones.
LEMMA ScanFacts ==
  ASSUME T!TrackerAssumption, thread \in Seq(Posts), NEW c \in Cursors,
         NEW newest \in BOOLEAN
  PROVE  /\ T!Page(c, newest) \subseteq T!Scan(c, newest)
         /\ T!Scan(c, newest) \subseteq 1 .. Len(thread)
         /\ DOMAIN thread = 1 .. Len(thread) /\ Len(thread) \in Nat
BY DEF T!Page, T!Scan

LEMMA EndsOf ==
  ASSUME NEW S, NEW n \in Nat, S \subseteq 1 .. n, S # {}, NEW newest \in BOOLEAN
  PROVE  /\ \E x \in S : \A y \in S : y = x \/ Before(x, y, newest)
         /\ \E x \in S : \A y \in S : y = x \/ Before(y, x, newest)
<1>1. S \subseteq Nat /\ \A y \in S : y <= n
  OBVIOUS
<1>2. PICK x \in S : \A y \in S : x <= y
  BY <1>1, HasLeast
<1>3. PICK z \in S : \A y \in S : y <= z
  BY <1>1, HasGreatest
<1>4. QED
  BY <1>1, <1>2, <1>3 DEF Before

LEMMA PageFacts ==
  ASSUME T!TrackerAssumption, thread \in Seq(Posts), NEW c \in Cursors,
         NEW newest \in BOOLEAN
  PROVE  /\ T!Scan(c, newest) # {} => T!Page(c, newest) # {}
         /\ \A i \in T!Scan(c, newest) \ T!Page(c, newest) :
              \A j \in T!Page(c, newest) : Before(j, i, newest)
<1> DEFINE scan == T!Scan(c, newest)
           page == T!Page(c, newest)
           Ahead(i) == {j \in scan : Before(j, i, newest)}
<1>1. scan \subseteq 1 .. Len(thread) /\ Len(thread) \in Nat
  BY ScanFacts
<1>2. page = {i \in scan : Cardinality(Ahead(i)) < PageSize}
  BY TrackerCardinality DEF T!Page, Before
<1>3. PageSize \in Nat \ {0}
  BY DEF T!TrackerAssumption
<1>4. IsFiniteSet(scan)
  <2>1. IsFiniteSet(1 .. Len(thread))
    BY <1>1, FS_Interval
  <2>2. QED
    BY <1>1, <2>1, FS_Subset
<1> HIDE DEF scan, page
<1>5. scan # {} => page # {}
  <2> SUFFICES ASSUME scan # {} PROVE page # {}
    OBVIOUS
  <2>1. PICK x \in scan : \A y \in scan : y = x \/ Before(x, y, newest)
    BY <1>1, EndsOf
  <2>2. ASSUME NEW y \in scan
        PROVE  ~Before(y, x, newest)
    <3>1. x \in Nat /\ y \in Nat
      BY <1>1
    <3>2. QED
      BY <2>1, <3>1 DEF Before
  <2>3. Cardinality(Ahead(x)) = 0
    <3>1. Ahead(x) = {}
      BY <2>2
    <3>2. QED
      BY <3>1, FS_EmptySet
  <2> HIDE DEF Ahead
  <2>4. QED
    BY <1>2, <1>3, <2>3
<1>6. ASSUME NEW i \in scan, i \notin page, NEW j \in page
      PROVE  Before(j, i, newest)
  <2>1. j \in scan /\ i # j
    BY <1>2, <1>6
  <2>2. SUFFICES ASSUME ~Before(j, i, newest) PROVE FALSE
    OBVIOUS
  <2>3. i \in Nat /\ j \in Nat
    BY <1>1, <2>1
  <2>4. Before(i, j, newest)
    BY <2>1, <2>2, <2>3 DEF Before
  <2>5. ASSUME NEW k \in scan, Before(k, i, newest)
        PROVE  Before(k, j, newest)
    <3>1. k \in Nat
      BY <1>1
    <3>2. QED
      BY <2>3, <2>4, <2>5, <3>1 DEF Before
  <2>6. Ahead(i) \subseteq Ahead(j)
    BY <2>5
  <2>7. IsFiniteSet(Ahead(j))
    <3>1. Ahead(j) \in SUBSET scan
      OBVIOUS
    <3>2. QED
      BY <1>4, <3>1, FS_Subset
  <2> HIDE DEF Ahead
  <2>8. Cardinality(Ahead(i)) <= Cardinality(Ahead(j))
    BY <2>6, <2>7, FS_Subset
  <2>9. /\ Cardinality(Ahead(i)) \in Nat /\ Cardinality(Ahead(j)) \in Nat
    <3>1. IsFiniteSet(Ahead(i))
      BY <2>6, <2>7, FS_Subset
    <3>2. QED
      BY <2>7, <3>1, FS_CardinalityType
  <2>10. Cardinality(Ahead(j)) < PageSize
    BY <1>2
  <2>11. Cardinality(Ahead(i)) < PageSize
    BY <1>3, <2>8, <2>9, <2>10
  <2>12. QED
    BY <1>2, <1>6, <2>11
<1>7. QED
  BY <1>5, <1>6 DEF scan, page

\* The ends of a set of places are among them.
LEMMA EndFacts ==
  ASSUME NEW S, NEW n \in Nat, S \subseteq 1 .. n, S # {}, NEW newest \in BOOLEAN
  PROVE  /\ T!EndOf(S, newest) \in S /\ T!FirstOf(S, newest) \in S
         /\ \A j \in S : IF newest THEN j >= T!EndOf(S, newest)
                         ELSE j <= T!EndOf(S, newest)
<1>1. S \subseteq Nat
  OBVIOUS
<1>2. /\ \E x \in S : \A y \in S : IF newest THEN y >= x ELSE y <= x
      /\ \E x \in S : \A y \in S : IF newest THEN y <= x ELSE y >= x
  <2>1. PICK x \in S : \A y \in S : y = x \/ Before(x, y, newest)
    BY EndsOf
  <2>2. PICK z \in S : \A y \in S : y = z \/ Before(y, z, newest)
    BY EndsOf
  <2>3. QED
    BY <1>1, <2>1, <2>2 DEF Before
<1>3. QED
  BY <1>2 DEF T!EndOf, T!FirstOf

\* The cursor goes on behind its page, or starts the next scan at the newest
\* time seen.
LEMMA AdvanceFacts ==
  ASSUME T!TrackerAssumption, thread \in Seq(Posts), NEW c \in Cursors,
         NEW newest \in BOOLEAN, NEW b \in Nat,
         \A i \in DOMAIN thread : thread[i].time <= b
  PROVE  \E max \in Nat :
           /\ max \in {c.max} \cup {thread[i].time : i \in T!Page(c, newest)}
           /\ c.max <= max
           /\ \A i \in T!Page(c, newest) : thread[i].time <= max
           /\ T!Page(c, newest) # T!Scan(c, newest) =>
                /\ T!EndOf(T!Page(c, newest), newest) \in T!Page(c, newest)
                /\ T!Advance(c, newest)
                     = [since |-> c.since,
                        after |-> T!EndOf(T!Page(c, newest), newest),
                        max |-> max]
           /\ T!Page(c, newest) = T!Scan(c, newest) =>
                T!Advance(c, newest)
                  = [since |-> IF max # 0 THEN max ELSE c.since,
                     after |-> 0, max |-> 0]
           /\ T!Advance(c, newest) \in Cursors
<1> DEFINE page == T!Page(c, newest)
           scan == T!Scan(c, newest)
           times == {c.max} \cup {thread[i].time : i \in page}
           max == T!Latest(times)
<1>1. /\ page \subseteq scan /\ scan \subseteq 1 .. Len(thread)
      /\ DOMAIN thread = 1 .. Len(thread) /\ Len(thread) \in Nat
  BY ScanFacts
<1>2. scan # {} => page # {}
  BY PageFacts
<1>3. T!Advance(c, newest)
        = IF page # scan
          THEN [c EXCEPT !.after = T!EndOf(page, newest), !.max = max]
          ELSE [since |-> IF max # 0 THEN max ELSE c.since, after |-> 0,
                max |-> 0]
  BY DEF T!Advance
<1> HIDE DEF page, scan
<1>4. c.max \in Nat /\ c.since \in Nat
  BY DEF Cursors
<1>5. max \in times /\ times \subseteq Nat /\ \A u \in times : u <= max
  <2>1. \A i \in page : thread[i].time \in Nat /\ thread[i].time <= b
    <3>1. \A i \in 1 .. Len(thread) : thread[i] \in Posts
      BY <1>1
    <3>2. QED
      BY <1>1, <3>1 DEF Posts
  <2>2. \A u \in times : u \in Nat /\ u <= b + c.max
    BY <1>4, <2>1
  <2>3. c.max \in times /\ b + c.max \in Nat
    BY <1>4
  <2> HIDE DEF times
  <2>4. times \subseteq Nat /\ times # {}
    BY <2>2, <2>3
  <2>5. \E t \in times : \A u \in times : u <= t
    BY <2>2, <2>3, <2>4, HasGreatest
  <2>6. QED
    BY <2>4, <2>5 DEF T!Latest
<1>6. max \in Nat /\ c.max <= max
  <2>1. c.max \in times
    OBVIOUS
  <2> HIDE DEF times, max
  <2>2. QED
    BY <1>5, <2>1
<1>7. \A i \in page : thread[i].time <= max
  <2>1. \A i \in page : thread[i].time \in times
    OBVIOUS
  <2> HIDE DEF times, max
  <2>2. QED
    BY <1>5, <2>1
<1> HIDE DEF times
<1>8. CASE page # scan
  <2>1. T!EndOf(page, newest) \in page
    BY <1>1, <1>2, <1>8, EndFacts
  <2>2. T!EndOf(page, newest) \in Nat
    <3>1. T!EndOf(page, newest) \in 1 .. Len(thread)
      BY <1>1, <2>1
    <3>2. QED
      BY <3>1
  <2> HIDE DEF max
  <2>3. T!Advance(c, newest) = [since |-> c.since,
                                after |-> T!EndOf(page, newest), max |-> max]
    BY <1>3, <1>8 DEF Cursors
  <2>4. T!Advance(c, newest) \in Cursors
    BY <1>6, <2>2, <2>3 DEF Cursors
  <2>5. QED
    BY <1>5, <1>6, <1>7, <1>8, <2>1, <2>3, <2>4 DEF times, page, scan
<1>9. CASE page = scan
  <2> HIDE DEF max
  <2>1. T!Advance(c, newest) \in Cursors
    BY <1>3, <1>6, <1>9 DEF Cursors
  <2>2. QED
    BY <1>3, <1>5, <1>6, <1>7, <1>9, <2>1 DEF times, page, scan
<1>10. QED
  BY <1>8, <1>9
-----------------------------------------------------------------------------
(* The steps of the tracker and its surroundings. *)

\* A thread that stays is the thread that was.
LEMMA SameGoesOn ==
  ASSUME TrackerInv, UNCHANGED <<thread, clock>>
  PROVE  ThreadGoesOn /\ T!Copies' = T!Copies /\ T!Said' = T!Said
BY SameThread DEF TrackerInv, TrackerTypes, ThreadGoesOn, TimesInv

\* Nothing that the hub sees happens.
LEMMA NothingSeen ==
  ASSUME T!Copies' = T!Copies, T!Said' = T!Said, heard' = heard
  PROVE  [T!C!Next]_<<T!Copies, T!Said, heard>>
OBVIOUS

\* A step that touches no notes and tells nothing.
LEMMA NotesStay ==
  ASSUME TrackerInv, ThreadGoesOn, UNCHANGED <<mem, disk, heard>>
  PROVE  /\ thread' \in Seq(Posts) /\ ThreadInv' /\ clock' \in Nat \ {0}
         /\ TimesInv' /\ NotesInv' /\ HeardInv' /\ KeepsReplies
<1>1. NotesInv'
  BY DEF TrackerInv, TrackerTypes, ThreadGoesOn, NotesInv, InStep
<1>2. KeepsReplies
  BY DEF KeepsReplies
<1>3. HeardInv'
  BY <1>2, HeardStays
<1>4. QED
  BY <1>1, <1>2, <1>3 DEF ThreadGoesOn

LEMMA WholeInv ==
  ASSUME ThreadGoesOn, NotesInv', HeardInv', call' \in Calls, CallInv'
  PROVE  TrackerInv'
BY DEF ThreadGoesOn, NotesInv, TrackerInv, TrackerTypes

\* The hub asks for a request.
LEMMA CallsStep ==
  ASSUME TrackerInv, T!TrackerAssumption, NEW k \in T!Keys, T!Calls(k)
  PROVE  TrackerInv' /\ [T!C!Next]_<<T!Copies, T!Said, heard>>
<1>1. k \in Topics /\ UNCHANGED <<mem, disk, thread, clock, heard>>
  BY DEF T!Calls, Topics
<1>2. PICK body \in Rendered[k] :
        call' = [at |-> "bind", for |-> k, key |-> k, body |-> body, pages |-> 0]
  BY DEF T!Calls
<1>3. body \in Bodies
  BY <1>1 DEF Bodies
<1>4. call' \in Calls /\ CallInv'
  BY <1>1, <1>2, <1>3, KeyFacts DEF Calls, CallInv
<1>5. QED
  BY <1>1, <1>4, SameGoesOn, NotesStay, WholeInv, NothingSeen

\* A request that is not known is noted before it is posted.
LEMMA BindStep ==
  ASSUME TrackerInv, T!TrackerAssumption, T!Bind
  PROVE  TrackerInv' /\ [T!C!Next]_<<T!Copies, T!Said, heard>>
<1> DEFINE r == T!NewRequest(call.body)
<1>1. /\ call.at = "bind" /\ call.key \notin DOMAIN mem
      /\ UNCHANGED <<thread, clock>>
      /\ \/ /\ mem' = T!With(call.key, r) /\ disk' = mem'
            /\ call' = [call EXCEPT !.at = "create"] /\ heard' = heard
         \/ T!Fail(T!With(call.key, r))
  BY DEF T!Bind, T!Save
<1>2. r \in Requests /\ ~r.posted /\ r.reply = None
  <2>1. call.body \in Bodies
    BY <1>1, CallFacts
  <2>2. QED
    BY <2>1 DEF T!NewRequest, T!StartCursor, Requests, Cursors
<1> HIDE DEF r
<1>3. ThreadGoesOn /\ T!Copies' = T!Copies /\ T!Said' = T!Said
  BY <1>1, SameGoesOn
<1>4. /\ T!Fail(T!With(call.key, r)) => TrackerInv' /\ heard' = heard
      /\ mem' = T!With(call.key, r) /\ disk' = mem' =>
           /\ NotesInv' /\ KeepsReplies
           /\ call.key \in DOMAIN mem' /\ mem'[call.key] = r
           /\ \A k \in DOMAIN mem \ {call.key} :
                k \in DOMAIN mem' /\ mem'[k] = mem[k]
  BY <1>1, <1>2, <1>3, SaveStep
<1>5. CASE T!Fail(T!With(call.key, r))
  BY <1>3, <1>4, <1>5, NothingSeen
<1>6. CASE /\ mem' = T!With(call.key, r) /\ disk' = mem'
           /\ call' = [call EXCEPT !.at = "create"] /\ heard' = heard
  <2>1. HeardInv'
    BY <1>4, <1>6, HeardStays
  <2>2. call \in Calls /\ call.at # "idle" /\ CallInv
    BY <1>1 DEF TrackerInv, TrackerTypes
  <2>3. /\ call' \in Calls /\ call'.at = "create" /\ call'.for = call.for
        /\ call'.key = call.key /\ call'.body = call.body
    BY <1>6, <2>2 DEF Calls
  <2>4. CallInv'
    BY <1>1, <1>4, <1>6, <2>2, <2>3 DEF CallInv
  <2>5. QED
    BY <1>3, <1>4, <1>6, <2>1, <2>3, <2>4, WholeInv, NothingSeen
<1>7. QED
  BY <1>1, <1>5, <1>6

\* A call that goes on to another exchange with the notes as they are.
LEMMA GoesTo ==
  ASSUME TrackerInv, T!TrackerAssumption, call.at # "idle",
         UNCHANGED <<mem, disk, thread, clock, heard>>,
         NEW at \in {"recover", "create"}, call' = [call EXCEPT !.at = at],
         call.key \in DOMAIN mem
  PROVE  TrackerInv' /\ [T!C!Next]_<<T!Copies, T!Said, heard>>
<1>1. ThreadGoesOn /\ T!Copies' = T!Copies /\ T!Said' = T!Said
  BY SameGoesOn
<1>2. NotesInv' /\ HeardInv'
  BY <1>1, NotesStay
<1>3. call \in Calls /\ CallInv
  BY DEF TrackerInv, TrackerTypes
<1>4. /\ call' \in Calls /\ call'.at = at /\ call'.for = call.for
      /\ call'.key = call.key /\ call'.body = call.body
  BY <1>3 DEF Calls
<1>5. CallInv'
  BY <1>3, <1>4 DEF CallInv
<1>6. QED
  BY <1>1, <1>2, <1>4, <1>5, WholeInv, NothingSeen

\* A call that fails with the notes as they are.
LEMMA FailsHere ==
  ASSUME TrackerInv, T!TrackerAssumption, ThreadGoesOn, T!Fail(mem)
  PROVE  TrackerInv' /\ heard' = heard
<1>1. IsKnown(mem) /\ IsTrue(mem, thread') /\ Agrees(mem)
  BY DEF TrackerInv, TrackerTypes, ThreadGoesOn, Agrees
<1>2. QED
  BY <1>1, FailStep

LEMMA BoundStep ==
  ASSUME TrackerInv, T!TrackerAssumption, T!Bound
  PROVE  TrackerInv' /\ [T!C!Next]_<<T!Copies, T!Said, heard>>
<1>1. /\ call.at = "bind" /\ call.key \in DOMAIN mem
      /\ UNCHANGED <<thread, clock>>
      /\ \/ T!Fail(mem)
         \/ /\ mem[call.key].posted /\ T!Proceed /\ UNCHANGED <<mem, disk>>
         \/ /\ call' = [call EXCEPT !.at = "recover"]
            /\ UNCHANGED <<mem, disk, heard>>
  BY DEF T!Bound
<1>2. ThreadGoesOn /\ T!Copies' = T!Copies /\ T!Said' = T!Said
  BY <1>1, SameGoesOn
<1>3. CASE T!Fail(mem)
  BY <1>2, <1>3, FailsHere, NothingSeen
<1>4. CASE mem[call.key].posted /\ T!Proceed /\ UNCHANGED <<mem, disk>>
  <2>1. call.key \in T!Keys
    BY <1>1, CallFacts
  <2>2. T!Published(call.key)
    BY <1>1, <1>4 DEF TrackerInv, IsTrue, IsIn, T!Published
  <2>3. Puts(call.key)
    BY <1>1, <2>1, <2>2, PutsAgain
  <2>4. NotesInv' /\ KeepsReplies
    BY <1>2, <1>4 DEF TrackerInv, TrackerTypes, ThreadGoesOn, NotesInv,
                      InStep, KeepsReplies
  <2>5. QED
    BY <1>1, <1>4, <2>3, <2>4, ProceedStep
<1>5. CASE /\ call' = [call EXCEPT !.at = "recover"]
           /\ UNCHANGED <<mem, disk, heard>>
  BY <1>1, <1>5, GoesTo
<1>6. QED
  BY <1>1, <1>3, <1>4, <1>5

\* The comment is there, and that is noted.
LEMMA PostedStep ==
  ASSUME TrackerInv, T!TrackerAssumption, call.at \in {"recover", "create"},
         Puts(call.key), T!KnownPosted
  PROVE  TrackerInv' /\ [T!C!Next]_<<T!Copies, T!Said, heard>>
<1> DEFINE k == call.key
           r == [mem[k] EXCEPT !.posted = TRUE]
<1>1. k \in DOMAIN mem /\ k \in T!Keys
  BY CallFacts DEF TrackerInv, CallInv
<1>2. mem[k] \in Requests
  BY <1>1 DEF TrackerInv, TrackerTypes, IsKnown
<1>3. r \in Requests /\ r.posted /\ r.reply = mem[k].reply
  BY <1>2 DEF Requests
<1>4. ThreadGoesOn /\ IsIn(k, thread')
  BY DEF Puts, ThreadGoesOn
<1>5. IsTrue(mem, thread')
  BY <1>4 DEF TrackerInv, ThreadGoesOn
<1>6. \/ /\ mem' = T!With(k, r) /\ disk' = mem' /\ T!Proceed
      \/ T!Fail(T!With(k, r))
  BY DEF T!KnownPosted, T!Save
<1>7. r.reply # None =>
        /\ k \in GateIds \cup QuestionIds
        /\ \E i \in DOMAIN thread' :
             T!Fits(thread'[i], k) /\ thread'[i].body = r.reply
  BY <1>1, <1>3, <1>5 DEF IsTrue
<1> HIDE DEF r
<1>8. /\ T!Fail(T!With(k, r)) => TrackerInv' /\ heard' = heard
      /\ mem' = T!With(k, r) /\ disk' = mem' =>
           /\ NotesInv' /\ KeepsReplies
           /\ k \in DOMAIN mem' /\ mem'[k] = r
           /\ \A l \in DOMAIN mem \ {k} : l \in DOMAIN mem' /\ mem'[l] = mem[l]
  BY <1>3, <1>4, <1>7, SaveStep
<1>9. CASE T!Fail(T!With(k, r))
  BY <1>1, <1>8, <1>9, PutStep
<1>10. CASE mem' = T!With(k, r) /\ disk' = mem' /\ T!Proceed
  BY <1>8, <1>10, ProceedStep
<1>11. QED
  BY <1>6, <1>9, <1>10

LEMMA RecoverStep ==
  ASSUME TrackerInv, T!TrackerAssumption, T!RecoverPosted
  PROVE  TrackerInv' /\ [T!C!Next]_<<T!Copies, T!Said, heard>>
<1>1. /\ call.at = "recover" /\ UNCHANGED <<thread, clock>>
      /\ T!Published(call.key)
      /\ T!KnownPosted \/ T!Fail(mem)
  BY DEF T!RecoverPosted, T!Published
<1>2. CASE T!KnownPosted
  <2>1. call.key \in T!Keys
    BY <1>1, CallFacts
  <2>2. Puts(call.key)
    BY <1>1, <2>1, PutsAgain
  <2>3. QED
    BY <1>1, <1>2, <2>2, PostedStep
<1>3. CASE T!Fail(mem)
  BY <1>1, <1>3, SameGoesOn, FailsHere, NothingSeen
<1>4. QED
  BY <1>1, <1>2, <1>3

\* A comment of now is the latest.
LEMMA TimedPost ==
  ASSUME TimesInv, clock \in Nat \ {0}, thread \in Seq(Posts),
         NEW post \in Posts, post.time = clock,
         thread' = Append(thread, post), clock' = clock
  PROVE  TimesInv'
<1> DEFINE end == Len(thread) + 1
<1>1. /\ DOMAIN thread = 1 .. Len(thread) /\ Len(thread) \in Nat
      /\ DOMAIN thread' = DOMAIN thread \cup {end}
      /\ thread'[end] = post
      /\ \A i \in DOMAIN thread : thread'[i] = thread[i]
  BY PostFacts
<1>2. \A i \in DOMAIN thread' : thread'[i].time \in 1 .. clock
  BY <1>1 DEF TimesInv
<1>3. ASSUME NEW i \in DOMAIN thread', NEW j \in DOMAIN thread', i < j
      PROVE  thread'[i].time <= thread'[j].time
  <2>1. i \in DOMAIN thread
    BY <1>1, <1>3
  <2>2. CASE j = end
    BY <1>1, <1>2, <2>2
  <2>3. CASE j \in DOMAIN thread
    BY <1>1, <1>3, <2>1, <2>3 DEF TimesInv
  <2>4. QED
    BY <1>1, <2>2, <2>3
<1>4. QED
  BY <1>2, <1>3 DEF TimesInv

\* The service takes the comment.
LEMMA PublishPuts ==
  ASSUME TrackerInv, T!TrackerAssumption, call.at = "create", T!Publish,
         clock' = clock
  PROVE  Puts(call.key)
<1> DEFINE k == call.key
           post == [id |-> T!CommentId(k), body |-> call.body, user |-> App,
                    parent |-> None, time |-> clock]
<1>1. ~T!Published(k) /\ thread' = Append(thread, post)
  BY DEF T!Publish
<1>2. k \in T!Keys /\ call.body \in Bodies
  BY CallFacts
<1>3. post \in Posts /\ post.id = <<k, 0>> /\ post.parent = None
      /\ post.time = clock
  BY <1>2 DEF T!CommentId, Posts, Ids, TrackerInv, TrackerTypes
<1> HIDE DEF post
<1>4. thread \in Seq(Posts) /\ ThreadInv
  BY DEF TrackerInv, TrackerTypes
<1>5. /\ ThreadInv' /\ T!Copies' = [T!Copies EXCEPT ![k] = 1]
      /\ T!Said' = T!Said
  BY <1>1, <1>2, <1>3, <1>4, PostRequest
<1>6. \A m : IsTrue(m, thread) => IsTrue(m, thread')
  BY <1>1, <1>3, <1>4, MorePosts
<1>7. /\ thread' \in Seq(Posts) /\ IsIn(k, thread')
  BY <1>1, <1>3, <1>4, PostFacts DEF IsIn, T!CommentId
<1>8. TimesInv'
  BY <1>1, <1>3, <1>4, TimedPost DEF TrackerInv, TrackerTypes
<1>9. QED
  BY <1>5, <1>6, <1>7, <1>8 DEF Puts, TrackerInv, TrackerTypes

LEMMA CreateStep ==
  ASSUME TrackerInv, T!TrackerAssumption, T!Create \/ T!CreateLost
  PROVE  TrackerInv' /\ [T!C!Next]_<<T!Copies, T!Said, heard>>
<1>1. /\ call.at = "create" /\ T!Publish /\ clock' = clock
      /\ T!KnownPosted \/ T!Fail(mem)
  BY DEF T!Create, T!CreateLost
<1>2. call.key \in T!Keys
  BY <1>1, CallFacts
<1>3. Puts(call.key)
  BY <1>1, PublishPuts
<1>4. CASE T!KnownPosted
  BY <1>1, <1>3, <1>4, PostedStep
<1>5. CASE T!Fail(mem)
  <2>1. ThreadGoesOn
    BY <1>3 DEF Puts, ThreadGoesOn
  <2>2. TrackerInv' /\ heard' = heard
    BY <1>5, <2>1, FailsHere
  <2>3. QED
    BY <1>2, <1>3, <2>2, PutStep
<1>6. QED
  BY <1>1, <1>4, <1>5

\* What a fitting comment says is a reply to the request, "GO" for a gate.
LEMMA FitFacts ==
  ASSUME TrackerInv, T!TrackerAssumption, NEW k \in T!Keys,
         NEW i \in DOMAIN thread, T!Fits(thread[i], k)
  PROVE  /\ thread[i].body \in T!Replies
         /\ k \in GateIds => thread[i].body = Go
<1>1. thread[i].parent = <<k, 0>>
  BY DEF T!Fits, T!CommentId
<1>2. QED
  BY <1>1 DEF TrackerInv, ThreadInv, T!Fits

\* A reply that is noted is told of a gate, of a question acknowledged first.
LEMMA RepliedStep ==
  ASSUME TrackerInv, T!TrackerAssumption, call.at = "reply",
         UNCHANGED <<thread, clock>>, NEW w \in T!Replies, T!Replied(w),
         NotesInv', KeepsReplies,
         \E i \in DOMAIN thread :
           T!Fits(thread[i], call.key) /\ thread[i].body = w,
         call.key \in DOMAIN mem' /\ mem'[call.key].reply = w
  PROVE  TrackerInv' /\ [T!C!Next]_<<T!Copies, T!Said, heard>>
<1> DEFINE k == call.key
<1>1. /\ k \in GateIds \cup QuestionIds /\ k = call.for /\ k \in T!Keys
      /\ call \in Calls /\ w # None /\ w \in Bodies
      /\ k \in Topics
  BY CallFacts, KeyFacts DEF TrackerInv, TrackerTypes, CallInv, Topics
<1>2. ThreadGoesOn /\ T!Copies' = T!Copies /\ T!Said' = T!Said
  BY SameGoesOn
<1>3. CASE k \in GateIds
  <2>1. call' = T!Idle /\ heard' = heard \cup {<<k, w>>}
    BY <1>1, <1>3 DEF T!Replied, T!Hear
  <2>2. w = Go
    BY <1>1, <1>3, FitFacts
  <2>3. w \in T!Said[k]
    BY <1>1, SaidFacts
  <2>4. k \notin QuestionIds
    BY <1>3, KeyFacts
  <2>5. HeardInv' /\ [T!C!Next]_<<T!Copies, T!Said, heard>>
    BY <1>1, <1>2, <1>3, <2>1, <2>2, <2>3, <2>4, HearStep
  <2>6. QED
    BY <1>2, <2>1, <2>5, IdleFacts, WholeInv
<1>4. CASE k \notin GateIds
  <2>1. /\ call' = [call EXCEPT !.at = "bind", !.key = T!Ack(call.for),
                                !.body = w]
        /\ heard' = heard
    BY <1>4 DEF T!Replied
  <2>2. k \in QuestionIds /\ T!Ack(k) \in T!Keys
    BY <1>1, <1>4, KeyFacts
  <2>3. /\ call' \in Calls /\ call'.at = "bind" /\ call'.for = k
        /\ call'.key = T!Ack(k) /\ call'.body = w
    BY <1>1, <2>1, <2>2 DEF Calls
  <2>4. CallInv'
    BY <1>1, <2>2, <2>3 DEF CallInv, T!Ack
  <2>5. HeardInv'
    BY <2>1, HeardStays
  <2>6. QED
    BY <1>2, <2>1, <2>3, <2>4, <2>5, WholeInv, NothingSeen
<1>5. QED
  BY <1>3, <1>4

LEMMA ReplyKnownStep ==
  ASSUME TrackerInv, T!TrackerAssumption, T!ReplyKnown
  PROVE  TrackerInv' /\ [T!C!Next]_<<T!Copies, T!Said, heard>>
<1> DEFINE w == mem[call.key].reply
<1>1. /\ call.at = "reply" /\ w # None /\ T!Replied(w)
      /\ UNCHANGED <<mem, disk, thread, clock>>
  BY DEF T!ReplyKnown
<1>2. call.key \in DOMAIN mem
  BY <1>1 DEF TrackerInv, CallInv
<1>3. /\ w \in T!Replies
      /\ \E i \in DOMAIN thread :
           T!Fits(thread[i], call.key) /\ thread[i].body = w
  BY <1>1, <1>2 DEF TrackerInv, TrackerTypes, IsKnown, Requests, IsTrue
<1>4. NotesInv' /\ KeepsReplies
  <2>1. ThreadGoesOn
    BY <1>1, SameGoesOn
  <2>2. QED
    BY <1>1, <2>1 DEF TrackerInv, TrackerTypes, ThreadGoesOn, NotesInv,
                      InStep, KeepsReplies
<1> HIDE DEF w
<1>5. call.key \in DOMAIN mem' /\ mem'[call.key].reply = w
  BY <1>1, <1>2 DEF w
<1>6. QED
  BY <1>1, <1>3, <1>4, <1>5, RepliedStep

\* The first of the fitting comments of a page says a reply.
LEMMA FirstFits ==
  ASSUME TrackerInv, T!TrackerAssumption, NEW newest \in BOOLEAN,
         NEW k \in T!Keys, NEW c \in Cursors,
         NEW fitting, fitting = T!Page(c, newest) \cap T!Fitting(k),
         fitting # {}
  PROVE  LET i == T!FirstOf(fitting, newest) IN
         /\ i \in DOMAIN thread /\ T!Fits(thread[i], k)
         /\ thread[i].body \in T!Replies /\ thread[i].body # None
<1> DEFINE i == T!FirstOf(fitting, newest)
<1>1. /\ fitting \subseteq 1 .. Len(thread) /\ Len(thread) \in Nat
      /\ DOMAIN thread = 1 .. Len(thread)
  BY ScanFacts DEF TrackerInv, TrackerTypes
<1>2. \A j \in fitting : T!Fits(thread[j], k)
  BY DEF T!Fitting
<1>3. i \in fitting
  BY <1>1, EndFacts
<1> HIDE DEF i
<1>4. i \in DOMAIN thread /\ T!Fits(thread[i], k)
  BY <1>1, <1>2, <1>3
<1>5. thread[i].body \in T!Replies
  BY <1>4, FitFacts
<1>6. QED
  BY <1>4, <1>5, KeyFacts DEF i

\* A page is read: its first fitting comment is the reply.
LEMMA ReadPageStep ==
  ASSUME TrackerInv, T!TrackerAssumption, NEW newest \in BOOLEAN,
         T!ReadPage(newest)
  PROVE  TrackerInv' /\ [T!C!Next]_<<T!Copies, T!Said, heard>>
<1> DEFINE k == call.key
           c == mem[k].cursor
           fitting == T!Page(c, newest) \cap T!Fitting(k)
           w == IF fitting = {} THEN None
                ELSE thread[T!FirstOf(fitting, newest)].body
           r == [mem[k] EXCEPT !.reply = w, !.cursor = T!Advance(c, newest)]
           again == [call EXCEPT !.pages = @ + 1]
<1>1. /\ call.at = "reply" /\ mem[k].reply = None
      /\ UNCHANGED <<thread, clock>>
      /\ \/ /\ mem' = T!With(k, r) /\ disk' = mem'
            /\ \/ w # None /\ T!Replied(w)
               \/ w = None /\ call' = again /\ heard' = heard
               \/ w = None /\ T!Return
         \/ T!Fail(T!With(k, r))
  BY DEF T!ReadPage, T!Save
<1>2. /\ k \in DOMAIN mem /\ k \in GateIds \cup QuestionIds
      /\ k \in T!Keys /\ call \in Calls /\ CallInv
  BY <1>1, CallFacts DEF TrackerInv, CallInv
<1>3. mem[k] \in Requests /\ c \in Cursors
  BY <1>2 DEF TrackerInv, TrackerTypes, IsKnown, Requests
<1>4. thread \in Seq(Posts) /\ clock \in Nat
      /\ \A i \in DOMAIN thread : thread[i].time <= clock
  BY DEF TrackerInv, TrackerTypes, TimesInv
<1> HIDE DEF c
<1>5. T!Advance(c, newest) \in Cursors
  BY <1>3, <1>4, AdvanceFacts
<1>6. fitting # {} =>
        /\ w \in T!Replies /\ w # None
        /\ \E i \in DOMAIN thread : T!Fits(thread[i], k) /\ thread[i].body = w
  BY <1>2, <1>3, FirstFits
<1>7. w # None => fitting # {}
  OBVIOUS
<1>8. w \in T!Replies \cup {None}
  BY <1>6, <1>7
<1> HIDE DEF w, fitting
<1>9. /\ r \in Requests /\ r.posted = mem[k].posted /\ r.reply = w
  BY <1>3, <1>5, <1>8 DEF Requests
<1> HIDE DEF r
<1>10. ThreadGoesOn /\ T!Copies' = T!Copies /\ T!Said' = T!Said
  BY <1>1, SameGoesOn
<1>11. r.posted => IsIn(k, thread')
  BY <1>2, <1>9, <1>10 DEF TrackerInv, ThreadGoesOn, IsTrue
<1>12. r.reply # None =>
         /\ k \in GateIds \cup QuestionIds
         /\ \E i \in DOMAIN thread' :
              T!Fits(thread'[i], k) /\ thread'[i].body = r.reply
  BY <1>1, <1>2, <1>6, <1>7, <1>9
<1>13. /\ T!Fail(T!With(k, r)) => TrackerInv' /\ heard' = heard
       /\ mem' = T!With(k, r) /\ disk' = mem' =>
            /\ NotesInv' /\ KeepsReplies
            /\ k \in DOMAIN mem' /\ mem'[k] = r
            /\ \A l \in DOMAIN mem \ {k} : l \in DOMAIN mem' /\ mem'[l] = mem[l]
  BY <1>1, <1>9, <1>10, <1>11, <1>12, SaveStep
<1>14. CASE T!Fail(T!With(k, r))
  BY <1>10, <1>13, <1>14, NothingSeen
<1>15. CASE mem' = T!With(k, r) /\ disk' = mem' /\ w # None /\ T!Replied(w)
  <2>1. /\ NotesInv' /\ KeepsReplies
        /\ k \in DOMAIN mem' /\ mem'[k].reply = w
    BY <1>9, <1>13, <1>15
  <2>2. /\ w \in T!Replies
        /\ \E i \in DOMAIN thread : T!Fits(thread[i], k) /\ thread[i].body = w
    BY <1>6, <1>7, <1>15
  <2>3. QED
    BY <1>1, <1>15, <2>1, <2>2, RepliedStep
<1>16. CASE mem' = T!With(k, r) /\ disk' = mem' /\ call' = again
              /\ heard' = heard
  <2>1. NotesInv' /\ KeepsReplies /\ k \in DOMAIN mem'
    BY <1>13, <1>16
  <2>2. HeardInv'
    BY <1>16, <2>1, HeardStays
  <2>3. /\ call' \in Calls /\ call'.at = call.at /\ call'.for = call.for
        /\ call'.key = call.key /\ call'.body = call.body
    BY <1>2, <1>16 DEF Calls
  <2>4. CallInv'
    BY <1>1, <1>2, <2>1, <2>3 DEF CallInv
  <2>5. QED
    BY <1>10, <1>16, <2>1, <2>2, <2>3, <2>4, WholeInv, NothingSeen
<1>17. CASE mem' = T!With(k, r) /\ disk' = mem' /\ T!Return
  <2>1. NotesInv' /\ KeepsReplies
    BY <1>13, <1>17
  <2>2. call' = T!Idle /\ heard' = heard
    BY <1>17 DEF T!Return
  <2>3. HeardInv'
    BY <2>1, <2>2, HeardStays
  <2>4. QED
    BY <1>10, <2>1, <2>2, <2>3, IdleFacts, WholeInv, NothingSeen
<1>18. QED
  BY <1>1, <1>14, <1>15, <1>16, <1>17

LEMMA ExchangeFailsStep ==
  ASSUME TrackerInv, T!TrackerAssumption, T!ExchangeFails
  PROVE  TrackerInv' /\ [T!C!Next]_<<T!Copies, T!Said, heard>>
<1>1. T!Fail(mem) /\ UNCHANGED <<thread, clock>>
  BY DEF T!ExchangeFails
<1>2. QED
  BY <1>1, SameGoesOn, FailsHere, NothingSeen

\* What a host that died had in memory is lost; the next one reads the file.
LEMMA RestartStep ==
  ASSUME TrackerInv, T!TrackerAssumption, T!Restart
  PROVE  TrackerInv' /\ [T!C!Next]_<<T!Copies, T!Said, heard>>
<1>1. /\ mem' = disk /\ disk' = disk /\ call' = T!Idle /\ heard' = heard
      /\ UNCHANGED <<thread, clock>>
  BY DEF T!Restart, T!Return
<1>2. ThreadGoesOn /\ T!Copies' = T!Copies /\ T!Said' = T!Said
  BY <1>1, SameGoesOn
<1>3. NotesInv' /\ KeepsReplies
  BY <1>1, <1>2 DEF TrackerInv, TrackerTypes, ThreadGoesOn, NotesInv,
                    InStep, KeepsReplies
<1>4. HeardInv'
  BY <1>1, <1>3, HeardStays
<1>5. QED
  BY <1>1, <1>2, <1>3, <1>4, IdleFacts, WholeInv, NothingSeen

\* A remark of the owner's under a request is said to it.
LEMMA OutsidersStep ==
  ASSUME TrackerInv, T!TrackerAssumption, T!Outsiders
  PROVE  TrackerInv' /\ [T!C!Next]_<<T!Copies, T!Said, heard>>
<1>1. UNCHANGED <<mem, disk, clock, call, heard>>
  BY DEF T!Outsiders
<1>2. PICK remark \in Remarks :
        /\ remark.to = None \/ T!Published(remark.to)
        /\ thread' = Append(thread,
             [id |-> <<None, 0>>, body |-> remark.body,
              user |-> remark.user, time |-> clock,
              parent |-> IF remark.to = None THEN None
                         ELSE T!CommentId(remark.to)])
  BY DEF T!Outsiders
<1> DEFINE post == [id |-> <<None, 0>>, body |-> remark.body,
                    user |-> remark.user, time |-> clock,
                    parent |-> IF remark.to = None THEN None
                               ELSE T!CommentId(remark.to)]
<1>3. remark.to \in T!Keys \cup {None} /\ remark.body \in T!Replies
  BY DEF T!TrackerAssumption
<1>4. remark.body \in Bodies
  BY <1>3, KeyFacts
<1>5. thread' = Append(thread, post)
  BY <1>2
<1>6. /\ post \in Posts /\ post.id = <<None, 0>> /\ post.time = clock
      /\ post.body = remark.body /\ post.user = remark.user
      /\ post.parent = IF remark.to = None THEN None ELSE <<remark.to, 0>>
  BY <1>3, <1>4 DEF Posts, Ids, T!CommentId, TrackerInv, TrackerTypes
<1> HIDE DEF post
<1>7. /\ thread \in Seq(Posts) /\ ThreadInv /\ TimesInv
      /\ clock \in Nat \ {0} /\ call \in Calls /\ CallInv
  BY DEF TrackerInv, TrackerTypes
<1>8. /\ ThreadInv' /\ T!Copies' = T!Copies
      /\ IF remark.user = Owner /\ remark.to # None
         THEN T!Said' = [T!Said EXCEPT ![remark.to] = @ \cup {remark.body}]
         ELSE T!Said' = T!Said
  BY <1>2, <1>5, <1>6, <1>7, PostRemark
<1>9. ThreadGoesOn
  <2>1. thread' \in Seq(Posts)
    BY <1>5, <1>6, <1>7, PostFacts
  <2>2. \A m : IsTrue(m, thread) => IsTrue(m, thread')
    BY <1>5, <1>6, <1>7, MorePosts
  <2>3. TimesInv'
    BY <1>1, <1>5, <1>6, <1>7, TimedPost
  <2>4. QED
    BY <1>1, <1>7, <1>8, <2>1, <2>2, <2>3 DEF ThreadGoesOn
<1>10. TrackerInv'
  <2>1. NotesInv' /\ HeardInv'
    BY <1>1, <1>9, NotesStay
  <2>2. call' \in Calls /\ CallInv'
    BY <1>1, <1>7 DEF CallInv
  <2>3. QED
    BY <1>9, <2>1, <2>2, WholeInv
<1>11. CASE remark.user = Owner /\ remark.to # None
  <2>1. remark.to \in T!Keys /\ T!Published(remark.to)
    BY <1>2, <1>3, <1>11
  <2>2. T!Copies[remark.to] = 1
    BY <1>7, <2>1, CopyFacts DEF ThreadKnown, CopiesCounted
  <2>3. T!C!Say(remark.to, remark.body)
    BY <1>1, <1>8, <1>11, <2>2 DEF T!C!Say
  <2>4. T!C!Next
    BY <1>3, <2>1, <2>3 DEF T!C!Next
  <2>5. QED
    BY <1>10, <2>4
<1>12. CASE ~(remark.user = Owner /\ remark.to # None)
  BY <1>1, <1>8, <1>10, <1>12, NothingSeen
<1>13. QED
  BY <1>11, <1>12

LEMMA ClockStep ==
  ASSUME TrackerInv, T!TrackerAssumption, T!ClockTicks
  PROVE  TrackerInv' /\ [T!C!Next]_<<T!Copies, T!Said, heard>>
<1>1. /\ clock' = clock + 1 /\ UNCHANGED <<mem, disk, thread, call, heard>>
  BY DEF T!ClockTicks
<1>2. /\ thread \in Seq(Posts) /\ clock \in Nat \ {0} /\ TimesInv
      /\ call \in Calls /\ CallInv
  BY DEF TrackerInv, TrackerTypes
<1>3. TimesInv'
  <2>1. \A n \in 1 .. clock : n \in 1 .. clock + 1
    BY <1>2
  <2>2. QED
    BY <1>1, <1>2, <2>1 DEF TimesInv
<1>4. /\ T!Copies' = T!Copies /\ T!Said' = T!Said /\ ThreadInv'
  BY <1>1, SameThread DEF TrackerInv
<1>5. ThreadGoesOn
  BY <1>1, <1>2, <1>3, <1>4 DEF ThreadGoesOn
<1>6. NotesInv' /\ HeardInv'
  BY <1>1, <1>5, NotesStay
<1>7. call' \in Calls /\ CallInv'
  BY <1>1, <1>2 DEF CallInv
<1>8. QED
  BY <1>1, <1>4, <1>5, <1>6, <1>7, WholeInv, NothingSeen

\* Every step keeps the invariant and is a step of the correspondence.
LEMMA TrackerStep ==
  ASSUME TrackerInv, T!TrackerAssumption, NEW newest \in BOOLEAN,
         [T!TrackerNext(newest)]_T!tvars
  PROVE  TrackerInv' /\ [T!C!Next]_<<T!Copies, T!Said, heard>>
<1>1. CASE \E k \in T!Keys : T!Calls(k)
  BY <1>1, CallsStep
<1>2. CASE T!RecoverNothing
  <2>1. call.at = "recover" => call.key \in DOMAIN mem
    BY DEF TrackerInv, CallInv
  <2>2. QED
    BY <1>2, <2>1, GoesTo DEF T!RecoverNothing
<1>3. CASE T!Exchange(newest)
  BY <1>2, <1>3, BindStep, BoundStep, RecoverStep, CreateStep, ReplyKnownStep,
     ReadPageStep, ExchangeFailsStep DEF T!Exchange
<1>4. CASE T!Restart
  BY <1>4, RestartStep
<1>5. CASE T!Outsiders
  BY <1>5, OutsidersStep
<1>6. CASE T!ClockTicks
  BY <1>6, ClockStep
<1>7. CASE UNCHANGED T!tvars
  <2>1. UNCHANGED <<mem, disk, thread, clock, call, heard>>
    BY <1>7 DEF T!tvars
  <2>2. ThreadGoesOn /\ T!Copies' = T!Copies /\ T!Said' = T!Said
    BY <2>1, SameGoesOn
  <2>3. NotesInv' /\ HeardInv'
    BY <2>1, <2>2, NotesStay
  <2>4. call' \in Calls /\ CallInv'
    BY <2>1 DEF TrackerInv, TrackerTypes, CallInv
  <2>5. QED
    BY <2>1, <2>2, <2>3, <2>4, WholeInv, NothingSeen
<1>8. QED
  BY <1>1, <1>3, <1>4, <1>5, <1>6, <1>7 DEF T!TrackerNext

LEMMA TrackerStart ==
  ASSUME T!TrackerAssumption, T!TrackerInit
  PROVE  TrackerInv /\ T!C!Init
<1>1. /\ mem = <<>> /\ disk = <<>> /\ thread = <<>> /\ clock = 1
      /\ call = T!Idle /\ heard = {}
  BY DEF T!TrackerInit
<1>2. TrackerTypes
  BY <1>1 DEF TrackerTypes, IsKnown, T!Idle, Calls
<1>3. TrackerInv
  BY <1>1, <1>2 DEF TrackerInv, CallInv, T!Idle, ThreadInv, TimesInv, IsTrue,
                    InStep, HeardInv
<1>4. \A k \in T!Keys : ~T!Published(k)
  BY <1>1 DEF T!Published
<1>5. T!Copies = [k \in T!Keys |-> 0]
  <2>1. \A k \in T!Keys : T!Copies[k] = 0
    BY <1>3, <1>4, CopyFacts
    DEF ThreadKnown, CopiesCounted, TrackerInv, TrackerTypes
  <2>2. T!Copies = [k \in T!Keys |-> T!Copies[k]]
    BY DEF T!Copies
  <2>3. QED
    BY <2>1, <2>2
<1>6. T!Said = [k \in T!Keys |-> {}]
  BY <1>1 DEF T!Said
<1>7. QED
  BY <1>1, <1>3, <1>5, <1>6 DEF T!C!Init

LEMMA TrackerInvariance ==
  ASSUME T!TrackerAssumption, NEW newest \in BOOLEAN
  PROVE  T!TrackerSpec(newest) => []TrackerInv
<1>1. T!TrackerInit => TrackerInv
  BY TrackerStart
<1>2. TrackerInv /\ [T!TrackerNext(newest)]_T!tvars => TrackerInv'
  BY TrackerStep
<1>3. QED
  BY <1>1, <1>2, PTL DEF T!TrackerSpec

(* A request becomes one comment, though responses are lost, hosts die and *)
(* saves fail; what the hub hears of it is the owner's, always the same,   *)
(* and an answer is acknowledged in the thread before the hub acts on it   *)
(* (post_comment, reply, answer): the tracker implements Correspondence,   *)
(* for any number of requests and any size of a page.                      *)
THEOREM TrackerCorresponds ==
  ASSUME T!TrackerAssumption, NEW newest \in BOOLEAN
  PROVE  T!TrackerSpec(newest) => T!Corresponds
<1>1. T!TrackerInit => T!C!Init
  BY TrackerStart
<1>2. TrackerInv /\ [T!TrackerNext(newest)]_T!tvars
        => [T!C!Next]_<<T!Copies, T!Said, heard>>
  BY TrackerStep
<1>3. QED
  BY <1>1, <1>2, TrackerInvariance, PTL
  DEF T!TrackerSpec, T!Corresponds, T!C!Spec
-----------------------------------------------------------------------------
(* The cursor of the replies. *)

\* Comment i is among those that the scan of a cursor has still to read.
Ahead(c, i, posts, newest) ==
  /\ posts[i].time >= c.since
  /\ c.after = 0 \/ IF newest THEN i < c.after ELSE i > c.after

\* The cursor of request k has passed no fitting comment: when the service
\* begins with the newest, those that have come during a scan are left to
\* the next one.
Follows(r, k, posts, now, newest) ==
  LET c == r.cursor IN
  /\ c.since <= now /\ c.max <= now /\ c.after <= Len(posts)
  /\ c.after # 0 => c.max # 0
  /\ r.reply = None =>
       \A i \in DOMAIN posts : T!Fits(posts[i], k) =>
         \/ Ahead(c, i, posts, newest)
         \/ newest /\ c.after # 0 /\ i >= c.after /\ posts[i].time >= c.max

CursorInv(newest) ==
  /\ \A k \in DOMAIN mem : Follows(mem[k], k, thread, clock, newest)
  /\ \A k \in DOMAIN disk : Follows(disk[k], k, thread, clock, newest)

\* Comments are added at the end, and with the time of now.
ThreadExtends ==
  /\ Len(thread) \in Nat /\ Len(thread') \in Nat /\ Len(thread) <= Len(thread')
  /\ DOMAIN thread = 1 .. Len(thread) /\ DOMAIN thread' = 1 .. Len(thread')
  /\ \A i \in DOMAIN thread : thread'[i] = thread[i]
  /\ \A i \in DOMAIN thread' \ DOMAIN thread : thread'[i].time = clock
  /\ clock \in Nat /\ clock' \in Nat /\ clock <= clock'
  /\ \A i \in DOMAIN thread : thread[i].time \in Nat

LEMMA ExtendedOne ==
  ASSUME ThreadExtends, NEW newest \in BOOLEAN, NEW k, NEW r \in Requests,
         Follows(r, k, thread, clock, newest)
  PROVE  Follows(r, k, thread', clock', newest)
<1> DEFINE c == r.cursor
<1>1. c.since \in Nat /\ c.max \in Nat /\ c.after \in Nat
  BY DEF Requests, Cursors
<1>2. /\ c.since <= clock /\ c.max <= clock /\ c.after <= Len(thread)
      /\ c.after # 0 => c.max # 0
      /\ r.reply = None =>
           \A i \in DOMAIN thread : T!Fits(thread[i], k) =>
             \/ Ahead(c, i, thread, newest)
             \/ newest /\ c.after # 0 /\ i >= c.after /\ thread[i].time >= c.max
  BY DEF Follows
<1> HIDE DEF c
<1>3. /\ c.since <= clock' /\ c.max <= clock' /\ c.after <= Len(thread')
  BY <1>1, <1>2 DEF ThreadExtends
<1>4. ASSUME r.reply = None, NEW i \in DOMAIN thread', T!Fits(thread'[i], k)
      PROVE  \/ Ahead(c, i, thread', newest)
             \/ newest /\ c.after # 0 /\ i >= c.after /\ thread'[i].time >= c.max
  <2>1. CASE i \in DOMAIN thread
    <3>1. thread'[i] = thread[i]
      BY <2>1 DEF ThreadExtends
    <3>2. QED
      BY <1>2, <1>4, <2>1, <3>1 DEF Ahead
  <2>2. CASE i \notin DOMAIN thread
    <3>1. thread'[i].time = clock /\ i \in Nat /\ i > Len(thread)
      BY <2>2 DEF ThreadExtends
    <3>2. i > c.after /\ clock >= c.since /\ clock >= c.max
      BY <1>1, <1>2, <3>1 DEF ThreadExtends
    <3>3. QED
      BY <1>1, <3>1, <3>2 DEF Ahead
  <2>3. QED
    BY <2>1, <2>2
<1>5. QED
  BY <1>2, <1>3, <1>4 DEF Follows, c

\* Notes that are kept, or lost with their host, or one that is written.
LEMMA WrittenFollows ==
  ASSUME NEW newest \in BOOLEAN, TrackerInv, CursorInv(newest), ThreadExtends,
         NEW k \in T!Keys, NEW r \in Requests,
         Follows(r, k, thread', clock', newest),
         mem' \in {mem, disk, T!With(k, r)}, disk' \in {disk, T!With(k, r)}
  PROVE  CursorInv(newest)'
<1>1. IsKnown(mem) /\ IsKnown(disk)
  BY DEF TrackerInv, TrackerTypes
<1>2. /\ \A l \in DOMAIN mem : Follows(mem[l], l, thread', clock', newest)
      /\ \A l \in DOMAIN disk : Follows(disk[l], l, thread', clock', newest)
  <2>1. /\ \A l \in DOMAIN mem : mem[l] \in Requests
        /\ \A l \in DOMAIN disk : disk[l] \in Requests
    BY <1>1 DEF IsKnown
  <2>2. QED
    BY <2>1, ExtendedOne DEF CursorInv
<1> DEFINE m == T!With(k, r)
<1>3. /\ DOMAIN m = DOMAIN mem \cup {k} /\ m[k] = r
      /\ \A l \in DOMAIN mem \ {k} : m[l] = mem[l]
  BY <1>1, WithFacts
<1> HIDE DEF m
<1>4. \A l \in DOMAIN m : Follows(m[l], l, thread', clock', newest)
  BY <1>2, <1>3
<1>5. mem' \in {mem, disk, m} /\ disk' \in {disk, m}
  BY DEF m
<1>6. \A l \in DOMAIN mem' : Follows(mem'[l], l, thread', clock', newest)
  BY <1>2, <1>4, <1>5
<1>7. \A l \in DOMAIN disk' : Follows(disk'[l], l, thread', clock', newest)
  BY <1>2, <1>4, <1>5
<1>8. QED
  BY <1>6, <1>7 DEF CursorInv

LEMMA KeptFollows ==
  ASSUME NEW newest \in BOOLEAN, TrackerInv, CursorInv(newest), ThreadExtends,
         mem' \in {mem, disk}, disk' = disk
  PROVE  CursorInv(newest)'
<1>1. /\ \A l \in DOMAIN mem : mem[l] \in Requests
      /\ \A l \in DOMAIN disk : disk[l] \in Requests
  BY DEF TrackerInv, TrackerTypes, IsKnown
<1>2. /\ \A l \in DOMAIN mem : Follows(mem[l], l, thread', clock', newest)
      /\ \A l \in DOMAIN disk : Follows(disk[l], l, thread', clock', newest)
  BY <1>1, ExtendedOne DEF CursorInv
<1>3. /\ \A l \in DOMAIN mem' : Follows(mem'[l], l, thread', clock', newest)
      /\ \A l \in DOMAIN disk' : Follows(disk'[l], l, thread', clock', newest)
  BY <1>2
<1>4. QED
  BY <1>3 DEF CursorInv

\* How the thread goes on in a step.
LEMMA Extensions ==
  ASSUME TrackerInv, clock' = clock \/ clock' = clock + 1,
         \/ thread' = thread
         \/ \E post \in Posts :
              post.time = clock /\ thread' = Append(thread, post)
  PROVE  ThreadExtends
<1>1. /\ thread \in Seq(Posts) /\ clock \in Nat
      /\ \A i \in DOMAIN thread : thread[i].time \in Nat
  BY DEF TrackerInv, TrackerTypes, TimesInv
<1>2. DOMAIN thread = 1 .. Len(thread) /\ Len(thread) \in Nat
  BY <1>1
<1>3. CASE thread' = thread
  BY <1>1, <1>2, <1>3 DEF ThreadExtends
<1>4. CASE thread' # thread
  <2>1. PICK post \in Posts : post.time = clock /\ thread' = Append(thread, post)
    BY <1>4
  <2>2. /\ Len(thread') = Len(thread) + 1 /\ DOMAIN thread' = 1 .. Len(thread')
    BY <1>1, <2>1
  <2>3. /\ DOMAIN thread' = DOMAIN thread \cup {Len(thread) + 1}
        /\ thread'[Len(thread) + 1] = post
        /\ \A i \in DOMAIN thread : thread'[i] = thread[i]
    BY <1>1, <2>1, PostFacts
  <2>4. \A i \in DOMAIN thread' \ DOMAIN thread : thread'[i].time = clock
    BY <2>1, <2>3
  <2>5. Len(thread) <= Len(thread') /\ Len(thread') \in Nat /\ clock <= clock'
        /\ clock' \in Nat
    BY <1>1, <1>2, <2>2
  <2>6. QED
    BY <1>1, <1>2, <2>2, <2>3, <2>4, <2>5 DEF ThreadExtends
<1>5. QED
  BY <1>3, <1>4

\* A cursor that goes on behind a page without a fitting comment passes none.
LEMMA AdvanceFollows ==
  ASSUME TrackerInv, T!TrackerAssumption, NEW newest \in BOOLEAN,
         NEW k \in T!Keys, NEW r \in Requests,
         Follows(r, k, thread, clock, newest), r.reply = None,
         NEW w \in T!Replies \cup {None},
         w = None => T!Page(r.cursor, newest) \cap T!Fitting(k) = {}
  PROVE  Follows([r EXCEPT !.reply = w, !.cursor = T!Advance(r.cursor, newest)],
                 k, thread, clock, newest)
<1> DEFINE c == r.cursor
           page == T!Page(c, newest)
           scan == T!Scan(c, newest)
           d == T!Advance(c, newest)
           end == T!EndOf(page, newest)
<1>1. /\ c \in Cursors
      /\ c.since \in Nat /\ c.max \in Nat /\ c.after \in Nat
  BY DEF Requests, Cursors
<1>2. /\ thread \in Seq(Posts) /\ clock \in Nat
      /\ \A i \in DOMAIN thread : thread[i].time \in 1 .. clock
      /\ \A i, j \in DOMAIN thread : i < j => thread[i].time <= thread[j].time
      /\ DOMAIN thread = 1 .. Len(thread) /\ Len(thread) \in Nat
  BY DEF TrackerInv, TrackerTypes, TimesInv
<1>3. page \subseteq scan /\ scan \subseteq 1 .. Len(thread)
  BY <1>1, <1>2, ScanFacts
<1>4. /\ scan # {} => page # {}
      /\ \A i \in scan \ page : \A j \in page : Before(j, i, newest)
  BY <1>1, <1>2, PageFacts
<1>5. \A i \in DOMAIN thread : i \in scan <=> Ahead(c, i, thread, newest)
  BY <1>2 DEF T!Scan, Ahead
<1>6. PICK max \in Nat :
        /\ max \in {c.max} \cup {thread[i].time : i \in page}
        /\ c.max <= max
        /\ \A i \in page : thread[i].time <= max
        /\ page # scan => /\ end \in page
                          /\ d = [since |-> c.since, after |-> end, max |-> max]
        /\ page = scan =>
             d = [since |-> IF max # 0 THEN max ELSE c.since,
                  after |-> 0, max |-> 0]
        /\ d \in Cursors
  <2>1. \A i \in DOMAIN thread : thread[i].time <= clock
    BY <1>2
  <2>2. QED
    BY <1>1, <1>2, <2>1, AdvanceFacts
<1>7. /\ c.since <= clock /\ c.max <= clock /\ c.after <= Len(thread)
      /\ c.after # 0 => c.max # 0
      /\ \A i \in DOMAIN thread : T!Fits(thread[i], k) =>
           \/ Ahead(c, i, thread, newest)
           \/ newest /\ c.after # 0 /\ i >= c.after /\ thread[i].time >= c.max
  BY DEF Follows
<1>8. \A i \in page : i \in DOMAIN thread /\ i \in Nat
  BY <1>2, <1>3
<1>9. w = None => \A i \in page : ~T!Fits(thread[i], k)
  BY <1>8 DEF T!Fitting
<1> DEFINE q == [r EXCEPT !.reply = w, !.cursor = d]
<1>10. q.cursor = d /\ q.reply = w
  BY DEF Requests
<1> HIDE DEF c, page, scan, d, end, q
<1>11. max <= clock
  BY <1>2, <1>6, <1>7, <1>8
<1>12. CASE page # scan
  <2>1. /\ end \in page /\ end \in DOMAIN thread /\ end \in Nat
        /\ d.since = c.since /\ d.after = end /\ d.max = max
    BY <1>6, <1>8, <1>12
  <2>2. thread[end].time <= max /\ thread[end].time \in 1 .. clock
    BY <1>2, <1>6, <2>1
  <2>3. max # 0 /\ end <= Len(thread)
    BY <1>2, <2>1, <2>2
  <2>4. ASSUME w = None, NEW i \in DOMAIN thread, T!Fits(thread[i], k)
        PROVE  \/ Ahead(d, i, thread, newest)
               \/ newest /\ d.after # 0 /\ i >= d.after /\ thread[i].time >= d.max
    <3>1. i \in Nat /\ thread[i].time \in Nat
      BY <1>2
    <3>2. CASE Ahead(c, i, thread, newest)
      <4>1. i \in scan /\ i \notin page
        BY <1>5, <1>9, <2>4, <3>2
      <4>2. Before(end, i, newest)
        BY <1>4, <2>1, <4>1
      <4>3. QED
        BY <2>1, <3>1, <3>2, <4>2 DEF Ahead, Before
    <3>3. CASE newest /\ c.after # 0 /\ i >= c.after /\ thread[i].time >= c.max
      <4>1. \A j \in page : j < c.after
        BY <1>1, <1>3, <1>5, <1>8, <3>3 DEF Ahead
      <4>2. \A j \in page : thread[j].time <= thread[i].time
        BY <1>1, <1>2, <1>8, <3>1, <3>3, <4>1
      <4>3. thread[i].time >= max
        BY <1>6, <3>1, <3>3, <4>2
      <4>4. i >= end /\ end # 0
        BY <1>1, <1>2, <2>1, <3>1, <3>3, <4>1
      <4>5. QED
        BY <2>1, <3>3, <4>3, <4>4
    <3>4. QED
      BY <1>7, <2>4, <3>2, <3>3
  <2>5. QED
    BY <1>1, <1>7, <1>10, <1>11, <2>1, <2>3, <2>4 DEF Follows, q, d, c
<1>13. CASE page = scan
  <2>1. /\ d.since = IF max # 0 THEN max ELSE c.since
        /\ d.after = 0 /\ d.max = 0
    BY <1>6, <1>13
  <2>2. ASSUME w = None, NEW i \in DOMAIN thread, T!Fits(thread[i], k)
        PROVE  Ahead(d, i, thread, newest)
    <3>1. i \in Nat /\ thread[i].time \in Nat
      BY <1>2
    <3>2. ~Ahead(c, i, thread, newest)
      BY <1>5, <1>9, <1>13, <2>2
    <3>3. newest /\ c.after # 0 /\ i >= c.after /\ thread[i].time >= c.max
      BY <1>7, <2>2, <3>2
    <3>4. \A j \in page : j < c.after
      BY <1>1, <1>3, <1>5, <1>8, <3>3 DEF Ahead
    <3>5. \A j \in page : thread[j].time <= thread[i].time
      BY <1>1, <1>2, <1>8, <3>1, <3>3, <3>4
    <3>6. thread[i].time >= max
      BY <1>6, <3>1, <3>3, <3>5
    <3>7. max # 0
      BY <1>1, <1>6, <1>7, <3>3
    <3>8. QED
      BY <2>1, <3>6, <3>7 DEF Ahead
  <2>3. d.since <= clock /\ 0 <= clock /\ 0 <= Len(thread)
    BY <1>2, <1>7, <1>11, <2>1
  <2>4. QED
    BY <1>10, <2>1, <2>2, <2>3 DEF Follows, q, d, c
<1>14. QED
  BY <1>12, <1>13

\* What a step leaves of the notes, and what it may write of its request.
Keeps == mem' \in {mem, disk} /\ disk' = disk
Writes(k, r) ==
  mem' \in {mem, disk, T!With(k, r)} /\ disk' \in {disk, T!With(k, r)}

LEMMA FailKeeps == T!Fail(mem) => Keeps
BY DEF T!Fail, Keeps

LEMMA SaveWrites ==
  ASSUME NEW k, NEW r, NEW ACTION next, T!Save(k, r, next)
  PROVE  Writes(k, r)
BY DEF T!Save, T!Fail, Writes

\* The thread in a step.
LEMMA ThreadGrows ==
  ASSUME TrackerInv, T!TrackerAssumption, NEW newest \in BOOLEAN,
         [T!TrackerNext(newest)]_T!tvars
  PROVE  ThreadExtends
<1>1. CASE clock' = clock /\ thread' = thread
  BY <1>1, Extensions
<1>2. CASE T!ClockTicks
  BY <1>2, Extensions DEF T!ClockTicks
<1>3. CASE T!Outsiders
  <2>1. PICK remark \in Remarks :
          thread' = Append(thread,
             [id |-> <<None, 0>>, body |-> remark.body,
              user |-> remark.user, time |-> clock,
              parent |-> IF remark.to = None THEN None
                         ELSE T!CommentId(remark.to)])
    BY <1>3 DEF T!Outsiders
  <2> DEFINE post == [id |-> <<None, 0>>, body |-> remark.body,
                      user |-> remark.user, time |-> clock,
                      parent |-> IF remark.to = None THEN None
                                 ELSE T!CommentId(remark.to)]
  <2>2. remark.to \in T!Keys \cup {None} /\ remark.body \in T!Replies
    BY DEF T!TrackerAssumption
  <2>3. remark.body \in Bodies /\ clock \in Nat
    BY <2>2, KeyFacts DEF TrackerInv, TrackerTypes
  <2>4. post \in Posts /\ post.time = clock /\ thread' = Append(thread, post)
    BY <2>1, <2>2, <2>3 DEF Posts, Ids, T!CommentId
  <2>5. clock' = clock
    BY <1>3 DEF T!Outsiders
  <2> HIDE DEF post
  <2>6. QED
    BY <2>4, <2>5, Extensions
<1>4. CASE (T!Create \/ T!CreateLost)
  <2>1. call.at = "create" /\ T!Publish /\ clock' = clock
    BY <1>4 DEF T!Create, T!CreateLost
  <2> DEFINE post == [id |-> T!CommentId(call.key), body |-> call.body,
                      user |-> App, parent |-> None, time |-> clock]
  <2>2. thread' = Append(thread, post) /\ post.time = clock
    BY <2>1 DEF T!Publish
  <2>3. call.key \in T!Keys /\ call.body \in Bodies /\ clock \in Nat
    BY <2>1, CallFacts DEF TrackerInv, TrackerTypes
  <2>4. post \in Posts
    BY <2>3 DEF Posts, Ids, T!CommentId
  <2> HIDE DEF post
  <2>5. QED
    BY <2>1, <2>2, <2>4, Extensions
<1>5. QED
  BY <1>1, <1>2, <1>3, <1>4
  DEF T!TrackerNext, T!Exchange, T!tvars, T!Calls, T!Bind, T!Bound,
      T!RecoverPosted, T!RecoverNothing, T!ReplyKnown, T!ReadPage,
      T!ExchangeFails, T!Restart

\* Only three exchanges write notes.
LEMMA OthersKeep ==
  ASSUME NEW newest \in BOOLEAN, [T!TrackerNext(newest)]_T!tvars,
         ~T!Bind, ~T!ReadPage(newest),
         ~(call.at \in {"recover", "create"} /\ T!KnownPosted)
  PROVE  Keeps
<1>1. CASE \/ T!CreateLost \/ T!ExchangeFails \/ T!RecoverPosted \/ T!Create
  BY <1>1, FailKeeps DEF T!CreateLost, T!ExchangeFails, T!RecoverPosted,
                         T!Create
<1>2. CASE T!Bound
  BY <1>2, FailKeeps DEF T!Bound, Keeps
<1>3. QED
  BY <1>1, <1>2
  DEF T!TrackerNext, T!Exchange, T!tvars, T!Calls, T!RecoverNothing,
      T!ReplyKnown, T!Restart, T!Outsiders, T!ClockTicks, Keeps

\* Only the cursor and the reply of a request count.
LEMMA SameFollows ==
  ASSUME NEW newest \in BOOLEAN, NEW k, NEW q, NEW r, NEW posts, NEW now,
         Follows(q, k, posts, now, newest),
         r.cursor = q.cursor, r.reply = q.reply
  PROVE  Follows(r, k, posts, now, newest)
BY DEF Follows

LEMMA NewFollows ==
  ASSUME NEW newest \in BOOLEAN, ThreadExtends, TimesInv', NEW k, NEW body
  PROVE  Follows(T!NewRequest(body), k, thread', clock', newest)
<1> DEFINE r == T!NewRequest(body)
<1>1. r.cursor.since = 0 /\ r.cursor.after = 0 /\ r.cursor.max = 0
  BY DEF T!NewRequest, T!StartCursor
<1>2. \A i \in DOMAIN thread' : thread'[i].time \in Nat
  BY DEF TimesInv, ThreadExtends
<1>3. \A i \in DOMAIN thread' : Ahead(r.cursor, i, thread', newest)
  BY <1>1, <1>2 DEF Ahead
<1>4. clock' \in Nat /\ Len(thread') \in Nat
  BY DEF ThreadExtends
<1> HIDE DEF r
<1>5. Follows(r, k, thread', clock', newest)
  BY <1>1, <1>3, <1>4 DEF Follows
<1>6. QED
  BY <1>5 DEF r

LEMMA CursorStep ==
  ASSUME NEW newest \in BOOLEAN, TrackerInv, CursorInv(newest),
         T!TrackerAssumption, [T!TrackerNext(newest)]_T!tvars
  PROVE  CursorInv(newest)'
<1>1. ThreadExtends /\ TrackerInv'
  BY ThreadGrows, TrackerStep
<1>2. CASE Keeps
  BY <1>1, <1>2, KeptFollows DEF Keeps
<1> DEFINE k == call.key
<1>3. ASSUME NEW r \in Requests, Writes(k, r), k \in T!Keys,
             Follows(r, k, thread', clock', newest)
      PROVE  CursorInv(newest)'
  BY <1>1, <1>3, WrittenFollows DEF Writes
<1>4. CASE T!Bind
  <2> DEFINE r == T!NewRequest(call.body)
  <2>1. k \in T!Keys /\ call.body \in Bodies
    BY <1>4, CallFacts DEF T!Bind
  <2>2. r \in Requests
    BY <2>1 DEF T!NewRequest, T!StartCursor, Requests, Cursors
  <2>3. Writes(k, r)
    BY <1>4, SaveWrites DEF T!Bind
  <2>4. Follows(r, k, thread', clock', newest)
    BY <1>1, NewFollows DEF TrackerInv
  <2> HIDE DEF r
  <2>5. QED
    BY <1>3, <2>1, <2>2, <2>3, <2>4
<1>5. CASE call.at \in {"recover", "create"} /\ T!KnownPosted
  <2> DEFINE r == [mem[k] EXCEPT !.posted = TRUE]
  <2>1. k \in T!Keys /\ k \in DOMAIN mem /\ mem[k] \in Requests
    BY <1>5, CallFacts DEF TrackerInv, CallInv, TrackerTypes, IsKnown
  <2>2. r \in Requests /\ r.cursor = mem[k].cursor /\ r.reply = mem[k].reply
    BY <2>1 DEF Requests
  <2>3. Writes(k, r)
    BY <1>5, SaveWrites DEF T!KnownPosted
  <2>4. Follows(mem[k], k, thread', clock', newest)
    BY <1>1, <2>1, ExtendedOne DEF CursorInv
  <2>5. Follows(r, k, thread', clock', newest)
    BY <2>2, <2>4, SameFollows
  <2> HIDE DEF r
  <2>6. QED
    BY <1>3, <2>1, <2>2, <2>3, <2>5
<1>6. CASE T!ReadPage(newest)
  <2> DEFINE c == mem[k].cursor
             fitting == T!Page(c, newest) \cap T!Fitting(k)
             w == IF fitting = {} THEN None
                  ELSE thread[T!FirstOf(fitting, newest)].body
             r == [mem[k] EXCEPT !.reply = w, !.cursor = T!Advance(c, newest)]
  <2>1. /\ call.at = "reply" /\ mem[k].reply = None
        /\ thread' = thread /\ clock' = clock
    BY <1>6 DEF T!ReadPage
  <2>2. k \in DOMAIN mem /\ k \in T!Keys
    BY <2>1, CallFacts DEF TrackerInv, CallInv
  <2>3. mem[k] \in Requests /\ c \in Cursors
    BY <2>2 DEF TrackerInv, TrackerTypes, IsKnown, Requests
  <2>4. Writes(k, r)
    BY <1>6, SaveWrites DEF T!ReadPage
  <2> HIDE DEF c
  <2>5. fitting # {} => w \in T!Replies /\ w # None
    BY <2>2, <2>3, FirstFits
  <2>6. w \in T!Replies \cup {None} /\ (w = None => fitting = {})
    BY <2>5
  <2>7. T!Advance(c, newest) \in Cursors
    <3>1. /\ thread \in Seq(Posts) /\ clock \in Nat
          /\ \A i \in DOMAIN thread : thread[i].time <= clock
      BY DEF TrackerInv, TrackerTypes, TimesInv
    <3>2. QED
      BY <2>3, <3>1, AdvanceFacts
  <2>8. Follows(mem[k], k, thread, clock, newest)
    BY <2>2 DEF CursorInv
  <2> HIDE DEF w
  <2>9. Follows([mem[k] EXCEPT !.reply = w,
                               !.cursor = T!Advance(mem[k].cursor, newest)],
                k, thread, clock, newest)
    BY <2>1, <2>2, <2>3, <2>6, <2>8, AdvanceFollows DEF c
  <2>10. r \in Requests
    BY <2>3, <2>6, <2>7 DEF Requests
  <2>11. Follows(r, k, thread', clock', newest)
    BY <2>1, <2>9 DEF c
  <2> HIDE DEF r
  <2>12. QED
    BY <1>3, <2>2, <2>4, <2>10, <2>11
<1>7. QED
  BY <1>2, <1>4, <1>5, <1>6, OthersKeep

\* A cursor that follows its request has the fitting comments before it, in
\* the scan in progress or in the next one.
LEMMA FollowsShows ==
  ASSUME TrackerInv, NEW newest \in BOOLEAN, CursorInv(newest)
  PROVE  T!NothingBehindCursor(newest)
<1> SUFFICES ASSUME NEW k \in DOMAIN mem, mem[k].reply = None,
                    NEW i \in T!Fitting(k)
             PROVE  \/ i \in T!Scan(mem[k].cursor, newest)
                    \/ i \in T!Scan([since |-> IF mem[k].cursor.max # 0
                                               THEN mem[k].cursor.max
                                               ELSE mem[k].cursor.since,
                                     after |-> 0, max |-> 0], newest)
  BY DEF T!NothingBehindCursor
<1> DEFINE c == mem[k].cursor
           d == [since |-> IF c.max # 0 THEN c.max ELSE c.since,
                 after |-> 0, max |-> 0]
<1>1. i \in DOMAIN thread /\ T!Fits(thread[i], k)
  BY DEF T!Fitting
<1>2. /\ c.after # 0 => c.max # 0
      /\ \/ Ahead(c, i, thread, newest)
         \/ newest /\ c.after # 0 /\ i >= c.after /\ thread[i].time >= c.max
  BY <1>1 DEF CursorInv, Follows
<1>3. Ahead(c, i, thread, newest) => i \in T!Scan(c, newest)
  BY <1>1 DEF Ahead, T!Scan
<1>4. c.max # 0 /\ thread[i].time >= c.max => i \in T!Scan(d, newest)
  BY <1>1 DEF T!Scan
<1>5. QED
  BY <1>2, <1>3, <1>4

LEMMA CursorStart ==
  ASSUME T!TrackerInit, NEW newest \in BOOLEAN
  PROVE  CursorInv(newest)
<1>1. DOMAIN mem = {} /\ DOMAIN disk = {}
  BY DEF T!TrackerInit
<1>2. QED
  BY <1>1 DEF CursorInv

(* The cursor of a request that waits for its reply passes no comment that *)
(* answers it: what comes between two pages, or shares its time with       *)
(* another, is read by the scan in progress or by the one after it, in     *)
(* either order of the service's pages and for any size of a page          *)
(* (list_comments_since, reply).                                           *)
THEOREM NoReplyPassed ==
  ASSUME T!TrackerAssumption, NEW newest \in BOOLEAN
  PROVE  T!TrackerSpec(newest) => []T!NothingBehindCursor(newest)
<1>1. T!TrackerInit => CursorInv(newest)
  BY CursorStart
<1>2. TrackerInv /\ CursorInv(newest) /\ [T!TrackerNext(newest)]_T!tvars
        => CursorInv(newest)'
  BY CursorStep
<1>3. TrackerInv /\ CursorInv(newest) => T!NothingBehindCursor(newest)
  BY FollowsShows
<1>4. QED
  BY <1>1, <1>2, <1>3, TrackerInvariance, PTL DEF T!TrackerSpec
-----------------------------------------------------------------------------
(* The cycles of a workflow (WorkflowCycles). *)

CONSTANTS Names, Missing, MaxTargets

VARIABLES targets, bounded, incoming, ready, verdict

W == INSTANCE WorkflowCycles

\* The steps that have not been removed.
Left == {n \in W!Plain : incoming[n] > 0} \cup ready

\* Each of the steps of C is led to by one of them.
Closed(C) == \A n \in C : \E f \in C : <<f, n>> \in W!Leads

CyclesTypes ==
  /\ targets \in [Names -> UNION {[1 .. k -> Names \cup {Missing}] : k \in 0 .. MaxTargets}]
  /\ bounded \in SUBSET Names /\ incoming \in [Names -> Nat]
  /\ ready \in SUBSET W!Plain
  /\ verdict \in {"counting", "removing", "accepted", "rejected"}

\* While steps are removed: the counts are those of the edges from the steps
\* that are left, and steps that lead to one another are all left.
Removing ==
  /\ ~W!Dangling
  /\ \A n \in ready : incoming[n] = 0
  /\ \A n \in W!Plain : incoming[n] = Cardinality(W!Edges(n, Left))
  /\ \A C \in SUBSET W!Plain : Closed(C) => C \subseteq Left

CyclesInv ==
  /\ CyclesTypes
  /\ verdict = "removing" => Removing
  /\ verdict = "accepted" =>
       ~W!Dangling /\ \A C \in SUBSET W!Plain : Closed(C) => C = {}
  /\ verdict = "rejected" => W!RejectedGoesRound

LEMMA CyclesCardinality == \A S : W!Cardinality(S) = Cardinality(S)
BY DEF W!Cardinality, Cardinality

\* A step is led to from f just if there is an edge; there are finitely many.
LEMMA EdgeFacts ==
  ASSUME W!CyclesAssumption, CyclesTypes, NEW n, NEW F \in SUBSET W!Plain
  PROVE  /\ IsFiniteSet(W!Edges(n, F)) /\ Cardinality(W!Edges(n, F)) \in Nat
         /\ W!Edges(n, F) # {} <=> \E f \in F : n \in W!Range(targets[f])
<1>1. IsFiniteSet(Names) /\ MaxTargets \in Nat
  BY DEF W!CyclesAssumption, W!IsFiniteSet, IsFiniteSet
<1>2. IsFiniteSet(F \X (1 .. MaxTargets))
  <2>1. IsFiniteSet(F)
    BY <1>1, FS_Subset DEF W!Plain
  <2>2. IsFiniteSet(1 .. MaxTargets)
    BY <1>1, FS_Interval
  <2>3. QED
    BY <2>1, <2>2, FS_Product
<1>3. IsFiniteSet(W!Edges(n, F))
  <2>1. W!Edges(n, F) \subseteq F \X (1 .. MaxTargets)
    BY DEF W!Edges
  <2>2. QED
    BY <1>2, <2>1, FS_Subset
<1>4. ASSUME NEW f \in F
      PROVE  DOMAIN targets[f] \subseteq 1 .. MaxTargets
  <2>1. f \in Names
    BY DEF W!Plain
  <2>2. PICK k \in 0 .. MaxTargets : targets[f] \in [1 .. k -> Names \cup {Missing}]
    BY <2>1 DEF CyclesTypes
  <2>3. QED
    BY <1>1, <2>2
<1>5. W!Edges(n, F) # {} <=> \E f \in F : n \in W!Range(targets[f])
  <2>1. ASSUME NEW f \in F, n \in W!Range(targets[f])
        PROVE  W!Edges(n, F) # {}
    <3>1. PICK i \in DOMAIN targets[f] : targets[f][i] = n
      BY <2>1 DEF W!Range
    <3>2. <<f, i>> \in W!Edges(n, F)
      BY <1>4, <3>1 DEF W!Edges
    <3>3. QED
      BY <3>2
  <2>2. ASSUME NEW e \in W!Edges(n, F)
        PROVE  \E f \in F : n \in W!Range(targets[f])
    BY <2>2 DEF W!Edges, W!Range
  <2>3. QED
    BY <2>1, <2>2
<1>6. QED
  BY <1>3, <1>5, FS_CardinalityType

\* What is counted at first: all plain steps are left.
LEMMA CountStep ==
  ASSUME W!CyclesAssumption, CyclesInv, W!Count
  PROVE  CyclesInv'
<1>1. /\ verdict = "counting" /\ targets' = targets /\ bounded' = bounded
      /\ W!Plain' = W!Plain /\ W!Leads' = W!Leads
      /\ W!Dangling' <=> W!Dangling
  BY DEF W!Count, W!Plain, W!Leads, W!Dangling
<1>2. CyclesTypes
  BY DEF CyclesInv
<1>3. CASE W!Dangling
  <2>1. verdict' = "rejected" /\ UNCHANGED <<incoming, ready>>
    BY <1>3 DEF W!Count
  <2>2. CyclesTypes'
    BY <1>1, <1>2, <2>1 DEF CyclesTypes
  <2>3. W!RejectedGoesRound'
    BY <1>1, <1>3 DEF W!RejectedGoesRound
  <2>4. QED
    BY <2>1, <2>2, <2>3 DEF CyclesInv
<1>4. CASE ~W!Dangling
  <2>1. /\ incoming' = W!Counted /\ verdict' = "removing"
        /\ ready' = {n \in W!Plain : W!Counted[n] = 0}
    BY <1>4 DEF W!Count
  <2>2. \A n \in Names :
          W!Counted[n] = IF n \in W!Plain THEN Cardinality(W!Edges(n, W!Plain))
                         ELSE 0
    BY CyclesCardinality DEF W!Counted
  <2>3. W!Counted \in [Names -> Nat]
    <3>1. \A n \in W!Plain : Cardinality(W!Edges(n, W!Plain)) \in Nat
      BY <1>2, EdgeFacts
    <3>2. W!Counted = [n \in Names |-> W!Counted[n]]
      BY DEF W!Counted
    <3>3. QED
      BY <2>2, <3>1, <3>2
  <2>4. CyclesTypes'
    BY <1>1, <1>2, <2>1, <2>3 DEF CyclesTypes
  <2>5. Left' = W!Plain
    <3>1. \A n \in W!Plain : n \in Names /\ (W!Counted[n] > 0 \/ W!Counted[n] = 0)
      BY <2>3 DEF W!Plain
    <3>2. QED
      BY <1>1, <2>1, <3>1 DEF Left
  <2>6. \A n, F : W!Edges(n, F)' = W!Edges(n, F)
    BY <1>1 DEF W!Edges
  <2>7. \A n \in W!Plain' : incoming'[n] = Cardinality(W!Edges(n, Left)')
    <3>1. \A n \in W!Plain : n \in Names
      BY DEF W!Plain
    <3>2. \A n : W!Edges(n, Left)' = W!Edges(n, W!Plain)
      BY <1>1, <2>5 DEF W!Edges
    <3>3. QED
      BY <1>1, <2>1, <2>2, <3>1, <3>2
  <2>8. Removing'
    BY <1>1, <1>4, <2>1, <2>5, <2>7 DEF Removing
  <2>9. QED
    BY <2>1, <2>4, <2>8 DEF CyclesInv
<1>5. QED
  BY <1>3, <1>4

\* A step is removed with its edges: what leads to one another stays.
LEMMA RemoveStep ==
  ASSUME W!CyclesAssumption, CyclesInv, NEW f \in ready, W!Remove(f)
  PROVE  CyclesInv'
<1>1. /\ verdict = "removing" /\ verdict' = verdict
      /\ targets' = targets /\ bounded' = bounded
      /\ W!Plain' = W!Plain /\ W!Leads' = W!Leads
      /\ W!Dangling' <=> W!Dangling
      /\ \A n, F : W!Edges(n, F)' = W!Edges(n, F)
  BY DEF W!Remove, W!Plain, W!Leads, W!Dangling, W!Edges
<1>2. CyclesTypes /\ Removing
  BY <1>1 DEF CyclesInv
<1>3. f \in W!Plain /\ f \in Left /\ Left \subseteq W!Plain /\ W!Plain \subseteq Names
  BY <1>2 DEF CyclesTypes, Left, W!Plain
<1>4. \A n \in Names :
        incoming'[n] = IF n \in W!Plain
                       THEN incoming[n] - Cardinality(W!Edges(n, {f}))
                       ELSE incoming[n]
  BY CyclesCardinality DEF W!Remove
<1>5. W!Edges(f, Left) = {}
  <2>1. incoming[f] = 0 /\ incoming[f] = Cardinality(W!Edges(f, Left))
    BY <1>2, <1>3 DEF Removing
  <2>2. IsFiniteSet(W!Edges(f, Left))
    BY <1>2, <1>3, EdgeFacts
  <2>3. QED
    BY <2>1, <2>2, FS_EmptySet
<1>6. ASSUME NEW n \in W!Plain
      PROVE  /\ Cardinality(W!Edges(n, Left \ {f})) \in Nat
             /\ Cardinality(W!Edges(n, {f})) \in Nat
             /\ incoming'[n] = Cardinality(W!Edges(n, Left \ {f}))
             /\ incoming[n] = Cardinality(W!Edges(n, Left \ {f}))
                              + Cardinality(W!Edges(n, {f}))
  <2>1. /\ W!Edges(n, Left \ {f}) \cap W!Edges(n, {f}) = {}
        /\ W!Edges(n, Left) = W!Edges(n, Left \ {f}) \cup W!Edges(n, {f})
    BY <1>3 DEF W!Edges
  <2>2. /\ Left \ {f} \in SUBSET W!Plain /\ {f} \in SUBSET W!Plain
    BY <1>3
  <2>3. /\ IsFiniteSet(W!Edges(n, Left \ {f})) /\ IsFiniteSet(W!Edges(n, {f}))
        /\ Cardinality(W!Edges(n, Left \ {f})) \in Nat
        /\ Cardinality(W!Edges(n, {f})) \in Nat
    BY <1>2, <2>2, EdgeFacts
  <2>4. Cardinality(W!Edges(n, Left)) = Cardinality(W!Edges(n, Left \ {f}))
                                        + Cardinality(W!Edges(n, {f}))
    <3>1. Cardinality(W!Edges(n, Left \ {f}) \cap W!Edges(n, {f})) = 0
      BY <2>1, FS_EmptySet
    <3>2. Cardinality(W!Edges(n, Left \ {f}) \cup W!Edges(n, {f}))
          = Cardinality(W!Edges(n, Left \ {f})) + Cardinality(W!Edges(n, {f}))
            - Cardinality(W!Edges(n, Left \ {f}) \cap W!Edges(n, {f}))
      BY <2>3, FS_Union
    <3>3. QED
      <4>1. \A a, b \in Nat : a + b - 0 = a + b
        OBVIOUS
      <4>2. QED
        BY <2>1, <2>3, <3>1, <3>2, <4>1
  <2>5. incoming[n] = Cardinality(W!Edges(n, Left))
    BY <1>2 DEF Removing
  <2>6. n \in Names
    BY <1>3
  <2>7. incoming'[n] = incoming[n] - Cardinality(W!Edges(n, {f}))
    BY <1>4, <2>6
  <2>8. \A a, b \in Nat : (a + b) - b = a
    OBVIOUS
  <2>9. QED
    BY <2>3, <2>4, <2>5, <2>7, <2>8
<1>7. incoming' \in [Names -> Nat]
  <2>1. incoming' = [n \in Names |-> incoming'[n]]
    BY DEF W!Remove
  <2>2. ASSUME NEW n \in Names  PROVE  incoming'[n] \in Nat
    <3>1. CASE n \in W!Plain
      BY <1>6, <3>1
    <3>2. CASE n \notin W!Plain
      BY <1>2, <1>4, <3>2 DEF CyclesTypes
    <3>3. QED
      BY <3>1, <3>2
  <2>3. QED
    BY <2>1, <2>2
<1>8. ready' = (ready \ {f}) \cup {n \in W!Plain : incoming[n] > 0 /\ incoming'[n] = 0}
  BY DEF W!Remove
<1>9. incoming[f] = 0 /\ incoming'[f] = 0
  <2>1. incoming[f] = 0
    BY <1>2 DEF Removing
  <2>2. QED
    BY <1>3, <1>6, <2>1
<1>10. \A n \in W!Plain : incoming[n] \in Nat /\ incoming'[n] \in Nat /\ incoming'[n] <= incoming[n]
  BY <1>6
<1>11. Left' = Left \ {f}
  <2>1. Left' = {n \in W!Plain : incoming'[n] > 0} \cup ready'
    BY <1>1 DEF Left
  <2>2. \A n \in W!Plain : incoming'[n] > 0 => incoming[n] > 0
    BY <1>10
  <2>3. \A n \in W!Plain : incoming[n] > 0 => incoming'[n] > 0 \/ incoming'[n] = 0
    BY <1>10
  <2>4. ~(incoming[f] > 0) /\ ~(incoming'[f] > 0)
    BY <1>9
  <2>5. QED
    BY <1>8, <2>1, <2>2, <2>3, <2>4 DEF Left
<1>12. CyclesTypes'
  BY <1>1, <1>2, <1>7, <1>8 DEF CyclesTypes
<1>13. \A n \in ready' : incoming'[n] = 0
  <2>1. ASSUME NEW n \in ready, n # f  PROVE  incoming'[n] = 0
    <3>1. n \in W!Plain /\ incoming[n] = 0
      BY <1>2, <2>1 DEF Removing, CyclesTypes
    <3>2. QED
      BY <1>10, <3>1
  <2>2. QED
    BY <1>8, <2>1
<1>14. \A n \in W!Plain' : incoming'[n] = Cardinality(W!Edges(n, Left)')
  <2>1. \A n : W!Edges(n, Left)' = W!Edges(n, Left \ {f})
    BY <1>1, <1>11 DEF W!Edges
  <2>2. QED
    BY <1>1, <1>6, <2>1
<1>15. ASSUME NEW C \in SUBSET W!Plain, Closed(C)
       PROVE  C \subseteq Left \ {f}
  <2>1. C \subseteq Left
    BY <1>2, <1>15 DEF Removing
  <2>2. f \notin C
    <3>1. SUFFICES ASSUME f \in C  PROVE  FALSE
      OBVIOUS
    <3>2. PICK p \in C : <<p, f>> \in W!Leads
      BY <1>15, <3>1 DEF Closed
    <3>3. p \in Left /\ f \in W!Range(targets[p])
      BY <2>1, <3>2 DEF W!Leads
    <3>4. W!Edges(f, Left) # {}
      BY <1>2, <1>3, <3>3, EdgeFacts
    <3>5. QED
      BY <1>5, <3>4
  <2>3. QED
    BY <2>1, <2>2
<1>16. \A C : Closed(C)' <=> Closed(C)
  BY <1>1 DEF Closed
<1>17. Removing'
  <2>1. \A C \in SUBSET W!Plain' : Closed(C)' => C \subseteq Left'
    BY <1>1, <1>11, <1>15, <1>16
  <2>2. ~W!Dangling'
    BY <1>1, <1>2 DEF Removing
  <2>3. QED
    BY <1>13, <1>14, <2>1, <2>2 DEF Removing, Closed
<1>18. QED
  BY <1>1, <1>12, <1>17 DEF CyclesInv

\* When no step is ready, those that are left lead to one another.
LEMMA DecideStep ==
  ASSUME W!CyclesAssumption, CyclesInv, W!Decide
  PROVE  CyclesInv'
<1>1. /\ verdict = "removing" /\ ready = {}
      /\ targets' = targets /\ bounded' = bounded /\ incoming' = incoming /\ ready' = ready
      /\ W!Plain' = W!Plain /\ W!Leads' = W!Leads /\ W!Rounds' = W!Rounds
      /\ W!Dangling' <=> W!Dangling
      /\ \A C : Closed(C)' <=> Closed(C)
  BY DEF W!Decide, W!Plain, W!Leads, W!Dangling, W!Rounds, Closed
<1>2. CyclesTypes /\ Removing /\ Left = {n \in W!Plain : incoming[n] > 0}
  BY <1>1 DEF CyclesInv, Left
<1>3. verdict' = IF Left # {} THEN "rejected" ELSE "accepted"
  BY <1>2 DEF W!Decide
<1>4. CyclesTypes'
  BY <1>1, <1>2, <1>3 DEF CyclesTypes
<1>5. CASE Left = {}
  <2>1. \A C \in SUBSET W!Plain : Closed(C) => C = {}
    BY <1>2, <1>5 DEF Removing
  <2>2. ~W!Dangling
    BY <1>2 DEF Removing
  <2>3. \A C \in SUBSET W!Plain' : Closed(C)' => C = {}
    BY <1>1, <2>1
  <2>4. QED
    BY <1>1, <1>3, <1>4, <1>5, <2>2, <2>3 DEF CyclesInv, Closed
<1>6. CASE Left # {}
  <2>1. Left \in SUBSET W!Plain
    BY <1>2
  <2>2. ASSUME NEW n \in Left
        PROVE  \E p \in Left : <<p, n>> \in W!Leads
    <3>1. n \in W!Plain /\ incoming[n] > 0
      BY <1>2
    <3>2. Cardinality(W!Edges(n, Left)) > 0
      BY <1>2, <3>1 DEF Removing
    <3>3. W!Edges(n, Left) # {}
      BY <3>2, FS_EmptySet
    <3>4. \E p \in Left : n \in W!Range(targets[p])
      BY <1>2, <2>1, <3>3, EdgeFacts
    <3>5. QED
      BY <2>1, <3>1, <3>4 DEF W!Leads
  <2>3. Left \in W!Rounds
    BY <1>6, <2>1, <2>2 DEF W!Rounds
  <2>4. W!RejectedGoesRound'
    BY <1>1, <2>3 DEF W!RejectedGoesRound
  <2>5. QED
    BY <1>3, <1>4, <1>6, <2>4 DEF CyclesInv
<1>7. QED
  BY <1>5, <1>6

LEMMA CyclesInvariant ==
  ASSUME W!CyclesAssumption
  PROVE  W!WSpec => []CyclesInv
<1>1. W!WInit => CyclesInv
  BY DEF W!WInit, CyclesInv, CyclesTypes
<1>2. ASSUME CyclesInv, [W!WNext]_W!wvars
      PROVE  CyclesInv'
  <2>1. CASE W!Count
    BY <1>2, <2>1, CountStep
  <2>2. CASE \E f \in ready : W!Remove(f)
    BY <1>2, <2>2, RemoveStep
  <2>3. CASE W!Decide
    BY <1>2, <2>3, DecideStep
  <2>4. CASE UNCHANGED W!wvars
    <3>1. /\ targets' = targets /\ bounded' = bounded /\ incoming' = incoming
          /\ ready' = ready /\ verdict' = verdict
      BY <2>4 DEF W!wvars
    <3>2. /\ W!Plain' = W!Plain /\ W!Leads' = W!Leads /\ W!Rounds' = W!Rounds
          /\ (W!Dangling' <=> W!Dangling) /\ Left' = Left
      BY <3>1 DEF W!Plain, W!Leads, W!Dangling, W!Rounds, Left
    <3>3. \A C : Closed(C)' <=> Closed(C)
      BY <3>2 DEF Closed
    <3>4. \A n : W!Edges(n, Left)' = W!Edges(n, Left)
      BY <3>1, <3>2 DEF W!Edges
    <3>5. Removing' <=> Removing
      BY <3>1, <3>2, <3>3, <3>4 DEF Removing, Closed
    <3>6. CyclesTypes' <=> CyclesTypes
      BY <3>1, <3>2 DEF CyclesTypes
    <3>7. W!RejectedGoesRound' <=> W!RejectedGoesRound
      BY <3>1, <3>2 DEF W!RejectedGoesRound
    <3>8. QED
      BY <1>2, <3>1, <3>2, <3>3, <3>5, <3>6, <3>7 DEF CyclesInv, Closed
  <2>5. QED
    BY <1>2, <2>1, <2>2, <2>3, <2>4 DEF W!WNext
<1>3. QED
  BY <1>1, <1>2, PTL DEF W!WSpec

\* The steps of a path back to its start lead to one another.
LEMMA NothingClosedNoCycle ==
  ASSUME W!CyclesAssumption, \A C \in SUBSET W!Plain : Closed(C) => C = {}
  PROVE  W!OnCycle = {}
<1>1. SUFFICES ASSUME NEW n \in W!OnCycle  PROVE  FALSE
  OBVIOUS
<1>2. W!Cardinality(Names) \in Nat
  <2>1. IsFiniteSet(Names)
    BY DEF W!CyclesAssumption, W!IsFiniteSet, IsFiniteSet
  <2>2. QED
    BY <2>1, CyclesCardinality, FS_CardinalityType
<1>3. PICK k \in 1 .. W!Cardinality(Names),
           path \in [0 .. W!Cardinality(Names) -> W!Plain] :
        /\ path[0] = n /\ path[k] = n
        /\ \A i \in 0 .. k - 1 : <<path[i], path[i + 1]>> \in W!Leads
  BY DEF W!OnCycle
<1>4. DEFINE met == {path[a] : a \in 0 .. k - 1}
<1>5. met \in SUBSET W!Plain
  BY <1>2, <1>3
<1>6. path[0] \in met
  BY <1>2, <1>3
<1>7. ASSUME NEW s \in met
      PROVE  \E p \in met : <<p, s>> \in W!Leads
  <2>1. PICK a \in 0 .. k - 1 : s = path[a]
    BY <1>7
  <2>2. CASE a = 0
    <3>1. k - 1 \in 0 .. k - 1 /\ (k - 1) + 1 = k
      BY <1>2, <1>3
    <3>2. <<path[k - 1], path[k]>> \in W!Leads
      BY <1>3, <3>1
    <3>3. QED
      BY <1>3, <2>1, <2>2, <3>1, <3>2
  <2>3. CASE a # 0
    <3>1. a - 1 \in 0 .. k - 1 /\ (a - 1) + 1 = a
      BY <1>2, <1>3, <2>1, <2>3
    <3>2. <<path[a - 1], path[a]>> \in W!Leads
      BY <1>3, <3>1
    <3>3. QED
      BY <2>1, <3>1, <3>2
  <2>4. QED
    BY <2>2, <2>3
<1>8. Closed(met)
  BY <1>7 DEF Closed
<1>9. QED
  BY <1>5, <1>6, <1>8

\* A workflow that validate accepts has only steps for targets, and whatever way
\* round there is in it passes a step with a bound or an owner gate.
THEOREM AcceptedWorkflowsEnd ==
  ASSUME W!CyclesAssumption
  PROVE  W!WSpec => []W!AcceptedEnds
<1>1. ASSUME CyclesInv  PROVE  W!AcceptedEnds
  BY <1>1, NothingClosedNoCycle DEF CyclesInv, W!AcceptedEnds
<1>2. QED
  BY <1>1, CyclesInvariant, PTL

\* A workflow that validate rejects for its cycles does have plain steps each of
\* which is led to by another of them, so the removal refuses no workflow it should take.
THEOREM RejectedWorkflowsGoRound ==
  ASSUME W!CyclesAssumption
  PROVE  W!WSpec => []W!RejectedGoesRound
<1>1. ASSUME CyclesInv  PROVE  W!RejectedGoesRound
  BY <1>1 DEF CyclesInv, CyclesTypes, W!RejectedGoesRound
<1>2. QED
  BY <1>1, CyclesInvariant, PTL
-----------------------------------------------------------------------------
(* Publication (CodeHost).  Until a pull request is created there is none  *)
(* that bears a marker; what is known of the one the gate is asked about   *)
(* stays so while the commands of the call go on.                          *)

CONSTANTS Texts, Endpoints, MaxPrs
VARIABLES
  receipt, text, endpoint, asked, prs, base, target, pushed, passed, witnessed
C == INSTANCE CodeHost

Commands == {"verify", "lookup", "push", "create", "view", "fetch", "ancestor", "done"}
PublicationTypes ==
  /\ receipt \in [binding : Texts \cup {None}, remote : Endpoints \cup {None},
                  pr : Nat, merged : Nat]
  /\ asked \in [op : {"idle", "open", "merged"}, at : Commands, pr : Nat]
  /\ text \in Texts /\ endpoint \in Endpoints
  /\ \E k \in Nat : prs \in [1 .. k -> C!PullRequests]

OneMarked ==
  \A m, n \in C!Numbers : prs[m].binding # None /\ prs[n].binding # None => m = n

\* What a call has found by the command it has come to.
Found ==
  /\ asked.at \in {"push", "create"} =>
       receipt.pr = 0 /\ \A n \in C!Numbers : prs[n].binding = None
  /\ asked.at \in {"view", "fetch", "ancestor"} => receipt.pr = asked.pr
  /\ asked.at \in {"fetch", "ancestor"} =>
       /\ asked.pr \in C!Numbers /\ C!Ours(asked.pr)
       /\ prs[asked.pr].state = "MERGED"
  /\ asked.at = "ancestor" => target \subseteq witnessed

PublicationInv ==
  /\ PublicationTypes /\ OneMarked /\ Found
  /\ receipt.pr # 0 => receipt.pr \in C!Numbers /\ C!Ours(receipt.pr)

Witnesses == witnessed' = base' \cup IF asked = C!Idle THEN {} ELSE witnessed

\* The gate passes for what it should.
Passes ==
  \A n \in passed' \ passed :
    /\ prs[n].state = "MERGED" /\ n \in witnessed
    /\ receipt.pr = n /\ C!Ours(n) /\ receipt'.merged = n

\* Steps that leave the pull requests as they are, and what the receipt says of
\* them; the command that is next has found what it needs.
LEMMA SameReceipt ==
  ASSUME PublicationInv, prs' = prs,
         \/ receipt' = receipt \/ receipt' = [receipt EXCEPT !.merged = asked.pr],
         text' = text, endpoint' = endpoint,
         asked' \in [op : {"idle", "open", "merged"}, at : Commands, pr : Nat], Found'
  PROVE  PublicationInv'
<1>1. /\ receipt' \in [binding : Texts \cup {None}, remote : Endpoints \cup {None},
                       pr : Nat, merged : Nat]
      /\ receipt'.pr = receipt.pr /\ receipt'.binding = receipt.binding
      /\ receipt'.remote = receipt.remote
  BY DEF PublicationInv, PublicationTypes
<1>2. QED
  BY <1>1 DEF PublicationInv, PublicationTypes, OneMarked, C!Numbers, C!Ours

LEMMA IdleStep ==
  ASSUME C!CodeHostAssumption, PublicationInv, Witnesses,
         C!CallOpen \/ C!CallMerged
           \/ C!LoseReceipt \/ C!ArtifactsChange \/ C!RemoteChanges
  PROVE  PublicationInv' /\ passed' = passed
<1>1. asked = C!Idle /\ prs' = prs /\ passed' = passed
      /\ text' \in Texts /\ endpoint' \in Endpoints
  BY DEF PublicationInv, PublicationTypes, C!CallOpen, C!CallMerged, C!Calls, C!LoseReceipt,
         C!ArtifactsChange, C!RemoteChanges, C!Keep
<1>2. /\ \/ receipt' = receipt
         \/ receipt' = C!NoReceipt
         \/ receipt' = [C!NoReceipt EXCEPT !.binding = text, !.remote = endpoint]
      /\ \/ asked' = asked
         \/ \E op \in {"open", "merged"}, pr \in C!Numbers \cup {0} :
              asked' = [op |-> op, at |-> "verify", pr |-> pr]
  BY DEF C!CallOpen, C!CallMerged, C!Calls, C!LoseReceipt, C!ArtifactsChange,
         C!RemoteChanges
<1>3. /\ receipt' \in [binding : Texts \cup {None}, remote : Endpoints \cup {None},
                       pr : Nat, merged : Nat]
      /\ receipt' = receipt \/ receipt'.pr = 0
  <2>1. \/ receipt' = receipt
        \/ \E b \in Texts \cup {None}, r \in Endpoints \cup {None} :
             receipt' = [binding |-> b, remote |-> r, pr |-> 0, merged |-> 0]
    BY <1>2 DEF PublicationInv, PublicationTypes, C!NoReceipt
  <2>2. QED
    BY <2>1 DEF PublicationInv, PublicationTypes
<1>4. C!Numbers \subseteq Nat
  BY DEF PublicationInv, PublicationTypes, C!Numbers
<1>5. /\ asked' \in [op : {"idle", "open", "merged"}, at : Commands, pr : Nat]
      /\ asked'.at \in {"done", "verify"}
  BY <1>1, <1>2, <1>4 DEF Commands, C!Idle
<1>6. PublicationTypes' /\ Found'
  BY <1>1, <1>3, <1>5 DEF PublicationInv, PublicationTypes, Found
<1>7. QED
  BY <1>1, <1>3, <1>6 DEF PublicationInv, OneMarked, C!Numbers, C!Ours

LEMMA LookupStep ==
  ASSUME PublicationInv, C!Lookup
  PROVE  PublicationInv' /\ passed' = passed
<1>1. /\ asked.at = "lookup" /\ prs' = prs /\ passed' = passed
      /\ text' = text /\ endpoint' = endpoint
  BY DEF C!Lookup, C!Keep
<1>2. /\ asked' \in [op : {"idle", "open", "merged"}, at : Commands, pr : Nat]
      /\ asked'.at \in {"done", "push"}
      /\ asked'.at = "push" => C!Numbers = {} /\ receipt.pr = 0 /\ receipt' = receipt
  <2>1. asked' = C!Idle
        \/ (asked' = [asked EXCEPT !.at = "push"]
              /\ C!Numbers = {} /\ receipt.pr = 0 /\ receipt' = receipt)
    BY DEF C!Lookup, C!Fails, C!At, C!Listed
  <2>2. QED
    BY <2>1 DEF PublicationInv, PublicationTypes, C!Idle, Commands
<1>3. receipt' = receipt
      \/ \E n \in C!Numbers : C!Ours(n) /\ receipt' = [receipt EXCEPT !.pr = n]
  BY DEF C!Lookup, C!SavePr, C!Listed
<1>4. Found'
  BY <1>1, <1>2 DEF Found, C!Numbers
<1>5. CASE receipt' = receipt
  BY <1>1, <1>2, <1>4, <1>5, SameReceipt
<1>6. ASSUME NEW n \in C!Numbers, C!Ours(n), receipt' = [receipt EXCEPT !.pr = n]
      PROVE  PublicationInv'
  <2>1. n \in Nat
    BY DEF PublicationInv, PublicationTypes, C!Numbers
  <2>2. /\ receipt' \in [binding : Texts \cup {None}, remote : Endpoints \cup {None},
                         pr : Nat, merged : Nat]
        /\ receipt'.pr = n /\ receipt'.binding = receipt.binding
        /\ receipt'.remote = receipt.remote
    BY <1>6, <2>1 DEF PublicationInv, PublicationTypes
  <2>3. QED
    BY <1>1, <1>2, <1>4, <1>6, <2>2
       DEF PublicationInv, PublicationTypes, OneMarked, C!Numbers, C!Ours
<1>7. QED
  BY <1>1, <1>3, <1>5, <1>6

\* The commands that look.
LEMMA CommandStep ==
  ASSUME PublicationInv, Witnesses,
         C!VerifyRemote \/ C!Push \/ C!View \/ C!Fetch \/ C!Ancestor \/ C!CommandFails
  PROVE  PublicationInv' /\ Passes
<1>1. prs' = prs /\ text' = text /\ endpoint' = endpoint /\ asked # C!Idle
      /\ (receipt' = receipt \/ receipt' = [receipt EXCEPT !.merged = asked.pr])
  BY DEF C!VerifyRemote, C!Push, C!View, C!Fetch, C!Ancestor, C!CommandFails, C!Keep, C!Idle
<1>2. receipt'.pr = receipt.pr /\ C!Numbers' = C!Numbers /\ witnessed' = base' \cup witnessed
      /\ \A n : C!Ours(n)' <=> C!Ours(n)
  <2>1. receipt'.binding = receipt.binding /\ receipt'.remote = receipt.remote
        /\ receipt'.pr = receipt.pr
    BY <1>1 DEF PublicationInv, PublicationTypes
  <2>2. QED
    BY <1>1, <2>1 DEF Witnesses, C!Numbers, C!Ours
<1>3. \/ asked' = C!Idle /\ asked'.at = "done"
      \/ \E step \in Commands :
           asked' = [asked EXCEPT !.at = step] /\ asked'.at = step /\ asked'.pr = asked.pr
  <2>1. \/ asked' = C!Idle
        \/ \E step \in Commands : asked' = [asked EXCEPT !.at = step]
    BY DEF C!VerifyRemote, C!Push, C!View, C!Fetch, C!Ancestor, C!CommandFails, C!At,
           C!Fails, Commands
  <2>2. QED
    BY <2>1 DEF PublicationInv, PublicationTypes, C!Idle
<1>4. asked' \in [op : {"idle", "open", "merged"}, at : Commands, pr : Nat]
  BY <1>3 DEF PublicationInv, PublicationTypes, C!Idle, Commands
<1>5. ASSUME asked'.at = "done"
      PROVE  PublicationInv'
  <2>1. Found'
    BY <1>5 DEF Found
  <2>2. QED
    BY <1>1, <1>4, <2>1, SameReceipt
<1>6. CASE C!VerifyRemote
  <2>1. \/ asked'.at \in {"done", "lookup"}
        \/ asked'.at = "view" /\ receipt.pr = asked.pr /\ asked'.pr = asked.pr
    BY <1>6 DEF C!VerifyRemote, C!At, C!Fails, C!Idle, PublicationInv, PublicationTypes
  <2>2. Found'
    BY <1>2, <2>1 DEF Found
  <2>3. QED
    BY <1>1, <1>4, <1>6, <2>2, SameReceipt DEF C!VerifyRemote, Passes
<1>7. CASE C!Push
  <2>1. asked.at = "push" /\ asked'.at \in {"done", "create"}
    BY <1>7 DEF C!Push, C!At, C!Fails, C!Idle, PublicationInv, PublicationTypes
  <2>2. Found'
    BY <1>1, <1>2, <2>1 DEF Found, PublicationInv
  <2>3. QED
    BY <1>1, <1>4, <1>7, <2>2, SameReceipt DEF C!Push, Passes
<1>8. CASE C!View
  <2>1. /\ asked.at = "view" /\ asked.pr \in C!Numbers
        /\ \/ asked'.at = "done"
           \/ /\ asked'.at = "fetch" /\ asked'.pr = asked.pr
              /\ C!Ours(asked.pr) /\ prs[asked.pr].state = "MERGED"
    BY <1>8 DEF C!View, C!At, C!Fails, C!Idle, PublicationInv, PublicationTypes
  <2>2. Found'
    BY <1>1, <1>2, <2>1 DEF Found, PublicationInv
  <2>3. QED
    BY <1>1, <1>4, <1>8, <2>2, SameReceipt DEF C!View, Passes
<1>9. CASE C!Fetch
  <2>1. /\ asked.at = "fetch" /\ target' = base /\ base' = base
        /\ asked'.at = "ancestor" /\ asked'.pr = asked.pr
    BY <1>9 DEF C!Fetch, C!Fetched, C!At, PublicationInv, PublicationTypes
  <2>2. Found'
    BY <1>1, <1>2, <2>1 DEF Found, PublicationInv
  <2>3. QED
    BY <1>1, <1>4, <1>9, <2>2, SameReceipt DEF C!Fetch, Passes
<1>10. CASE C!Ancestor
  <2>1. asked.at = "ancestor" /\ asked'.at = "done"
    BY <1>10 DEF C!Ancestor, C!Fails, C!Idle
  <2>2. Passes
    <3>1. CASE passed' = passed
      BY <3>1 DEF Passes
    <3>2. CASE /\ asked.pr \in target /\ passed' = passed \cup {asked.pr}
               /\ receipt' = [receipt EXCEPT !.merged = asked.pr]
      <4>1. receipt'.merged = asked.pr
        BY <3>2 DEF PublicationInv, PublicationTypes
      <4>2. QED
        BY <2>1, <3>2, <4>1 DEF Passes, Found, PublicationInv
    <3>3. QED
      BY <1>10, <3>1, <3>2 DEF C!Ancestor
  <2>3. QED
    BY <1>5, <2>1, <2>2
<1>11. CASE C!CommandFails
  BY <1>5, <1>11 DEF C!CommandFails, C!Fails, C!Idle, Passes
<1>12. QED
  BY <1>6, <1>7, <1>8, <1>9, <1>10, <1>11

\* There are pull requests beside those that were there; none of the new ones
\* bears a marker, or the receipt may take it for the run's.
LEMMA MorePrs ==
  ASSUME PublicationInv, Witnesses,
         \E k \in Nat : prs' \in [1 .. k -> C!PullRequests],
         \A n \in C!Numbers :
           /\ n \in DOMAIN prs'
           /\ prs'[n].binding = prs[n].binding /\ prs'[n].remote = prs[n].remote
           /\ prs[n].state = "MERGED" => prs'[n].state = "MERGED",
         \A n \in DOMAIN prs' \ C!Numbers : prs'[n].binding = None,
         UNCHANGED <<receipt, text, endpoint, asked, target>>
  PROVE  PublicationInv'
<1>1. PublicationTypes'
  BY DEF PublicationInv, PublicationTypes
<1>2. C!Numbers' = DOMAIN prs' /\ \A n \in C!Numbers : C!Ours(n) => C!Ours(n)'
  BY DEF C!Numbers, C!Ours
<1>3. OneMarked'
  BY <1>2 DEF PublicationInv, OneMarked
<1>4. asked.at = "ancestor" => asked # C!Idle
  BY DEF C!Idle
<1>5. Found'
  BY <1>2, <1>4 DEF PublicationInv, Found, Witnesses
<1>6. QED
  BY <1>1, <1>2, <1>3, <1>5 DEF PublicationInv

\* The number of a new pull request.
LEMMA NextNumber ==
  ASSUME PublicationInv
  PROVE  LET n == C!Cardinality(C!Numbers) + 1 IN
         /\ n \in Nat \ {0} /\ n \notin C!Numbers
         /\ \A pr \in C!PullRequests : \E k \in Nat :
              [m \in C!Numbers \cup {n} |-> IF m = n THEN pr ELSE prs[m]]
                \in [1 .. k -> C!PullRequests]
<1>1. PICK k \in Nat : prs \in [1 .. k -> C!PullRequests]
  BY DEF PublicationInv, PublicationTypes
<1>2. C!Numbers = 1 .. k
  BY <1>1 DEF C!Numbers
<1>3. C!Cardinality(C!Numbers) = k
  <2>1. \A S : C!Cardinality(S) = Cardinality(S)
    BY DEF C!Cardinality, Cardinality
  <2>2. QED
    BY <1>2, <2>1, FS_Interval
<1>4. 1 .. k + 1 = 1 .. k \cup {k + 1} /\ k + 1 \in Nat /\ k + 1 \notin 1 .. k
  BY <1>1
<1>5. QED
  BY <1>1, <1>2, <1>3, <1>4

LEMMA PeopleStep ==
  ASSUME PublicationInv, Witnesses, C!People
  PROVE  PublicationInv' /\ passed' = passed
<1>1. UNCHANGED <<receipt, text, endpoint, asked, target, passed>>
  BY DEF C!People, C!Merges, C!Closes, C!Reopens, C!OpensByHand, C!RewritesBase, C!Keep
<1>2. ASSUME NEW n \in C!Numbers, NEW state \in {"OPEN", "CLOSED", "MERGED"},
             C!Becomes(n, state), prs[n].state # "MERGED"
      PROVE  PublicationInv'
  <2>1. PICK k \in Nat : prs \in [1 .. k -> C!PullRequests]
    BY DEF PublicationInv, PublicationTypes
  <2>2. prs[n] \in C!PullRequests /\ C!Numbers = 1 .. k
    BY <2>1 DEF C!Numbers
  <2>3. [prs[n] EXCEPT !.state = state] \in C!PullRequests
        /\ [prs[n] EXCEPT !.state = state].binding = prs[n].binding
        /\ [prs[n] EXCEPT !.state = state].remote = prs[n].remote
    BY <2>2 DEF C!PullRequests
  <2>4. /\ prs' \in [1 .. k -> C!PullRequests]
        /\ \A m \in C!Numbers \ {n} : prs'[m] = prs[m]
        /\ prs'[n] = [prs[n] EXCEPT !.state = state]
    BY <1>2, <2>1, <2>2, <2>3 DEF C!Becomes
  <2>5. QED
    BY <1>1, <1>2, <2>2, <2>3, <2>4, MorePrs
<1>3. CASE \E n \in C!Numbers : C!Merges(n) \/ C!Closes(n) \/ C!Reopens(n)
  BY <1>1, <1>2, <1>3 DEF C!Merges, C!Closes, C!Reopens
<1>4. CASE C!OpensByHand
  <2> DEFINE pr == [state |-> "OPEN", binding |-> None, remote |-> None]
             n == C!Cardinality(C!Numbers) + 1
  <2>1. prs' = [m \in C!Numbers \cup {n} |-> IF m = n THEN pr ELSE prs[m]]
    BY <1>4 DEF C!OpensByHand
  <2>2. pr \in C!PullRequests
    BY DEF C!PullRequests
  <2>3. pr.binding = None
    OBVIOUS
  <2> HIDE DEF n, pr
  <2>4. n \notin C!Numbers /\ \E k \in Nat : prs' \in [1 .. k -> C!PullRequests]
    BY <2>1, <2>2, NextNumber DEF n
  <2>5. QED
    BY <1>1, <2>1, <2>3, <2>4, MorePrs
<1>5. CASE C!RewritesBase
  <2>1. prs' = prs
    BY <1>5 DEF C!RewritesBase
  <2>2. QED
    BY <1>1, <2>1, MorePrs DEF PublicationInv, PublicationTypes, C!Numbers
<1>6. QED
  BY <1>1, <1>3, <1>4, <1>5 DEF C!People

\* The first pull request that bears a marker, known or not.
LEMMA CreatePrStep ==
  ASSUME PublicationInv, C!Create
  PROVE  PublicationInv' /\ passed' = passed
<1> DEFINE pr == [state |-> "OPEN", binding |-> receipt.binding, remote |-> receipt.remote]
           n == C!Cardinality(C!Numbers) + 1
<1>1. /\ prs' = [m \in C!Numbers \cup {n} |-> IF m = n THEN pr ELSE prs[m]]
      /\ receipt' = [receipt EXCEPT !.pr = n] \/ receipt' = receipt
      /\ asked.at = "create" /\ asked' = C!Idle
      /\ text' = text /\ endpoint' = endpoint /\ passed' = passed
  BY DEF C!Create, C!SavePr, C!Fails, C!Keep
<1>2. pr \in C!PullRequests /\ pr.binding = receipt.binding /\ pr.remote = receipt.remote
  BY DEF C!PullRequests, PublicationInv, PublicationTypes
<1> HIDE DEF n, pr
<1>3. /\ n \in Nat \ {0} /\ n \notin C!Numbers
      /\ \E k \in Nat : prs' \in [1 .. k -> C!PullRequests]
  BY <1>1, <1>2, NextNumber DEF n
<1>4. receipt.pr = 0 /\ \A m \in C!Numbers : prs[m].binding = None
  BY <1>1 DEF PublicationInv, Found
<1>5. /\ receipt' \in [binding : Texts \cup {None}, remote : Endpoints \cup {None},
                       pr : Nat, merged : Nat]
      /\ receipt'.binding = receipt.binding /\ receipt'.remote = receipt.remote
      /\ receipt'.pr \in {0, n}
  BY <1>1, <1>3, <1>4 DEF PublicationInv, PublicationTypes
<1>6. asked' \in [op : {"idle", "open", "merged"}, at : Commands, pr : Nat]
      /\ asked'.at = "done"
  BY <1>1 DEF C!Idle, Commands
<1>7. PublicationTypes'
  BY <1>1, <1>3, <1>5, <1>6 DEF PublicationInv, PublicationTypes
<1>8. /\ C!Numbers' = C!Numbers \cup {n} /\ prs'[n] = pr
      /\ \A m \in C!Numbers : prs'[m] = prs[m]
  BY <1>1, <1>3 DEF C!Numbers
<1>9. OneMarked'
  BY <1>4, <1>8 DEF OneMarked
<1>10. Found'
  BY <1>6 DEF Found
<1>11. (receipt.pr # 0 => receipt.pr \in C!Numbers /\ C!Ours(receipt.pr))'
  BY <1>2, <1>5, <1>8 DEF C!Ours
<1>12. QED
  BY <1>1, <1>7, <1>9, <1>10, <1>11 DEF PublicationInv

\* A run publishes its branch in one pull request, and its merge gate passes for
\* that one, merged and in the base since the gate was asked, wherever git, gh or
\* the host fail and whatever people do at GitHub (open_pr, merged).
THEOREM PublicationSafe ==
  ASSUME C!CodeHostAssumption
  PROVE  C!CodeHostSpec => []C!OnePullRequest /\ C!PassesOnMerge
<1>1. C!CodeHostInit => PublicationInv
  <2> SUFFICES ASSUME C!CodeHostInit PROVE PublicationInv
    OBVIOUS
  <2>1. /\ prs = <<>> /\ asked = C!Idle /\ receipt = C!NoReceipt
        /\ text \in Texts /\ endpoint \in Endpoints
    BY DEF C!CodeHostInit
  <2>2. C!Numbers = {} /\ prs \in [1 .. 0 -> C!PullRequests]
    BY <2>1 DEF C!Numbers
  <2>3. receipt \in [binding : Texts \cup {None}, remote : Endpoints \cup {None},
                     pr : Nat, merged : Nat]
        /\ receipt.pr = 0
    BY <2>1 DEF C!NoReceipt
  <2>4. asked \in [op : {"idle", "open", "merged"}, at : Commands, pr : Nat]
        /\ asked.at = "done"
    BY <2>1 DEF C!Idle, Commands
  <2>5. QED
    BY <2>1, <2>2, <2>3, <2>4 DEF PublicationInv, PublicationTypes, OneMarked, Found
<1>2. PublicationInv /\ [C!CodeHostNext]_C!cvars => PublicationInv' /\ [Passes]_C!cvars
  <2> SUFFICES ASSUME PublicationInv, [C!CodeHostNext]_C!cvars
               PROVE  PublicationInv' /\ [Passes]_C!cvars
    OBVIOUS
  <2>1. CASE C!CodeHostNext
    <3>1. C!Step /\ Witnesses
      BY <2>1 DEF C!CodeHostNext, Witnesses
    <3>2. passed' = passed => Passes
      BY DEF Passes
    <3>3. QED
      BY <3>1, <3>2, IdleStep, LookupStep, CommandStep, CreatePrStep, PeopleStep
         DEF C!Step, C!Command
  <2>2. CASE UNCHANGED C!cvars
    BY <2>2 DEF C!cvars, PublicationInv, PublicationTypes, OneMarked, Found, C!Numbers, C!Ours
  <2>3. QED
    BY <2>1, <2>2
<1>3. PublicationInv => C!OnePullRequest
  <2> SUFFICES ASSUME PublicationInv PROVE C!OnePullRequest
    OBVIOUS
  <2> DEFINE marked == {n \in C!Numbers : prs[n].binding # None}
  <2>1. marked = {} \/ \E n : marked = {n}
    BY DEF PublicationInv, OneMarked
  <2> HIDE DEF marked
  <2>2. Cardinality(marked) = 0 \/ Cardinality(marked) = 1
    BY <2>1, FS_EmptySet, FS_Singleton
  <2>3. C!Cardinality(marked) = Cardinality(marked)
    BY DEF C!Cardinality, Cardinality
  <2>4. QED
    BY <2>2, <2>3 DEF C!OnePullRequest, PublicationInv, marked
<1>4. QED
  BY <1>1, <1>2, <1>3, PTL DEF C!CodeHostSpec, C!PassesOnMerge, Passes
-----------------------------------------------------------------------------
(* Evidence (Checks).  What a check looked at first covers the commit it   *)
(* ends with because edits leave the worktree dirty and commits get numbers *)
(* of their own; the tag of an attempt is of a commit its check covered.   *)

CONSTANTS MaxVersion, MaxCommits, MaxAttempts, Star, Query, Deep
VARIABLES
  commits, made, work, attempt, at, head, covers, tags, noted, accepted
K == INSTANCE Checks

CommitsMade == [id : Nat, tree : K!Trees]

\* What the paths of an attempt's commit were to be, and what its tests.
PathsHold(tree) ==
  /\ attempt.step = "red" => K!Changed(attempt.base.tree, tree) \subseteq {"test"}
  /\ attempt.step = "green" => tree.test = attempt.freeze.commit.tree.test
Right(tree) == K!Fails(tree) <=> attempt.step = "red"
Good(commit) == commit.tree \in K!Trees /\ PathsHold(commit.tree) /\ Right(commit.tree)

Branch ==
  /\ commits \in Seq(CommitsMade) /\ commits # <<>>
  /\ made \in Nat /\ \A n \in DOMAIN commits : commits[n].id <= made
  /\ work \in K!Trees

Looked ==
  /\ at \in {"running", "ran"} =>
       head \in CommitsMade /\ head.id <= made /\ PathsHold(head.tree)
  /\ at = "ran" /\ K!SameHead => Right(head.tree)
  /\ at = "checked" => Good(covers)

Attempted ==
  /\ attempt.number \in Nat
  /\ at # "idle" =>
       /\ attempt.step \in {"red", "green"}
       /\ attempt.step = "green" =>
            attempt.freeze \in accepted /\ attempt.freeze.step = "red"

Tagged ==
  /\ \A t \in tags : /\ t.attempt \in Nat /\ t.attempt <= attempt.number
                     /\ t.attempt = attempt.number => Good(t.commit)
  /\ \A e \in accepted : e.commit.tree \in K!Trees

EvidenceInv == Branch /\ Looked /\ Attempted /\ Tagged /\ K!EvidenceHolds

\* The tip, and what a commit makes of it.
LEMMA TipFacts ==
  ASSUME Branch
  PROVE  K!Tip \in CommitsMade /\ K!Tip.id <= made
<1>1. Len(commits) \in DOMAIN commits /\ K!Tip = commits[Len(commits)]
  BY DEF Branch, K!Tip, K!Last
<1>2. QED
  BY <1>1 DEF Branch

LEMMA Commits ==
  ASSUME Branch, K!Commit, work' = work
  PROVE  Branch' /\ K!Tip'.id = made + 1 /\ made' = made + 1
<1> DEFINE new == [id |-> made + 1, tree |-> work]
<1>1. new \in CommitsMade /\ new.id = made + 1 /\ made' = made + 1 /\ made \in Nat
  BY DEF CommitsMade, K!Commit, Branch
<1> HIDE DEF new
<1>2. commits' = Append(commits, new)
  BY DEF K!Commit, new
<1>3. /\ commits' \in Seq(CommitsMade) /\ Len(commits') = Len(commits) + 1
      /\ DOMAIN commits' = 1 .. Len(commits) + 1 /\ DOMAIN commits = 1 .. Len(commits)
      /\ Len(commits) \in Nat /\ commits'[Len(commits) + 1] = new
      /\ \A n \in 1 .. Len(commits) : commits'[n] = commits[n]
  BY <1>1, <1>2 DEF Branch
<1>4. K!Tip' = new
  BY <1>3 DEF K!Tip, K!Last
<1>5. \A n \in DOMAIN commits' : commits'[n].id <= made'
  <2>1. \A n \in DOMAIN commits : commits[n].id <= made /\ commits[n] \in CommitsMade
    BY DEF Branch
  <2>2. \A c \in CommitsMade : c.id \in Nat
    BY DEF CommitsMade
  <2>3. QED
    BY <1>1, <1>3, <2>1, <2>2
<1>6. QED
  BY <1>1, <1>3, <1>4, <1>5 DEF Branch

\* The same attempt, and nothing tagged or accepted.
LEMMA SameEvidence ==
  ASSUME EvidenceInv, Branch', Looked', UNCHANGED <<attempt, tags, accepted>>,
         at # "idle" \/ at' = "idle"
  PROVE  EvidenceInv'
BY DEF EvidenceInv, Attempted, Tagged, K!EvidenceHolds, Good, PathsHold, Right

LEMMA StartStep ==
  ASSUME EvidenceInv, NEW step \in {"red", "green"}, K!SetAttempt(step)
  PROVE  EvidenceInv'
<1>1. PICK freeze \in IF step = "red" THEN {None} ELSE K!Freezes :
        attempt' = [step |-> step, number |-> attempt.number + 1, base |-> K!Tip,
                    freeze |-> freeze]
  BY DEF K!SetAttempt
<1>2. UNCHANGED <<commits, made, work, head, covers, tags, noted, accepted>>
      /\ at' = "working"
  BY DEF K!SetAttempt
<1>3. attempt'.step = step /\ attempt'.number = attempt.number + 1
      /\ attempt'.freeze = freeze
  BY <1>1
<1>4. step = "green" => freeze \in accepted /\ freeze.step = "red"
  BY DEF K!Freezes
<1>5. Attempted'
  BY <1>2, <1>3, <1>4 DEF EvidenceInv, Attempted
<1>6. \A t \in tags : t.attempt \in Nat /\ t.attempt < attempt'.number
  BY <1>3 DEF EvidenceInv, Tagged, Attempted
<1>7. Tagged'
  BY <1>2, <1>3, <1>6 DEF EvidenceInv, Tagged, Attempted
<1>8. QED
  BY <1>2, <1>5, <1>7 DEF EvidenceInv, Branch, Looked, K!EvidenceHolds

LEMMA WorksStep ==
  ASSUME EvidenceInv, K!Works
  PROVE  EvidenceInv'
<1>1. at = "working" /\ UNCHANGED <<attempt, at, head, covers, tags, noted, accepted>>
  BY DEF K!Works
<1>2. Looked'
  BY <1>1 DEF Looked
<1>3. ASSUME work' \in K!Trees, UNCHANGED <<commits, made>>
      PROVE  Branch'
  BY <1>3 DEF EvidenceInv, Branch
<1>4. ASSUME K!Commit, UNCHANGED work
      PROVE  Branch'
  BY <1>4, Commits DEF EvidenceInv
<1>5. ASSUME NEW n \in 1 .. Len(commits), commits' = SubSeq(commits, 1, n),
             UNCHANGED <<made, work>>
      PROVE  Branch'
  <2>1. /\ commits' \in Seq(CommitsMade) /\ Len(commits') = n
        /\ DOMAIN commits' = 1 .. n /\ \A m \in 1 .. n : commits'[m] = commits[m]
    BY <1>5 DEF EvidenceInv, Branch
  <2>2. 1 .. n \subseteq DOMAIN commits /\ n # 0
    BY <1>5 DEF EvidenceInv, Branch
  <2>3. QED
    BY <1>5, <2>1, <2>2 DEF EvidenceInv, Branch
<1>6. Branch'
  BY <1>3, <1>4, <1>5 DEF K!Works
<1>7. QED
  BY <1>1, <1>2, <1>6, SameEvidence

\* Whoever meddles leaves the worktree dirty, or another commit at the tip.
LEMMA MeddlesStep ==
  ASSUME EvidenceInv, K!Meddles
  PROVE  EvidenceInv'
<1>1. at # "working" /\ UNCHANGED <<attempt, at, head, covers, tags, noted, accepted>>
  BY DEF K!Meddles
<1>2. CASE work' \in K!Trees \ {K!Tip.tree} /\ UNCHANGED <<commits, made>>
  <2>1. K!Tip' = K!Tip /\ ~K!Clean'
    BY <1>2 DEF K!Tip, K!Clean
  <2>2. Branch'
    BY <1>2 DEF EvidenceInv, Branch
  <2>3. Looked'
    BY <1>1, <1>2, <2>1 DEF EvidenceInv, Looked, K!SameHead, Good, PathsHold, Right
  <2>4. QED
    BY <1>1, <2>2, <2>3, SameEvidence DEF EvidenceInv, Attempted
<1>3. CASE K!Commit /\ UNCHANGED work
  <2>1. Branch' /\ K!Tip'.id = made + 1 /\ made' = made + 1 /\ made \in Nat
    BY <1>3, Commits DEF EvidenceInv, Branch
  <2>2. at \in {"running", "ran"} => head.id \in Nat /\ head.id <= made
    BY DEF EvidenceInv, Looked, CommitsMade
  <2>3. at \in {"running", "ran"} => K!Tip' # head
    BY <2>1, <2>2
  <2>4. Looked'
    BY <1>1, <2>1, <2>2, <2>3 DEF EvidenceInv, Looked, K!SameHead, Good, PathsHold, Right
  <2>5. QED
    BY <1>1, <2>1, <2>4, SameEvidence DEF EvidenceInv, Attempted
<1>4. QED
  BY <1>2, <1>3 DEF K!Meddles

\* Tests that fail cannot be those of the intake.
LEMMA FrozenTests ==
  ASSUME K!ChecksAssumption, EvidenceInv, at # "idle", attempt.step = "green",
         NEW tree \in K!Trees, K!FrozenUnchanged(tree)
  PROVE  tree.test = attempt.freeze.commit.tree.test
<1> DEFINE froze == attempt.freeze.commit.tree
<1>1. froze \in K!Trees /\ K!Fails(froze)
  BY DEF EvidenceInv, Attempted, Tagged, K!EvidenceHolds
<1>2. froze.test # 0
  <2>1. froze.test \in 0 .. MaxVersion /\ froze.src \in 0 .. MaxVersion
        /\ froze.test > froze.src
    BY <1>1 DEF K!Trees, K!Fails
  <2>2. QED
    BY <2>1 DEF K!ChecksAssumption
<1>3. K!Intake.tree["test"] = 0 /\ froze["test"] = froze.test /\ tree["test"] = tree.test
  BY DEF K!Intake
<1>4. "test" \in K!FrozenPaths(froze)
  BY <1>2, <1>3 DEF K!FrozenPaths, K!Changed
<1>5. "test" \notin K!Changed(froze, tree)
  BY <1>4 DEF K!FrozenUnchanged
<1>6. QED
  BY <1>3, <1>5 DEF K!Changed

LEMMA CheckStep ==
  ASSUME K!ChecksAssumption, EvidenceInv,
         K!BeginCheck \/ K!RunCommands \/ K!CommandFails \/ K!EndCheck
           \/ K!WorkerEnds \/ K!HostDies \/ K!Blocks
  PROVE  EvidenceInv'
<1>1. /\ UNCHANGED <<commits, made, work, attempt, tags, noted, accepted>>
      /\ at # "idle" \/ at' = "idle"
  BY DEF K!BeginCheck, K!RunCommands, K!CommandFails, K!EndCheck, K!WorkerEnds, K!HostDies,
         K!Blocks
<1>2. Branch' /\ (K!Clean' <=> K!Clean) /\ K!Tip' = K!Tip
      /\ (\A tree : PathsHold(tree)' <=> PathsHold(tree))
      /\ (\A tree : Right(tree)' <=> Right(tree))
  BY <1>1 DEF EvidenceInv, Branch, K!Clean, K!Tip, PathsHold, Right
<1>3. SUFFICES Looked'
  BY <1>1, <1>2, SameEvidence
<1>4. CASE at' \in {"idle", "ended"}
  BY <1>4 DEF Looked
<1>5. CASE /\ at = "ended" /\ K!Clean /\ K!Paths(K!Tip.tree)
           /\ head' = K!Tip /\ at' = "running"
  <2>1. K!Tip \in CommitsMade /\ K!Tip.id <= made /\ K!Tip.tree \in K!Trees
    BY TipFacts DEF EvidenceInv, CommitsMade
  <2>2. PathsHold(K!Tip.tree)
    BY <1>5, <2>1, FrozenTests DEF PathsHold, K!Paths, K!OnlyTests
  <2>3. QED
    BY <1>1, <1>2, <1>5, <2>1, <2>2 DEF Looked
<1>6. CASE K!RunCommands /\ at' = "ran"
  <2>1. /\ at = "running" /\ head' = head
        /\ K!Fails(work) <=> attempt.step = "red"
    BY <1>6 DEF K!RunCommands, K!Blocks
  <2>2. K!SameHead => work = head.tree
    BY DEF K!SameHead, K!Clean
  <2>3. K!SameHead' <=> K!SameHead
    BY <1>2, <2>1 DEF K!SameHead
  <2>4. K!SameHead => Right(head.tree)
    BY <2>1, <2>2 DEF Right
  <2>5. QED
    BY <1>1, <1>2, <1>6, <2>1, <2>3, <2>4 DEF EvidenceInv, Looked
<1>7. CASE K!EndCheck /\ at' = "checked"
  <2>1. at = "ran" /\ K!SameHead /\ covers' = head
    BY <1>7 DEF K!EndCheck, K!Blocks
  <2>2. Right(head.tree) /\ PathsHold(head.tree) /\ head.tree \in K!Trees
    BY <2>1 DEF EvidenceInv, Looked, CommitsMade
  <2>3. QED
    BY <1>2, <1>7, <2>1, <2>2 DEF Looked, Good
<1>8. QED
  BY <1>4, <1>5, <1>6, <1>7 DEF K!BeginCheck, K!RunCommands, K!CommandFails, K!EndCheck,
     K!WorkerEnds, K!HostDies, K!Blocks

\* Accepted: what a tag of this very attempt is of.
LEMMA AcceptStep ==
  ASSUME EvidenceInv, at = "checked", NEW commit, Good(commit), K!Accept(commit),
         UNCHANGED <<commits, made, work, attempt>>,
         \A t \in tags' \ tags : t.attempt = attempt.number /\ t.commit = commit
  PROVE  EvidenceInv'
<1> DEFINE e == [step |-> attempt.step, revision |-> K!Key.revision, commit |-> commit,
                 base |-> attempt.base, freeze |-> attempt.freeze]
<1>1. accepted' = accepted \cup {e} /\ at' = "idle"
  BY DEF K!Accept
<1>2. e.step = attempt.step /\ e.commit = commit /\ e.base = attempt.base
      /\ e.freeze = attempt.freeze
  OBVIOUS
<1> HIDE DEF e
<1>3. attempt.step \in {"red", "green"} /\ attempt.number \in Nat
  BY DEF EvidenceInv, Attempted
<1>4. K!EvidenceHolds'
  BY <1>1, <1>2, <1>3 DEF EvidenceInv, K!EvidenceHolds, Good, PathsHold, Right
<1>5. Tagged'
  BY <1>1, <1>2, <1>3 DEF EvidenceInv, Tagged, Good, PathsHold, Right
<1>6. Branch' /\ Looked' /\ Attempted'
  BY <1>1 DEF EvidenceInv, Branch, Looked, Attempted
<1>7. QED
  BY <1>4, <1>5, <1>6 DEF EvidenceInv

LEMMA EvidenceStep ==
  ASSUME K!ChecksAssumption, EvidenceInv, K!Recover \/ K!CreateTag \/ K!TagTorn
  PROVE  EvidenceInv'
<1>1. at = "checked" /\ Good(covers)
  BY DEF K!Recover, K!CreateTag, K!TagTorn, EvidenceInv, Looked
<1>2. CASE K!Blocks
  BY <1>2, CheckStep
<1>3. ASSUME NEW t \in K!Held, t.attempt = attempt.number, K!Accept(t.commit),
             UNCHANGED <<commits, made, work, attempt, tags>>
      PROVE  EvidenceInv'
  <2>1. Good(t.commit)
    BY <1>3 DEF K!Held, EvidenceInv, Tagged
  <2>2. QED
    BY <1>1, <1>3, <2>1, AcceptStep
<1>4. K!Tag => \A t \in tags' \ tags : t.attempt = attempt.number /\ t.commit = covers
  BY DEF K!Tag
<1>5. CASE K!Tag /\ K!Accept(covers) /\ UNCHANGED <<commits, made, work, attempt, head>>
  BY <1>1, <1>4, <1>5, AcceptStep
<1>6. CASE /\ K!Tag /\ at' = "ended"
           /\ UNCHANGED <<commits, made, work, attempt, accepted>>
  <2>1. Tagged'
    BY <1>1, <1>4, <1>6 DEF EvidenceInv, Tagged, Attempted, Good, PathsHold, Right
  <2>2. Branch' /\ Looked' /\ Attempted' /\ K!EvidenceHolds'
    BY <1>1, <1>6 DEF EvidenceInv, Branch, Looked, Attempted, K!EvidenceHolds
  <2>3. QED
    BY <2>1, <2>2 DEF EvidenceInv
<1>7. QED
  BY <1>2, <1>3, <1>5, <1>6 DEF K!Recover, K!CreateTag, K!TagTorn

\* Evidence that the run has accepted is what it says, whoever touched the
\* worktree while it was checked and wherever the host died: red evidence adds
\* failing tests and nothing else, green evidence passes the tests of the red
\* evidence its attempt was given, unchanged (check, frozen, evidence_inner).
THEOREM EvidenceSound ==
  ASSUME K!ChecksAssumption
  PROVE  K!KSpec => []K!EvidenceHolds
<1>1. K!KInit => EvidenceInv
  <2> SUFFICES ASSUME K!KInit PROVE EvidenceInv
    OBVIOUS
  <2>1. K!Intake \in CommitsMade /\ K!Intake.id = 0 /\ K!Intake.tree \in K!Trees
    BY DEF K!Intake, CommitsMade, K!Trees, K!ChecksAssumption
  <2>2. Branch
    BY <2>1 DEF K!KInit, Branch
  <2>3. QED
    BY <2>2 DEF K!KInit, EvidenceInv, Looked, Attempted, Tagged, K!EvidenceHolds, K!NoAttempt
<1>2. EvidenceInv /\ [K!KNext]_K!kvars => EvidenceInv'
  <2> SUFFICES ASSUME EvidenceInv, [K!KNext]_K!kvars PROVE EvidenceInv'
    OBVIOUS
  <2>1. CASE K!KNext
    BY <2>1, StartStep, WorksStep, MeddlesStep, CheckStep, EvidenceStep DEF K!KNext
  <2>2. CASE UNCHANGED K!kvars
    BY <2>2 DEF K!kvars, EvidenceInv, Branch, Looked, Attempted, Tagged, K!EvidenceHolds,
       K!SameHead, K!Clean, K!Tip, Good, PathsHold, Right
  <2>3. QED
    BY <2>1, <2>2
<1>3. QED
  BY <1>1, <1>2, PTL DEF K!KSpec, EvidenceInv
-----------------------------------------------------------------------------
(* The creation of a run (Intake).  Whoever stages a run holds intake.lock *)
(* and made the worktree and the branch that are there; whoever announces  *)
(* it holds run.lock as well, so that nobody has changed its record.       *)

CONSTANT Intakes
VARIABLES
  pc, intakeLock, runLock, branch, worktree, published, record, comment
I == INSTANCE Intake

IntakeTypes ==
  /\ pc \in [Intakes -> I!Steps]
  /\ intakeLock \in Intakes \cup {None} /\ runLock \in Intakes \cup {None}
  /\ branch \in Intakes \cup {None} /\ worktree \in Intakes \cup {None}
  /\ published \in Intakes \cup {None}
  /\ record \in [started : BOOLEAN,
                 status : {"Ready", "Running", "Blocked", "Cancelled"}]
  /\ comment \in BOOLEAN

Staging ==
  \A i \in Intakes :
    /\ pc[i] \in {"locked", "added", "announce"} => intakeLock = i
    /\ pc[i] \in {"locked", "added"} => published = None
    /\ pc[i] = "added" => worktree = i /\ branch = i
    /\ pc[i] = "announce" => published = i /\ runLock = i /\ record = I!Fresh

IntakeInv ==
  /\ IntakeTypes /\ Staging /\ I!RunIsWhole
  /\ published = None => record = I!Fresh
  /\ record.started => comment

\* A step of the host or of a control.
LEMMA HostHandles ==
  ASSUME I!IntakeAssumption, IntakeInv,
         I!TickAnnounces \/ I!TickRuns \/ I!Retries \/ I!Cancels
  PROVE  IntakeInv' /\ (record.status = "Cancelled" => record'.status = "Cancelled")
<1>1. /\ published # None /\ runLock = None
      /\ UNCHANGED <<pc, intakeLock, runLock, branch, worktree, published>>
  BY DEF I!TickAnnounces, I!TickRuns, I!Retries, I!Cancels, I!Free
<1>2. record.started \in BOOLEAN /\ comment \in BOOLEAN
      /\ record.status \in {"Ready", "Running", "Blocked", "Cancelled"}
  BY DEF IntakeInv, IntakeTypes
<1>3. /\ record' \in [started : BOOLEAN,
                      status : {"Ready", "Running", "Blocked", "Cancelled"}]
      /\ comment' \in BOOLEAN
      /\ record'.started \/ record'.status = "Running" => comment'
      /\ record.status = "Cancelled" => record'.status = "Cancelled"
  <2>1. record.started \/ record.status = "Running" => comment
    BY <1>1 DEF IntakeInv, I!RunIsWhole
  <2>2. CASE I!TickAnnounces
    <3>1. comment' = TRUE /\ record.status # "Cancelled"
          /\ (record' = record \/ record' = [record EXCEPT !.started = TRUE])
      BY <2>2 DEF I!TickAnnounces, I!Unannounced
    <3>2. QED
      BY <3>1 DEF IntakeInv, IntakeTypes
  <2>3. CASE I!TickRuns
    BY <2>1, <2>3 DEF I!TickRuns, IntakeInv, IntakeTypes
  <2>4. CASE I!Retries
    BY <2>1, <2>4 DEF I!Retries, IntakeInv, IntakeTypes
  <2>5. CASE I!Cancels
    BY <2>1, <2>5 DEF I!Cancels, IntakeInv, IntakeTypes
  <2>6. QED
    BY <2>2, <2>3, <2>4, <2>5
<1>4. \A i \in Intakes : pc[i] # "announce"
  BY <1>1, I!IntakeAssumption DEF I!IntakeAssumption, IntakeInv, Staging
<1>5. QED
  BY <1>1, <1>2, <1>3, <1>4 DEF IntakeInv, IntakeTypes, Staging, I!RunIsWhole

LEMMA IntakeStep ==
  ASSUME I!IntakeAssumption, IntakeInv, NEW i \in Intakes, I!IntakeStep(i)
  PROVE  IntakeInv' /\ (record.status = "Cancelled" => record'.status = "Cancelled")
<1> USE I!IntakeAssumption DEF I!IntakeAssumption, I!Goes, I!Ends, I!Steps, I!Fresh
<1>1. CASE I!Check(i) \/ I!Refuse(i) \/ I!Lock(i)
  BY <1>1 DEF IntakeInv, IntakeTypes, Staging, I!RunIsWhole, I!Check, I!Refuse, I!Lock
<1>2. CASE I!AddWorktree(i) \/ I!AddFails(i)
  BY <1>2 DEF IntakeInv, IntakeTypes, Staging, I!RunIsWhole, I!AddWorktree, I!AddFails
<1>3. CASE I!Publish(i)
  BY <1>3 DEF IntakeInv, IntakeTypes, Staging, I!RunIsWhole, I!Publish
<1>4. CASE I!StagingFails(i)
  BY <1>4 DEF IntakeInv, IntakeTypes, Staging, I!RunIsWhole, I!StagingFails
<1>5. CASE I!Dies(i)
  BY <1>5 DEF IntakeInv, IntakeTypes, Staging, I!RunIsWhole, I!Dies
<1>6. CASE I!Announce(i) \/ I!AnnounceFails(i)
  <2>1. /\ pc[i] = "announce" /\ pc' = [pc EXCEPT ![i] = "stopped"]
        /\ intakeLock' = None /\ runLock' = None
        /\ UNCHANGED <<branch, worktree, published>>
    BY <1>6 DEF I!Announce, I!AnnounceFails
  <2>2. \A j \in Intakes : pc'[j] \notin {"locked", "added", "announce"}
    <3>1. pc \in [Intakes -> I!Steps]
          /\ \A j \in Intakes : pc[j] \in {"locked", "added", "announce"} => intakeLock = j
      BY DEF IntakeInv, IntakeTypes, Staging
    <3>2. QED
      BY <2>1, <3>1
  <2>3. published = i /\ record = I!Fresh
    BY <2>1 DEF IntakeInv, IntakeTypes, Staging
  <2>4. CASE I!Announce(i)
    <3>1. comment' = TRUE /\ record' = [started |-> TRUE, status |-> "Ready"]
      BY <2>4 DEF I!Announce
    <3>2. /\ record' \in [started : BOOLEAN,
                          status : {"Ready", "Running", "Blocked", "Cancelled"}]
          /\ record'.status # "Running"
      BY <3>1
    <3>3. QED
      BY <2>1, <2>2, <2>3, <3>1, <3>2 DEF IntakeInv, IntakeTypes, Staging, I!RunIsWhole
  <2>5. CASE I!AnnounceFails(i)
    <3>1. /\ comment' \in BOOLEAN
          /\ \E status \in {"Ready", "Blocked"} :
               record' = [started |-> FALSE, status |-> status]
      BY <2>3, <2>5 DEF I!AnnounceFails, IntakeInv, IntakeTypes
    <3>2. /\ record' \in [started : BOOLEAN,
                          status : {"Ready", "Running", "Blocked", "Cancelled"}]
          /\ record'.status # "Running" /\ ~record'.started
      BY <3>1
    <3>3. record.status # "Cancelled" /\ published' # None
      BY <2>1, <2>3
    <3>4. IntakeTypes' /\ Staging' /\ I!RunIsWhole'
      BY <2>1, <2>2, <2>3, <3>1, <3>2 DEF IntakeInv, IntakeTypes, Staging, I!RunIsWhole
    <3>5. QED
      BY <3>2, <3>3, <3>4 DEF IntakeInv, IntakeTypes, Staging, I!RunIsWhole
  <2>6. QED
    BY <1>6, <2>4, <2>5
<1>7. QED
  BY <1>1, <1>2, <1>3, <1>4, <1>5, <1>6 DEF I!IntakeStep

\* A run directory that can be seen is whole, and a run that is cancelled as soon
\* as it can be seen stays cancelled, however many intakes of its ID are under
\* way and wherever they fail or die (create).
THEOREM IntakeSafe ==
  ASSUME I!IntakeAssumption
  PROVE  I!IntakeSpec => []I!RunIsWhole /\ I!CancelOutlivesIntake
<1>1. I!IntakeInit => IntakeInv
  <2> SUFFICES ASSUME I!IntakeInit PROVE IntakeInv
    OBVIOUS
  <2>1. /\ pc \in [Intakes -> I!Steps] /\ \A i \in Intakes : pc[i] = "checks"
        /\ record = [started |-> FALSE, status |-> "Ready"]
    BY DEF I!IntakeInit, I!Steps, I!Fresh
  <2>2. record \in [started : BOOLEAN,
                    status : {"Ready", "Running", "Blocked", "Cancelled"}]
    BY <2>1
  <2>3. IntakeTypes
    BY <2>1, <2>2 DEF I!IntakeInit, IntakeTypes
  <2>4. QED
    BY <2>1, <2>3 DEF I!IntakeInit, IntakeInv, Staging, I!RunIsWhole
<1>2. IntakeInv /\ [I!IntakeNext]_I!ivars
        => IntakeInv' /\ [record.status = "Cancelled" => record'.status = "Cancelled"]_I!ivars
  <2> SUFFICES ASSUME IntakeInv, [I!IntakeNext]_I!ivars
               PROVE  IntakeInv' /\ [record.status = "Cancelled"
                                       => record'.status = "Cancelled"]_I!ivars
    OBVIOUS
  <2>1. CASE I!IntakeNext
    BY <2>1, IntakeStep, HostHandles DEF I!IntakeNext
  <2>2. CASE UNCHANGED I!ivars
    BY <2>2 DEF I!ivars, IntakeInv, IntakeTypes, Staging, I!RunIsWhole
  <2>3. QED
    BY <2>1, <2>2
<1>3. IntakeInv => I!RunIsWhole
  BY DEF IntakeInv
<1>4. QED
  BY <1>1, <1>2, <1>3, PTL DEF I!IntakeSpec, I!CancelOutlivesIntake
=============================================================================
