--------------------------- MODULE FlowRunProofs ---------------------------
(***************************************************************************)
(* What the operators of FlowRun return: each one maps a run to a run, and *)
(* the facts about the fields that the invariants of Hub are about.        *)
(***************************************************************************)
EXTENDS FlowRun, TLAPS

\* r and q have the same controls, attempts and gate requests.
SameCounters(r, q) ==
  /\ q.paused = r.paused /\ q.cancelled = r.cancelled
  /\ q.latest = r.latest /\ q.runs = r.runs /\ q.requests = r.requests

\* And nothing has been accepted on the way from r to q.
SameRecord(r, q) ==
  /\ q.paused = r.paused /\ q.cancelled = r.cancelled
  /\ q.latest = r.latest /\ q.runs = r.runs /\ q.requests = r.requests
  /\ q.accepted = r.accepted

\* No worker is held and none is to be observed.
Idle(q) ==
  /\ q.active = None /\ ~q.unsettled
  /\ q.status \in {"Ready", "Blocked", "Done"}

-----------------------------------------------------------------------------
(* The event log. *)

\* An event changes only what is kept of the log.
LEMMA EventFacts ==
  ASSUME NEW r \in RunType
  PROVE  /\ Event(r) \in RunType /\ SameRecord(r, Event(r))
         /\ Event(r).current = r.current /\ Event(r).status = r.status
         /\ Event(r).active = r.active /\ Event(r).unsettled = r.unsettled
         /\ Event(r).question = r.question
         /\ Event(r).evidence = r.evidence
         /\ Event(r).pr = r.pr
<1> DEFINE v == [r.visits EXCEPT ![r.current] =
                   IF r.last = r.current THEN @ ELSE @ + 1]
<1>1. v \in [Steps -> Nat]
  BY DEF RunType
<1>2. r.current \in Target
  BY DEF RunType, Target
<1>3. Event(r) = [r EXCEPT !.visits = v, !.last = r.current]
  BY DEF Event
<1>4. QED
  BY <1>1, <1>2, <1>3 DEF RunType, SameRecord

\* A route event is an event.
LEMMA RouteEventFacts ==
  ASSUME NEW r \in RunType, NEW next \in Steps
  PROVE  /\ RouteEvent(r, next) \in RunType
         /\ SameRecord(r, RouteEvent(r, next))
         /\ RouteEvent(r, next).current = r.current
         /\ RouteEvent(r, next).active = r.active
         /\ RouteEvent(r, next).unsettled = r.unsettled
         /\ RouteEvent(r, next).question = r.question
         /\ RouteEvent(r, next).evidence = r.evidence
<1> DEFINE e == Event(r)
           v == [e.visits EXCEPT ![next] = @ + 1]
<1>1. e \in RunType
  BY EventFacts
<1>2. v \in [Steps -> Nat]
  BY <1>1 DEF RunType
<1>3. RouteEvent(r, next) = IF next = r.current THEN [e EXCEPT !.visits = v]
                            ELSE e
  BY DEF RouteEvent
<1> HIDE DEF e, v
<1>4. CASE next = r.current
  <2>1. RouteEvent(r, next) = [e EXCEPT !.visits = v]
    BY <1>3, <1>4
  <2>2. /\ RouteEvent(r, next) \in RunType
        /\ SameRecord(e, RouteEvent(r, next))
        /\ RouteEvent(r, next).current = e.current
        /\ RouteEvent(r, next).active = e.active
        /\ RouteEvent(r, next).unsettled = e.unsettled
        /\ RouteEvent(r, next).question = e.question
        /\ RouteEvent(r, next).evidence = e.evidence
    BY <1>1, <1>2, <2>1 DEF RunType, SameRecord
  <2>3. QED
    BY <2>2, EventFacts DEF e, SameRecord
<1>5. CASE next # r.current
  BY <1>3, <1>5, EventFacts DEF e
<1>6. QED
  BY <1>4, <1>5
-----------------------------------------------------------------------------
(* Routing and blocking. *)

\* Leaving a step drops its block and its question.
LEMMA LeaveStepFacts ==
  ASSUME NEW r \in RunType
  PROVE  /\ LeaveStep(r) \in RunType /\ SameRecord(r, LeaveStep(r))
         /\ LeaveStep(r).current = r.current
         /\ LeaveStep(r).status = r.status
         /\ LeaveStep(r).active = r.active
         /\ LeaveStep(r).unsettled = r.unsettled
         /\ LeaveStep(r).question = None
         /\ LeaveStep(r).evidence = r.evidence
<1>1. /\ [r.retries EXCEPT ![r.current] = 0] \in [Steps -> Nat]
      /\ [r.failures EXCEPT ![r.current] = 0] \in [Steps -> Nat]
  BY DEF RunType
<1>2. QED
  BY <1>1 DEF RunType, LeaveStep, SameRecord

\* A transition holds no worker any more and is Ready, or Done.
LEMMA TransitionFacts ==
  ASSUME NEW r \in RunType, NEW next \in Target
  PROVE  /\ Transition(r, next) \in RunType
         /\ SameRecord(r, Transition(r, next))
         /\ Transition(r, next).active = None
         /\ Transition(r, next).unsettled = r.unsettled
         /\ Transition(r, next).status \in {"Ready", "Done"}
         /\ Transition(r, next).evidence = r.evidence
<1> DEFINE left == [LeaveStep(r) EXCEPT !.active = None]
<1>1. /\ left \in RunType /\ SameRecord(r, left)
      /\ left.active = None /\ left.unsettled = r.unsettled
      /\ left.evidence = r.evidence
  <2>1. LeaveStep(r) \in RunType
    BY LeaveStepFacts
  <2>2. /\ left \in RunType /\ SameRecord(LeaveStep(r), left)
        /\ left.active = None /\ left.unsettled = LeaveStep(r).unsettled
        /\ left.evidence = LeaveStep(r).evidence
    BY <2>1 DEF RunType, SameRecord
  <2>3. QED
    BY <2>2, LeaveStepFacts DEF SameRecord
<1> HIDE DEF left
<1>2. CASE next = None
  <2>1. Transition(r, next) = [Event(left) EXCEPT !.status = "Done"]
    BY <1>2 DEF Transition, left
  <2>2. Event(left) \in RunType
    BY <1>1, EventFacts
  <2>3. /\ Transition(r, next) \in RunType
        /\ SameRecord(Event(left), Transition(r, next))
        /\ Transition(r, next).active = Event(left).active
        /\ Transition(r, next).unsettled = Event(left).unsettled
        /\ Transition(r, next).status = "Done"
        /\ Transition(r, next).evidence = Event(left).evidence
    BY <2>1, <2>2 DEF RunType, SameRecord, Statuses
  <2>4. QED
    BY <1>1, <2>3, EventFacts DEF SameRecord
<1>3. CASE next # None
  <2> DEFINE e == RouteEvent(left, next)
  <2>1. next \in Steps
    BY <1>3 DEF Target
  <2>2. e \in RunType
    BY <1>1, <2>1, RouteEventFacts
  <2>3. Transition(r, next) = [e EXCEPT !.current = next, !.status = "Ready"]
    BY <1>3 DEF Transition, left
  <2> HIDE DEF e
  <2>4. /\ Transition(r, next) \in RunType
        /\ SameRecord(e, Transition(r, next))
        /\ Transition(r, next).active = e.active
        /\ Transition(r, next).unsettled = e.unsettled
        /\ Transition(r, next).status = "Ready"
        /\ Transition(r, next).evidence = e.evidence
    BY <2>1, <2>2, <2>3 DEF RunType, SameRecord, Statuses
  <2>5. QED
    BY <1>1, <2>1, <2>4, RouteEventFacts DEF SameRecord, e
<1>4. QED
  BY <1>2, <1>3

\* A stop keeps the worker, the question and the step.
LEMMA StopOnBlockFacts ==
  ASSUME NEW r \in RunType
  PROVE  /\ StopOnBlock(r) \in RunType /\ SameRecord(r, StopOnBlock(r))
         /\ StopOnBlock(r).current = r.current
         /\ StopOnBlock(r).active = r.active
         /\ StopOnBlock(r).unsettled = r.unsettled
         /\ StopOnBlock(r).status = "Blocked"
         /\ StopOnBlock(r).evidence = r.evidence
<1>1. Event(r) \in RunType
  BY EventFacts
<1>2. /\ StopOnBlock(r) \in RunType /\ SameRecord(Event(r), StopOnBlock(r))
      /\ StopOnBlock(r).current = Event(r).current
      /\ StopOnBlock(r).active = Event(r).active
      /\ StopOnBlock(r).unsettled = Event(r).unsettled
      /\ StopOnBlock(r).status = "Blocked"
      /\ StopOnBlock(r).evidence = Event(r).evidence
  BY <1>1 DEF RunType, StopOnBlock, SameRecord, Statuses
<1>3. QED
  BY <1>2, EventFacts DEF SameRecord

\* Whatever a block does, it does not start, hold or settle a worker.
LEMMA HandleBlockFacts ==
  ASSUME NEW r \in RunType, NEW kind \in BlockKinds
  PROVE  /\ HandleBlock(r, kind) \in RunType
         /\ SameRecord(r, HandleBlock(r, kind))
         /\ HandleBlock(r, kind).active \in {r.active, None}
         /\ HandleBlock(r, kind).unsettled = r.unsettled
         /\ HandleBlock(r, kind).status \in {"Ready", "Blocked", "Done"}
         /\ HandleBlock(r, kind).evidence = r.evidence
<1> DEFINE e == Event(r)
           route == Flow[r.current].on_block[kind]
           counted == [e EXCEPT !.retries[r.current] = @ + 1,
                                !.block = TRUE, !.status = "Ready"]
           retries == kind = "transient" /\ r.retries[r.current] < TransientRetries
           routes == kind # "transient" /\ route # None
<1>1. e \in RunType
  BY EventFacts
<1>2. route \in Target
  <2>1. r.current \in Steps
    BY DEF RunType
  <2>2. Flow[r.current] \in StepType
    BY <2>1, FlowAssumption
  <2>3. QED
    BY <2>2 DEF StepType
<1>3. HandleBlock(r, kind) = CASE retries -> Event(counted)
                               [] routes -> Transition(e, route)
                               [] OTHER -> StopOnBlock(e)
  BY DEF HandleBlock
<1> HIDE DEF e, route, routes
<1>4. CASE retries
  <2>1. [e.retries EXCEPT ![r.current] = @ + 1] \in [Steps -> Nat]
    BY <1>1 DEF RunType
  <2>2. /\ counted \in RunType /\ SameRecord(e, counted)
        /\ counted.active = e.active /\ counted.unsettled = e.unsettled
        /\ counted.status = "Ready"
        /\ counted.evidence = e.evidence
    BY <1>1, <2>1 DEF RunType, SameRecord, Statuses
  <2> HIDE DEF counted
  <2>3. HandleBlock(r, kind) = Event(counted)
    BY <1>3, <1>4 DEF routes
  <2>4. QED
    BY <2>2, <2>3, EventFacts DEF e, SameRecord
<1>5. CASE routes
  <2>1. HandleBlock(r, kind) = Transition(e, route)
    BY <1>3, <1>5 DEF routes
  <2>2. QED
    BY <1>1, <1>2, <2>1, TransitionFacts, EventFacts DEF e, SameRecord
<1>6. CASE ~retries /\ ~routes
  <2>1. HandleBlock(r, kind) = StopOnBlock(e)
    BY <1>3, <1>6
  <2>2. QED
    BY <1>1, <2>1, StopOnBlockFacts, EventFacts DEF e, SameRecord
<1>7. QED
  BY <1>4, <1>5, <1>6
-----------------------------------------------------------------------------
(* The answer of a finished worker. *)

\* r and q have no worker, and agree on everything but the way on.
LEMMA WorkerBlockedFacts ==
  ASSUME NEW r \in RunType, r.active = None, ~r.unsettled,
         NEW attempt \in Attempts, NEW kind \in BlockKinds, NEW asks \in BOOLEAN
  PROVE  /\ WorkerBlocked(r, attempt, kind, asks) \in RunType
         /\ SameRecord(r, WorkerBlocked(r, attempt, kind, asks))
         /\ Idle(WorkerBlocked(r, attempt, kind, asks))
<1> DEFINE q == [step |-> r.current, request |-> attempt.number,
                 answered |-> FALSE]
           asked == [r EXCEPT !.question = q]
           registered ==
             IF kind = "owner_question" \/ (kind # "transient" /\ asks)
             THEN asked ELSE r
<1>1. q \in Questions
  BY DEF RunType, Questions, Attempts
<1> HIDE DEF q
<1>2. /\ asked \in RunType /\ SameRecord(r, asked)
      /\ asked.active = r.active /\ asked.unsettled = r.unsettled
  BY <1>1 DEF RunType, SameRecord
<1> HIDE DEF asked
<1>3. /\ registered \in RunType /\ SameRecord(r, registered)
      /\ registered.active = None /\ ~registered.unsettled
  BY <1>2 DEF SameRecord
<1>4. WorkerBlocked(r, attempt, kind, asks) = HandleBlock(registered, kind)
  BY DEF WorkerBlocked, asked, q
<1> HIDE DEF registered
<1>5. QED
  BY <1>3, <1>4, HandleBlockFacts DEF SameRecord, Idle

\* A failed check reruns or stops, and accepts nothing.
LEMMA CheckFailedFacts ==
  ASSUME NEW r \in RunType, r.active = None, ~r.unsettled,
         NEW kind \in BlockKinds
  PROVE  /\ CheckFailed(r, kind) \in RunType
         /\ SameRecord(r, CheckFailed(r, kind))
         /\ Idle(CheckFailed(r, kind))
<1> DEFINE counted == [r EXCEPT !.failures[r.current] = @ + 1]
           again == [counted EXCEPT !.status = "Ready", !.block = TRUE]
<1>1. [r.failures EXCEPT ![r.current] = @ + 1] \in [Steps -> Nat]
  BY DEF RunType
<1>2. /\ counted \in RunType /\ SameRecord(r, counted)
      /\ counted.active = None /\ ~counted.unsettled
  BY <1>1 DEF RunType, SameRecord
<1>3. CheckFailed(r, kind) =
        CASE kind = "transient" -> HandleBlock(r, kind)
          [] kind = "unknown" /\ r.failures[r.current] = 0 -> Event(again)
          [] OTHER -> StopOnBlock(counted)
  BY DEF CheckFailed
<1> HIDE DEF counted
<1>4. /\ again \in RunType /\ SameRecord(counted, again)
      /\ again.active = None /\ ~again.unsettled /\ again.status = "Ready"
  BY <1>2 DEF RunType, SameRecord, Statuses
<1> HIDE DEF again
<1>5. CASE kind = "transient"
  BY <1>3, <1>5, HandleBlockFacts DEF Idle
<1>6. CASE kind = "unknown" /\ r.failures[r.current] = 0
  <2>1. CheckFailed(r, kind) = Event(again)
    BY <1>3, <1>6
  <2>2. QED
    BY <1>2, <1>4, <2>1, EventFacts DEF Idle, SameRecord
<1>7. CASE kind # "transient" /\ ~(kind = "unknown" /\ r.failures[r.current] = 0)
  <2>1. CheckFailed(r, kind) = StopOnBlock(counted)
    BY <1>3, <1>7
  <2>2. QED
    BY <1>2, <2>1, StopOnBlockFacts DEF Idle, SameRecord
<1>8. QED
  BY <1>5, <1>6, <1>7

\* A completed step is accepted, with its evidence if it has a tag.
LEMMA StepDoneFacts ==
  ASSUME NEW r \in RunType, r.active = None, ~r.unsettled,
         NEW attempt \in Attempts
  PROVE  /\ StepDone(r, attempt) \in RunType
         /\ SameCounters(r, StepDone(r, attempt))
         /\ StepDone(r, attempt).active = None
         /\ ~StepDone(r, attempt).unsettled
         /\ StepDone(r, attempt).current = r.current
<1> DEFINE tag == Flow[r.current].tag
           tagged == [r EXCEPT !.evidence[tag] = @ + 1]
           frozen == IF tag = None THEN r ELSE Event(tagged)
           done == Event(frozen)
<1>1. tag \in Tags \cup {None}
  BY FlowAssumption DEF RunType, StepType
<1>2. tag # None => [r.evidence EXCEPT ![tag] = @ + 1] \in [Tags -> Nat]
  BY <1>1 DEF RunType
<1> HIDE DEF tag
<1>3. tag # None => /\ tagged \in RunType /\ SameCounters(r, tagged)
                    /\ tagged.active = None /\ ~tagged.unsettled
                    /\ tagged.current = r.current
  BY <1>2 DEF RunType, SameCounters
<1> HIDE DEF tagged
<1>4. /\ frozen \in RunType /\ SameCounters(r, frozen)
      /\ frozen.active = None /\ ~frozen.unsettled
      /\ frozen.current = r.current
  BY <1>3, EventFacts DEF SameCounters, SameRecord
<1> HIDE DEF frozen
<1>5. /\ done \in RunType /\ SameCounters(r, done)
      /\ done.active = None /\ ~done.unsettled /\ done.current = r.current
  BY <1>4, EventFacts DEF SameCounters, SameRecord
<1>6. StepDone(r, attempt) = [done EXCEPT !.accepted[r.current] = attempt]
  BY DEF StepDone, done, frozen, tagged, tag
<1> HIDE DEF done
<1>7. [done.accepted EXCEPT ![r.current] = attempt]
        \in [Steps -> Attempts \cup {None}]
  BY <1>5 DEF RunType
<1>8. QED
  BY <1>5, <1>6, <1>7 DEF RunType, SameCounters

\* Accepting a result leaves no worker and moves on, or stops.
LEMMA AcceptResultFacts ==
  ASSUME NEW r \in RunType, r.active = None, ~r.unsettled,
         NEW attempt \in Attempts, NEW verdict \in Verdicts \cup {None}
  PROVE  /\ AcceptResult(r, attempt, verdict) \in RunType
         /\ SameCounters(r, AcceptResult(r, attempt, verdict))
         /\ Idle(AcceptResult(r, attempt, verdict))
<1> DEFINE done == StepDone(r, attempt)
           step == Flow[r.current]
           routed == verdict # None /\ step.on_verdict[verdict] # None
           route == IF routed THEN step.on_verdict[verdict] ELSE step.next
           limit == /\ verdict = "changes_needed"
                    /\ step.max_rounds # 0
                    /\ Visits(done, r.current) >= step.max_rounds
<1>1. step \in StepType
  BY FlowAssumption DEF RunType
<1>2. route \in Target
  <2>1. step.next \in Target
    BY <1>1 DEF StepType
  <2>2. verdict # None => step.on_verdict[verdict] \in Target
    BY <1>1 DEF StepType
  <2> HIDE DEF step
  <2>3. QED
    BY <2>1, <2>2
<1>3. AcceptResult(r, attempt, verdict) =
        IF limit THEN StopOnBlock(done) ELSE Transition(done, route)
  BY DEF AcceptResult
<1> HIDE DEF done, route, limit
<1>4. /\ done \in RunType /\ SameCounters(r, done)
      /\ done.active = None /\ ~done.unsettled
  BY StepDoneFacts DEF done
<1>5. QED
  BY <1>2, <1>3, <1>4, StopOnBlockFacts, TransitionFacts
     DEF SameCounters, SameRecord, Idle
-----------------------------------------------------------------------------
(* The owner's controls. *)

\* A retry is Ready, and holds what the run held.
LEMMA RetryStepFacts ==
  ASSUME NEW r \in RunType
  PROVE  /\ RetryStep(r) \in RunType /\ SameRecord(r, RetryStep(r))
         /\ RetryStep(r).active = r.active
         /\ RetryStep(r).unsettled = r.unsettled
         /\ RetryStep(r).status = "Ready"
<1> DEFINE q == IF r.question # None /\ ~r.question.answered THEN None
                ELSE r.question
           x == [r EXCEPT !.retries[r.current] = 0, !.failures[r.current] = 0,
                          !.question = q, !.block = FALSE, !.status = "Ready"]
<1>1. q \in Questions \cup {None}
  BY DEF RunType
<1>2. /\ [r.retries EXCEPT ![r.current] = 0] \in [Steps -> Nat]
      /\ [r.failures EXCEPT ![r.current] = 0] \in [Steps -> Nat]
  BY DEF RunType
<1>3. RetryStep(r) = Event(x)
  BY DEF RetryStep
<1> HIDE DEF q
<1>4. /\ x \in RunType /\ SameRecord(r, x)
      /\ x.active = r.active /\ x.unsettled = r.unsettled
      /\ x.status = "Ready"
  BY <1>1, <1>2 DEF RunType, SameRecord, Statuses
<1> HIDE DEF x
<1>5. QED
  BY <1>3, <1>4, EventFacts DEF SameRecord

\* An override is a transition.
LEMMA OverrideStepFacts ==
  ASSUME NEW r \in RunType
  PROVE  /\ OverrideStep(r) \in RunType /\ SameRecord(r, OverrideStep(r))
         /\ OverrideStep(r).active = None
         /\ OverrideStep(r).unsettled = r.unsettled
         /\ OverrideStep(r).status \in {"Ready", "Done"}
<1>1. Flow[r.current].next \in Target
  BY FlowAssumption DEF RunType, StepType
<1>2. QED
  BY <1>1, EventFacts, TransitionFacts DEF OverrideStep, SameRecord

\* An answer makes the step Ready.
LEMMA AnswerQuestionFacts ==
  ASSUME NEW r \in RunType, r.question # None
  PROVE  /\ AnswerQuestion(r) \in RunType /\ SameRecord(r, AnswerQuestion(r))
         /\ AnswerQuestion(r).active = r.active
         /\ AnswerQuestion(r).unsettled = r.unsettled
         /\ AnswerQuestion(r).status = "Ready"
<1> DEFINE q == [r.question EXCEPT !.answered = TRUE]
           x == [r EXCEPT !.question = q, !.status = "Ready", !.block = FALSE]
<1>1. q \in Questions
  BY DEF RunType, Questions
<1>2. AnswerQuestion(r) = Event(x)
  BY DEF AnswerQuestion
<1> HIDE DEF q
<1>3. /\ x \in RunType /\ SameRecord(r, x)
      /\ x.active = r.active /\ x.unsettled = r.unsettled
      /\ x.status = "Ready"
  BY <1>1 DEF RunType, SameRecord, Statuses
<1> HIDE DEF x
<1>4. QED
  BY <1>2, <1>3, EventFacts DEF SameRecord

\* An approved gate is left; the worker is not touched.
LEMMA ApproveGateFacts ==
  ASSUME NEW r \in RunType
  PROVE  /\ ApproveGate(r) \in RunType /\ SameRecord(r, ApproveGate(r))
         /\ ApproveGate(r).active = r.active
         /\ ApproveGate(r).unsettled = r.unsettled
         /\ ApproveGate(r).status \in {"Ready", "Done"}
<1> DEFINE left == LeaveStep(Event(r))
           next == Flow[r.current].next
<1>1. next \in Target
  BY FlowAssumption DEF RunType, StepType
<1>2. /\ left \in RunType /\ SameRecord(r, left)
      /\ left.active = r.active /\ left.unsettled = r.unsettled
  BY EventFacts, LeaveStepFacts DEF SameRecord
<1>3. ApproveGate(r) = IF next = None THEN [left EXCEPT !.status = "Done"]
                       ELSE [left EXCEPT !.current = next, !.status = "Ready"]
  BY DEF ApproveGate
<1> HIDE DEF left, next
<1>4. CASE next = None
  <2>1. ApproveGate(r) = [left EXCEPT !.status = "Done"]
    BY <1>3, <1>4
  <2>2. QED
    BY <1>2, <2>1 DEF RunType, SameRecord, Statuses
<1>5. CASE next # None
  <2>1. ApproveGate(r) = [left EXCEPT !.current = next, !.status = "Ready"]
    BY <1>3, <1>5
  <2>2. QED
    BY <1>1, <1>2, <1>5, <2>1 DEF RunType, SameRecord, Statuses, Target
<1>6. QED
  BY <1>4, <1>5
-----------------------------------------------------------------------------
(* The visit, and what is counted and asked in it. *)

\* q goes on with the visit of r, and has counted nothing since.
Repeats(r, q) ==
  /\ q.current = r.current
  /\ q.retries = r.retries /\ q.failures = r.failures
  /\ q.question = r.question
  /\ \A s \in Steps : Visits(q, s) = Visits(r, s)

\* q has left the step of r, for another or for the end.
Leaves(r, q) ==
  /\ q.question = None
  /\ q.retries = [r.retries EXCEPT ![r.current] = 0]
  /\ q.failures = [r.failures EXCEPT ![r.current] = 0]
  /\ q.status = "Ready" \/ (q.status = "Done" /\ q.current = r.current)

\* q has left the step of r with an event: a visit starts, or the run ends.
MovesOn(r, q) ==
  /\ Leaves(r, q)
  /\ q.status = "Done" \/ Visits(q, q.current) # Visits(r, q.current)

\* q tries again what r was at, as one of its transient retries.
Retries(r, q) ==
  /\ q.current = r.current /\ q.status = "Ready"
  /\ q.failures = r.failures /\ q.question = r.question
  /\ r.retries[r.current] < TransientRetries
  /\ q.retries = [r.retries EXCEPT ![r.current] = @ + 1]

Stops(r, q) == Repeats(r, q) /\ q.status = "Blocked"

\* An event belongs to the visit.
LEMMA EventVisit ==
  ASSUME NEW r \in RunType
  PROVE  Repeats(r, Event(r)) /\ Event(r).status = r.status
<1> DEFINE n == IF r.last = r.current THEN r.visits[r.current]
                ELSE r.visits[r.current] + 1
           v == [r.visits EXCEPT ![r.current] = n]
<1>1. r.current \in Steps /\ r.visits \in [Steps -> Nat]
  BY DEF RunType
<1>2. Event(r) = [r EXCEPT !.visits = v, !.last = r.current]
  BY DEF Event
<1>3. /\ v[r.current] = n
      /\ \A s \in Steps \ {r.current} : v[s] = r.visits[s]
      /\ \A s \in Steps : v[s] \in Nat
  BY <1>1
<1> HIDE DEF v
<1>4. /\ Event(r).visits = v /\ Event(r).last = r.current
      /\ Event(r).current = r.current /\ Event(r).status = r.status
      /\ Event(r).retries = r.retries /\ Event(r).failures = r.failures
      /\ Event(r).question = r.question
  BY <1>2 DEF RunType
<1>5. \A s \in Steps : Visits(Event(r), s) = Visits(r, s)
  <2> SUFFICES ASSUME NEW s \in Steps
               PROVE  Visits(Event(r), s) = Visits(r, s)
    OBVIOUS
  <2>1. Visits(Event(r), s) = v[s]
    BY <1>3, <1>4 DEF Visits
  <2>2. CASE s = r.current
    BY <1>1, <1>3, <2>1, <2>2 DEF Visits
  <2>3. CASE s # r.current
    BY <1>1, <1>3, <2>1, <2>3 DEF Visits
  <2>4. QED
    BY <2>2, <2>3
<1>6. QED
  BY <1>4, <1>5 DEF Repeats

\* Two steps in one visit are as one.
LEMMA RepeatsThen ==
  ASSUME NEW r \in RunType, NEW e \in RunType, NEW q, Repeats(r, e)
  PROVE  /\ Repeats(e, q) => Repeats(r, q)
         /\ Stops(e, q) => Stops(r, q)
         /\ Retries(e, q) => Retries(r, q)
         /\ Leaves(e, q) => Leaves(r, q)
         /\ q.current \in Steps /\ MovesOn(e, q) => MovesOn(r, q)
BY DEF Repeats, Stops, Retries, Leaves, MovesOn

\* A transition leaves the step with an event.
LEMMA TransitionVisit ==
  ASSUME NEW r \in RunType, NEW next \in Target
  PROVE  MovesOn(r, Transition(r, next))
<1> DEFINE left == [LeaveStep(r) EXCEPT !.active = None]
           e == Event(left)
           clear == [r.retries EXCEPT ![r.current] = 0]
           forgiven == [r.failures EXCEPT ![r.current] = 0]
<1>1. /\ clear \in [Steps -> Nat] /\ forgiven \in [Steps -> Nat]
      /\ r.current \in Steps /\ r.visits \in [Steps -> Nat]
  BY DEF RunType
<1> HIDE DEF clear, forgiven
<1>2. LeaveStep(r) = [r EXCEPT !.retries = clear, !.failures = forgiven,
                               !.block = FALSE, !.question = None]
  BY DEF LeaveStep, clear, forgiven
<1>3. /\ left \in RunType /\ left.current = r.current
      /\ left.retries = clear /\ left.failures = forgiven
      /\ left.question = None
      /\ left.visits = r.visits /\ left.last = r.last
  BY <1>1, <1>2 DEF RunType
<1> HIDE DEF left
<1>4. /\ e \in RunType /\ e.current = r.current /\ e.last = r.current
      /\ e.retries = clear /\ e.failures = forgiven /\ e.question = None
      /\ \A s \in Steps : Visits(e, s) = Visits(r, s)
  <2>1. e \in RunType /\ Repeats(left, e)
    BY <1>3, EventFacts, EventVisit
  <2>2. e.last = r.current
    BY <1>3 DEF Event, RunType
  <2>3. \A s \in Steps : Visits(left, s) = Visits(r, s)
    BY <1>3 DEF Visits
  <2> HIDE DEF e
  <2>4. QED
    BY <1>3, <2>1, <2>2, <2>3 DEF Repeats
<1>5. CASE next = None
  <2>1. Transition(r, next) = [e EXCEPT !.status = "Done"]
    BY <1>5 DEF Transition, left
  <2> HIDE DEF e
  <2>2. /\ Transition(r, next).question = None
        /\ Transition(r, next).retries = clear
        /\ Transition(r, next).failures = forgiven
        /\ Transition(r, next).status = "Done"
        /\ Transition(r, next).current = r.current
    BY <1>4, <2>1 DEF RunType
  <2>3. QED
    BY <2>2 DEF MovesOn, Leaves, clear, forgiven
<1>6. CASE next # None
  <2> DEFINE v == [e.visits EXCEPT ![next] = @ + 1]
             x == IF next = r.current THEN [e EXCEPT !.visits = v] ELSE e
  <2>1. next \in Steps
    BY <1>6 DEF Target
  <2>2. Transition(r, next) = [x EXCEPT !.current = next, !.status = "Ready"]
    BY <1>3, <1>6 DEF Transition, RouteEvent, left
  <2> HIDE DEF e
  <2>3. e.visits \in [Steps -> Nat]
    BY <1>4 DEF RunType
  <2>4. v \in [Steps -> Nat] /\ v[next] = e.visits[next] + 1
    BY <2>1, <2>3
  <2> HIDE DEF v
  <2>5. /\ x \in RunType /\ x.last = r.current /\ x.question = None
        /\ x.retries = clear /\ x.failures = forgiven
        /\ x.visits[next] = e.visits[next] + (IF next = r.current THEN 1 ELSE 0)
    BY <1>4, <2>1, <2>3, <2>4 DEF RunType
  <2> HIDE DEF x
  <2>6. /\ Transition(r, next).last = r.current
        /\ Transition(r, next).current = next
        /\ Transition(r, next).visits[next]
             = e.visits[next] + (IF next = r.current THEN 1 ELSE 0)
        /\ Transition(r, next).question = None
        /\ Transition(r, next).retries = clear
        /\ Transition(r, next).failures = forgiven
        /\ Transition(r, next).status = "Ready"
    BY <2>2, <2>5 DEF RunType
  <2>7. /\ Visits(Transition(r, next), next) = e.visits[next] + 1
        /\ Visits(r, next) = e.visits[next]
    <3>1. e.visits[next] \in Nat
      BY <2>1, <2>3
    <3>2. Visits(e, next) = e.visits[next]
      BY <1>4, <3>1 DEF Visits
    <3>3. Visits(Transition(r, next), next) = e.visits[next] + 1
      BY <2>6, <3>1 DEF Visits
    <3>4. QED
      BY <1>4, <2>1, <3>2, <3>3
  <2>8. Visits(Transition(r, next), next) # Visits(r, next)
    BY <2>1, <2>3, <2>7
  <2>9. QED
    BY <2>6, <2>8 DEF MovesOn, Leaves, clear, forgiven
<1>7. QED
  BY <1>5, <1>6

\* A stop belongs to the visit.
LEMMA StopVisit ==
  ASSUME NEW r \in RunType
  PROVE  Stops(r, StopOnBlock(r))
<1> DEFINE e == Event(r)
<1>1. e \in RunType /\ Repeats(r, e)
  BY EventFacts, EventVisit
<1>2. StopOnBlock(r) = [e EXCEPT !.status = "Blocked", !.block = TRUE]
  BY DEF StopOnBlock
<1> HIDE DEF e
<1>3. /\ StopOnBlock(r).visits = e.visits /\ StopOnBlock(r).last = e.last
      /\ StopOnBlock(r).current = e.current
      /\ StopOnBlock(r).retries = e.retries
      /\ StopOnBlock(r).failures = e.failures
      /\ StopOnBlock(r).question = e.question
      /\ StopOnBlock(r).status = "Blocked"
  BY <1>1, <1>2 DEF RunType
<1>4. QED
  BY <1>1, <1>3 DEF Stops, Repeats, Visits

\* A block retries within the limit, is routed away from, or stops.
LEMMA HandleBlockVisit ==
  ASSUME NEW r \in RunType, NEW kind \in BlockKinds
  PROVE  LET q == HandleBlock(r, kind)
         IN  \/ kind = "transient" /\ Retries(r, q)
             \/ kind # "transient" /\ MovesOn(r, q)
             \/ Stops(r, q)
<1> DEFINE e == Event(r)
           q == HandleBlock(r, kind)
           route == Flow[r.current].on_block[kind]
           n == [r.retries EXCEPT ![r.current] = @ + 1]
           counted == [e EXCEPT !.retries = n, !.block = TRUE,
                                !.status = "Ready"]
           again == kind = "transient" /\ r.retries[r.current] < TransientRetries
           routes == kind # "transient" /\ route # None
<1>1. e \in RunType /\ Repeats(r, e)
  BY EventFacts, EventVisit
<1>2. route \in Target
  <2>1. r.current \in Steps
    BY DEF RunType
  <2>2. Flow[r.current] \in StepType
    BY <2>1, FlowAssumption
  <2>3. QED
    BY <2>2 DEF StepType
<1>3. q = CASE again -> Event(counted)
            [] routes -> Transition(e, route)
            [] OTHER -> StopOnBlock(e)
  BY <1>1 DEF HandleBlock, Repeats
<1>4. HandleBlock(r, kind) \in RunType
  BY HandleBlockFacts
<1> HIDE DEF e, route, routes, q
<1>5. CASE again
  <2>1. n \in [Steps -> Nat]
    BY DEF RunType
  <2> HIDE DEF n
  <2>2. /\ counted \in RunType /\ counted.retries = n
        /\ counted.status = "Ready" /\ counted.current = e.current
        /\ counted.failures = e.failures /\ counted.question = e.question
    BY <1>1, <2>1 DEF RunType, Statuses
  <2> HIDE DEF counted
  <2>3. Repeats(counted, Event(counted)) /\ Event(counted).status = "Ready"
    BY <2>2, EventVisit
  <2>4. q = Event(counted)
    BY <1>3, <1>5 DEF routes
  <2>5. Retries(r, q)
    BY <1>1, <1>5, <2>2, <2>3, <2>4 DEF Retries, Repeats, n
  <2>6. QED
    BY <1>5, <2>5 DEF q
<1>6. CASE routes /\ ~again
  <2>1. q = Transition(e, route)
    BY <1>3, <1>6
  <2>2. MovesOn(e, q)
    BY <1>1, <1>2, <2>1, TransitionVisit
  <2>3. q.current \in Steps
    BY <1>4 DEF RunType, q
  <2>4. MovesOn(r, q)
    BY <1>1, <2>2, <2>3, RepeatsThen
  <2>5. QED
    BY <1>6, <2>4 DEF q, routes
<1>7. CASE ~again /\ ~routes
  <2>1. q = StopOnBlock(e)
    BY <1>3, <1>7
  <2>2. Stops(r, q)
    BY <1>1, <2>1, StopVisit, RepeatsThen
  <2>3. QED
    BY <2>2 DEF q
<1>8. QED
  BY <1>5, <1>6, <1>7

\* q has stopped for the answer to a question of the attempt.
Asks(r, attempt, q) ==
  /\ q.current = r.current /\ q.status = "Blocked"
  /\ q.retries = r.retries /\ q.failures = r.failures
  /\ q.question = [step |-> r.current, request |-> attempt.number,
                   answered |-> FALSE]

\* A check of q's step has failed, for the first time in its visit or not.
FailsCheck(r, q) ==
  /\ q.current = r.current /\ q.question = r.question
  /\ q.retries = r.retries
  /\ q.failures = [r.failures EXCEPT ![r.current] = @ + 1]
  /\ \/ q.status = "Ready" /\ r.failures[r.current] = 0
     \/ q.status = "Blocked"

\* The owner has the step of r tried again.
Restarts(r, q) ==
  /\ q.current = r.current /\ q.status = "Ready"
  /\ q.retries = [r.retries EXCEPT ![r.current] = 0]
  /\ q.failures = [r.failures EXCEPT ![r.current] = 0]
  /\ q.question = IF r.question # None /\ ~r.question.answered THEN None
                  ELSE r.question

Answers(r, q) ==
  /\ q.current = r.current /\ q.status = "Ready"
  /\ q.retries = r.retries /\ q.failures = r.failures
  /\ q.question = [r.question EXCEPT !.answered = TRUE]

\* A worker's block takes the way of any block, or asks the owner.
LEMMA WorkerBlockedVisit ==
  ASSUME NEW r \in RunType, NEW attempt \in Attempts,
         NEW kind \in BlockKinds, NEW asks \in BOOLEAN
  PROVE  LET q == WorkerBlocked(r, attempt, kind, asks)
         IN  \/ Retries(r, q) \/ MovesOn(r, q) \/ Stops(r, q)
             \/ Asks(r, attempt, q)
<1> DEFINE q == WorkerBlocked(r, attempt, kind, asks)
           new == [step |-> r.current, request |-> attempt.number,
                   answered |-> FALSE]
           asked == [r EXCEPT !.question = new]
           put == kind = "owner_question" \/ (kind # "transient" /\ asks)
<1>1. q = HandleBlock(IF put THEN asked ELSE r, kind)
  BY DEF WorkerBlocked
<1>2. new \in Questions
  BY DEF RunType, Questions, Attempts
<1> HIDE DEF new, q
<1>3. /\ asked \in RunType /\ asked.current = r.current
      /\ asked.retries = r.retries /\ asked.failures = r.failures
      /\ asked.question = new
      /\ \A s \in Steps : Visits(asked, s) = Visits(r, s)
  BY <1>2 DEF RunType, Visits
<1> HIDE DEF asked
<1>4. CASE ~put
  BY <1>1, <1>4, HandleBlockVisit DEF q
<1>5. CASE put
  <2>1. q = HandleBlock(asked, kind) /\ kind # "transient"
    BY <1>1, <1>5
  <2>2. MovesOn(asked, q) \/ Stops(asked, q)
    BY <1>3, <2>1, HandleBlockVisit
  <2>3. q.current \in Steps
    BY <1>3, <2>1, HandleBlockFacts DEF RunType
  <2>4. CASE MovesOn(asked, q)
    BY <1>3, <2>3, <2>4 DEF MovesOn, Leaves, q
  <2>5. CASE Stops(asked, q)
    BY <1>3, <2>5 DEF Stops, Repeats, Asks, q, new
  <2>6. QED
    BY <2>2, <2>4, <2>5
<1>6. QED
  BY <1>4, <1>5

\* A failed check is counted, unless it counts as a retry.
LEMMA CheckFailedVisit ==
  ASSUME NEW r \in RunType, NEW kind \in BlockKinds
  PROVE  LET q == CheckFailed(r, kind)
         IN  Retries(r, q) \/ Stops(r, q) \/ FailsCheck(r, q)
<1> DEFINE n == [r.failures EXCEPT ![r.current] = @ + 1]
           counted == [r EXCEPT !.failures = n]
           again == [counted EXCEPT !.status = "Ready", !.block = TRUE]
           q == CheckFailed(r, kind)
<1>1. q = CASE kind = "transient" -> HandleBlock(r, kind)
            [] kind = "unknown" /\ r.failures[r.current] = 0 -> Event(again)
            [] OTHER -> StopOnBlock(counted)
  BY DEF CheckFailed
<1>2. n \in [Steps -> Nat]
  BY DEF RunType
<1> HIDE DEF n, q
<1>3. /\ counted \in RunType /\ counted.current = r.current
      /\ counted.retries = r.retries /\ counted.failures = n
      /\ counted.question = r.question
  BY <1>2 DEF RunType
<1> HIDE DEF counted
<1>4. /\ again \in RunType /\ again.current = r.current
      /\ again.retries = r.retries /\ again.failures = n
      /\ again.question = r.question /\ again.status = "Ready"
  BY <1>3 DEF RunType, Statuses
<1> HIDE DEF again
<1>5. CASE kind = "transient"
  BY <1>1, <1>5, HandleBlockVisit DEF q
<1>6. CASE kind = "unknown" /\ r.failures[r.current] = 0
  <2>1. q = Event(again)
    BY <1>1, <1>6
  <2>2. FailsCheck(r, q)
    BY <1>4, <1>6, <2>1, EventVisit DEF FailsCheck, Repeats, n
  <2>3. QED
    BY <2>2 DEF q
<1>7. CASE kind # "transient" /\ ~(kind = "unknown" /\ r.failures[r.current] = 0)
  <2>1. q = StopOnBlock(counted)
    BY <1>1, <1>7
  <2>2. FailsCheck(r, q)
    BY <1>3, <2>1, StopVisit DEF FailsCheck, Stops, Repeats, n
  <2>3. QED
    BY <2>2 DEF q
<1>8. QED
  BY <1>5, <1>6, <1>7

\* The completion of a step is logged in its visit.
LEMMA StepDoneVisit ==
  ASSUME NEW r \in RunType, NEW attempt \in Attempts
  PROVE  LET q == StepDone(r, attempt)
         IN  /\ q \in RunType /\ Repeats(r, q)
             /\ q.accepted = [r.accepted EXCEPT ![r.current] = attempt]
<1> DEFINE tag == Flow[r.current].tag
           tagged == [r EXCEPT !.evidence[tag] = @ + 1]
           frozen == IF tag = None THEN r ELSE Event(tagged)
           done == Event(frozen)
           a == [done.accepted EXCEPT ![r.current] = attempt]
           q == StepDone(r, attempt)
<1>1. tag \in Tags \cup {None}
  BY FlowAssumption DEF RunType, StepType
<1>2. tag # None => [r.evidence EXCEPT ![tag] = @ + 1] \in [Tags -> Nat]
  BY <1>1 DEF RunType
<1> HIDE DEF tag
<1>3. tag # None => /\ tagged \in RunType /\ Repeats(r, tagged)
                    /\ tagged.accepted = r.accepted
  BY <1>2 DEF RunType, Repeats, Visits
<1> HIDE DEF tagged
<1>4. r \in RunType /\ Repeats(r, r)
  BY DEF Repeats
<1>5. /\ frozen \in RunType /\ Repeats(r, frozen)
      /\ frozen.accepted = r.accepted
  <2>1. CASE tag = None
    BY <1>4, <2>1
  <2>2. CASE tag # None
    BY <1>3, <2>2, EventFacts, EventVisit, RepeatsThen DEF SameRecord
  <2>3. QED
    BY <2>1, <2>2
<1> HIDE DEF frozen
<1>6. /\ done \in RunType /\ Repeats(r, done) /\ done.accepted = r.accepted
  BY <1>5, EventFacts, EventVisit, RepeatsThen DEF SameRecord
<1>7. q = [done EXCEPT !.accepted = a]
  BY DEF StepDone, done, frozen, tagged, tag
<1> HIDE DEF done, q
<1>8. a \in [Steps -> Attempts \cup {None}]
  BY <1>6 DEF RunType
<1>9. a = [r.accepted EXCEPT ![r.current] = attempt]
  BY <1>6
<1> HIDE DEF a
<1>10. /\ q \in RunType /\ q.accepted = a /\ q.current = done.current
       /\ q.retries = done.retries /\ q.failures = done.failures
       /\ q.question = done.question
       /\ q.visits = done.visits /\ q.last = done.last
  BY <1>6, <1>7, <1>8 DEF RunType
<1>11. QED
  BY <1>6, <1>9, <1>10 DEF Repeats, Visits, q

\* An accepted result moves on, unless it is the last allowed round.
LEMMA AcceptResultVisit ==
  ASSUME NEW r \in RunType, NEW attempt \in Attempts,
         NEW verdict \in Verdicts \cup {None}
  PROVE  LET q == AcceptResult(r, attempt, verdict)
         IN  /\ MovesOn(r, q) \/ Stops(r, q)
             /\ q.accepted = [r.accepted EXCEPT ![r.current] = attempt]
<1> DEFINE done == StepDone(r, attempt)
           step == Flow[r.current]
           routed == verdict # None /\ step.on_verdict[verdict] # None
           route == IF routed THEN step.on_verdict[verdict] ELSE step.next
           limit == /\ verdict = "changes_needed"
                    /\ step.max_rounds # 0
                    /\ Visits(done, r.current) >= step.max_rounds
           q == AcceptResult(r, attempt, verdict)
<1>1. step \in StepType
  BY FlowAssumption DEF RunType
<1>2. route \in Target
  <2>1. step.next \in Target
    BY <1>1 DEF StepType
  <2>2. verdict # None => step.on_verdict[verdict] \in Target
    BY <1>1 DEF StepType
  <2> HIDE DEF step
  <2>3. QED
    BY <2>1, <2>2
<1>3. q = IF limit THEN StopOnBlock(done) ELSE Transition(done, route)
  BY DEF AcceptResult
<1> HIDE DEF done, route, limit, q
<1>4. /\ done \in RunType /\ Repeats(r, done)
      /\ done.accepted = [r.accepted EXCEPT ![r.current] = attempt]
  BY StepDoneVisit DEF done
<1>5. q \in RunType /\ q.accepted = done.accepted
  BY <1>2, <1>3, <1>4, StopOnBlockFacts, TransitionFacts DEF SameRecord
<1>6. q.current \in Steps
  BY <1>5 DEF RunType
<1>7. MovesOn(r, q) \/ Stops(r, q)
  BY <1>2, <1>3, <1>4, <1>6, StopVisit, TransitionVisit, RepeatsThen
<1>8. QED
  BY <1>4, <1>5, <1>7 DEF q

\* The owner's controls.
LEMMA ControlVisits ==
  ASSUME NEW r \in RunType
  PROVE  /\ Restarts(r, RetryStep(r))
         /\ MovesOn(r, OverrideStep(r))
         /\ Leaves(r, ApproveGate(r))
         /\ Stops(r, CancelRun(r)) /\ Stops(r, ReopenRun(r))
         /\ r.question # None => Answers(r, AnswerQuestion(r))
<1>1. Restarts(r, RetryStep(r))
  <2> DEFINE q == IF r.question # None /\ ~r.question.answered THEN None
                  ELSE r.question
             n == [r.retries EXCEPT ![r.current] = 0]
             f == [r.failures EXCEPT ![r.current] = 0]
             x == [r EXCEPT !.retries = n, !.failures = f, !.question = q,
                            !.block = FALSE, !.status = "Ready"]
  <2>1. q \in Questions \cup {None}
    BY DEF RunType
  <2>2. n \in [Steps -> Nat] /\ f \in [Steps -> Nat]
    BY DEF RunType
  <2>3. RetryStep(r) = Event(x)
    BY DEF RetryStep
  <2> HIDE DEF q, n, f
  <2>4. /\ x \in RunType /\ x.current = r.current /\ x.status = "Ready"
        /\ x.retries = n /\ x.failures = f /\ x.question = q
    BY <2>1, <2>2 DEF RunType, Statuses
  <2> HIDE DEF x
  <2>5. QED
    BY <2>3, <2>4, EventVisit DEF Repeats, Restarts, q, n, f
<1>2. MovesOn(r, OverrideStep(r))
  <2>1. Flow[r.current].next \in Target
    BY FlowAssumption DEF RunType, StepType
  <2>2. OverrideStep(r).current \in Steps
    BY OverrideStepFacts DEF RunType
  <2>3. Event(r) \in RunType /\ Repeats(r, Event(r))
    BY EventFacts, EventVisit
  <2>4. MovesOn(Event(r), OverrideStep(r))
    BY <2>1, <2>3, TransitionVisit DEF OverrideStep
  <2>5. QED
    BY <2>2, <2>3, <2>4, RepeatsThen
<1>3. Leaves(r, ApproveGate(r))
  <2> DEFINE e == Event(r)
             n == [e.retries EXCEPT ![e.current] = 0]
             f == [e.failures EXCEPT ![e.current] = 0]
             left == [e EXCEPT !.retries = n, !.failures = f,
                               !.block = FALSE, !.question = None]
             next == Flow[r.current].next
  <2>1. e \in RunType /\ Repeats(r, e)
    BY EventFacts, EventVisit
  <2>2. LeaveStep(e) = left
    BY DEF LeaveStep
  <2>3. ApproveGate(r) = IF next = None THEN [left EXCEPT !.status = "Done"]
                         ELSE [left EXCEPT !.current = next, !.status = "Ready"]
    BY <2>2 DEF ApproveGate
  <2> HIDE DEF e, next
  <2>4. /\ n = [r.retries EXCEPT ![r.current] = 0]
        /\ f = [r.failures EXCEPT ![r.current] = 0]
        /\ n \in [Steps -> Nat] /\ f \in [Steps -> Nat]
    BY <2>1 DEF Repeats, RunType
  <2> HIDE DEF n, f
  <2>5. /\ left \in RunType /\ left.retries = n /\ left.failures = f
        /\ left.question = None /\ left.current = r.current
    BY <2>1, <2>4 DEF RunType, Repeats
  <2> HIDE DEF left
  <2>6. QED
    BY <2>3, <2>4, <2>5 DEF Leaves, RunType
<1>4. Stops(r, CancelRun(r)) /\ Stops(r, ReopenRun(r))
  <2> DEFINE held == r.active # None
             c == [r EXCEPT !.cancelled = TRUE, !.block = TRUE,
                            !.status = "Blocked", !.unsettled = held]
             o == [r EXCEPT !.cancelled = FALSE, !.status = "Blocked",
                            !.block = TRUE]
  <2>1. CancelRun(r) = Event(c) /\ ReopenRun(r) = Event(o)
    BY DEF CancelRun, ReopenRun
  <2>2. held \in BOOLEAN
    OBVIOUS
  <2> HIDE DEF held
  <2>3. /\ c \in RunType /\ Repeats(r, c) /\ c.status = "Blocked"
        /\ o \in RunType /\ Repeats(r, o) /\ o.status = "Blocked"
    BY <2>2 DEF RunType, Statuses, Repeats, Visits
  <2> HIDE DEF c, o
  <2>4. QED
    BY <2>1, <2>3, EventVisit, RepeatsThen DEF Stops
<1>5. ASSUME r.question # None
      PROVE  Answers(r, AnswerQuestion(r))
  <2> DEFINE q == [r.question EXCEPT !.answered = TRUE]
             x == [r EXCEPT !.question = q, !.status = "Ready",
                            !.block = FALSE]
  <2>1. q \in Questions
    BY <1>5 DEF RunType, Questions
  <2>2. AnswerQuestion(r) = Event(x)
    BY DEF AnswerQuestion
  <2> HIDE DEF q
  <2>3. /\ x \in RunType /\ x.current = r.current /\ x.status = "Ready"
        /\ x.retries = r.retries /\ x.failures = r.failures
        /\ x.question = q
    BY <2>1 DEF RunType, Statuses
  <2> HIDE DEF x
  <2>4. QED
    BY <2>2, <2>3, EventVisit DEF Repeats, Answers, q
<1>6. QED
  BY <1>1, <1>2, <1>3, <1>4, <1>5
=============================================================================
