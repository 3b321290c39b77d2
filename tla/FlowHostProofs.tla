--------------------------- MODULE FlowHostProofs ---------------------------
(***************************************************************************)
(* Proofs about FlowHost for every workflow, any bots and any number of    *)
(* crashes: what is saved is a run advance accepts, controls are not       *)
(* overwritten, a bot executes one attempt at a time; and about what its   *)
(* workers are given (TaskInputs, at the end).                             *)
(*                                                                         *)
(* A tick or a control either rewrites the run without its worker or       *)
(* leaves worker and step as they are (Follows), and only a launch gives   *)
(* it one.  So the run in memory is whole at every iteration, and it may   *)
(* be saved, or forgotten for the one saved before, at any of them.        *)
(***************************************************************************)
EXTENDS FlowHost, FlowRunProofs, Sequences, FiniteSetTheorems, WellFoundedInduction

\* A run advance accepts, as the host has it in memory or on disk.
Whole(r) ==
  /\ r.status = "Running" => r.active # None /\ ~r.unsettled
  /\ r.unsettled => r.active # None /\ r.status = "Blocked"
  /\ r.active # None =>
       r.active.step = r.current /\ (r.status = "Running" \/ r.unsettled)
  /\ r.cancelled => r.status = "Blocked"

\* The attempt a run holds on to has its launch reserved.
Held(r) == r.active # None => Handle(r.active) \in launched

SameControls(r, q) == q.cancelled = r.cancelled /\ q.paused = r.paused

\* No two attempts of a bot execute, or may be executing.
OneWorkerPerBot ==
  \A a, b \in live \cup stranded : BotOf[a[1]] = BotOf[b[1]] => a = b

\* The inductive invariant.  A tick changes no control, so that what it
\* saves has those saved before.
HostInv ==
  /\ HostTypeOK /\ OneWorkerPerBot
  /\ Whole(mem) /\ Whole(disk) /\ Held(mem) /\ Held(disk)
  /\ SameControls(disk, mem)

\* The run goes on without a worker, or keeps its worker at its step.
Follows ==
  /\ mem' \in RunType
  /\ \/ /\ mem'.active = None /\ ~mem'.unsettled
        /\ mem'.status \in {"Ready", "Gate", "Blocked", "Done"}
     \/ /\ mem'.active = mem.active /\ mem'.current = mem.current
        /\ \/ mem'.status = mem.status /\ mem'.unsettled = mem.unsettled
           \/ mem'.status = "Blocked" /\ (mem'.unsettled <=> mem.active # None)
  /\ mem'.cancelled => mem'.status = "Blocked"

\* What a step of the hub does to the world beside the run.
WorldFollows ==
  /\ live' \subseteq live
  /\ overdue' \in BOOLEAN /\ merged' \in BOOLEAN
  /\ replies' \subseteq H!Requests
-----------------------------------------------------------------------------
(* Hub takes the operators of FlowRun from an instance of its own.         *)

LEMMA SameLog ==
  /\ \A r : H!Event(r) = Event(r)
  /\ \A r, next : H!RouteEvent(r, next) = RouteEvent(r, next)
  /\ \A r : H!LeaveStep(r) = LeaveStep(r)
  /\ \A r, s : H!Visits(r, s) = Visits(r, s)
BY DEF H!Event, Event, H!RouteEvent, RouteEvent, H!LeaveStep, LeaveStep,
       H!Visits, Visits

LEMMA SameRouting ==
  /\ \A r, next : H!Transition(r, next) = Transition(r, next)
  /\ \A r : H!StopOnBlock(r) = StopOnBlock(r)
  /\ \A r, kind : H!HandleBlock(r, kind) = HandleBlock(r, kind)
<1>1. /\ \A r, next : H!Transition(r, next) = Transition(r, next)
      /\ \A r : H!StopOnBlock(r) = StopOnBlock(r)
  BY SameLog DEF H!Transition, Transition, H!StopOnBlock, StopOnBlock
<1>2. \A r, kind : H!HandleBlock(r, kind) = HandleBlock(r, kind)
  BY <1>1, SameLog DEF H!HandleBlock, HandleBlock
<1>3. QED
  BY <1>1, <1>2

LEMMA SameAnswers ==
  /\ \A r, attempt, kind, asks :
       H!WorkerBlocked(r, attempt, kind, asks)
         = WorkerBlocked(r, attempt, kind, asks)
  /\ \A r, kind : H!CheckFailed(r, kind) = CheckFailed(r, kind)
  /\ \A r, attempt, verdict :
       H!AcceptResult(r, attempt, verdict) = AcceptResult(r, attempt, verdict)
<1>1. /\ \A r, attempt, kind, asks :
           H!WorkerBlocked(r, attempt, kind, asks)
             = WorkerBlocked(r, attempt, kind, asks)
      /\ \A r, kind : H!CheckFailed(r, kind) = CheckFailed(r, kind)
  BY SameLog, SameRouting
  DEF H!WorkerBlocked, WorkerBlocked, H!CheckFailed, CheckFailed
<1>2. \A r, attempt : H!StepDone(r, attempt) = StepDone(r, attempt)
  BY SameLog DEF H!StepDone, StepDone
<1>3. \A r, attempt, verdict :
        H!AcceptResult(r, attempt, verdict) = AcceptResult(r, attempt, verdict)
  BY <1>2, SameLog, SameRouting DEF H!AcceptResult, AcceptResult
<1>4. QED
  BY <1>1, <1>3

LEMMA SameControl ==
  /\ \A r : H!RetryStep(r) = RetryStep(r)
  /\ \A r : H!OverrideStep(r) = OverrideStep(r)
  /\ \A r : H!AnswerQuestion(r) = AnswerQuestion(r)
  /\ \A r : H!ApproveGate(r) = ApproveGate(r)
  /\ \A r : H!CancelRun(r) = CancelRun(r)
  /\ \A r : H!ReopenRun(r) = ReopenRun(r)
  /\ \A r : H!OpenQuestion(r) = OpenQuestion(r)
  /\ \A r : H!Handle(r) = Handle(r)
BY SameLog, SameRouting
DEF H!RetryStep, RetryStep, H!OverrideStep, OverrideStep,
    H!AnswerQuestion, AnswerQuestion, H!ApproveGate, ApproveGate,
    H!CancelRun, CancelRun, H!ReopenRun, ReopenRun, H!OpenQuestion,
    OpenQuestion, H!Handle, Handle
-----------------------------------------------------------------------------
(* The iterations of advance, and the controls. *)

\* A run that follows its predecessor is whole, and its launch is reserved.
LEMMA FollowsWhole ==
  ASSUME Whole(mem), Held(mem), Follows
  PROVE  /\ Whole(mem')
         /\ mem'.active # None => Handle(mem'.active) \in launched
BY DEF Whole, Held, Follows

\* A run rewritten without its worker follows.
LEMMA IdleFollows ==
  ASSUME NEW q \in RunType, Idle(q), ~q.cancelled
  PROVE  mem' = q => Follows
BY DEF Follows, Idle

\* Letting go of the worker of a blocked run.
LEMMA LetGoFacts ==
  ASSUME NEW q \in RunType, q.status = "Blocked"
  PROVE  /\ H!LetGo(q) \in RunType /\ SameRecord(q, H!LetGo(q))
         /\ Idle(H!LetGo(q)) /\ H!LetGo(q).status = "Blocked"
<1> DEFINE r == [q EXCEPT !.active = None, !.unsettled = FALSE]
<1>1. /\ r \in RunType /\ SameRecord(q, r) /\ r.status = "Blocked"
      /\ r.active = None /\ ~r.unsettled
  BY DEF RunType, SameRecord
<1>2. H!LetGo(q) = Event(r)
  BY SameLog DEF H!LetGo
<1> HIDE DEF r
<1>3. QED
  BY <1>1, <1>2, EventFacts DEF SameRecord, Idle

\* Settlement, and the owner's answer in the tracker.
LEMMA BlockedFollows ==
  ASSUME mem \in RunType, Whole(mem),
         H!SettleCancelled \/ H!ObserveSettled \/ H!ApplyAnswer
  PROVE  Follows /\ SameControls(mem, mem')
<1>1. CASE H!SettleCancelled \/ H!ObserveSettled
  <2>1. mem.status = "Blocked" /\ mem' = H!LetGo(mem)
    BY <1>1 DEF H!SettleCancelled, H!ObserveSettled, Whole
  <2>2. QED
    BY <2>1, LetGoFacts DEF Follows, Idle, SameRecord, SameControls
<1>2. CASE H!ApplyAnswer
  <2>1. /\ mem.status = "Blocked" /\ ~mem.unsettled /\ ~mem.cancelled
        /\ mem.question # None /\ mem' = AnswerQuestion(mem)
    BY <1>2, SameControl DEF H!ApplyAnswer, H!MayAsk, H!Hosted, OpenQuestion
  <2>2. mem.active = None
    BY <2>1 DEF Whole
  <2>3. QED
    BY <2>1, <2>2, AnswerQuestionFacts
    DEF Follows, SameRecord, SameControls
<1>3. QED
  BY <1>1, <1>2

\* A worker whose outcome is in doubt stays with the run.
LEMMA DoubtFollows ==
  ASSUME NEW e \in RunType, mem.active # None, ~mem.cancelled,
         SameRecord(mem, e), e.current = mem.current, e.active = mem.active
  PROVE  LET late == [e EXCEPT !.unsettled = TRUE, !.status = "Blocked",
                               !.block = TRUE]
         IN  /\ late \in RunType /\ SameRecord(mem, late)
             /\ mem' = late => Follows
BY DEF RunType, SameRecord, Statuses, Follows

\* The deadline, and an error of poll.
LEMMA DoubtsFollow ==
  ASSUME mem \in RunType, Whole(mem), H!TimeOut \/ H!LoseTrack
  PROVE  Follows /\ SameControls(mem, mem')
<1>1. /\ mem.status = "Running" /\ ~mem.cancelled /\ mem.active # None
      /\ mem.active \in Attempts
  BY DEF H!TimeOut, H!LoseTrack, H!Observed, H!Hosted, Whole, RunType
<1>2. CASE H!TimeOut
  <2> DEFINE e == Event(mem)
             late == [e EXCEPT !.unsettled = TRUE, !.status = "Blocked",
                               !.block = TRUE]
             gone == [late EXCEPT !.unsettled = FALSE, !.active = None]
  <2>1. mem' = HandleBlock(gone, "transient") \/ mem' = late
    BY <1>2, SameLog, SameRouting DEF H!TimeOut
  <2>2. /\ e \in RunType /\ SameRecord(mem, e) /\ e.current = mem.current
        /\ e.active = mem.active
    BY EventFacts
  <2> HIDE DEF e
  <2>3. CASE mem' = late
    BY <1>1, <2>2, <2>3, DoubtFollows DEF SameRecord, SameControls
  <2>4. CASE mem' = HandleBlock(gone, "transient")
    <3>1. /\ gone \in RunType /\ SameRecord(e, gone)
          /\ gone.active = None /\ ~gone.unsettled
      BY <2>2 DEF RunType, SameRecord, Statuses
    <3> HIDE DEF gone
    <3>2. "transient" \in BlockKinds
      BY DEF BlockKinds
    <3>3. mem' \in RunType /\ SameRecord(gone, mem') /\ Idle(mem')
      BY <2>4, <3>1, <3>2, HandleBlockFacts DEF Idle
    <3>4. QED
      BY <1>1, <2>2, <3>1, <3>3, IdleFollows DEF SameRecord, SameControls
  <2>5. QED
    BY <2>1, <2>3, <2>4
<1>3. CASE H!LoseTrack
  <2> DEFINE r == [mem EXCEPT !.unsettled = TRUE, !.status = "Blocked",
                              !.block = TRUE]
  <2>1. mem' = Event(r)
    BY <1>3, SameLog DEF H!LoseTrack
  <2>2. /\ r \in RunType /\ SameRecord(mem, r) /\ r.current = mem.current
        /\ r.active = mem.active /\ r.unsettled /\ r.status = "Blocked"
    BY DEF RunType, SameRecord, Statuses
  <2> HIDE DEF r
  <2>3. QED
    BY <1>1, <2>1, <2>2, EventFacts DEF Follows, SameRecord, SameControls
<1>4. QED
  BY <1>2, <1>3

\* The run, once its worker has ended and its result is collected.
LEMMA HostCollected ==
  ASSUME mem \in RunType, Whole(mem), H!Finished
  PROVE  /\ H!Collected \in RunType /\ SameRecord(mem, H!Collected)
         /\ H!Collected.active = None /\ ~H!Collected.unsettled
         /\ mem.active \in Attempts /\ ~mem.cancelled
BY DEF H!Finished, H!Observed, H!Hosted, H!Collected, Whole, RunType,
       SameRecord

\* Whatever a finished worker left, the run goes on without it.
LEMMA FinishedFollows ==
  ASSUME mem \in RunType, Whole(mem),
         \/ H!ProcessFailed \/ H!InvalidResult \/ H!ResultBlocks
         \/ H!ChecksFail \/ H!EvidenceFails \/ H!ResultAccepted
         \/ EvidenceConflict \/ EvidenceTorn
  PROVE  Follows /\ SameControls(mem, mem')
<1> DEFINE attempt == mem.active
           r == H!Collected
           Result(q) == q \in RunType /\ SameRecord(r, q) /\ Idle(q)
<1>1. H!Finished
  BY DEF H!ProcessFailed, H!InvalidResult, H!ResultBlocks, H!ChecksFail,
         H!EvidenceFails, H!ResultAccepted, EvidenceConflict, EvidenceTorn
<1>2. /\ r \in RunType /\ SameRecord(mem, r)
      /\ r.active = None /\ ~r.unsettled
      /\ attempt \in Attempts /\ ~mem.cancelled
  BY <1>1, HostCollected
<1>3. /\ "transient" \in BlockKinds /\ "unknown" \in BlockKinds
      /\ AdapterKinds \subseteq BlockKinds /\ WorkerKinds \subseteq BlockKinds
  BY HostAssumption DEF BlockKinds
<1> HIDE DEF r, attempt
<1>4. \A kind \in BlockKinds : Result(HandleBlock(r, kind))
  BY <1>2, HandleBlockFacts DEF Idle
<1>5. Result(mem') => Follows /\ SameControls(mem, mem')
  BY <1>2, IdleFollows DEF SameRecord, SameControls
<1>6. CASE \E kind \in BlockKinds : mem' = HandleBlock(r, kind)
  BY <1>4, <1>5, <1>6
<1>7. CASE H!ResultBlocks
  <2>1. PICK kind \in WorkerKinds, asks \in BOOLEAN :
          mem' = WorkerBlocked(r, attempt, kind, asks)
    BY <1>7, SameAnswers DEF H!ResultBlocks, r, attempt
  <2>2. QED
    BY <1>2, <1>3, <1>5, <2>1, WorkerBlockedFacts
<1>8. CASE H!ChecksFail
  <2>1. PICK kind \in AdapterKinds \cup {"unknown"} :
          mem' = CheckFailed(r, kind)
    BY <1>8, SameAnswers DEF H!ChecksFail, r
  <2>2. QED
    BY <1>2, <1>3, <1>5, <2>1, CheckFailedFacts
<1>9. CASE H!ResultAccepted
  <2>1. PICK verdict \in Verdicts \cup {None} :
          mem' = AcceptResult(r, attempt, verdict)
    BY <1>9, SameAnswers
    DEF H!ResultAccepted, H!Verdicts, Verdicts, r, attempt
  <2>2. mem' \in RunType /\ SameCounters(r, mem') /\ Idle(mem')
    BY <1>2, <2>1, AcceptResultFacts
  <2>3. QED
    BY <1>2, <2>2, IdleFollows DEF SameCounters, SameRecord, SameControls
<1>10. \/ \E kind \in BlockKinds : mem' = HandleBlock(r, kind)
       \/ H!ResultBlocks \/ H!ChecksFail \/ H!ResultAccepted
  BY <1>3, SameRouting DEF H!ProcessFailed, H!InvalidResult, H!EvidenceFails,
              EvidenceConflict, EvidenceTorn, r
<1>11. QED
  BY <1>6, <1>7, <1>8, <1>9, <1>10

\* A gate passed, or not read.
LEMMA GateFollows ==
  ASSUME mem \in RunType, Whole(mem), H!GatePasses \/ H!GateFails
  PROVE  Follows /\ SameControls(mem, mem')
<1>1. /\ mem.status = "Gate" /\ ~mem.cancelled
      /\ \/ mem' = Transition(Event(mem), H!Step.next)
         \/ \E kind \in BlockKinds : mem' = HandleBlock(mem, kind)
  BY HostAssumption, SameLog, SameRouting
  DEF H!GatePasses, H!GateFails, H!AtGate, H!Hosted, BlockKinds
<1>2. mem.active = None /\ ~mem.unsettled
  BY <1>1 DEF Whole
<1>3. H!Step.next \in Target
  BY FlowAssumption DEF RunType, StepType, H!Step
<1>4. mem' \in RunType /\ SameRecord(mem, mem') /\ Idle(mem')
  <2>1. CASE mem' = Transition(Event(mem), H!Step.next)
    BY <1>2, <1>3, <2>1, EventFacts, TransitionFacts DEF SameRecord, Idle
  <2>2. CASE \E kind \in BlockKinds : mem' = HandleBlock(mem, kind)
    BY <1>2, <2>2, HandleBlockFacts DEF Idle
  <2>3. QED
    BY <1>1, <2>1, <2>2
<1>5. QED
  BY <1>1, <1>4, IdleFollows DEF SameRecord, SameControls

\* The run whose next start is counted.
LEMMA HostCounted ==
  ASSUME mem \in RunType
  PROVE  /\ H!Counted \in RunType /\ SameControls(mem, H!Counted)
         /\ H!Counted.active = mem.active
         /\ H!Counted.unsettled = mem.unsettled
         /\ H!Counted.status = mem.status
         /\ H!Counted.current = mem.current
<1> DEFINE n == [mem.runs EXCEPT ![mem.current] = @ + 1]
<1>1. n \in [Steps -> Nat]
  BY DEF RunType
<1> HIDE DEF n
<1>2. H!Counted = [mem EXCEPT !.runs = n]
  BY DEF H!Counted, n
<1>3. QED
  BY <1>1, <1>2 DEF RunType, SameControls

\* A ready run that is not given a worker.
LEMMA ReadyFollows ==
  ASSUME mem \in RunType,
         \/ H!OpenGate \/ H!LimitReached \/ H!OpenPr \/ H!FamilyRefused
         \/ H!StartFails
  PROVE  Follows /\ SameControls(mem, mem')
<1> DEFINE opened == [H!Counted EXCEPT !.pr = TRUE]
<1>1. /\ ~mem.cancelled /\ mem.active = None /\ ~mem.unsettled
      /\ mem.status = "Ready"
  BY DEF H!OpenGate, H!LimitReached, H!OpenPr, H!FamilyRefused, H!StartFails,
         H!IsBotReady, H!IsReady, H!Hosted
<1>2. CASE H!OpenGate
  <2> DEFINE n == [mem.requests EXCEPT ![mem.current] = @ + 1]
             r == [mem EXCEPT !.requests = n, !.status = "Gate"]
  <2>1. mem' = Event(r)
    BY <1>2, SameLog DEF H!OpenGate
  <2>2. n \in [Steps -> Nat]
    BY DEF RunType
  <2> HIDE DEF n
  <2>3. /\ r \in RunType /\ r.status = "Gate" /\ r.active = None
        /\ ~r.unsettled /\ ~r.cancelled /\ SameControls(mem, r)
    BY <1>1, <2>2 DEF RunType, Statuses, SameControls
  <2> HIDE DEF r
  <2>4. QED
    BY <2>1, <2>3, EventFacts DEF Follows, SameRecord, SameControls
<1>3. CASE ~H!OpenGate
  <2>1. PICK q \in {mem, H!Counted, opened} :
          \/ mem' = StopOnBlock(q)
          \/ mem' = Transition(Event(q), H!Step.next)
          \/ \E kind \in BlockKinds : mem' = HandleBlock(q, kind)
    <3>1. AdapterKinds \subseteq BlockKinds
      BY HostAssumption
    <3> HIDE DEF opened
    <3>2. CASE H!LimitReached \/ H!FamilyRefused
      BY <3>2, SameRouting DEF H!LimitReached, H!FamilyRefused
    <3>3. CASE H!OpenPr
      BY <3>1, <3>3, SameLog, SameRouting DEF H!OpenPr, opened
    <3>4. CASE H!StartFails
      BY <3>1, <3>4, SameRouting DEF H!StartFails
    <3>5. QED
      BY <1>3, <3>2, <3>3, <3>4
  <2>2. /\ opened \in RunType /\ SameControls(H!Counted, opened)
        /\ opened.active = H!Counted.active
        /\ opened.unsettled = H!Counted.unsettled
    BY HostCounted DEF RunType, SameControls
  <2> HIDE DEF opened
  <2>3. /\ q \in RunType /\ q.active = None /\ ~q.unsettled
        /\ SameControls(mem, q)
    BY <1>1, <2>2, HostCounted DEF SameControls
  <2>4. H!Step.next \in Target
    BY FlowAssumption DEF RunType, StepType, H!Step
  <2>5. mem' \in RunType /\ SameRecord(q, mem') /\ Idle(mem')
    <3>1. CASE mem' = StopOnBlock(q)
      BY <2>3, <3>1, StopOnBlockFacts DEF Idle
    <3>2. CASE mem' = Transition(Event(q), H!Step.next)
      BY <2>3, <2>4, <3>2, EventFacts, TransitionFacts DEF SameRecord, Idle
    <3>3. CASE \E kind \in BlockKinds : mem' = HandleBlock(q, kind)
      BY <2>3, <3>3, HandleBlockFacts DEF Idle
    <3>4. QED
      BY <2>1, <3>1, <3>2, <3>3
  <2>6. QED
    BY <1>1, <2>3, <2>5, IdleFollows DEF SameRecord, SameControls
<1>4. QED
  BY <1>2, <1>3

\* An iteration of advance that launches nothing.
LEMMA IterationFollows ==
  ASSUME mem \in RunType, Whole(mem),
         \/ H!Iteration \/ H!ResultAccepted \/ H!StartFails
         \/ EvidenceConflict \/ EvidenceTorn
  PROVE  Follows /\ SameControls(mem, mem')
BY BlockedFollows, DoubtsFollow, FinishedFollows, GateFollows, ReadyFollows
DEF H!Iteration

\* A worker is started at the step the run is at.
LEMMA StartedFacts ==
  ASSUME mem \in RunType, H!IsBotReady, NEW family \in Families
  PROVE  LET attempt == H!NextAttempt(family)
             q == H!Started(attempt)
         IN  /\ attempt \in Attempts /\ attempt.step = mem.current
             /\ q \in RunType /\ SameControls(mem, q) /\ ~q.cancelled
             /\ q.current = mem.current /\ q.active = attempt
             /\ q.status = "Running" /\ ~q.unsettled
<1> DEFINE attempt == H!NextAttempt(family)
           latest == [H!Counted.latest EXCEPT ![mem.current] = attempt]
           r == [H!Counted EXCEPT !.question = None, !.latest = latest,
                                  !.active = attempt, !.status = "Running",
                                  !.block = FALSE]
<1>1. ~mem.cancelled /\ ~mem.unsettled
  BY DEF H!IsBotReady, H!IsReady, H!Hosted
<1>2. attempt \in Attempts /\ attempt.step = mem.current
  BY DEF RunType, Attempts, H!NextAttempt
<1>3. H!Started(attempt) = Event(r)
  BY SameLog DEF H!Started
<1> HIDE DEF attempt
<1>4. latest \in [Steps -> Attempts \cup {None}]
  BY <1>2, HostCounted DEF RunType
<1> HIDE DEF latest
<1>5. /\ r \in RunType /\ SameControls(H!Counted, r)
      /\ r.current = H!Counted.current /\ r.active = attempt
      /\ r.status = "Running" /\ r.unsettled = H!Counted.unsettled
  BY <1>2, <1>4, HostCounted DEF RunType, Statuses, SameControls
<1> HIDE DEF r
<1>6. /\ Event(r) \in RunType /\ SameControls(mem, Event(r))
      /\ Event(r).current = mem.current /\ Event(r).active = attempt
      /\ Event(r).status = "Running" /\ Event(r).unsettled = mem.unsettled
  BY <1>5, HostCounted, EventFacts DEF SameControls, SameRecord
<1>7. QED
  BY <1>1, <1>2, <1>3, <1>6 DEF attempt, SameControls

\* Controls, too, give the run no worker; only two of them touch paused.
LEMMA ControlFollows ==
  ASSUME mem \in RunType, Whole(mem), H!OwnerControl
  PROVE  /\ Follows
         /\ mem'.paused = mem.paused \/ H!Pause \/ H!Resume
<1>1. CASE H!Retry \/ H!Override \/ H!Approve \/ H!Answer
  <2>1. mem.active = None /\ ~mem.unsettled /\ ~mem.cancelled
    BY <1>1 DEF H!Retry, H!Override, H!Approve, H!Answer, H!Controllable,
                H!Settled
  <2>2. mem' \in RunType /\ SameRecord(mem, mem') /\ Idle(mem')
    <3>1. CASE H!Retry
      BY <2>1, <3>1, SameControl, RetryStepFacts DEF H!Retry, Idle
    <3>2. CASE H!Override
      BY <2>1, <3>2, SameControl, OverrideStepFacts DEF H!Override, Idle
    <3>3. CASE H!Approve
      BY <2>1, <3>3, SameControl, ApproveGateFacts DEF H!Approve, Idle
    <3>4. CASE H!Answer
      BY <2>1, <3>4, SameControl, AnswerQuestionFacts
      DEF H!Answer, OpenQuestion, Idle
    <3>5. QED
      BY <1>1, <3>1, <3>2, <3>3, <3>4
  <2>3. QED
    BY <2>1, <2>2, IdleFollows DEF SameRecord
<1>2. CASE H!Pause \/ H!Resume
  <2>1. PICK flag \in BOOLEAN : mem' = Event([mem EXCEPT !.paused = flag])
    BY <1>2, SameLog DEF H!Pause, H!Resume
  <2> DEFINE r == [mem EXCEPT !.paused = flag]
  <2>2. ~mem.cancelled
    BY <1>2 DEF H!Pause, H!Resume, H!Controllable
  <2>3. /\ r \in RunType /\ r.active = mem.active /\ r.current = mem.current
        /\ r.status = mem.status /\ r.unsettled = mem.unsettled
        /\ r.cancelled = mem.cancelled
    BY DEF RunType
  <2>4. mem' = Event(r)
    BY <2>1
  <2> HIDE DEF r
  <2>5. QED
    BY <1>2, <2>2, <2>3, <2>4, EventFacts DEF Follows, SameRecord
<1>3. CASE H!Reopen
  <2> DEFINE r == [mem EXCEPT !.cancelled = FALSE, !.status = "Blocked",
                              !.block = TRUE]
  <2>1. /\ mem' = Event(r) /\ mem.active = None /\ ~mem.unsettled
    BY <1>3, SameControl DEF H!Reopen, ReopenRun, H!Settled
  <2>2. /\ r \in RunType /\ r.active = None /\ ~r.unsettled
        /\ r.status = "Blocked" /\ r.paused = mem.paused
    BY <2>1 DEF RunType, Statuses
  <2> HIDE DEF r
  <2>3. QED
    BY <2>1, <2>2, EventFacts DEF Follows, SameRecord
<1>4. CASE H!Cancel
  <2> DEFINE held == mem.active # None
             c == [mem EXCEPT !.cancelled = TRUE, !.block = TRUE,
                              !.status = "Blocked", !.unsettled = held]
             q == CancelRun(mem)
  <2>1. q = Event(c)
    BY DEF CancelRun
  <2>2. held \in BOOLEAN
    OBVIOUS
  <2> HIDE DEF held, q
  <2>3. /\ c \in RunType /\ c.active = mem.active
        /\ c.current = mem.current /\ c.status = "Blocked"
        /\ c.unsettled = held /\ c.paused = mem.paused
    BY <2>2 DEF RunType, Statuses
  <2> HIDE DEF c
  <2>4. /\ q \in RunType /\ q.active = mem.active
        /\ q.current = mem.current /\ q.status = "Blocked"
        /\ q.unsettled = held /\ q.paused = mem.paused
    BY <2>1, <2>3, EventFacts DEF SameRecord
  <2>5. q.unsettled <=> mem.active # None
    BY <2>4, Zenon DEF held
  <2>6. CASE mem' = q
    BY <2>4, <2>5, <2>6 DEF Follows
  <2>7. CASE mem' = H!LetGo(q)
    BY <2>4, <2>7, LetGoFacts DEF Follows, Idle, SameRecord
  <2>8. QED
    BY <1>4, <2>6, <2>7, SameControl DEF H!Cancel, q
<1>5. QED
  BY <1>1, <1>2, <1>3, <1>4 DEF H!OwnerControl
-----------------------------------------------------------------------------
(* The inductive invariant. *)

\* What a hub step, a control or the outside does beside the run.
LEMMA WorldKept ==
  ASSUME HostInv,
         \/ H!Iteration \/ H!ResultAccepted \/ H!StartFails
         \/ H!OwnerControl
         \/ H!WorkerEnds \/ H!DeadlinePasses \/ H!OwnerReplies
         \/ H!OwnerMerges
  PROVE  WorldFollows
<1>1. /\ overdue \in BOOLEAN /\ merged \in BOOLEAN /\ mem \in RunType
      /\ replies \subseteq H!Requests
  BY DEF HostInv, HostTypeOK
<1>2. CASE H!Iteration \/ H!ResultAccepted \/ H!StartFails
  BY <1>1, <1>2
  DEF H!Iteration, H!SettleCancelled, H!ObserveSettled, H!ApplyAnswer,
      H!TimeOut, H!LoseTrack, H!ProcessFailed, H!InvalidResult,
      H!ResultBlocks, H!ChecksFail, H!EvidenceFails, H!ResultAccepted,
      H!GatePasses, H!GateFails, H!OpenGate, H!LimitReached, H!OpenPr,
      H!FamilyRefused, H!StartFails, H!world, WorldFollows
<1>3. CASE H!OwnerControl
  BY <1>1, <1>3
  DEF H!OwnerControl, H!Pause, H!Resume, H!Cancel, H!Retry, H!Override,
      H!Approve, H!Answer, H!Reopen, H!world, WorldFollows
<1>4. CASE H!WorkerEnds \/ H!DeadlinePasses \/ H!OwnerMerges
  BY <1>1, <1>4
  DEF H!WorkerEnds, H!DeadlinePasses, H!OwnerMerges, WorldFollows
<1>5. CASE H!OwnerReplies
  <2>1. replies' \subseteq H!Requests
    <3>1. CASE \E s \in Steps : \E n \in 1 .. mem.requests[s] :
                 replies' = replies \cup {H!GoRequest(s, n)}
      BY <1>1, <3>1 DEF RunType, H!GoRequest, H!Requests
    <3>2. CASE /\ H!MayAsk
               /\ replies' = replies \cup {H!QuestionRequest(mem.question)}
      <4>1. mem.question \in Questions
        BY <1>1, <3>2, SameControl DEF H!MayAsk, OpenQuestion, RunType
      <4>2. QED
        BY <1>1, <3>2, <4>1 DEF H!QuestionRequest, Questions, H!Requests
    <3>3. QED
      BY <1>5, <3>1, <3>2 DEF H!OwnerReplies
  <2>2. QED
    BY <1>1, <1>5, <2>1 DEF H!OwnerReplies, WorldFollows
<1>6. QED
  BY <1>2, <1>3, <1>4, <1>5

\* A run that follows, in memory or saved at once, keeps the invariant.
LEMMA FollowsKeeps ==
  ASSUME HostInv, Follows, WorldFollows, tags' \subseteq EvidenceTags,
         UNCHANGED <<phase, launched, stranded, crashes>>,
         \/ disk' = mem'
         \/ disk' = disk /\ phase # "free" /\ SameControls(mem, mem')
         \/ disk' = disk /\ mem' = mem
  PROVE  HostInv'
<1>1. /\ Whole(mem')
      /\ mem'.active # None => Handle(mem'.active) \in launched
  BY FollowsWhole DEF HostInv
<1>2. /\ Whole(disk')
      /\ disk'.active # None => Handle(disk'.active) \in launched
  <2>1. CASE disk' = mem'
    BY <1>1, <2>1 DEF Whole
  <2>2. CASE disk' = disk
    BY <2>2 DEF HostInv, Held
  <2>3. QED
    BY <2>1, <2>2
<1>3. HostTypeOK'
  BY DEF HostInv, HostTypeOK, Follows, WorldFollows
<1>4. OneWorkerPerBot'
  BY DEF HostInv, OneWorkerPerBot, WorldFollows
<1>5. SameControls(disk', mem')
  BY DEF HostInv, SameControls
<1>6. Held(mem)' /\ Held(disk)'
  BY <1>1, <1>2 DEF Held
<1>7. QED
  BY <1>1, <1>2, <1>3, <1>4, <1>5, <1>6 DEF HostInv

\* The evidence of a finished attempt.
LEMMA EvidenceType ==
  ASSUME HostInv, H!Finished, H!Step.tag # None
  PROVE  Evidence \in EvidenceTags
<1>1. mem \in RunType /\ mem.active \in Attempts
  BY HostCollected DEF HostInv, HostTypeOK
<1>2. H!Step.tag \in Tags
  BY <1>1, FlowAssumption DEF RunType, StepType, H!Step
<1>3. Handle(mem.active) \in Steps \X Nat
  BY <1>1 DEF Handle, Attempts
<1>4. mem.evidence[H!Step.tag] \in Nat
  BY <1>1, <1>2 DEF RunType
<1>5. QED
  BY <1>2, <1>3, <1>4 DEF Evidence, EvidenceTags

\* A launch gives its bot an attempt only if it has none.
LEMMA LaunchKeeps ==
  ASSUME HostInv, Launch
  PROVE  HostInv'
<1>1. PICK family \in Families :
        /\ mem' = H!Started(H!NextAttempt(family))
        /\ live' = IF Handle(H!NextAttempt(family)) \in launched THEN live
                   ELSE live \cup {Handle(H!NextAttempt(family))}
        /\ launched' = launched \cup {Handle(H!NextAttempt(family))}
  BY DEF Launch
<1> DEFINE attempt == H!NextAttempt(family)
           handle == Handle(attempt)
<1>2. mem \in RunType /\ H!IsBotReady /\ Available
  BY DEF HostInv, HostTypeOK, Launch
<1>3. /\ attempt \in Attempts /\ attempt.step = mem.current
      /\ mem' \in RunType /\ SameControls(mem, mem') /\ ~mem'.cancelled
      /\ mem'.current = mem.current /\ mem'.active = attempt
      /\ mem'.status = "Running" /\ ~mem'.unsettled
  BY <1>1, <1>2, StartedFacts
<1> HIDE DEF attempt
<1>4. /\ live' = IF handle \in launched THEN live ELSE live \cup {handle}
      /\ launched' = launched \cup {handle}
      /\ UNCHANGED <<disk, stranded, tags, crashes, replies, merged>>
      /\ overdue' = FALSE /\ phase' = "returned" /\ phase = "advancing"
  BY <1>1 DEF Launch, attempt
<1>5. handle \in Steps \X Nat /\ handle[1] = mem.current
  BY <1>3 DEF Handle, Attempts
<1> HIDE DEF handle
<1>6. HostTypeOK'
  BY <1>3, <1>4, <1>5 DEF HostInv, HostTypeOK
<1>7. OneWorkerPerBot'
  BY <1>2, <1>4, <1>5 DEF HostInv, OneWorkerPerBot, Available
<1>8. Whole(mem') /\ Held(mem)'
  <2>1. attempt # None
    BY <1>3, FlowAssumption
  <2>2. QED
    BY <1>3, <1>4, <2>1 DEF Whole, Held, handle
<1>9. Whole(disk') /\ Held(disk)' /\ SameControls(disk', mem')
  BY <1>3, <1>4 DEF HostInv, Held, SameControls
<1>10. QED
  BY <1>6, <1>7, <1>8, <1>9 DEF HostInv

\* What a tick saves is what it has, with an event at the most.
LEMMA SaveFacts ==
  ASSUME HostInv, Save
  PROVE  /\ disk' = mem' /\ mem' \in RunType /\ SameControls(mem, mem')
         /\ Whole(mem') /\ Held(mem')
<1>1. mem \in RunType /\ mem' \in {mem, Event(mem)} /\ disk' = mem'
  BY DEF HostInv, HostTypeOK, Save
<1>2. QED
  BY <1>1, EventFacts DEF HostInv, Whole, Held, SameControls, SameRecord

LEMMA SaveKeeps ==
  ASSUME HostInv, Save
  PROVE  HostInv'
<1>1. /\ UNCHANGED <<launched, stranded, tags, crashes, live, overdue, replies,
                    merged>>
      /\ phase' = "free"
  BY DEF Save
<1>2. HostTypeOK' /\ OneWorkerPerBot'
  BY <1>1, SaveFacts DEF HostInv, HostTypeOK, OneWorkerPerBot
<1>3. QED
  BY <1>1, <1>2, SaveFacts DEF HostInv, Held, SameControls

\* A tick forgotten leaves what was saved, and what it reserved.
LEMMA ForgetKeeps ==
  ASSUME HostInv, Crash \/ CrashInLaunch
  PROVE  HostInv'
<1>1. /\ mem' = disk /\ disk' = disk /\ phase' = "free"
      /\ crashes' = crashes + 1 /\ crashes < MaxCrashes
      /\ overdue' \in {overdue} \cup BOOLEAN
      /\ UNCHANGED <<tags, live, replies, merged>>
  BY DEF Crash, CrashInLaunch, Forget
<1>2. mem \in RunType
  BY DEF HostInv, HostTypeOK
<1>3. \/ UNCHANGED <<launched, stranded>>
      \/ \E handle \in (Steps \X Nat) \ launched :
           /\ handle[1] = mem.current /\ Available
           /\ launched' = launched \cup {handle}
           /\ stranded' = stranded \cup {handle}
  <2>1. CASE Crash
    BY <2>1 DEF Crash
  <2>2. CASE CrashInLaunch
    <3>1. PICK family \in Families :
            LET handle == Handle(H!NextAttempt(family))
            IN  /\ handle \notin launched
                /\ launched' = launched \cup {handle}
                /\ stranded' = stranded \cup {handle}
      BY <2>2 DEF CrashInLaunch
    <3>2. /\ H!NextAttempt(family) \in Attempts
          /\ H!NextAttempt(family).step = mem.current
      BY <1>2, <2>2, StartedFacts DEF CrashInLaunch
    <3>3. /\ Handle(H!NextAttempt(family)) \in Steps \X Nat
          /\ Handle(H!NextAttempt(family))[1] = mem.current
      BY <3>2 DEF Handle, Attempts
    <3>4. QED
      BY <2>2, <3>1, <3>3 DEF CrashInLaunch
  <2>3. QED
    BY <2>1, <2>2
<1>4. launched \subseteq launched'
  BY <1>3
<1>5. HostTypeOK'
  <2>1. crashes' \in 0 .. MaxCrashes
    BY <1>1, HostAssumption DEF HostInv, HostTypeOK
  <2>2. overdue' \in BOOLEAN
    BY <1>1 DEF HostInv, HostTypeOK
  <2>3. QED
    BY <1>1, <1>3, <2>1, <2>2 DEF HostInv, HostTypeOK
<1>6. OneWorkerPerBot'
  BY <1>1, <1>3 DEF HostInv, OneWorkerPerBot, Available
<1>7. QED
  BY <1>1, <1>4, <1>5, <1>6 DEF HostInv, Held, SameControls

LEMMA HostInitInv ==
  ASSUME HostInit
  PROVE  HostInv
<1> DEFINE new == NewRun(Start)
<1>1. /\ new \in RunType /\ new.status = "Ready" /\ new.active = None
      /\ ~new.unsettled /\ ~new.cancelled
  BY HostAssumption, FlowAssumption DEF NewRun, RunType, Statuses, Target
<1>2. /\ mem \in RunType /\ mem.status \in {"Ready", "Blocked"}
      /\ mem.active = None /\ ~mem.unsettled /\ ~mem.cancelled
  <2>1. mem = new \/ mem = StopOnBlock(new)
    BY SameRouting DEF HostInit, H!IntakeRuns, H!NewRun, NewRun, new
  <2> HIDE DEF new
  <2>2. QED
    BY <1>1, <2>1, StopOnBlockFacts DEF SameRecord
<1>3. /\ disk = mem /\ phase = "free" /\ launched = {} /\ stranded = {}
      /\ tags = {} /\ crashes = 0 /\ live = {} /\ overdue = FALSE
      /\ replies = {} /\ merged = FALSE
  BY DEF HostInit
<1>4. HostTypeOK
  <2>1. overdue \in BOOLEAN /\ merged \in BOOLEAN
    BY <1>3
  <2>2. crashes \in 0 .. MaxCrashes
    BY <1>3, HostAssumption
  <2>3. QED
    BY <1>2, <1>3, <2>1, <2>2 DEF HostTypeOK
<1>5. QED
  BY <1>2, <1>3, <1>4
  DEF HostInv, Whole, Held, SameControls, OneWorkerPerBot

LEMMA HostStepInv ==
  ASSUME HostInv, [HostNext]_hvars
  PROVE  HostInv'
<1>1. CASE UNCHANGED hvars
  BY <1>1 DEF hvars, HostInv, HostTypeOK, OneWorkerPerBot, Held
<1>2. mem \in RunType /\ Whole(mem) /\ tags \subseteq EvidenceTags
  BY DEF HostInv, HostTypeOK
<1>3. CASE Begin
  BY <1>3 DEF Begin, HostInv, HostTypeOK, OneWorkerPerBot, Held
<1>4. CASE Iterate \/ LaunchFails
  <2>1. Follows /\ SameControls(mem, mem') /\ WorldFollows
    BY <1>2, <1>4, IterationFollows, WorldKept DEF Iterate, LaunchFails
  <2>2. QED
    BY <1>2, <1>4, <2>1, FollowsKeeps DEF Iterate, LaunchFails
<1>5. CASE Accept
  <2>1. Follows /\ SameControls(mem, mem') /\ WorldFollows
    BY <1>2, <1>5, IterationFollows, WorldKept DEF Accept
  <2>2. tags' \subseteq EvidenceTags
    BY <1>2, <1>5, EvidenceType DEF Accept, H!ResultAccepted
  <2>3. QED
    BY <1>5, <2>1, <2>2, FollowsKeeps DEF Accept
<1>6. CASE EvidenceConflict \/ EvidenceTorn
  <2>1. Follows /\ SameControls(mem, mem')
    BY <1>2, <1>6, IterationFollows
  <2>2. /\ phase = "advancing"
        /\ UNCHANGED <<disk, phase, launched, stranded, crashes, live, overdue,
                       replies, merged>>
        /\ tags' \subseteq EvidenceTags
    BY <1>2, <1>6, EvidenceType DEF EvidenceConflict, EvidenceTorn
  <2>3. WorldFollows
    BY <2>2 DEF WorldFollows, HostInv, HostTypeOK
  <2>4. QED
    BY <2>1, <2>2, <2>3, FollowsKeeps
<1>7. CASE Control
  <2>1. Follows /\ WorldFollows
    BY <1>2, <1>7, ControlFollows, WorldKept DEF Control
  <2>2. QED
    BY <1>2, <1>7, <2>1, FollowsKeeps DEF Control
<1>8. CASE Outside
  <2>1. mem' = mem
    BY <1>8 DEF Outside, H!WorkerEnds, H!DeadlinePasses, H!OwnerReplies,
                H!OwnerMerges
  <2>2. Follows
    BY <1>2, <2>1 DEF Follows, Whole
  <2>3. WorldFollows
    BY <1>8, WorldKept DEF Outside
  <2>4. QED
    BY <1>2, <1>8, <2>1, <2>2, <2>3, FollowsKeeps DEF Outside
<1>9. QED
  BY <1>1, <1>3, <1>4, <1>5, <1>6, <1>7, <1>8, LaunchKeeps, SaveKeeps,
     ForgetKeeps
  DEF HostNext, Tick

LEMMA HostInvariance == HostSpec => []HostInv
<1>1. HostInit => HostInv
  BY HostInitInv
<1>2. HostInv /\ [HostNext]_hvars => HostInv'
  BY HostStepInv
<1>3. QED
  BY <1>1, <1>2, PTL DEF HostSpec
-----------------------------------------------------------------------------
(* Memory, disk and the launches keep their types; with the lock free, the *)
(* two runs are one.                                                       *)
THEOREM HostTypeCorrect == HostSpec => []HostTypeOK
<1>1. HostInv => HostTypeOK
  BY DEF HostInv
<1>2. QED
  BY <1>1, HostInvariance, PTL

(* However ticks are interrupted, what is saved is a run the next tick     *)
(* accepts, and the launch of the attempt it holds is reserved.            *)
THEOREM SavedWhole == HostSpec => []SavedConsistent
<1>1. HostInv => SavedConsistent
  BY DEF HostInv, Whole, Held, SavedConsistent
<1>2. QED
  BY <1>1, HostInvariance, PTL

(* A bot executes one attempt at a time, and so does a step, also when a   *)
(* launch is repeated by a host that has forgotten it.                     *)
THEOREM OneWorker == HostSpec => []OneWorkerPerStep
<1>1. HostInv => OneWorkerPerStep
  BY DEF HostInv, OneWorkerPerBot, OneWorkerPerStep
<1>2. QED
  BY <1>1, HostInvariance, PTL

(* No tick, and no crash of one, writes over what a control has saved, and *)
(* a saved cancellation is the last of the run's launches.                 *)
THEOREM ControlsKept == HostSpec => ControlsHold
<1> DEFINE A == /\ disk.cancelled /\ ~disk'.cancelled => H!Reopen
                /\ disk.paused /\ ~disk'.paused => H!Resume
                /\ disk.cancelled => live' \subseteq live
<1>1. HostInv /\ [HostNext]_hvars => [A]_hvars
  <2> SUFFICES ASSUME HostInv, HostNext
               PROVE  A
    OBVIOUS
  <2>1. mem \in RunType /\ Whole(mem) /\ SameControls(disk, mem)
    BY DEF HostInv, HostTypeOK
  <2>2. CASE Save
    BY <2>1, <2>2, SaveFacts DEF Save, SameControls
  <2>3. CASE Control
    <3>1. mem = disk /\ disk' = mem' /\ H!OwnerControl
      BY <2>3 DEF Control, HostInv, HostTypeOK
    <3>2. mem'.paused = mem.paused \/ H!Pause \/ H!Resume
      BY <2>1, <3>1, ControlFollows
    <3>3. live' = live
      BY <3>1 DEF H!OwnerControl, H!Pause, H!Resume, H!Cancel, H!Retry,
                  H!Override, H!Approve, H!Answer, H!Reopen, H!world
    <3>4. mem.cancelled => H!Reopen
      BY <3>1 DEF H!OwnerControl, H!Pause, H!Resume, H!Cancel, H!Retry,
                  H!Override, H!Approve, H!Answer, H!Controllable
    <3>5. QED
      BY <3>1, <3>2, <3>3, <3>4 DEF H!Pause
  <2>4. CASE Launch
    BY <2>1, <2>4 DEF Launch, SameControls, H!IsBotReady, H!IsReady, H!Hosted
  <2>5. CASE ~Save /\ ~Control /\ ~Launch
    <3>1. disk' = disk
      BY <2>5 DEF HostNext, Tick, Begin, Iterate, Accept, EvidenceConflict,
                  EvidenceTorn, LaunchFails, Crash, CrashInLaunch, Forget,
                  Outside
    <3>2. live' \subseteq live
      BY <2>5, WorldKept
      DEF HostNext, Tick, Begin, Iterate, Accept, EvidenceConflict,
          EvidenceTorn, LaunchFails, Crash, CrashInLaunch, Forget, Outside,
          WorldFollows
    <3>3. QED
      BY <3>1, <3>2
  <2>6. QED
    BY <2>2, <2>3, <2>4, <2>5
<1>2. QED
  BY <1>1, HostInvariance, PTL DEF HostSpec, ControlsHold
-----------------------------------------------------------------------------
(***************************************************************************)
(* TaskInputs, for every workflow whose inputs and expectations are steps. *)
(* The code finds the accepted attempt by matching events with attempts,   *)
(* and the reason by searching the log; the model notes both on the run    *)
(* (accepted, routed).  The two agree in every run a tick may hold or save *)
(* (Matched, Explained), a tick changes of what was saved only what it saw *)
(* end (InTick), and there is no task of a later attempt but of a tick     *)
(* that was forgotten (Asked).                                             *)
(***************************************************************************)
CONSTANTS Plan, First, Results, MaxRuns, MaxForgotten, MaxEvents
VARIABLES run, saved, results, tasks, seen, fresh, stale, forgotten
I == INSTANCE TaskInputs

Handles == I!PlanSteps \X Nat
Words ==
  {"started", "step_done", "route", "block", "blocked", "retry", "answer", "gate",
   "settled", "done", "override", "approve", "cancel", "reopen"}
Entries == [kind : Words, step : I!PlanSteps, of : Handles \cup I!PlanSteps \cup {None}]
TaskRuns ==
  [current : I!PlanSteps, status : {"Ready", "Running", "Gate", "Blocked", "Done"},
   active : Handles \cup {None}, cancelled : BOOLEAN, block : Handles \cup {None},
   asked : BOOLEAN, retries : Nat, failures : Nat, runs : [I!PlanSteps -> Nat],
   attempts : Seq(Handles), log : Seq(Entries), visit : Nat,
   routed : Handles \cup {None}, accepted : [I!PlanSteps -> Nat]]

\* Every attempt of a bot's step has the event of its start, in their order,
\* so that matching them finds what was accepted.
Matched(r) ==
  /\ \A s \in I!PlanSteps :
       /\ Cardinality(I!EventsOf(r, s, "started")) = Cardinality(I!AttemptsOf(r, s))
       /\ I!Accepted(r, s) = r.accepted[s]
  /\ \A n \in DOMAIN r.attempts : Plan[r.attempts[n][1]].kind = "bot"

\* The last route event is the one that began this visit, behind its block.
Explained(r) ==
  r.routed # None =>
    \E at \in DOMAIN r.log \ {1} :
      /\ r.log[at].kind = "route" /\ r.log[at].of = r.current
      /\ \A n \in DOMAIN r.log : n > at => r.log[n].kind # "route"
      /\ r.log[at - 1].kind = "block" /\ r.log[at - 1].step = r.log[at].step
      /\ r.log[at - 1].of = r.routed

\* The attempt that runs is the last one of the step the run is at.
AtWork(r) ==
  /\ r.status = "Running" =>
       /\ r.attempts # <<>> /\ r.active = r.attempts[Len(r.attempts)]
       /\ r.active[1] = r.current /\ ~r.cancelled
  /\ r.cancelled => r.status = "Blocked"

Sound(r) == r \in TaskRuns /\ Matched(r) /\ Explained(r) /\ AtWork(r)

\* A visit that is not a later one is the same.
SameVisit(r, q) ==
  \/ q.visit > r.visit
  \/ q.visit = r.visit /\ q.current = r.current /\ q.routed = r.routed

\* What a tick has changed of what was saved before it.
InTick ==
  /\ phase \in {"idle", "advancing", "returned"}
  /\ phase = "idle" => run = saved /\ seen = I!NothingSeen /\ fresh = {}
  /\ phase = "advancing" /\ run.status = "Running" => run = saved
  /\ SameVisit(saved, run)
  /\ \A s \in I!PlanSteps :
       /\ saved.runs[s] <= run.runs[s]
       /\ s \notin DOMAIN seen.completed => run.accepted[s] = saved.accepted[s]

\* Tasks are of attempts that were asked for, or of ticks forgotten since.
Asked ==
  /\ DOMAIN tasks \subseteq Handles
  /\ \A h \in DOMAIN tasks :
       \/ h \in stale
       \/ h[2] <= saved.runs[h[1]]
       \/ h \in fresh /\ h[2] <= run.runs[h[1]]

TasksInv ==
  /\ Sound(run) /\ Sound(saved) /\ InTick /\ Asked
  /\ \A h \in DOMAIN results : results[h] \in Results
-----------------------------------------------------------------------------
(* Which attempt is the accepted one.                                      *)

LEMMA TasksCount == \A S : I!Cardinality(S) = Cardinality(S)
  BY DEF I!Cardinality, Cardinality

LEMMA LatestIs ==
  ASSUME NEW S, S \subseteq Nat \ {0}, NEW n \in S \cup {0}, \A m \in S : m <= n
  PROVE  I!Latest(S) = n
<1>1. ASSUME NEW k \in S \cup {0}, \A m \in S : m <= k
      PROVE  k = n
  <2>1. CASE n = 0 \/ k = 0
    BY <1>1, <2>1
  <2>2. CASE n # 0 /\ k # 0
    <3>1. n <= k /\ k <= n /\ n \in Nat /\ k \in Nat
      BY <1>1, <2>2
    <3>2. QED
      BY <3>1
  <2>3. QED
    BY <2>1, <2>2
<1>2. QED
  BY <1>1 DEF I!Latest

Below == {p \in Nat \X Nat : p[1] < p[2]}
LEMMA BelowIsFounded == IsWellFoundedOn(Below, Nat)
<1>1. IsWellFoundedOn(OpToRel(<, Nat), Nat)
  BY NatLessThanWellFounded
<1>2. OpToRel(<, Nat) = Below
  BY DEF OpToRel, Below
<1>3. QED
  BY <1>1, <1>2

LEMMA LatestBounds ==
  ASSUME NEW N \in Nat, NEW S, S \subseteq 1 .. N
  PROVE  I!Latest(S) \in S \cup {0} /\ \A m \in S : m <= I!Latest(S)
<1> DEFINE Bounds == {k \in Nat : \A m \in S : m <= k}
<1>1. N \in Bounds
  OBVIOUS
<1>2. PICK k \in Bounds : \A n \in Bounds : <<n, k>> \notin Below
  <2>1. Bounds \subseteq Nat
    OBVIOUS
  <2> HIDE DEF Bounds
  <2>2. QED
    BY <1>1, <2>1, BelowIsFounded, WFMin
<1>3. k \in S \cup {0}
  <2>1. SUFFICES ASSUME k \notin S, k # 0 PROVE FALSE
    OBVIOUS
  <2>2. k - 1 \in Nat /\ \A m \in S : m <= k - 1
    BY <2>1
  <2>3. <<k - 1, k>> \in Below
    BY <2>2 DEF Below
  <2>4. QED
    BY <1>2, <2>2, <2>3
<1>4. S \subseteq Nat \ {0} /\ \A m \in S : m <= k
  OBVIOUS
<1> HIDE DEF Bounds
<1>5. I!Latest(S) = k
  BY <1>3, <1>4, LatestIs
<1>6. QED
  BY <1>3, <1>4, <1>5

\* The place of an event, or of an attempt, if it is of a step.
Place(is, n) == IF is THEN {n} ELSE {}

Logs(r, q, e) ==
  r.log \in Seq(Entries) /\ e \in Entries /\ q.log = Append(r.log, e)
LEMMA EventsAfter ==
  ASSUME NEW r, NEW q, NEW e, Logs(r, q, e), NEW s, NEW k
  PROVE  /\ I!EventsOf(q, s, k) =
              I!EventsOf(r, s, k) \cup Place(e.step = s /\ e.kind = k, Len(r.log) + 1)
         /\ I!EventsOf(r, s, k) \subseteq 1 .. Len(r.log)
         /\ IsFiniteSet(I!EventsOf(r, s, k))
         /\ Len(r.log) \in Nat
<1>1. /\ Len(r.log) \in Nat /\ DOMAIN r.log = 1 .. Len(r.log)
      /\ DOMAIN q.log = 1 .. Len(r.log) + 1
      /\ q.log[Len(r.log) + 1] = e
      /\ \A n \in 1 .. Len(r.log) : q.log[n] = r.log[n]
  BY DEF Logs
<1>2. I!EventsOf(r, s, k) \in SUBSET (1 .. Len(r.log))
  BY <1>1 DEF I!EventsOf
<1>3. IsFiniteSet(I!EventsOf(r, s, k))
  <2>1. IsFiniteSet(1 .. Len(r.log))
    BY <1>1, FS_Interval
  <2>2. QED
    BY <1>2, <2>1, FS_Subset
<1>4. I!EventsOf(q, s, k) =
        I!EventsOf(r, s, k) \cup Place(e.step = s /\ e.kind = k, Len(r.log) + 1)
  BY <1>1 DEF I!EventsOf, Place
<1>5. QED
  BY <1>1, <1>2, <1>3, <1>4

LEMMA AttemptsAre ==
  ASSUME NEW r, r.attempts \in Seq(Handles), NEW s
  PROVE  /\ I!AttemptsOf(r, s) \subseteq 1 .. Len(r.attempts)
         /\ IsFiniteSet(I!AttemptsOf(r, s))
         /\ Len(r.attempts) \in Nat
<1>1. Len(r.attempts) \in Nat /\ DOMAIN r.attempts = 1 .. Len(r.attempts)
  OBVIOUS
<1>2. I!AttemptsOf(r, s) \in SUBSET (1 .. Len(r.attempts))
  BY <1>1 DEF I!AttemptsOf
<1>3. IsFiniteSet(1 .. Len(r.attempts))
  BY <1>1, FS_Interval
<1>4. QED
  BY <1>1, <1>2, <1>3, FS_Subset

Launches(r, q, h) ==
  r.attempts \in Seq(Handles) /\ h \in Handles /\ q.attempts = Append(r.attempts, h)
LEMMA AttemptsAfter ==
  ASSUME NEW r, NEW q, NEW h, Launches(r, q, h), NEW s
  PROVE  /\ I!AttemptsOf(q, s) =
              I!AttemptsOf(r, s) \cup Place(h[1] = s, Len(r.attempts) + 1)
         /\ \A n \in DOMAIN r.attempts : q.attempts[n] = r.attempts[n]
<1>1. /\ Len(r.attempts) \in Nat /\ DOMAIN r.attempts = 1 .. Len(r.attempts)
      /\ DOMAIN q.attempts = 1 .. Len(r.attempts) + 1
      /\ q.attempts[Len(r.attempts) + 1] = h
      /\ \A n \in 1 .. Len(r.attempts) : q.attempts[n] = r.attempts[n]
  BY DEF Launches
<1>2. QED
  BY <1>1 DEF I!AttemptsOf, Place

\* An attempt of a step, or none, by its place.
Number(r, that) == IF that = {} THEN 0 ELSE r.attempts[CHOOSE n \in that : TRUE][2]
LEMMA AcceptedIs ==
  ASSUME NEW r, NEW s
  PROVE  I!Accepted(r, s) = Number(r, I!Nth(r, s, I!StartsBefore(r, s)))
  BY DEF I!Accepted, Number

\* An event that is neither a start nor an end of a step.
LEMMA OtherEvents ==
  ASSUME NEW r, NEW q, NEW e, Logs(r, q, e), q.attempts = r.attempts, NEW s,
         e.kind \notin {"started", "step_done"} \/ e.step # s
  PROVE  /\ I!EventsOf(q, s, "started") = I!EventsOf(r, s, "started")
         /\ I!AttemptsOf(q, s) = I!AttemptsOf(r, s)
         /\ I!Accepted(q, s) = I!Accepted(r, s)
<1>1. ASSUME NEW k \in {"started", "step_done"}
      PROVE  I!EventsOf(q, s, k) = I!EventsOf(r, s, k)
  <2>1. ~(e.step = s /\ e.kind = k)
    BY <1>1
  <2>2. I!EventsOf(q, s, k) =
          I!EventsOf(r, s, k) \cup Place(e.step = s /\ e.kind = k, Len(r.log) + 1)
    BY EventsAfter
  <2>3. QED
    BY <2>1, <2>2 DEF Place
<1>2. I!AttemptsOf(q, s) = I!AttemptsOf(r, s)
  BY DEF I!AttemptsOf
<1>3. I!StartsBefore(q, s) = I!StartsBefore(r, s)
  BY <1>1 DEF I!StartsBefore
<1>4. \A k : I!Nth(q, s, k) = I!Nth(r, s, k)
  BY <1>2 DEF I!Nth
<1>5. I!Accepted(q, s) = I!Accepted(r, s)
  <2>1. I!Accepted(q, s) = Number(q, I!Nth(r, s, I!StartsBefore(r, s)))
    BY <1>3, <1>4, AcceptedIs
  <2>2. \A that : Number(q, that) = Number(r, that)
    BY DEF Number
  <2>3. QED
    BY <2>1, <2>2, AcceptedIs
<1>6. I!EventsOf(q, s, "started") = I!EventsOf(r, s, "started")
  BY <1>1
<1>7. QED
  BY <1>2, <1>5, <1>6

\* A start: the attempt that is accepted stays what it was.
LEMMA StartKeeps ==
  ASSUME NEW r, NEW q, NEW e, NEW h, NEW s, Logs(r, q, e), Launches(r, q, h),
         e.kind = "started", e.step = h[1],
         Cardinality(I!EventsOf(r, s, "started")) = Cardinality(I!AttemptsOf(r, s))
  PROVE  /\ Cardinality(I!EventsOf(q, s, "started")) = Cardinality(I!AttemptsOf(q, s))
         /\ I!Accepted(q, s) = I!Accepted(r, s)
<1> DEFINE L == Len(r.log)
           M == Len(r.attempts)
           old == I!AttemptsOf(r, s)
           new == I!AttemptsOf(q, s)
           starts == I!EventsOf(r, s, "started")
           done == I!EventsOf(r, s, "step_done")
<1>1. r.log \in Seq(Entries) /\ r.attempts \in Seq(Handles)
  BY DEF Logs, Launches
<1>2. /\ starts \subseteq 1 .. L /\ done \subseteq 1 .. L /\ IsFiniteSet(starts)
      /\ L \in Nat
  <2>1. ASSUME NEW k
        PROVE  I!EventsOf(r, s, k) \subseteq 1 .. L /\ IsFiniteSet(I!EventsOf(r, s, k))
    BY EventsAfter
  <2>2. L \in Nat
    BY <1>1
  <2>3. QED
    BY <2>1, <2>2
<1>3. /\ I!EventsOf(q, s, "started") = starts \cup IF e.step = s THEN {L + 1} ELSE {}
      /\ I!EventsOf(q, s, "step_done") = done
  <2>1. ASSUME NEW k
        PROVE  I!EventsOf(q, s, k) =
                 I!EventsOf(r, s, k) \cup Place(e.step = s /\ e.kind = k, L + 1)
    BY EventsAfter
  <2>2. /\ I!EventsOf(q, s, "started") =
             starts \cup Place(e.step = s /\ e.kind = "started", L + 1)
        /\ I!EventsOf(q, s, "step_done") =
             done \cup Place(e.step = s /\ e.kind = "step_done", L + 1)
    BY <2>1
  <2>3. QED
    BY <2>2 DEF Place
<1>4. old \subseteq 1 .. M /\ IsFiniteSet(old) /\ M \in Nat /\ old \subseteq DOMAIN r.attempts
  <2>1. old \subseteq DOMAIN r.attempts
    BY DEF I!AttemptsOf
  <2>2. QED
    BY <1>1, <2>1, AttemptsAre
<1>5. /\ new = old \cup IF h[1] = s THEN {M + 1} ELSE {}
      /\ \A n \in DOMAIN r.attempts : q.attempts[n] = r.attempts[n]
  <2>1. /\ new = old \cup Place(h[1] = s, M + 1)
        /\ \A n \in DOMAIN r.attempts : q.attempts[n] = r.attempts[n]
    BY AttemptsAfter
  <2>2. QED
    BY <2>1 DEF Place
<1> HIDE DEF L, M, old, new, starts, done
<1>6. I!Latest(done) \in Nat /\ I!Latest(done) <= L
  <2>1. I!Latest(done) \in done \cup {0}
    BY <1>2, LatestBounds
  <2>2. done \cup {0} \subseteq 0 .. L
    BY <1>2
  <2>3. I!Latest(done) \in 0 .. L
    BY <2>1, <2>2
  <2>4. QED
    BY <1>2, <2>3
<1> DEFINE before == {n \in starts : n < I!Latest(done)}
<1>7. {n \in I!EventsOf(q, s, "started") : n < I!Latest(done)} = before
  <2>1. ~ L + 1 < I!Latest(done)
    BY <1>2, <1>6
  <2>2. QED
    BY <1>3, <2>1
<1>8. /\ I!StartsBefore(q, s) = I!StartsBefore(r, s)
      /\ I!StartsBefore(r, s) = Cardinality(before)
  BY <1>3, <1>7, TasksCount DEF I!StartsBefore, starts, done
<1>9. Cardinality(before) \in Nat /\ Cardinality(before) <= Cardinality(old)
  <2>1. before \in SUBSET starts
    OBVIOUS
  <2> HIDE DEF before
  <2>2. Cardinality(before) <= Cardinality(starts) /\ IsFiniteSet(before)
    BY <1>2, <2>1, FS_Subset
  <2>3. Cardinality(before) \in Nat
    BY <2>2, FS_CardinalityType
  <2>4. Cardinality(starts) = Cardinality(old)
    BY DEF starts, old
  <2>5. QED
    BY <2>2, <2>3, <2>4
<1> DEFINE k == Cardinality(before)
<1> HIDE DEF before
<1>10. k \in Nat /\ Cardinality(old) \in Nat /\ k # Cardinality(old) + 1
  <2>1. Cardinality(old) \in Nat
    BY <1>4, FS_CardinalityType
  <2>2. QED
    BY <1>9, <2>1
<1>11. M + 1 \notin old
  <2>1. old \subseteq 1 .. M /\ M \in Nat
    BY <1>4
  <2>2. QED
    BY <2>1
<1>12. I!Nth(q, s, k) = I!Nth(r, s, k)
  <2>1. \A n \in old : ~ M + 1 <= n
    <3>1. old \subseteq 1 .. M /\ M \in Nat
      BY <1>4
    <3>2. \A n \in 1 .. M : ~ M + 1 <= n
      BY <3>1
    <3>3. QED
      BY <3>1, <3>2
  <2>2. \A n \in old : {m \in new : m <= n} = {m \in old : m <= n}
    BY <1>5, <2>1
  <2>3. ASSUME h[1] = s
        PROVE  Cardinality({m \in new : m <= M + 1}) = Cardinality(old) + 1
    <3>1. \A m \in old \cup {M + 1} : m <= M + 1
      BY <1>4
    <3>2. new = old \cup {M + 1}
      BY <1>5, <2>3
    <3>3. {m \in new : m <= M + 1} = old \cup {M + 1}
      BY <3>1, <3>2
    <3>4. Cardinality(old \cup {M + 1}) = Cardinality(old) + 1
      BY <1>4, <1>11, FS_AddElement
    <3>5. QED
      BY <3>3, <3>4
  <2>4. ASSUME NEW n \in new \ old
        PROVE  Cardinality({m \in new : m <= n}) # k
    <3>1. h[1] = s /\ n = M + 1
      BY <1>5, <2>4
    <3>2. QED
      BY <1>10, <2>3, <3>1
  <2>5. old \subseteq new
    BY <1>5
  <2>6. {n \in new : Cardinality({m \in new : m <= n}) = k}
          = {n \in old : Cardinality({m \in old : m <= n}) = k}
    <3>1. ASSUME NEW n \in new
          PROVE  Cardinality({m \in new : m <= n}) = k
                   <=> n \in old /\ Cardinality({m \in old : m <= n}) = k
      BY <2>2, <2>4
    <3>2. QED
      BY <2>5, <3>1
  <2>7. QED
    BY <2>6, TasksCount DEF I!Nth, old, new
<1>13. I!Accepted(q, s) = I!Accepted(r, s)
  <2> DEFINE that == I!Nth(r, s, k)
  <2>1. that \subseteq DOMAIN r.attempts
    BY <1>4 DEF I!Nth, old
  <2>2. I!Accepted(r, s) = Number(r, that) /\ I!Accepted(q, s) = Number(q, that)
    BY <1>8, <1>12, AcceptedIs
  <2> HIDE DEF that
  <2>3. CASE that = {}
    BY <2>2, <2>3 DEF Number
  <2>4. CASE that # {}
    <3>1. (CHOOSE n \in that : TRUE) \in that
      BY <2>4
    <3>2. q.attempts[CHOOSE n \in that : TRUE] = r.attempts[CHOOSE n \in that : TRUE]
      BY <1>5, <2>1, <3>1
    <3>3. QED
      BY <2>2, <2>4, <3>2 DEF Number
  <2>5. QED
    BY <2>3, <2>4
<1>14. Cardinality(I!EventsOf(q, s, "started")) = Cardinality(new)
  <2>1. Cardinality(starts) = Cardinality(old)
    BY DEF starts, old
  <2>2. CASE h[1] = s
    <3>1. Cardinality(starts \cup {L + 1}) = Cardinality(starts) + 1
      <4>1. L + 1 \notin starts
        BY <1>2
      <4>2. QED
        BY <1>2, <1>10, <2>1, <4>1, FS_AddElement
    <3>2. Cardinality(old \cup {M + 1}) = Cardinality(old) + 1
      BY <1>4, <1>11, FS_AddElement
    <3>3. I!EventsOf(q, s, "started") = starts \cup {L + 1} /\ new = old \cup {M + 1}
      BY <1>3, <1>5, <2>2
    <3>4. QED
      BY <2>1, <3>1, <3>2, <3>3
  <2>3. CASE h[1] # s
    BY <1>3, <1>5, <2>1, <2>3
  <2>4. QED
    BY <2>2, <2>3
<1>15. QED
  BY <1>13, <1>14 DEF new

\* An end: it accepts the attempt started last.
LEMMA EndAccepts ==
  ASSUME NEW r, NEW q, NEW e, Logs(r, q, e), r.attempts \in Seq(Handles),
         q.attempts = r.attempts, NEW s, e.kind = "step_done", e.step = s,
         Cardinality(I!EventsOf(r, s, "started")) = Cardinality(I!AttemptsOf(r, s))
  PROVE  /\ Cardinality(I!EventsOf(q, s, "started")) = Cardinality(I!AttemptsOf(q, s))
         /\ r.attempts # <<>> /\ r.attempts[Len(r.attempts)][1] = s =>
              I!Accepted(q, s) = r.attempts[Len(r.attempts)][2]
<1> DEFINE L == Len(r.log)
           M == Len(r.attempts)
           A == I!AttemptsOf(r, s)
           starts == I!EventsOf(r, s, "started")
           done == I!EventsOf(r, s, "step_done")
<1>1. starts \subseteq 1 .. L /\ done \subseteq 1 .. L /\ L \in Nat
  BY EventsAfter
<1>2. /\ I!EventsOf(q, s, "started") = starts
      /\ I!EventsOf(q, s, "step_done") = done \cup {L + 1}
  <2>1. /\ I!EventsOf(q, s, "started") =
             starts \cup Place(e.step = s /\ e.kind = "started", L + 1)
        /\ I!EventsOf(q, s, "step_done") =
             done \cup Place(e.step = s /\ e.kind = "step_done", L + 1)
    BY EventsAfter
  <2>2. QED
    BY <2>1 DEF Place
<1>3. I!AttemptsOf(q, s) = A /\ A \subseteq 1 .. M /\ IsFiniteSet(A) /\ M \in Nat
  BY AttemptsAre DEF I!AttemptsOf
<1>4. Cardinality(starts) = Cardinality(A)
  OBVIOUS
<1>5. r.attempts # <<>> /\ r.attempts[M][1] = s => M \in A
  BY DEF I!AttemptsOf
<1> HIDE DEF L, M, A, starts, done
<1>6. I!Latest(done \cup {L + 1}) = L + 1
  <2>1. done \cup {L + 1} \subseteq Nat \ {0} /\ \A m \in done \cup {L + 1} : m <= L + 1
    BY <1>1
  <2>2. L + 1 \in (done \cup {L + 1}) \cup {0}
    OBVIOUS
  <2>3. QED
    BY <2>1, <2>2, LatestIs
<1>7. {n \in starts : n < L + 1} = starts
  <2>1. \A n \in starts : n < L + 1
    BY <1>1
  <2>2. QED
    BY <2>1
<1>8. I!StartsBefore(q, s) = Cardinality(A)
  BY <1>2, <1>4, <1>6, <1>7, TasksCount DEF I!StartsBefore
<1>9. ASSUME M \in A
      PROVE  I!Accepted(q, s) = r.attempts[M][2]
  <2>1. ASSUME NEW n \in A
        PROVE  Cardinality({m \in A : m <= n}) = Cardinality(A) <=> n = M
    <3> DEFINE upto == {m \in A : m <= n}
    <3>1. upto \in SUBSET A
      OBVIOUS
    <3>2. n = M => upto = A
      <4>1. \A m \in A : m <= M
        BY <1>3
      <4>2. QED
        BY <4>1
    <3>3. upto = A => M <= n
      BY <1>9
    <3>4. M <= n => n = M
      BY <1>3, <2>1
    <3> HIDE DEF upto
    <3>5. Cardinality(upto) = Cardinality(A) => upto = A
      BY <1>3, <3>1, FS_Subset
    <3>6. Cardinality(upto) = Cardinality(A) <=> n = M
      BY <3>2, <3>3, <3>4, <3>5
    <3>7. QED
      BY <3>6 DEF upto
  <2>2. I!Nth(q, s, Cardinality(A)) = {M}
    BY <1>3, <1>9, <2>1, TasksCount DEF I!Nth
  <2>3. I!Accepted(q, s) = Number(q, {M})
    BY <1>8, <2>2, AcceptedIs
  <2>4. (CHOOSE n \in {M} : TRUE) = M
    OBVIOUS
  <2>5. QED
    BY <2>3, <2>4 DEF Number
<1>10. Cardinality(I!EventsOf(q, s, "started")) = Cardinality(I!AttemptsOf(q, s))
  BY <1>2, <1>3, <1>4
<1>11. r.attempts # <<>> /\ r.attempts[M][1] = s => I!Accepted(q, s) = r.attempts[M][2]
  BY <1>5, <1>9
<1>12. QED
  BY <1>10, <1>11 DEF M

LEMMA NoneStarted ==
  ASSUME NEW r, NEW s, I!AttemptsOf(r, s) = {}
  PROVE  I!Accepted(r, s) = 0
<1>1. \A k : I!Nth(r, s, k) = {}
  BY DEF I!Nth
<1>2. QED
  BY <1>1, AcceptedIs DEF Number

-----------------------------------------------------------------------------
(* What a tick does to the run.                                            *)

\* The run goes on and accepts nothing; its visit is the same or a later one.
Onward(r, q) ==
  /\ q \in TaskRuns /\ Matched(q) /\ Explained(q)
  /\ q.accepted = r.accepted /\ q.attempts = r.attempts /\ q.runs = r.runs
  /\ q.cancelled = r.cancelled /\ SameVisit(r, q)

\* Nothing but the reason of a block stands last in the log.
Recent(r, block) ==
  block # None =>
    /\ r.log # <<>> /\ r.log[Len(r.log)].kind = "block"
    /\ r.log[Len(r.log)].step = r.current /\ r.log[Len(r.log)].of = block

LEMMA SameMatched ==
  ASSUME NEW r, NEW q, q.log = r.log, q.attempts = r.attempts,
         q.accepted = r.accepted, Matched(r)
  PROVE  Matched(q)
<1>1. \A s, k : I!EventsOf(q, s, k) = I!EventsOf(r, s, k)
  BY DEF I!EventsOf
<1>2. \A s : I!AttemptsOf(q, s) = I!AttemptsOf(r, s)
  BY DEF I!AttemptsOf
<1>3. \A s : I!StartsBefore(q, s) = I!StartsBefore(r, s)
  BY <1>1 DEF I!StartsBefore
<1>4. \A s, k : I!Nth(q, s, k) = I!Nth(r, s, k)
  BY <1>2 DEF I!Nth
<1>5. \A that : Number(q, that) = Number(r, that)
  BY DEF Number
<1>6. \A s : I!Accepted(q, s) = I!Accepted(r, s)
  <2> TAKE s
  <2>1. I!Accepted(q, s) = Number(q, I!Nth(r, s, I!StartsBefore(r, s)))
    BY <1>3, <1>4, AcceptedIs
  <2>2. QED
    BY <1>5, <2>1, AcceptedIs
<1>7. QED
  BY <1>1, <1>2, <1>6 DEF Matched

LEMMA OtherMatched ==
  ASSUME NEW r, NEW q, NEW e, Logs(r, q, e), q.attempts = r.attempts,
         q.accepted = r.accepted, e.kind \notin {"started", "step_done"}, Matched(r)
  PROVE  Matched(q)
<1>1. ASSUME NEW s \in I!PlanSteps
      PROVE  /\ Cardinality(I!EventsOf(q, s, "started")) = Cardinality(I!AttemptsOf(q, s))
             /\ I!Accepted(q, s) = q.accepted[s]
  <2>1. /\ I!EventsOf(q, s, "started") = I!EventsOf(r, s, "started")
        /\ I!AttemptsOf(q, s) = I!AttemptsOf(r, s)
        /\ I!Accepted(q, s) = I!Accepted(r, s)
    BY OtherEvents
  <2>2. QED
    BY <2>1 DEF Matched
<1>2. QED
  BY <1>1 DEF Matched

LEMMA OtherExplained ==
  ASSUME NEW r, NEW q, NEW e, Logs(r, q, e), q.current = r.current,
         q.routed = r.routed, e.kind # "route", Explained(r)
  PROVE  Explained(q)
<1>1. SUFFICES ASSUME r.routed # None PROVE Explained(q)
  BY DEF Explained
<1> DEFINE L == Len(r.log)
<1>2. /\ L \in Nat /\ DOMAIN r.log = 1 .. L /\ DOMAIN q.log = 1 .. L + 1
      /\ q.log[L + 1] = e /\ \A n \in 1 .. L : q.log[n] = r.log[n]
  BY DEF Logs
<1>3. PICK at \in DOMAIN r.log \ {1} :
        /\ r.log[at].kind = "route" /\ r.log[at].of = r.current
        /\ \A n \in DOMAIN r.log : n > at => r.log[n].kind # "route"
        /\ r.log[at - 1].kind = "block" /\ r.log[at - 1].step = r.log[at].step
        /\ r.log[at - 1].of = r.routed
  BY <1>1 DEF Explained
<1>4. at \in 2 .. L /\ at - 1 \in 1 .. L /\ at \in DOMAIN q.log \ {1}
  BY <1>2
<1>5. q.log[at] = r.log[at] /\ q.log[at - 1] = r.log[at - 1]
  BY <1>2, <1>4
<1>6. ASSUME NEW n \in DOMAIN q.log, n > at
      PROVE  q.log[n].kind # "route"
  <2>1. CASE n = L + 1
    BY <1>2, <2>1
  <2>2. CASE n # L + 1
    BY <1>2, <1>3, <1>6, <2>2
  <2>3. QED
    BY <2>1, <2>2
<1>7. QED
  BY <1>3, <1>4, <1>5, <1>6 DEF Explained

\* What an event is of, and an event of a run.
Fields == Handles \cup I!PlanSteps \cup {None}
EntryOf(r, kind, of) == [kind |-> kind, step |-> r.current, of |-> of]

LEMMA EventIs ==
  ASSUME NEW r \in TaskRuns, NEW kind \in Words, NEW of \in Fields
  PROVE  /\ I!Event(r, kind, of) \in TaskRuns
         /\ I!Event(r, kind, of) = [r EXCEPT !.log = Append(r.log, EntryOf(r, kind, of))]
         /\ Logs(r, I!Event(r, kind, of), EntryOf(r, kind, of))
<1> DEFINE e == EntryOf(r, kind, of)
           q == [r EXCEPT !.log = Append(r.log, e)]
<1>1. e \in Entries
  BY DEF EntryOf, Entries, Fields, TaskRuns
<1>2. r.log \in Seq(Entries) /\ q.log = Append(r.log, e)
  BY DEF TaskRuns
<1>3. q.log \in Seq(Entries)
  <2> HIDE DEF e
  <2>1. QED
    BY <1>1, <1>2
<1>4. I!Event(r, kind, of) = q
  BY DEF I!Event, EntryOf
<1>5. q \in TaskRuns
  <2> DEFINE log == q.log
  <2>1. q = [r EXCEPT !.log = log]
    BY <1>2
  <2>2. log \in Seq(Entries)
    BY <1>3
  <2> HIDE DEF log, q
  <2>3. QED
    BY <2>1, <2>2 DEF TaskRuns
<1>6. QED
  BY <1>1, <1>2, <1>4, <1>5 DEF Logs

LEMMA EventKeeps ==
  ASSUME NEW r \in TaskRuns, NEW kind \in Words, NEW of \in Fields,
         kind \notin {"started", "step_done", "route"}, Matched(r), Explained(r)
  PROVE  Onward(r, I!Event(r, kind, of)) /\ I!Event(r, kind, of).status = r.status
<1> DEFINE q == I!Event(r, kind, of)
           e == EntryOf(r, kind, of)
<1>1. q \in TaskRuns /\ q = [r EXCEPT !.log = Append(r.log, e)] /\ Logs(r, q, e)
  BY EventIs
<1>2. /\ q.accepted = r.accepted /\ q.attempts = r.attempts /\ q.runs = r.runs
      /\ q.cancelled = r.cancelled /\ q.visit = r.visit /\ q.current = r.current
      /\ q.routed = r.routed /\ q.status = r.status
  BY <1>1 DEF TaskRuns
<1>3. e.kind = kind
  BY DEF EntryOf
<1> HIDE DEF q, e
<1>4. Matched(q) /\ Explained(q)
  BY <1>1, <1>2, <1>3, OtherMatched, OtherExplained
<1>5. SameVisit(r, q)
  BY <1>2 DEF SameVisit
<1>6. QED
  BY <1>1, <1>2, <1>4, <1>5 DEF Onward, q

LEMMA SameExplained ==
  ASSUME NEW r, NEW q, q.log = r.log, q.current = r.current, q.routed = r.routed,
         Explained(r)
  PROVE  Explained(q)
  BY DEF Explained

LEMMA TransitionKeeps ==
  ASSUME I!TasksAssumption, NEW r \in TaskRuns, Matched(r), Explained(r),
         NEW next \in I!PlanSteps \cup {None}, NEW block \in Handles \cup {None},
         Recent(r, block)
  PROVE  /\ Onward(r, I!Transition(r, next, block))
         /\ I!Transition(r, next, block).status \in {"Ready", "Done"}
<1> DEFINE left == [r EXCEPT !.retries = 0, !.failures = 0, !.active = None,
                             !.block = None, !.asked = FALSE]
           q == I!Transition(r, next, block)
<1>1. left \in TaskRuns
  BY DEF TaskRuns
<1>2. /\ left.log = r.log /\ left.attempts = r.attempts /\ left.accepted = r.accepted
      /\ left.runs = r.runs /\ left.cancelled = r.cancelled /\ left.visit = r.visit
      /\ left.current = r.current /\ left.routed = r.routed
  BY DEF TaskRuns
<1> HIDE DEF left
<1>3. Matched(left) /\ Explained(left)
  BY <1>2, SameMatched, SameExplained
<1>4. CASE next = None
  <2> DEFINE m == I!Event(left, "done", None)
  <2>1. Onward(left, m)
    <3>1. "done" \in Words \ {"started", "step_done", "route"} /\ None \in Fields
      BY DEF Words, Fields
    <3>2. QED
      BY <1>1, <1>3, <3>1, EventKeeps
  <2>2. m \in TaskRuns /\ Matched(m) /\ Explained(m)
    BY <2>1 DEF Onward
  <2>3. q = [m EXCEPT !.status = "Done"]
    BY <1>4 DEF I!Transition, left
  <2> HIDE DEF m, q
  <2>4. /\ q.log = m.log /\ q.attempts = m.attempts /\ q.accepted = m.accepted
        /\ q.runs = m.runs /\ q.cancelled = m.cancelled /\ q.visit = m.visit
        /\ q.current = m.current /\ q.routed = m.routed
        /\ q.status = "Done" /\ q \in TaskRuns
    BY <2>2, <2>3 DEF TaskRuns
  <2>5. Matched(q) /\ Explained(q)
    BY <2>2, <2>4, SameMatched, SameExplained
  <2>6. SameVisit(r, q)
    BY <1>2, <2>1, <2>4 DEF Onward, SameVisit
  <2>7. Onward(r, q)
    BY <1>2, <2>1, <2>4, <2>5, <2>6 DEF Onward
  <2>8. QED
    BY <2>4, <2>7 DEF q
<1>5. CASE next # None
  <2> DEFINE m == I!Event(left, "route", next)
             e == EntryOf(left, "route", next)
             L == Len(r.log)
  <2>1. next \in I!PlanSteps /\ next \in Fields /\ "route" \in Words
    BY <1>5 DEF Fields, Words
  <2>2. /\ m \in TaskRuns /\ m = [left EXCEPT !.log = Append(left.log, e)]
        /\ Logs(left, m, e)
    BY <1>1, <2>1, EventIs
  <2>3. e.kind = "route" /\ e.of = next /\ e.step = r.current
    BY <1>2 DEF EntryOf
  <2>4. q = [m EXCEPT !.status = "Ready", !.current = next, !.visit = @ + 1,
                      !.routed = block]
    BY <1>5 DEF I!Transition, left
  <2> HIDE DEF m, e, q
  <2>5. /\ m.attempts = left.attempts /\ m.accepted = left.accepted
        /\ m.runs = left.runs /\ m.cancelled = left.cancelled /\ m.visit = left.visit
    BY <1>1, <2>2 DEF TaskRuns
  <2>6. /\ q.log = m.log /\ q.attempts = m.attempts /\ q.accepted = m.accepted
        /\ q.runs = m.runs /\ q.cancelled = m.cancelled /\ q.visit = m.visit + 1
        /\ q.current = next /\ q.routed = block /\ q.status = "Ready"
    BY <2>2, <2>4 DEF TaskRuns
  <2>7. q \in TaskRuns
    <3> DEFINE v == m.visit + 1
    <3>1. m \in TaskRuns
      BY <2>2
    <3>2. q = [m EXCEPT !.status = "Ready", !.current = next, !.visit = v, !.routed = block]
      BY <2>4
    <3>3. v \in Nat
      <4>1. m.visit \in Nat
        BY ONLY <3>1 DEF TaskRuns
      <4>2. QED
        BY ONLY <4>1 DEF v
    <3> HIDE DEF v
    <3>4. QED
      BY <2>1, <3>1, <3>2, <3>3 DEF TaskRuns
  <2>8. Matched(q)
    <3>1. Matched(m)
      BY <1>3, <2>2, <2>3, <2>5, OtherMatched
    <3>2. QED
      BY <2>6, <3>1, SameMatched
  <2>9. Explained(q)
    <3>1. SUFFICES ASSUME block # None PROVE Explained(q)
      BY <2>6 DEF Explained
    <3>2. r.log \in Seq(Entries) /\ q.log = Append(r.log, e)
      BY <1>2, <2>2, <2>6 DEF Logs
    <3>3. /\ r.log # <<>> /\ r.log[L].kind = "block"
          /\ r.log[L].step = r.current /\ r.log[L].of = block
      BY <3>1 DEF Recent
    <3>4. /\ L \in Nat /\ L # 0 /\ DOMAIN q.log = 1 .. L + 1
          /\ q.log[L + 1] = e /\ q.log[L] = r.log[L]
      BY <3>2, <3>3
    <3>5. /\ L + 1 \in DOMAIN q.log \ {1} /\ (L + 1) - 1 = L
          /\ \A n \in DOMAIN q.log : ~ n > L + 1
      BY <3>4
    <3>6. /\ q.log[L + 1].kind = "route" /\ q.log[L + 1].of = q.current
          /\ q.log[L + 1].step = r.current
      BY <2>3, <2>6, <3>4
    <3>7. /\ q.log[L].kind = "block" /\ q.log[L].step = q.log[L + 1].step
          /\ q.log[L].of = q.routed
      BY <2>6, <3>3, <3>4, <3>6
    <3> HIDE DEF L
    <3>8. QED
      BY <3>5, <3>6, <3>7 DEF Explained
  <2>10. SameVisit(r, q)
    <3>1. q.visit = r.visit + 1 /\ r.visit \in Nat
      BY <1>2, <2>5, <2>6 DEF TaskRuns
    <3>2. QED
      BY <3>1 DEF SameVisit
  <2>11. Onward(r, q)
    BY <1>2, <2>5, <2>6, <2>7, <2>8, <2>9, <2>10 DEF Onward
  <2>12. QED
    BY <2>6, <2>11 DEF q
<1>6. QED
  BY <1>4, <1>5

LEMMA StopKeeps ==
  ASSUME NEW r \in TaskRuns, Matched(r), Explained(r), NEW of \in Handles
  PROVE  /\ Onward(r, I!StopOnBlock(r, of))
         /\ I!StopOnBlock(r, of).status = "Blocked"
<1> DEFINE m == I!Event(r, "blocked", of)
           q == I!StopOnBlock(r, of)
<1>1. Onward(r, m)
  <2>1. "blocked" \in Words \ {"started", "step_done", "route"} /\ of \in Fields
    BY DEF Words, Fields
  <2>2. QED
    BY <2>1, EventKeeps
<1>2. q = [m EXCEPT !.status = "Blocked", !.block = of]
  BY DEF I!StopOnBlock
<1>3. m \in TaskRuns /\ Matched(m) /\ Explained(m)
  BY <1>1 DEF Onward
<1> HIDE DEF m, q
<1>4. /\ q.log = m.log /\ q.attempts = m.attempts /\ q.accepted = m.accepted
      /\ q.runs = m.runs /\ q.cancelled = m.cancelled /\ q.visit = m.visit
      /\ q.current = m.current /\ q.routed = m.routed
      /\ q.status = "Blocked" /\ q \in TaskRuns
  BY <1>2, <1>3 DEF TaskRuns
<1>5. Matched(q) /\ Explained(q)
  BY <1>3, <1>4, SameMatched, SameExplained
<1>6. SameVisit(r, q)
  BY <1>1, <1>4 DEF Onward, SameVisit
<1>7. Onward(r, q)
  BY <1>1, <1>4, <1>5, <1>6 DEF Onward
<1>8. QED
  BY <1>4, <1>7 DEF q

LEMMA OnwardOnward ==
  ASSUME NEW r, NEW m, NEW q, r.visit \in Nat, Onward(r, m), Onward(m, q)
  PROVE  Onward(r, q)
<1>1. m.visit \in Nat /\ q.visit \in Nat
  BY DEF Onward, TaskRuns
<1>2. SameVisit(r, q)
  BY <1>1 DEF Onward, SameVisit
<1>3. QED
  BY <1>2 DEF Onward

\* A block that is routed leaves the step, one that is not waits for the owner
\* or is retried.
LEMMA BlockKeeps ==
  ASSUME I!TasksAssumption, NEW r \in TaskRuns, Matched(r), Explained(r),
         NEW kind \in I!BlockKinds \cup {"transient"}, NEW of \in Handles
  PROVE  /\ Onward(r, I!HandleBlock(r, kind, of))
         /\ I!HandleBlock(r, kind, of).status \in {"Ready", "Done", "Blocked"}
<1> DEFINE m == I!Event(r, "block", of)
           e == EntryOf(r, "block", of)
           q == I!HandleBlock(r, kind, of)
<1>1. /\ "block" \in Words \ {"started", "step_done", "route"} /\ of \in Fields
      /\ "retry" \in Words \ {"started", "step_done", "route"} /\ None \in Fields
  BY DEF Words, Fields
<1>2. Onward(r, m)
  BY <1>1, EventKeeps
<1>3. m = [r EXCEPT !.log = Append(r.log, e)] /\ Logs(r, m, e)
  BY <1>1, EventIs
<1>4. m \in TaskRuns /\ Matched(m) /\ Explained(m) /\ r.visit \in Nat
  BY <1>2 DEF Onward, TaskRuns
<1>5. Recent(m, of)
  <2>1. r.log \in Seq(Entries) /\ m.log = Append(r.log, e)
    BY <1>3 DEF Logs
  <2>2. m.log # <<>> /\ m.log[Len(m.log)] = e
    BY <2>1
  <2>3. m.current = r.current
    BY <1>3 DEF TaskRuns
  <2>4. e.kind = "block" /\ e.step = r.current /\ e.of = of
    BY DEF EntryOf
  <2> HIDE DEF m, e
  <2>5. QED
    BY <2>2, <2>3, <2>4 DEF Recent
<1>6. Onward(m, I!StopOnBlock(m, of)) /\ I!StopOnBlock(m, of).status = "Blocked"
  BY <1>4, StopKeeps
<1> HIDE DEF m
<1>7. CASE kind = "transient" /\ r.retries < TransientRetries
  <2> DEFINE w == [m EXCEPT !.retries = @ + 1, !.block = of, !.status = "Ready"]
             n == m.retries + 1
  <2>1. q = I!Event(w, "retry", None)
    BY <1>7 DEF I!HandleBlock, m
  <2>2. w = [m EXCEPT !.retries = n, !.block = of, !.status = "Ready"] /\ n \in Nat
    BY <1>4 DEF TaskRuns
  <2> HIDE DEF n, w
  <2>3. w \in TaskRuns
    BY <1>4, <2>2 DEF TaskRuns
  <2>4. /\ w.log = m.log /\ w.attempts = m.attempts /\ w.accepted = m.accepted
        /\ w.runs = m.runs /\ w.cancelled = m.cancelled /\ w.visit = m.visit
        /\ w.current = m.current /\ w.routed = m.routed /\ w.status = "Ready"
    BY <1>4, <2>2 DEF TaskRuns
  <2>5. Matched(w) /\ Explained(w)
    BY <1>4, <2>4, SameMatched, SameExplained
  <2>6. Onward(m, w)
    BY <2>3, <2>4, <2>5 DEF Onward, SameVisit
  <2>7. Onward(w, q) /\ q.status = "Ready"
    BY <1>1, <2>1, <2>3, <2>4, <2>5, EventKeeps
  <2>8. Onward(r, w)
    BY <1>2, <1>4, <2>6, OnwardOnward
  <2>9. QED
    BY <1>4, <2>7, <2>8, OnwardOnward
<1>8. CASE kind = "transient" /\ ~ r.retries < TransientRetries
  <2>1. q = I!StopOnBlock(m, of)
    BY <1>8 DEF I!HandleBlock, m
  <2>2. QED
    BY <1>2, <1>4, <1>6, <2>1, OnwardOnward
<1>9. CASE kind # "transient"
  <2> DEFINE to == Plan[r.current].on_block[kind]
  <2>1. to \in I!PlanSteps \cup {None}
    BY <1>9 DEF I!TasksAssumption, TaskRuns
  <2>2. q = IF to # None THEN I!Transition(m, to, of) ELSE I!StopOnBlock(m, of)
    BY <1>9 DEF I!HandleBlock, m
  <2> HIDE DEF to
  <2>3. /\ Onward(m, I!Transition(m, to, of))
        /\ I!Transition(m, to, of).status \in {"Ready", "Done"}
    BY <1>4, <1>5, <2>1, TransitionKeeps
  <2>4. Onward(m, q) /\ q.status \in {"Ready", "Done", "Blocked"}
    BY <1>6, <2>2, <2>3
  <2>5. QED
    BY <1>2, <1>4, <2>4, OnwardOnward
<1>10. QED
  BY <1>7, <1>8, <1>9

-----------------------------------------------------------------------------
(* The tick.                                                               *)

\* Whatever the tick does to the run, if no end is accepted that it did not see.
LEMMA TickKeeps ==
  ASSUME TasksInv, phase = "advancing", phase' \in {"advancing", "returned"},
         run' \in TaskRuns, Matched(run'), Explained(run'), AtWork(run'),
         SameVisit(run, run'), run'.status = "Running" => phase' = "returned",
         \A s \in I!PlanSteps : run.runs[s] <= run'.runs[s],
         \A s \in I!PlanSteps :
           s \notin DOMAIN seen'.completed => run'.accepted[s] = run.accepted[s],
         DOMAIN seen.completed \subseteq DOMAIN seen'.completed,
         UNCHANGED <<saved, results, stale>>,
         fresh \subseteq fresh', DOMAIN tasks' \subseteq Handles,
         \A h \in DOMAIN tasks' :
           h \in DOMAIN tasks \/ (h \in fresh' /\ h[2] <= run'.runs[h[1]])
  PROVE  TasksInv'
<1>1. run \in TaskRuns /\ saved \in TaskRuns /\ Sound(saved) /\ InTick /\ Asked
  BY DEF TasksInv, Sound
<1>2. Sound(run')
  BY DEF Sound
<1>3. SameVisit(saved, run')
  <2>1. saved.visit \in Nat /\ run.visit \in Nat /\ run'.visit \in Nat
    BY <1>1 DEF TaskRuns
  <2>2. SameVisit(saved, run)
    BY <1>1 DEF InTick
  <2>3. QED
    BY <2>1, <2>2 DEF SameVisit
<1>4. \A s \in I!PlanSteps :
        saved.runs[s] \in Nat /\ run.runs[s] \in Nat /\ run'.runs[s] \in Nat
  BY <1>1 DEF TaskRuns
<1>5. \A s \in I!PlanSteps :
        /\ saved.runs[s] <= run'.runs[s]
        /\ s \notin DOMAIN seen'.completed => run'.accepted[s] = saved.accepted[s]
  BY <1>1, <1>4 DEF InTick
<1>6. InTick'
  BY <1>3, <1>5 DEF InTick
<1>7. ASSUME NEW h \in DOMAIN tasks'
      PROVE  \/ h \in stale
             \/ h[2] <= saved.runs[h[1]]
             \/ h \in fresh' /\ h[2] <= run'.runs[h[1]]
  <2>1. h[1] \in I!PlanSteps /\ h[2] \in Nat
    BY DEF Handles
  <2>2. CASE h \in DOMAIN tasks
    <3>1. CASE h \in fresh /\ h[2] <= run.runs[h[1]]
      <4>1. h[2] <= run'.runs[h[1]]
        BY <1>4, <2>1, <3>1
      <4>2. QED
        BY <3>1, <4>1
    <3>2. QED
      BY <1>1, <2>2, <3>1 DEF Asked
  <2>3. QED
    BY <2>2
<1>8. Asked'
  BY <1>7 DEF Asked
<1>9. QED
  BY <1>1, <1>2, <1>6, <1>8 DEF TasksInv

\* A step that goes on after what was neither started nor ended.
LEMMA OnwardTick ==
  ASSUME TasksInv, phase = "advancing", phase' \in {"advancing", "returned"},
         Onward(run, run'), ~run.cancelled, run'.status # "Running",
         DOMAIN seen.completed \subseteq DOMAIN seen'.completed,
         UNCHANGED <<saved, results, tasks, fresh, stale>>
  PROVE  TasksInv'
<1>1. /\ run \in TaskRuns /\ run' \in TaskRuns /\ Matched(run') /\ Explained(run')
      /\ SameVisit(run, run') /\ run'.runs = run.runs /\ run'.accepted = run.accepted
      /\ ~run'.cancelled
  BY DEF Onward, TasksInv, Sound
<1>2. AtWork(run')
  BY <1>1 DEF AtWork
<1>3. \A s \in I!PlanSteps : run.runs[s] <= run'.runs[s]
  BY <1>1 DEF TaskRuns
<1>4. DOMAIN tasks' \subseteq Handles
  BY DEF TasksInv, Asked
<1>5. QED
  BY <1>1, <1>2, <1>3, <1>4, TickKeeps

\* A run that accepts an attempt at its step.
AsDone(r, h) == [I!Event(r, "step_done", h) EXCEPT !.accepted[r.current] = h[2]]

LEMMA DoneKeeps ==
  ASSUME NEW r \in TaskRuns, Matched(r), Explained(r), NEW h \in Handles,
         r.attempts # <<>>, r.attempts[Len(r.attempts)] = h, h[1] = r.current,
         NEW q, q = AsDone(r, h)
  PROVE  /\ q \in TaskRuns /\ Matched(q) /\ Explained(q) /\ SameVisit(r, q)
         /\ q.runs = r.runs /\ q.attempts = r.attempts /\ q.cancelled = r.cancelled
         /\ \A s \in I!PlanSteps : s # r.current => q.accepted[s] = r.accepted[s]
<1> DEFINE m == I!Event(r, "step_done", h)
           e == EntryOf(r, "step_done", h)
           accepted == [r.accepted EXCEPT ![r.current] = h[2]]
<1>1. "step_done" \in Words /\ h \in Fields
  BY DEF Words, Fields
<1>2. m \in TaskRuns /\ m = [r EXCEPT !.log = Append(r.log, e)] /\ Logs(r, m, e)
  BY <1>1, EventIs
<1>3. e.kind = "step_done" /\ e.step = r.current
  BY DEF EntryOf
<1> HIDE DEF m, e
<1>4. /\ m.accepted = r.accepted /\ m.attempts = r.attempts /\ m.runs = r.runs
      /\ m.cancelled = r.cancelled /\ m.visit = r.visit /\ m.current = r.current
      /\ m.routed = r.routed
  BY <1>2 DEF TaskRuns
<1>5. h[2] \in Nat /\ r.current \in I!PlanSteps /\ r.accepted \in [I!PlanSteps -> Nat]
  BY DEF Handles, TaskRuns
<1>6. /\ accepted \in [I!PlanSteps -> Nat] /\ accepted[r.current] = h[2]
      /\ \A s \in I!PlanSteps : s # r.current => accepted[s] = r.accepted[s]
  BY <1>5
<1>7. q = [m EXCEPT !.accepted = accepted]
  BY <1>2, <1>4 DEF TaskRuns, AsDone, m
<1> HIDE DEF accepted
<1>8. /\ q.log = m.log /\ q.attempts = r.attempts /\ q.runs = r.runs
      /\ q.cancelled = r.cancelled /\ q.visit = r.visit /\ q.current = r.current
      /\ q.routed = r.routed /\ q.accepted = accepted
  BY <1>2, <1>4, <1>7 DEF TaskRuns
<1>9. q \in TaskRuns
  BY <1>2, <1>6, <1>7 DEF TaskRuns
<1>10. Logs(r, q, e)
  BY <1>2, <1>8 DEF Logs
<1>11. ASSUME NEW s \in I!PlanSteps
       PROVE  /\ Cardinality(I!EventsOf(q, s, "started"))
                   = Cardinality(I!AttemptsOf(q, s))
              /\ I!Accepted(q, s) = q.accepted[s]
  <2>1. /\ Cardinality(I!EventsOf(r, s, "started")) = Cardinality(I!AttemptsOf(r, s))
        /\ I!Accepted(r, s) = r.accepted[s]
    BY DEF Matched
  <2>2. CASE s = r.current
    <3>1. r.attempts \in Seq(Handles)
      BY DEF TaskRuns
    <3>2. /\ Cardinality(I!EventsOf(q, s, "started")) = Cardinality(I!AttemptsOf(q, s))
          /\ I!Accepted(q, s) = h[2]
      <4>1. q.attempts = r.attempts /\ e.kind = "step_done" /\ e.step = s
        BY <1>3, <1>8, <2>2
      <4>2. /\ Cardinality(I!EventsOf(q, s, "started"))
                 = Cardinality(I!AttemptsOf(q, s))
            /\ r.attempts # <<>> /\ r.attempts[Len(r.attempts)][1] = s =>
                 I!Accepted(q, s) = r.attempts[Len(r.attempts)][2]
        BY ONLY <1>10, <2>1, <3>1, <4>1, EndAccepts
      <4>3. QED
        BY <2>2, <4>2
    <3>3. QED
      BY <1>6, <1>8, <2>2, <3>2
  <2>3. CASE s # r.current
    <3>1. /\ I!EventsOf(q, s, "started") = I!EventsOf(r, s, "started")
          /\ I!AttemptsOf(q, s) = I!AttemptsOf(r, s)
          /\ I!Accepted(q, s) = I!Accepted(r, s)
      <4>1. q.attempts = r.attempts /\ e.step # s
        BY <1>3, <1>8, <2>3
      <4>2. QED
        BY ONLY <1>10, <4>1, OtherEvents
    <3>2. QED
      BY <1>6, <1>8, <2>1, <2>3, <3>1
  <2>4. QED
    BY <2>2, <2>3
<1>12. Matched(q)
  BY <1>8, <1>11 DEF Matched
<1>13. Explained(q)
  BY <1>3, <1>8, <1>10, OtherExplained
<1>14. SameVisit(r, q)
  BY <1>8 DEF SameVisit
<1>15. QED
  BY <1>6, <1>8, <1>9, <1>12, <1>13, <1>14

\* A result of a step: routed, retried, stopped at, or accepted.
LEMMA PollsKeeps ==
  ASSUME I!TasksAssumption, TasksInv, I!Polls
  PROVE  TasksInv'
<1> DEFINE handle == run.active
           result == results[handle]
           left == [run EXCEPT !.active = None, !.asked = results[run.active] = "owner_question"]
           failed == [left EXCEPT !.failures = @ + 1]
<1>1. /\ phase = "advancing" /\ ~run.cancelled /\ run.status = "Running"
      /\ handle \in DOMAIN results
      /\ UNCHANGED <<saved, phase, results, tasks, fresh, stale>>
  BY DEF I!Polls, I!Advancing
<1>2. run \in TaskRuns /\ Matched(run) /\ Explained(run) /\ AtWork(run)
  BY DEF TasksInv, Sound
<1>3. /\ run.attempts # <<>> /\ handle = run.attempts[Len(run.attempts)]
      /\ handle[1] = run.current
  BY <1>1, <1>2 DEF AtWork
<1>4. handle \in Handles
  <2>1. run.attempts \in Seq(Handles)
    BY <1>2 DEF TaskRuns
  <2>2. Len(run.attempts) \in DOMAIN run.attempts
    BY <1>3, <2>1
  <2> HIDE DEF handle
  <2>3. QED
    BY <1>3, <2>1, <2>2
<1>5. result \in Results
  BY <1>1 DEF TasksInv
<1>6. /\ DOMAIN seen.completed \subseteq DOMAIN seen'.completed
      /\ result # "failed" => run.current \in DOMAIN seen'.completed
  <2>1. I!Observes(handle, result)
    BY DEF I!Polls
  <2>2. QED
    BY <1>3, <2>1 DEF I!Observes
<1>7. \/ result = "done" /\ run' \in I!Checked(left, handle)
      \/ \E kind \in I!BlockKinds \cup {"transient"} :
           run' = I!HandleBlock(left, kind, handle)
  <2>1. run' \in CASE result = "done" -> I!Checked(left, handle)
                   [] result \in {"failed", "transient"} ->
                        {I!HandleBlock(left, "transient", handle)}
                   [] result = "invalid" -> {I!HandleBlock(left, "unknown", handle)}
                   [] OTHER -> {I!HandleBlock(left, result, handle)}
    BY DEF I!Polls
  <2>2. result \in I!BlockKinds \cup {"done", "transient", "invalid", "failed"}
    BY <1>5 DEF I!TasksAssumption
  <2>3. "unknown" \in I!BlockKinds
    BY DEF I!BlockKinds
  <2> HIDE DEF left, handle, result
  <2>4. QED
    BY <2>1, <2>2, <2>3
<1>8. /\ left \in TaskRuns
      /\ left.log = run.log /\ left.attempts = run.attempts /\ left.accepted = run.accepted
      /\ left.runs = run.runs /\ left.cancelled = run.cancelled /\ left.visit = run.visit
      /\ left.current = run.current /\ left.routed = run.routed
  <2> DEFINE asked == results[run.active] = "owner_question"
  <2>1. asked \in BOOLEAN /\ left = [run EXCEPT !.active = None, !.asked = asked]
    OBVIOUS
  <2> HIDE DEF asked, left
  <2>2. QED
    BY <1>2, <2>1 DEF TaskRuns
<1> HIDE DEF left, handle, result
<1>9. Onward(run, left)
  <2>1. Matched(left) /\ Explained(left)
    BY <1>2, <1>8, SameMatched, SameExplained
  <2>2. QED
    BY <1>8, <2>1 DEF Onward, SameVisit
<1>10. run.visit \in Nat /\ Matched(left) /\ Explained(left)
  BY <1>2, <1>9 DEF TaskRuns, Onward
<1>11. Onward(run, failed)
  <2> DEFINE n == left.failures + 1
  <2>1. n \in Nat /\ failed = [left EXCEPT !.failures = n]
    BY <1>8 DEF TaskRuns
  <2> HIDE DEF n, failed
  <2>2. /\ failed \in TaskRuns
        /\ failed.log = left.log /\ failed.attempts = left.attempts
        /\ failed.accepted = left.accepted /\ failed.runs = left.runs
        /\ failed.cancelled = left.cancelled /\ failed.visit = left.visit
        /\ failed.current = left.current /\ failed.routed = left.routed
    BY <1>8, <2>1 DEF TaskRuns
  <2>3. Matched(failed) /\ Explained(failed)
    BY <1>10, <2>2, SameMatched, SameExplained
  <2>4. Onward(left, failed)
    BY <2>2, <2>3 DEF Onward, SameVisit
  <2>5. QED
    BY <1>9, <1>10, <2>4, OnwardOnward
<1>12. ASSUME NEW kind \in I!BlockKinds \cup {"transient"},
              run' = I!HandleBlock(left, kind, handle)
       PROVE  TasksInv'
  <2>1. Onward(left, run') /\ run'.status \in {"Ready", "Done", "Blocked"}
    BY <1>4, <1>8, <1>10, <1>12, BlockKeeps
  <2>2. Onward(run, run') /\ run'.status # "Running"
    BY <1>9, <1>10, <2>1, OnwardOnward
  <2>3. QED
    BY <1>1, <1>6, <2>2, OnwardTick
<1>13. CASE run' = I!StopOnBlock(failed, handle)
  <2>1. failed \in TaskRuns /\ Matched(failed) /\ Explained(failed)
    BY <1>11 DEF Onward
  <2> HIDE DEF failed
  <2>2. Onward(failed, run') /\ run'.status = "Blocked"
    BY <1>4, <1>13, <2>1, StopKeeps
  <2>3. Onward(run, run') /\ run'.status # "Running"
    BY <1>10, <1>11, <2>2, OnwardOnward
  <2>4. QED
    BY <1>1, <1>6, <2>3, OnwardTick
<1>14. CASE run' = I!Event([failed EXCEPT !.status = "Ready", !.block = handle], "retry", None)
  <2> DEFINE again == [failed EXCEPT !.status = "Ready", !.block = handle]
  <2>1. failed \in TaskRuns /\ Matched(failed) /\ Explained(failed)
    BY <1>11 DEF Onward
  <2>2. /\ again \in TaskRuns
        /\ again.log = failed.log /\ again.attempts = failed.attempts
        /\ again.accepted = failed.accepted /\ again.runs = failed.runs
        /\ again.cancelled = failed.cancelled /\ again.visit = failed.visit
        /\ again.current = failed.current /\ again.routed = failed.routed
        /\ again.status = "Ready"
    <3> HIDE DEF failed
    <3>1. QED
      BY <1>4, <2>1 DEF TaskRuns
  <2> HIDE DEF failed, again
  <2>3. Matched(again) /\ Explained(again)
    BY <2>1, <2>2, SameMatched, SameExplained
  <2>4. Onward(failed, again)
    BY <2>2, <2>3 DEF Onward, SameVisit
  <2>5. "retry" \in Words \ {"started", "step_done", "route"} /\ None \in Fields
    BY DEF Words, Fields
  <2>6. Onward(again, run') /\ run'.status = "Ready"
    BY <1>14, <2>2, <2>3, <2>5, EventKeeps DEF again
  <2>7. Onward(run, run') /\ run'.status # "Running"
    BY <1>10, <1>11, <2>4, <2>6, OnwardOnward
  <2>8. QED
    BY <1>1, <1>6, <2>7, OnwardTick
<1>15. ASSUME result = "done",
              NEW done, done = AsDone(left, handle),
              run' = I!Transition(done, Plan[run.current].next, None)
       PROVE  TasksInv'
  <2>1. /\ done \in TaskRuns /\ Matched(done) /\ Explained(done) /\ SameVisit(left, done)
        /\ done.runs = left.runs /\ done.attempts = left.attempts
        /\ done.cancelled = left.cancelled
        /\ \A s \in I!PlanSteps : s # left.current => done.accepted[s] = left.accepted[s]
    <3>1. /\ left.attempts # <<>> /\ left.attempts[Len(left.attempts)] = handle
          /\ handle[1] = left.current
      BY <1>3, <1>8
    <3>2. left \in TaskRuns /\ Matched(left) /\ Explained(left)
      BY <1>8, <1>10
    <3>3. QED
      BY ONLY <1>4, <1>15, <3>1, <3>2, DoneKeeps
  <2> DEFINE next == Plan[run.current].next
  <2>2. next \in I!PlanSteps \cup {None} /\ Recent(done, None)
    BY <1>2 DEF TaskRuns, I!TasksAssumption, Recent
  <2> HIDE DEF next
  <2>3. Onward(done, run') /\ run'.status \in {"Ready", "Done"}
    BY <1>15, <2>1, <2>2, TransitionKeeps DEF next
  <2>4. /\ run' \in TaskRuns /\ Matched(run') /\ Explained(run')
        /\ run'.accepted = done.accepted /\ run'.runs = run.runs
        /\ ~run'.cancelled /\ run'.status # "Running"
    BY <1>1, <1>8, <2>1, <2>3 DEF Onward
  <2>5. AtWork(run')
    BY <2>4 DEF AtWork
  <2>6. SameVisit(run, run')
    <3>1. run'.visit \in Nat /\ done.visit \in Nat
      BY <2>1, <2>4 DEF TaskRuns
    <3>2. SameVisit(done, run')
      BY <2>3 DEF Onward
    <3>3. QED
      BY <1>8, <1>10, <2>1, <3>1, <3>2 DEF SameVisit
  <2>7. \A s \in I!PlanSteps : run.runs[s] <= run'.runs[s]
    BY <1>2, <2>4 DEF TaskRuns
  <2>8. \A s \in I!PlanSteps :
          s \notin DOMAIN seen'.completed => run'.accepted[s] = run.accepted[s]
    BY <1>6, <1>8, <1>15, <2>1, <2>4
  <2>9. DOMAIN tasks' \subseteq Handles
    BY <1>1 DEF TasksInv, Asked
  <2>10. QED
    BY <1>1, <1>6, <2>4, <2>5, <2>6, <2>7, <2>8, <2>9, TickKeeps
<1>16. ASSUME result = "done", run' \in I!Checked(left, handle)
       PROVE  TasksInv'
  <2> DEFINE done == AsDone(left, handle)
  <2>1. \/ run' = I!StopOnBlock(failed, handle)
        \/ run' = I!Transition(done, Plan[run.current].next, None)
        \/ run' = I!HandleBlock(left, "transient", handle)
        \/ run' = I!Event([failed EXCEPT !.status = "Ready", !.block = handle], "retry", None)
    BY <1>8, <1>16 DEF I!Checked, AsDone
  <2> HIDE DEF failed
  <2>2. CASE run' = I!Transition(done, Plan[run.current].next, None)
    BY <1>15, <1>16, <2>2
  <2>3. QED
    BY <1>12, <1>13, <1>14, <2>1, <2>2
<1>17. QED
  BY <1>7, <1>12, <1>16

\* What was asked for is counted before it is tried.
CountedIn(r) == [r EXCEPT !.runs[r.current] = @ + 1]
LEMMA CountedKeeps ==
  ASSUME NEW r \in TaskRuns, Matched(r), Explained(r), NEW q, q = CountedIn(r)
  PROVE  /\ q \in TaskRuns /\ Matched(q) /\ Explained(q)
         /\ q.log = r.log /\ q.attempts = r.attempts /\ q.accepted = r.accepted
         /\ q.cancelled = r.cancelled /\ q.visit = r.visit /\ q.current = r.current
         /\ q.routed = r.routed /\ q.status = r.status
         /\ q.runs[r.current] = r.runs[r.current] + 1
         /\ \A s \in I!PlanSteps : r.runs[s] <= q.runs[s]
<1> DEFINE runs == [r.runs EXCEPT ![r.current] = @ + 1]
<1>1. r.runs \in [I!PlanSteps -> Nat] /\ r.current \in I!PlanSteps
  BY DEF TaskRuns
<1>2. /\ runs \in [I!PlanSteps -> Nat] /\ runs[r.current] = r.runs[r.current] + 1
      /\ \A s \in I!PlanSteps : r.runs[s] <= runs[s]
  BY <1>1
<1>3. q = [r EXCEPT !.runs = runs]
  BY DEF CountedIn, TaskRuns
<1> HIDE DEF runs
<1>4. /\ q \in TaskRuns /\ q.runs = runs
      /\ q.log = r.log /\ q.attempts = r.attempts /\ q.accepted = r.accepted
      /\ q.cancelled = r.cancelled /\ q.visit = r.visit /\ q.current = r.current
      /\ q.routed = r.routed /\ q.status = r.status
  BY <1>2, <1>3 DEF TaskRuns
<1>5. Matched(q) /\ Explained(q)
  BY <1>4, SameMatched, SameExplained
<1>6. QED
  BY <1>2, <1>4, <1>5

LEMMA WrittenKeeps ==
  ASSUME TasksInv, NEW h \in Handles, NEW task, I!Written(h, task),
         h[2] <= run'.runs[h[1]]
  PROVE  /\ fresh \subseteq fresh' /\ DOMAIN tasks' \subseteq Handles
         /\ \A x \in DOMAIN tasks' :
              x \in DOMAIN tasks \/ (x \in fresh' /\ x[2] <= run'.runs[x[1]])
<1>1. /\ DOMAIN tasks' = DOMAIN tasks \cup {h}
      /\ fresh' = IF h \in DOMAIN tasks THEN fresh ELSE fresh \cup {h}
  BY DEF I!Written, I!With
<1>2. DOMAIN tasks \subseteq Handles
  BY DEF TasksInv, Asked
<1>3. QED
  BY <1>1, <1>2

\* What a step that counts leaves to be shown.
LEMMA CountedTick ==
  ASSUME TasksInv, phase = "advancing", phase' \in {"advancing", "returned"},
         ~run.cancelled, NEW m, m = CountedIn(run), Onward(m, run'),
         run'.status # "Running",
         UNCHANGED <<saved, results, seen, stale>>,
         \/ UNCHANGED <<tasks, fresh>>
         \/ \E task : I!Written(<<run.current, run.runs[run.current] + 1>>, task)
  PROVE  TasksInv'
<1>1. run \in TaskRuns /\ Matched(run) /\ Explained(run)
  BY DEF TasksInv, Sound
<1>2. /\ m \in TaskRuns /\ m.accepted = run.accepted
      /\ m.cancelled = run.cancelled /\ m.visit = run.visit /\ m.current = run.current
      /\ m.routed = run.routed /\ m.runs[run.current] = run.runs[run.current] + 1
      /\ \A s \in I!PlanSteps : run.runs[s] <= m.runs[s]
  BY <1>1, CountedKeeps
<1>3. /\ run' \in TaskRuns /\ Matched(run') /\ Explained(run')
      /\ run'.accepted = run.accepted /\ run'.runs = m.runs /\ ~run'.cancelled
  BY <1>2 DEF Onward
<1>4. SameVisit(run, run')
  BY <1>2 DEF Onward, SameVisit
<1>5. AtWork(run')
  BY <1>3 DEF AtWork
<1> DEFINE h == <<run.current, run.runs[run.current] + 1>>
<1>6. h \in Handles /\ h[2] <= run'.runs[h[1]]
  <2>1. run.current \in I!PlanSteps /\ run.runs[run.current] + 1 \in Nat
    BY <1>1 DEF TaskRuns
  <2>2. QED
    BY <1>2, <1>3, <2>1 DEF Handles
<1> HIDE DEF h
<1>7. /\ fresh \subseteq fresh' /\ DOMAIN tasks' \subseteq Handles
      /\ \A x \in DOMAIN tasks' :
           x \in DOMAIN tasks \/ (x \in fresh' /\ x[2] <= run'.runs[x[1]])
  <2>1. CASE UNCHANGED <<tasks, fresh>>
    BY <2>1 DEF TasksInv, Asked
  <2>2. CASE \E task : I!Written(h, task)
    BY <1>6, <2>2, WrittenKeeps
  <2>3. QED
    BY <2>1, <2>2 DEF h
<1>8. \A s \in I!PlanSteps : run.runs[s] <= run'.runs[s]
  BY <1>2, <1>3
<1>9. QED
  BY <1>3, <1>4, <1>5, <1>7, <1>8, TickKeeps

\* An attempt starts: it is counted, written down and taken up.
LEMMA StartsKeeps ==
  ASSUME I!TasksAssumption, TasksInv, I!Starts
  PROVE  TasksInv'
<1> DEFINE h == <<run.current, run.runs[run.current] + 1>>
           c == I!Counted(run.current)
           m == [c EXCEPT !.active = h, !.status = "Running", !.block = None,
                          !.asked = FALSE, !.attempts = Append(@, h)]
           e == EntryOf(m, "started", None)
<1>1. /\ phase = "advancing" /\ ~run.cancelled /\ phase' = "returned"
      /\ Plan[run.current].kind = "bot" /\ I!Written(h, I!Task(run.current))
      /\ run' = I!Event(m, "started", None)
      /\ UNCHANGED <<saved, results, seen, stale>>
  BY DEF I!Starts, I!MayRun, I!Advancing, I!Attempt
<1>2. run \in TaskRuns /\ Matched(run) /\ Explained(run)
  BY DEF TasksInv, Sound
<1>3. c = CountedIn(run)
  BY DEF I!Counted, CountedIn
<1> HIDE DEF c
<1>4. /\ c \in TaskRuns /\ Matched(c)
      /\ c.log = run.log /\ c.attempts = run.attempts /\ c.accepted = run.accepted
      /\ c.cancelled = run.cancelled /\ c.visit = run.visit /\ c.current = run.current
      /\ c.routed = run.routed /\ c.runs[run.current] = run.runs[run.current] + 1
      /\ \A s \in I!PlanSteps : run.runs[s] <= c.runs[s]
  BY <1>2, <1>3, CountedKeeps
<1>5. h \in Handles /\ h[1] = run.current /\ h[2] = run.runs[run.current] + 1
  <2>1. run.current \in I!PlanSteps /\ run.runs[run.current] + 1 \in Nat
    BY <1>2 DEF TaskRuns
  <2>2. QED
    BY <2>1 DEF Handles
<1> HIDE DEF h
<1> DEFINE attempts == Append(c.attempts, h)
<1>6. attempts \in Seq(Handles) /\ c.attempts \in Seq(Handles)
  <2>1. c.attempts \in Seq(Handles)
    BY <1>4 DEF TaskRuns
  <2>2. QED
    BY <1>5, <2>1
<1>7. m = [c EXCEPT !.active = h, !.status = "Running", !.block = None, !.asked = FALSE,
                    !.attempts = attempts]
  BY <1>4 DEF TaskRuns
<1> HIDE DEF m, attempts
<1>8. /\ m \in TaskRuns /\ m.log = run.log /\ m.attempts = attempts
      /\ m.accepted = run.accepted /\ m.cancelled = run.cancelled /\ m.visit = run.visit
      /\ m.current = run.current /\ m.routed = run.routed /\ m.runs = c.runs
      /\ m.status = "Running" /\ m.active = h
  BY <1>4, <1>5, <1>6, <1>7 DEF TaskRuns
<1>9. "started" \in Words /\ None \in Fields
  BY DEF Words, Fields
<1>10. /\ run' \in TaskRuns /\ run' = [m EXCEPT !.log = Append(m.log, e)]
       /\ Logs(m, run', e)
  BY <1>1, <1>8, <1>9, EventIs
<1>11. e.kind = "started" /\ e.step = h[1]
  BY <1>5, <1>8 DEF EntryOf
<1> HIDE DEF e
<1>12. /\ run'.attempts = attempts /\ run'.accepted = run.accepted
       /\ ~run'.cancelled /\ run'.visit = run.visit /\ run'.current = run.current
       /\ run'.routed = run.routed /\ run'.runs = c.runs /\ run'.active = h
  BY <1>1, <1>8, <1>10 DEF TaskRuns
<1>13. Logs(run, run', e) /\ Launches(run, run', h)
  BY <1>4, <1>5, <1>6, <1>8, <1>10, <1>12 DEF Logs, Launches, attempts
<1>14. ASSUME NEW s \in I!PlanSteps
       PROVE  /\ Cardinality(I!EventsOf(run', s, "started"))
                   = Cardinality(I!AttemptsOf(run', s))
              /\ I!Accepted(run', s) = run'.accepted[s]
  <2>1. /\ Cardinality(I!EventsOf(run, s, "started")) = Cardinality(I!AttemptsOf(run, s))
        /\ I!Accepted(run, s) = run.accepted[s]
    BY <1>2 DEF Matched
  <2>2. /\ Cardinality(I!EventsOf(run', s, "started"))
             = Cardinality(I!AttemptsOf(run', s))
        /\ I!Accepted(run', s) = I!Accepted(run, s)
    BY ONLY <1>11, <1>13, <2>1, StartKeeps
  <2>3. QED
    BY <1>12, <2>1, <2>2
<1> DEFINE M == Len(c.attempts)
<1>15. /\ M \in Nat /\ DOMAIN attempts = 1 .. M + 1 /\ Len(attempts) = M + 1
       /\ attempts[M + 1] = h /\ \A n \in 1 .. M : attempts[n] = run.attempts[n]
       /\ DOMAIN run.attempts = 1 .. M /\ attempts # <<>>
  BY <1>4, <1>6 DEF attempts
<1>16. Matched(run')
  <2>1. ASSUME NEW n \in DOMAIN run'.attempts
        PROVE  Plan[run'.attempts[n][1]].kind = "bot"
    <3>1. CASE n = M + 1
      BY <1>1, <1>5, <1>12, <1>15, <3>1
    <3>2. CASE n # M + 1
      <4>1. n \in DOMAIN run.attempts /\ run'.attempts[n] = run.attempts[n]
        BY <1>12, <1>15, <2>1, <3>2
      <4>2. QED
        BY <1>2, <4>1 DEF Matched
    <3>3. QED
      BY <3>1, <3>2
  <2>2. QED
    BY <1>14, <2>1 DEF Matched
<1>17. Explained(run')
  BY <1>2, <1>11, <1>12, <1>13, OtherExplained
<1>18. AtWork(run')
  <2>1. run'.attempts # <<>> /\ run'.active = run'.attempts[Len(run'.attempts)]
    BY <1>12, <1>15
  <2>2. QED
    BY <1>5, <1>12, <2>1 DEF AtWork
<1>19. SameVisit(run, run')
  BY <1>12 DEF SameVisit
<1>20. /\ fresh \subseteq fresh' /\ DOMAIN tasks' \subseteq Handles
       /\ \A x \in DOMAIN tasks' :
            x \in DOMAIN tasks \/ (x \in fresh' /\ x[2] <= run'.runs[x[1]])
  <2>1. h[2] <= run'.runs[h[1]]
    <3>1. run'.runs[h[1]] = h[2] /\ h[2] \in Nat
      BY <1>4, <1>5, <1>12 DEF Handles
    <3>2. QED
      BY <3>1
  <2>2. QED
    BY <1>1, <1>5, <2>1, WrittenKeeps
<1>21. \A s \in I!PlanSteps : run.runs[s] <= run'.runs[s]
  BY <1>4, <1>12
<1>22. QED
  BY <1>1, <1>10, <1>12, <1>16, <1>17, <1>18, <1>19, <1>20, <1>21, TickKeeps

\* A run that differs in what neither its log nor its visit says.
LEMMA MinorKeeps ==
  ASSUME NEW r, Matched(r), Explained(r), NEW q \in TaskRuns,
         q.log = r.log, q.attempts = r.attempts, q.accepted = r.accepted,
         q.runs = r.runs, q.cancelled = r.cancelled, q.visit = r.visit,
         q.current = r.current, q.routed = r.routed
  PROVE  Onward(r, q)
<1>1. Matched(q) /\ Explained(q)
  BY SameMatched, SameExplained
<1>2. QED
  BY <1>1 DEF Onward, SameVisit

LEMMA StartFailsKeeps ==
  ASSUME I!TasksAssumption, TasksInv, I!StartFails
  PROVE  TasksInv'
<1> DEFINE h == <<run.current, run.runs[run.current] + 1>>
           c == I!Counted(run.current)
<1>1. /\ phase = "advancing" /\ ~run.cancelled /\ phase' = "advancing"
      /\ UNCHANGED <<tasks, fresh>> \/ \E task : I!Written(h, task)
      /\ run' = I!HandleBlock(c, "capability", h)
      /\ UNCHANGED <<saved, results, seen, stale>>
  BY DEF I!StartFails, I!MayRun, I!Advancing, I!Attempt
<1>2. run \in TaskRuns /\ Matched(run) /\ Explained(run)
  BY DEF TasksInv, Sound
<1>3. c = CountedIn(run)
  BY DEF I!Counted, CountedIn
<1> HIDE DEF c
<1>4. c \in TaskRuns /\ Matched(c) /\ Explained(c)
  BY <1>2, <1>3, CountedKeeps
<1>5. h \in Handles
  <2>1. run.current \in I!PlanSteps /\ run.runs[run.current] + 1 \in Nat
    BY <1>2 DEF TaskRuns
  <2>2. QED
    BY <2>1 DEF Handles
<1>6. "capability" \in I!BlockKinds
  BY DEF I!BlockKinds
<1>7. Onward(c, run') /\ run'.status \in {"Ready", "Done", "Blocked"}
  <2> HIDE DEF h
  <2>1. QED
    BY <1>1, <1>4, <1>5, <1>6, BlockKeeps
<1>8. run'.status # "Running"
  BY <1>7
<1>9. QED
  BY <1>1, <1>3, <1>7, <1>8, CountedTick

LEMMA OpensGateKeeps ==
  ASSUME TasksInv, I!OpensGate
  PROVE  TasksInv'
<1> DEFINE c == I!Counted(run.current)
           m == [c EXCEPT !.status = "Gate"]
<1>1. /\ phase = "advancing" /\ ~run.cancelled /\ phase' = "advancing"
      /\ run' = I!Event(m, "gate", None)
      /\ UNCHANGED <<saved, results, tasks, seen, fresh, stale>>
  BY DEF I!OpensGate, I!MayRun, I!Advancing
<1>2. run \in TaskRuns /\ Matched(run) /\ Explained(run)
  BY DEF TasksInv, Sound
<1>3. c = CountedIn(run)
  BY DEF I!Counted, CountedIn
<1> HIDE DEF c
<1>4. c \in TaskRuns /\ Matched(c) /\ Explained(c)
  BY <1>2, <1>3, CountedKeeps
<1>5. /\ m \in TaskRuns /\ m.log = c.log /\ m.attempts = c.attempts
      /\ m.accepted = c.accepted /\ m.runs = c.runs /\ m.cancelled = c.cancelled
      /\ m.visit = c.visit /\ m.current = c.current /\ m.routed = c.routed
      /\ m.status = "Gate"
  BY <1>4 DEF TaskRuns
<1> HIDE DEF m
<1>6. Onward(c, m)
  BY <1>4, <1>5, MinorKeeps
<1>7. "gate" \in Words \ {"started", "step_done", "route"} /\ None \in Fields
  BY DEF Words, Fields
<1>8. Onward(m, run') /\ run'.status = "Gate"
  BY <1>1, <1>5, <1>6, <1>7, EventKeeps DEF Onward
<1>9. Onward(c, run')
  BY <1>4, <1>6, <1>8, OnwardOnward DEF TaskRuns
<1>10. QED
  BY <1>1, <1>3, <1>8, <1>9, CountedTick

LEMMA PollsGateKeeps ==
  ASSUME I!TasksAssumption, TasksInv, I!PollsGate
  PROVE  TasksInv'
<1> DEFINE h == <<run.current, run.runs[run.current]>>
           m == I!Event(run, "gate", None)
           next == Plan[run.current].next
<1>1. /\ phase = "advancing" /\ ~run.cancelled /\ phase' \in {"advancing", "returned"}
      /\ run.status = "Gate" /\ \E task : I!Written(h, task)
      /\ run' = run \/ run' = I!Transition(m, next, None)
      /\ UNCHANGED <<saved, results, seen, stale>>
  BY DEF I!PollsGate, I!Advancing
<1>2. run \in TaskRuns /\ Matched(run) /\ Explained(run)
  BY DEF TasksInv, Sound
<1>3. "gate" \in Words \ {"started", "step_done", "route"} /\ None \in Fields
  BY DEF Words, Fields
<1>4. Onward(run, m)
  BY <1>2, <1>3, EventKeeps
<1>5. next \in I!PlanSteps \cup {None} /\ Recent(m, None)
  BY <1>2 DEF TaskRuns, I!TasksAssumption, Recent
<1> HIDE DEF m, next
<1>6. Onward(run, run') /\ run'.status # "Running"
  <2>1. CASE run' = run
    BY <1>1, <1>2, <2>1, MinorKeeps
  <2>2. CASE run' = I!Transition(m, next, None)
    <3>1. m \in TaskRuns /\ Matched(m) /\ Explained(m)
      BY <1>4 DEF Onward
    <3>2. Onward(m, run') /\ run'.status \in {"Ready", "Done"}
      BY <1>5, <2>2, <3>1, TransitionKeeps
    <3>3. QED
      BY <1>2, <1>4, <3>2, OnwardOnward DEF TaskRuns
  <2>3. QED
    BY <1>1, <2>1, <2>2
<1>7. /\ run' \in TaskRuns /\ Matched(run') /\ Explained(run') /\ SameVisit(run, run')
      /\ run'.runs = run.runs /\ run'.accepted = run.accepted /\ ~run'.cancelled
  BY <1>1, <1>6 DEF Onward
<1>8. AtWork(run')
  BY <1>6, <1>7 DEF AtWork
<1>9. \A s \in I!PlanSteps : run.runs[s] <= run'.runs[s]
  BY <1>2, <1>7 DEF TaskRuns
<1>10. h \in Handles /\ h[2] <= run'.runs[h[1]]
  <2>1. run.current \in I!PlanSteps /\ run.runs[run.current] \in Nat
    BY <1>2 DEF TaskRuns
  <2>2. QED
    BY <1>7, <2>1 DEF Handles
<1> HIDE DEF h
<1>11. PICK task : I!Written(h, task)
  BY <1>1
<1>12. /\ fresh \subseteq fresh' /\ DOMAIN tasks' \subseteq Handles
       /\ \A x \in DOMAIN tasks' :
            x \in DOMAIN tasks \/ (x \in fresh' /\ x[2] <= run'.runs[x[1]])
  BY <1>10, <1>11, WrittenKeeps
<1>13. QED
  BY <1>1, <1>6, <1>7, <1>8, <1>9, <1>12, TickKeeps

\* A pull request is no attempt of a worker, and none is accepted with it.
LEMMA OpensPrKeeps ==
  ASSUME I!TasksAssumption, TasksInv, I!OpensPr
  PROVE  TasksInv'
<1> DEFINE h == <<run.current, run.runs[run.current] + 1>>
           c == I!Counted(run.current)
           m == I!Event(c, "step_done", None)
           e == EntryOf(c, "step_done", None)
           next == Plan[run.current].next
<1>1. /\ phase = "advancing" /\ ~run.cancelled /\ phase' = "advancing"
      /\ Plan[run.current].kind = "open_pr" /\ \E task : I!Written(h, task)
      /\ run' = I!Transition(m, next, None)
      /\ UNCHANGED <<saved, results, seen, stale>>
  BY DEF I!OpensPr, I!MayRun, I!Advancing, I!Attempt
<1>2. run \in TaskRuns /\ Matched(run) /\ Explained(run)
  BY DEF TasksInv, Sound
<1>3. c = CountedIn(run)
  BY DEF I!Counted, CountedIn
<1>4. next \in I!PlanSteps \cup {None} /\ Recent(m, None)
  BY <1>2 DEF TaskRuns, I!TasksAssumption, Recent
<1> HIDE DEF c, next
<1>5. c \in TaskRuns /\ Matched(c) /\ Explained(c) /\ c.current = run.current
  BY <1>2, <1>3, CountedKeeps
<1>6. "step_done" \in Words /\ None \in Fields
  BY DEF Words, Fields
<1>7. m \in TaskRuns /\ m = [c EXCEPT !.log = Append(c.log, e)] /\ Logs(c, m, e)
  BY <1>5, <1>6, EventIs
<1>8. e.kind = "step_done" /\ e.step = run.current
  BY <1>5 DEF EntryOf
<1> HIDE DEF m, e
<1>9. /\ m.attempts = c.attempts /\ m.accepted = c.accepted /\ m.runs = c.runs
      /\ m.cancelled = c.cancelled /\ m.visit = c.visit /\ m.current = c.current
      /\ m.routed = c.routed
  BY <1>5, <1>7 DEF TaskRuns
<1>10. ASSUME NEW s \in I!PlanSteps
       PROVE  /\ Cardinality(I!EventsOf(m, s, "started"))
                   = Cardinality(I!AttemptsOf(m, s))
              /\ I!Accepted(m, s) = m.accepted[s]
  <2>1. /\ Cardinality(I!EventsOf(c, s, "started")) = Cardinality(I!AttemptsOf(c, s))
        /\ I!Accepted(c, s) = c.accepted[s]
    BY <1>5 DEF Matched
  <2>2. m.attempts = c.attempts /\ Logs(c, m, e)
    BY <1>7, <1>9
  <2>3. CASE s = run.current
    <3>1. I!AttemptsOf(c, s) = {} /\ I!AttemptsOf(m, s) = {}
      <4>1. \A n \in DOMAIN c.attempts : c.attempts[n][1] # s
        BY <1>1, <1>5, <2>3 DEF Matched
      <4>2. QED
        BY <2>2, <4>1 DEF I!AttemptsOf
    <3>2. I!Accepted(c, s) = 0 /\ I!Accepted(m, s) = 0
      BY <3>1, NoneStarted
    <3>3. Cardinality(I!EventsOf(m, s, "started")) = Cardinality(I!AttemptsOf(m, s))
      <4>1. e.kind = "step_done" /\ e.step = s /\ c.attempts \in Seq(Handles)
        BY <1>5, <1>8, <2>3 DEF TaskRuns
      <4>2. QED
        BY ONLY <2>1, <2>2, <4>1, EndAccepts
    <3>4. QED
      BY <1>9, <2>1, <3>2, <3>3
  <2>4. CASE s # run.current
    <3>1. e.step # s
      BY <1>8, <2>4
    <3>2. /\ I!EventsOf(m, s, "started") = I!EventsOf(c, s, "started")
          /\ I!AttemptsOf(m, s) = I!AttemptsOf(c, s)
          /\ I!Accepted(m, s) = I!Accepted(c, s)
      BY ONLY <2>2, <3>1, OtherEvents
    <3>3. QED
      BY <1>9, <2>1, <3>2
  <2>5. QED
    BY <2>3, <2>4
<1>11. Matched(m)
  BY <1>5, <1>9, <1>10 DEF Matched
<1>12. Explained(m)
  BY <1>5, <1>7, <1>8, <1>9, OtherExplained
<1>13. Onward(c, m)
  BY <1>7, <1>9, <1>11, <1>12 DEF Onward, SameVisit
<1>14. Onward(m, run') /\ run'.status \in {"Ready", "Done"}
  BY <1>1, <1>4, <1>7, <1>11, <1>12, TransitionKeeps
<1>15. Onward(c, run') /\ run'.status # "Running"
  BY <1>5, <1>13, <1>14, OnwardOnward DEF TaskRuns
<1>16. QED
  BY <1>1, <1>3, <1>15, CountedTick

\* An answer, and the end of a worker whose run was cancelled.
LEMMA AnsweredKeeps ==
  ASSUME TasksInv, I!Answered
  PROVE  TasksInv'
<1> DEFINE m == [run EXCEPT !.status = "Ready", !.block = None]
<1>1. /\ phase = "advancing" /\ ~run.cancelled /\ phase' = "advancing"
      /\ run' = I!Event(m, "answer", None)
      /\ UNCHANGED <<saved, results, tasks, seen, fresh, stale>>
  BY DEF I!Answered, I!Advancing
<1>2. run \in TaskRuns /\ Matched(run) /\ Explained(run)
  BY DEF TasksInv, Sound
<1>3. /\ m \in TaskRuns /\ m.log = run.log /\ m.attempts = run.attempts
      /\ m.accepted = run.accepted /\ m.runs = run.runs /\ m.cancelled = run.cancelled
      /\ m.visit = run.visit /\ m.current = run.current /\ m.routed = run.routed
      /\ m.status = "Ready"
  BY <1>2 DEF TaskRuns
<1> HIDE DEF m
<1>4. Onward(run, m)
  BY <1>2, <1>3, MinorKeeps
<1>5. "answer" \in Words \ {"started", "step_done", "route"} /\ None \in Fields
  BY DEF Words, Fields
<1>6. Onward(m, run') /\ run'.status = "Ready"
  BY <1>1, <1>3, <1>4, <1>5, EventKeeps DEF Onward
<1>7. Onward(run, run') /\ run'.status # "Running"
  BY <1>2, <1>4, <1>6, OnwardOnward DEF TaskRuns
<1>8. QED
  BY <1>1, <1>7, OnwardTick

LEMMA SettlesKeeps ==
  ASSUME TasksInv, I!Settles
  PROVE  TasksInv'
<1> DEFINE m == [run EXCEPT !.active = None]
<1>1. /\ phase = "advancing" /\ run.cancelled /\ phase' = "advancing"
      /\ run' = I!Event(m, "settled", None)
      /\ UNCHANGED <<saved, results, tasks, seen, fresh, stale>>
  BY DEF I!Settles
<1>2. run \in TaskRuns /\ Matched(run) /\ Explained(run) /\ run.status = "Blocked"
  BY <1>1 DEF TasksInv, Sound, AtWork
<1>3. /\ m \in TaskRuns /\ m.log = run.log /\ m.attempts = run.attempts
      /\ m.accepted = run.accepted /\ m.runs = run.runs /\ m.cancelled = run.cancelled
      /\ m.visit = run.visit /\ m.current = run.current /\ m.routed = run.routed
      /\ m.status = "Blocked"
  BY <1>2 DEF TaskRuns
<1> HIDE DEF m
<1>4. Onward(run, m)
  BY <1>2, <1>3, MinorKeeps
<1>5. "settled" \in Words \ {"started", "step_done", "route"} /\ None \in Fields
  BY DEF Words, Fields
<1>6. Onward(m, run') /\ run'.status = "Blocked"
  BY <1>1, <1>3, <1>4, <1>5, EventKeeps DEF Onward
<1>7. /\ run' \in TaskRuns /\ Matched(run') /\ Explained(run') /\ SameVisit(run, run')
      /\ run'.runs = run.runs /\ run'.accepted = run.accepted
  BY <1>2, <1>4, <1>6, OnwardOnward DEF TaskRuns, Onward
<1>8. AtWork(run') /\ run'.status # "Running"
  BY <1>6 DEF AtWork
<1>9. \A s \in I!PlanSteps : run.runs[s] <= run'.runs[s]
  BY <1>2, <1>7 DEF TaskRuns
<1>10. DOMAIN tasks' \subseteq Handles
  BY <1>1 DEF TasksInv, Asked
<1>11. QED
  BY <1>1, <1>7, <1>8, <1>9, <1>10, TickKeeps
-----------------------------------------------------------------------------
(* The owner's controls, and the ends of a tick.                           *)

LEMMA ControlTick ==
  ASSUME TasksInv, phase = "idle", run' \in TaskRuns, Matched(run'), Explained(run'),
         AtWork(run'), run'.runs = run.runs, saved' = run',
         UNCHANGED <<phase, results, tasks, seen, fresh, stale>>
  PROVE  TasksInv'
<1>1. run = saved /\ seen = I!NothingSeen /\ fresh = {}
  BY DEF TasksInv, InTick
<1>2. Sound(run')
  BY DEF Sound
<1>3. SameVisit(saved', run')
  BY DEF SameVisit
<1>4. \A s \in I!PlanSteps : saved'.runs[s] <= run'.runs[s]
  BY DEF TaskRuns
<1>5. InTick'
  BY <1>1, <1>3, <1>4 DEF InTick, TasksInv
<1>6. Asked'
  BY <1>1 DEF TasksInv, Asked
<1>7. QED
  BY <1>2, <1>5, <1>6 DEF TasksInv

\* A control that writes one event and changes how the run stands.
LEMMA RestsAs ==
  ASSUME TasksInv, phase = "idle", NEW m, m \in TaskRuns,
         m.log = run.log, m.attempts = run.attempts, m.accepted = run.accepted,
         m.runs = run.runs, Explained(m),
         NEW kind \in Words \ {"started", "step_done", "route"},
         run' = I!Event(m, kind, None), AtWork(m), m.status # "Running",
         saved' = run', UNCHANGED <<phase, results, tasks, seen, fresh, stale>>
  PROVE  TasksInv'
<1>1. Matched(m)
  BY SameMatched DEF TasksInv, Sound
<1>2. Onward(m, run') /\ run'.status = m.status
  <2>1. None \in Fields
    BY DEF Fields
  <2>2. QED
    BY <1>1, <2>1, EventKeeps
<1>3. AtWork(run')
  BY <1>2 DEF AtWork, Onward
<1>4. QED
  BY <1>2, <1>3, ControlTick DEF Onward

LEMMA ControlsKeep ==
  ASSUME I!TasksAssumption, TasksInv, I!Controls
  PROVE  TasksInv'
<1>1. phase = "idle" /\ saved' = run' /\ UNCHANGED <<phase, results, tasks, seen, fresh, stale>>
  BY DEF I!Controls
<1>2. run \in TaskRuns /\ Matched(run) /\ Explained(run) /\ AtWork(run)
  BY DEF TasksInv, Sound
<1>3. /\ {"retry", "cancel", "reopen", "override", "approve"}
           \subseteq Words \ {"started", "step_done", "route"}
      /\ None \in Fields /\ <<run.current, 0>> \in Handles
  BY <1>2 DEF Words, Fields, Handles, TaskRuns
<1>4. CASE /\ ~run.cancelled
           /\ run' = I!Event([run EXCEPT !.status = "Ready", !.retries = 0, !.failures = 0,
                                         !.block = None, !.asked = FALSE], "retry", None)
  <2> DEFINE m == [run EXCEPT !.status = "Ready", !.retries = 0, !.failures = 0,
                              !.block = None, !.asked = FALSE]
  <2>1. /\ m \in TaskRuns /\ m.log = run.log /\ m.attempts = run.attempts
        /\ m.accepted = run.accepted /\ m.runs = run.runs /\ m.cancelled = run.cancelled
        /\ m.current = run.current /\ m.routed = run.routed /\ m.status = "Ready"
    BY <1>2 DEF TaskRuns
  <2>2. run' = I!Event(m, "retry", None)
    BY <1>4
  <2> HIDE DEF m
  <2>3. Explained(m) /\ AtWork(m)
    BY <1>2, <1>4, <2>1, SameExplained DEF AtWork
  <2>4. "retry" \in Words \ {"started", "step_done", "route"} /\ m.status # "Running"
    BY <1>3, <2>1
  <2>5. QED
    BY <1>1, <2>1, <2>2, <2>3, <2>4, RestsAs
<1>5. CASE /\ ~run.cancelled
           /\ run' = I!Transition(I!Event(run, "override", None), Plan[run.current].next, None)
  <2> DEFINE m == I!Event(run, "override", None)
             next == Plan[run.current].next
  <2>1. Onward(run, m)
    BY <1>2, <1>3, EventKeeps
  <2>2. next \in I!PlanSteps \cup {None} /\ Recent(m, None)
    BY <1>2 DEF TaskRuns, I!TasksAssumption, Recent
  <2>3. run' = I!Transition(m, next, None)
    BY <1>5
  <2> HIDE DEF m, next
  <2>4. m \in TaskRuns /\ Matched(m) /\ Explained(m)
    BY <2>1 DEF Onward
  <2>5. Onward(m, run') /\ run'.status \in {"Ready", "Done"}
    BY <2>2, <2>3, <2>4, TransitionKeeps
  <2>6. Onward(run, run')
    BY <1>2, <2>1, <2>5, OnwardOnward DEF TaskRuns
  <2>7. run'.cancelled = run.cancelled /\ run'.runs = run.runs
    BY <2>6 DEF Onward
  <2>8. AtWork(run')
    BY <1>5, <2>5, <2>7 DEF AtWork
  <2>9. QED
    BY <1>1, <2>6, <2>7, <2>8, ControlTick DEF Onward
<1>6. CASE /\ run.status = "Gate" /\ Plan[run.current].next # None
           /\ run' = [I!Event(run, "approve", None) EXCEPT
                        !.current = Plan[run.current].next, !.status = "Ready",
                        !.block = None, !.retries = 0, !.failures = 0,
                        !.visit = @ + 1, !.routed = None]
  <2> DEFINE m == I!Event(run, "approve", None)
             next == Plan[run.current].next
             v == m.visit + 1
  <2>1. Onward(run, m)
    BY <1>2, <1>3, EventKeeps
  <2>2. next \in I!PlanSteps
    BY <1>2, <1>6 DEF TaskRuns, I!TasksAssumption
  <2>3. run' = [m EXCEPT !.current = next, !.status = "Ready", !.block = None,
                         !.retries = 0, !.failures = 0, !.visit = v, !.routed = None]
    BY <1>6
  <2> HIDE DEF m, next
  <2>4. m \in TaskRuns /\ Matched(m) /\ m.runs = run.runs /\ m.cancelled = run.cancelled
    BY <2>1 DEF Onward
  <2>5. v \in Nat
    <3>1. m.visit \in Nat
      BY ONLY <2>4 DEF TaskRuns
    <3>2. QED
      BY ONLY <3>1
  <2> HIDE DEF v
  <2>6. /\ run' \in TaskRuns /\ run'.log = m.log /\ run'.attempts = m.attempts
        /\ run'.accepted = m.accepted /\ run'.runs = m.runs
        /\ run'.cancelled = m.cancelled /\ run'.routed = None /\ run'.status = "Ready"
    BY <2>2, <2>3, <2>4, <2>5 DEF TaskRuns
  <2>7. Matched(run')
    BY <2>4, <2>6, SameMatched
  <2>8. Explained(run')
    BY <2>6 DEF Explained
  <2>9. AtWork(run') /\ run'.runs = run.runs
    BY <1>2, <1>6, <2>4, <2>6 DEF AtWork
  <2>10. QED
    BY <1>1, <2>6, <2>7, <2>8, <2>9, ControlTick
<1>7. CASE run' = I!Event([run EXCEPT !.cancelled = TRUE, !.status = "Blocked",
                                      !.block = <<run.current, 0>>], "cancel", None)
  <2> DEFINE b == <<run.current, 0>>
             m == [run EXCEPT !.cancelled = TRUE, !.status = "Blocked", !.block = b]
  <2>1. run' = I!Event(m, "cancel", None) /\ b \in Handles
    BY <1>3, <1>7
  <2> HIDE DEF b
  <2>2. /\ m \in TaskRuns /\ m.log = run.log /\ m.attempts = run.attempts
        /\ m.accepted = run.accepted /\ m.runs = run.runs
        /\ m.current = run.current /\ m.routed = run.routed /\ m.status = "Blocked"
    BY <1>2, <2>1 DEF TaskRuns
  <2> HIDE DEF m
  <2>3. Explained(m) /\ AtWork(m)
    BY <1>2, <2>2, SameExplained DEF AtWork
  <2>4. "cancel" \in Words \ {"started", "step_done", "route"} /\ m.status # "Running"
    BY <1>3, <2>2
  <2>5. QED
    BY <1>1, <2>1, <2>2, <2>3, <2>4, RestsAs
<1>8. CASE /\ run.cancelled
           /\ run' = I!Event([run EXCEPT !.cancelled = FALSE, !.block = <<run.current, 0>>],
                             "reopen", None)
  <2> DEFINE b == <<run.current, 0>>
             m == [run EXCEPT !.cancelled = FALSE, !.block = b]
  <2>1. run' = I!Event(m, "reopen", None) /\ b \in Handles
    BY <1>3, <1>8
  <2> HIDE DEF b
  <2>2. /\ m \in TaskRuns /\ m.log = run.log /\ m.attempts = run.attempts
        /\ m.accepted = run.accepted /\ m.runs = run.runs /\ ~m.cancelled
        /\ m.current = run.current /\ m.routed = run.routed /\ m.status = "Blocked"
    BY <1>2, <1>8, <2>1 DEF TaskRuns, AtWork
  <2> HIDE DEF m
  <2>3. Explained(m) /\ AtWork(m)
    BY <1>2, <2>2, SameExplained DEF AtWork
  <2>4. "reopen" \in Words \ {"started", "step_done", "route"} /\ m.status # "Running"
    BY <1>3, <2>2
  <2>5. QED
    BY <1>1, <2>1, <2>2, <2>3, <2>4, RestsAs
<1>9. QED
  BY <1>4, <1>5, <1>6, <1>7, <1>8 DEF I!Controls

LEMMA BeginsKeeps ==
  ASSUME TasksInv, I!Begins
  PROVE  TasksInv'
<1>1. /\ phase = "idle" /\ phase' = "advancing"
      /\ UNCHANGED <<run, saved, results, tasks, seen, fresh, stale>>
  BY DEF I!Begins
<1>2. InTick'
  BY <1>1 DEF TasksInv, InTick
<1>3. QED
  BY <1>1, <1>2 DEF TasksInv, Asked

LEMMA WorkerEndsKeeps ==
  ASSUME TasksInv, I!WorkerEnds
  PROVE  TasksInv'
<1>1. /\ UNCHANGED <<run, saved, phase, tasks, seen, fresh, stale>>
      /\ \E r \in Results : results' = I!With(results, run.active, r)
  BY DEF I!WorkerEnds
<1>2. \A h \in DOMAIN results' : results'[h] \in Results
  BY <1>1 DEF TasksInv, I!With
<1>3. QED
  BY <1>1, <1>2 DEF TasksInv, InTick, Asked

LEMMA SavesKeeps ==
  ASSUME TasksInv, I!Saves
  PROVE  TasksInv'
<1>1. /\ phase' = "idle" /\ saved' = run /\ run' = run /\ fresh' = {}
      /\ seen' = I!NothingSeen /\ UNCHANGED <<results, tasks, stale>>
  BY DEF I!Saves
<1>2. Sound(run') /\ Sound(saved') /\ run \in TaskRuns /\ saved \in TaskRuns
  BY <1>1 DEF TasksInv, Sound
<1>3. InTick'
  <2>1. SameVisit(saved', run')
    BY <1>1 DEF SameVisit
  <2>2. \A s \in I!PlanSteps : saved'.runs[s] <= run'.runs[s]
    <3>1. \A s \in I!PlanSteps : run.runs[s] \in Nat
      BY <1>2 DEF TaskRuns
    <3>2. saved'.runs = run.runs /\ run'.runs = run.runs
      BY <1>1
    <3>3. QED
      BY <3>1, <3>2
  <2>3. QED
    BY <1>1, <2>1, <2>2 DEF InTick
<1>4. Asked'
  <2>1. ASSUME NEW h \in DOMAIN tasks
        PROVE  h \in stale \/ h[2] <= run.runs[h[1]]
    <3>1. h[1] \in I!PlanSteps /\ h[2] \in Nat
      BY DEF TasksInv, Asked, Handles
    <3>2. /\ saved.runs[h[1]] \in Nat /\ run.runs[h[1]] \in Nat
          /\ saved.runs[h[1]] <= run.runs[h[1]]
      BY <1>2, <3>1 DEF TaskRuns, TasksInv, InTick
    <3>3. h \in stale \/ h[2] <= saved.runs[h[1]] \/ h[2] <= run.runs[h[1]]
      BY DEF TasksInv, Asked
    <3>4. QED
      BY <3>1, <3>2, <3>3
  <2>2. QED
    BY <1>1, <2>1 DEF TasksInv, Asked
<1>5. QED
  BY <1>1, <1>2, <1>3, <1>4 DEF TasksInv

LEMMA ForgetsKeeps ==
  ASSUME TasksInv, I!Forgets
  PROVE  TasksInv'
<1>1. /\ phase' = "idle" /\ saved' = saved /\ run' = saved /\ fresh' = {}
      /\ stale' = stale \cup fresh
      /\ seen' = I!NothingSeen /\ UNCHANGED <<results, tasks>>
  BY DEF I!Forgets
<1>2. Sound(run') /\ Sound(saved') /\ saved \in TaskRuns
  BY <1>1 DEF TasksInv, Sound
<1>3. InTick'
  <2>1. SameVisit(saved', run')
    BY <1>1 DEF SameVisit
  <2>2. \A s \in I!PlanSteps : saved'.runs[s] <= run'.runs[s]
    <3>1. \A s \in I!PlanSteps : saved.runs[s] \in Nat
      BY <1>2 DEF TaskRuns
    <3>2. saved'.runs = saved.runs /\ run'.runs = saved.runs
      BY <1>1
    <3>3. QED
      BY <3>1, <3>2
  <2>3. QED
    BY <1>1, <2>1, <2>2 DEF InTick
<1>4. Asked'
  BY <1>1 DEF TasksInv, Asked
<1>5. QED
  BY <1>1, <1>2, <1>3, <1>4 DEF TasksInv

LEMMA TasksBegin ==
  ASSUME I!TasksAssumption, I!InputsInit
  PROVE  TasksInv
<1>1. /\ run.log = <<>> /\ run.attempts = <<>> /\ run.accepted = [s \in I!PlanSteps |-> 0]
      /\ run.routed = None /\ run.status = "Ready" /\ ~run.cancelled
      /\ saved = run /\ phase = "idle" /\ results = <<>> /\ tasks = <<>>
      /\ seen = I!NothingSeen /\ fresh = {}
  BY DEF I!InputsInit
<1>2. run \in TaskRuns
  BY DEF I!InputsInit, TaskRuns, I!TasksAssumption
<1>3. ASSUME NEW s \in I!PlanSteps
      PROVE  /\ Cardinality(I!EventsOf(run, s, "started")) = Cardinality(I!AttemptsOf(run, s))
             /\ I!Accepted(run, s) = run.accepted[s]
  <2>1. I!EventsOf(run, s, "started") = {} /\ I!AttemptsOf(run, s) = {}
    BY <1>1 DEF I!EventsOf, I!AttemptsOf
  <2>2. I!Accepted(run, s) = 0
    BY <2>1, NoneStarted
  <2>3. QED
    BY <1>1, <2>1, <2>2
<1>4. Matched(run)
  BY <1>1, <1>3 DEF Matched
<1>5. Explained(run) /\ AtWork(run) /\ SameVisit(saved, run)
  BY <1>1 DEF Explained, AtWork, SameVisit
<1>6. \A s \in I!PlanSteps : saved.runs[s] <= run.runs[s]
  BY <1>1, <1>2 DEF TaskRuns
<1>7. InTick
  BY <1>1, <1>5, <1>6 DEF InTick
<1>8. DOMAIN tasks = {} /\ DOMAIN results = {}
  BY <1>1
<1>9. QED
  BY <1>1, <1>2, <1>4, <1>5, <1>7, <1>8 DEF TasksInv, Sound, Asked

LEMMA TasksInvariance ==
  ASSUME I!TasksAssumption
  PROVE  I!InputsSpec => []TasksInv
<1>1. I!InputsInit => TasksInv
  BY TasksBegin
<1>2. TasksInv /\ [I!InputsNext]_I!ivars => TasksInv'
  <2>1. SUFFICES ASSUME TasksInv, [I!InputsNext]_I!ivars PROVE TasksInv'
    OBVIOUS
  <2>2. CASE I!Begins
    BY <2>1, <2>2, BeginsKeeps
  <2>3. CASE I!WorkerEnds
    BY <2>1, <2>3, WorkerEndsKeeps
  <2>4. CASE I!Polls
    BY <2>1, <2>4, PollsKeeps
  <2>5. CASE I!Starts
    BY <2>1, <2>5, StartsKeeps
  <2>6. CASE I!StartFails
    BY <2>1, <2>6, StartFailsKeeps
  <2>7. CASE I!OpensGate
    BY <2>1, <2>7, OpensGateKeeps
  <2>8. CASE I!PollsGate
    BY <2>1, <2>8, PollsGateKeeps
  <2>9. CASE I!OpensPr
    BY <2>1, <2>9, OpensPrKeeps
  <2>10. CASE I!Answered
    BY <2>1, <2>10, AnsweredKeeps
  <2>11. CASE I!Settles
    BY <2>1, <2>11, SettlesKeeps
  <2>12. CASE I!Saves
    BY <2>1, <2>12, SavesKeeps
  <2>13. CASE I!Forgets
    BY <2>1, <2>13, ForgetsKeeps
  <2>14. CASE I!Controls
    BY <2>1, <2>14, ControlsKeep
  <2>15. CASE UNCHANGED I!ivars
    BY <2>1, <2>15 DEF I!ivars, TasksInv, InTick, Asked
  <2>16. QED
    BY <2>1, <2>2, <2>3, <2>4, <2>5, <2>6, <2>7, <2>8, <2>9, <2>10, <2>11, <2>12,
       <2>13, <2>14, <2>15 DEF I!InputsNext
<1>3. QED
  BY <1>1, <1>2, PTL DEF I!InputsSpec
-----------------------------------------------------------------------------
(* What is given, and why.                                                 *)

LEMMA ProducerIs ==
  ASSUME TasksInv, NEW p \in I!PlanSteps
  PROVE  \/ I!Producer(p) = run.accepted[p]
         \/ p \in DOMAIN seen.completed /\ I!Producer(p) = seen.completed[p]
<1>1. I!Accepted(saved, p) = saved.accepted[p]
  BY DEF TasksInv, Sound, Matched
<1>2. p \notin DOMAIN seen.completed => run.accepted[p] = saved.accepted[p]
  BY DEF TasksInv, InTick
<1>3. QED
  BY <1>1, <1>2 DEF I!Producer

LEMMA WrittenGives ==
  ASSUME NEW h, NEW task, I!Written(h, task)
  PROVE  /\ h \notin DOMAIN tasks => tasks'[h] = task
         /\ \A x \in fresh' \ fresh : x = h /\ tasks'[x] = task
<1>1. /\ tasks' = I!With(tasks, h, task)
      /\ fresh' = IF h \in DOMAIN tasks THEN fresh ELSE fresh \cup {h}
  BY DEF I!Written
<1>2. h \notin DOMAIN tasks => tasks'[h] = task
  BY <1>1 DEF I!With
<1>3. QED
  BY <1>1, <1>2

\* Inputs as a task of the present tick gives them.
Due(inputs) ==
  \A p \in DOMAIN inputs :
    \/ inputs[p] = run.accepted[p]
    \/ p \in DOMAIN seen.completed /\ inputs[p] = seen.completed[p]

LEMMA ProducedIsDue ==
  ASSUME TasksInv, NEW S, S \subseteq I!PlanSteps
  PROVE  Due([p \in S |-> I!Producer(p)])
  BY ProducerIs DEF Due

LEMMA TaskIsDue ==
  ASSUME I!TasksAssumption, TasksInv
  PROVE  /\ Due(I!Task(run.current).inputs)
         /\ DOMAIN I!Task(run.current).inputs = Plan[run.current].inputs
<1>1. I!Task(run.current).inputs = [p \in Plan[run.current].inputs |-> I!Producer(p)]
  BY DEF I!Task
<1>2. Plan[run.current].inputs \subseteq I!PlanSteps
  BY DEF TasksInv, Sound, TaskRuns, I!TasksAssumption
<1>3. QED
  BY <1>1, <1>2, ProducedIsDue

(* A worker is given, and a gate publishes, what the attempt produced that *)
(* was accepted last, or what was seen to end in this tick, for every      *)
(* workflow whose inputs are steps and whatever is refused, retried,       *)
(* cancelled or forgotten.                                                 *)
THEOREM AcceptedIsGiven ==
  ASSUME I!TasksAssumption
  PROVE  I!InputsSpec => I!GivenAccepted
<1>1. ASSUME TasksInv, I!InputsNext, NEW h \in fresh' \ fresh
      PROVE  Due(tasks'[h].inputs)
  <2>1. CASE I!Starts
    BY <1>1, <2>1, WrittenGives, TaskIsDue DEF I!Starts
  <2>2. CASE I!StartFails
    BY <1>1, <2>2, WrittenGives, TaskIsDue DEF I!StartFails
  <2>3. CASE I!OpensPr
    BY <1>1, <2>3, WrittenGives, TaskIsDue DEF I!OpensPr
  <2>4. CASE I!PollsGate
    <3> DEFINE asked == <<run.current, run.runs[run.current]>>
               found == {p \in Plan[run.current].inputs : I!Producer(p) # 0}
               inputs == [p \in found |-> I!Producer(p)]
               task == [inputs |-> inputs, reason |-> None]
    <3>1. I!Written(asked, task)
      BY <2>4 DEF I!PollsGate
    <3>2. found \subseteq I!PlanSteps
      BY <1>1 DEF TasksInv, Sound, TaskRuns, I!TasksAssumption
    <3>3. task.inputs = inputs
      OBVIOUS
    <3> HIDE DEF found, task
    <3>4. Due(inputs)
      BY <1>1, <3>2, ProducedIsDue
    <3>5. tasks'[h] = task
      BY <1>1, <3>1, WrittenGives
    <3>6. QED
      BY <3>3, <3>4, <3>5
  <2>5. CASE fresh' \subseteq fresh
    BY <1>1, <2>5
  <2>6. I!Starts \/ I!StartFails \/ I!OpensPr \/ I!PollsGate \/ fresh' \subseteq fresh
    BY <1>1 DEF I!InputsNext, I!Begins, I!WorkerEnds, I!Polls, I!OpensGate, I!Answered,
      I!Settles, I!Saves, I!Forgets, I!Controls
  <2>7. QED
    BY <2>1, <2>2, <2>3, <2>4, <2>5, <2>6
<1> DEFINE Gives ==
      \A s \in I!PlanSteps : LET h == <<s, run'.runs[s]>> IN
        h \in fresh' \ fresh =>
          \A p \in DOMAIN tasks'[h].inputs :
            \/ I!Given(h, p) = run.accepted[p]
            \/ p \in DOMAIN seen.completed /\ I!Given(h, p) = seen.completed[p]
<1>2. TasksInv /\ [I!InputsNext]_I!ivars => [Gives]_I!ivars
  <2>1. SUFFICES ASSUME TasksInv, I!InputsNext, NEW s \in I!PlanSteps,
                        <<s, run'.runs[s]>> \in fresh' \ fresh
                 PROVE  \A p \in DOMAIN tasks'[<<s, run'.runs[s]>>].inputs :
                          \/ I!Given(<<s, run'.runs[s]>>, p) = run.accepted[p]
                          \/ /\ p \in DOMAIN seen.completed
                             /\ I!Given(<<s, run'.runs[s]>>, p) = seen.completed[p]
    BY DEF Gives
  <2>2. Due(tasks'[<<s, run'.runs[s]>>].inputs)
    BY <1>1, <2>1
  <2>3. QED
    BY <2>2 DEF Due, I!Given
<1>3. I!InputsSpec => [][Gives]_I!ivars
  <2> HIDE DEF Gives
  <2>1. QED
    BY <1>2, TasksInvariance, PTL DEF I!InputsSpec
<1>4. QED
  BY <1>3, PTL DEF I!GivenAccepted

(* A worker that is launched has the task that is due now, unless the task *)
(* was written in a tick that was forgotten.                               *)
THEOREM LaunchesAreDue ==
  ASSUME I!TasksAssumption
  PROVE  I!InputsSpec => I!LaunchedIsDue
<1>1. ASSUME TasksInv, I!Starts, I!Attempt \notin stale
      PROVE  /\ Due(tasks'[I!Attempt].inputs)
             /\ DOMAIN tasks'[I!Attempt].inputs = Plan[run.current].inputs
  <2> DEFINE h == I!Attempt
  <2>1. h = <<run.current, run.runs[run.current] + 1>>
    BY DEF I!Attempt
  <2>2. /\ run.current \in I!PlanSteps /\ run.runs[run.current] \in Nat
        /\ saved.runs[run.current] \in Nat
        /\ saved.runs[run.current] <= run.runs[run.current]
    BY <1>1 DEF TasksInv, Sound, TaskRuns, InTick
  <2>3. ~ h[2] <= saved.runs[h[1]] /\ ~ h[2] <= run.runs[h[1]]
    BY <2>1, <2>2
  <2> HIDE DEF h
  <2>4. h \notin DOMAIN tasks
    BY <1>1, <2>3 DEF TasksInv, Asked, h
  <2>5. I!Written(h, I!Task(run.current))
    BY <1>1 DEF I!Starts, h
  <2>6. tasks'[h] = I!Task(run.current)
    BY <2>4, <2>5, WrittenGives
  <2>7. QED
    BY <1>1, <2>6, TaskIsDue DEF h
<1> DEFINE LaunchDue ==
      \A s \in I!PlanSteps : I!Starts /\ run.current = s =>
        \/ I!Attempt \in stale
        \/ \A p \in Plan[s].inputs : \/ I!Given(I!Attempt, p) = run.accepted[p]
                                     \/ p \in DOMAIN seen.completed
<1>2. TasksInv => LaunchDue
  BY <1>1 DEF Due, I!Given
<1>3. I!InputsSpec => [][LaunchDue]_I!ivars
  <2> HIDE DEF LaunchDue
  <2>1. QED
    BY <1>2, TasksInvariance, PTL
<1>4. QED
  BY <1>3, PTL DEF I!LaunchedIsDue

\* Of reasons in their order, the first there is.
First4(a, b, c, d) ==
  LET reasons == <<a, b, c, d>>
      found == {n \in 1 .. 4 : reasons[n] # None}
  IN IF found = {} THEN None ELSE reasons[CHOOSE n \in found : \A m \in found : n <= m]

LEMMA FirstReason ==
  ASSUME NEW a, NEW b, NEW c, NEW d
  PROVE  /\ a # None => First4(a, b, c, d) = a
         /\ a = None /\ b # None => First4(a, b, c, d) = b
<1> DEFINE reasons == <<a, b, c, d>>
           found == {n \in 1 .. 4 : reasons[n] # None}
           least == CHOOSE n \in found : \A m \in found : n <= m
<1>1. ASSUME NEW k \in {1, 2}, k \in found, \A m \in found : k <= m
      PROVE  First4(a, b, c, d) = reasons[k]
  <2>1. least \in found /\ \A m \in found : least <= m
    BY <1>1
  <2>2. least <= k /\ k <= least /\ least \in 1 .. 4
    BY <1>1, <2>1
  <2>3. least = k
    BY <2>2
  <2>4. found # {} /\ reasons[least] = reasons[k]
    BY <1>1, <2>3
  <2>5. First4(a, b, c, d) = reasons[least]
    BY <2>4 DEF First4
  <2>6. QED
    BY <2>4, <2>5
<1>2. reasons[1] = a /\ reasons[2] = b
  OBVIOUS
<1>3. ASSUME a # None PROVE First4(a, b, c, d) = a
  <2>1. 1 \in found /\ \A m \in found : 1 <= m
    BY <1>2, <1>3
  <2>2. QED
    BY <1>1, <1>2, <2>1
<1>4. ASSUME a = None, b # None PROVE First4(a, b, c, d) = b
  <2>1. 2 \in found /\ \A m \in found : 2 <= m
    BY <1>2, <1>4
  <2>2. QED
    BY <1>1, <1>2, <2>1
<1>5. QED
  BY <1>3, <1>4

LEMMA RoutedBy ==
  ASSUME NEW r \in TaskRuns, Explained(r), r.routed # None
  PROVE  I!RoutingReason(r, r.current) = r.routed
<1>1. PICK at \in DOMAIN r.log \ {1} :
        /\ r.log[at].kind = "route" /\ r.log[at].of = r.current
        /\ \A n \in DOMAIN r.log : n > at => r.log[n].kind # "route"
        /\ r.log[at - 1].kind = "block" /\ r.log[at - 1].step = r.log[at].step
        /\ r.log[at - 1].of = r.routed
  BY DEF Explained
<1>2. DOMAIN r.log \subseteq Nat \ {0}
  BY DEF TaskRuns
<1> DEFINE routes == {n \in DOMAIN r.log : r.log[n].kind = "route" /\ r.log[n].of = r.current}
<1>3. routes \subseteq Nat \ {0} /\ at \in routes
  BY <1>1, <1>2
<1>4. \A m \in routes : m <= at
  BY <1>1, <1>2
<1>5. I!Latest(routes) = at
  <2> HIDE DEF routes
  <2>1. QED
    BY <1>3, <1>4, LatestIs
<1>6. at > 1
  BY <1>1, <1>2
<1>7. QED
  BY <1>1, <1>5, <1>6 DEF I!RoutingReason

(* Every attempt of a visit is told of the block that routed the run into  *)
(* it: what the log last says when the visit began in an earlier tick, and *)
(* what the worker said when it began in this one.                         *)
THEOREM AttemptsAreToldWhy ==
  ASSUME I!TasksAssumption
  PROVE  I!InputsSpec => I!ToldWhy
<1> DEFINE Told ==
      I!Starts /\ I!Attempt \notin DOMAIN tasks /\ run.routed # None =>
        LET earlier == run.visit = saved.visit /\ seen.reason = None
            reported == run.visit # saved.visit /\ seen.reason = run.routed
        IN earlier \/ reported => tasks'[I!Attempt].reason = run.routed
<1>1. ASSUME TasksInv, I!Starts, I!Attempt \notin DOMAIN tasks, run.routed # None,
             \/ run.visit = saved.visit /\ seen.reason = None
             \/ run.visit # saved.visit /\ seen.reason = run.routed
      PROVE  tasks'[I!Attempt].reason = run.routed
  <2> DEFINE a == seen.reason
             b == I!RoutingReason(saved, run.current)
             c == saved.block
             block == I!Latest({n \in DOMAIN saved.log : saved.log[n].kind = "block"})
             d == IF block = 0 THEN None ELSE saved.log[block].of
  <2>1. I!BlockReason(run.current) = First4(a, b, c, d)
    BY DEF I!BlockReason, First4
  <2> HIDE DEF a, b, c, d
  <2>2. I!BlockReason(run.current) = run.routed
    <3>1. CASE run.visit = saved.visit /\ seen.reason = None
      <4>1. run.visit \in Nat /\ saved.visit \in Nat
        BY <1>1 DEF TasksInv, Sound, TaskRuns
      <4>2. SameVisit(saved, run)
        BY <1>1 DEF TasksInv, InTick
      <4>3. run.current = saved.current /\ run.routed = saved.routed
        BY <3>1, <4>1, <4>2 DEF SameVisit
      <4>4. b = run.routed
        BY <1>1, <4>3, RoutedBy DEF TasksInv, Sound, b
      <4>5. a = None
        BY <3>1 DEF a
      <4>6. QED
        BY <1>1, <2>1, <4>4, <4>5, FirstReason
    <3>2. CASE run.visit # saved.visit /\ seen.reason = run.routed
      <4>1. a = run.routed /\ a # None
        BY <1>1, <3>2 DEF a
      <4>2. QED
        BY <2>1, <4>1, FirstReason
    <3>3. QED
      BY <1>1, <3>1, <3>2
  <2>3. tasks'[I!Attempt] = I!Task(run.current)
    BY <1>1, WrittenGives DEF I!Starts
  <2>4. I!Task(run.current).reason = I!BlockReason(run.current)
    BY DEF I!Task
  <2>5. QED
    BY <2>2, <2>3, <2>4
<1>2. TasksInv => Told
  BY <1>1
<1>3. I!InputsSpec => [][Told]_I!ivars
  <2> HIDE DEF Told
  <2>1. QED
    BY <1>2, TasksInvariance, PTL
<1>4. QED
  BY <1>3, PTL DEF I!ToldWhy

(* The checks of a step compare with what was accepted of the step they    *)
(* expect, whatever has been attempted of it since.                        *)
THEOREM ExpectationsAreAccepted ==
  ASSUME I!TasksAssumption
  PROVE  I!InputsSpec => []I!ExpectsAccepted
<1>1. TasksInv => I!ExpectsAccepted
  <2>1. SUFFICES ASSUME TasksInv, phase = "advancing", run.status = "Running",
                        Plan[run.current].expects # None
                 PROVE  I!Accepted(saved, Plan[run.current].expects) =
                          run.accepted[Plan[run.current].expects]
    BY DEF I!ExpectsAccepted, I!Advancing
  <2>2. run = saved
    BY <2>1 DEF TasksInv, InTick
  <2>3. run.current \in I!PlanSteps
    BY <2>1 DEF TasksInv, Sound, TaskRuns
  <2>4. Plan[run.current].expects \in I!PlanSteps
    BY <2>1, <2>3 DEF I!TasksAssumption
  <2>5. QED
    BY <2>1, <2>2, <2>4 DEF TasksInv, Sound, Matched
<1>2. QED
  BY <1>1, TasksInvariance, PTL
=============================================================================
