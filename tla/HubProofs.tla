----------------------------- MODULE HubProofs -----------------------------
(***************************************************************************)
(* Proofs about Hub for every workflow: its type correctness, its safety   *)
(* invariants and its action properties.                                   *)
(*                                                                         *)
(* Most actions either move a run on that holds no worker (Moves) or leave *)
(* the worker and the step of the run as they are (Stays).  Each kind of   *)
(* step preserves the inductive invariant for one reason; only opening a   *)
(* gate and starting a worker need reasons of their own.                   *)
(***************************************************************************)
EXTENDS HubProps, FlowRunProofs

\* No worker executes; the run goes on, stops or ends without one.
Moves ==
  /\ run' \in RunType /\ Idle(run') /\ live = {} /\ live' = live
  /\ run'.latest = run.latest /\ run'.requests = run.requests
  /\ \A s \in Steps : run'.runs[s] >= run.runs[s]
  /\ run'.accepted = run.accepted \/ ResultAccepted
  /\ run'.cancelled => run'.status = "Blocked"

\* The worker is left alone: nothing happens, or the run turns to Blocked.
Stays ==
  /\ run' \in RunType /\ live' \subseteq live
  /\ run'.active = run.active /\ run'.current = run.current
  /\ run'.question = run.question /\ run'.accepted = run.accepted
  /\ run'.latest = run.latest /\ run'.requests = run.requests
  /\ run'.runs = run.runs
  /\ \/ run'.status = run.status /\ run'.unsettled = run.unsettled
     \/ run'.status = "Blocked" /\ (run'.unsettled <=> run.active # None)
  /\ run'.cancelled => run'.status = "Blocked"
  /\ overdue => overdue'

\* The rest of the world, and the counter, have their types.
WorldType ==
  /\ replies' \subseteq Requests /\ overdue' \in BOOLEAN
  /\ merged' \in BOOLEAN /\ reruns' \in Nat
-----------------------------------------------------------------------------
(* What the invariant says of the workers. *)

\* A run that holds no worker, or one that has ended, has none executing.
LEMMA NoWorker ==
  ASSUME IInv, run.active = None \/ ~ActiveLive
  PROVE  live = {}
BY DEF IInv, SoleWorker, ActiveLive

\* Outside Running, a settled run holds no worker.
LEMMA SettledIdle ==
  ASSUME IInv, run.status # "Running", ~run.unsettled
  PROVE  run.active = None /\ live = {}
BY NoWorker DEF IInv, RunConsistent

\* The history keeps its type.
LEMMA HistoryType ==
  ASSUME IInv, run' \in RunType, overdue' \in BOOLEAN, Record
  PROVE  /\ tainted' \in BOOLEAN /\ released' \in [Steps -> Nat]
         /\ \A s \in Steps : released'[s] <= run.requests[s]
<1>1. tainted \in BOOLEAN /\ run'.unsettled \in BOOLEAN
  BY DEF IInv, TypeOK, RunType
<1>2. tainted' \in BOOLEAN
  BY <1>1 DEF Record
<1>3. /\ released \in [Steps -> Nat] /\ run.requests \in [Steps -> Nat]
      /\ run.current \in Steps
  BY DEF IInv, TypeOK, RunType
<1>4. released' \in [Steps -> Nat]
  BY <1>3 DEF Record
<1>5. \A s \in Steps : released'[s] <= run.requests[s]
  BY <1>3 DEF Record, IInv, GatesOpen
<1>6. QED
  BY <1>2, <1>4, <1>5

\* A run that moves on without a worker keeps the invariant.
LEMMA MovesKeeps ==
  ASSUME IInv, Moves, WorldType, Record
  PROVE  IInv'
<1>1. TypeOK'
  BY HistoryType DEF Moves, WorldType, TypeOK
<1>2. RunConsistent'
  BY DEF Moves, Idle, RunConsistent
<1>3. SoleWorker'
  BY DEF Moves, SoleWorker
<1>4. NumbersTaken'
  <2>1. \A s \in Steps :
          /\ run.runs[s] \in Nat /\ run'.runs[s] \in Nat
          /\ run.latest[s] # None => run.latest[s].number \in Nat
    BY DEF IInv, TypeOK, Moves, RunType, Attempts
  <2>2. QED
    BY <2>1 DEF Moves, IInv, NumbersTaken
<1>5. GatesOpen'
  BY HistoryType DEF Moves, Idle, WorldType, GatesOpen
<1>6. CancelledBlocked' /\ RunningClean'
  BY DEF Moves, Idle, CancelledBlocked, RunningClean
<1>7. QED
  BY <1>1, <1>2, <1>3, <1>4, <1>5, <1>6 DEF IInv

\* A run whose worker is left alone keeps the invariant.
LEMMA StaysKeeps ==
  ASSUME IInv, Stays, WorldType, Record
  PROVE  IInv'
<1>1. TypeOK'
  BY HistoryType DEF Stays, WorldType, IInv, TypeOK
<1>2. RunConsistent'
  BY DEF Stays, IInv, RunConsistent
<1>3. SoleWorker'
  BY DEF Stays, IInv, SoleWorker
<1>4. NumbersTaken'
  BY DEF Stays, IInv, NumbersTaken
<1>5. GatesOpen'
  <2>1. \A s \in Steps : released'[s] <= run'.requests[s]
    BY HistoryType DEF Stays, WorldType
  <2>2. ASSUME run'.status = "Gate"
        PROVE  /\ IsGate(run'.current)
               /\ released'[run'.current] < run'.requests[run'.current]
    <3>1. run.status = "Gate" /\ run'.current = run.current
      BY <2>2 DEF Stays
    <3>2. released' = released
      BY <2>2, <3>1 DEF Record, LeavesGate
    <3>3. QED
      BY <3>1, <3>2 DEF Stays, IInv, GatesOpen
  <2>3. QED
    BY <2>1, <2>2 DEF GatesOpen
<1>6. CancelledBlocked'
  BY DEF Stays, CancelledBlocked
<1>7. RunningClean'
  BY DEF Stays, IInv, RunConsistent, RunningClean, Record
<1>8. QED
  BY <1>1, <1>2, <1>3, <1>4, <1>5, <1>6, <1>7 DEF IInv
-----------------------------------------------------------------------------
(* The iterations of advance. *)

\* Letting go of a worker that has ended.
LEMMA LetGoMoves ==
  ASSUME IInv, ~ActiveLive, live' = live,
         NEW q \in RunType, q.status = "Blocked",
         q.latest = run.latest, q.runs = run.runs,
         q.requests = run.requests, q.accepted = run.accepted
  PROVE  run' = LetGo(q) => Moves
<1> DEFINE r == [q EXCEPT !.active = None, !.unsettled = FALSE]
<1>1. /\ r \in RunType /\ SameRecord(q, r) /\ r.status = "Blocked"
      /\ r.active = None /\ ~r.unsettled
  BY DEF RunType, SameRecord
<1>2. LetGo(q) = Event(r)
  BY DEF LetGo
<1> HIDE DEF r
<1>3. /\ LetGo(q) \in RunType /\ SameRecord(q, LetGo(q)) /\ Idle(LetGo(q))
      /\ LetGo(q).status = "Blocked"
  BY <1>1, <1>2, EventFacts DEF SameRecord, Idle
<1>4. \A s \in Steps : run.runs[s] >= run.runs[s]
  BY DEF IInv, TypeOK, RunType
<1>5. QED
  BY <1>3, <1>4, NoWorker DEF Moves, SameRecord

\* A settled run that is rewritten without its worker moves.
LEMMA RewriteMoves ==
  ASSUME IInv, live = {}, live' = live, ~run.cancelled,
         NEW q \in RunType, SameRecord(run, q), Idle(q)
  PROVE  run' = q => Moves
<1>1. \A s \in Steps : run.runs[s] >= run.runs[s]
  BY DEF IInv, TypeOK, RunType
<1>2. QED
  BY <1>1 DEF Moves, SameRecord

\* The run, once its worker has ended and its result is collected.
LEMMA CollectedFacts ==
  ASSUME IInv, Finished
  PROVE  /\ Collected \in RunType /\ SameRecord(run, Collected)
         /\ Collected.active = None /\ ~Collected.unsettled
         /\ run.active \in Attempts /\ live = {} /\ ~run.cancelled
<1>1. run \in RunType
  BY DEF IInv, TypeOK
<1>2. run.status = "Running" /\ ~run.cancelled /\ ~ActiveLive
  BY DEF Finished, Observed, Hosted
<1>3. run.active \in Attempts /\ ~run.unsettled
  BY <1>1, <1>2 DEF IInv, RunConsistent, RunType
<1>4. live = {}
  BY <1>2, NoWorker
<1>5. QED
  BY <1>1, <1>2, <1>3, <1>4 DEF Collected, RunType, SameRecord

\* Settlement, and the owner's answer in the tracker.
LEMMA BlockedMoves ==
  ASSUME IInv, SettleCancelled \/ ObserveSettled \/ ApplyAnswer
  PROVE  Moves
<1>1. CASE SettleCancelled
  <2>1. run.status = "Blocked" /\ run \in RunType
    BY <1>1 DEF SettleCancelled, IInv, CancelledBlocked, TypeOK
  <2>2. QED
    BY <1>1, <2>1, LetGoMoves DEF SettleCancelled
<1>2. CASE ObserveSettled
  <2>1. run \in RunType
    BY DEF IInv, TypeOK
  <2>2. QED
    BY <1>2, <2>1, LetGoMoves DEF ObserveSettled
<1>3. CASE ApplyAnswer
  <2>1. /\ run.status = "Blocked" /\ ~run.unsettled /\ ~run.cancelled
        /\ run.question # None
        /\ run' = AnswerQuestion(run) /\ live' = live
    BY <1>3 DEF ApplyAnswer, MayAsk, Hosted, OpenQuestion, world
  <2>2. run \in RunType /\ run.active = None /\ live = {}
    BY <2>1, SettledIdle DEF IInv, TypeOK
  <2>3. /\ AnswerQuestion(run) \in RunType
        /\ SameRecord(run, AnswerQuestion(run)) /\ Idle(AnswerQuestion(run))
    BY <2>1, <2>2, AnswerQuestionFacts DEF Idle
  <2>4. QED
    BY <2>1, <2>2, <2>3, RewriteMoves
<1>4. QED
  BY <1>1, <1>2, <1>3

\* A worker whose outcome is in doubt stays with the run.
LEMMA DoubtStays ==
  ASSUME IInv, NEW e \in RunType, run.active # None, ~run.cancelled,
         SameRecord(run, e), e.current = run.current,
         e.active = run.active, e.question = run.question,
         live' = live, overdue' = overdue
  PROVE  run' = [e EXCEPT !.unsettled = TRUE, !.status = "Blocked",
                          !.block = TRUE] => Stays
BY DEF RunType, SameRecord, Statuses, Stays

\* The deadline.
LEMMA TimeOutStep ==
  ASSUME IInv, TimeOut
  PROVE  Moves \/ Stays
<1> DEFINE e == Event(run)
           late == [e EXCEPT !.unsettled = TRUE, !.status = "Blocked",
                             !.block = TRUE]
           gone == [late EXCEPT !.unsettled = FALSE, !.active = None]
<1>1. run \in RunType
  BY DEF IInv, TypeOK
<1>2. /\ run.status = "Running" /\ ~run.cancelled /\ live' = live
      /\ \/ ~ActiveLive /\ run' = HandleBlock(gone, "transient")
         \/ run' = late /\ overdue' = overdue
  BY DEF TimeOut, Hosted
<1>3. run.active # None
  BY <1>2 DEF IInv, RunConsistent
<1>4. /\ e \in RunType /\ SameRecord(run, e) /\ e.current = run.current
      /\ e.active = run.active /\ e.question = run.question
  BY <1>1, EventFacts
<1> HIDE DEF e
<1>5. CASE run' = late /\ overdue' = overdue
  BY <1>2, <1>3, <1>4, <1>5, DoubtStays
<1>6. CASE ~ActiveLive /\ run' = HandleBlock(gone, "transient")
  <2>1. /\ gone \in RunType /\ SameRecord(e, gone)
        /\ gone.active = None /\ ~gone.unsettled
    BY <1>4 DEF RunType, SameRecord, Statuses
  <2> HIDE DEF gone
  <2>2. "transient" \in BlockKinds
    BY DEF BlockKinds
  <2>3. /\ run' \in RunType /\ SameRecord(gone, run') /\ Idle(run')
    BY <1>6, <2>1, <2>2, HandleBlockFacts DEF Idle
  <2>4. SameRecord(run, run') /\ live = {}
    BY <1>4, <1>6, <2>1, <2>3, NoWorker DEF SameRecord
  <2>5. QED
    BY <1>2, <2>3, <2>4, RewriteMoves
<1>7. QED
  BY <1>2, <1>5, <1>6

\* Poll::Unsettled, or an error of poll.
LEMMA LoseTrackStays ==
  ASSUME IInv, LoseTrack
  PROVE  Stays
<1> DEFINE r == [run EXCEPT !.unsettled = TRUE, !.status = "Blocked",
                            !.block = TRUE]
<1>1. run \in RunType
  BY DEF IInv, TypeOK
<1>2. /\ run.status = "Running" /\ ~run.cancelled
      /\ live' = live /\ overdue' = overdue /\ run' = Event(r)
  BY DEF LoseTrack, Observed, Hosted, world
<1>3. run.active # None
  BY <1>2 DEF IInv, RunConsistent
<1>4. /\ r \in RunType /\ SameRecord(run, r) /\ r.current = run.current
      /\ r.active = run.active /\ r.question = run.question
      /\ r.unsettled /\ r.status = "Blocked"
  BY <1>1 DEF RunType, SameRecord, Statuses
<1> HIDE DEF r
<1>5. QED
  BY <1>2, <1>3, <1>4, EventFacts DEF Stays, SameRecord

\* Whatever a finished worker left, the run moves on without it.
LEMMA FinishedMoves ==
  ASSUME IInv, \/ ProcessFailed \/ InvalidResult \/ ResultBlocks
               \/ ChecksFail \/ EvidenceFails \/ ResultAccepted
  PROVE  Moves
<1> DEFINE attempt == run.active
           r == Collected
           Result(q) == q \in RunType /\ SameRecord(r, q) /\ Idle(q)
<1>1. Finished /\ live' = live
  BY DEF ProcessFailed, InvalidResult, ResultBlocks, ChecksFail,
         EvidenceFails, ResultAccepted, world
<1>2. /\ r \in RunType /\ SameRecord(run, r)
      /\ r.active = None /\ ~r.unsettled
      /\ attempt \in Attempts /\ live = {} /\ ~run.cancelled
  BY <1>1, CollectedFacts
<1>3. /\ "transient" \in BlockKinds /\ "unknown" \in BlockKinds
      /\ AdapterKinds \subseteq BlockKinds /\ WorkerKinds \subseteq BlockKinds
  BY HubAssumption DEF BlockKinds
<1> HIDE DEF r, attempt
<1>4. \A kind \in BlockKinds : Result(HandleBlock(r, kind))
  BY <1>2, HandleBlockFacts DEF Idle
<1>5. Result(run') => Moves
  BY <1>1, <1>2, RewriteMoves DEF SameRecord
<1>6. CASE ProcessFailed
  BY <1>3, <1>4, <1>5, <1>6 DEF ProcessFailed, r
<1>7. CASE InvalidResult
  BY <1>3, <1>4, <1>5, <1>7 DEF InvalidResult, r
<1>8. CASE ResultBlocks
  <2>1. PICK kind \in WorkerKinds, asks \in BOOLEAN :
          run' = WorkerBlocked(r, attempt, kind, asks)
    BY <1>8 DEF ResultBlocks, r, attempt
  <2>2. QED
    BY <1>2, <1>3, <1>5, <2>1, WorkerBlockedFacts
<1>9. CASE ChecksFail
  <2>1. PICK kind \in AdapterKinds \cup {"unknown"} :
          run' = CheckFailed(r, kind)
    BY <1>9 DEF ChecksFail, r
  <2>2. QED
    BY <1>2, <1>3, <1>5, <2>1, CheckFailedFacts
<1>10. CASE EvidenceFails
  BY <1>3, <1>4, <1>5, <1>10 DEF EvidenceFails, r
<1>11. CASE ResultAccepted
  <2>1. PICK verdict \in Verdicts \cup {None} :
          run' = AcceptResult(r, attempt, verdict)
    BY <1>11 DEF ResultAccepted, r, attempt
  <2>2. run' \in RunType /\ SameCounters(r, run') /\ Idle(run')
    BY <1>2, <2>1, AcceptResultFacts
  <2>3. \A s \in Steps : run.runs[s] >= run.runs[s]
    BY DEF IInv, TypeOK, RunType
  <2>4. QED
    BY <1>1, <1>2, <1>11, <2>2, <2>3 DEF Moves, SameCounters, SameRecord
<1>12. QED
  BY <1>6, <1>7, <1>8, <1>9, <1>10, <1>11

\* A gate holds no worker; passing it or failing to read it moves the run.
LEMMA GateMoves ==
  ASSUME IInv, GatePasses \/ GateFails
  PROVE  Moves
<1>1. /\ run.status = "Gate" /\ ~run.cancelled /\ live' = live
      /\ \/ run' = Transition(Event(run), Step.next)
         \/ \E kind \in BlockKinds : run' = HandleBlock(run, kind)
  BY HubAssumption
  DEF GatePasses, GateFails, AtGate, Hosted, world, BlockKinds
<1>2. run \in RunType /\ run.active = None /\ ~run.unsettled /\ live = {}
  BY <1>1, SettledIdle DEF IInv, TypeOK, RunConsistent
<1>3. Step.next \in Target
  BY <1>2, FlowAssumption DEF RunType, StepType, Step
<1>4. run' \in RunType /\ SameRecord(run, run') /\ Idle(run')
  <2>1. CASE run' = Transition(Event(run), Step.next)
    BY <1>2, <1>3, <2>1, EventFacts, TransitionFacts DEF SameRecord, Idle
  <2>2. CASE \E kind \in BlockKinds : run' = HandleBlock(run, kind)
    BY <1>2, <2>2, HandleBlockFacts DEF Idle
  <2>3. QED
    BY <1>1, <2>1, <2>2
<1>5. QED
  BY <1>1, <1>2, <1>4, RewriteMoves

\* A run about to start, with its start counted or not.
LEMMA ReadyFacts ==
  ASSUME IInv, IsReady
  PROVE  /\ run \in RunType /\ ~run.cancelled /\ live = {}
         /\ run.active = None /\ ~run.unsettled /\ run.status = "Ready"
         /\ Counted \in RunType /\ Counted.runs[run.current] > 0
         /\ Counted.latest = run.latest /\ Counted.requests = run.requests
         /\ \A s \in Steps : Counted.runs[s] >= run.runs[s]
         /\ Counted.active = None /\ ~Counted.unsettled
         /\ Counted.cancelled = run.cancelled /\ Counted.status = "Ready"
         /\ Counted.current = run.current
         /\ Counted.accepted = run.accepted /\ Counted.evidence = run.evidence
<1>1. /\ run \in RunType /\ ~run.cancelled /\ run.active = None
      /\ ~run.unsettled /\ run.status = "Ready"
  BY DEF IInv, TypeOK, IsReady, Hosted
<1>2. live = {}
  BY <1>1, NoWorker
<1> DEFINE n == [run.runs EXCEPT ![run.current] = @ + 1]
<1>3. /\ n \in [Steps -> Nat] /\ n[run.current] > 0
      /\ \A s \in Steps : n[s] >= run.runs[s]
  BY <1>1 DEF RunType
<1> HIDE DEF n
<1>4. Counted = [run EXCEPT !.runs = n]
  BY DEF Counted, n
<1>5. QED
  BY <1>1, <1>2, <1>3, <1>4 DEF RunType

\* A ready run that starts no worker and opens no gate moves.
LEMMA ReadyMoves ==
  ASSUME IInv, LimitReached \/ OpenPr \/ FamilyRefused \/ StartFails
  PROVE  Moves
<1> DEFINE opened == [Counted EXCEPT !.pr = TRUE]
<1>1. IsReady /\ live' = live
  BY DEF LimitReached, OpenPr, FamilyRefused, StartFails, IsBotReady, world
<1>2. PICK q \in {run, Counted, opened} :
        \/ run' = StopOnBlock(q)
        \/ run' = Transition(Event(q), Step.next)
        \/ \E kind \in BlockKinds : run' = HandleBlock(q, kind)
  <2>1. AdapterKinds \subseteq BlockKinds
    BY HubAssumption
  <2> HIDE DEF opened
  <2>2. CASE LimitReached \/ FamilyRefused
    BY <2>2 DEF LimitReached, FamilyRefused
  <2>3. CASE OpenPr
    BY <2>1, <2>3 DEF OpenPr, opened
  <2>4. CASE StartFails
    BY <2>1, <2>4 DEF StartFails
  <2>5. QED
    BY <2>2, <2>3, <2>4
<1>3. /\ run \in RunType /\ ~run.cancelled /\ live = {}
      /\ \A s \in Steps : run.runs[s] >= run.runs[s]
  BY <1>1, ReadyFacts DEF RunType
<1>4. /\ opened \in RunType /\ SameRecord(Counted, opened)
      /\ opened.active = None /\ ~opened.unsettled
  BY <1>1, ReadyFacts DEF RunType, SameRecord
<1> HIDE DEF opened
<1>5. /\ q \in RunType /\ q.active = None /\ ~q.unsettled /\ ~q.cancelled
      /\ q.latest = run.latest /\ q.requests = run.requests
      /\ q.accepted = run.accepted
      /\ \A s \in Steps : q.runs[s] >= run.runs[s]
  BY <1>1, <1>3, <1>4, ReadyFacts DEF SameRecord
<1>6. Step.next \in Target
  BY <1>3, FlowAssumption DEF RunType, StepType, Step
<1>7. run' \in RunType /\ SameRecord(q, run') /\ Idle(run')
  <2>1. CASE run' = StopOnBlock(q)
    BY <1>5, <2>1, StopOnBlockFacts DEF Idle
  <2>2. CASE run' = Transition(Event(q), Step.next)
    BY <1>5, <1>6, <2>2, EventFacts, TransitionFacts DEF SameRecord, Idle
  <2>3. CASE \E kind \in BlockKinds : run' = HandleBlock(q, kind)
    BY <1>5, <2>3, HandleBlockFacts DEF Idle
  <2>4. QED
    BY <1>2, <2>1, <2>2, <2>3
<1>8. QED
  BY <1>1, <1>3, <1>5, <1>7 DEF Moves, SameRecord
-----------------------------------------------------------------------------
(* The two steps with reasons of their own. *)

\* A gate is opened with a request of its own, that no decision released.
LEMMA OpenGateKeeps ==
  ASSUME IInv, OpenGate, WorldType, Record
  PROVE  IInv'
<1> DEFINE n == [run.requests EXCEPT ![run.current] = @ + 1]
           r == [run EXCEPT !.requests = n, !.status = "Gate"]
<1>1. IsReady /\ IsGate(run.current) /\ live' = live /\ run' = Event(r)
  BY DEF OpenGate, world
<1>2. /\ run \in RunType /\ ~run.cancelled /\ live = {}
      /\ run.active = None /\ ~run.unsettled /\ run.status = "Ready"
  BY <1>1, ReadyFacts
<1>3. /\ n \in [Steps -> Nat] /\ run.current \in Steps
      /\ n[run.current] = run.requests[run.current] + 1
      /\ \A s \in Steps : run.requests[s] <= n[s]
      /\ \A s \in Steps : run.requests[s] \in Nat
  BY <1>2 DEF RunType
<1> HIDE DEF n
<1>4. /\ r \in RunType /\ r.requests = n /\ r.status = "Gate"
      /\ r.current = run.current /\ r.active = None /\ ~r.unsettled
      /\ r.latest = run.latest /\ r.runs = run.runs /\ ~r.cancelled
  BY <1>2, <1>3 DEF RunType, Statuses
<1> HIDE DEF r
<1>5. /\ run' \in RunType /\ run'.requests = n /\ run'.status = "Gate"
      /\ run'.current = run.current /\ run'.active = None
      /\ ~run'.unsettled /\ run'.latest = run.latest
      /\ run'.runs = run.runs /\ ~run'.cancelled
  BY <1>1, <1>4, EventFacts DEF SameRecord
<1>6. /\ released' = released /\ released \in [Steps -> Nat]
      /\ \A s \in Steps : released[s] <= run.requests[s]
  BY <1>2 DEF Record, LeavesGate, IInv, TypeOK, GatesOpen
<1>7. TypeOK'
  BY <1>1, <1>2, <1>5, HistoryType DEF WorldType, TypeOK
<1>8. RunConsistent' /\ SoleWorker' /\ CancelledBlocked' /\ RunningClean'
  BY <1>1, <1>2, <1>5
  DEF RunConsistent, SoleWorker, CancelledBlocked, RunningClean
<1>9. NumbersTaken'
  BY <1>5 DEF IInv, NumbersTaken
<1>10. GatesOpen'
  <2>1. \A s \in Steps : released[s] <= n[s]
    BY <1>3, <1>6
  <2>2. released[run.current] < n[run.current]
    BY <1>3, <1>6
  <2>3. QED
    BY <1>1, <1>5, <1>6, <2>1, <2>2 DEF GatesOpen
<1>11. QED
  BY <1>7, <1>8, <1>9, <1>10 DEF IInv

\* A worker is started with a number no attempt of its step has had.
LEMMA StartWorkerFacts ==
  ASSUME IInv, StartWorker
  PROVE  \E attempt \in Attempts :
           /\ attempt.step = run.current
           /\ attempt.number = run.runs[run.current] + 1
           /\ live' = {Handle(attempt)} /\ ~overdue'
           /\ run' \in RunType /\ run'.current = run.current
           /\ run'.status = "Running" /\ run'.active = attempt
           /\ run'.question = None /\ ~run'.unsettled /\ ~run'.cancelled
           /\ run'.latest = [run.latest EXCEPT ![run.current] = attempt]
           /\ run'.runs = [run.runs EXCEPT ![run.current] = @ + 1]
           /\ run'.requests = run.requests /\ run'.accepted = run.accepted
           /\ run'.retries = run.retries /\ run'.failures = run.failures
           /\ Step.kind = "bot" /\ FamilyAllowed(attempt.family)
<1>1. IsReady /\ Step.kind = "bot"
  BY DEF StartWorker, IsBotReady
<1>2. run \in RunType /\ ~run.cancelled /\ live = {} /\ ~run.unsettled
  BY <1>1, ReadyFacts
<1>3. PICK family \in Families :
        /\ run' = Started(NextAttempt(family))
        /\ live' = live \cup {Handle(NextAttempt(family))} /\ overdue' = FALSE
        /\ FamilyAllowed(family)
  BY DEF StartWorker
<1> DEFINE attempt == NextAttempt(family)
<1>4. /\ attempt \in Attempts /\ attempt.step = run.current
      /\ attempt.number = run.runs[run.current] + 1
      /\ attempt.family = family
  BY <1>2 DEF RunType, Attempts, NextAttempt
<1> HIDE DEF attempt
<1> DEFINE l == [Counted.latest EXCEPT ![run.current] = attempt]
           r == [Counted EXCEPT !.question = None, !.latest = l,
                                !.active = attempt, !.status = "Running",
                                !.block = FALSE]
<1>5. l \in [Steps -> Attempts \cup {None}]
  BY <1>1, <1>4, ReadyFacts DEF RunType
<1>6. run' = Event(r)
  BY <1>3 DEF Started, attempt
<1> HIDE DEF l, r
<1>7. /\ r \in RunType /\ r.current = Counted.current
      /\ r.status = "Running" /\ r.active = attempt /\ r.question = None
      /\ ~r.unsettled /\ r.cancelled = Counted.cancelled
      /\ r.latest = l /\ r.runs = Counted.runs
      /\ r.requests = Counted.requests /\ r.accepted = Counted.accepted
      /\ r.retries = Counted.retries /\ r.failures = Counted.failures
  BY <1>1, <1>4, <1>5, ReadyFacts DEF RunType, Statuses, r
<1>8. /\ run' \in RunType /\ run'.current = Counted.current
      /\ run'.status = "Running" /\ run'.active = attempt
      /\ run'.question = None /\ ~run'.unsettled
      /\ run'.cancelled = Counted.cancelled
      /\ run'.latest = l /\ run'.runs = Counted.runs
      /\ run'.requests = Counted.requests
      /\ run'.accepted = Counted.accepted
      /\ run'.retries = Counted.retries /\ run'.failures = Counted.failures
  BY <1>6, <1>7, EventFacts, EventVisit DEF SameRecord, Repeats
<1>9. /\ Counted.runs = [run.runs EXCEPT ![run.current] = @ + 1]
      /\ Counted.retries = run.retries /\ Counted.failures = run.failures
  BY <1>2 DEF Counted, RunType
<1>10. l = [run.latest EXCEPT ![run.current] = attempt]
  BY <1>1, ReadyFacts DEF l
<1>11. live' = {Handle(attempt)} /\ ~overdue'
  BY <1>2, <1>3 DEF attempt
<1>12. QED
  BY <1>1, <1>2, <1>3, <1>4, <1>8, <1>9, <1>10, <1>11, ReadyFacts

\* The new attempt is the only worker, and it is on time.
LEMMA StartWorkerKeeps ==
  ASSUME IInv, StartWorker, WorldType, Record
  PROVE  IInv'
<1>1. PICK attempt \in Attempts :
        /\ attempt.step = run.current
        /\ attempt.number = run.runs[run.current] + 1
        /\ live' = {Handle(attempt)} /\ ~overdue'
        /\ run' \in RunType /\ run'.current = run.current
        /\ run'.status = "Running" /\ run'.active = attempt
        /\ run'.question = None /\ ~run'.unsettled /\ ~run'.cancelled
        /\ run'.latest = [run.latest EXCEPT ![run.current] = attempt]
        /\ run'.runs = [run.runs EXCEPT ![run.current] = @ + 1]
        /\ run'.requests = run.requests
  BY StartWorkerFacts
<1>2. /\ run.latest \in [Steps -> Attempts \cup {None}]
      /\ run.runs \in [Steps -> Nat] /\ run.current \in Steps
  BY DEF IInv, TypeOK, RunType
<1>3. attempt # None /\ attempt.number \in Nat /\ attempt.step \in Steps
  BY FlowAssumption DEF Attempts
<1>4. TypeOK'
  <2>1. live' \subseteq Steps \X Nat
    BY <1>1, <1>3 DEF Handle
  <2>2. QED
    BY <1>1, <2>1, HistoryType DEF WorldType, TypeOK
<1>5. RunConsistent' /\ SoleWorker' /\ CancelledBlocked'
  BY <1>1, <1>3 DEF RunConsistent, SoleWorker, CancelledBlocked
<1>6. NumbersTaken'
  BY <1>1, <1>2, <1>3 DEF IInv, NumbersTaken, Attempts
<1>7. GatesOpen'
  BY <1>1, HistoryType DEF WorldType, GatesOpen
<1>8. RunningClean'
  <2>1. run'.latest[run.current] = attempt
    BY <1>1, <1>2
  <2>2. run.latest[run.current] # attempt
    BY <1>1, <1>2, <1>3 DEF IInv, NumbersTaken
  <2>3. run'.latest # run.latest
    BY <2>1, <2>2
  <2>4. QED
    BY <1>1, <2>3 DEF Record, RunningClean
<1>9. QED
  BY <1>4, <1>5, <1>6, <1>7, <1>8 DEF IInv
-----------------------------------------------------------------------------
(* The owner's controls, and the world outside. *)

\* Retry, override, approval and answer act on a run that holds no worker.
LEMMA SettledControlsMove ==
  ASSUME IInv, Retry \/ Override \/ Approve \/ Answer
  PROVE  Moves
<1>1. /\ run \in RunType /\ ~run.cancelled /\ live' = live
      /\ run.active = None /\ ~run.unsettled
  BY DEF IInv, TypeOK, Controllable, Settled, Retry, Override, Approve,
         Answer, world
<1>2. live = {}
  BY <1>1, NoWorker
<1>3. run' \in RunType /\ SameRecord(run, run') /\ Idle(run')
  <2>1. CASE Retry
    BY <1>1, <2>1, RetryStepFacts DEF Retry, Idle
  <2>2. CASE Override
    BY <1>1, <2>2, OverrideStepFacts DEF Override, Idle
  <2>3. CASE Approve
    BY <1>1, <2>3, ApproveGateFacts DEF Approve, Idle
  <2>4. CASE Answer
    BY <1>1, <2>4, AnswerQuestionFacts DEF Answer, OpenQuestion, Idle
  <2>5. QED
    BY <2>1, <2>2, <2>3, <2>4
<1>4. QED
  BY <1>1, <1>2, <1>3, RewriteMoves

\* The run a cancellation saves.
LEMMA CancelRunFacts ==
  ASSUME NEW r \in RunType
  PROVE  LET q == CancelRun(r)
         IN  /\ q \in RunType /\ q.status = "Blocked"
             /\ q.active = r.active /\ (q.unsettled <=> r.active # None)
             /\ q.current = r.current /\ q.question = r.question
             /\ q.latest = r.latest /\ q.requests = r.requests
             /\ q.runs = r.runs /\ q.accepted = r.accepted
<1> DEFINE held == r.active # None
           c == [r EXCEPT !.cancelled = TRUE, !.block = TRUE,
                          !.status = "Blocked", !.unsettled = held]
<1>1. CancelRun(r) = Event(c)
  BY DEF CancelRun
<1>2. held \in BOOLEAN
  OBVIOUS
<1> HIDE DEF held
<1>3. /\ c \in RunType /\ c.active = r.active /\ c.current = r.current
      /\ c.question = r.question /\ c.latest = r.latest
      /\ c.requests = r.requests /\ c.runs = r.runs
      /\ c.accepted = r.accepted
      /\ c.status = "Blocked" /\ c.unsettled = held
  BY <1>2 DEF RunType, Statuses
<1> HIDE DEF c
<1>4. Event(c).unsettled = held
  BY <1>3, EventFacts
<1>5. Event(c).unsettled <=> r.active # None
  BY <1>4, Zenon DEF held
<1>6. QED
  BY <1>1, <1>3, <1>5, EventFacts DEF SameRecord

\* Cancellation leaves the worker to the run, or finds it settled.
LEMMA CancelStep ==
  ASSUME IInv, Cancel
  PROVE  Moves \/ Stays
<1>1. run \in RunType /\ live' = live
  BY DEF IInv, TypeOK, Cancel
<1>2. CASE run' = CancelRun(run) /\ overdue' = overdue
  BY <1>1, <1>2, CancelRunFacts DEF Stays
<1>3. CASE ~ActiveLive /\ run' = LetGo(CancelRun(run))
  BY <1>1, <1>3, CancelRunFacts, LetGoMoves
<1>4. QED
  BY <1>2, <1>3 DEF Cancel

\* Cancellation keeps the run where it is.
LEMMA CancelPlace ==
  ASSUME IInv, Cancel
  PROVE  run'.current = run.current /\ run'.status = "Blocked"
<1> DEFINE q == CancelRun(run)
           r == [q EXCEPT !.active = None, !.unsettled = FALSE]
<1>1. run \in RunType
  BY DEF IInv, TypeOK
<1>2. q \in RunType /\ q.current = run.current /\ q.status = "Blocked"
  BY <1>1, CancelRunFacts
<1>3. run' = q \/ run' = Event(r)
  BY DEF Cancel, LetGo
<1> HIDE DEF q
<1>4. r \in RunType /\ r.current = run.current /\ r.status = "Blocked"
  BY <1>2 DEF RunType
<1> HIDE DEF r
<1>5. QED
  BY <1>2, <1>3, <1>4, EventFacts

\* Pause, resume and reopening leave the worker to the run.
LEMMA SwitchesStay ==
  ASSUME IInv, Pause \/ Resume \/ Reopen
  PROVE  Stays
<1>1. run \in RunType /\ live' = live /\ overdue' = overdue
  BY DEF IInv, TypeOK, Pause, Resume, Reopen, world
<1>2. CASE Pause \/ Resume
  <2>1. PICK flag \in BOOLEAN : run' = Event([run EXCEPT !.paused = flag])
    BY <1>2 DEF Pause, Resume
  <2> DEFINE r == [run EXCEPT !.paused = flag]
  <2>2. ~run.cancelled
    BY <1>2 DEF Pause, Resume, Controllable
  <2>3. /\ r \in RunType /\ r.active = run.active /\ r.current = run.current
        /\ r.question = run.question /\ r.latest = run.latest
        /\ r.requests = run.requests /\ r.runs = run.runs
        /\ r.accepted = run.accepted
        /\ r.status = run.status /\ r.unsettled = run.unsettled
        /\ r.cancelled = run.cancelled
    BY <1>1 DEF RunType
  <2> HIDE DEF r
  <2>4. QED
    BY <1>1, <2>1, <2>2, <2>3, EventFacts DEF Stays, SameRecord, r
<1>3. CASE Reopen
  <2> DEFINE r == [run EXCEPT !.cancelled = FALSE, !.status = "Blocked",
                              !.block = TRUE]
  <2>1. /\ run' = Event(r) /\ run.active = None /\ ~run.unsettled
    BY <1>3 DEF Reopen, ReopenRun, Settled
  <2>2. /\ r \in RunType /\ r.active = run.active /\ r.current = run.current
        /\ r.question = run.question /\ r.latest = run.latest
        /\ r.requests = run.requests /\ r.runs = run.runs
        /\ r.accepted = run.accepted
        /\ r.status = "Blocked" /\ r.unsettled = run.unsettled
    BY <1>1 DEF RunType, Statuses
  <2> HIDE DEF r
  <2>3. QED
    BY <1>1, <2>1, <2>2, EventFacts DEF Stays, SameRecord
<1>4. QED
  BY <1>2, <1>3

\* Nothing outside rewrites the run.
LEMMA WorldStays ==
  ASSUME IInv, WorkerEnds \/ DeadlinePasses \/ OwnerReplies \/ OwnerMerges
  PROVE  Stays
<1>1. run \in RunType /\ overdue \in BOOLEAN
  BY DEF IInv, TypeOK
<1>2. run' = run /\ live' \subseteq live /\ (overdue => overdue')
  BY <1>1 DEF WorkerEnds, DeadlinePasses, OwnerReplies, OwnerMerges
<1>3. QED
  BY <1>1, <1>2 DEF Stays, IInv, CancelledBlocked

\* A reply in the tracker is to a request of the run.
LEMMA RepliesType ==
  ASSUME IInv, OwnerReplies
  PROVE  replies' \subseteq Requests
<1>1. run \in RunType /\ replies \subseteq Requests
  BY DEF IInv, TypeOK
<1>2. CASE \E s \in Steps : \E n \in 1 .. run.requests[s] :
             replies' = replies \cup {GoRequest(s, n)}
  BY <1>1, <1>2 DEF RunType, GoRequest, Requests
<1>3. CASE MayAsk /\ replies' = replies \cup {QuestionRequest(run.question)}
  <2>1. run.question \in Questions
    BY <1>1, <1>3 DEF MayAsk, OpenQuestion, RunType
  <2>2. QED
    BY <1>1, <1>3, <2>1 DEF QuestionRequest, Questions, Requests
<1>4. QED
  BY <1>2, <1>3 DEF OwnerReplies

\* Every action leaves the world with its type.
LEMMA WorldTypeKept ==
  ASSUME IInv, Next
  PROVE  WorldType
<1>1. /\ replies \subseteq Requests /\ overdue \in BOOLEAN
      /\ merged \in BOOLEAN /\ reruns \in Nat
  BY DEF IInv, TypeOK
<1>2. reruns' \in Nat
  BY <1>1 DEF Next, System, SystemStep, Owner, OwnerStep,
      OwnerControl, RecordSystem, RecordOwner
<1>3. CASE HubStep
  BY <1>1, <1>2, <1>3
  DEF HubStep, Iteration, SettleCancelled, ObserveSettled, ApplyAnswer, TimeOut,
      LoseTrack, ProcessFailed, InvalidResult, ResultBlocks, ChecksFail,
      EvidenceFails, ResultAccepted, GatePasses, GateFails, OpenGate,
      LimitReached, OpenPr, FamilyRefused, StartWorker, StartFails, world,
      WorldType
<1>4. CASE WorkerEnds \/ DeadlinePasses \/ OwnerMerges
  BY <1>1, <1>2, <1>4 DEF WorkerEnds, DeadlinePasses, OwnerMerges, WorldType
<1>5. CASE OwnerReplies
  BY <1>1, <1>2, <1>5, RepliesType DEF OwnerReplies, WorldType
<1>6. CASE \/ Pause \/ Resume \/ Cancel \/ Retry \/ Override \/ Approve
           \/ Answer \/ Reopen
  BY <1>1, <1>2, <1>6
  DEF Pause, Resume, Cancel, Retry, Override, Approve, Answer, Reopen, world,
      WorldType
<1>7. QED
  BY <1>3, <1>4, <1>5, <1>6 DEF Next, System, SystemStep, Owner, OwnerStep,
      OwnerControl
-----------------------------------------------------------------------------
(* The inductive invariant. *)

\* It holds at the start.
LEMMA InitInv ==
  ASSUME Init
  PROVE  IInv
<1> DEFINE new == NewRun(Start)
<1>1. /\ new \in RunType /\ new.status = "Ready" /\ new.active = None
      /\ ~new.unsettled /\ ~new.cancelled
      /\ new.latest = [s \in Steps |-> None]
      /\ new.requests = [s \in Steps |-> 0]
  BY HubAssumption, FlowAssumption DEF NewRun, RunType, Statuses, Target
<1>2. /\ run \in RunType /\ run.status \in {"Ready", "Blocked"}
      /\ run.active = None /\ ~run.unsettled
      /\ ~run.cancelled /\ run.latest = [s \in Steps |-> None]
      /\ run.requests = [s \in Steps |-> 0]
  <2> HIDE DEF new
  <2>1. run = new \/ run = StopOnBlock(new)
    BY DEF Init, IntakeRuns, new
  <2>2. QED
    BY <1>1, <2>1, StopOnBlockFacts DEF SameRecord
<1>3. /\ live = {} /\ overdue = FALSE /\ merged = FALSE /\ tainted = FALSE
      /\ replies = {} /\ released = [s \in Steps |-> 0] /\ reruns = 0
  BY DEF Init
<1>4. TypeOK /\ RunConsistent /\ SoleWorker
  BY <1>2, <1>3 DEF TypeOK, RunConsistent, SoleWorker
<1>5. NumbersTaken /\ GatesOpen /\ CancelledBlocked /\ RunningClean
  BY <1>2, <1>3 DEF NumbersTaken, GatesOpen, CancelledBlocked, RunningClean
<1>6. QED
  BY <1>4, <1>5 DEF IInv

\* Every step keeps it.
LEMMA StepInv ==
  ASSUME IInv, [Next]_vars
  PROVE  IInv'
<1>1. CASE UNCHANGED vars
  BY <1>1
  DEF vars, world, history, IInv, TypeOK, RunConsistent, SoleWorker,
      NumbersTaken, GatesOpen, CancelledBlocked, RunningClean, ActiveLive
<1>2. CASE Next
  <2>1. WorldType /\ Record
    BY <1>2, WorldTypeKept
    DEF Next, System, SystemStep, Owner, OwnerStep,
      OwnerControl, RecordSystem, RecordOwner
  <2>2. CASE SettleCancelled \/ ObserveSettled \/ ApplyAnswer
    BY <2>1, <2>2, BlockedMoves, MovesKeeps
  <2>3. CASE TimeOut
    BY <2>1, <2>3, TimeOutStep, MovesKeeps, StaysKeeps
  <2>4. CASE LoseTrack
    BY <2>1, <2>4, LoseTrackStays, StaysKeeps
  <2>5. CASE \/ ProcessFailed \/ InvalidResult \/ ResultBlocks
             \/ ChecksFail \/ EvidenceFails \/ ResultAccepted
    BY <2>1, <2>5, FinishedMoves, MovesKeeps
  <2>6. CASE GatePasses \/ GateFails
    BY <2>1, <2>6, GateMoves, MovesKeeps
  <2>7. CASE OpenGate
    BY <2>1, <2>7, OpenGateKeeps
  <2>8. CASE LimitReached \/ OpenPr \/ FamilyRefused \/ StartFails
    BY <2>1, <2>8, ReadyMoves, MovesKeeps
  <2>9. CASE StartWorker
    BY <2>1, <2>9, StartWorkerKeeps
  <2>10. CASE Retry \/ Override \/ Approve \/ Answer
    BY <2>1, <2>10, SettledControlsMove, MovesKeeps
  <2>11. CASE Pause \/ Resume \/ Cancel \/ Reopen
    BY <2>1, <2>11, SwitchesStay, CancelStep, MovesKeeps, StaysKeeps
  <2>12. CASE WorkerEnds \/ DeadlinePasses \/ OwnerReplies \/ OwnerMerges
    BY <2>1, <2>12, WorldStays, StaysKeeps
  <2>13. QED
    BY <1>2, <2>2, <2>3, <2>4, <2>5, <2>6, <2>7, <2>8, <2>9, <2>10, <2>11,
       <2>12
    DEF Next, System, SystemStep, Owner, OwnerStep,
      OwnerControl, HubStep, Iteration
<1>3. QED
  BY <1>1, <1>2

\* The invariant of the specification, from which the theorems follow.
LEMMA Invariance == Spec => []IInv
<1>1. Init => IInv
  BY InitInv
<1>2. IInv /\ [Next]_vars => IInv'
  BY StepInv
<1>3. QED
  BY <1>1, <1>2, PTL DEF Spec

(* The run, the world and the history keep their types, whatever the       *)
(* workflow: no route leads out of the steps, no counter goes negative.    *)
THEOREM TypeCorrect == Spec => []TypeOK
<1>1. IInv => TypeOK
  BY DEF IInv
<1>2. QED
  BY <1>1, Invariance, PTL

(* The only worker that executes is the attempt the run holds, so advance  *)
(* never resends a worker whose outcome it does not know.                  *)
THEOREM OneWorker == Spec => []SoleWorker
<1>1. IInv => SoleWorker
  BY DEF IInv
<1>2. QED
  BY <1>1, Invariance, PTL

(* The errors advance raises on an inconsistent run cannot occur.          *)
THEOREM Consistent == Spec => []RunConsistent
<1>1. IInv => RunConsistent
  BY DEF IInv
<1>2. QED
  BY <1>1, Invariance, PTL
-----------------------------------------------------------------------------
(* Action properties. *)

(* A cancelled run goes nowhere until it is reopened: what comes in late   *)
(* settles its worker and nothing else.                                    *)
THEOREM Cancellation == Spec => CancelIsTerminal
<1> DEFINE A == run.cancelled /\ run'.cancelled =>
                  /\ run'.accepted = run.accepted
                  /\ run'.evidence = run.evidence
                  /\ run'.current = run.current /\ run'.status = run.status
                  /\ live' \subseteq live
<1>1. IInv /\ [Next]_vars => [A]_vars
  <2> SUFFICES ASSUME IInv, Next, run.cancelled, run'.cancelled
               PROVE  A
    OBVIOUS
  <2>1. run \in RunType
    BY DEF IInv, TypeOK
  <2>2. \/ SettleCancelled \/ Reopen
        \/ WorkerEnds \/ DeadlinePasses \/ OwnerReplies \/ OwnerMerges
    BY DEF Next, System, SystemStep, Owner, OwnerStep,
      OwnerControl, HubStep, Iteration, Hosted, Controllable,
           ObserveSettled, MayAsk, ApplyAnswer, TimeOut, Observed, Finished,
           LoseTrack, ProcessFailed, InvalidResult, ResultBlocks, ChecksFail,
           EvidenceFails, ResultAccepted, AtGate, GatePasses, GateFails,
           IsReady, OpenGate, LimitReached, OpenPr, IsBotReady, FamilyRefused,
           StartWorker, StartFails, Pause, Resume, Cancel, Retry, Override,
           Approve, Answer
  <2>3. CASE SettleCancelled
    <3> DEFINE r == [run EXCEPT !.active = None, !.unsettled = FALSE]
    <3>1. run' = Event(r) /\ live' = live
      BY <2>3 DEF SettleCancelled, LetGo
    <3>2. /\ r \in RunType /\ r.accepted = run.accepted
          /\ r.evidence = run.evidence /\ r.current = run.current
          /\ r.status = run.status
      BY <2>1 DEF RunType
    <3> HIDE DEF r
    <3>3. QED
      BY <3>1, <3>2, EventFacts DEF SameRecord
  <2>4. CASE Reopen
    <3> DEFINE r == [run EXCEPT !.cancelled = FALSE, !.status = "Blocked",
                                !.block = TRUE]
    <3>1. run' = Event(r)
      BY <2>4 DEF Reopen, ReopenRun
    <3>2. r \in RunType /\ ~r.cancelled
      BY <2>1 DEF RunType, Statuses
    <3> HIDE DEF r
    <3>3. QED
      BY <3>1, <3>2, EventFacts DEF SameRecord
  <2>5. CASE WorkerEnds \/ DeadlinePasses \/ OwnerReplies \/ OwnerMerges
    BY <2>5 DEF WorkerEnds, DeadlinePasses, OwnerReplies, OwnerMerges
  <2>6. QED
    BY <2>2, <2>3, <2>4, <2>5
<1>2. QED
  BY <1>1, Invariance, PTL DEF Spec, CancelIsTerminal

\* Most steps move the run or leave its worker alone.
LEMMA StepKinds ==
  ASSUME IInv, Next, ~OpenGate, ~StartWorker
  PROVE  Moves \/ Stays
BY BlockedMoves, TimeOutStep, LoseTrackStays, FinishedMoves, GateMoves,
   ReadyMoves, SettledControlsMove, SwitchesStay, CancelStep, WorldStays
DEF Next, System, SystemStep, Owner, OwnerStep,
      OwnerControl, HubStep, Iteration

\* What opening a gate leaves as it is.
LEMMA OpenGateFacts ==
  ASSUME IInv, OpenGate
  PROVE  /\ run'.latest = run.latest /\ run'.accepted = run.accepted
         /\ run.status = "Ready" /\ run'.status = "Gate"
         /\ run'.active = None /\ run'.runs = run.runs
         /\ Repeats(run, run')
<1> DEFINE n == [run.requests EXCEPT ![run.current] = @ + 1]
           r == [run EXCEPT !.requests = n, !.status = "Gate"]
<1>1. run \in RunType /\ run' = Event(r)
      /\ run.status = "Ready" /\ run.active = None
  BY DEF IInv, TypeOK, OpenGate, IsReady
<1>2. n \in [Steps -> Nat]
  BY <1>1 DEF RunType
<1> HIDE DEF n
<1>3. /\ r \in RunType /\ r.latest = run.latest /\ r.accepted = run.accepted
      /\ r.status = "Gate" /\ r.active = None /\ r.runs = run.runs
      /\ Repeats(run, r)
  BY <1>1, <1>2 DEF RunType, Statuses, Repeats, Visits
<1> HIDE DEF r
<1>4. QED
  BY <1>1, <1>3, EventFacts, EventVisit, RepeatsThen DEF SameRecord

\* Only the start of a worker enters an attempt in the record.
LEMMA LatestOnlyByStart ==
  ASSUME IInv, Next, run'.latest # run.latest
  PROVE  StartWorker
BY StepKinds, OpenGateFacts DEF Moves, Stays

\* Only a finished worker's result is accepted.
LEMMA AcceptedOnlyByResult ==
  ASSUME IInv, Next, run'.accepted # run.accepted
  PROVE  ResultAccepted
BY StepKinds, OpenGateFacts, StartWorkerFacts DEF Moves, Stays

(* No attempt of a step takes the number of an earlier one, also after     *)
(* failed starts, retries, cancellation and reopening: the number names    *)
(* the attempt's directory and keys its start.                             *)
THEOREM Numbers == Spec => FreshAttemptNumbers
<1> DEFINE A == \A s \in Steps :
                  run'.latest[s] # run.latest[s] /\ run.latest[s] # None =>
                    run'.latest[s].number > run.latest[s].number
<1>1. IInv /\ [Next]_vars => [A]_vars
  <2> SUFFICES ASSUME IInv, Next, NEW s \in Steps,
                      run'.latest[s] # run.latest[s], run.latest[s] # None
               PROVE  run'.latest[s].number > run.latest[s].number
    OBVIOUS
  <2>1. StartWorker
    BY LatestOnlyByStart
  <2>2. PICK attempt \in Attempts :
          /\ attempt.number = run.runs[run.current] + 1
          /\ run'.latest = [run.latest EXCEPT ![run.current] = attempt]
    BY <2>1, StartWorkerFacts
  <2>3. /\ run.latest \in [Steps -> Attempts \cup {None}]
        /\ run.runs \in [Steps -> Nat]
    BY DEF IInv, TypeOK, RunType
  <2>4. s = run.current /\ run'.latest[s] = attempt
    BY <2>2, <2>3
  <2>5. run.latest[s].number \in Nat /\ run.latest[s].number <= run.runs[s]
    BY <2>3 DEF IInv, NumbersTaken, Attempts
  <2>6. QED
    BY <2>2, <2>3, <2>4, <2>5
<1>2. QED
  BY <1>1, Invariance, PTL DEF Spec, FreshAttemptNumbers

(* Nothing is accepted of an attempt that was past its deadline, without a *)
(* known outcome or cancelled at any time, even if it reports success.     *)
THEOREM LateResults == Spec => NoTaintedAcceptance
<1> DEFINE A == run'.accepted # run.accepted => ~tainted
<1>1. IInv /\ [Next]_vars => [A]_vars
  <2> SUFFICES ASSUME IInv, Next, run'.accepted # run.accepted
               PROVE  ~tainted
    OBVIOUS
  <2>1. ResultAccepted
    BY AcceptedOnlyByResult
  <2>2. QED
    BY <2>1 DEF ResultAccepted, Finished, Observed, IInv, RunningClean
<1>2. QED
  BY <1>1, Invariance, PTL DEF Spec, NoTaintedAcceptance

\* A gate without routes of its own is not left by a failure to read it.
LEMMA UnroutedBlock ==
  ASSUME IInv, NEW kind \in BlockKinds, Flow[run.current].on_block[kind] = None
  PROVE  /\ HandleBlock(run, kind).current = run.current
         /\ HandleBlock(run, kind).status \in {"Ready", "Blocked"}
<1> DEFINE e == Event(run)
           counted == [e EXCEPT !.retries[run.current] = @ + 1,
                                !.block = TRUE, !.status = "Ready"]
<1>1. e \in RunType /\ e.current = run.current
  BY EventFacts DEF IInv, TypeOK
<1>2. HandleBlock(run, kind) = Event(counted)
        \/ HandleBlock(run, kind) = StopOnBlock(e)
  BY DEF HandleBlock
<1>3. [e.retries EXCEPT ![run.current] = @ + 1] \in [Steps -> Nat]
  BY <1>1 DEF RunType
<1> HIDE DEF e
<1>4. /\ counted \in RunType /\ counted.current = e.current
      /\ counted.status = "Ready"
  BY <1>1, <1>3 DEF RunType, Statuses
<1> HIDE DEF counted
<1>5. QED
  BY <1>1, <1>2, <1>4, EventFacts, StopOnBlockFacts

(* If no workflow step that is a gate has an on_block route, a gate is     *)
(* left only by the owner's decision on its open request, and no decision  *)
(* is used twice, however often a cycle or a failure leads back to it.     *)
THEOREM Consent ==
  ASSUME UnroutedGates
  PROVE  Spec => FreshConsent
<1> DEFINE A == LeavesGate =>
       LET generation == run.requests[run.current]
       IN  /\ generation > released[run.current]
           /\ Step.kind = "owner_go" =>
                GoRequest(run.current, generation) \in replies \/ Approve
           /\ Step.kind = "owner_merge" => merged
<1>1. IInv /\ [Next]_vars => [A]_vars
  <2> SUFFICES ASSUME IInv, Next, LeavesGate
               PROVE  A
    OBVIOUS
  <2>1. /\ run.status = "Gate" /\ IsGate(run.current)
        /\ run'.current # run.current \/ run'.status = "Done"
        /\ run \in RunType /\ released \in [Steps -> Nat]
    BY DEF LeavesGate, IInv, TypeOK
  <2>2. run.requests[run.current] > released[run.current]
    BY <2>1 DEF IInv, GatesOpen, RunType
  <2>3. ~GateFails
    <3>1. \A kind \in BlockKinds : run' # HandleBlock(run, kind)
      BY <2>1, UnroutedBlock DEF UnroutedGates, RunType
    <3>2. QED
      BY <3>1, HubAssumption DEF GateFails, BlockKinds
  <2>4. ~Stays
    BY <2>1 DEF Stays
  <2>5. GatePasses \/ Approve
    BY <2>1, <2>3, <2>4, CancelPlace, SwitchesStay, WorldStays
    DEF Next, System, SystemStep, Owner, OwnerStep,
      OwnerControl, HubStep, Iteration, SettleCancelled, IInv, CancelledBlocked,
        ObserveSettled, MayAsk, ApplyAnswer, TimeOut, Observed, Finished,
        LoseTrack, ProcessFailed, InvalidResult, ResultBlocks, ChecksFail,
        EvidenceFails, ResultAccepted, IsReady, OpenGate, LimitReached,
        OpenPr, IsBotReady, FamilyRefused, StartWorker, StartFails, Retry,
        Override, Answer
  <2>6. CASE GatePasses
    BY <2>2, <2>6 DEF GatePasses, AtGate
  <2>7. CASE Approve
    BY <2>2, <2>7 DEF Approve
  <2>8. QED
    BY <2>5, <2>6, <2>7
<1>2. QED
  BY <1>1, Invariance, PTL DEF Spec, FreshConsent
-----------------------------------------------------------------------------
(* What becomes of the visit, and of the run's counters. *)

\* What a step of the hub or of the world makes of the visit.
Routed ==
  \/ StartWorker \/ OpenGate
  \/ MovesOn(run, run')
  \/ Retries(run, run') /\ run.status \in {"Ready", "Running", "Gate"}
  \/ FailsCheck(run, run') /\ run.status = "Running"
  \/ Asks(run, run.active, run') /\ run.status = "Running"
  \/ Stops(run, run')
  \/ /\ Repeats(run, run')
     /\ run'.status = run.status /\ run'.runs = run.runs
  \/ ApplyAnswer /\ OpenQuestion(run) /\ Answers(run, run')

\* What only the owner makes of it.
Controlled ==
  \/ Approve /\ Leaves(run, run')
  \/ Answer /\ OpenQuestion(run) /\ Answers(run, run')
  \/ Retry /\ Restarts(run, run')

\* Starts are counted only in a run that is Ready.
CountsStarts == run'.runs = run.runs \/ run.status = "Ready"

\* Letting go of a worker stays in the visit.
LEMMA LetGoVisit ==
  ASSUME NEW q \in RunType, Stops(run, q) \/ (q = run /\ q.status = "Blocked")
  PROVE  Stops(run, LetGo(q)) /\ LetGo(q).runs = q.runs
<1> DEFINE r == [q EXCEPT !.active = None, !.unsettled = FALSE]
<1>1. LetGo(q) = Event(r)
  BY DEF LetGo
<1>2. r \in RunType /\ Stops(run, r) /\ r.runs = q.runs
  BY DEF RunType, Stops, Repeats, Visits
<1> HIDE DEF r
<1>3. Repeats(r, Event(r)) /\ Event(r).status = r.status
      /\ Event(r).runs = r.runs
  BY <1>2, EventVisit, EventFacts DEF SameRecord
<1>4. QED
  BY <1>1, <1>2, <1>3 DEF Stops, Repeats

\* Settlement, answers and doubts.
LEMMA BlockedOutcome ==
  ASSUME IInv, \/ SettleCancelled \/ ObserveSettled \/ ApplyAnswer
               \/ LoseTrack
  PROVE  Routed /\ run'.runs = run.runs
<1>1. run \in RunType
  BY DEF IInv, TypeOK
<1>2. CASE SettleCancelled \/ ObserveSettled
  <2>1. run.status = "Blocked" /\ run' = LetGo(run)
    BY <1>2 DEF SettleCancelled, ObserveSettled, IInv, CancelledBlocked
  <2>2. QED
    BY <1>1, <2>1, LetGoVisit DEF Routed
<1>3. CASE ApplyAnswer
  <2>1. run' = AnswerQuestion(run) /\ OpenQuestion(run)
    BY <1>3 DEF ApplyAnswer, MayAsk
  <2>2. run.question # None
    BY <2>1 DEF OpenQuestion
  <2>3. QED
    BY <1>1, <1>3, <2>1, <2>2, ControlVisits, AnswerQuestionFacts
    DEF Routed, SameRecord
<1>4. CASE LoseTrack
  <2> DEFINE r == [run EXCEPT !.unsettled = TRUE, !.status = "Blocked",
                              !.block = TRUE]
  <2>1. run' = Event(r)
    BY <1>4 DEF LoseTrack
  <2>2. /\ r \in RunType /\ Repeats(run, r) /\ r.status = "Blocked"
        /\ r.runs = run.runs
    BY <1>1 DEF RunType, Statuses, Repeats, Visits
  <2> HIDE DEF r
  <2>3. /\ Repeats(r, Event(r)) /\ Event(r).status = "Blocked"
        /\ Event(r).runs = run.runs
    BY <2>2, EventVisit, EventFacts DEF SameRecord
  <2>4. QED
    BY <2>1, <2>2, <2>3 DEF Routed, Stops, Repeats
<1>5. QED
  BY <1>2, <1>3, <1>4

\* The deadline.
LEMMA TimeOutOutcome ==
  ASSUME IInv, TimeOut
  PROVE  Routed /\ run'.runs = run.runs
<1> DEFINE e == Event(run)
           late == [e EXCEPT !.unsettled = TRUE, !.status = "Blocked",
                             !.block = TRUE]
           gone == [late EXCEPT !.unsettled = FALSE, !.active = None]
<1>1. run \in RunType
  BY DEF IInv, TypeOK
<1>2. /\ run.status = "Running"
      /\ run' = HandleBlock(gone, "transient") \/ run' = late
  BY DEF TimeOut
<1>3. e \in RunType /\ Repeats(run, e) /\ e.runs = run.runs
  BY <1>1, EventVisit, EventFacts DEF SameRecord
<1> HIDE DEF e
<1>4. /\ gone \in RunType /\ Repeats(run, gone) /\ gone.runs = run.runs
      /\ late \in RunType /\ Repeats(run, late) /\ late.runs = run.runs
      /\ late.status = "Blocked"
  BY <1>3 DEF RunType, Statuses, Repeats, Visits
<1> HIDE DEF gone, late
<1>5. CASE run' = late
  BY <1>4, <1>5 DEF Routed, Stops
<1>6. CASE run' = HandleBlock(gone, "transient")
  <2>1. "transient" \in BlockKinds
    BY DEF BlockKinds
  <2>2. Retries(gone, run') \/ Stops(gone, run')
    BY <1>4, <1>6, <2>1, HandleBlockVisit
  <2>3. Retries(run, run') \/ Stops(run, run')
    BY <1>1, <1>4, <2>2, RepeatsThen
  <2>4. run'.runs = run.runs
    BY <1>4, <1>6, <2>1, HandleBlockFacts DEF SameRecord
  <2>5. QED
    BY <1>2, <2>3, <2>4 DEF Routed
<1>7. QED
  BY <1>2, <1>5, <1>6

\* A finished worker.
LEMMA FinishedOutcome ==
  ASSUME IInv, \/ ProcessFailed \/ InvalidResult \/ ResultBlocks
               \/ ChecksFail \/ EvidenceFails \/ ResultAccepted
  PROVE  Routed /\ run'.runs = run.runs
<1> DEFINE attempt == run.active
           r == Collected
           Result(q) == \/ Retries(r, q) \/ MovesOn(r, q) \/ Stops(r, q)
                        \/ FailsCheck(r, q) \/ Asks(r, attempt, q)
<1>1. Finished /\ run.status = "Running" /\ run \in RunType
  BY DEF ProcessFailed, InvalidResult, ResultBlocks, ChecksFail,
         EvidenceFails, ResultAccepted, Finished, Observed, IInv, TypeOK
<1>2. /\ r \in RunType /\ SameRecord(run, r) /\ attempt \in Attempts
      /\ r.active = None /\ ~r.unsettled
  BY <1>1, CollectedFacts
<1>3. /\ r.current = run.current /\ r.retries = run.retries
      /\ r.failures = run.failures /\ r.question = run.question
      /\ Repeats(run, r)
  BY <1>1 DEF Collected, RunType, Repeats, Visits
<1>4. /\ "transient" \in BlockKinds /\ "unknown" \in BlockKinds
      /\ AdapterKinds \subseteq BlockKinds /\ WorkerKinds \subseteq BlockKinds
  BY HubAssumption DEF BlockKinds
<1> HIDE DEF r, attempt
<1>5. Result(run') /\ run'.runs = r.runs
  <2>1. CASE \E kind \in BlockKinds : run' = HandleBlock(r, kind)
    BY <1>2, <2>1, HandleBlockVisit, HandleBlockFacts DEF SameRecord
  <2>2. CASE ResultBlocks
    <3>1. PICK kind \in BlockKinds, asks \in BOOLEAN :
            run' = WorkerBlocked(r, attempt, kind, asks)
      BY <1>4, <2>2 DEF ResultBlocks, r, attempt
    <3>2. QED
      BY <1>2, <3>1, WorkerBlockedVisit, WorkerBlockedFacts DEF SameRecord
  <2>3. CASE ChecksFail
    <3>1. PICK kind \in BlockKinds : run' = CheckFailed(r, kind)
      BY <1>4, <2>3 DEF ChecksFail, r
    <3>2. QED
      BY <1>2, <3>1, CheckFailedVisit, CheckFailedFacts DEF SameRecord
  <2>4. CASE ResultAccepted
    <3>1. PICK verdict \in Verdicts \cup {None} :
            run' = AcceptResult(r, attempt, verdict)
      BY <2>4 DEF ResultAccepted, r, attempt
    <3>2. QED
      BY <1>2, <3>1, AcceptResultVisit, AcceptResultFacts DEF SameCounters
  <2>5. \/ \E kind \in BlockKinds : run' = HandleBlock(r, kind)
        \/ ResultBlocks \/ ChecksFail \/ ResultAccepted
    BY <1>4 DEF ProcessFailed, InvalidResult, EvidenceFails, r
  <2>6. QED
    BY <2>1, <2>2, <2>3, <2>4, <2>5
<1>6. run'.current \in Steps
  BY FinishedMoves DEF Moves, RunType
<1>7. \/ Retries(run, run') \/ MovesOn(run, run') \/ Stops(run, run')
      \/ FailsCheck(run, run') \/ Asks(run, attempt, run')
  <2>1. CASE Retries(r, run') \/ MovesOn(r, run') \/ Stops(r, run')
    BY <1>1, <1>2, <1>3, <1>6, <2>1, RepeatsThen
  <2>2. CASE FailsCheck(r, run') \/ Asks(r, attempt, run')
    BY <1>3, <2>2 DEF FailsCheck, Asks
  <2>3. QED
    BY <1>5, <2>1, <2>2
<1>8. QED
  BY <1>1, <1>2, <1>5, <1>7 DEF Routed, SameRecord, attempt

\* Gates, and runs that are ready.
LEMMA ReadyOutcome ==
  ASSUME IInv, \/ GatePasses \/ GateFails \/ LimitReached \/ OpenPr
               \/ FamilyRefused \/ StartFails
  PROVE  Routed /\ CountsStarts
<1> DEFINE opened == [Counted EXCEPT !.pr = TRUE]
<1>1. run \in RunType /\ run.current \in Steps
  BY DEF IInv, TypeOK, RunType
<1>2. PICK q \in {run, Counted, opened} :
        /\ \/ run' = StopOnBlock(q)
           \/ run' = Transition(Event(q), Step.next)
           \/ \E kind \in BlockKinds : run' = HandleBlock(q, kind)
        /\ q = run \/ run.status = "Ready"
        /\ run.status \in {"Ready", "Gate"}
  <2>1. AdapterKinds \subseteq BlockKinds /\ "unknown" \in BlockKinds
    BY HubAssumption DEF BlockKinds
  <2> HIDE DEF opened
  <2>2. CASE GatePasses \/ GateFails
    BY <2>1, <2>2 DEF GatePasses, GateFails, AtGate
  <2>3. CASE LimitReached \/ FamilyRefused
    BY <2>3 DEF LimitReached, FamilyRefused, IsBotReady, IsReady
  <2>4. CASE OpenPr
    BY <2>1, <2>4 DEF OpenPr, opened, IsReady
  <2>5. CASE StartFails
    BY <2>1, <2>5 DEF StartFails, IsBotReady, IsReady
  <2>6. QED
    BY <2>2, <2>3, <2>4, <2>5
<1>3. /\ q \in RunType /\ Repeats(run, q)
      /\ q.runs = run.runs \/ run.status = "Ready"
  <2> DEFINE n == [run.runs EXCEPT ![run.current] = @ + 1]
  <2>1. n \in [Steps -> Nat]
    BY <1>1 DEF RunType
  <2>2. Counted = [run EXCEPT !.runs = n]
    BY DEF Counted
  <2> HIDE DEF n
  <2>3. Counted \in RunType /\ Repeats(run, Counted)
    BY <1>1, <2>1, <2>2 DEF RunType, Repeats, Visits
  <2>4. opened \in RunType /\ Repeats(run, opened)
    BY <2>3 DEF RunType, Repeats, Visits
  <2>5. Repeats(run, run)
    BY DEF Repeats
  <2>6. QED
    BY <1>1, <1>2, <2>3, <2>4, <2>5
<1> HIDE DEF opened
<1>4. Step.next \in Target
  BY <1>1, FlowAssumption DEF StepType, Step
<1>5. Event(q) \in RunType /\ Repeats(run, Event(q)) /\ Event(q).runs = q.runs
  BY <1>1, <1>3, EventFacts, EventVisit, RepeatsThen DEF SameRecord
<1>6. CASE run' = StopOnBlock(q)
  BY <1>1, <1>3, <1>6, StopVisit, StopOnBlockFacts, RepeatsThen
  DEF Routed, CountsStarts, SameRecord
<1>7. CASE run' = Transition(Event(q), Step.next)
  <2>1. /\ MovesOn(Event(q), run') /\ run'.runs = q.runs
        /\ run'.current \in Steps
    BY <1>4, <1>5, <1>7, TransitionVisit, TransitionFacts
    DEF SameRecord, RunType
  <2>2. QED
    BY <1>1, <1>3, <1>5, <2>1, RepeatsThen DEF Routed, CountsStarts
<1>8. CASE \E kind \in BlockKinds : run' = HandleBlock(q, kind)
  <2>1. /\ Retries(q, run') \/ MovesOn(q, run') \/ Stops(q, run')
        /\ run'.runs = q.runs /\ run'.current \in Steps
    BY <1>3, <1>8, HandleBlockVisit, HandleBlockFacts DEF SameRecord, RunType
  <2>2. QED
    BY <1>1, <1>2, <1>3, <2>1, RepeatsThen DEF Routed, CountsStarts
<1>9. QED
  BY <1>2, <1>6, <1>7, <1>8

\* The world outside.
LEMMA WorldOutcome ==
  ASSUME WorkerEnds \/ DeadlinePasses \/ OwnerReplies \/ OwnerMerges
  PROVE  Routed /\ run'.runs = run.runs
BY DEF OwnerReplies, OwnerMerges, WorkerEnds, DeadlinePasses, Routed, Repeats

\* The owner's controls.
LEMMA OwnerOutcome ==
  ASSUME IInv, OwnerControl
  PROVE  /\ Routed \/ (OwnerControl /\ Controlled)
         /\ run'.runs = run.runs
<1>1. run \in RunType
  BY DEF IInv, TypeOK
<1>2. CASE Retry
  BY <1>1, <1>2, ControlVisits, RetryStepFacts DEF Retry, Controlled, OwnerControl, SameRecord
<1>3. CASE Override
  BY <1>1, <1>3, ControlVisits, OverrideStepFacts
  DEF Override, Routed, SameRecord
<1>4. CASE Approve
  BY <1>1, <1>4, ControlVisits, ApproveGateFacts
  DEF Approve, Controlled, OwnerControl, SameRecord
<1>5. CASE Answer
  <2>1. run.question # None /\ OpenQuestion(run) /\ run' = AnswerQuestion(run)
    BY <1>5 DEF Answer, OpenQuestion
  <2>2. QED
    BY <1>1, <1>5, <2>1, ControlVisits, AnswerQuestionFacts
    DEF Controlled, OwnerControl, SameRecord
<1>6. CASE Cancel
  <2>1. run' = CancelRun(run) \/ run' = LetGo(CancelRun(run))
    BY <1>6 DEF Cancel
  <2>2. /\ CancelRun(run) \in RunType /\ Stops(run, CancelRun(run))
        /\ CancelRun(run).runs = run.runs
    BY <1>1, CancelRunFacts, ControlVisits
  <2>3. QED
    BY <2>1, <2>2, LetGoVisit DEF Routed
<1>7. CASE Reopen
  <2>1. Stops(run, run')
    BY <1>1, <1>7, ControlVisits DEF Reopen
  <2>2. run'.runs = run.runs
    BY <1>7, SwitchesStay DEF Stays
  <2>3. QED
    BY <2>1, <2>2 DEF Routed
<1>8. CASE Pause \/ Resume
  <2>1. PICK flag \in BOOLEAN : run' = Event([run EXCEPT !.paused = flag])
    BY <1>8 DEF Pause, Resume
  <2> DEFINE r == [run EXCEPT !.paused = flag]
  <2>2. /\ r \in RunType /\ Repeats(run, r) /\ r.status = run.status
        /\ r.runs = run.runs
    BY <1>1 DEF RunType, Repeats, Visits
  <2>3. run' = Event(r)
    BY <2>1
  <2> HIDE DEF r
  <2>4. Repeats(run, run') /\ run'.status = run.status /\ run'.runs = run.runs
    BY <1>1, <2>2, <2>3, EventVisit, EventFacts, RepeatsThen DEF SameRecord
  <2>5. QED
    BY <2>4 DEF Routed
<1>9. QED
  BY <1>2, <1>3, <1>4, <1>5, <1>6, <1>7, <1>8 DEF OwnerControl

\* What becomes of the starts counted in the visit.
LEMMA RerunsStep ==
  ASSUME IInv, Next
  PROVE  /\ reruns \in Nat
         /\ \/ reruns' \in {0, reruns}
            \/ reruns' = reruns + 1 /\ run'.runs # run.runs
         /\ NewVisit => reruns' = 0
<1>1. reruns \in Nat
  BY DEF IInv, TypeOK
<1>2. CASE System
  BY <1>1, <1>2 DEF System, RecordSystem
<1>3. CASE Owner
  BY <1>1, <1>3 DEF Owner, RecordOwner
<1>4. QED
  BY <1>2, <1>3 DEF Next

\* The owner alone replies, and acts on the visit.
LEMMA OnlyOwner ==
  ASSUME IInv, Next
  PROVE  /\ \/ Routed
            \/ Controlled /\ reruns' = 0
         /\ run'.runs = run.runs \/ run.status = "Ready"
         /\ replies' = replies \/ (OwnerReplies /\ reruns' = 0)
<1>1. CASE StartWorker \/ OpenGate
  BY <1>1 DEF StartWorker, OpenGate, IsBotReady, IsReady, Routed, world
<1>2. CASE System /\ ~StartWorker /\ ~OpenGate
  <2>1. Routed /\ (run'.runs = run.runs \/ run.status = "Ready")
    BY <1>2, BlockedOutcome, TimeOutOutcome, FinishedOutcome, ReadyOutcome,
       WorldOutcome
    DEF System, SystemStep, HubStep, Iteration, CountsStarts
  <2>2. replies' = replies
    BY <1>2
  DEF System, SystemStep, 
      HubStep, Iteration, SettleCancelled, ObserveSettled, ApplyAnswer, TimeOut,
      LoseTrack, ProcessFailed, InvalidResult, ResultBlocks, ChecksFail,
      EvidenceFails, ResultAccepted, GatePasses, GateFails, OpenGate,
      LimitReached, OpenPr, FamilyRefused, StartWorker, StartFails, world,
      WorkerEnds, DeadlinePasses
  <2>3. QED
    BY <2>1, <2>2
<1>3. CASE Owner /\ ~StartWorker /\ ~OpenGate
  <2>1. reruns' = 0 /\ OwnerStep
    BY <1>3 DEF Owner, RecordOwner
  <2>2. /\ Routed \/ (OwnerControl /\ Controlled)
        /\ run'.runs = run.runs
    BY <2>1, OwnerOutcome, WorldOutcome DEF OwnerStep
  <2>3. replies' = replies \/ OwnerReplies
    BY <2>1
    DEF OwnerStep, OwnerControl, OwnerMerges, Pause, Resume, Cancel, Retry,
        Override, Approve, Answer, Reopen, world
  <2>4. QED
    BY <2>1, <2>2, <2>3
<1>4. QED
  BY <1>1, <1>2, <1>3 DEF Next
-----------------------------------------------------------------------------
(* The invariant of a visit. *)

\* A run's counters, for the arithmetic below.
LEMMA CounterTypes ==
  ASSUME NEW r \in RunType
  PROVE  /\ r.current \in Steps /\ r.runs \in [Steps -> Nat]
         /\ r.retries \in [Steps -> Nat] /\ r.failures \in [Steps -> Nat]
         /\ r.status \in Statuses
BY DEF RunType

\* The types of the run before and after a step.
LEMMA BothTypes ==
  ASSUME IInv, Next
  PROVE  run \in RunType /\ run' \in RunType /\ IInv'
<1>1. IInv'
  BY StepInv
<1>2. QED
  BY <1>1 DEF IInv, TypeOK

\* The counters, past each way of leaving a visit as it is or resetting it.
LEMMA CountersStep ==
  ASSUME IInv, VisitInv, Next
  PROVE  /\ \A s \in Steps : run'.retries[s] <= TransientRetries
         /\ \A s \in Steps \ {run'.current} : run'.failures[s] = 0
         /\ run'.status # "Blocked" \/ run'.question # None =>
              run'.failures[run'.current] <= 1
<1> DEFINE Kept ==
      /\ \A s \in Steps : run'.retries[s] <= TransientRetries
      /\ \A s \in Steps \ {run'.current} : run'.failures[s] = 0
      /\ run'.status # "Blocked" \/ run'.question # None =>
           run'.failures[run'.current] <= 1
<1>1. /\ run \in RunType /\ run' \in RunType
      /\ run.current \in Steps /\ TransientRetries \in Nat
      /\ run.retries \in [Steps -> Nat] /\ run.failures \in [Steps -> Nat]
  BY BothTypes, CounterTypes, FlowAssumption
<1>2. /\ \A s \in Steps : run.retries[s] <= TransientRetries
      /\ \A s \in Steps \ {run.current} : run.failures[s] = 0
      /\ run.status # "Blocked" \/ run.question # None =>
           run.failures[run.current] <= 1
  BY DEF VisitInv, StartsCounted
<1>3. run.status = "Running" => run.question = None
  BY DEF IInv, RunConsistent
<1>4. CASE StartWorker \/ OpenGate
  <2>1. /\ run'.retries = run.retries /\ run'.failures = run.failures
        /\ run'.current = run.current
    BY <1>4, StartWorkerFacts, OpenGateFacts DEF Repeats
  <2>2. run.status = "Ready"
    BY <1>4, OpenGateFacts DEF StartWorker, IsBotReady, IsReady
  <2>3. QED
    BY <1>2, <2>1, <2>2
<1>5. CASE MovesOn(run, run') \/ Leaves(run, run')
  <2>1. /\ run'.retries = [run.retries EXCEPT ![run.current] = 0]
        /\ run'.failures = [run.failures EXCEPT ![run.current] = 0]
        /\ run'.current \in Steps
    BY <1>1, <1>5, CounterTypes DEF MovesOn, Leaves
  <2>2. \A s \in Steps : run'.failures[s] = 0
    BY <1>1, <1>2, <2>1
  <2>3. QED
    BY <1>1, <1>2, <2>1, <2>2
<1>6. CASE Retries(run, run') /\ run.status \in {"Ready", "Running", "Gate"}
  BY <1>1, <1>2, <1>6 DEF Retries
<1>7. CASE FailsCheck(run, run') /\ run.status = "Running"
  BY <1>1, <1>2, <1>3, <1>7 DEF FailsCheck
<1>8. CASE Asks(run, run.active, run') /\ run.status = "Running"
  BY <1>2, <1>8 DEF Asks
<1>9. CASE Stops(run, run')
  BY <1>2, <1>9 DEF Stops, Repeats
<1>10. CASE Repeats(run, run') /\ run'.status = run.status
  BY <1>2, <1>10 DEF Repeats
<1>11. CASE OpenQuestion(run) /\ Answers(run, run')
  BY <1>2, <1>11 DEF OpenQuestion, Answers
<1>12. CASE Restarts(run, run')
  BY <1>1, <1>2, <1>12 DEF Restarts
<1>13. QED
  BY <1>4, <1>5, <1>6, <1>7, <1>8, <1>9, <1>10, <1>11, <1>12, OnlyOwner
  DEF Routed, Controlled

\* A visit pays for each of its starts.
LEMMA StartsStep ==
  ASSUME IInv, VisitInv, Next
  PROVE  StartsCounted' /\ RerunsBounded'
<1> DEFINE here == run.current
           paid == run.retries[here] + run.failures[here]
           here2 == run'.current
           paid2 == run'.retries[here2] + run'.failures[here2]
           Bounded == /\ run'.status \in {"Ready", "Gate"} => reruns' <= paid2
                      /\ run'.status = "Running" => reruns' <= paid2 + 1
                      /\ reruns' <= TransientRetries + 2
<1>1. /\ run \in RunType /\ run' \in RunType
      /\ here \in Steps /\ here2 \in Steps /\ TransientRetries \in Nat
      /\ run.retries \in [Steps -> Nat] /\ run.failures \in [Steps -> Nat]
      /\ run'.retries \in [Steps -> Nat] /\ run'.failures \in [Steps -> Nat]
      /\ run.status \in Statuses
  BY BothTypes, CounterTypes, FlowAssumption
<1>2. /\ run.retries[here] <= TransientRetries
      /\ run.status # "Blocked" => run.failures[here] <= 1
      /\ run.status \in {"Ready", "Gate"} => reruns <= paid
      /\ run.status = "Running" => reruns <= paid + 1
      /\ reruns <= TransientRetries + 2
  BY <1>1 DEF VisitInv, StartsCounted, RerunsBounded
<1>3. /\ reruns \in Nat
      /\ reruns' \in {0, reruns} \/ (reruns' = reruns + 1 /\ run.status = "Ready")
      /\ NewVisit => reruns' = 0
  BY RerunsStep, OnlyOwner
<1>4. paid \in Nat /\ paid2 \in Nat
  BY <1>1
<1>5. reruns' <= TransientRetries + 2
  <2>1. run.status = "Ready" => reruns <= TransientRetries + 1
    BY <1>1, <1>2, <1>3
  <2>2. QED
    BY <1>1, <1>2, <1>3, <2>1
<1>6. reruns' = 0 => Bounded
  BY <1>4, <1>5
<1>7. Bounded
  <2>1. CASE reruns' = 0
    BY <1>6, <2>1
  <2>2. CASE StartWorker \/ OpenGate
    <3>1. CASE StartWorker
      <4>1. run'.status = "Running" /\ paid2 = paid /\ run.status = "Ready"
        BY <3>1, StartWorkerFacts, ReadyFacts DEF StartWorker, IsBotReady
      <4>2. QED
        BY <1>2, <1>3, <1>4, <1>5, <4>1
    <3>2. CASE OpenGate
      <4>1. /\ run'.status = "Gate" /\ paid2 = paid /\ run.status = "Ready"
            /\ run'.runs = run.runs
        BY <3>2, OpenGateFacts DEF Repeats
      <4>2. reruns' \in {0, reruns}
        BY <4>1, RerunsStep
      <4>3. QED
        BY <1>2, <1>3, <1>4, <1>5, <4>1, <4>2
    <3>3. QED
      BY <2>2, <3>1, <3>2
  <2>3. CASE MovesOn(run, run')
    <3>1. run'.status = "Done" \/ NewVisit
      BY <2>3 DEF MovesOn, NewVisit
    <3>2. QED
      BY <1>3, <1>5, <1>6, <3>1
  <2>4. CASE Retries(run, run') /\ run.status \in {"Ready", "Running", "Gate"}
    <3>1. paid2 = paid + 1 /\ run'.status = "Ready"
      BY <1>1, <2>4 DEF Retries
    <3>2. reruns' <= paid + 1
      BY <1>2, <1>3, <1>4, <2>4
    <3>3. QED
      BY <1>5, <3>1, <3>2
  <2>5. CASE FailsCheck(run, run') /\ run.status = "Running"
    <3>1. paid2 = paid + 1 /\ run'.status \in {"Ready", "Blocked"}
      BY <1>1, <2>5 DEF FailsCheck
    <3>2. reruns' <= paid + 1
      BY <1>2, <1>3, <1>4, <2>5
    <3>3. QED
      BY <1>5, <3>1, <3>2
  <2>6. CASE Asks(run, run.active, run') \/ Stops(run, run')
    BY <1>5, <2>6 DEF Asks, Stops
  <2>7. CASE /\ Repeats(run, run')
             /\ run'.status = run.status /\ run'.runs = run.runs
    <3>1. paid2 = paid /\ reruns' \in {0, reruns}
      BY <2>7, RerunsStep DEF Repeats
    <3>2. QED
      BY <1>2, <1>4, <1>5, <1>6, <2>7, <3>1
  <2>8. CASE ApplyAnswer
    <3>1. /\ run.status = "Blocked" /\ run.question # None
          /\ ~run.question.answered
          /\ QuestionRequest(run.question) \in replies
      BY <2>8 DEF ApplyAnswer, MayAsk, OpenQuestion
    <3>2. reruns = 0
      BY <3>1 DEF VisitInv, QuestionsPut
    <3>3. reruns' = 0
      BY <1>3, <3>1, <3>2
    <3>4. QED
      BY <1>6, <3>3
  <2>9. QED
    BY <2>1, <2>2, <2>3, <2>4, <2>5, <2>6, <2>7, <2>8, OnlyOwner DEF Routed
<1>8. StartsCounted'
  BY <1>7, CountersStep DEF StartsCounted
<1>9. QED
  BY <1>5, <1>8 DEF RerunsBounded

\* What a step does to the question, the replies and the attempt numbers.
LEMMA RunsGrow ==
  ASSUME IInv, Next
  PROVE  \A s \in Steps : run'.runs[s] >= run.runs[s]
<1>1. run.runs \in [Steps -> Nat] /\ run.current \in Steps
  BY BothTypes, CounterTypes
<1>2. CASE StartWorker
  <2>1. run'.runs = [run.runs EXCEPT ![run.current] = @ + 1]
    BY <1>2, StartWorkerFacts
  <2>2. QED
    BY <1>1, <2>1
<1>3. CASE OpenGate
  BY <1>1, <1>3, OpenGateFacts
<1>4. CASE Moves \/ Stays
  BY <1>1, <1>4 DEF Moves, Stays
<1>5. QED
  BY <1>2, <1>3, <1>4, StepKinds

\* A worker held by the run is the one it held, or one just started.
LEMMA ActiveStep ==
  ASSUME IInv, Next, run'.active # None
  PROVE  \/ StartWorker
         \/ /\ run'.active = run.active /\ run'.current = run.current
            /\ run'.latest = run.latest
<1>1. ~OpenGate
  BY OpenGateFacts
<1>2. ~Moves
  BY DEF Moves, Idle
<1>3. QED
  BY <1>1, <1>2, StepKinds DEF Stays

\* A question is kept, put by the worker that has ended, or answered.
LEMMA QuestionStep ==
  ASSUME IInv, VisitInv, Next, run'.question # None
  PROVE  /\ run'.current = run.current
         /\ \/ /\ run.question # None
               /\ run'.question.step = run.question.step
               /\ run'.question.request = run.question.request
               /\ \/ run'.question.answered
                  \/ /\ run'.question = run.question
                     /\ run.status = "Blocked" /\ run'.status = "Blocked"
            \/ /\ run.active # None /\ run'.active = None
               /\ run'.status = "Blocked"
               /\ run'.question.step = run.active.step
               /\ run'.question.request = run.active.number
               /\ ~run'.question.answered
<1>1. /\ run \in RunType
      /\ run.question # None =>
           run.status = "Blocked" \/ run.question.answered
      /\ run.status = "Running" =>
           run.active # None /\ run.active.step = run.current
  BY BothTypes DEF VisitInv, QuestionsPut, IInv, RunConsistent
<1>2. run.question # None => run.question \in Questions
  BY <1>1 DEF RunType
<1>3. ~StartWorker /\ ~MovesOn(run, run') /\ ~Leaves(run, run')
  BY StartWorkerFacts DEF MovesOn, Leaves
<1>4. CASE OpenGate
  BY <1>1, <1>4, OpenGateFacts DEF Repeats
<1>5. CASE Retries(run, run') /\ run.status \in {"Ready", "Running", "Gate"}
  BY <1>1, <1>5 DEF Retries
<1>6. CASE FailsCheck(run, run') /\ run.status = "Running"
  BY <1>1, <1>6 DEF FailsCheck
<1>7. CASE Asks(run, run.active, run') /\ run.status = "Running"
  <2>1. run'.active = None
    BY BothTypes DEF IInv, RunConsistent
  <2>2. QED
    BY <1>1, <1>7, <2>1 DEF Asks
<1>8. CASE \/ Stops(run, run')
           \/ Repeats(run, run') /\ run'.status = run.status
  BY <1>1, <1>8 DEF Stops, Repeats
<1>9. CASE OpenQuestion(run) /\ Answers(run, run')
  BY <1>2, <1>9 DEF OpenQuestion, Answers, Questions
<1>10. CASE Restarts(run, run')
  BY <1>1, <1>10 DEF Restarts
<1>11. QED
  BY <1>3, <1>4, <1>5, <1>6, <1>7, <1>8, <1>9, <1>10, OnlyOwner
  DEF Routed, Controlled

\* Questions are put by the workers of bot steps and answered once.
LEMMA QuestionsStep ==
  ASSUME IInv, VisitInv, Next
  PROVE  QuestionsPut'
<1> DEFINE q == run.question
           q2 == run'.question
           here == run.current
<1>1. /\ run \in RunType /\ run' \in RunType /\ IInv'
      /\ run.runs \in [Steps -> Nat] /\ run'.runs \in [Steps -> Nat]
      /\ here \in Steps /\ run'.current \in Steps
      /\ \A s \in Steps : run'.runs[s] >= run.runs[s]
  BY BothTypes, CounterTypes, RunsGrow
<1>2. /\ q # None => /\ q \in Questions /\ q.step = here
                     /\ Flow[here].kind = "bot"
                     /\ q.request <= run.runs[here]
                     /\ \/ q.answered
                        \/ QuestionRequest(q) \notin replies \/ reruns = 0
      /\ run.active # None =>
           /\ run.active \in Attempts /\ run.active.step = here
           /\ Flow[here].kind = "bot"
           /\ run.active.number <= run.runs[here]
  BY <1>1 DEF VisitInv, QuestionsPut, Step, RunType, IInv, RunConsistent
<1>3. /\ replies \subseteq Requests
      /\ \A request \in replies : request.kind = "question" =>
           /\ request.number <= run.runs[request.step]
           /\ run.active # None =>
                <<request.step, request.number>> # Handle(run.active)
  BY DEF IInv, TypeOK, VisitInv, QuestionsPut
<1>4. ASSUME q2 # None
      PROVE  /\ q2.step = run'.current /\ Flow[run'.current].kind = "bot"
             /\ q2.request <= run'.runs[run'.current]
             /\ run'.status = "Blocked" \/ q2.answered
  <2>1. CASE /\ q # None /\ q2.step = q.step /\ q2.request = q.request
             /\ q2.answered \/ run'.status = "Blocked"
    BY <1>1, <1>2, <1>4, <2>1, QuestionStep DEF Questions
  <2>2. CASE /\ run.active # None /\ run'.status = "Blocked"
             /\ q2.step = run.active.step /\ q2.request = run.active.number
    BY <1>1, <1>2, <1>4, <2>2, QuestionStep DEF Attempts
  <2>3. QED
    BY <1>4, <2>1, <2>2, QuestionStep
<1>5. ASSUME q2 # None, ~q2.answered, QuestionRequest(q2) \in replies'
      PROVE  reruns' = 0
  <2>1. CASE OwnerReplies /\ reruns' = 0
    BY <2>1
  <2>2. CASE replies' = replies
    <3>1. QuestionRequest(q2) \in replies
      BY <1>5, <2>2
    <3>2. ~(/\ run.active # None /\ q2.step = run.active.step
            /\ q2.request = run.active.number)
      BY <1>3, <3>1 DEF QuestionRequest, Handle
    <3>3. q2 = q /\ run.status = "Blocked"
      BY <1>5, <3>2, QuestionStep
    <3>4. reruns = 0 /\ run'.runs = run.runs
      BY <1>2, <1>5, <3>1, <3>3, OnlyOwner
    <3>5. QED
      BY <3>4, RerunsStep
  <2>3. QED
    BY <2>1, <2>2, OnlyOwner
<1>6. ASSUME run'.active # None
      PROVE  /\ Flow[run'.current].kind = "bot"
             /\ run'.active.number <= run'.runs[run'.current]
  <2>1. CASE StartWorker
    <3>1. PICK attempt \in Attempts :
            /\ run'.active = attempt /\ run'.current = run.current
            /\ attempt.number = run.runs[run.current] + 1
            /\ run'.runs = [run.runs EXCEPT ![run.current] = @ + 1]
            /\ Step.kind = "bot"
      BY <2>1, StartWorkerFacts
    <3>2. QED
      BY <1>1, <3>1 DEF Step
  <2>2. CASE run'.active = run.active /\ run'.current = run.current
    BY <1>1, <1>2, <1>6, <2>2 DEF Attempts
  <2>3. QED
    BY <1>6, <2>1, <2>2, ActiveStep
<1>7. ASSUME NEW request \in replies', request.kind = "question"
      PROVE  /\ request.number <= run'.runs[request.step]
             /\ run'.active # None =>
                  <<request.step, request.number>> # Handle(run'.active)
  <2>1. CASE request \in replies
    <3>1. /\ request.step \in Steps /\ request.number \in Nat
          /\ request.number <= run.runs[request.step]
          /\ run.active # None =>
               <<request.step, request.number>> # Handle(run.active)
      BY <1>3, <1>7, <2>1 DEF Requests
    <3>2. request.number <= run'.runs[request.step]
      BY <1>1, <3>1
    <3>3. ASSUME StartWorker
          PROVE  <<request.step, request.number>> # Handle(run'.active)
      <4>1. PICK attempt \in Attempts :
              /\ run'.active = attempt /\ attempt.step = run.current
              /\ attempt.number = run.runs[run.current] + 1
        BY <3>3, StartWorkerFacts
      <4>2. ~(request.step = attempt.step /\ request.number = attempt.number)
        BY <1>1, <3>1, <4>1
      <4>3. QED
        BY <4>1, <4>2 DEF Handle
    <3>4. QED
      BY <3>1, <3>2, <3>3, ActiveStep
  <2>2. CASE request \notin replies
    <3>1. OwnerReplies
      BY <1>7, <2>2, OnlyOwner
    <3>2. MayAsk /\ request = QuestionRequest(q) /\ run' = run
      BY <1>7, <2>2, <3>1 DEF OwnerReplies, GoRequest
    <3>3. q # None /\ run.active = None
      BY <3>2, SettledIdle DEF MayAsk, OpenQuestion
    <3>4. request.step = q.step /\ request.number = q.request
      BY <3>2 DEF QuestionRequest
    <3>5. QED
      BY <1>2, <3>2, <3>3, <3>4
  <2>3. QED
    BY <2>1, <2>2
<1>8. QED
  BY <1>4, <1>5, <1>6, <1>7 DEF QuestionsPut, Step

\* The reviewed attempt stays the latest while its reviewer is at work.
LEMMA ReviewerStep ==
  ASSUME IInv, VisitInv, Next
  PROVE  ReviewerDiffers'
<1>1. /\ run.latest \in [Steps -> Attempts \cup {None}]
      /\ run.current \in Steps
      /\ \A s \in Steps : Flow[s].differs = s => run.latest[s] = None
  BY BothTypes DEF RunType, VisitInv, ReviewerDiffers
<1>2. CASE StartWorker
  <2>1. PICK attempt \in Attempts :
          /\ run'.active = attempt /\ run'.current = run.current
          /\ run'.latest = [run.latest EXCEPT ![run.current] = attempt]
          /\ FamilyAllowed(attempt.family)
    BY <1>2, StartWorkerFacts
  <2>2. Step.differs # None => Step.differs # run.current
    BY <1>1, <2>1 DEF FamilyAllowed, Step
  <2>3. Step.differs \in Steps \cup {None}
    BY <1>1, FlowAssumption DEF StepType, Target, Step
  <2>4. Step.differs # None =>
          run'.latest[Step.differs] = run.latest[Step.differs]
    BY <1>1, <2>1, <2>2, <2>3
  <2>5. \A s \in Steps : Flow[s].differs = s => run'.latest[s] = None
    <3>1. Flow[run.current].differs # run.current
      BY <1>1, <2>2, FlowAssumption DEF Step
    <3>2. QED
      BY <1>1, <2>1, <3>1
  <2>6. QED
    BY <2>1, <2>4, <2>5 DEF FamilyAllowed, ReviewerDiffers, Step
<1>3. CASE ~StartWorker
  <2>1. run'.latest = run.latest
    BY <1>3, LatestOnlyByStart
  <2>2. run'.active # None =>
          run'.active = run.active /\ run'.current = run.current
    BY <1>3, ActiveStep
  <2>3. QED
    BY <2>1, <2>2 DEF VisitInv, ReviewerDiffers, Step
<1>4. QED
  BY <1>2, <1>3

\* A run starts with no start counted and no question put.
LEMMA InitVisit ==
  ASSUME Init
  PROVE  VisitInv
<1> DEFINE new == NewRun(Start)
<1>1. /\ new \in RunType /\ new.active = None /\ new.question = None
      /\ new.status = "Ready" /\ new.current = Start
      /\ new.retries = [s \in Steps |-> 0]
      /\ new.failures = [s \in Steps |-> 0]
      /\ new.latest = [s \in Steps |-> None]
  BY HubAssumption, FlowAssumption DEF NewRun, RunType, Statuses, Target
<1> HIDE DEF new
<1>2. run = new \/ run = StopOnBlock(new)
  BY DEF Init, IntakeRuns, new
<1>3. /\ run.active = None /\ run.question = None
      /\ run.current \in Steps /\ run.status \in {"Ready", "Blocked"}
      /\ run.retries = [s \in Steps |-> 0]
      /\ run.failures = [s \in Steps |-> 0]
      /\ run.latest = [s \in Steps |-> None]
  BY <1>1, <1>2, HubAssumption, StopOnBlockFacts, StopVisit
  DEF SameRecord, Stops, Repeats
<1>4. replies = {} /\ reruns = 0 /\ TransientRetries \in Nat
  BY FlowAssumption DEF Init
<1>5. RerunsBounded /\ StartsCounted
  BY <1>3, <1>4 DEF RerunsBounded, StartsCounted
<1>6. QuestionsPut /\ ReviewerDiffers
  BY <1>3, <1>4 DEF QuestionsPut, ReviewerDiffers
<1>7. QED
  BY <1>5, <1>6 DEF VisitInv

\* The two invariants together are kept by every step.
LEMMA VisitInvariance == Spec => [](IInv /\ VisitInv)
<1>1. Init => IInv /\ VisitInv
  BY InitInv, InitVisit
<1>2. IInv /\ VisitInv /\ [Next]_vars => (IInv /\ VisitInv)'
  <2> SUFFICES ASSUME IInv, VisitInv, [Next]_vars
               PROVE  (IInv /\ VisitInv)'
    OBVIOUS
  <2>1. IInv'
    BY StepInv
  <2>2. CASE Next
    BY <2>1, <2>2, StartsStep, QuestionsStep, ReviewerStep DEF VisitInv
  <2>3. CASE UNCHANGED vars
    BY <2>1, <2>3
    DEF vars, world, history, VisitInv, RerunsBounded, StartsCounted,
        QuestionsPut, ReviewerDiffers, Step
  <2>4. QED
    BY <2>2, <2>3
<1>3. QED
  BY <1>1, <1>2, PTL DEF Spec

(* Without the owner, a visit to a step asks for at most its first start,  *)
(* one per transient retry and one after a failed check, whatever the      *)
(* workers and the adapters answer and however the starts themselves fail. *)
THEOREM StartsBounded == Spec => []RerunsBounded
<1>1. IInv /\ VisitInv => RerunsBounded
  BY DEF VisitInv
<1>2. QED
  BY <1>1, VisitInvariance, PTL

(* The owner's answer reaches a worker or ends with the visit: no retry,   *)
(* block, cancellation, reopening or gate in between drops it.             *)
THEOREM AnswerReachesWorker == Spec => AnswerKept
<1> DEFINE A == AnsweredQuestion(run) /\ run'.question # run.question =>
                  \/ live' # live
                  \/ NewVisit \/ run'.status = "Done"
<1>1. IInv /\ VisitInv /\ [Next]_vars => [A]_vars
  <2> SUFFICES ASSUME IInv, VisitInv, Next, AnsweredQuestion(run),
                      run'.question # run.question
               PROVE  live' # live \/ NewVisit \/ run'.status = "Done"
    OBVIOUS
  <2>1. run.question # None /\ run.question.answered /\ Step.kind = "bot"
    BY DEF AnsweredQuestion, VisitInv, QuestionsPut
  <2>2. run.active = None /\ run.status # "Running"
    BY <2>1 DEF IInv, RunConsistent
  <2>3. CASE StartWorker
    <3>1. live = {}
      BY <2>2, NoWorker
    <3>2. QED
      BY <2>3, <3>1, StartWorkerFacts
  <2>4. CASE MovesOn(run, run')
    BY <2>4 DEF MovesOn, NewVisit
  <2>5. ~Approve /\ ~OpenQuestion(run)
    BY <2>1 DEF Approve, OpenQuestion
  <2>6. run.status \in {"Ready", "Gate"} => ~Retries(run, run')
    BY DEF Retries
  <2>7. ~OpenGate /\ ~Stops(run, run') /\ ~Repeats(run, run')
    BY OpenGateFacts DEF Stops, Repeats
  <2>8. ~Restarts(run, run')
    BY <2>1 DEF Restarts
  <2>9. QED
    BY <2>2, <2>3, <2>4, <2>5, <2>6, <2>7, <2>8, OnlyOwner
    DEF Routed, Controlled
<1>2. QED
  BY <1>1, VisitInvariance, PTL DEF Spec, AnswerKept

(* Whatever is accepted of a review was written by a family other than the *)
(* one whose latest attempt it reviews, and both families are known.       *)
THEOREM Independence == Spec => IndependentReview
<1> DEFINE A == \A s \in Steps :
                  Flow[s].differs # None /\ run'.accepted[s] # run.accepted[s] =>
                    LET reviewed == run.latest[Flow[s].differs]
                    IN  /\ reviewed # None
                        /\ None \notin {run'.accepted[s].family, reviewed.family}
                        /\ run'.accepted[s].family # reviewed.family
<1>1. IInv /\ VisitInv /\ [Next]_vars => [A]_vars
  <2> SUFFICES ASSUME IInv, VisitInv, Next, NEW s \in Steps,
                      Flow[s].differs # None,
                      run'.accepted[s] # run.accepted[s]
               PROVE  LET reviewed == run.latest[Flow[s].differs]
                      IN  /\ reviewed # None
                          /\ None \notin {run'.accepted[s].family, reviewed.family}
                          /\ run'.accepted[s].family # reviewed.family
    OBVIOUS
  <2>1. ResultAccepted
    BY AcceptedOnlyByResult
  <2>2. /\ Collected \in RunType /\ SameRecord(run, Collected)
        /\ run.active \in Attempts
    BY <2>1, CollectedFacts DEF ResultAccepted
  <2>3. Collected.current = run.current
    BY BothTypes DEF Collected, RunType
  <2>4. PICK verdict \in Verdicts \cup {None} :
          run' = AcceptResult(Collected, run.active, verdict)
    BY <2>1 DEF ResultAccepted
  <2>5. run'.accepted = [run.accepted EXCEPT ![run.current] = run.active]
    BY <2>2, <2>3, <2>4, AcceptResultVisit DEF SameRecord
  <2>6. /\ s = run.current /\ run'.accepted[s] = run.active
        /\ run.active # None
    BY <2>2, <2>5, BothTypes, FlowAssumption DEF RunType
  <2>7. QED
    BY <2>6 DEF VisitInv, ReviewerDiffers, Step
<1>2. QED
  BY <1>1, VisitInvariance, PTL DEF Spec, IndependentReview
=============================================================================
