-------------------------------- MODULE Hub --------------------------------
(***************************************************************************)
(* hub::advance (hub.rs) driven by its host, with the owner's controls     *)
(* (control.rs) and the outside world the adapters observe.                *)
(*                                                                         *)
(* advance runs under the run's lock and loops: one iteration matches the  *)
(* status of the run, observes or starts something outside, and rewrites   *)
(* the run.  An action here is one iteration.  The loop ends at a wait or  *)
(* when its budget is spent, and the next tick takes it up again from the  *)
(* same run, so the calls themselves need no state.  A control takes the   *)
(* same lock: it falls between two iterations.  A crash between them is    *)
(* the subject of FlowHost.  An iteration that finds the worker running,   *)
(* no capacity, no decision or no answer yet only posts to the owner: it   *)
(* leaves the run alone and is a stutter here.                             *)
(***************************************************************************)
EXTENDS FlowRun

CONSTANTS
  Start,         \* the step the run starts at
  AdapterKinds,  \* kinds of block the adapters report
  WorkerKinds    \* kinds of block a worker reports in its result

ASSUME HubAssumption ==
  /\ Start \in Steps
  /\ AdapterKinds \subseteq BlockKinds
  /\ WorkerKinds \subseteq BlockKinds

VARIABLES
  run,       \* the persisted run
  live,      \* handles of the workers that are really executing
  overdue,   \* the active attempt is past attempt_timeout_minutes
  replies,   \* requests the owner has replied to with GO or an answer
  merged,    \* the pull request is merged into the base
  \* history, read by the properties only
  tainted,   \* the latest attempt was overdue, unresolved or cancelled
  released,  \* step -> generation of the request that last released its gate
  reruns     \* starts requested since the visit began or the owner acted

world == <<live, overdue, replies, merged>>
history == <<tainted, released, reruns>>
vars == <<run, world, history>>

\* A request opens a thread of its own in the tracker, where a reply may come
\* at any later time: a GO thread per gate generation, a question thread per
\* attempt.
Requests == [kind : {"go", "question"}, step : Steps, number : Nat]
GoRequest(s, number) == [kind |-> "go", step |-> s, number |-> number]
QuestionRequest(q) ==
  [kind |-> "question", step |-> q.step, number |-> q.request]

TypeOK ==
  /\ run \in RunType
  /\ live \subseteq Steps \X Nat
  /\ overdue \in BOOLEAN /\ merged \in BOOLEAN
  /\ replies \subseteq Requests
  /\ tainted \in BOOLEAN /\ released \in [Steps -> Nat] /\ reruns \in Nat

\* A run as intake leaves it: blocked if its ticket could not be told.
IntakeRuns == {NewRun(Start), StopOnBlock(NewRun(Start))}

Init ==
  /\ run \in IntakeRuns
  /\ live = {} /\ overdue = FALSE
  /\ replies = {} /\ merged = FALSE
  /\ tainted = FALSE /\ released = [s \in Steps |-> 0] /\ reruns = 0

Step == Flow[run.current]
ActiveLive == Handle(run.active) \in live
-----------------------------------------------------------------------------
(* What advance checks before its loop. *)

\* Mutant: the status alone is thought to tell a cancelled run.
HostedUnlessPaused == ~run.paused

Hosted == ~run.cancelled /\ ~run.paused

\* Mutants: the flag outlives the handle; a paused run is not supervised.
LetGoOfHandle(r) == Event([r EXCEPT !.active = None])
\* A cancelled run is still supervised, until its worker has settled.
LetGo(r) == Event([r EXCEPT !.active = None, !.unsettled = FALSE])
SettleUnlessPaused ==
  /\ run.cancelled /\ ~run.paused /\ run.active # None /\ ~ActiveLive
  /\ run' = LetGo(run)
  /\ overdue' = FALSE
  /\ UNCHANGED <<live, replies, merged>>
SettleCancelled ==
  /\ run.cancelled /\ run.active # None /\ ~ActiveLive
  /\ run' = LetGo(run)
  /\ overdue' = FALSE
  /\ UNCHANGED <<live, replies, merged>>
-----------------------------------------------------------------------------
(* Blocked. *)

\* A late result settles the worker and is otherwise ignored.
ObserveSettled ==
  /\ Hosted /\ run.status = "Blocked" /\ run.unsettled /\ ~ActiveLive
  /\ run' = LetGo(run)
  /\ overdue' = FALSE
  /\ UNCHANGED <<live, replies, merged>>

MayAsk ==
  /\ Hosted /\ run.status = "Blocked" /\ ~run.unsettled
  /\ run.block /\ OpenQuestion(run)

ApplyAnswer ==
  /\ MayAsk /\ QuestionRequest(run.question) \in replies
  /\ run' = AnswerQuestion(run)
  /\ UNCHANGED world
-----------------------------------------------------------------------------
(* Running. *)

\* Mutant: the stop request is taken for the settlement.
TimeOutLetsGo ==
  /\ Hosted /\ run.status = "Running" /\ overdue
  /\ run' = HandleBlock([Event(run) EXCEPT !.active = None], "transient")
  /\ overdue' = FALSE
  /\ UNCHANGED <<live, replies, merged>>

\* The deadline is recorded before the worker is asked to stop.
TimeOut ==
  /\ Hosted /\ run.status = "Running" /\ overdue
  /\ LET late == [Event(run) EXCEPT !.unsettled = TRUE, !.status = "Blocked",
                                    !.block = TRUE]
     IN  \/ /\ ~ActiveLive                  \* Settlement::Confirmed
            /\ run' = HandleBlock([late EXCEPT !.unsettled = FALSE,
                                               !.active = None], "transient")
            /\ overdue' = FALSE
         \/ run' = late /\ UNCHANGED overdue \* unsettled, or stop failed
  /\ UNCHANGED <<live, replies, merged>>

\* Mutant: a result counts whenever it arrives.
ObservedLate == Hosted /\ run.status = "Running"

Observed == Hosted /\ run.status = "Running" /\ ~overdue

\* Poll::Unsettled, or poll itself failed.
LoseTrack ==
  /\ Observed
  /\ run' = Event([run EXCEPT !.unsettled = TRUE, !.status = "Blocked",
                              !.block = TRUE])
  /\ UNCHANGED world

\* Poll::Finished: the worker has settled; what it left decides the rest.
Finished == Observed /\ ~ActiveLive
Collected == [run EXCEPT !.active = None]

ProcessFailed ==
  /\ Finished
  /\ run' = HandleBlock(Collected, "transient")
  /\ UNCHANGED world

\* No successful completion, or a result.json parse_result refuses.
InvalidResult ==
  /\ Finished
  /\ run' = HandleBlock(Collected, "unknown")
  /\ UNCHANGED world

ResultBlocks ==
  /\ Finished
  /\ \E kind \in WorkerKinds, asks \in BOOLEAN :
       run' = WorkerBlocked(Collected, run.active, kind, asks)
  /\ UNCHANGED world

ChecksFail ==
  /\ Finished /\ (Step.checked \/ Step.tag # None)
  /\ \E kind \in AdapterKinds \cup {"unknown"} :
       run' = CheckFailed(Collected, kind)
  /\ UNCHANGED world

EvidenceFails ==
  /\ Finished /\ Step.tag # None
  /\ \E kind \in AdapterKinds : run' = HandleBlock(Collected, kind)
  /\ UNCHANGED world

ResultAccepted ==
  /\ Finished
  /\ \E verdict \in IF IsReview(run.current) THEN Verdicts ELSE {None} :
       run' = AcceptResult(Collected, run.active, verdict)
  /\ UNCHANGED world
-----------------------------------------------------------------------------
(* Gate. *)

AtGate(kind) == Hosted /\ run.status = "Gate" /\ Step.kind = kind

\* Mutant: publication is taken for the owner's merge.
GatePassesOnPr ==
  /\ \/ /\ AtGate("owner_go")
        /\ GoRequest(run.current, run.requests[run.current]) \in replies
     \/ AtGate("owner_merge") /\ run.pr
  /\ run' = Transition(Event(run), Step.next)
  /\ UNCHANGED world

GatePasses ==
  /\ \/ /\ AtGate("owner_go")
        /\ GoRequest(run.current, run.requests[run.current]) \in replies
     \/ AtGate("owner_merge") /\ run.pr /\ merged
  /\ run' = Transition(Event(run), Step.next)
  /\ UNCHANGED world

GateFails ==
  /\ \/ /\ AtGate("owner_go") \/ (AtGate("owner_merge") /\ run.pr)
        /\ \E kind \in AdapterKinds : run' = HandleBlock(run, kind)
     \/ /\ AtGate("owner_merge") /\ ~run.pr
        /\ run' = HandleBlock(run, "unknown")
  /\ UNCHANGED world
-----------------------------------------------------------------------------
(* Ready. *)

IsReady == Hosted /\ run.status = "Ready" /\ run.active = None /\ ~run.unsettled

\* Mutant: a gate asks for the owner's decision once per run.
OpenGateOnce ==
  /\ IsReady /\ IsGate(run.current)
  /\ run' = Event([run EXCEPT !.requests[run.current] = 1, !.status = "Gate"])
  /\ UNCHANGED world

OpenGate ==
  /\ IsReady /\ IsGate(run.current)
  /\ run' = Event([run EXCEPT !.requests[run.current] = @ + 1,
                              !.status = "Gate"])
  /\ UNCHANGED world

\* Mutant: the limit is recorded but the run stays Ready.
LimitReachedStaysReady ==
  /\ IsReady /\ ~IsGate(run.current) /\ ~WithinLimits(run, run.current)
  /\ run' = [Event(run) EXCEPT !.block = TRUE]
  /\ UNCHANGED world

LimitReached ==
  /\ IsReady /\ ~IsGate(run.current) /\ ~WithinLimits(run, run.current)
  /\ run' = StopOnBlock(run)
  /\ UNCHANGED world

Counted == [run EXCEPT !.runs[run.current] = @ + 1]

\* Built-in action open_pr: a pull request, a blank one, or a block.
OpenPr ==
  /\ IsReady /\ Step.kind = "open_pr" /\ WithinLimits(run, run.current)
  /\ \/ run' = Transition(Event([Counted EXCEPT !.pr = TRUE]), Step.next)
     \/ run' = StopOnBlock(Counted)
     \/ \E kind \in AdapterKinds : run' = HandleBlock(Counted, kind)
  /\ UNCHANGED world

IsBotReady ==
  IsReady /\ Step.kind = "bot" /\ WithinLimits(run, run.current)

\* Mutant: the family is compared with the accepted attempt's.
FamilyOfAccepted(family) ==
  Step.differs # None =>
    LET prior == run.accepted[Step.differs]
    IN  family # None /\ prior # None /\ prior.family \notin {None, family}

\* A review needs a known family other than the latest reviewed attempt's.
FamilyAllowed(family) ==
  Step.differs # None =>
    LET prior == run.latest[Step.differs]
    IN  family # None /\ prior # None /\ prior.family \notin {None, family}

FamilyRefused ==
  /\ IsBotReady
  /\ \E family \in Families : ~FamilyAllowed(family)
  /\ run' = StopOnBlock(run)
  /\ UNCHANGED world

\* The attempt to request, and the run once start has returned its handle.
NextAttempt(family) ==
  [step |-> run.current, number |-> run.runs[run.current] + 1,
   family |-> family, freezes |-> run.evidence]
Started(attempt) ==
  Event([Counted EXCEPT !.question = None, !.latest[run.current] = attempt,
                        !.active = attempt, !.status = "Running",
                        !.block = FALSE])

\* start, or resume_after_answer when the owner's answer is to be delivered.
StartWorker ==
  /\ IsBotReady
  /\ \E family \in Families :
       /\ FamilyAllowed(family)
       /\ run' = Started(NextAttempt(family))
       /\ live' = live \cup {Handle(NextAttempt(family))}
  /\ overdue' = FALSE
  /\ UNCHANGED <<replies, merged>>

\* An error of start guarantees that no worker was launched.
StartFails ==
  /\ IsBotReady
  /\ \E family \in Families : FamilyAllowed(family)
  /\ \E kind \in AdapterKinds : run' = HandleBlock(Counted, kind)
  /\ UNCHANGED world
-----------------------------------------------------------------------------
(* control::apply and control::reopen. *)

Controllable == ~run.cancelled /\ run.status # "Done"
Settled == ~run.unsettled /\ run.active = None

Pause ==
  /\ Controllable /\ ~run.paused
  /\ run' = Event([run EXCEPT !.paused = TRUE])
  /\ UNCHANGED world

Resume ==
  /\ Controllable /\ run.paused
  /\ run' = Event([run EXCEPT !.paused = FALSE])
  /\ UNCHANGED world

\* The stop is requested once the cancellation is saved, and may fail.
Cancel ==
  /\ Controllable
  /\ \/ run' = CancelRun(run) /\ UNCHANGED overdue
     \/ /\ run.active # None /\ ~ActiveLive        \* Settlement::Confirmed
        /\ run' = LetGo(CancelRun(run))
        /\ overdue' = FALSE
  /\ UNCHANGED <<live, replies, merged>>

Retry ==
  /\ Controllable /\ run.status = "Blocked" /\ Settled
  /\ run' = RetryStep(run)
  /\ UNCHANGED world

Override ==
  /\ Controllable /\ run.status = "Blocked" /\ Settled
  /\ ~IsGate(run.current)
  /\ run' = OverrideStep(run)
  /\ UNCHANGED world

Approve ==
  /\ Controllable /\ Settled
  /\ run.status = "Gate" /\ Step.kind = "owner_go"
  /\ run.requests[run.current] > 0
  /\ run' = ApproveGate(run)
  /\ UNCHANGED world

Answer ==
  /\ Controllable /\ run.status = "Blocked" /\ Settled /\ run.block
  /\ OpenQuestion(run) /\ run.question.request > 0
  /\ run' = AnswerQuestion(run)
  /\ UNCHANGED world

\* Reopen also requires the worktree at the last evidence: it may refuse.
Reopen ==
  /\ run.cancelled /\ run.status # "Done" /\ Settled
  /\ run' = ReopenRun(run)
  /\ UNCHANGED world
-----------------------------------------------------------------------------
(* Outside the hub. *)

\* A worker ends by itself, at its own deadline or on a stop request.
WorkerEnds ==
  /\ \E handle \in live : live' = live \ {handle}
  /\ UNCHANGED <<run, overdue, replies, merged>>

DeadlinePasses ==
  /\ run.active # None /\ ~overdue
  /\ overdue' = TRUE
  /\ UNCHANGED <<run, live, replies, merged>>

\* The owner replies in the tracker, to the open request or to an old GO.
OwnerReplies ==
  /\ \/ \E s \in Steps : \E n \in 1 .. run.requests[s] :
          replies' = replies \cup {GoRequest(s, n)}
     \/ /\ MayAsk
        /\ replies' = replies \cup {QuestionRequest(run.question)}
  /\ replies' # replies
  /\ UNCHANGED <<run, live, overdue, merged>>

OwnerMerges ==
  /\ run.pr /\ ~merged
  /\ merged' = TRUE
  /\ UNCHANGED <<run, live, overdue, replies>>
-----------------------------------------------------------------------------
(* History. *)

LeavesGate ==
  /\ IsGate(run.current) /\ run.status = "Gate"
  /\ run'.current # run.current \/ run'.status = "Done"

NewVisit ==
  Visits(run', run'.current) # Visits(run, run'.current)

Record ==
  /\ tainted' = \/ run'.active # None /\ (run'.unsettled \/ overdue')
                \/ tainted /\ run'.latest = run.latest
  /\ released' = IF LeavesGate
                 THEN [released EXCEPT ![run.current] =
                                            run.requests[run.current]]
                 ELSE released

RecordSystem ==
  /\ Record
  /\ reruns' = IF NewVisit THEN 0
               ELSE IF run'.runs = run.runs THEN reruns ELSE reruns + 1

RecordOwner == Record /\ reruns' = 0
-----------------------------------------------------------------------------
\* An iteration of advance that leaves nothing outside under a key.
Iteration ==
  \/ SettleCancelled \/ ObserveSettled \/ ApplyAnswer
  \/ TimeOut \/ LoseTrack
  \/ ProcessFailed \/ InvalidResult \/ ResultBlocks \/ ChecksFail
  \/ EvidenceFails
  \/ GatePasses \/ GateFails
  \/ OpenGate \/ LimitReached \/ OpenPr \/ FamilyRefused

HubStep == Iteration \/ ResultAccepted \/ StartWorker \/ StartFails

SystemStep == HubStep \/ WorkerEnds \/ DeadlinePasses
OwnerControl ==
  \/ Pause \/ Resume \/ Cancel \/ Retry \/ Override \/ Approve \/ Answer
  \/ Reopen
OwnerStep == OwnerControl \/ OwnerReplies \/ OwnerMerges

System == SystemStep /\ RecordSystem
Owner == OwnerStep /\ RecordOwner

Next == System \/ Owner

Spec == Init /\ [][Next]_vars
=============================================================================
