------------------------------ MODULE HubProps -----------------------------
(***************************************************************************)
(* What the hub promises of a run.  Stated of module Hub; checked by the   *)
(* runs of MCHub, and the invariants proved in HubProofs.                  *)
(***************************************************************************)
EXTENDS Hub

(* Two workers never execute for one run: whatever is really running       *)
(* outside is the attempt the run holds on to.  docs/flow/hub.md: a worker *)
(* whose outcome is unresolved cannot be resent.                           *)
SoleWorker ==
  \A handle \in live : run.active # None /\ handle = Handle(run.active)

(* The errors advance raises on an inconsistent run are unreachable: a     *)
(* running run has an attempt of its own step, an unsettled one is blocked *)
(* and holds its worker's handle, and every other run holds no worker.     *)
RunConsistent ==
  /\ run.status = "Running" => run.active # None /\ ~run.unsettled
  /\ run.unsettled => run.active # None /\ run.status = "Blocked"
  /\ run.active # None =>
       /\ run.active.step = run.current
       /\ run.status = "Running" \/ run.unsettled
       /\ run.question = None

(* Within one visit, and without the owner, the hub requests a start for   *)
(* the first attempt, for each transient retry and for one check rerun.    *)
RerunsBounded == reruns <= TransientRetries + 2

(* What the invariants above rest on: attempt numbers are never reused, an *)
(* open gate asks for a decision no one has used yet, a cancelled run is   *)
(* blocked, and a run in time has no doubt hanging over its attempt.       *)
NumbersTaken ==
  \A s \in Steps : run.latest[s] # None => run.latest[s].number <= run.runs[s]
GatesOpen ==
  /\ \A s \in Steps : released[s] <= run.requests[s]
  /\ run.status = "Gate" =>
       IsGate(run.current) /\ released[run.current] < run.requests[run.current]
CancelledBlocked == run.cancelled => run.status = "Blocked"
RunningClean == run.status = "Running" /\ ~overdue => ~tainted

(* The inductive invariant: every step of the specification preserves it.  *)
IInv ==
  /\ TypeOK /\ RunConsistent /\ SoleWorker
  /\ NumbersTaken /\ GatesOpen /\ CancelledBlocked /\ RunningClean

(* What bounds the starts of a visit: each is paid for by the visit's      *)
(* first attempt, a counted retry or the one counted check rerun.          *)
StartsCounted ==
  LET here == run.current
      paid == run.retries[here] + run.failures[here]
  IN  /\ \A s \in Steps : run.retries[s] <= TransientRetries
      /\ \A s \in Steps \ {here} : run.failures[s] = 0
      /\ run.status # "Blocked" \/ run.question # None =>
           run.failures[here] <= 1
      /\ run.status \in {"Ready", "Gate"} => reruns <= paid
      /\ run.status = "Running" => reruns <= paid + 1

(* A question is one that a worker of the current step asked, and only its *)
(* owner's answer or a block parks it; a reply to it is the owner's last   *)
(* act, and no reply names an attempt before it has asked.                 *)
QuestionsPut ==
  /\ run.question # None =>
       /\ run.question.step = run.current /\ Step.kind = "bot"
       /\ run.question.request <= run.runs[run.current]
       /\ run.status = "Blocked" \/ run.question.answered
       /\ run.question.answered
            \/ QuestionRequest(run.question) \notin replies \/ reruns = 0
  /\ run.active # None =>
       Step.kind = "bot" /\ run.active.number <= run.runs[run.current]
  /\ \A request \in replies : request.kind = "question" =>
       /\ request.number <= run.runs[request.step]
       /\ run.active # None =>
            <<request.step, request.number>> # Handle(run.active)

(* A reviewer at work is of a known family other than that of the attempt  *)
(* it reviews.  A step that is to differ from itself never gets to start.  *)
ReviewerDiffers ==
  /\ \A s \in Steps : Flow[s].differs = s => run.latest[s] = None
  /\ run.active # None /\ Step.differs # None =>
       LET reviewed == run.latest[Step.differs]
       IN  /\ reviewed # None
           /\ None \notin {run.active.family, reviewed.family}
           /\ run.active.family # reviewed.family

(* The inductive invariant of a visit, given IInv.                         *)
VisitInv == RerunsBounded /\ StartsCounted /\ QuestionsPut /\ ReviewerDiffers
-----------------------------------------------------------------------------
(* An attempt once past its deadline, unresolved or cancelled is never     *)
(* accepted, however late its result arrives (hub.rs "A zero exit/result   *)
(* observed after the deadline is never success evidence").                *)
NoTaintedAcceptance ==
  [][run'.accepted # run.accepted => ~tainted]_vars

(* A gate is left only by an owner's decision on the very request that is  *)
(* open: a GO on an earlier thread, or before a reopen, releases nothing,  *)
(* and nothing but a verified merge releases owner_merge.                  *)
FreshConsent ==
  [][LeavesGate =>
       LET generation == run.requests[run.current]
       IN  /\ generation > released[run.current]
           /\ Step.kind = "owner_go" =>
                GoRequest(run.current, generation) \in replies \/ Approve
           /\ Step.kind = "owner_merge" => merged]_vars

\* What FreshConsent takes of the workflow: no gate has an on_block route.
\* Workflow::validate does not refuse one: an adapter's error at the gate
\* then follows the route, past the owner.
UnroutedGates ==
  \A s \in Steps : IsGate(s) =>
    \A kind \in BlockKinds : Flow[s].on_block[kind] = None

(* Cancellation is terminal for acceptance (hub.rs): until a reopen the    *)
(* run stays where it is, accepts nothing and starts no worker, even if    *)
(* a late success or a late answer of the owner comes in.                  *)
CancelIsTerminal ==
  [][run.cancelled /\ run'.cancelled =>
       /\ run'.accepted = run.accepted /\ run'.evidence = run.evidence
       /\ run'.current = run.current /\ run'.status = run.status
       /\ live' \subseteq live]_vars

(* An attempt's number is the idempotency key of its start and the name of *)
(* its directory: no later attempt of the step takes it again, also after  *)
(* failed starts, manual retries, cancellation and reopening.              *)
FreshAttemptNumbers ==
  [][\A s \in Steps :
       run'.latest[s] # run.latest[s] /\ run.latest[s] # None =>
         run'.latest[s].number > run.latest[s].number]_vars

(* An owner's answer is not dropped on the way to the worker: an answered  *)
(* question ends only with a worker started, or with the visit.            *)
AnswerKept ==
  [][AnsweredQuestion(run) /\ run'.question # run.question =>
       \/ live' # live
       \/ NewVisit \/ run'.status = "Done"]_vars

(* A review is accepted only from another, known, family than that of the  *)
(* latest attempt at the step under review.                                *)
IndependentReview ==
  [][\A s \in Steps :
       Flow[s].differs # None /\ run'.accepted[s] # run.accepted[s] =>
         LET reviewed == run.latest[Flow[s].differs]
         IN  /\ reviewed # None
             /\ None \notin {run'.accepted[s].family, reviewed.family}
             /\ run'.accepted[s].family # reviewed.family]_vars
-----------------------------------------------------------------------------
(* The host ticks for ever and every worker ends: it is bounded by its own *)
(* deadline, which its detached supervisor enforces (agent.rs, worker_main).*)
Fairness ==
  /\ WF_vars(HubStep /\ RecordSystem)
  /\ WF_vars(WorkerEnds /\ RecordSystem)

FairSpec == Spec /\ Fairness

(* The run waits for the owner, or is done. *)
Parked ==
  run.status \in {"Gate", "Blocked", "Done"} \/ run.paused \/ run.cancelled

(* Automatic routing always comes to rest: retries, reruns, rounds and     *)
(* corrections cannot go on without the owner.                             *)
ComesToRest == []<>Parked
-----------------------------------------------------------------------------
(* workflow-files.md: "An owner_go or owner_merge gate is also a boundary: *)
(* repeating the cycle requires a fresh owner decision".  A merge decides  *)
(* one request of its gate.                                                *)
MergeGateDecides ==
  [][LeavesGate /\ Step.kind = "owner_merge" => released[run.current] = 0]_vars
=============================================================================
