------------------------------ MODULE FlowRun ------------------------------
(***************************************************************************)
(* The persisted run of a workflow (hub.rs, struct Run) and the helpers    *)
(* that rewrite it.  Every operator takes a run and returns a run, so the  *)
(* modules that own a run (Hub, FlowHost) share one translation of them.   *)
(*                                                                         *)
(* The event log is kept only through what the code reads back from it:    *)
(* last and visits are the fold of hub::visits over the log, maintained    *)
(* event by event (VisitLog checks it against the fold).  Of a block only  *)
(* its presence is read again, so its kind and reason are dropped once it  *)
(* has been routed.  A reference in the freezes map is the number of the   *)
(* revision that produced it.  An alert changes nothing but the set of     *)
(* those already delivered, which is left out.                             *)
(***************************************************************************)
EXTENDS Naturals

CONSTANTS
  Steps,             \* names of the workflow's steps
  Flow,              \* step name -> step definition (StepType)
  Tags,              \* evidence tags
  Families,          \* agent families a bot may have; None is a blank one
  TransientRetries,  \* limits.transient_retries
  None               \* Rust's Option::None

BlockKinds ==
  {"owner_question", "test_defect", "capability", "transient", "scope_change",
   "unknown"}
Verdicts == {"clean", "changes_needed"}
Gates == {"owner_go", "owner_merge"}
Target == Steps \cup {None}

StepType ==
  [kind       : Gates \cup {"bot", "open_pr"},
   next       : Target,
   on_block   : [BlockKinds -> Target],
   on_verdict : [Verdicts -> Target],
   differs    : Target,              \* require_different_family
   checked    : BOOLEAN,             \* check is not empty
   tag        : Tags \cup {None},
   max_runs   : Nat,                 \* 0: not set (validate refuses a zero)
   max_rounds : Nat]

Attempts ==
  [step : Steps, number : Nat, family : Families, freezes : [Tags -> Nat]]
Questions == [step : Steps, request : Nat, answered : BOOLEAN]

ASSUME FlowAssumption ==
  /\ Flow \in [Steps -> StepType]
  /\ TransientRetries \in Nat
  /\ None \notin Steps /\ None \notin Tags
  /\ None \notin Attempts /\ None \notin Questions

Statuses == {"Ready", "Running", "Gate", "Blocked", "Done"}

RunType ==
  [current   : Steps,
   status    : Statuses,
   paused    : BOOLEAN,
   cancelled : BOOLEAN,
   active    : Attempts \cup {None},
   unsettled : BOOLEAN,
   block     : BOOLEAN,              \* a block is recorded
   question  : Questions \cup {None},
   latest    : [Steps -> Attempts \cup {None}],  \* last attempt pushed per step
   accepted  : [Steps -> Attempts \cup {None}],  \* of the last step_done
   evidence  : [Tags -> Nat],        \* evidence_revisions, and freezes with it
   pr        : BOOLEAN,
   runs      : [Steps -> Nat],
   retries   : [Steps -> Nat],
   failures  : [Steps -> Nat],       \* check_failures
   requests  : [Steps -> Nat],       \* gate_requests
   last      : Target,               \* step of the last logged event
   visits    : [Steps -> Nat]]

NewRun(start) ==
  [current |-> start, status |-> "Ready", paused |-> FALSE, cancelled |-> FALSE,
   active |-> None, unsettled |-> FALSE, block |-> FALSE, question |-> None,
   latest |-> [s \in Steps |-> None], accepted |-> [s \in Steps |-> None],
   evidence |-> [t \in Tags |-> 0], pr |-> FALSE,
   runs |-> [s \in Steps |-> 0], retries |-> [s \in Steps |-> 0],
   failures |-> [s \in Steps |-> 0], requests |-> [s \in Steps |-> 0],
   last |-> None, visits |-> [s \in Steps |-> 0]]

IsGate(s) == Flow[s].kind \in Gates
IsReview(s) ==
  \/ Flow[s].differs # None
  \/ \E v \in Verdicts : Flow[s].on_verdict[v] # None

Handle(a) == <<a.step, a.number>>
-----------------------------------------------------------------------------
(* The event log. *)

\* One event carrying the current step: a change of step starts a visit.
Event(r) ==
  [r EXCEPT !.visits[r.current] = IF r.last = r.current THEN @ ELSE @ + 1,
            !.last = r.current]

\* Mutant: routing a step to itself is taken for another event of it.
RouteEventOnce(r, next) == Event(r)

\* A route event: routing a step to itself starts another visit of it.
RouteEvent(r, next) ==
  IF next = r.current
  THEN [Event(r) EXCEPT !.visits[next] = @ + 1]
  ELSE Event(r)

\* Entries into s, the present one included.
Visits(r, s) ==
  r.visits[s] + (IF r.last # r.current /\ r.current = s THEN 1 ELSE 0)

\* The visit counts exceed neither limit of the step.
WithinLimits(r, s) ==
  /\ Flow[s].max_runs # 0 => Visits(r, s) <= Flow[s].max_runs
  /\ Flow[s].max_rounds # 0 => Visits(r, s) <= Flow[s].max_rounds
-----------------------------------------------------------------------------
(* Routing and blocking. *)

\* Mutant: the attempt numbers are taken for a counter of the visit, too.
LeaveStepForgetsRuns(r) ==
  [r EXCEPT !.retries[r.current] = 0, !.failures[r.current] = 0,
            !.runs[r.current] = 0, !.block = FALSE, !.question = None]

\* What leaving a step resets, whichever way it is left.
LeaveStep(r) ==
  [r EXCEPT !.retries[r.current] = 0, !.failures[r.current] = 0,
            !.block = FALSE, !.question = None]

Transition(r, next) ==
  LET left == [LeaveStep(r) EXCEPT !.active = None]
  IN  IF next = None
      THEN [Event(left) EXCEPT !.status = "Done"]
      ELSE [RouteEvent(left, next) EXCEPT !.current = next, !.status = "Ready"]

StopOnBlock(r) == [Event(r) EXCEPT !.status = "Blocked", !.block = TRUE]

\* A transient block retries up to the limit; any other kind follows its
\* on_block route.  on_block.transient is accepted by the loader, never read.
HandleBlock(r, kind) ==
  LET logged == Event(r)
      route  == Flow[r.current].on_block[kind]
  IN  CASE kind = "transient" /\ r.retries[r.current] < TransientRetries ->
             Event([logged EXCEPT !.retries[r.current] = @ + 1,
                                  !.block = TRUE, !.status = "Ready"])
        [] kind # "transient" /\ route # None -> Transition(logged, route)
        [] OTHER -> StopOnBlock(logged)

\* The owner question the hub may put or apply: unanswered, of this step.
OpenQuestion(r) ==
  r.question # None /\ r.question.step = r.current /\ ~r.question.answered

AnsweredQuestion(r) ==
  r.question # None /\ r.question.step = r.current /\ r.question.answered
-----------------------------------------------------------------------------
(* The answer of a finished worker, applied to a run whose active is None. *)

\* A block that stops for the owner registers its questions first.
WorkerBlocked(r, attempt, kind, asks) ==
  LET registered ==
        IF kind = "owner_question" \/ (kind # "transient" /\ asks)
        THEN [r EXCEPT !.question = [step |-> r.current,
                                     request |-> attempt.number,
                                     answered |-> FALSE]]
        ELSE r
  IN  HandleBlock(registered, kind)

\* Mutant: a check failure that reruns the bot is not counted.
CheckFailedUncounted(r, kind) ==
  CASE kind = "transient" -> HandleBlock(r, kind)
    [] kind = "unknown" /\ r.failures[r.current] = 0 ->
         Event([r EXCEPT !.status = "Ready", !.block = TRUE])
    [] OTHER -> StopOnBlock(r)

\* The first unknown check failure reruns the bot, any later one stops.
CheckFailed(r, kind) ==
  LET counted == [r EXCEPT !.failures[r.current] = @ + 1]
  IN  CASE kind = "transient" -> HandleBlock(r, kind)
        [] kind = "unknown" /\ r.failures[r.current] = 0 ->
             Event([counted EXCEPT !.status = "Ready", !.block = TRUE])
        [] OTHER -> StopOnBlock(counted)

\* Evidence of a tagged step gets the tag's next revision before step_done.
StepDone(r, attempt) ==
  LET tag    == Flow[r.current].tag
      frozen == IF tag = None THEN r
                ELSE Event([r EXCEPT !.evidence[tag] = @ + 1])
  IN  [Event(frozen) EXCEPT !.accepted[r.current] = attempt]

\* A verdict routes, unless it asks for changes on the last allowed round.
AcceptResult(r, attempt, verdict) ==
  LET done  == StepDone(r, attempt)
      step  == Flow[r.current]
      route == IF verdict # None /\ step.on_verdict[verdict] # None
               THEN step.on_verdict[verdict] ELSE step.next
  IN  IF /\ verdict = "changes_needed"
         /\ step.max_rounds # 0 /\ Visits(done, r.current) >= step.max_rounds
      THEN StopOnBlock(done)
      ELSE Transition(done, route)
-----------------------------------------------------------------------------
(* The owner's controls (hub.rs retry and override_step, control.rs). *)

\* Mutants: the retry is booked against the counter; it drops the answer.
RetryStepBooked(r) ==
  Event([r EXCEPT !.retries[r.current] = @ - 1, !.failures[r.current] = 0,
                  !.block = FALSE, !.status = "Ready"])
RetryStepDropsAnswer(r) ==
  Event([r EXCEPT !.retries[r.current] = 0, !.failures[r.current] = 0,
                  !.question = None, !.block = FALSE, !.status = "Ready"])

RetryStep(r) ==
  Event([r EXCEPT !.retries[r.current] = 0, !.failures[r.current] = 0,
                  !.question = IF r.question # None /\ ~r.question.answered
                               THEN None ELSE @,
                  !.block = FALSE, !.status = "Ready"])

OverrideStep(r) == Transition(Event(r), Flow[r.current].next)

AnswerQuestion(r) ==
  Event([r EXCEPT !.question.answered = TRUE, !.status = "Ready",
                  !.block = FALSE])

\* control::transition logs no route event and does not touch the worker.
ApproveGate(r) ==
  LET left == LeaveStep(Event(r))
      next == Flow[r.current].next
  IN  IF next = None THEN [left EXCEPT !.status = "Done"]
      ELSE [left EXCEPT !.current = next, !.status = "Ready"]

CancelRun(r) ==
  Event([r EXCEPT !.cancelled = TRUE, !.block = TRUE,
                  !.status = "Blocked", !.unsettled = r.active # None])

ReopenRun(r) ==
  Event([r EXCEPT !.cancelled = FALSE, !.status = "Blocked",
                  !.block = TRUE])
=============================================================================
