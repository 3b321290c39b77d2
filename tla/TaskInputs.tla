----------------------------- MODULE TaskInputs -----------------------------
(***************************************************************************)
(* What a worker, a gate and a pull request are given (host.rs             *)
(* PreparedAgent, HostGit, HostTracker, HostCodeHost).  A tick reads the   *)
(* run as saved when it began, and what it has seen end since; a task once *)
(* written stays, also when the tick that wrote it is forgotten.           *)
(***************************************************************************)
EXTENDS Naturals, Sequences, FiniteSets

CONSTANTS
  None,
  Plan,   \* step -> [kind, next, on_block, inputs, expects]
  First,  \* the step a run starts at
  Results,  \* how workers may end
  TransientRetries, MaxRuns, MaxForgotten, MaxEvents

PlanSteps == DOMAIN Plan
BlockKinds == {"owner_question", "scope_change", "unknown", "capability"}

TasksAssumption ==
  /\ First \in PlanSteps /\ None \notin PlanSteps
  /\ Results \subseteq BlockKinds \cup {"done", "transient", "invalid", "failed"}
  /\ {TransientRetries, MaxRuns, MaxForgotten, MaxEvents} \subseteq Nat
  /\ \A s \in PlanSteps :
       /\ Plan[s].kind \in {"bot", "gate", "open_pr"}
       /\ Plan[s].next \in PlanSteps \cup {None}
       /\ Plan[s].on_block \in [BlockKinds -> PlanSteps \cup {None}]
       /\ Plan[s].inputs \subseteq PlanSteps /\ Plan[s].expects \in PlanSteps \cup {None}

VARIABLES
  run, saved,  \* as the tick sees it, as on disk
  phase,       \* "idle", "advancing", "returned"
  results,     \* of the attempts that ended
  tasks,       \* what was written for an attempt, a gate's request, a PR
  seen,        \* Observations of this tick
  fresh,       \* tasks this tick wrote
  stale,       \* those of ticks that were forgotten
  forgotten

ivars == <<run, saved, phase, results, tasks, seen, fresh, stale, forgotten>>
-----------------------------------------------------------------------------
\* A reason is known by the attempt it is about.
Event(r, kind, of) ==
  [r EXCEPT !.log = Append(@, [kind |-> kind, step |-> r.current, of |-> of])]

\* The last two fields are not in the code: the block that led to this visit,
\* and the attempt accepted last of every step.
Transition(r, next, block) ==
  LET left == [r EXCEPT !.retries = 0, !.failures = 0, !.active = None, !.block = None,
                        !.asked = FALSE]
  IN IF next = None THEN [Event(left, "done", None) EXCEPT !.status = "Done"]
     ELSE [Event(left, "route", next) EXCEPT !.status = "Ready", !.current = next,
                                             !.visit = @ + 1, !.routed = block]

StopOnBlock(r, of) ==
  [Event(r, "blocked", of) EXCEPT !.status = "Blocked", !.block = of]

HandleBlock(r, kind, of) ==
  LET logged == Event(r, "block", of)
      next == Plan[r.current].on_block[kind]
  IN IF kind = "transient"
     THEN IF r.retries < TransientRetries
          THEN Event([logged EXCEPT !.retries = @ + 1, !.block = of, !.status = "Ready"],
                     "retry", None)
          ELSE StopOnBlock(logged, of)
     ELSE IF next # None THEN Transition(logged, next, of) ELSE StopOnBlock(logged, of)

\* Places of a log, and the last of them; 0 for none.
EventsOf(r, step, kind) ==
  {n \in DOMAIN r.log : r.log[n].step = step /\ r.log[n].kind = kind}
Latest(places) == CHOOSE n \in places \cup {0} : \A m \in places : m <= n

AttemptsOf(r, step) == {n \in DOMAIN r.attempts : r.attempts[n][1] = step}

\* Mutant: the last attempt started counts.
AcceptedLatest(r, step) ==
  LET at == Latest(AttemptsOf(r, step)) IN IF at = 0 THEN 0 ELSE r.attempts[at][2]

\* How often a step had been started when it was done last, and its k-th attempt.
StartsBefore(r, step) ==
  Cardinality({n \in EventsOf(r, step, "started") :
                 n < Latest(EventsOf(r, step, "step_done"))})
Nth(r, step, k) ==
  {n \in AttemptsOf(r, step) : Cardinality({m \in AttemptsOf(r, step) : m <= n}) = k}

\* The attempt a step was done by: hub events matched with the attempts.
Accepted(r, step) ==
  LET that == Nth(r, step, StartsBefore(r, step))
  IN IF that = {} THEN 0 ELSE r.attempts[CHOOSE n \in that : TRUE][2]

\* The block that routed the run into its present visit of a step.
RoutingReason(r, step) ==
  LET at == Latest({n \in DOMAIN r.log : r.log[n].kind = "route" /\ r.log[n].of = step})
  IN IF r.current = step /\ at > 1 /\ r.log[at - 1].kind = "block"
          /\ r.log[at - 1].step = r.log[at].step
     THEN r.log[at - 1].of ELSE None

\* Of what this tick saw end, else of what was saved; 0 for nothing.
Producer(step) ==
  IF step \in DOMAIN seen.completed THEN seen.completed[step] ELSE Accepted(saved, step)

BlockReason(step) ==
  LET block == Latest({n \in DOMAIN saved.log : saved.log[n].kind = "block"})
      reasons == <<seen.reason, RoutingReason(saved, step), saved.block,
                   IF block = 0 THEN None ELSE saved.log[block].of>>
      found == {n \in 1 .. 4 : reasons[n] # None}
  IN IF found = {} THEN None ELSE reasons[CHOOSE n \in found : \A m \in found : n <= m]

Task(step) ==
  [inputs |-> [p \in Plan[step].inputs |-> Producer(p)], reason |-> BlockReason(step)]

\* A function with a value more, if it has none there.
With(f, at, value) ==
  [n \in DOMAIN f \cup {at} |-> IF n \in DOMAIN f THEN f[n] ELSE value]

\* A task that is there is left as it is.
Written(handle, task) ==
  /\ tasks' = With(tasks, handle, task)
  /\ fresh' = IF handle \in DOMAIN tasks THEN fresh ELSE fresh \cup {handle}
-----------------------------------------------------------------------------
NothingSeen == [completed |-> <<>>, reason |-> None]
InputsInit ==
  /\ run = [current |-> First, status |-> "Ready", active |-> None, cancelled |-> FALSE,
            block |-> None, asked |-> FALSE, retries |-> 0, failures |-> 0,
            runs |-> [s \in PlanSteps |-> 0], attempts |-> <<>>, log |-> <<>>,
            visit |-> 0, routed |-> None, accepted |-> [s \in PlanSteps |-> 0]]
  /\ saved = run /\ phase = "idle" /\ results = <<>> /\ tasks = <<>>
  /\ seen = NothingSeen /\ fresh = {} /\ stale = {} /\ forgotten = 0

Begins ==
  /\ phase = "idle" /\ phase' = "advancing"
  /\ UNCHANGED <<run, saved, results, tasks, seen, fresh, stale, forgotten>>

Advancing == phase = "advancing" /\ ~run.cancelled /\ Len(run.log) < MaxEvents

\* A worker ends: it is done, blocked or mistaken, or its process failed.
WorkerEnds ==
  /\ run.active # None /\ run.active \notin DOMAIN results
  /\ \E r \in Results :
       results' = With(results, run.active, r)
  /\ UNCHANGED <<run, saved, phase, tasks, seen, fresh, stale, forgotten>>

\* A result that is invalid may have a reason all the same.
Observes(handle, result) ==
  seen' = IF result = "failed" THEN seen
          ELSE [completed |->
                  [s \in DOMAIN seen.completed \cup {handle[1]} |->
                     IF s = handle[1] THEN handle[2] ELSE seen.completed[s]],
                reason |-> IF result \in BlockKinds \cup {"invalid"} THEN handle ELSE None]

\* The checks of a step that is done: they pass, fail, or cannot be run.
Checked(r, handle) ==
  LET step == Plan[r.current]
      expected == step.expects = None \/ Accepted(saved, step.expects) # 0
      done == [Event(r, "step_done", handle) EXCEPT !.accepted[r.current] = handle[2]]
      failed == [r EXCEPT !.failures = @ + 1]
  IN IF ~expected THEN {StopOnBlock(failed, handle)}
     ELSE {Transition(done, step.next, None), HandleBlock(r, "transient", handle),
           IF r.failures = 0
           THEN Event([failed EXCEPT !.status = "Ready", !.block = handle], "retry", None)
           ELSE StopOnBlock(failed, handle)}

Polls ==
  /\ Advancing /\ run.status = "Running" /\ run.active \in DOMAIN results
  /\ LET handle == run.active
         result == results[handle]
         left == [run EXCEPT !.active = None, !.asked = results[handle] = "owner_question"]
     IN /\ Observes(handle, result)
        /\ run' \in CASE result = "done" -> Checked(left, handle)
                      [] result \in {"failed", "transient"} ->
                           {HandleBlock(left, "transient", handle)}
                      [] result = "invalid" -> {HandleBlock(left, "unknown", handle)}
                      [] OTHER -> {HandleBlock(left, result, handle)}
  /\ UNCHANGED <<saved, phase, results, tasks, fresh, stale, forgotten>>

Counted(s) == [run EXCEPT !.runs[s] = @ + 1]
MayRun(kind) ==
  /\ Advancing /\ run.status = "Ready" /\ Plan[run.current].kind = kind
  /\ run.runs[run.current] < MaxRuns
Attempt == <<run.current, run.runs[run.current] + 1>>

Starts ==
  /\ MayRun("bot")
  /\ Attempt \in DOMAIN tasks \/ 0 \notin {Producer(p) : p \in Plan[run.current].inputs}
  /\ Written(Attempt, Task(run.current))
  /\ run' = Event([Counted(run.current) EXCEPT
                     !.active = Attempt, !.status = "Running", !.block = None, !.asked = FALSE,
                     !.attempts = Append(@, Attempt)], "started", None)
  /\ phase' = "returned"
  /\ UNCHANGED <<saved, results, seen, stale, forgotten>>

\* An input is missing, or the worker cannot be started.
StartFails ==
  /\ MayRun("bot")
  /\ \/ /\ Attempt \notin DOMAIN tasks
        /\ 0 \in {Producer(p) : p \in Plan[run.current].inputs}
        /\ UNCHANGED <<tasks, fresh>>
     \/ /\ 0 \notin {Producer(p) : p \in Plan[run.current].inputs}
        /\ Written(Attempt, Task(run.current))
  /\ run' = HandleBlock(Counted(run.current), "capability", Attempt)
  /\ UNCHANGED <<saved, phase, results, seen, stale, forgotten>>

OpensGate ==
  /\ MayRun("gate")
  /\ run' = Event([Counted(run.current) EXCEPT !.status = "Gate"], "gate", None)
  /\ UNCHANGED <<saved, phase, results, tasks, seen, fresh, stale, forgotten>>

\* The gate's request says what is published, and the owner may approve.
PollsGate ==
  /\ Advancing /\ run.status = "Gate"
  /\ LET asked == <<run.current, run.runs[run.current]>>
         found == {p \in Plan[run.current].inputs : Producer(p) # 0}
     IN Written(asked, [inputs |-> [p \in found |-> Producer(p)], reason |-> None])
  /\ \/ run' = run /\ phase' = "returned"
     \/ /\ run' = Transition(Event(run, "gate", None), Plan[run.current].next, None)
        /\ phase' = phase
  /\ UNCHANGED <<saved, results, seen, stale, forgotten>>

OpensPr ==
  /\ MayRun("open_pr")
  /\ Written(Attempt, Task(run.current))
  /\ run' = Transition(Event(Counted(run.current), "step_done", None),
                       Plan[run.current].next, None)
  /\ UNCHANGED <<saved, phase, results, seen, stale, forgotten>>

\* A question may have been answered already.
Answered ==
  /\ Advancing /\ run.status = "Blocked" /\ run.asked
  /\ run' = Event([run EXCEPT !.status = "Ready", !.block = None], "answer", None)
  /\ UNCHANGED <<saved, phase, results, tasks, seen, fresh, stale, forgotten>>

Settles ==
  /\ phase = "advancing" /\ run.cancelled /\ run.active # None
  /\ run' = Event([run EXCEPT !.active = None], "settled", None)
  /\ UNCHANGED <<saved, phase, results, tasks, seen, fresh, stale, forgotten>>

Saves ==
  /\ phase # "idle" /\ phase' = "idle" /\ saved' = run /\ fresh' = {}
  /\ seen' = NothingSeen
  /\ UNCHANGED <<run, results, tasks, stale, forgotten>>

Forgets ==
  /\ phase # "idle" /\ forgotten < MaxForgotten /\ forgotten' = forgotten + 1
  /\ phase' = "idle" /\ run' = saved /\ stale' = stale \cup fresh /\ fresh' = {}
  /\ seen' = NothingSeen
  /\ UNCHANGED <<saved, results, tasks>>

\* The owner's controls between ticks.
Controls ==
  /\ phase = "idle" /\ Len(run.log) < MaxEvents
  /\ \/ /\ run.status = "Blocked" /\ ~run.cancelled
        /\ \/ run' = Event([run EXCEPT !.status = "Ready", !.retries = 0, !.failures = 0,
                                       !.block = None, !.asked = FALSE], "retry", None)
           \/ Plan[run.current].kind # "gate"
                /\ run' = Transition(Event(run, "override", None), Plan[run.current].next, None)
     \* An approval in Hermon leaves the gate without a route event.
     \/ /\ run.status = "Gate" /\ Plan[run.current].next # None
        /\ run' = [Event(run, "approve", None) EXCEPT
                     !.current = Plan[run.current].next, !.status = "Ready", !.block = None,
                     !.retries = 0, !.failures = 0, !.visit = @ + 1, !.routed = None]
     \/ /\ ~run.cancelled /\ run.status # "Done"
        /\ run' = Event([run EXCEPT !.cancelled = TRUE, !.status = "Blocked",
                                    !.block = <<run.current, 0>>], "cancel", None)
     \/ /\ run.cancelled /\ run.active = None
        /\ run' = Event([run EXCEPT !.cancelled = FALSE, !.block = <<run.current, 0>>],
                        "reopen", None)
  /\ saved' = run'
  /\ UNCHANGED <<phase, results, tasks, seen, fresh, stale, forgotten>>

InputsNext ==
  \/ Begins \/ WorkerEnds \/ Polls \/ Starts \/ StartFails \/ OpensGate \/ PollsGate
  \/ OpensPr \/ Answered \/ Settles \/ Saves \/ Forgets \/ Controls

InputsSpec == InputsInit /\ [][InputsNext]_ivars
-----------------------------------------------------------------------------
Given(handle, p) == tasks'[handle].inputs[p]

\* A worker is given, and a gate publishes, what the attempt produced that was
\* accepted last ("accepted input artifacts", hosting-pipelines.md:82), through
\* refused results, retries and cancellations.  There are two exceptions: what
\* ended in this very tick counts before it is accepted, and a task written by
\* a tick that was forgotten is not written again.
GivenAccepted ==
  [][\A s \in PlanSteps : LET h == <<s, run'.runs[s]>> IN
       h \in fresh' \ fresh =>
         \A p \in DOMAIN tasks'[h].inputs :
           \/ Given(h, p) = run.accepted[p]
           \/ p \in DOMAIN seen.completed /\ Given(h, p) = seen.completed[p]]_ivars

\* A worker launched without such a task is executing what is due now.
LaunchedIsDue ==
  [][\A s \in PlanSteps : Starts /\ run.current = s =>
       \/ Attempt \in stale
       \/ \A p \in Plan[s].inputs : \/ Given(Attempt, p) = run.accepted[p]
                                    \/ p \in DOMAIN seen.completed]_ivars

\* Every attempt of a visit is told why the run was routed there, whatever was
\* blocked, answered or retried in it since (host.rs routing_reason): always
\* when the visit began in an earlier tick and this one saw no worker end with
\* a reason, and when the visit began in this tick by what a worker reported.
ToldWhy ==
  [][Starts /\ Attempt \notin DOMAIN tasks /\ run.routed # None =>
       LET earlier == run.visit = saved.visit /\ seen.reason = None
           reported == run.visit # saved.visit /\ seen.reason = run.routed
       IN earlier \/ reported => tasks'[Attempt].reason = run.routed]_ivars

\* Checks compare with the expectations of the accepted plan, never with those
\* of a newer attempt (hosting-pipelines.md:88).
ExpectsAccepted ==
  Advancing /\ run.status = "Running" /\ Plan[run.current].expects # None =>
    Accepted(saved, Plan[run.current].expects) = run.accepted[Plan[run.current].expects]
=============================================================================
