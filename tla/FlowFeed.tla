------------------------------ MODULE FlowFeed ------------------------------
(***************************************************************************)
(* What the desk programs tell of a hosted run (flow_ui.rs): a row of its  *)
(* state for every step, and an alert when the owner is wanted.  Both are  *)
(* derived from the saved run and its event log at every poll.  The hub    *)
(* and the owner's controls are seen as far as they write that log; Hub    *)
(* has them in full.  A tick of the host is cut into its iterations.       *)
(***************************************************************************)
EXTENDS Naturals, Sequences, FiniteSets

CONSTANTS
  None,
  Begin,      \* the step the run starts at
  Next,       \* step -> the next one, None at the end
  Gates,      \* the steps that are gates
  OnBlock,    \* step -> the target of its on_block route, if any
  Reasons,    \* what a worker or an adapter blocks with
  Failures,   \* what the host fails with
  Enabled,    \* notify.perm_wait, notify.stuck
  MaxEvents,  \* bound on the log
  MaxReopens

Names == DOMAIN Next
FeedAssumption ==
  /\ Begin \in Names /\ Gates \subseteq Names
  /\ Next \in [Names -> Names \cup {None}] /\ OnBlock \in [Names -> Names \cup {None}]
  /\ Enabled \subseteq {"perm", "stuck"} /\ {MaxEvents, MaxReopens} \subseteq Nat
  /\ None \notin Names \cup {"late", "lost", "settled", "cancelled", "reopened"}

VARIABLES
  run,         \* the saved record
  late,        \* its attempt is past stall_alert_minutes
  muted,
  conditions,  \* FlowAlerts: the key of the alert last raised and still due
  \* history, read by the properties only
  stops,       \* how often the run stopped for its owner
  told,        \* what the owner was told last, and still is to know, or <<>>
  passed       \* steps that were passed since they were last begun

fvars == <<run, late, muted, conditions, stops, told, passed>>
-----------------------------------------------------------------------------
(* The record, as the hub and the controls rewrite it. *)

Event(r, kind, reason) ==
  [r EXCEPT !.events = Append(@, [kind |-> kind, step |-> r.current, reason |-> reason])]

Latest(r) == r.events[Len(r.events)]

Left(r) == [r EXCEPT !.active = 0, !.reason = None, !.asks = FALSE]
Leave(r, next) ==
  IF next = None THEN Event([Left(r) EXCEPT !.status = "done"], "done", None)
  ELSE [Event(Left(r), "route", next) EXCEPT !.current = next, !.status = "ready"]

Stop(r, reason) ==
  [Event(r, "blocked", reason) EXCEPT !.status = "blocked", !.reason = reason]

\* handle_block: another try, the step's route, or a stop.
Blocks(r, reason) ==
  LET said == Event(r, "block", reason)
      tried == [said EXCEPT !.status = "ready", !.reason = reason]
  IN  {Event(tried, "transient_retry", None), Stop(said, reason)}
        \cup (IF OnBlock[r.current] = None THEN {} ELSE {Leave(said, OnBlock[r.current])})

Hosted == ~run.cancelled /\ ~run.paused
Settled == run.active = 0
Ready == Hosted /\ run.status = "ready"
Working == Hosted /\ run.status = "running"
Stopped == run.status = "blocked" /\ ~run.cancelled
Here == run.current
Started == [run EXCEPT !.attempts[Here] = @ + 1]
Finished == [run EXCEPT !.active = 0]

\* A worker that blocks, with a question or without.
BlocksWith(asks) == UNION {Blocks([Finished EXCEPT !.asks = asks], why) : why \in Reasons}

\* What advance makes of the run, short of passing a step.
Hosts ==
  UNION {
    IF Ready /\ Here \in Gates
    THEN {Event([run EXCEPT !.status = "gate", !.requests[Here] = @ + 1],
                "gate_opened", None)} ELSE {},
    IF Ready /\ Here \notin Gates
    THEN {Event([Started EXCEPT !.active = Started.attempts[Here], !.status = "running",
                                !.reason = None, !.asks = FALSE], "started", None)}
           \cup UNION {Blocks(Started, why) \cup {Stop(run, why)} : why \in Reasons} ELSE {},
    IF Hosted /\ run.status = "gate"
    THEN UNION {Blocks(run, why) : why \in Reasons} ELSE {},
    IF Working
    THEN BlocksWith(TRUE) \cup BlocksWith(FALSE)
           \cup {Event([run EXCEPT !.status = "blocked", !.reason = "lost"], "unsettled", None),
                 [Event(run, "timeout", None) EXCEPT !.status = "blocked", !.reason = "late"]}
           \cup Blocks(Event(Finished, "timeout", None), "late") ELSE {},
    IF run.status = "blocked" /\ ~Settled
    THEN {Event([Finished EXCEPT !.reason = "settled"], "settled", None)} ELSE {},
    IF Hosted /\ Stopped /\ Settled /\ run.asks
    THEN {Event([run EXCEPT !.status = "ready", !.reason = None, !.asks = FALSE],
                "owner_answer", None)} ELSE {}}

\* A step that is accepted, and a gate that passes.
Passes ==
  UNION {
    IF Working THEN {Leave(Event(Finished, "step_done", None), Next[Here])} ELSE {},
    IF Hosted /\ run.status = "gate"
    THEN {Leave(Event(run, "gate_passed", None), Next[Here])} ELSE {}}

\* The host notes a failure once, and that it goes on without one.
Notes ==
  {Event(run, "host_error", why) :
     why \in {w \in Failures : Latest(run).kind # "host_error" \/ Latest(run).reason # w}}
    \cup (IF Latest(run).kind = "host_error"
          THEN {Event(run, "host_recovered", None)} ELSE {})

\* The owner's controls; reopen needs a settled run.
Controls ==
  UNION {
    IF run.cancelled \/ run.status = "done" THEN {}
    ELSE {Event([run EXCEPT !.paused = ~@], IF run.paused THEN "resume" ELSE "pause", None),
          Event([run EXCEPT !.cancelled = TRUE, !.status = "blocked",
                            !.reason = "cancelled"], "cancel", None)},
    IF Stopped /\ Settled
    THEN {Event([run EXCEPT !.status = "ready", !.reason = None, !.asks = FALSE],
                "retry", None)} ELSE {},
    IF Stopped /\ Settled /\ run.asks
    THEN {Event([run EXCEPT !.status = "ready", !.reason = None, !.asks = FALSE],
                "answer", None)} ELSE {},
    IF run.status = "gate" /\ ~run.cancelled
    THEN LET left == Left(Event(run, "approve", None))
         IN  {IF Next[Here] = None THEN [left EXCEPT !.status = "done"]
              ELSE [left EXCEPT !.current = Next[Here], !.status = "ready"]} ELSE {},
    IF run.cancelled /\ Settled /\ run.status # "done"
         /\ Cardinality({i \in DOMAIN run.events : run.events[i].kind = "reopen"}) < MaxReopens
    THEN {Event([run EXCEPT !.cancelled = FALSE, !.reason = "reopened"],
                "reopen", None)} ELSE {}}

Overrides ==
  IF Stopped /\ Settled /\ Here \notin Gates
  THEN {Leave(Event(run, "override", None), Next[Here])} ELSE {}
-----------------------------------------------------------------------------
(* FlowAlerts::poll. *)

HostFails(r) == Latest(r).kind = "host_error"

Generation(r) ==
  Cardinality({i \in DOMAIN r.events :
                 /\ r.events[i].step = r.current
                 /\ r.events[i].kind \in {"blocked", "block", "gate_opened",
                                          "retry", "answer", "approve"}})

Stalled(r) == r.status = "running" /\ r.active # 0 /\ late

\* The condition an alert is due for, identified as the code does.
Condition(r) ==
  IF r.cancelled \/ r.paused \/ r.status = "done" THEN None
  ELSE IF HostFails(r) THEN <<"perm", Latest(r).reason>>
  ELSE IF r.status \in {"gate", "blocked"}
    THEN <<"perm", r.current, Generation(r), r.requests[r.current],
           IF r.reason = None THEN "approval" ELSE r.reason>>
  ELSE IF Stalled(r) THEN <<"stuck", r.current, r.active>>
  ELSE None

Keeps(key) == muted \/ key[1] \notin Enabled
-----------------------------------------------------------------------------
(* PipelineRow. *)

\* What a step shows that is not the current one: how it was last dealt with.
Finishing == {"step_done", "gate_passed", "override", "started", "gate_opened"}
Deals(r, i, s) == r.events[i].step = s /\ r.events[i].kind \in Finishing
IsDone(r, s) ==
  \E i \in DOMAIN r.events :
    /\ Deals(r, i, s) /\ r.events[i].kind \notin {"started", "gate_opened"}
    /\ \A k \in DOMAIN r.events : k > i => ~Deals(r, k, s)

RowState(r, s) ==
  CASE r.current = s /\ r.cancelled -> "cancelled"
    [] r.current = s /\ ~r.cancelled /\ r.paused -> "paused"
    [] r.current = s /\ ~r.cancelled /\ ~r.paused -> r.status
    [] OTHER -> IF IsDone(r, s) THEN "done" ELSE "pending"
-----------------------------------------------------------------------------
\* What the owner should know where an alert is due, told apart by what happened
\* to the run: the failure, the stop and what is asked then, or the attempt.
Wanted(r) ==
  IF HostFails(r) THEN <<"host", Latest(r).reason>>
  ELSE IF r.status \in {"gate", "blocked"} THEN <<"owner", stops, r.reason>>
  ELSE <<"attempt", r.current, r.active>>

\* The key counts no event of its own for an attempt that is late or lost, nor
\* for a cancelled run: a stop of that kind after one in the same words.
ToldAlike(r) ==
  /\ r.status = "blocked" /\ ~HostFails(r) /\ told # <<>>
  /\ told[1] = "owner" /\ told[3] = r.reason
  /\ \E i \in DOMAIN r.events :
       /\ r.events[i].step = r.current
       /\ r.events[i].kind \in {"timeout", "unsettled", "cancel"}
       /\ \A k \in DOMAIN r.events :
            k > i => r.events[k].step # r.current \/ r.events[k].kind # "blocked"

FeedInit ==
  /\ run = [current |-> Begin, status |-> "ready", paused |-> FALSE, cancelled |-> FALSE,
            reason |-> None, asks |-> FALSE, active |-> 0,
            attempts |-> [s \in Names |-> 0], requests |-> [s \in Names |-> 0],
            events |-> <<[kind |-> "intake", step |-> Begin, reason |-> None]>>]
  /\ late = FALSE /\ muted = FALSE /\ conditions = None
  /\ stops = 0 /\ told = <<>> /\ passed = {}

Rewrites(runs) ==
  /\ Len(run.events) < MaxEvents
  /\ run' \in runs
  /\ late' = (late /\ run'.active = run.active)
  /\ stops' = stops + (IF run'.status \in {"gate", "blocked"} /\ run'.status # run.status
                       THEN 1 ELSE 0)
  /\ UNCHANGED <<muted, conditions, told>>

StepPasses == Rewrites(Passes \cup Overrides) /\ passed' = passed \cup {Here}
StepWorks ==
  /\ Rewrites(Hosts \cup Notes \cup Controls)
  /\ passed' = IF run'.status \in {"running", "gate"} THEN passed \ {run'.current} ELSE passed
AttemptAges ==
  /\ run.active # 0 /\ late' = TRUE
  /\ UNCHANGED <<run, muted, conditions, stops, told, passed>>
Mutes == muted' = ~muted /\ UNCHANGED <<run, late, conditions, stops, told, passed>>

Polls ==
  /\ LET key == Condition(run) IN
     /\ conditions' = IF key = None THEN None ELSE IF Keeps(key) THEN conditions ELSE key
     /\ told' = IF key = None THEN <<>> ELSE IF Keeps(key) THEN told ELSE Wanted(run)
  /\ UNCHANGED <<run, late, muted, stops, passed>>

FeedNext == StepPasses \/ StepWorks \/ AttemptAges \/ Mutes \/ Polls
FeedSpec == FeedInit /\ [][FeedNext]_fvars
-----------------------------------------------------------------------------
\* An alert is due for what the owner should know, was not told last and is not
\* muted or switched off; a poll raises one where its key becomes another.
Due == Condition(run) # None /\ ~Keeps(Condition(run)) /\ Wanted(run) # told
Raises == conditions' \notin {None, conditions}

\* "Desktop alerts": a poll raises one for everything the owner should know and
\* was not told, however the run came to it since the last poll, and none for
\* what it told; it passes over no more than a stop that the log tells apart
\* from none before, in the words of the one told last (FlowAlerts::poll).
EverythingTold ==
  [][Polls =>
       /\ Raises => Due
       /\ Due => Raises \/ ToldAlike(run)]_fvars

\* A step the run has left is shown done just if it was passed, or overridden,
\* since it was last begun; a gate approved at the desk stays pending
\* (pipeline_rows).
DoneWasPassed ==
  \A s \in Names \ {run.current} : RowState(run, s) = "done" <=> s \in passed
=============================================================================
