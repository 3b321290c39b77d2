------------------------------ MODULE VisitLog -----------------------------
(***************************************************************************)
(* The event log of a run and the visits hub::visits counts in it.  The    *)
(* code derives a step's visits from the whole log whenever it checks a    *)
(* limit; FlowRun keeps the counts and updates them event by event.  Here  *)
(* both run side by side over every log the hub and the controls can       *)
(* write, in whichever order they write it.                                *)
(***************************************************************************)
EXTENDS FlowRun, Sequences, FiniteSets

CONSTANTS
  Start,     \* the step the run starts at
  MaxEvents  \* bound on the length of the log

VARIABLES run, log
lvars == <<run, log>>

\* An event, and the target of the route event that leaves for a step.
Logged(step, route) == [step |-> step, route |-> route]

\* Places in the log where the step before was another, and route events of s
\* to itself.
Entered(s) ==
  {n \in DOMAIN log : log[n].step = s /\ (n = 1 \/ log[n - 1].step # s)}
Rerouted(s) == {n \in DOMAIN log : log[n].step = s /\ log[n].route = s}
LastStep == IF log = <<>> THEN None ELSE log[Len(log)].step

\* visits: a change of step in the log starts a visit, and so does a route of
\* a step to itself; the present step may not have logged anything yet.
Count(r, s) ==
  Cardinality(Entered(s)) + Cardinality(Rerouted(s))
    + (IF LastStep # r.current /\ r.current = s THEN 1 ELSE 0)

LogInit == run = NewRun(Start) /\ log = <<>>

\* Any event but a route.
LogEvent ==
  /\ run' = Event(run)
  /\ log' = Append(log, Logged(run.current, None))

\* transition, to a step.
LogRoute ==
  /\ run.status # "Done"
  /\ \E next \in Steps :
       /\ run' = Transition(run, next)
       /\ log' = Append(log, Logged(run.current, next))

\* transition, to the end.
LogDone ==
  /\ run.status # "Done"
  /\ run' = Transition(run, None)
  /\ log' = Append(log, Logged(run.current, None))

\* control::apply, approve: the step is left without a route event.
LogApproval ==
  /\ run.status # "Done" /\ Flow[run.current].kind = "owner_go"
  /\ run' = ApproveGate(run)
  /\ log' = Append(log, Logged(run.current, None))

LogNext ==
  /\ Len(log) < MaxEvents
  /\ LogEvent \/ LogRoute \/ LogDone \/ LogApproval

LogSpec == LogInit /\ [][LogNext]_lvars
-----------------------------------------------------------------------------
(* The visits a limit is compared with are those hub::visits derives from  *)
(* the log: also when a step is left without a route event, routed to      *)
(* itself, or has logged nothing yet.                                      *)
VisitsOfLog == \A s \in Steps : Visits(run, s) = Count(run, s)

(* "Limits bound visits, not attempts" (hub.rs): a retry, a check rerun, an *)
(* answer or an alert repeats the present visit; a step that is entered is *)
(* charged one visit, and no other step any.                               *)
EntryIsOneVisit ==
  [][\A s \in Steps :
       Count(run, s)' - Count(run, s) =
         IF run'.current = s /\ (run.current # s \/ LogRoute) THEN 1
         ELSE 0]_lvars
=============================================================================
