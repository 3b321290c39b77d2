--------------------------- MODULE WorkflowCycles ---------------------------
(***************************************************************************)
(* Whether a workflow may run for ever by itself (workflow.rs validate,    *)
(* validate_cycles).  Steps with a bound on their runs or rounds and owner *)
(* gates are left out; of the rest, steps that nothing leads to are        *)
(* removed one by one, with a count of the edges that still lead to each.  *)
(* What cannot be removed is on a cycle, or behind one.  The code removes  *)
(* the steps in the order of a queue; nothing depends on it, and here      *)
(* `ready` is a set and any of its steps may be the next.                  *)
(***************************************************************************)
EXTENDS Naturals, FiniteSets, Functions

CONSTANTS
  Names,      \* the steps a workflow may have
  Missing,    \* a target that is no step
  MaxTargets  \* targets of a step: next, on_block and on_verdict

CyclesAssumption ==
  IsFiniteSet(Names) /\ Missing \notin Names /\ MaxTargets \in Nat

VARIABLES
  targets,   \* step -> its targets, in order and with repetitions
  bounded,   \* steps with max_runs or max_rounds, and gates
  incoming,  \* edges that lead to a step that is not bounded
  ready,     \* steps to remove
  verdict    \* "counting", "removing", "accepted", "rejected"

wvars == <<targets, bounded, incoming, ready, verdict>>

Plain == Names \ bounded

\* The edges to n from steps of `from`: a step, and the place of n in its targets.
Edges(n, from) ==
  {e \in from \X (1 .. MaxTargets) :
     e[2] \in DOMAIN targets[e[1]] /\ targets[e[1]][e[2]] = n}
Dangling == \E n \in Names : Missing \in Range(targets[n])

WInit ==
  /\ targets \in [Names -> UNION {[1 .. k -> Names \cup {Missing}] : k \in 0 .. MaxTargets}]
  /\ bounded \in SUBSET Names
  /\ incoming = [n \in Names |-> 0] /\ ready = {}
  /\ verdict = "counting"

\* Every target must be a step; then the edges between plain steps are counted.
\* Mutant: a target that is named twice is counted once.
CountedOnce ==
  [n \in Names |-> IF n \in Plain
                   THEN Cardinality({f \in Plain : n \in Range(targets[f])}) ELSE 0]
Counted ==
  [n \in Names |-> IF n \in Plain THEN Cardinality(Edges(n, Plain)) ELSE 0]

Count ==
  /\ verdict = "counting"
  /\ IF Dangling
     THEN verdict' = "rejected" /\ UNCHANGED <<incoming, ready>>
     ELSE /\ incoming' = Counted
          /\ ready' = {n \in Plain : Counted[n] = 0}
          /\ verdict' = "removing"
  /\ UNCHANGED <<targets, bounded>>

\* A step is removed, target by target; a count that becomes 0 readies its step.
Remove(f) ==
  /\ verdict = "removing"
  /\ incoming' = [n \in Names |-> IF n \in Plain
                                  THEN incoming[n] - Cardinality(Edges(n, {f}))
                                  ELSE incoming[n]]
  /\ ready' = (ready \ {f}) \cup {n \in Plain : incoming[n] > 0 /\ incoming'[n] = 0}
  /\ UNCHANGED <<targets, bounded, verdict>>

Decide ==
  /\ verdict = "removing" /\ ready = {}
  /\ verdict' = IF \E n \in Plain : incoming[n] > 0 THEN "rejected" ELSE "accepted"
  /\ UNCHANGED <<targets, bounded, incoming, ready>>

WNext == Count \/ (\E f \in ready : Remove(f)) \/ Decide
WSpec == WInit /\ [][WNext]_wvars
-----------------------------------------------------------------------------
\* Reference: plain steps that lead back to themselves through plain steps.
Leads == {e \in Plain \X Plain : e[2] \in Range(targets[e[1]])}
OnCycle ==
  {n \in Plain :
     \E k \in 1 .. Cardinality(Names), path \in [0 .. Cardinality(Names) -> Plain] :
       path[0] = n /\ path[k] = n
       /\ \A i \in 0 .. k - 1 : <<path[i], path[i + 1]>> \in Leads}

\* A workflow is accepted just if all its targets exist and every way round in
\* it passes a bounded step or an owner gate, so that the number of attempts
\* between two of the owner's actions is bounded (validate_cycles).
CyclesAreBounded ==
  /\ verdict = "accepted" => OnCycle = {} /\ ~Dangling
  /\ verdict = "rejected" => OnCycle # {} \/ Dangling

\* Steps among which a run may have gone for ever, back from any of them.
Rounds == {C \in SUBSET Plain : C # {} /\ \A n \in C : \E f \in C : <<f, n>> \in Leads}

\* The same without a bound on the length of paths: what is accepted has no
\* cycle, what is rejected has steps that only one another lead to.
AcceptedEnds == verdict = "accepted" => OnCycle = {} /\ ~Dangling
RejectedGoesRound == verdict = "rejected" => Rounds # {} \/ Dangling
=============================================================================
