----------------------------- MODULE MCFlowHost -----------------------------
(***************************************************************************)
(* A host, an implementer and a reviewer with a bot of their own each, and *)
(* a few crashes.                                                          *)
(***************************************************************************)
EXTENDS FlowHost, TLC

CONSTANTS
  MaxOwner,    \* owner actions in a behaviour
  f1, s_code, s_review, t_code

VARIABLE acts
mcvars == <<hvars, acts>>

NoRoute == [k \in BlockKinds |-> None]
BotStep ==
  [kind |-> "bot", next |-> None, on_block |-> NoRoute,
   on_verdict |-> [v \in Verdicts |-> None], differs |-> None,
   checked |-> FALSE, tag |-> None, max_runs |-> 0, max_rounds |-> 0]
PairFlow ==
  (s_code :> [BotStep EXCEPT !.next = s_review, !.tag = t_code])
  @@ (s_review :> BotStep)
PairBots == (s_code :> "implementer") @@ (s_review :> "reviewer")

OwnerActs == Control \/ (Outside /\ (H!OwnerReplies \/ H!OwnerMerges))

MCInit == HostInit /\ acts = 0
MCNext ==
  \/ (Tick \/ Crash \/ CrashInLaunch) /\ acts' = acts
  \/ Outside /\ (H!WorkerEnds \/ H!DeadlinePasses) /\ acts' = acts
  \/ OwnerActs /\ acts < MaxOwner /\ acts' = acts + 1
MCSpec == MCInit /\ [][MCNext]_mcvars /\ HostFairness
=============================================================================
