------------------------------- MODULE MCHub -------------------------------
(***************************************************************************)
(* Small workflows for TLC, in the shapes of workflows/sdlc/workflow.yaml, *)
(* and a bound on what the owner and the clock do in a behaviour.          *)
(***************************************************************************)
EXTENDS HubProps, TLC

CONSTANTS
  MaxOwner,     \* owner actions (controls, replies, the merge) in a behaviour
  f1, f2, s_go, s_code, s_fix, s_review, s_pr, s_merge, t_code

VARIABLES
  acts,
  reopened      \* reopened, and no control of the owner since (ReopenSpec)
mcvars == <<vars, acts, reopened>>

NoRoute == [k \in BlockKinds |-> None]
NoVerdict == [v \in Verdicts |-> None]
BotStep ==
  [kind |-> "bot", next |-> None, on_block |-> NoRoute,
   on_verdict |-> NoVerdict, differs |-> None, checked |-> FALSE,
   tag |-> None, max_runs |-> 0, max_rounds |-> 0]

\* An approved gate and a step that may be sent back to it.
GateFlow ==
  (s_go :> [BotStep EXCEPT !.kind = "owner_go", !.next = s_code])
  @@ (s_code :> [BotStep EXCEPT !.tag = t_code,
                                !.on_block = [NoRoute EXCEPT
                                              !["scope_change"] = s_go]])
GateSteps == {s_go, s_code}

\* Implementation, a bounded correction step and a bounded review.
ReviewFlow ==
  (s_code :> [BotStep EXCEPT !.next = s_review, !.tag = t_code,
                             !.on_block = [NoRoute EXCEPT
                                           !["test_defect"] = s_fix]])
  @@ (s_fix :> [BotStep EXCEPT !.next = s_code, !.tag = t_code,
                               !.max_runs = 1])
  @@ (s_review :> [BotStep EXCEPT !.differs = s_code, !.max_rounds = 2,
                                  !.on_verdict = [NoVerdict EXCEPT
                                                  !["changes_needed"] = s_code]])

\* The same, and publication.
LoopFlow ==
  [ReviewFlow EXCEPT ![s_review].next = s_pr]
  @@ (s_pr :> [BotStep EXCEPT !.kind = "open_pr", !.next = s_merge])
  @@ (s_merge :> [BotStep EXCEPT !.kind = "owner_merge"])
LoopSteps == {s_code, s_fix, s_review, s_pr, s_merge}

\* A cycle through the merge gate, once the pull request is open.
CycleFlow ==
  (s_pr :> [BotStep EXCEPT !.kind = "open_pr", !.next = s_merge])
  @@ (s_merge :> [BotStep EXCEPT !.kind = "owner_merge", !.next = s_code])
  @@ (s_code :> [BotStep EXCEPT !.next = s_merge])
CycleSteps == {s_pr, s_merge, s_code}

MCInit == Init /\ acts = 0 /\ reopened = FALSE
Acts ==
  \/ System /\ acts' = acts
  \/ Owner /\ acts < MaxOwner /\ acts' = acts + 1
MCNext == Acts /\ UNCHANGED reopened
MCSpec == MCInit /\ [][MCNext]_mcvars /\ Fairness
-----------------------------------------------------------------------------
(* The same with a memory of the reopening the owner has not followed up.  *)

ReopenNext ==
  /\ Acts
  /\ reopened' = \/ Reopen
                 \/ /\ reopened
                    /\ acts' # acts => ~(Retry \/ Override \/ Answer \/ Cancel)
ReopenSpec == MCInit /\ [][ReopenNext]_mcvars /\ Fairness

(* control.rs, of reopen: "The run stays blocked so a retry starts a new   *)
(* attempt"; no reply to a question asked before it starts one.            *)
StaysBlocked == reopened => run.status = "Blocked"
=============================================================================
