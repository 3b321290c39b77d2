----------------------------- MODULE HermesTurn -----------------------------
(***************************************************************************)
(* A worker of an attempt by a Hermes bot (agent/hermes_acp.rs): a client  *)
(* of the ACP protocol that talks, by the pipes of a viewer process, to a  *)
(* gateway it shares with others.  The gateway goes on working when the    *)
(* viewer or the worker dies, so only its answer to the prompt settles     *)
(* one.  What comes before the client, launch and record, and the locks,   *)
(* are those of Supervisor.                                                *)
(*                                                                         *)
(* Identities, permissions and the usage evidence are left out: a check of *)
(* them either succeeds or fails.                                          *)
(***************************************************************************)
EXTENDS Naturals

CONSTANT None

VARIABLES
  worker,  \* where run is
  turn,    \* prompts sent
  seen,    \* state.attempt.cancelled and timed_out of the worker's memory
  verdict, \* state.result of a successful process, or None
  receipt, \* process.json
  logged,  \* the last answer to a prompt in the log, None, or "torn"
  gateway, \* the gateway works on a prompt
  reply,   \* an answer in the viewer's pipe, or None
  viewer,  \* the viewer is alive
  asked,   \* session/cancel was sent for this prompt
  output,  \* result.json exists
  cancel,  \* the cancel file exists
  late     \* the deadline has passed

vars == <<worker, turn, seen, verdict, receipt, logged, gateway, reply, viewer,
          asked, output, cancel, late>>
service == <<gateway, reply, viewer>>
world == <<output, cancel, late>>

Turns == 4
\* Answers: a turn that ended, one that stopped (cancelled, refused or at a
\* limit), admitted_turn_failed, or another error, which says nothing.
Answers == {"end_turn", "stopped", "failed", "error"}
Stops == {"cancel", "late"}
Verdicts == {"own", "capability"}
Places ==
  {"opening", "ready", "waiting", "heard", "between", "loading", "closing",
   "gone"}

ASSUME HermesAssumption == None \notin Answers \cup Verdicts \cup {"torn"}

HTypeOK ==
  /\ worker \in Places /\ turn \in 0 .. Turns
  /\ seen \subseteq Stops /\ verdict \in Verdicts \cup {None}
  /\ receipt \in [finished : BOOLEAN, seen : SUBSET Stops,
                  verdict : Verdicts \cup {None}]
  /\ logged \in Answers \cup {None, "torn"}
  /\ reply \in Answers \cup {None}
  /\ gateway \in BOOLEAN /\ viewer \in BOOLEAN /\ asked \in BOOLEAN
  /\ output \in BOOLEAN /\ cancel \in BOOLEAN /\ late \in BOOLEAN

Init ==
  /\ worker = "opening" /\ turn = 0 /\ seen = {} /\ verdict = None
  /\ receipt = [finished |-> FALSE, seen |-> {}, verdict |-> None]
  /\ logged = None /\ reply = None /\ viewer = TRUE
  /\ gateway = FALSE /\ asked = FALSE
  /\ output = FALSE /\ cancel = FALSE /\ late = FALSE

\* The stops there are to see.
Due == {s \in Stops : IF s = "cancel" THEN cancel ELSE late}
-----------------------------------------------------------------------------
(* The worker. *)

\* An error of the turn: its outcome is unknown, and the receipt stays open.
Abandon ==
  /\ worker' = "gone"
  /\ UNCHANGED <<turn, seen, verdict, receipt, logged, service, asked, world>>

\* It is over, by an error where one is told; the transport is closed next.
Conclude(result) ==
  /\ worker' = "closing"
  /\ verdict' = IF seen = {} THEN result ELSE None
  /\ UNCHANGED <<turn, seen, receipt, logged, service, asked, world>>

\* initialize, session/new or session/load, session/set_mode.
Open ==
  /\ worker = "opening" /\ viewer
  /\ worker' = "ready"
  /\ UNCHANGED <<turn, seen, verdict, receipt, logged, service, asked, world>>
\* One of them fails: nothing was submitted.
OpenFails == worker = "opening" /\ Conclude(None)

\* rpc: a stop ends any request but a prompt at once.
StopRequest ==
  /\ worker \in {"opening", "loading"} /\ Due # {}
  /\ seen' = seen \cup Due
  /\ receipt' = [receipt EXCEPT !.seen = seen']
  /\ worker' = "closing"
  /\ UNCHANGED <<turn, verdict, logged, service, asked, world>>

Prompt ==
  /\ worker = "ready" /\ viewer
  /\ turn' = turn + 1 /\ gateway' = TRUE /\ asked' = FALSE
  /\ worker' = "waiting"
  /\ UNCHANGED <<seen, verdict, receipt, logged, reply, viewer, world>>
\* The pipe breaks: whether the prompt arrived is unknown.
PromptFails ==
  /\ worker = "ready" /\ ~viewer
  /\ worker' = "gone" /\ gateway' \in BOOLEAN
  /\ UNCHANGED <<turn, seen, verdict, receipt, logged, reply, viewer, asked, world>>

\* wait: a stop is committed, then the gateway is asked to cancel, once.
StopPrompt ==
  /\ worker = "waiting" /\ ~(Due \subseteq seen)
  /\ seen' = seen \cup Due
  /\ receipt' = [receipt EXCEPT !.seen = seen']
  /\ asked' = TRUE
  /\ worker' = IF asked \/ viewer THEN "waiting" ELSE "gone"
  /\ UNCHANGED <<turn, verdict, logged, service, world>>

\* Mutant: it waits for the gateway for ever.
UnconfirmedNever == worker = "waiting" /\ asked /\ ~viewer /\ Abandon
\* Thirty seconds after session/cancel.
Unconfirmed == worker = "waiting" /\ asked /\ Abandon

\* Mutant: what an earlier turn settled is taken for this one.
LostAfterTurn ==
  /\ worker = "waiting" /\ ~viewer /\ reply = None
  /\ IF turn = 1 THEN Abandon ELSE Conclude("capability")
\* The stream ends without an answer.
Lost == worker = "waiting" /\ ~viewer /\ reply = None /\ Abandon

\* frame: an answer is logged before it is looked at.
Hear ==
  /\ worker = "waiting" /\ reply # None
  /\ logged' = reply /\ reply' = None
  /\ worker' = "heard"
  /\ UNCHANGED <<turn, seen, verdict, receipt, gateway, viewer, asked, world>>

HeardError == worker = "heard" /\ logged = "error" /\ Abandon
HeardFailure == worker = "heard" /\ logged = "failed" /\ Conclude("capability")

\* Mutant: one more turn.
HeardEndOnceMore ==
  /\ worker = "heard" /\ logged \in {"end_turn", "stopped"}
  /\ IF logged = "stopped" \/ seen # {} THEN Conclude(None)
     ELSE IF ~output /\ turn > Turns THEN Conclude("capability")
     ELSE /\ worker' = IF output THEN "loading" ELSE "between"
          /\ UNCHANGED <<turn, seen, verdict, receipt, logged, service, asked, world>>
\* A turn that ended is followed by the reload of its session, if it left a
\* result, or by another one.
HeardEnd ==
  /\ worker = "heard" /\ logged \in {"end_turn", "stopped"}
  /\ IF logged = "stopped" \/ seen # {} THEN Conclude(None)
     ELSE IF ~output /\ turn = Turns THEN Conclude("capability")
     ELSE /\ worker' = IF output THEN "loading" ELSE "between"
          /\ UNCHANGED <<turn, seen, verdict, receipt, logged, service, asked, world>>

\* A stop seen between two turns needs no confirmation.
StopBetween ==
  /\ worker = "between" /\ Due # {}
  /\ seen' = seen \cup Due /\ worker' = "closing"
  /\ UNCHANGED <<turn, verdict, receipt, logged, service, asked, world>>
NextTurn ==
  /\ worker = "between" /\ Due = {}
  /\ worker' = "ready"
  /\ UNCHANGED <<turn, seen, verdict, receipt, logged, service, asked, world>>

\* session/load, the usage evidence and the result; one of them may fail.
Load == worker = "loading" /\ viewer /\ Conclude("own")
LoadFails == worker = "loading" /\ Conclude("capability")

\* Mutant: a cancellation that came last is not looked for.
CloseUnchecked ==
  /\ worker = "closing"
  /\ worker' = "gone" /\ viewer' = FALSE
  /\ receipt' = [finished |-> TRUE, seen |-> seen,
                 verdict |-> IF seen = {} THEN verdict ELSE None]
  /\ UNCHANGED <<turn, seen, verdict, logged, gateway, reply, asked, world>>
\* close ends the viewer's group; the receipt is completed.
Close ==
  /\ worker = "closing"
  /\ worker' = "gone" /\ viewer' = FALSE
  /\ LET all == IF cancel THEN seen \cup {"cancel"} ELSE seen
     IN  receipt' = [finished |-> TRUE, seen |-> all,
                     verdict |-> IF all = {} THEN verdict ELSE None]
  /\ UNCHANGED <<turn, seen, verdict, logged, gateway, reply, asked, world>>

WorkerStep ==
  \/ Open \/ OpenFails \/ StopRequest \/ Prompt \/ PromptFails \/ StopPrompt
  \/ Unconfirmed \/ Lost \/ Hear \/ HeardError \/ HeardFailure \/ HeardEnd
  \/ StopBetween \/ NextTurn \/ Load \/ LoadFails \/ Close

\* It is killed, or its transport cannot be started or ended; an answer it
\* was about to log may be cut short.
WorkerDies ==
  /\ worker # "gone" /\ worker' = "gone"
  /\ logged' \in IF worker = "waiting" /\ reply # None
                 THEN {logged, "torn"} ELSE {logged}
  /\ viewer' = FALSE
  /\ UNCHANGED <<turn, seen, verdict, receipt, gateway, reply, asked, world>>

\* Mutant: any error in the trace is taken for a failed turn.
ReconcileError ==
  /\ worker = "gone" /\ ~receipt.finished /\ logged \in {"failed", "error"}
  /\ LET all == IF cancel THEN receipt.seen \cup {"cancel"} ELSE receipt.seen
     IN  receipt' = [finished |-> TRUE, seen |-> all,
                     verdict |-> IF all = {} THEN "capability" ELSE None]
  /\ UNCHANGED <<worker, turn, seen, verdict, logged, service, asked, world>>
\* reconcile, by the operator: the worker is dead, and its log ends with the
\* answer that its last prompt failed.
Reconcile ==
  /\ worker = "gone" /\ ~receipt.finished /\ logged = "failed"
  /\ LET all == IF cancel THEN receipt.seen \cup {"cancel"} ELSE receipt.seen
     IN  receipt' = [finished |-> TRUE, seen |-> all,
                     verdict |-> IF all = {} THEN "capability" ELSE None]
  /\ UNCHANGED <<worker, turn, seen, verdict, logged, service, asked, world>>
-----------------------------------------------------------------------------
(* The gateway, the viewer, the owner and the clock. *)

\* The work on a prompt ends; a live viewer passes the answer on.
GatewayEnds ==
  /\ gateway /\ gateway' = FALSE
  /\ \E a \in Answers \ {"error"} :
       reply' = IF viewer /\ worker = "waiting" /\ reply = None THEN a ELSE reply
  /\ UNCHANGED <<worker, turn, seen, verdict, receipt, logged, viewer, asked, world>>

\* An error of the transport or the protocol: the work may go on.
GatewayErrs ==
  /\ gateway /\ viewer /\ worker = "waiting" /\ reply = None
  /\ reply' = "error"
  /\ UNCHANGED <<worker, turn, seen, verdict, receipt, logged, gateway, viewer,
                 asked, world>>

AgentWrites ==
  /\ gateway /\ ~output /\ output' = TRUE
  /\ UNCHANGED <<worker, turn, seen, verdict, receipt, logged, service, asked,
                 cancel, late>>

ViewerDies ==
  /\ viewer /\ viewer' = FALSE
  /\ UNCHANGED <<worker, turn, seen, verdict, receipt, logged, gateway, reply,
                 asked, world>>

\* stop, which may have looked at the receipt before it was completed.
Cancel ==
  /\ ~cancel /\ cancel' = TRUE
  /\ UNCHANGED <<worker, turn, seen, verdict, receipt, logged, service, asked,
                 output, late>>

DeadlinePasses ==
  /\ ~late /\ late' = TRUE
  /\ UNCHANGED <<worker, turn, seen, verdict, receipt, logged, service, asked,
                 output, cancel>>

Next ==
  \/ WorkerStep \/ WorkerDies \/ Reconcile
  \/ GatewayEnds \/ GatewayErrs \/ AgentWrites \/ ViewerDies
  \/ Cancel \/ DeadlinePasses

\* A live worker goes on; nothing is assumed of the gateway.
Fairness == WF_vars(WorkerStep)

Spec == Init /\ [][Next]_vars
FairSpec == Spec /\ Fairness
-----------------------------------------------------------------------------
(* A receipt is completed only when the gateway has ended every prompt of  *)
(* the attempt, whatever died and whoever completes it, and the gateway    *)
(* never gets a prompt beside another ("A terminal prompt response, never  *)
(* viewer death, establishes settlement of gateway-owned work").           *)
Turn == INSTANCE SettledTurn WITH working <- gateway, settled <- receipt.finished
TurnSettled == Turn!Spec

(* No success is recorded for an attempt that the worker saw stopped, or   *)
(* that was cancelled by then, however late its turn ended ("A late        *)
(* end_turn cannot undo timeout or cancellation"), and what was seen is    *)
(* never taken back.                                                       *)
StopsWin ==
  [][/\ receipt.seen \subseteq receipt'.seen
     /\ receipt'.finished /\ ~receipt.finished /\ receipt'.verdict # None =>
          seen = {} /\ receipt'.seen = {} /\ ~cancel]_vars

(* A success without a result of the bot's own is a block that the gateway *)
(* answered for: it is reported when the last prompt's answer was heard.   *)
VerdictHeard ==
  receipt.finished /\ receipt.verdict # None =>
    /\ turn > 0
    /\ logged \in {"end_turn", "failed"}
    /\ receipt.verdict = "own" => output /\ logged = "end_turn"

(* A worker that is cancelled or late ends, with or without an outcome,    *)
(* also when the gateway never answers again.                              *)
EndsWhenStopped == cancel \/ late ~> worker = "gone"
=============================================================================
