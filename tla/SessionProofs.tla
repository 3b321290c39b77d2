---------------------------- MODULE SessionProofs ---------------------------
(***************************************************************************)
(* Proofs about the sessions agents work in and the programs that show     *)
(* them, one section a module: the turn of a Hermes worker, the engine,    *)
(* the screen before it, who raises banners, the waits of a remote,        *)
(* liveness, containers, the scans of transcripts, the host's end of a     *)
(* remote, what is told of a hosted run, and rows, their routes and the    *)
(* stores behind them.                                                     *)
(***************************************************************************)
EXTENDS HermesTurn, Sequences, FiniteSetTheorems, WellFoundedInduction, TLAPS

-----------------------------------------------------------------------------
(* A worker's turn (HermesTurn).  The gateway's work outlives the worker,  *)
(* so what settles an attempt must follow from what the worker heard and   *)
(* logged: the invariant says, for each place of the worker, which answer  *)
(* its log ends with and whether the gateway may be at work.               *)

\* An answer is in the pipe of a prompt only, and the log follows the places.
Heard ==
  /\ worker \notin {"waiting", "gone"} => reply = None
  /\ worker \in {"opening", "ready", "waiting"} => logged \in {None, "end_turn"}
  /\ worker = "heard" => logged \in Answers
  /\ worker \in {"between", "loading"} => logged = "end_turn"
  /\ worker \in {"opening", "ready", "between"} => turn < Turns
  /\ worker \in {"waiting", "heard", "between", "loading"} \/ logged = "failed"
       => turn > 0
  /\ worker = "loading" => output

\* Where the gateway works on a prompt, nobody took it for ended.
Working ==
  gateway =>
    /\ ~receipt.finished /\ reply \in {None, "error"} /\ logged # "failed"
    /\ \/ worker \in {"waiting", "gone"}
       \/ worker = "heard" /\ logged = "error"

\* What the worker saw of a stop is in its receipt before anyone reads it.
Told ==
  /\ receipt.finished => worker = "gone"
  /\ receipt.seen \subseteq seen \/ receipt.finished
  /\ worker \notin {"closing", "gone"} => seen = receipt.seen
  /\ logged = "failed" /\ ~receipt.finished => seen = receipt.seen

\* What a verdict on the work rests on.
Grounds(v) ==
  v # None => /\ turn > 0 /\ logged \in {"end_turn", "failed"}
              /\ v = "own" => output /\ logged = "end_turn"
Grounded ==
  /\ worker \notin {"closing", "gone"} => verdict = None
  /\ worker = "closing" => Grounds(verdict)
  /\ receipt.finished => Grounds(receipt.verdict)

HInv == HTypeOK /\ Heard /\ Working /\ Told /\ Grounded
-----------------------------------------------------------------------------
(* One step for each action of the worker, the operator, the gateway, the  *)
(* viewer, the owner and the clock.                                        *)
THEOREM Step == HInv /\ [Next]_vars => HInv'
<1> SUFFICES ASSUME HTypeOK, Heard, Working, Told, Grounded, [Next]_vars
             PROVE  HInv'
  BY DEF HInv
<1>1. CASE Open
  <2>1. HTypeOK'
    BY <1>1 DEF HTypeOK, Places, service, world, Open
  <2>2. Heard' /\ Working'
    BY <1>1 DEF Heard, Working, service, Open
  <2>3. Told' /\ Grounded'
    BY <1>1 DEF Told, Grounded, Grounds, Open, world
  <2>4. QED
    BY <2>1, <2>2, <2>3 DEF HInv
<1>2. CASE OpenFails
  <2>1. HTypeOK'
    BY <1>2 DEF HTypeOK, Places, service, world, OpenFails, Conclude
  <2>2. Heard' /\ Working'
    BY <1>2 DEF Heard, Working, service, OpenFails, Conclude
  <2>3. Told' /\ Grounded'
    BY <1>2 DEF Told, Grounded, Grounds, OpenFails, Conclude, world
  <2>4. QED
    BY <2>1, <2>2, <2>3 DEF HInv
<1>3. CASE StopRequest
  <2>1. HTypeOK'
    BY <1>3 DEF HTypeOK, Places, Due, service, world, StopRequest
  <2>2. Heard' /\ Working'
    BY <1>3 DEF Heard, Working, service, StopRequest
  <2>3. Told' /\ Grounded'
    BY <1>3 DEF Told, Grounded, Grounds, StopRequest
  <2>4. QED
    BY <2>1, <2>2, <2>3 DEF HInv
<1>4. CASE Prompt
  <2>1. asked' \in BOOLEAN /\ gateway' \in BOOLEAN
    BY <1>4, Zenon DEF Prompt
  <2>2. HTypeOK'
    BY <1>4, <2>1 DEF HTypeOK, Heard, Turns, Places, world, Prompt
  <2>3. Heard' /\ Working'
    BY <1>4, HermesAssumption DEF HTypeOK, Heard, Working, Told, Prompt,
           Answers
  <2>4. Told' /\ Grounded'
    BY <1>4 DEF Told, Grounded, Prompt
  <2>5. QED
    BY <2>2, <2>3, <2>4 DEF HInv
<1>5. CASE PromptFails
  <2>1. HTypeOK'
    BY <1>5 DEF HTypeOK, Places, world, PromptFails
  <2>2. Heard' /\ Working'
    BY <1>5, HermesAssumption DEF Heard, Working, Told, PromptFails, Answers
  <2>3. Told' /\ Grounded'
    BY <1>5 DEF Told, Grounded, Grounds, PromptFails, world
  <2>4. QED
    BY <2>1, <2>2, <2>3 DEF HInv
<1>6. CASE StopPrompt
  <2>1. HTypeOK'
    BY <1>6 DEF HTypeOK, Places, Due, service, world, StopPrompt
  <2>2. Heard' /\ Working'
    BY <1>6 DEF Heard, Working, StopPrompt, service
  <2>3. Told' /\ Grounded'
    BY <1>6 DEF Told, Grounded, Grounds, StopPrompt, world
  <2>4. QED
    BY <2>1, <2>2, <2>3 DEF HInv
<1>7. CASE Unconfirmed
  <2>1. HTypeOK'
    BY <1>7 DEF HTypeOK, Places, service, world, Unconfirmed, Abandon
  <2>2. Heard' /\ Working'
    BY <1>7 DEF Heard, Working, Unconfirmed, Abandon, service
  <2>3. Told' /\ Grounded'
    BY <1>7 DEF Told, Grounded, Grounds, Unconfirmed, Abandon, world
  <2>4. QED
    BY <2>1, <2>2, <2>3 DEF HInv
<1>8. CASE Lost
  <2>1. HTypeOK'
    BY <1>8 DEF HTypeOK, Places, service, world, Lost, Abandon
  <2>2. Heard' /\ Working'
    BY <1>8 DEF Heard, Working, Lost, Abandon, service
  <2>3. Told' /\ Grounded'
    BY <1>8 DEF Told, Grounded, Grounds, Lost, Abandon, world
  <2>4. QED
    BY <2>1, <2>2, <2>3 DEF HInv
<1>9. CASE Hear
  <2>1. HTypeOK'
    BY <1>9 DEF HTypeOK, Places, world, Hear
  <2>2. Heard' /\ Working'
    BY <1>9 DEF HTypeOK, Heard, Working, Hear
  <2>3. Told' /\ Grounded'
    BY <1>9 DEF Told, Grounded, Hear
  <2>4. QED
    BY <2>1, <2>2, <2>3 DEF HInv
<1>10. CASE HeardError
  <2>1. HTypeOK'
    BY <1>10 DEF HTypeOK, Places, service, world, HeardError, Abandon
  <2>2. Heard' /\ Working'
    BY <1>10 DEF Heard, Working, HeardError, Abandon, service
  <2>3. Told' /\ Grounded'
    BY <1>10 DEF Told, Grounded, Grounds, HeardError, Abandon
  <2>4. QED
    BY <2>1, <2>2, <2>3 DEF HInv
<1>11. CASE HeardFailure
  <2>1. HTypeOK'
    BY <1>11 DEF HTypeOK, Verdicts, Places, service, world, HeardFailure,
           Conclude
  <2>2. Heard' /\ Working'
    BY <1>11 DEF Heard, Working, service, HeardFailure, Conclude
  <2>3. Told' /\ Grounded'
    BY <1>11 DEF Heard, Told, Grounded, Grounds, HeardFailure, Conclude
  <2>4. QED
    BY <2>1, <2>2, <2>3 DEF HInv
<1>12. CASE HeardEnd
  <2>1. HTypeOK'
    BY <1>12 DEF HTypeOK, Verdicts, Places, service, world, HeardEnd,
           Conclude
  <2>2. Heard' /\ Working'
    BY <1>12 DEF HTypeOK, Heard, Working, Turns, service, world, HeardEnd,
           Conclude
  <2>3. Told' /\ Grounded'
    BY <1>12 DEF Told, Grounded, Grounds, HeardEnd, Conclude, Turns, world
  <2>4. QED
    BY <2>1, <2>2, <2>3 DEF HInv
<1>13. CASE StopBetween
  <2>1. HTypeOK'
    BY <1>13 DEF HTypeOK, Places, Due, service, world, StopBetween
  <2>2. Heard' /\ Working'
    BY <1>13 DEF Heard, Working, service, StopBetween
  <2>3. Told' /\ Grounded'
    BY <1>13 DEF Heard, Told, Grounded, Grounds, StopBetween
  <2>4. QED
    BY <2>1, <2>2, <2>3 DEF HInv
<1>14. CASE NextTurn
  <2>1. HTypeOK'
    BY <1>14 DEF HTypeOK, Places, service, world, NextTurn
  <2>2. Heard' /\ Working'
    BY <1>14 DEF Heard, Working, service, NextTurn
  <2>3. Told' /\ Grounded'
    BY <1>14 DEF Told, Grounded, Grounds, NextTurn, world
  <2>4. QED
    BY <2>1, <2>2, <2>3 DEF HInv
<1>15. CASE Load
  <2>1. HTypeOK'
    BY <1>15 DEF HTypeOK, Verdicts, Places, service, world, Load, Conclude
  <2>2. Heard' /\ Working'
    BY <1>15 DEF Heard, Working, service, Load, Conclude
  <2>3. Told' /\ Grounded'
    BY <1>15 DEF Heard, Told, Grounded, Grounds, Load, Conclude, world
  <2>4. QED
    BY <2>1, <2>2, <2>3 DEF HInv
<1>16. CASE LoadFails
  <2>1. HTypeOK'
    BY <1>16 DEF HTypeOK, Verdicts, Places, service, world, LoadFails,
           Conclude
  <2>2. Heard' /\ Working'
    BY <1>16 DEF Heard, Working, service, LoadFails, Conclude
  <2>3. Told' /\ Grounded'
    BY <1>16 DEF Heard, Told, Grounded, Grounds, LoadFails, Conclude, world
  <2>4. QED
    BY <2>1, <2>2, <2>3 DEF HInv
<1>17. CASE Close
  <2>1. viewer' \in BOOLEAN
    BY <1>17, Zenon DEF Close
  <2>2. HTypeOK'
    BY <1>17, <2>1 DEF HTypeOK, Stops, Places, world, Close
  <2>3. Heard' /\ Working'
    BY <1>17 DEF Heard, Working, Close
  <2>4. Told' /\ Grounded'
    BY <1>17 DEF Told, Grounded, Grounds, Close, world
  <2>5. QED
    BY <2>2, <2>3, <2>4 DEF HInv
<1>18. CASE WorkerDies
  <2>1. viewer' \in BOOLEAN
    BY <1>18, Zenon DEF WorkerDies
  <2>2. HTypeOK'
    BY <1>18, <2>1 DEF HTypeOK, Places, world, WorkerDies
  <2>3. Heard' /\ Working'
    BY <1>18 DEF Heard, Working, WorkerDies
  <2>4. Told' /\ Grounded'
    BY <1>18 DEF Told, Grounded, WorkerDies
  <2>5. QED
    BY <2>2, <2>3, <2>4 DEF HInv
<1>19. CASE Reconcile
  <2>1. HTypeOK'
    BY <1>19 DEF HTypeOK, Stops, Verdicts, service, world, Reconcile
  <2>2. Heard' /\ Working'
    BY <1>19 DEF Heard, Working, Reconcile, service
  <2>3. Told' /\ Grounded'
    BY <1>19 DEF Heard, Told, Grounded, Grounds, Reconcile
  <2>4. QED
    BY <2>1, <2>2, <2>3 DEF HInv
<1>20. CASE GatewayEnds
  <2>1. gateway' \in BOOLEAN
    BY <1>20, Zenon DEF GatewayEnds
  <2>2. HTypeOK'
    BY <1>20, <2>1 DEF HTypeOK, Answers, world, GatewayEnds
  <2>3. Heard' /\ Working'
    BY <1>20 DEF Heard, Working, world, GatewayEnds
  <2>4. Told' /\ Grounded'
    BY <1>20 DEF Told, Grounded, Grounds, GatewayEnds, world
  <2>5. QED
    BY <2>2, <2>3, <2>4 DEF HInv
<1>21. CASE GatewayErrs
  <2>1. HTypeOK'
    BY <1>21 DEF HTypeOK, Answers, world, GatewayErrs
  <2>2. Heard' /\ Working'
    BY <1>21 DEF Heard, Working, GatewayErrs
  <2>3. Told' /\ Grounded'
    BY <1>21 DEF Told, Grounded, Grounds, GatewayErrs, world
  <2>4. QED
    BY <2>1, <2>2, <2>3 DEF HInv
<1>22. CASE AgentWrites
  <2>1. HTypeOK'
    BY <1>22 DEF HTypeOK, service, AgentWrites
  <2>2. Heard' /\ Working'
    BY <1>22 DEF Heard, Working, service, AgentWrites
  <2>3. Told' /\ Grounded'
    BY <1>22 DEF Told, Grounded, Grounds, AgentWrites
  <2>4. QED
    BY <2>1, <2>2, <2>3 DEF HInv
<1>23. CASE ViewerDies
  <2>1. viewer' \in BOOLEAN
    BY <1>23, Zenon DEF ViewerDies
  <2>2. HTypeOK'
    BY <1>23, <2>1 DEF HTypeOK, world, ViewerDies
  <2>3. Heard' /\ Working'
    BY <1>23 DEF Heard, Working, world, ViewerDies
  <2>4. Told' /\ Grounded'
    BY <1>23 DEF Told, Grounded, Grounds, ViewerDies, world
  <2>5. QED
    BY <2>2, <2>3, <2>4 DEF HInv
<1>24. CASE Cancel
  <2>1. HTypeOK'
    BY <1>24 DEF HTypeOK, service, Cancel
  <2>2. Heard' /\ Working'
    BY <1>24 DEF Heard, Working, service, Cancel
  <2>3. Told' /\ Grounded'
    BY <1>24 DEF Told, Grounded, Grounds, Cancel
  <2>4. QED
    BY <2>1, <2>2, <2>3 DEF HInv
<1>25. CASE DeadlinePasses
  <2>1. HTypeOK'
    BY <1>25 DEF HTypeOK, service, DeadlinePasses
  <2>2. Heard' /\ Working'
    BY <1>25 DEF Heard, Working, service, DeadlinePasses
  <2>3. Told' /\ Grounded'
    BY <1>25 DEF Told, Grounded, Grounds, DeadlinePasses
  <2>4. QED
    BY <2>1, <2>2, <2>3 DEF HInv
<1>26. CASE UNCHANGED vars
  BY <1>26 DEF HInv, HTypeOK, Heard, Working, Told, Grounded, Grounds, vars
<1>27. QED
  BY <1>1, <1>2, <1>3, <1>4, <1>5, <1>6, <1>7, <1>8, <1>9,
     <1>10, <1>11, <1>12, <1>13, <1>14, <1>15, <1>16, <1>17, <1>18,
     <1>19, <1>20, <1>21, <1>22, <1>23, <1>24, <1>25, <1>26
  DEF Next, WorkerStep

THEOREM Initially == Init => HInv
<1> SUFFICES ASSUME Init PROVE HInv
  OBVIOUS
<1>1. /\ gateway \in BOOLEAN /\ viewer \in BOOLEAN /\ asked \in BOOLEAN
      /\ output \in BOOLEAN /\ cancel \in BOOLEAN /\ late \in BOOLEAN
  BY Zenon DEF Init
<1>2. HTypeOK
  BY <1>1 DEF Init, HTypeOK, Places, Turns
<1>3. ~gateway /\ ~receipt.finished /\ receipt.seen = {} /\ seen = {}
  BY DEF Init
<1>4. Heard
  BY HermesAssumption DEF Init, Heard, Turns, Answers
<1>5. Working /\ Told /\ Grounded
  BY <1>3, HermesAssumption DEF Init, Working, Told, Grounded, Grounds, Answers
<1>6. QED
  BY <1>2, <1>4, <1>5 DEF HInv

THEOREM Invariant == Spec => []HInv
<1>1. QED
  BY Initially, Step, PTL DEF Spec

(* The worker, its receipt and its log keep their types, and no attempt    *)
(* has more than four prompts (run).                                       *)
THEOREM TypeCorrect == Spec => []HTypeOK
<1>1. HInv => HTypeOK
  BY DEF HInv
<1>2. QED
  BY <1>1, Invariant, PTL

(* A success that is not the bot's own result is a block that the gateway  *)
(* answered for (run, reconcile_failure).                                  *)
THEOREM HeardVerdict == Spec => []VerdictHeard
<1>1. HInv => VerdictHeard
  BY DEF HInv, Grounded, Grounds, VerdictHeard
<1>2. QED
  BY <1>1, Invariant, PTL
-----------------------------------------------------------------------------
\* What the other steps leave alone.
Others ==
  \/ Open \/ OpenFails \/ StopRequest \/ StopPrompt \/ Unconfirmed \/ Lost
  \/ Hear \/ HeardError \/ HeardFailure \/ HeardEnd \/ StopBetween \/ NextTurn
  \/ Load \/ LoadFails \/ WorkerDies \/ GatewayErrs \/ AgentWrites
  \/ ViewerDies \/ Cancel \/ DeadlinePasses
LEMMA OthersKeep ==
  ASSUME HInv, Others
  PROVE  /\ gateway' = gateway /\ receipt'.finished = receipt.finished
         /\ receipt.seen \subseteq receipt'.seen
<1>1. CASE StopRequest \/ StopPrompt
  <2>1. receipt' = [receipt EXCEPT !.seen = seen'] /\ seen \subseteq seen'
        /\ gateway' = gateway
    BY <1>1 DEF StopRequest, StopPrompt, service
  <2>2. receipt.seen \subseteq seen
    BY <1>1 DEF HInv, Told, StopRequest, StopPrompt
  <2>3. QED
    BY <2>1, <2>2 DEF HInv, HTypeOK
<1>2. CASE ~(StopRequest \/ StopPrompt)
  BY <1>2 DEF Others, Open, OpenFails, Unconfirmed, Lost, Hear, HeardError,
     HeardFailure, HeardEnd, StopBetween, NextTurn, Load, LoadFails, WorkerDies,
     GatewayErrs, AgentWrites, ViewerDies, Cancel, DeadlinePasses, Abandon,
     Conclude, service
<1>3. QED
  BY <1>1, <1>2

\* What the steps towards the gateway and its own leave alone.
LEMMA GatewayKeep ==
  ASSUME Prompt \/ PromptFails \/ GatewayEnds PROVE receipt' = receipt
  BY DEF Prompt, PromptFails, GatewayEnds

\* A receipt is completed without the gateway.
LEMMA Settles ==
  ASSUME HInv, Close \/ Reconcile
  PROVE  /\ ~gateway /\ gateway' = gateway
         /\ ~receipt.finished /\ receipt'.finished
         /\ receipt.seen \subseteq receipt'.seen
         /\ receipt'.verdict # None =>
              seen = {} /\ receipt'.seen = {} /\ ~cancel
<1>1. CASE Close
  <2>1. ~gateway /\ ~receipt.finished /\ gateway' = gateway
    BY <1>1 DEF HInv, Working, Told, Close
  <2>2. receipt.seen \subseteq seen
    BY <2>1 DEF HInv, Told
  <2>3. QED
    BY <1>1, <2>1, <2>2 DEF Close
<1>2. CASE Reconcile
  <2>1. ~gateway /\ ~receipt.finished /\ gateway' = gateway
    BY <1>2 DEF HInv, Working, Reconcile, service
  <2>2. receipt.seen = seen
    BY <1>2, <2>1 DEF HInv, Told, Reconcile
  <2>3. QED
    BY <1>2, <2>1, <2>2 DEF Reconcile
<1>3. QED
  BY <1>1, <1>2

\* A prompt goes to an idle gateway, of an attempt without an outcome.
LEMMA Submits ==
  ASSUME HInv, Prompt \/ PromptFails
  PROVE  ~gateway /\ ~receipt.finished /\ (gateway' \/ gateway' = gateway)
<1>1. worker = "ready" /\ gateway' \in BOOLEAN
  BY Zenon DEF Prompt, PromptFails
<1>2. ~gateway /\ ~receipt.finished /\ gateway \in BOOLEAN
  BY <1>1 DEF HInv, HTypeOK, Working, Told
<1>3. gateway' \/ gateway' = gateway
  BY <1>1, <1>2, Zenon
<1>4. QED
  BY <1>2, <1>3

LEMMA NextCases ==
  ASSUME [Next]_vars
  PROVE  \/ Others \/ Prompt \/ PromptFails \/ GatewayEnds \/ Close \/ Reconcile
         \/ UNCHANGED vars
  BY DEF Next, WorkerStep, Others

(* A receipt is completed only when the gateway has ended every prompt,    *)
(* whatever died and whoever completes it (the refinement of SettledTurn;  *)
(* wait, run, reconcile_failure).                                          *)
THEOREM Settled == Spec => TurnSettled
<1>1. Init => Turn!Init
  BY DEF Init, Turn!Init
<1>2. HInv /\ [Next]_vars => [Turn!Next]_<<gateway, receipt.finished>>
  <2> SUFFICES ASSUME HInv, [Next]_vars
               PROVE  [Turn!Next]_<<gateway, receipt.finished>>
    OBVIOUS
  <2>1. CASE Others
    BY <2>1, OthersKeep
  <2>2. CASE Prompt \/ PromptFails
    BY <2>2, Submits, GatewayKeep DEF Turn!Next, Turn!Submit
  <2>3. CASE GatewayEnds
    BY <2>3, GatewayKeep DEF GatewayEnds, Turn!Next, Turn!End
  <2>4. CASE Close \/ Reconcile
    BY <2>4, Settles DEF Turn!Next, Turn!Settle
  <2>5. CASE UNCHANGED vars
    BY <2>5 DEF vars
  <2>6. QED
    BY <2>1, <2>2, <2>3, <2>4, <2>5, NextCases
<1>3. QED
  BY <1>1, <1>2, Invariant, PTL DEF Spec, TurnSettled, Turn!Spec

(* No success is recorded for an attempt that was seen stopped, or is      *)
(* cancelled by then, however late its turn ended (run, the last lines).   *)
THEOREM StopsStay == Spec => StopsWin
<1>1. HInv /\ [Next]_vars =>
        [/\ receipt.seen \subseteq receipt'.seen
         /\ receipt'.finished /\ ~receipt.finished /\ receipt'.verdict # None =>
              seen = {} /\ receipt'.seen = {} /\ ~cancel]_vars
  <2> SUFFICES ASSUME HInv, [Next]_vars
               PROVE  \/ /\ receipt.seen \subseteq receipt'.seen
                         /\ /\ receipt'.finished /\ ~receipt.finished
                            /\ receipt'.verdict # None
                            => seen = {} /\ receipt'.seen = {} /\ ~cancel
                      \/ UNCHANGED vars
    OBVIOUS
  <2>1. CASE Others
    BY <2>1, OthersKeep
  <2>2. CASE Prompt \/ PromptFails \/ GatewayEnds
    BY <2>2, GatewayKeep
  <2>3. CASE Close \/ Reconcile
    BY <2>3, Settles
  <2>4. QED
    BY <2>1, <2>2, <2>3, NextCases
<1>2. QED
  BY <1>1, Invariant, PTL DEF Spec, StopsWin
-----------------------------------------------------------------------------
(* The engine behind the deck and its alerts (Engine). *)

CONSTANTS Keys, Tailable, Rows, Enabled, MaxPanes, Linger, Cooldown, Refire, MaxTime
VARIABLES
  now, tracked, ids, panes, wanted, pinned, errors, muted, booted, fired,
  opening, alerts, heard

E == INSTANCE Engine

\* Its sets are counted as those of this module.
LEMMA EngineCounts == \A S : E!Cardinality(S) = Cardinality(S)
  BY DEF E!Cardinality, Cardinality


\* A followed session.
Follows ==
  [state : {"live", "perm", "stuck", "done"}, finished : Nat, killed : BOOLEAN,
   attn : Nat]

EngineTypes ==
  /\ now \in Nat /\ booted \in BOOLEAN /\ muted \in BOOLEAN
  /\ DOMAIN tracked \subseteq Keys
  /\ \A k \in DOMAIN tracked : tracked[k] \in Follows
  /\ \A n \in DOMAIN fired : fired[n] \in Nat
  /\ \A n \in DOMAIN heard : heard[n] \in [at : Nat, left : BOOLEAN]

\* The panes: none is closed while a scan is opening others but to make way,
\* so that what a scan is to open stays wanted, without a pane and not closed.
PanesInv ==
  /\ IsFiniteSet(panes) /\ Cardinality(panes) <= MaxPanes
  /\ ids \subseteq DOMAIN tracked
  /\ panes \subseteq wanted \cap DOMAIN tracked
  /\ opening \subseteq wanted \ panes
  /\ \A k \in panes \cup opening : ~E!KilledDone(k)

\* The alerts: the clock of the last alert of a session in a state runs until
\* the session is seen outside of it.
AlertsInv ==
  /\ booted \/ DOMAIN heard = {}
  /\ \A n \in DOMAIN heard :
       heard[n].left \/ (n \in DOMAIN fired /\ fired[n] = heard[n].at)

EngineInv == EngineTypes /\ PanesInv /\ AlertsInv
-----------------------------------------------------------------------------
(* What a scan makes of the sessions. *)

LEMMA DeckRows ==
  ASSUME E!EngineAssumption, NEW rows \in E!Decks
  PROVE  /\ E!Present(rows) \subseteq Keys
         /\ \A k \in E!Present(rows) :
              /\ rows[k].state \in {"live", "perm", "stuck", "done"}
              /\ rows[k].young \in BOOLEAN
BY DEF E!EngineAssumption, E!Decks, E!Present

LEMMA EntryType ==
  ASSUME E!EngineAssumption, EngineTypes, NEW rows \in E!Decks,
         NEW k \in DOMAIN tracked \cup E!Present(rows)
  PROVE  E!Entry(k, rows) \in Follows
<1>1. E!Now(k, rows) \in {"live", "perm", "stuck", "done"}
  BY DeckRows DEF E!Now
<1>2. k \in DOMAIN tracked => tracked[k] \in Follows
  BY DEF EngineTypes
<1>3. now \in Nat
  BY DEF EngineTypes
<1>4. QED
  BY <1>1, <1>2, <1>3 DEF E!Entry, Follows, E!Tracks

\* Of a session that the scan keeps: its entry, and whether it lingered.
LEMMA ScanKeeps ==
  ASSUME E!EngineAssumption, EngineTypes, NEW rows \in E!Decks, E!Scan(rows)
  PROVE  /\ DOMAIN tracked' \subseteq DOMAIN tracked \cup E!Present(rows)
         /\ E!Present(rows) \subseteq DOMAIN tracked'
         /\ \A k \in DOMAIN tracked' :
              /\ tracked'[k] \in Follows
              /\ tracked'[k].state = E!Entry(k, rows).state
              /\ tracked'[k].finished = E!Entry(k, rows).finished
              /\ tracked'[k].killed = (E!Entry(k, rows).killed \/ E!Lingered(E!Entry(k, rows)))
         /\ \A k \in DOMAIN tracked \ DOMAIN tracked' :
              E!Entry(k, rows).killed \/ E!Lingered(E!Entry(k, rows))
         /\ panes' = {k \in panes \cap DOMAIN tracked' : ~E!Lingered(E!Entry(k, rows))}
         /\ \A k \in opening' : /\ k \in wanted \ panes'
                                /\ k \in DOMAIN tracked' => ~E!Closed(tracked'[k])
<1> DEFINE all == DOMAIN tracked \cup E!Present(rows)
           followed == E!Followed(rows)
           aged == E!Aged(followed)
           kept == E!Kept(aged, rows)
<1>1. DOMAIN followed = all /\ \A k \in all : followed[k] = E!Entry(k, rows)
  BY DEF E!Followed
<1>2. \A k \in all : followed[k] \in Follows
  BY <1>1, EntryType
<1> HIDE DEF followed
<1>3. DOMAIN aged = all
      /\ \A k \in all : aged[k] = [followed[k] EXCEPT !.killed = @ \/ E!Lingered(followed[k])]
  BY <1>1 DEF E!Aged
<1>4. \A k \in all : E!Lingered(followed[k]) \in BOOLEAN
  BY DEF E!Lingered
<1>5. \A k \in all :
        /\ aged[k] \in Follows /\ aged[k].state = followed[k].state
        /\ aged[k].finished = followed[k].finished
        /\ aged[k].killed = (followed[k].killed \/ E!Lingered(followed[k]))
  <2> TAKE k \in all
  <2> DEFINE l == E!Lingered(followed[k])
  <2>1. l \in BOOLEAN /\ aged[k] = [followed[k] EXCEPT !.killed = @ \/ l]
    BY <1>3, <1>4
  <2> HIDE DEF l
  <2>2. QED
    BY <1>2, <2>1 DEF Follows, l
<1> HIDE DEF aged
<1>6. kept \subseteq all /\ E!Present(rows) \subseteq kept
      /\ \A k \in all \ kept : aged[k].killed
  BY <1>3 DEF E!Kept
<1>7. /\ tracked' = [k \in kept |-> aged[k]]
      /\ panes' = {k \in panes \cap kept : ~E!Lingered(followed[k])}
      /\ opening' = E!Pending(aged, kept, panes')
  BY DEF E!Scan, aged, followed
<1> HIDE DEF kept
<1>8. DOMAIN tracked' = kept /\ \A k \in kept : tracked'[k] = aged[k]
  BY <1>7
<1>9. \A k \in opening' : k \in wanted \ panes' /\ (k \in kept => ~E!Closed(tracked'[k]))
  BY <1>7, <1>8 DEF E!Pending
<1>10. /\ DOMAIN tracked' \subseteq all /\ E!Present(rows) \subseteq DOMAIN tracked'
       /\ \A k \in all \ DOMAIN tracked' :
             E!Entry(k, rows).killed \/ E!Lingered(E!Entry(k, rows))
  BY <1>1, <1>5, <1>6, <1>8
<1>11. \A k \in DOMAIN tracked' :
         /\ tracked'[k] \in Follows
         /\ tracked'[k].state = E!Entry(k, rows).state
         /\ tracked'[k].finished = E!Entry(k, rows).finished
         /\ tracked'[k].killed = (E!Entry(k, rows).killed \/ E!Lingered(E!Entry(k, rows)))
  BY <1>1, <1>5, <1>6, <1>8
<1>12. panes' = {k \in panes \cap DOMAIN tracked' : ~E!Lingered(E!Entry(k, rows))}
  BY <1>1, <1>6, <1>7, <1>8
<1>13. QED
  BY <1>8, <1>9, <1>10, <1>11, <1>12
\* The states of a session before and after a scan that keeps it.
LEMMA EntryIs ==
  ASSUME NEW rows, NEW k
  PROVE  /\ E!Entry(k, rows).state = E!Now(k, rows)
         /\ E!Entry(k, rows).finished
              = IF E!Now(k, rows) # "done" THEN 0
                ELSE IF ~E!Tracks(k) \/ (tracked[k].state = "done") # (E!Now(k, rows) = "done")
                     THEN now ELSE tracked[k].finished
         /\ E!Entry(k, rows).killed
              = (/\ ~(~E!Tracks(k) \/ (tracked[k].state = "done") # (E!Now(k, rows) = "done"))
                 /\ tracked[k].killed)
BY DEF E!Entry

\* After a scan no pane is one that was closed for having finished.
LEMMA ScanPanes ==
  ASSUME E!EngineAssumption, EngineTypes, PanesInv, NEW rows \in E!Decks, E!Scan(rows)
  PROVE  PanesInv'
<1>1. IsFiniteSet(panes') /\ Cardinality(panes') <= MaxPanes
  <2>1. panes' \in SUBSET panes
    BY ScanKeeps
  <2>2. IsFiniteSet(panes') /\ Cardinality(panes') <= Cardinality(panes)
    BY <2>1, FS_Subset DEF PanesInv
  <2>3. Cardinality(panes) \in Nat /\ Cardinality(panes') \in Nat /\ MaxPanes \in Nat
    BY <2>2, FS_CardinalityType DEF PanesInv, E!EngineAssumption
  <2>4. QED
    BY <2>2, <2>3 DEF PanesInv
<1>2. ids' \subseteq DOMAIN tracked'
  BY ScanKeeps DEF E!Scan
<1>3. panes' \subseteq wanted' \cap DOMAIN tracked' /\ opening' \subseteq wanted' \ panes'
  <2>1. wanted' = wanted
    BY DEF E!Scan
  <2>2. QED
    BY <2>1, ScanKeeps DEF PanesInv
<1>4. ASSUME NEW k \in panes'
      PROVE  ~(E!KilledDone(k)')
  <2>1. k \in panes /\ k \in DOMAIN tracked' /\ ~E!Lingered(E!Entry(k, rows))
    BY <1>4, ScanKeeps
  <2>2. E!Tracks(k) /\ ~E!Closed(tracked[k])
    BY <2>1 DEF PanesInv, E!KilledDone, E!Tracks
  <2>3. /\ tracked'[k].state = E!Now(k, rows)
        /\ tracked'[k].killed => E!Entry(k, rows).killed
    BY <2>1, ScanKeeps, EntryIs
  <2>4. tracked'[k].killed /\ E!Now(k, rows) = "done" =>
          tracked[k].killed /\ tracked[k].state = "done"
    BY <2>2, <2>3, EntryIs
  <2>5. ~E!Closed(tracked'[k])
    BY <2>2, <2>3, <2>4 DEF E!Closed
  <2>6. QED
    BY <2>5 DEF E!KilledDone
<1>5. \A k \in opening' : ~(E!KilledDone(k)')
  BY ScanKeeps DEF E!KilledDone, E!Tracks
<1>6. QED
  BY <1>1, <1>2, <1>3, <1>4, <1>5 DEF PanesInv

\* What an alert of this scan is due for.
LEMMA AlertsAre ==
  ASSUME E!EngineAssumption, NEW rows, NEW n \in E!Alerts(rows)
  PROVE  /\ booted /\ ~muted /\ n \in E!Present(rows) \X Enabled
         /\ n[2] \in E!Attentions => n \in E!Entered(rows) /\ E!Due(n, rows, Refire)
         /\ n[2] \notin E!Attentions => E!Due(n, rows, Cooldown)
<1>1. /\ booted /\ ~muted /\ n \in E!Present(rows) \X Enabled
      /\ CASE n[2] = "finished" -> E!Finishes(n[1], rows) /\ E!Due(n, rows, Cooldown)
           [] n[2] = "error" -> n[1] \in errors /\ E!Due(n, rows, Cooldown)
           [] OTHER -> n \in E!Entered(rows) /\ E!Due(n, rows, Refire)
  BY DEF E!Alerts
<1>2. n[2] \in {"finished", "error", "perm", "stuck"}
  BY <1>1 DEF E!EngineAssumption
<1>3. CASE n[2] = "finished"
  BY <1>1, <1>3 DEF E!Attentions
<1>4. CASE n[2] = "error"
  BY <1>1, <1>4 DEF E!Attentions
<1>5. CASE n[2] \in E!Attentions
  BY <1>1, <1>5 DEF E!Attentions
<1>6. QED
  BY <1>2, <1>3, <1>4, <1>5 DEF E!Attentions

\* An alert is not raised before the clock of the one before has run out.
LEMMA AlertIsDue ==
  ASSUME E!EngineAssumption, AlertsInv, NEW rows, NEW n \in E!Alerts(rows),
         n \in DOMAIN heard, ~heard[n].left
  PROVE  now - heard[n].at >= E!Interval(n)
<1>1. n \in DOMAIN fired /\ fired[n] = heard[n].at
  BY DEF AlertsInv
<1>2. n \notin E!Left(rows)
  BY AlertsAre DEF E!Left, E!Entered
<1>3. CASE n[2] \in E!Attentions
  BY <1>1, <1>2, <1>3, AlertsAre DEF E!Due, E!Interval
<1>4. CASE n[2] \notin E!Attentions
  BY <1>1, <1>2, <1>4, AlertsAre DEF E!Due, E!Interval
<1>5. QED
  BY <1>3, <1>4

\* The clocks after a scan: an alert that is due starts its clock, and one that
\* is forgotten was of a state the session has left.
LEMMA ScanAlerts ==
  ASSUME E!EngineAssumption, EngineTypes, AlertsInv, NEW rows \in E!Decks, E!Scan(rows)
  PROVE  /\ AlertsInv'
         /\ \A n \in DOMAIN fired' : fired'[n] \in Nat
         /\ \A n \in DOMAIN heard' : heard'[n] \in [at : Nat, left : BOOLEAN]
<1> DEFINE new == E!Alerts(rows) \cup E!Seeded(rows)
<1>1. /\ DOMAIN fired' = (DOMAIN fired \ E!Left(rows)) \cup new
      /\ \A n \in DOMAIN fired' : fired'[n] = IF n \in new THEN now ELSE fired[n]
  BY DEF E!Scan, E!Fired
<1>2. /\ DOMAIN heard' = DOMAIN heard \cup E!Alerts(rows)
      /\ \A n \in E!Alerts(rows) : heard'[n] = [at |-> now, left |-> FALSE]
      /\ \A n \in DOMAIN heard \ E!Alerts(rows) :
           heard'[n] = [heard[n] EXCEPT !.left = @ \/ E!Outside(n, rows)]
  BY DEF E!Scan, E!Heard
<1>3. booted'
  BY DEF E!Scan
<1>4. \A n \in DOMAIN fired' : fired'[n] \in Nat
  BY <1>1 DEF EngineTypes
<1>5. ASSUME NEW n \in DOMAIN heard \ E!Alerts(rows)
      PROVE  /\ heard'[n].at = heard[n].at /\ heard'[n].left = (heard[n].left \/ E!Outside(n, rows))
             /\ heard'[n] \in [at : Nat, left : BOOLEAN]
  <2> DEFINE o == E!Outside(n, rows)
  <2>1. o \in BOOLEAN
    BY DEF E!Outside
  <2>2. heard[n] \in [at : Nat, left : BOOLEAN]
    BY DEF EngineTypes
  <2>3. heard'[n] = [heard[n] EXCEPT !.left = @ \/ o]
    BY <1>2
  <2> HIDE DEF o
  <2>4. QED
    BY <2>1, <2>2, <2>3 DEF o
<1>6. \A n \in DOMAIN heard' : heard'[n] \in [at : Nat, left : BOOLEAN]
  <2>1. now \in Nat
    BY DEF EngineTypes
  <2>2. [at |-> now, left |-> FALSE] \in [at : Nat, left : BOOLEAN]
    BY <2>1
  <2>3. \A n \in E!Alerts(rows) : heard'[n] \in [at : Nat, left : BOOLEAN]
    BY <1>2, <2>2
  <2>4. QED
    BY <1>2, <1>5, <2>3
<1>7. ASSUME NEW n \in DOMAIN heard', n \notin E!Alerts(rows), ~heard'[n].left
      PROVE  n \in DOMAIN fired' /\ fired'[n] = heard'[n].at
  <2>1. n \in DOMAIN heard /\ ~heard[n].left /\ ~E!Outside(n, rows)
    BY <1>2, <1>5, <1>7
  <2>2. n \in DOMAIN fired /\ fired[n] = heard'[n].at /\ booted
    BY <1>5, <1>7, <2>1 DEF AlertsInv
  <2>3. n \notin E!Left(rows) /\ n \notin E!Seeded(rows)
    BY <2>1, <2>2 DEF E!Left, E!Outside, E!Now, E!Seeded
  <2>4. QED
    BY <1>1, <1>7, <2>2, <2>3
<1>8. ASSUME NEW n \in E!Alerts(rows)
      PROVE  n \in DOMAIN fired' /\ fired'[n] = heard'[n].at
  BY <1>1, <1>2
<1>9. QED
  BY <1>2, <1>3, <1>4, <1>6, <1>7, <1>8 DEF AlertsInv
-----------------------------------------------------------------------------
(* A step of the loop. *)

\* A pane that is opened is wanted and not closed, and its victim is: what is
\* still to be opened keeps what it needs.
LEMMA PaneOpens ==
  ASSUME E!EngineAssumption, EngineTypes, PanesInv, NEW k, E!TryOpen(k),
         k \in wanted' \ panes, ~E!KilledDone(k), wanted \subseteq wanted', ids' = ids,
         opening' \subseteq opening \ {k}
  PROVE  /\ PanesInv' /\ DOMAIN tracked' = DOMAIN tracked
         /\ \A j \in DOMAIN tracked' : tracked'[j] \in Follows
         /\ \A v \in panes \ panes' : tracked'[v].state = "done" /\ v \notin pinned
<1>1. CASE ~E!Opens(k) /\ UNCHANGED <<panes, tracked>>
  <2>1. PanesInv'
    BY <1>1 DEF PanesInv, E!KilledDone, E!Tracks, E!Closed
  <2>2. QED
    BY <1>1, <2>1 DEF EngineTypes
<1>2. CASE E!Opens(k) /\ ~E!Full /\ panes' = panes \cup {k} /\ UNCHANGED tracked
  <2>1. IsFiniteSet(panes') /\ Cardinality(panes') = Cardinality(panes) + 1
    BY <1>2, FS_AddElement DEF PanesInv
  <2>2. Cardinality(panes) \in Nat /\ MaxPanes \in Nat /\ ~(Cardinality(panes) >= MaxPanes)
    BY <1>2, EngineCounts, FS_CardinalityType DEF PanesInv, E!EngineAssumption, E!Full
  <2>3. Cardinality(panes') <= MaxPanes
    BY <2>1, <2>2
  <2>4. \A j : E!KilledDone(j)' = E!KilledDone(j)
    BY <1>2 DEF E!KilledDone, E!Tracks
  <2>5. PanesInv'
    BY <1>2, <2>1, <2>3, <2>4 DEF PanesInv, E!Opens
  <2>6. QED
    BY <1>2, <2>5 DEF EngineTypes
<1>3. ASSUME E!Opens(k), E!Full, NEW v \in E!Victims, panes' = (panes \ {v}) \cup {k},
             tracked' = [tracked EXCEPT ![v].killed = TRUE]
      PROVE  /\ PanesInv' /\ DOMAIN tracked' = DOMAIN tracked
             /\ \A j \in DOMAIN tracked' : tracked'[j] \in Follows
             /\ \A u \in panes \ panes' : tracked'[u].state = "done" /\ u \notin pinned
  <2>1. v \in panes \ pinned /\ tracked[v].state = "done" /\ v # k
    BY <1>3 DEF E!Victims, E!Displaceable
  <2>2. v \in DOMAIN tracked /\ tracked[v] \in Follows
    BY <2>1 DEF PanesInv, EngineTypes
  <2>3. /\ DOMAIN tracked' = DOMAIN tracked
        /\ \A j \in DOMAIN tracked \ {v} : tracked'[j] = tracked[j]
        /\ tracked'[v] = [tracked[v] EXCEPT !.killed = TRUE]
    BY <1>3, <2>2
  <2>4. tracked'[v] \in Follows /\ tracked'[v].state = "done"
    BY <2>1, <2>2, <2>3 DEF Follows
  <2>5. IsFiniteSet(panes \ {v}) /\ Cardinality(panes \ {v}) = Cardinality(panes) - 1
    BY <2>1, FS_RemoveElement DEF PanesInv
  <2>6. IsFiniteSet(panes') /\ Cardinality(panes') = Cardinality(panes \ {v}) + 1
    BY <1>3, <2>5, FS_AddElement
  <2>7. Cardinality(panes) \in Nat
    BY FS_CardinalityType DEF PanesInv
  <2>8. Cardinality(panes') <= MaxPanes
    BY <2>5, <2>6, <2>7 DEF PanesInv
  <2>9. \A j : j # v => E!KilledDone(j)' = E!KilledDone(j)
    BY <2>3 DEF E!KilledDone, E!Tracks
  <2>10. PanesInv'
    BY <1>3, <2>1, <2>3, <2>6, <2>8, <2>9 DEF PanesInv, E!Opens
  <2>11. QED
    BY <1>3, <2>1, <2>3, <2>4, <2>10 DEF EngineTypes
<1>4. QED
  BY <1>1, <1>2, <1>3 DEF E!TryOpen

LEMMA EngineStep ==
  ASSUME E!EngineAssumption, EngineInv, [E!EngineNext]_E!evars
  PROVE  EngineInv'
<1>1. EngineTypes /\ PanesInv /\ AlertsInv
  BY DEF EngineInv
<1>2. ASSUME NEW rows \in E!Decks, E!Scan(rows)
      PROVE  EngineInv'
  <2>1. DOMAIN tracked' \subseteq Keys /\ \A k \in DOMAIN tracked' : tracked'[k] \in Follows
    BY <1>1, <1>2, ScanKeeps, DeckRows DEF EngineTypes
  <2>2. now' \in Nat /\ booted' \in BOOLEAN /\ muted' \in BOOLEAN
    BY <1>1, <1>2 DEF EngineTypes, E!Scan
  <2>3. QED
    BY <1>1, <1>2, <2>1, <2>2, ScanPanes, ScanAlerts DEF EngineInv, EngineTypes
<1>3. ASSUME NEW k, E!OpenNext(k)
      PROVE  EngineInv'
  <2>1. k \in wanted' \ panes /\ ~E!KilledDone(k) /\ wanted' = wanted /\ ids' = ids
        /\ opening' = opening \ {k}
    BY <1>1, <1>3 DEF E!OpenNext, PanesInv, E!Keep
  <2>2. PanesInv' /\ DOMAIN tracked' = DOMAIN tracked
        /\ \A j \in DOMAIN tracked' : tracked'[j] \in Follows
    BY <1>1, <1>3, <2>1, PaneOpens DEF E!OpenNext
  <2>3. EngineTypes' /\ AlertsInv'
    BY <1>1, <1>3, <2>2 DEF EngineTypes, AlertsInv, E!OpenNext, E!Keep
  <2>4. QED
    BY <2>2, <2>3 DEF EngineInv
<1>4. ASSUME NEW k, E!OpenPane(k)
      PROVE  EngineInv'
  <2>1. PanesInv' /\ DOMAIN tracked' = DOMAIN tracked
        /\ \A j \in DOMAIN tracked' : tracked'[j] \in Follows
    <3>1. CASE k \in panes \/ E!KilledDone(k)
      <4>1. UNCHANGED <<panes, tracked, ids, opening>> /\ wanted' = wanted \cup {k}
        BY <1>4, <3>1 DEF E!OpenPane, E!Keep
      <4>2. \A j : E!KilledDone(j)' = E!KilledDone(j)
        BY <4>1 DEF E!KilledDone, E!Tracks
      <4>3. QED
        BY <1>1, <1>4, <4>1, <4>2 DEF PanesInv, EngineTypes, E!OpenPane
    <3>2. CASE ~(k \in panes \/ E!KilledDone(k))
      BY <1>1, <1>4, <3>2, PaneOpens DEF E!OpenPane, E!Keep
    <3>3. QED
      BY <3>1, <3>2
  <2>2. EngineTypes' /\ AlertsInv'
    BY <1>1, <1>4, <2>1 DEF EngineTypes, AlertsInv, E!OpenPane, E!Keep
  <2>3. QED
    BY <2>1, <2>2 DEF EngineInv
<1>5. ASSUME NEW k, E!ClosePane(k)
      PROVE  EngineInv'
  <2>1. /\ UNCHANGED <<tracked, ids, opening>> /\ opening = {}
        /\ panes' = panes \ {k} /\ wanted' = wanted \ {k}
    BY <1>5 DEF E!ClosePane, E!Keep
  <2>2. IsFiniteSet(panes') /\ Cardinality(panes') <= Cardinality(panes)
    BY <1>1, <2>1, FS_Subset DEF PanesInv
  <2>3. Cardinality(panes) \in Nat /\ Cardinality(panes') \in Nat /\ MaxPanes \in Nat
    BY <1>1, <2>2, FS_CardinalityType DEF PanesInv, E!EngineAssumption
  <2>4. Cardinality(panes') <= MaxPanes
    BY <1>1, <2>2, <2>3 DEF PanesInv
  <2>5. \A j : E!KilledDone(j)' = E!KilledDone(j)
    BY <2>1 DEF E!KilledDone, E!Tracks
  <2>6. PanesInv'
    BY <1>1, <2>1, <2>2, <2>4, <2>5 DEF PanesInv
  <2>7. EngineTypes' /\ AlertsInv'
    BY <1>1, <1>5 DEF EngineTypes, AlertsInv, E!ClosePane, E!Keep
  <2>8. QED
    BY <2>6, <2>7 DEF EngineInv
<1>6. ASSUME UNCHANGED <<tracked, panes, wanted, ids, opening, booted, fired, heard>>,
             now' \in Nat, muted' \in BOOLEAN
      PROVE  EngineInv'
  BY <1>1, <1>6 DEF EngineInv, EngineTypes, PanesInv, AlertsInv, E!KilledDone, E!Tracks, E!Closed
<1>7. CASE (\E keys : E!Pinned(keys)) \/ E!PumpPanes \/ E!ClockTicks \/ UNCHANGED E!evars
           \/ (\E on \in BOOLEAN : E!SetMuted(on))
  <2>1. UNCHANGED <<tracked, panes, wanted, ids, opening, booted, fired, heard>>
    BY <1>7 DEF E!Pinned, E!SetMuted, E!PumpPanes, E!ClockTicks, E!evars, E!Keep
  <2>2. now' \in {now, now + 1} /\ muted' \in BOOLEAN
    BY <1>1, <1>7 DEF E!Pinned, E!SetMuted, E!PumpPanes, E!ClockTicks, E!evars, E!Keep, EngineTypes
  <2>3. now' \in Nat
    BY <1>1, <2>2 DEF EngineTypes
  <2>4. QED
    BY <1>6, <2>1, <2>2, <2>3
<1>8. QED
  BY <1>2, <1>3, <1>4, <1>5, <1>7 DEF E!EngineNext, E!ScanAny, E!Settle, E!Command

LEMMA EngineStarts ==
  ASSUME E!EngineAssumption, E!EngineInit
  PROVE  EngineInv
<1> DEFINE Empty == <<>>
<1>0. DOMAIN Empty = {}
  OBVIOUS
<1> HIDE DEF Empty
<1>1. DOMAIN tracked = {} /\ DOMAIN fired = {} /\ DOMAIN heard = {}
  BY <1>0 DEF E!EngineInit, Empty
<1>2. IsFiniteSet(panes) /\ Cardinality(panes) = 0 /\ MaxPanes \in Nat
  BY FS_EmptySet DEF E!EngineInit, E!EngineAssumption
<1>3. EngineTypes
  BY <1>1 DEF E!EngineInit, EngineTypes
<1>4. ids = {} /\ panes = {} /\ opening = {}
  BY DEF E!EngineInit
<1>5. PanesInv
  BY <1>2, <1>4 DEF PanesInv
<1>6. QED
  BY <1>1, <1>3, <1>5 DEF EngineInv, AlertsInv

\* The panes stay in order and the alerts' clocks right, for any sessions,
\* limits and times.
THEOREM EngineHolds ==
  ASSUME E!EngineAssumption
  PROVE  E!EngineSpec => []EngineInv
<1>1. E!EngineInit => EngineInv
  BY EngineStarts
<1>2. EngineInv /\ [E!EngineNext]_E!evars => EngineInv'
  BY EngineStep
<1>3. QED
  BY <1>1, <1>2, PTL DEF E!EngineSpec
-----------------------------------------------------------------------------
(* What the watcher loop promises. *)

\* The panes are within their limit, wanted, followed and not closed, for any
\* sessions, rows and limits (PanesInOrder, part of PanesHold).
THEOREM PanesStayInOrder ==
  ASSUME E!EngineAssumption
  PROVE  E!EngineSpec => []E!PanesInOrder
<1>1. EngineInv => E!PanesInOrder
  BY EngineCounts DEF EngineInv, PanesInv, E!PanesInOrder
<1>2. QED
  BY <1>1, EngineHolds, PTL

\* What lingered, lingers since the clock of the session says so.
LEMMA LingersSince ==
  ASSUME E!EngineAssumption, EngineTypes, NEW rows, NEW k \in DOMAIN tracked,
         E!Lingered(E!Entry(k, rows))
  PROVE  /\ Linger > 0 /\ E!Now(k, rows) = "done" /\ tracked[k].state = "done"
         /\ now - tracked[k].finished >= Linger
<1>1. Linger > 0 /\ E!Entry(k, rows).state = "done" /\ now - E!Entry(k, rows).finished >= Linger
  BY DEF E!Lingered
<1>2. E!Tracks(k) /\ Linger \in Nat /\ now \in Nat
  BY DEF E!Tracks, EngineTypes, E!EngineAssumption
<1>3. E!Now(k, rows) = "done"
  BY <1>1, EntryIs
<1> DEFINE was == tracked[k].state = "done"
<1>a. was \in BOOLEAN
  OBVIOUS
<1>b. E!Entry(k, rows).finished = IF was # TRUE THEN now ELSE tracked[k].finished
  BY <1>2, <1>3 DEF E!Entry
<1> HIDE DEF was
<1>4. CASE was = TRUE
  <2>1. E!Entry(k, rows).finished = tracked[k].finished
    BY <1>b, <1>4
  <2>2. QED
    BY <1>1, <1>3, <1>4, <2>1 DEF was
<1>5. CASE was = FALSE
  <2>1. E!Entry(k, rows).finished = now
    BY <1>b, <1>5
  <2>2. QED
    BY <1>1, <1>2, <2>1
<1>6. QED
  BY <1>a, <1>4, <1>5

\* A pane that is wanted is lost to the end of its session only, and a pinned
\* one only when that has lingered or was forgotten (PaneKept, part of
\* PanesHold).
THEOREM PanesAreKept ==
  ASSUME E!EngineAssumption
  PROVE  E!EngineSpec => E!PaneKept
<1> DEFINE Fine == \A k \in panes \ panes' :
       k \in wanted' =>
         /\ k \in DOMAIN tracked' => tracked'[k].state = "done"
         /\ k \in pinned /\ k \in DOMAIN tracked' =>
              Linger > 0 /\ now - tracked'[k].finished >= Linger
<1>1. EngineInv /\ [E!EngineNext]_E!evars => [Fine]_E!evars
  <2> SUFFICES ASSUME EngineTypes, PanesInv, E!EngineNext
               PROVE  Fine
    BY DEF EngineInv
  <2>1. ASSUME NEW rows \in E!Decks, E!Scan(rows)
        PROVE  Fine
    <3> SUFFICES ASSUME NEW k \in panes \ panes', k \in DOMAIN tracked'
                 PROVE  /\ tracked'[k].state = "done"
                        /\ Linger > 0 /\ now - tracked'[k].finished >= Linger
      OBVIOUS
    <3>1. E!Lingered(E!Entry(k, rows)) /\ k \in DOMAIN tracked
      BY <2>1, ScanKeeps DEF PanesInv
    <3>2. QED
      BY <2>1, <3>1, ScanKeeps DEF E!Lingered
  <2>2. ASSUME NEW k, E!OpenNext(k)
        PROVE  Fine
    BY <2>2, PaneOpens DEF E!OpenNext, PanesInv, E!Keep
  <2>3. ASSUME NEW k, E!OpenPane(k)
        PROVE  Fine
    <3>1. CASE k \in panes \/ E!KilledDone(k)
      BY <2>3, <3>1 DEF E!OpenPane
    <3>2. CASE ~(k \in panes \/ E!KilledDone(k))
      BY <2>3, <3>2, PaneOpens DEF E!OpenPane, PanesInv, E!Keep
    <3>3. QED
      BY <3>1, <3>2
  <2>4. ASSUME NEW k, E!ClosePane(k)
        PROVE  Fine
    BY <2>4 DEF E!ClosePane
  <2>5. CASE UNCHANGED panes
    BY <2>5
  <2>6. QED
    BY <2>1, <2>2, <2>3, <2>4, <2>5
       DEF E!EngineNext, E!ScanAny, E!Settle, E!Command, E!Pinned, E!SetMuted, E!PumpPanes, E!ClockTicks
<1>2. QED
  BY <1>1, EngineHolds, PTL DEF E!EngineSpec, E!PaneKept

\* A session that finished is followed until its time is up, whether the roster
\* has it or not (ForgottenWhenDue, part of PanesHold).
THEOREM NobodyForgottenEarly ==
  ASSUME E!EngineAssumption
  PROVE  E!EngineSpec => E!ForgottenWhenDue
<1> DEFINE Fine == \A k \in DOMAIN tracked \ DOMAIN tracked' :
       \/ tracked[k].killed
       \/ Linger > 0 /\ tracked[k].state = "done"
          /\ now - tracked[k].finished >= Linger
<1>1. EngineInv /\ [E!EngineNext]_E!evars => [Fine]_E!evars
  <2> SUFFICES ASSUME EngineTypes, PanesInv, E!EngineNext
               PROVE  Fine
    BY DEF EngineInv
  <2>1. ASSUME NEW rows \in E!Decks, E!Scan(rows)
        PROVE  Fine
    <3> SUFFICES ASSUME NEW k \in DOMAIN tracked \ DOMAIN tracked', ~tracked[k].killed
                 PROVE  Linger > 0 /\ tracked[k].state = "done"
                          /\ now - tracked[k].finished >= Linger
      OBVIOUS
    <3>1. E!Lingered(E!Entry(k, rows))
      BY <2>1, ScanKeeps, EntryIs
    <3>2. QED
      BY <3>1, LingersSince
  <2>2. ASSUME NEW k, E!OpenNext(k) \/ E!OpenPane(k)
        PROVE  DOMAIN tracked' = DOMAIN tracked
    BY <2>2 DEF E!OpenNext, E!OpenPane, E!TryOpen
  <2>3. CASE UNCHANGED tracked
    BY <2>3
  <2>4. QED
    BY <2>1, <2>2, <2>3 DEF E!EngineNext, E!ScanAny, E!Settle, E!Command, E!ClosePane, E!Pinned,
         E!SetMuted, E!PumpPanes, E!ClockTicks
<1>2. QED
  BY <1>1, EngineHolds, PTL DEF E!EngineSpec, E!ForgottenWhenDue

\* No alert is raised again before its interval is over, unless the session has
\* left the state in between (NoStorm, part of AlertsHold).
THEOREM AlertsAreSpaced ==
  ASSUME E!EngineAssumption
  PROVE  E!EngineSpec => E!NoStorm
<1> DEFINE Fine == alerts' # {} =>
       \A rows \in E!Decks :
         E!Scan(rows) =>
           /\ booted /\ ~muted
           /\ \A n \in alerts' \cap DOMAIN heard :
                heard[n].left \/ now - heard[n].at >= E!Interval(n)
<1>1. EngineInv /\ [E!EngineNext]_E!evars => [Fine]_E!evars
  <2> SUFFICES ASSUME EngineInv, NEW rows \in E!Decks, E!Scan(rows), alerts' # {}
               PROVE  /\ booted /\ ~muted
                      /\ \A n \in alerts' \cap DOMAIN heard :
                           heard[n].left \/ now - heard[n].at >= E!Interval(n)
    OBVIOUS
  <2>1. alerts' = E!Alerts(rows)
    BY DEF E!Scan
  <2>2. QED
    BY <2>1, AlertsAre, AlertIsDue DEF EngineInv
<1>2. QED
  BY <1>1, EngineHolds, PTL DEF E!EngineSpec, E!NoStorm

\* A session that needs attention was alerted, or found so at the start, within
\* the refire interval (AttentionIsTold, part of AlertsHold).
THEOREM AttentionAlwaysTold ==
  ASSUME E!EngineAssumption
  PROVE  E!EngineSpec => E!AttentionIsTold
<1> DEFINE Fine == \A rows \in E!Decks :
       E!Entered(rows) # {} /\ ids' = E!Present(rows) /\ ~muted /\ E!Scan(rows) =>
         \A n \in E!Entered(rows) :
           n[2] \in Enabled => /\ n \in DOMAIN fired' /\ now - fired'[n] < Refire
                               /\ booted \/ n \notin alerts'
<1>1. EngineInv /\ [E!EngineNext]_E!evars => [Fine]_E!evars
  <2> SUFFICES ASSUME EngineTypes, NEW rows \in E!Decks, ~muted, E!Scan(rows),
                      NEW n \in E!Entered(rows), n[2] \in Enabled
               PROVE  /\ n \in DOMAIN fired' /\ now - fired'[n] < Refire
                      /\ booted \/ n \notin alerts'
    BY DEF EngineInv
  <2>1. /\ alerts' = E!Alerts(rows) /\ fired' = E!Fired(rows)
        /\ now \in Nat /\ Refire \in Nat \ {0}
    BY DEF E!Scan, EngineTypes, E!EngineAssumption
  <2>2. now - now < Refire
    BY <2>1
  <2>3. CASE ~booted
    <3>1. n \in E!Seeded(rows) /\ E!Alerts(rows) = {}
      BY <2>3 DEF E!Seeded, E!Alerts
    <3>2. n \in DOMAIN fired' /\ fired'[n] = now
      BY <2>1, <3>1 DEF E!Fired
    <3>3. QED
      BY <2>1, <2>2, <3>1, <3>2
  <2>4. CASE booted /\ n \in E!Alerts(rows)
    <3>1. n \in DOMAIN fired' /\ fired'[n] = now
      BY <2>1, <2>4 DEF E!Fired
    <3>2. QED
      BY <2>2, <2>4, <3>1
  <2>5. CASE booted /\ n \notin E!Alerts(rows)
    <3>1. n \in E!Present(rows) \X E!Attentions /\ n \in E!Present(rows) \X Enabled
      BY DEF E!Entered
    <3>2. n[2] # "finished" /\ n[2] # "error"
      BY <3>1 DEF E!Attentions
    <3>3. ~E!Due(n, rows, Refire)
      BY <2>5, <3>1, <3>2 DEF E!Alerts
    <3>4. n \in DOMAIN fired \ E!Left(rows) /\ ~(now - fired[n] >= Refire)
      BY <3>3 DEF E!Due
    <3>5. n \in DOMAIN fired' /\ fired'[n] = fired[n]
      BY <2>1, <2>5, <3>4 DEF E!Fired, E!Seeded
    <3>6. fired[n] \in Nat
      BY <3>4 DEF EngineTypes
    <3>7. QED
      BY <2>1, <2>5, <3>4, <3>5, <3>6
  <2>6. QED
    BY <2>3, <2>4, <2>5
<1>2. QED
  BY <1>1, EngineHolds, PTL DEF E!EngineSpec, E!AttentionIsTold
-----------------------------------------------------------------------------
(* Recursion and induction over numbers, in sets: natural numbers below    *)
(* are well founded, and what is built place by place exists.              *)

Below == {p \in Nat \X Nat : p[1] < p[2]}
LEMMA BelowIsFounded == IsWellFoundedOn(Below, Nat)
<1>1. IsWellFoundedOn(OpToRel(<, Nat), Nat)
  BY NatLessThanWellFounded
<1>2. OpToRel(<, Nat) = Below
  BY DEF OpToRel, Below
<1>3. QED
  BY <1>1, <1>2

LEMMA Smallest ==
  ASSUME NEW T, T \subseteq Nat, T # {}
  PROVE  \E m \in T : \A n \in T : m <= n
<1>1. PICK m \in T : \A n \in T : <<n, m>> \notin Below
  BY BelowIsFounded, WFMin
<1>2. \A n \in T : m <= n
  <2> SUFFICES ASSUME NEW n \in T PROVE m <= n
    OBVIOUS
  <2>1. m \in Nat /\ n \in Nat /\ <<n, m>> \notin Below
    BY <1>1
  <2>2. ~ n < m
    BY <2>1 DEF Below
  <2>3. QED
    BY <2>1, <2>2
<1>3. QED
  BY <1>2

LEMMA AllNumbers ==
  ASSUME NEW T, T \subseteq Nat, 0 \in T, \A n \in T : n + 1 \in T
  PROVE  Nat \subseteq T
<1>1. SUFFICES ASSUME Nat \ T # {} PROVE FALSE
  OBVIOUS
<1>2. PICK m \in Nat \ T : \A n \in Nat \ T : m <= n
  BY <1>1, Smallest
<1>3. m # 0 /\ m - 1 \in Nat /\ m - 1 \in T
  BY <1>2
<1>4. QED
  BY <1>2, <1>3

\* A function defined from each place to the next exists: V has its values, and
\* g makes of a value and a place the value at that place.
Unrolls(f, first, n, g) == f[0] = first /\ \A i \in 1 .. n : f[i] = g[<<f[i - 1], i>>]
LEMMA Unfolds ==
  ASSUME NEW V, NEW v0 \in V, NEW N \in Nat, NEW g \in [V \X (1 .. N) -> V]
  PROVE  \E f \in [0 .. N -> V] : Unrolls(f, v0, N, g)
<1> DEFINE Fits(f, n) == f[0] = v0 /\ \A i \in 1 .. n : f[i] = g[<<f[i - 1], i>>]
           T == {n \in Nat : n <= N => \E f \in [0 .. n -> V] : Fits(f, n)}
<1>1. 0 \in T
  <2>1. [i \in 0 .. 0 |-> v0] \in [0 .. 0 -> V] /\ Fits([i \in 0 .. 0 |-> v0], 0)
    OBVIOUS
  <2>2. QED
    BY <2>1
<1>2. ASSUME NEW n \in T
      PROVE  n + 1 \in T
  <2> SUFFICES ASSUME n + 1 <= N
               PROVE  \E f \in [0 .. n + 1 -> V] : Fits(f, n + 1)
    OBVIOUS
  <2>1. PICK f \in [0 .. n -> V] : Fits(f, n)
    OBVIOUS
  <2> DEFINE h == [i \in 0 .. n + 1 |-> IF i = n + 1 THEN g[<<f[n], n + 1>>] ELSE f[i]]
  <2>2. f[n] \in V /\ n + 1 \in 1 .. N /\ n \in Nat
    OBVIOUS
  <2>3. g[<<f[n], n + 1>>] \in V
    BY <2>2
  <2>4. h \in [0 .. n + 1 -> V]
    BY <2>2, <2>3
  <2>5. \A i \in 0 .. n : h[i] = f[i]
    BY <2>2
  <2>6. h[n + 1] = g[<<f[n], n + 1>>]
    BY <2>2
  <2> HIDE DEF h
  <2>7. h[0] = v0
    BY <2>1, <2>2, <2>5
  <2>8. ASSUME NEW i \in 1 .. n + 1 PROVE h[i] = g[<<h[i - 1], i>>]
    <3>1. CASE i = n + 1
      BY <2>2, <2>5, <2>6, <3>1
    <3>2. CASE i # n + 1
      <4>1. i \in 1 .. n /\ i - 1 \in 0 .. n /\ i \in 0 .. n
        BY <2>2, <3>2
      <4>2. QED
        BY <2>1, <2>5, <4>1
    <3>3. QED
      BY <3>1, <3>2
  <2>9. QED
    BY <2>4, <2>7, <2>8
<1>3. N \in T
  <2> HIDE DEF T
  <2>1. T \subseteq Nat
    BY DEF T
  <2>2. QED
    BY <1>1, <1>2, <2>1, AllNumbers
<1>4. QED
  BY <1>3 DEF Unrolls
-----------------------------------------------------------------------------
(* Screen and engine (Watch).  After any turn of the UI the commands on    *)
(* their way lead from the panes the engine was told to tail to those the  *)
(* screen shows, whatever keys and events the turn took.                   *)

CONSTANTS GridSlots, Filters, MaxCmds, MaxEvents
VARIABLES app, cmds, events, unread, unsettled

U == INSTANCE Watch WITH Sessions <- Keys

LEMMA RangeOfAppend ==
  ASSUME NEW S, NEW v \in Seq(S), NEW k \in S
  PROVE  /\ Append(v, k) \in Seq(S)
         /\ U!Range(Append(v, k)) = U!Range(v) \cup {k}
<1> DEFINE w == Append(v, k)
<1>1. /\ w \in Seq(S) /\ Len(v) \in Nat
      /\ DOMAIN v = 1 .. Len(v) /\ DOMAIN w = 1 .. Len(v) + 1
      /\ \A i \in 1 .. Len(v) : w[i] = v[i]
      /\ w[Len(v) + 1] = k
  OBVIOUS
<1> HIDE DEF w
<1>2. 1 .. Len(v) + 1 = (1 .. Len(v)) \cup {Len(v) + 1}
  BY <1>1
<1>3. {w[i] : i \in DOMAIN w} = {v[i] : i \in DOMAIN v} \cup {k}
  <2> DEFINE N == Len(v)
  <2>1. DOMAIN v = 1 .. N /\ DOMAIN w = (1 .. N) \cup {N + 1} /\ w[N + 1] = k
        /\ \A i \in 1 .. N : w[i] = v[i]
    BY <1>1, <1>2
  <2> HIDE DEF N
  <2>2. QED
    BY <2>1, ZenonT(30)
<1>4. QED
  BY <1>1, <1>3 DEF w, U!Range

LEMMA AmongIs ==
  ASSUME NEW s \in Seq(Keys), NEW S
  PROVE  /\ U!Among(s, S) \in Seq(Keys)
         /\ U!Range(U!Among(s, S)) = U!Range(s) \cap S
<1> DEFINE N == Len(s)
           More(v, i) == IF s[i] \in S THEN Append(v, s[i]) ELSE v
           g == [p \in Seq(Keys) \X (1 .. N) |-> More(p[1], p[2])]
           unfolded(f) == f = [i \in 0 .. N |-> IF i = 0 THEN <<>> ELSE More(f[i - 1], i)]
           kept == CHOOSE f : unfolded(f)
<1>1. N \in Nat /\ \A i \in 1 .. N : s[i] \in Keys
  OBVIOUS
<1>2. g \in [Seq(Keys) \X (1 .. N) -> Seq(Keys)]
  <2>1. \A p \in Seq(Keys) \X (1 .. N) : More(p[1], p[2]) \in Seq(Keys)
    BY <1>1
  <2>2. QED
    BY <2>1
<1>3. U!Among(s, S) = kept[N]
  BY DEF U!Among
<1> HIDE DEF N
<1>4. PICK f \in [0 .. N -> Seq(Keys)] :
        f[0] = <<>> /\ \A i \in 1 .. N : f[i] = g[<<f[i - 1], i>>]
  <2> DEFINE V == Seq(Keys)
             v0 == <<>>
  <2>1. v0 \in V /\ N \in Nat /\ g \in [V \X (1 .. N) -> V]
    BY <1>1, <1>2
  <2> HIDE DEF g, v0, V, kept
  <2>2. \E f \in [0 .. N -> V] : Unrolls(f, v0, N, g)
    BY <2>1, Unfolds
  <2>3. QED
    BY <2>2 DEF V, v0, Unrolls
<1>5. \A i \in 1 .. N : f[i] = More(f[i - 1], i)
  <2> TAKE i \in 1 .. N
  <2>1. i - 1 \in 0 .. N
    BY <1>1
  <2>2. <<f[i - 1], i>> \in Seq(Keys) \X (1 .. N)
    BY <1>4, <2>1
  <2> HIDE DEF More
  <2>3. QED
    BY <1>4, <2>2
<1> HIDE DEF More
<1>6. unfolded(f)
  BY <1>1, <1>4, <1>5
<1>7. unfolded(kept)
  BY <1>6
<1> HIDE DEF kept
<1>8. kept[0] = <<>> /\ \A i \in 1 .. N : kept[i] = More(kept[i - 1], i)
  BY <1>1, <1>7
<1> HIDE DEF unfolded
<1> DEFINE Found(n) == {s[i] : i \in 1 .. n}
           T == {n \in Nat : n <= N =>
                   kept[n] \in Seq(Keys) /\ U!Range(kept[n]) = Found(n) \cap S}
<1>9. 0 \in T
  <2>1. Found(0) = {}
    OBVIOUS
  <2>2. <<>> \in Seq(Keys) /\ U!Range(<<>>) = {}
    BY DEF U!Range
  <2> HIDE DEF Found
  <2>3. QED
    BY <1>8, <2>1, <2>2
<1>10. ASSUME NEW n \in T
       PROVE  n + 1 \in T
  <2> SUFFICES ASSUME n + 1 <= N
               PROVE  /\ kept[n + 1] \in Seq(Keys)
                      /\ U!Range(kept[n + 1]) = Found(n + 1) \cap S
    OBVIOUS
  <2>1. n \in Nat /\ kept[n] \in Seq(Keys) /\ U!Range(kept[n]) = Found(n) \cap S
    BY <1>1
  <2>2. n + 1 \in 1 .. N /\ n + 1 - 1 = n
    BY <1>1, <2>1
  <2>3. kept[n + 1] = More(kept[n], n + 1) /\ s[n + 1] \in Keys
    BY <1>1, <1>8, <2>2
  <2>4. 1 .. n + 1 = (1 .. n) \cup {n + 1}
    BY <2>1
  <2>5. Found(n + 1) = Found(n) \cup {s[n + 1]}
    BY <2>4, ZenonT(30)
  <2> HIDE DEF Found
  <2>6. CASE s[n + 1] \in S
    <3>1. kept[n + 1] = Append(kept[n], s[n + 1])
      BY <2>3, <2>6 DEF More
    <3>2. /\ Append(kept[n], s[n + 1]) \in Seq(Keys)
          /\ U!Range(Append(kept[n], s[n + 1])) = U!Range(kept[n]) \cup {s[n + 1]}
      BY <2>1, <2>3, RangeOfAppend
    <3>3. QED
      BY <2>1, <2>5, <2>6, <3>1, <3>2
  <2>7. CASE s[n + 1] \notin S
    <3>1. kept[n + 1] = kept[n]
      BY <2>3, <2>7 DEF More
    <3>2. QED
      BY <2>1, <2>5, <2>7, <3>1
  <2>8. QED
    BY <2>6, <2>7
<1>11. N \in T
  <2> HIDE DEF T
  <2>1. T \subseteq Nat
    BY DEF T
  <2>2. QED
    BY <1>1, <1>9, <1>10, <2>1, AllNumbers
<1>12. U!Range(s) = Found(N)
  BY DEF U!Range, N
<1>13. kept[N] \in Seq(Keys) /\ U!Range(kept[N]) = Found(N) \cap S
  BY <1>1, <1>11
<1> HIDE DEF Found
<1>14. QED
  BY <1>3, <1>12, <1>13

\* What the screen, the commands and the events are made of.
Held == UNION {[S -> Nat] : S \in SUBSET Keys}
Apps == [roster : Seq(Keys), filter : SUBSET Keys, pins : SUBSET Keys,
         cursor : Keys \cup {None}, mode : {"list", "grid"}, page : Nat, flows : BOOLEAN,
         shut : SUBSET Keys, open : Seq(Keys), buffers : Held]
OrderSet == [type : {"open", "close"}, key : Keys] \cup [type : {"pinned"}, keys : SUBSET Keys]
Tidings ==
  [type : {"roster"}, rows : Seq(Keys)] \cup [type : {"resumed", "evicted", "lines"}, key : Keys]

LEMMA RangeOfConcat ==
  ASSUME NEW S, NEW v \in Seq(S), NEW w \in Seq(S)
  PROVE  v \o w \in Seq(S) /\ U!Range(v \o w) = U!Range(v) \cup U!Range(w)
<1> DEFINE u == v \o w
           M == Len(v)
           N == Len(w)
<1>1. /\ u \in Seq(S) /\ M \in Nat /\ N \in Nat
      /\ DOMAIN v = 1 .. M /\ DOMAIN w = 1 .. N /\ DOMAIN u = 1 .. M + N
      /\ \A i \in 1 .. M : u[i] = v[i]
      /\ \A i \in 1 .. N : u[M + i] = w[i]
  OBVIOUS
<1> HIDE DEF u, M, N
<1>2. \A i \in 1 .. M : i \in 1 .. M + N
  BY <1>1
<1>3. \A i \in 1 .. N : M + i \in 1 .. M + N
  BY <1>1
<1>4. \A i \in 1 .. M + N : i \in 1 .. M \/ (i - M \in 1 .. N /\ M + (i - M) = i)
  BY <1>1
<1>5. U!Range(v) \cup U!Range(w) \subseteq U!Range(u)
  BY <1>1, <1>2, <1>3 DEF U!Range
<1>6. U!Range(u) \subseteq U!Range(v) \cup U!Range(w)
  <2> SUFFICES ASSUME NEW i \in 1 .. M + N PROVE u[i] \in U!Range(v) \cup U!Range(w)
    BY <1>1 DEF U!Range
  <2>1. CASE i \in 1 .. M
    BY <1>1, <2>1 DEF U!Range
  <2>2. CASE i - M \in 1 .. N /\ M + (i - M) = i
    <3>1. u[i] = w[i - M]
      BY <1>1, <2>2
    <3>2. QED
      BY <1>1, <2>2, <3>1 DEF U!Range
  <2>3. QED
    BY <1>4, <2>1, <2>2
<1>7. QED
  BY <1>1, <1>5, <1>6 DEF u

Seen(a) == U!Range(a.roster) \cap a.filter

LEMMA VisibleIs ==
  ASSUME NEW a \in Apps
  PROVE  /\ U!Visible(a) \in Seq(Keys) /\ U!Range(U!Visible(a)) = Seen(a)
         /\ U!Visible(a) = <<>> <=> Seen(a) = {}
         /\ U!Selected(a) <=> a.cursor \in Seen(a)
<1> DEFINE rows == U!Among(a.roster, a.filter)
<1>1. a.roster \in Seq(Keys) /\ a.filter \subseteq Keys
  BY DEF Apps
<1>2. rows \in Seq(Keys) /\ U!Range(rows) = Seen(a)
  BY <1>1, AmongIs DEF Seen
<1> HIDE DEF rows
<1> DEFINE pinnedOnes == U!Among(rows, a.pins)
           others == U!Among(rows, Keys \ a.pins)
<1>3. pinnedOnes \in Seq(Keys) /\ U!Range(pinnedOnes) = Seen(a) \cap a.pins
  BY <1>2, AmongIs
<1>4. others \in Seq(Keys) /\ U!Range(others) = Seen(a) \cap (Keys \ a.pins)
  BY <1>2, AmongIs
<1>5. U!Visible(a) = pinnedOnes \o others
  BY DEF U!Visible, rows
<1> HIDE DEF pinnedOnes, others
<1>6. Seen(a) \subseteq Keys
  BY <1>1 DEF Seen
<1>7. U!Visible(a) \in Seq(Keys) /\ U!Range(U!Visible(a)) = Seen(a)
  <2>1. /\ pinnedOnes \o others \in Seq(Keys)
        /\ U!Range(pinnedOnes \o others) = U!Range(pinnedOnes) \cup U!Range(others)
    BY <1>3, <1>4, RangeOfConcat
  <2>2. QED
    BY <1>3, <1>4, <1>5, <1>6, <2>1
<1>8. U!Visible(a) = <<>> <=> Seen(a) = {}
  <2>1. \A s \in Seq(Keys) : s = <<>> <=> U!Range(s) = {}
    <3> TAKE s \in Seq(Keys)
    <3>1. Len(s) \in Nat /\ DOMAIN s = 1 .. Len(s) /\ (s = <<>> <=> Len(s) = 0)
      OBVIOUS
    <3>2. Len(s) # 0 => 1 \in DOMAIN s
      BY <3>1
    <3>3. Len(s) = 0 => DOMAIN s = {}
      BY <3>1
    <3>4. QED
      BY <3>1, <3>2, <3>3 DEF U!Range
  <2>2. QED
    BY <1>7, <2>1
<1>9. QED
  BY <1>7, <1>8 DEF U!Selected

\* What a view calls for follows from what it shows.
LEMMA SameViews ==
  ASSUME NEW a \in Apps, NEW b \in Apps,
         a.roster = b.roster, a.filter = b.filter, a.pins = b.pins, a.cursor = b.cursor,
         a.mode = b.mode, a.page = b.page, a.flows = b.flows, a.shut = b.shut
  PROVE  U!Wants(a) = U!Wants(b)
<1>1. U!Visible(a) = U!Visible(b)
  BY DEF U!Visible
<1>2. U!GridKeys(a) = U!GridKeys(b)
  BY <1>1 DEF U!GridKeys
<1>3. U!Selected(a) = U!Selected(b)
  BY <1>1 DEF U!Selected
<1>4. U!PageCount(a) = U!PageCount(b)
  BY <1>2 DEF U!PageCount
<1>5. U!Slots(a) = U!Slots(b)
  BY <1>2, <1>4 DEF U!Slots
<1>6. QED
  BY <1>3, <1>5 DEF U!Wants

LEMMA OfTwo ==
  ASSUME NEW m \in Nat, NEW n \in Nat
  PROVE  /\ U!Min({m, n}) = IF m <= n THEN m ELSE n
         /\ U!Max({m, n}) = IF m <= n THEN n ELSE m
<1>1. \E x \in {m, n} : \A y \in {m, n} : x <= y
  OBVIOUS
<1>2. \E x \in {m, n} : \A y \in {m, n} : x >= y
  OBVIOUS
<1>3. U!Min({m, n}) \in {m, n} /\ \A y \in {m, n} : U!Min({m, n}) <= y
  BY <1>1 DEF U!Min
<1>4. U!Max({m, n}) \in {m, n} /\ \A y \in {m, n} : U!Max({m, n}) >= y
  BY <1>2 DEF U!Max
<1>5. QED
  BY <1>3, <1>4

LEMMA AtIs ==
  ASSUME NEW a \in Apps
  PROVE  U!At(a) \in Nat \ {0}
<1>1. U!Visible(a) \in Seq(Keys)
  BY VisibleIs
<1> DEFINE rows == U!Visible(a)
<1>2. DOMAIN rows \subseteq Nat \ {0}
  BY <1>1
<1>3. U!Selected(a) => \E i \in DOMAIN rows : rows[i] = a.cursor
  BY DEF U!Selected, U!Range
<1>4. QED
  BY <1>2, <1>3 DEF U!At

\* All but the cursor.
LEMMA SelectAtIs ==
  ASSUME NEW a \in Apps, NEW i \in Nat \ {0}
  PROVE  \E c \in Keys \cup {None} :
           /\ U!SelectAt(a, i) = [a EXCEPT !.cursor = c]
           /\ Seen(a) # {} => c \in Seen(a)
<1> DEFINE rows == U!Visible(a)
           n == U!Min({i, Len(rows)})
           c == IF rows = <<>> THEN None ELSE rows[n]
<1>1. rows \in Seq(Keys) /\ U!Range(rows) = Seen(a) /\ (rows = <<>> <=> Seen(a) = {})
  BY VisibleIs
<1>2. U!SelectAt(a, i) = [a EXCEPT !.cursor = c]
  BY DEF U!SelectAt
<1> HIDE DEF rows
<1>3. rows # <<>> => n \in DOMAIN rows
  <2> DEFINE N == Len(rows)
  <2>1. N \in Nat /\ DOMAIN rows = 1 .. N /\ (rows # <<>> => N # 0)
    BY <1>1
  <2>2. n = IF i <= N THEN i ELSE N
    BY <2>1, OfTwo
  <2> HIDE DEF n, N
  <2>3. i \in Nat /\ i # 0
    OBVIOUS
  <2>4. N # 0 => n \in 1 .. N
    BY <2>1, <2>2, <2>3
  <2>5. QED
    BY <2>1, <2>4
<1>4. rows # <<>> => rows[n] \in Seen(a) /\ rows[n] \in Keys
  BY <1>1, <1>3 DEF U!Range
<1>5. c \in Keys \cup {None} /\ (Seen(a) # {} => c \in Seen(a))
  BY <1>1, <1>4
<1>6. QED
  BY <1>2, <1>5

LEMMA PagesAre ==
  ASSUME U!AppAssumption, NEW total \in Nat
  PROVE  U!PageSize(total) \in Nat \ {0}
<1>1. U!Max({total, 1}) \in Nat \ {0}
  BY OfTwo
<1>2. QED
  BY <1>1 DEF U!PageSize, U!AppAssumption

LEMMA GridIs ==
  ASSUME NEW a \in Apps
  PROVE  /\ U!GridKeys(a) \in Seq(Keys) /\ Len(U!GridKeys(a)) \in Nat
         /\ U!Range(U!GridKeys(a)) = Seen(a) \ a.shut
<1>1. U!Visible(a) \in Seq(Keys) /\ U!Range(U!Visible(a)) = Seen(a)
  BY VisibleIs
<1>2. Seen(a) \subseteq Keys
  BY DEF Seen, Apps
<1>3. QED
  BY <1>1, <1>2, AmongIs DEF U!GridKeys

LEMMA PageCountIs ==
  ASSUME U!AppAssumption, NEW a \in Apps
  PROVE  LET total == Len(U!GridKeys(a))
             size  == U!PageSize(total)
         IN  U!PageCount(a) \in Nat \ {0} /\ (U!PageCount(a) - 1) * size <= total
<1> DEFINE total == Len(U!GridKeys(a))
           size  == U!PageSize(total)
           q     == (total + size - 1) \div size
<1>1. total \in Nat /\ size \in Nat \ {0}
  BY GridIs, PagesAre
<1>2. U!PageCount(a) = U!Max({q, 1})
  BY DEF U!PageCount
<1> HIDE DEF total, size
<1>3. q \in Nat /\ q * size <= total + size - 1
  BY <1>1
<1> HIDE DEF q
<1>4. U!Max({q, 1}) = IF q <= 1 THEN 1 ELSE q
  BY <1>3, OfTwo
<1>5. (q - 1) * size = q * size - size
  BY <1>1, <1>3
<1>6. U!PageCount(a) \in Nat \ {0} /\ (U!PageCount(a) - 1) * size <= total
  <2>1. CASE q <= 1
    <3>1. U!PageCount(a) = 1
      BY <1>2, <1>3, <1>4, <2>1
    <3>2. QED
      BY <1>1, <3>1
  <2>2. CASE ~ q <= 1
    <3>1. U!PageCount(a) = q
      BY <1>2, <1>3, <1>4, <2>2
    <3>2. QED
      BY <1>1, <1>3, <1>5, <2>2, <3>1
  <2>3. QED
    BY <2>1, <2>2
<1>7. QED
  BY <1>6 DEF total, size

LEMMA WantsIs ==
  ASSUME U!AppAssumption, NEW a \in Apps
  PROVE  U!Wants(a) \in Seq(Keys)
<1>1. U!Slots(a) \in Seq(Keys)
  <2> DEFINE keys == U!GridKeys(a)
             total == Len(keys)
             size == U!PageSize(total)
             page == U!Min({a.page, U!PageCount(a) - 1})
             first == page * size
             last == U!Min({first + size, total})
  <2>1. /\ keys \in Seq(Keys) /\ total \in Nat /\ size \in Nat \ {0}
        /\ U!PageCount(a) \in Nat \ {0} /\ (U!PageCount(a) - 1) * size <= total
        /\ a.page \in Nat
    BY GridIs, PagesAre, PageCountIs DEF Apps
  <2>2. U!Slots(a) = SubSeq(keys, first + 1, last)
    BY DEF U!Slots
  <2>3. page \in Nat /\ page <= U!PageCount(a) - 1
    <3>1. U!PageCount(a) - 1 \in Nat
      BY <2>1
    <3>2. page = IF a.page <= U!PageCount(a) - 1 THEN a.page ELSE U!PageCount(a) - 1
      BY <2>1, <3>1, OfTwo
    <3>3. QED
      BY <2>1, <3>1, <3>2
  <2> HIDE DEF page, size
  <2>4. first \in Nat /\ first <= total
    <3>1. page * size <= (U!PageCount(a) - 1) * size
      BY <2>1, <2>3
    <3>2. page * size \in Nat
      BY <2>1, <2>3
    <3> DEFINE most == (U!PageCount(a) - 1) * size
    <3>3. most \in Int /\ first <= most /\ most <= total
      BY <2>1, <3>1
    <3>4. QED
      BY <2>1, <3>2, <3>3
  <2> HIDE DEF first
  <2>5. last \in Nat /\ first <= last /\ last <= total
    <3>1. first + size \in Nat
      BY <2>1, <2>4
    <3>2. last = IF first + size <= total THEN first + size ELSE total
      BY <2>1, <3>1, OfTwo
    <3>3. QED
      BY <2>1, <2>4, <3>1, <3>2
  <2> HIDE DEF last, total
  <2>6. SubSeq(keys, first + 1, last) = [i \in 1 .. last - first |-> keys[i + first]]
    BY <2>1, <2>4, <2>5
  <2>7. \A i \in 1 .. last - first : keys[i + first] \in Keys
    BY <2>1, <2>4, <2>5 DEF total
  <2> DEFINE M == last - first
             slots == [i \in 1 .. M |-> keys[i + first]]
  <2>8. M \in Nat /\ slots \in [1 .. M -> Keys]
    BY <2>4, <2>5, <2>7
  <2>9. U!Slots(a) = slots
    BY <2>2, <2>6
  <2> HIDE DEF M, slots
  <2>10. QED
    BY <2>8, <2>9
<1>2. U!Selected(a) => a.cursor \in Keys
  BY VisibleIs DEF Apps, Seen
<1>3. QED
  BY <1>1, <1>2 DEF U!Wants

CursorOk(a) == a.flows \/ Seen(a) = {} \/ a.cursor \in Seen(a)

LEMMA RestrictedIs ==
  ASSUME NEW h \in Held, NEW S
  PROVE  /\ U!Restrict(h, S \cap DOMAIN h) \in Held
         /\ DOMAIN U!Restrict(h, S \cap DOMAIN h) \subseteq S
<1> DEFINE D == S \cap DOMAIN h
<1>1. PICK F \in SUBSET Keys : h \in [F -> Nat]
  BY DEF Held
<1>2. D \subseteq F /\ D \subseteq S /\ D \in SUBSET Keys
  BY <1>1
<1>3. U!Restrict(h, D) \in [D -> Nat]
  BY <1>1, <1>2 DEF U!Restrict
<1> HIDE DEF D
<1>4. U!Restrict(h, D) \in Held
  BY <1>2, <1>3 DEF Held
<1>5. QED
  BY <1>2, <1>3, <1>4 DEF D

LEMMA SyncIs ==
  ASSUME U!AppAssumption, NEW a \in Apps
  PROVE  /\ U!Sync(a) \in Apps
         /\ U!Sync(a).open = U!Wants(U!Sync(a))
         /\ DOMAIN U!Sync(a).buffers \subseteq U!Range(U!Sync(a).open)
         /\ CursorOk(a) => CursorOk(U!Sync(a))
<1> DEFINE b == U!Sync(a)
           keys == U!Range(a.open) \cap U!Range(U!Wants(a))
           kept == U!Buffers(a, keys)
<1>1. b = [a EXCEPT !.open = U!Wants(a), !.buffers = kept]
  BY DEF U!Sync
<1>2. U!Wants(a) \in Seq(Keys)
  BY WantsIs
<1>3. kept \in Held /\ DOMAIN kept \subseteq keys
  BY RestrictedIs DEF U!Buffers, Apps
<1> HIDE DEF b, kept
<1>4. b \in Apps
  BY <1>1, <1>2, <1>3 DEF Apps
<1>5. /\ a.roster = b.roster /\ a.filter = b.filter /\ a.pins = b.pins /\ a.cursor = b.cursor
      /\ a.mode = b.mode /\ a.page = b.page /\ a.flows = b.flows /\ a.shut = b.shut
  BY <1>1 DEF Apps
<1>6. b.open = U!Wants(a) /\ b.buffers = kept
  BY <1>1 DEF Apps
<1>7. b.open = U!Wants(b)
  BY <1>4, <1>5, <1>6, SameViews
<1>8. DOMAIN b.buffers \subseteq U!Range(b.open)
  BY <1>3, <1>6
<1>9. CursorOk(a) => CursorOk(b)
  BY <1>5 DEF CursorOk, Seen
<1>10. QED
  BY <1>4, <1>7, <1>8, <1>9 DEF b

LEMMA Moved ==
  ASSUME NEW a \in Apps, NEW i \in Nat \ {0}
  PROVE  U!SelectAt(a, i) \in Apps /\ CursorOk(U!SelectAt(a, i))
<1> DEFINE b == U!SelectAt(a, i)
<1>1. PICK c \in Keys \cup {None} : b = [a EXCEPT !.cursor = c] /\ (Seen(a) # {} => c \in Seen(a))
  BY SelectAtIs
<1> HIDE DEF b
<1>2. b \in Apps
  BY <1>1 DEF Apps
<1>3. b.roster = a.roster /\ b.filter = a.filter /\ b.cursor = c
  BY <1>1 DEF Apps
<1>4. CursorOk(b)
  BY <1>1, <1>3 DEF CursorOk, Seen
<1>5. QED
  BY <1>2, <1>4 DEF b

LEMMA Resynced ==
  ASSUME NEW a \in Apps
  PROVE  U!Resync(a) \in Apps /\ CursorOk(U!Resync(a))
<1>1. CASE U!Selected(a)
  BY <1>1, VisibleIs DEF U!Resync, CursorOk
<1>2. CASE ~U!Selected(a)
  BY <1>2, AtIs, Moved DEF U!Resync
<1>3. QED
  BY <1>1, <1>2

LEMMA PageFollows ==
  ASSUME U!AppAssumption, NEW a \in Apps
  PROVE  U!Follow(a) \in Apps /\ (CursorOk(a) => CursorOk(U!Follow(a)))
<1> DEFINE keys == U!GridKeys(a)
           size == U!PageSize(Len(keys))
           i == CHOOSE i \in DOMAIN keys : keys[i] = a.cursor
<1>1. keys \in Seq(Keys) /\ Len(keys) \in Nat /\ size \in Nat \ {0}
  BY GridIs, PagesAre
<1>2. CASE a.mode = "grid" /\ U!Selected(a) /\ a.cursor \in U!Range(keys)
  <2>1. i \in DOMAIN keys
    BY <1>2 DEF U!Range
  <2>2. i \in Nat \ {0}
    <3>1. DOMAIN keys \subseteq Nat \ {0}
      BY <1>1
    <3> HIDE DEF i, keys
    <3>2. QED
      BY <2>1, <3>1
  <2>3. U!Follow(a) = [a EXCEPT !.page = (i - 1) \div size]
    BY <1>2 DEF U!Follow
  <2> HIDE DEF i, size
  <2>4. (i - 1) \div size \in Nat
    BY <1>1, <2>2
  <2> DEFINE page == (i - 1) \div size
             b == U!Follow(a)
  <2> HIDE DEF page, b
  <2>5. page \in Nat /\ b = [a EXCEPT !.page = page]
    BY <2>3, <2>4 DEF page, b
  <2>6. b \in Apps
    BY <2>5 DEF Apps
  <2>7. b.roster = a.roster /\ b.filter = a.filter /\ b.cursor = a.cursor /\ b.flows = a.flows
    BY <2>5 DEF Apps
  <2>8. CursorOk(a) => CursorOk(b)
    BY <2>7 DEF CursorOk, Seen
  <2>9. QED
    BY <2>6, <2>8 DEF b
<1>3. CASE ~(a.mode = "grid" /\ U!Selected(a) /\ a.cursor \in U!Range(keys))
  BY <1>3 DEF U!Follow
<1>4. QED
  BY <1>2, <1>3

LEMMA UpOrDown ==
  ASSUME U!AppAssumption, NEW a \in Apps, NEW b \in {U!Down(a), U!Up(a)}
  PROVE  b \in Apps /\ CursorOk(b)
<1>1. U!At(a) \in Nat \ {0}
  BY AtIs
<1>2. U!At(a) + 1 \in Nat \ {0} /\ U!Max({U!At(a) - 1, 1}) \in Nat \ {0}
  <2> DEFINE i == U!At(a)
  <2>1. i + 1 \in Nat \ {0} /\ i - 1 \in Nat
    BY <1>1
  <2> HIDE DEF i
  <2>2. U!Max({i - 1, 1}) = IF i - 1 <= 1 THEN 1 ELSE i - 1
    BY <2>1, OfTwo
  <2>3. U!Max({i - 1, 1}) \in Nat \ {0}
    BY <2>1, <2>2
  <2>4. QED
    BY <2>1, <2>3 DEF i
<1>3. PICK i \in Nat \ {0} : b = U!Follow(U!SelectAt(a, i))
  BY <1>2 DEF U!Down, U!Up
<1>4. QED
  BY <1>3, Moved, PageFollows

\* A key keeps the cursor where it can be seen, but for leaving the pipelines.
LEMMA KeysAre ==
  ASSUME U!AppAssumption, U!WatchAssumption, NEW a \in Apps, NEW b \in U!Pressed(a, Filters)
  PROVE  b \in Apps /\ (CursorOk(a) => CursorOk(b) \/ (b = U!LeaveFlows(a) /\ a.flows))
<1>1. CASE b = U!ToggleMode(a)
  <2>1. b = [a EXCEPT !.mode = IF a.mode = "list" THEN "grid" ELSE "list"]
    BY <1>1 DEF U!ToggleMode
  <2>2. b \in Apps
    BY <2>1 DEF Apps
  <2>3. b.roster = a.roster /\ b.filter = a.filter /\ b.cursor = a.cursor /\ b.flows = a.flows
    BY <2>1 DEF Apps
  <2>4. QED
    BY <2>2, <2>3 DEF CursorOk, Seen
<1>2. CASE b = U!ToggleFlows(a)
  <2> DEFINE c == [a EXCEPT !.flows = ~a.flows]
  <2>1. c \in Apps
    BY DEF Apps
  <2>2. b = IF c.flows THEN c ELSE U!Resync(c)
    BY <1>2 DEF U!ToggleFlows
  <2> HIDE DEF c
  <2>3. QED
    BY <2>1, <2>2, Resynced DEF CursorOk
<1>3. ASSUME NEW roster \in {a.roster, U!Reverse(a.roster)}, NEW filter \in Filters,
             b = U!Arrange(a, roster, filter)
      PROVE  b \in Apps /\ CursorOk(b)
  <2>1. a.roster \in Seq(Keys)
    BY DEF Apps
  <2>2. U!Reverse(a.roster) \in Seq(Keys)
    <3> DEFINE s == a.roster
               N == Len(s)
               t == [i \in 1 .. N |-> s[(N - i) + 1]]
    <3>1. N \in Nat /\ \A i \in 1 .. N : s[i] \in Keys
      BY <2>1
    <3>2. U!Reverse(s) = t
      BY DEF U!Reverse
    <3> HIDE DEF N
    <3>3. \A i \in 1 .. N : (N - i) + 1 \in 1 .. N
      BY <3>1
    <3>4. t \in [1 .. N -> Keys]
      BY <3>1, <3>3
    <3> HIDE DEF t
    <3>5. QED
      BY <3>1, <3>2, <3>4
  <2>3. roster \in Seq(Keys) /\ filter \in SUBSET Keys
    BY <2>1, <2>2 DEF U!WatchAssumption
  <2> DEFINE c == [a EXCEPT !.roster = roster, !.filter = filter]
  <2>4. c \in Apps
    BY <2>3 DEF Apps
  <2>5. b = U!Resync(c)
    BY <1>3 DEF U!Arrange
  <2> HIDE DEF c
  <2>6. QED
    BY <2>4, <2>5, Resynced
<1>4. CASE b = U!LeaveFlows(a) /\ a.flows
  BY <1>4 DEF U!LeaveFlows, Apps
<1>5. ASSUME a.flows, NEW k \in Keys, b = U!OpenStep(a, k)
      PROVE  b \in Apps /\ (CursorOk(a) => CursorOk(b))
  <2>1. CASE k \in U!Range(a.roster)
    <3>1. b = [a EXCEPT !.filter = Keys, !.cursor = k, !.mode = "list", !.shut = @ \ {k}]
      BY <1>5, <2>1 DEF U!OpenStep
    <3>2. b \in Apps
      BY <3>1 DEF Apps
    <3>3. b.roster = a.roster /\ b.filter = Keys /\ b.cursor = k
      BY <3>1 DEF Apps
    <3>4. QED
      BY <2>1, <3>2, <3>3 DEF CursorOk, Seen
  <2>2. CASE k \notin U!Range(a.roster)
    <3>1. b = [a EXCEPT !.cursor = None]
      BY <1>5, <2>2 DEF U!OpenStep
    <3>2. b \in Apps
      BY <3>1 DEF Apps
    <3>3. b.roster = a.roster /\ b.filter = a.filter /\ b.cursor = None /\ b.flows = a.flows
      BY <3>1 DEF Apps
    <3>4. QED
      BY <1>5, <3>2, <3>3 DEF CursorOk
  <2>3. QED
    BY <2>1, <2>2
<1>6. CASE b \in U!GridKey(a)
  <2>1. CASE b = U!NextPage(a)
    <3> DEFINE keys == U!GridKeys(a)
               count == U!PageCount(a)
               page == (U!Min({a.page, count - 1}) + 1) % count
               first == page * U!PageSize(Len(keys)) + 1
               cursor == IF first \in DOMAIN keys THEN keys[first] ELSE a.cursor
    <3>1. b = [a EXCEPT !.page = page, !.cursor = cursor]
      BY <2>1 DEF U!NextPage
    <3>2. page \in Nat
      <4>1. count \in Nat \ {0} /\ a.page \in Nat
        BY PageCountIs DEF Apps
      <4> HIDE DEF count
      <4>2. count - 1 \in Nat
        BY <4>1
      <4>3. U!Min({a.page, count - 1}) \in Nat
        BY <4>1, <4>2, OfTwo
      <4>4. QED
        BY <4>1, <4>3
    <3> HIDE DEF page, first
    <3>3. keys \in Seq(Keys) /\ U!Range(keys) \subseteq Seen(a)
      BY GridIs
    <3>4. cursor = a.cursor \/ (cursor \in Seen(a) /\ cursor \in Keys)
      BY <3>3 DEF U!Range
    <3>5. a.cursor \in Keys \cup {None}
      BY DEF Apps
    <3> HIDE DEF keys, cursor
    <3>6. b \in Apps
      BY <3>1, <3>2, <3>4, <3>5 DEF Apps
    <3>7. /\ b.roster = a.roster /\ b.filter = a.filter /\ b.cursor = cursor
          /\ b.flows = a.flows
      BY <3>1 DEF Apps
    <3>8. QED
      BY <3>4, <3>6, <3>7 DEF CursorOk, Seen
  <2>2. CASE b \in {U!Dismiss(a), U!Restore(a)}
    <3>1. CASE U!Selected(a)
      <4>1. a.cursor \in Keys
        BY <3>1, VisibleIs DEF Seen, Apps
      <4>2. PICK shut \in SUBSET Keys : b = [a EXCEPT !.shut = shut]
        <5>1. a.shut \cup {a.cursor} \in SUBSET Keys /\ a.shut \ {a.cursor} \in SUBSET Keys
          BY <4>1 DEF Apps
        <5>2. QED
          BY <2>2, <3>1, <5>1 DEF U!Dismiss, U!Restore
      <4>3. b \in Apps
        BY <4>2 DEF Apps
      <4>4. /\ b.roster = a.roster /\ b.filter = a.filter /\ b.cursor = a.cursor
            /\ b.flows = a.flows
        BY <4>2 DEF Apps
      <4>5. QED
        BY <4>3, <4>4 DEF CursorOk, Seen
    <3>2. CASE ~U!Selected(a)
      BY <2>2, <3>2 DEF U!Dismiss, U!Restore
    <3>3. QED
      BY <3>1, <3>2
  <2>3. QED
    BY <1>6, <2>1, <2>2 DEF U!GridKey
<1>7. CASE b \in {U!Down(a), U!Up(a)}
  BY <1>7, UpOrDown
<1>8. QED
  <2>1. \/ b = U!ToggleMode(a) \/ b = U!ToggleFlows(a)
        \/ \E roster \in {a.roster, U!Reverse(a.roster)} : \E filter \in Filters :
              b = U!Arrange(a, roster, filter)
        \/ b = U!LeaveFlows(a) /\ a.flows
        \/ a.flows /\ \E k \in Keys : b = U!OpenStep(a, k)
        \/ b \in {U!Down(a), U!Up(a)} \/ b \in U!GridKey(a)
    BY DEF U!Pressed
  <2>2. QED
    BY <1>1, <1>2, <1>3, <1>4, <1>5, <1>6, <1>7, <2>1
-----------------------------------------------------------------------------
(* The commands on their way.                                              *)

TurnSet == [app : Apps, cmds : Seq(OrderSet)]

LEMMA AfterConcat ==
  ASSUME NEW K, NEW s \in Seq(OrderSet), NEW t \in Seq(OrderSet)
  PROVE  U!After(K, s \o t) = U!After(U!After(K, s), t)
<1> DEFINE u == s \o t
           M == Len(s)
           N == Len(t)
<1>1. /\ M \in Nat /\ N \in Nat
      /\ DOMAIN s = 1 .. M /\ DOMAIN t = 1 .. N /\ DOMAIN u = 1 .. M + N
      /\ \A i \in 1 .. M : u[i] = s[i]
      /\ \A i \in 1 .. N : u[M + i] = t[i]
  OBVIOUS
<1> HIDE DEF u, M, N
<1>2. ASSUME NEW type, NEW k
      PROVE  /\ \A i \in U!Orders(s, type, k) : i \in U!Orders(u, type, k) /\ i \in 1 .. M
             /\ \A i \in U!Orders(t, type, k) : M + i \in U!Orders(u, type, k) /\ i \in 1 .. N
             /\ \A i \in U!Orders(u, type, k) :
                  \/ i \in U!Orders(s, type, k) /\ i \in 1 .. M
                  \/ i - M \in U!Orders(t, type, k) /\ i - M \in 1 .. N /\ i \in Nat
  <2>1. \A i \in 1 .. M : i \in 1 .. M + N
    BY <1>1
  <2>2. \A i \in 1 .. N : M + i \in 1 .. M + N
    BY <1>1
  <2>3. \A i \in 1 .. M + N : i \in 1 .. M \/ (i - M \in 1 .. N /\ M + (i - M) = i /\ i \in Nat)
    BY <1>1
  <2>4. \A i \in U!Orders(s, type, k) : i \in U!Orders(u, type, k) /\ i \in 1 .. M
    BY <1>1, <2>1 DEF U!Orders
  <2>5. \A i \in U!Orders(t, type, k) : M + i \in U!Orders(u, type, k) /\ i \in 1 .. N
    BY <1>1, <2>2 DEF U!Orders
  <2>6. ASSUME NEW i \in U!Orders(u, type, k)
        PROVE  \/ i \in U!Orders(s, type, k) /\ i \in 1 .. M
               \/ i - M \in U!Orders(t, type, k) /\ i - M \in 1 .. N /\ i \in Nat
    <3>1. i \in 1 .. M + N /\ u[i] = [type |-> type, key |-> k]
      BY <1>1 DEF U!Orders
    <3>2. CASE i \in 1 .. M
      BY <1>1, <3>1, <3>2 DEF U!Orders
    <3>3. CASE i - M \in 1 .. N /\ M + (i - M) = i /\ i \in Nat
      <4>1. t[i - M] = u[i]
        BY <1>1, <3>3
      <4>2. QED
        BY <1>1, <3>1, <3>3, <4>1 DEF U!Orders
    <3>4. QED
      BY <2>3, <3>1, <3>2, <3>3
  <2>7. QED
    BY <2>4, <2>5, <2>6
<1>3. ASSUME NEW k \in Keys
      PROVE  k \in U!After(K, u) <=> k \in U!After(U!After(K, s), t)
  <2> DEFINE opens(q) == U!Orders(q, "open", k)
             closes(q) == U!Orders(q, "close", k)
             in(q) == \E i \in opens(q) : \A j \in closes(q) : j < i
  <2>1. closes(u) = {} <=> closes(s) = {} /\ closes(t) = {}
    BY <1>2
  <2>2. k \in U!After(K, u) <=> (k \in K /\ closes(u) = {}) \/ in(u)
    BY DEF U!After
  <2>3. k \in U!After(K, s) <=> (k \in K /\ closes(s) = {}) \/ in(s)
    BY DEF U!After
  <2>4. k \in U!After(U!After(K, s), t) <=>
          (k \in U!After(K, s) /\ closes(t) = {}) \/ in(t)
    BY DEF U!After
  <2>5. ASSUME in(t) PROVE in(u)
    <3>1. PICK i \in opens(t) : \A j \in closes(t) : j < i
      BY <2>5
    <3>2. M + i \in opens(u) /\ i \in 1 .. N
      BY <1>2
    <3>3. ASSUME NEW j \in closes(u) PROVE j < M + i
      <4>1. CASE j \in 1 .. M
        BY <1>1, <3>2, <4>1
      <4>2. CASE j - M \in closes(t) /\ j - M \in 1 .. N /\ j \in Nat
        <5>1. j - M < i
          BY <3>1, <4>2
        <5>2. QED
          BY <1>1, <3>2, <4>2, <5>1
      <4>3. QED
        BY <1>2, <4>1, <4>2
    <3>4. QED
      BY <3>2, <3>3
  <2>6. ASSUME in(s), closes(t) = {} PROVE in(u)
    <3>1. PICK i \in opens(s) : \A j \in closes(s) : j < i
      BY <2>6
    <3>2. i \in opens(u)
      BY <1>2
    <3>3. \A j \in closes(u) : j \in closes(s)
      BY <1>2, <2>6
    <3>4. QED
      BY <3>1, <3>2, <3>3
  <2>7. ASSUME in(u) PROVE in(t) \/ (in(s) /\ closes(t) = {})
    <3>1. PICK i \in opens(u) : \A j \in closes(u) : j < i
      BY <2>7
    <3>2. CASE i \in opens(s) /\ i \in 1 .. M
      <4>1. \A j \in closes(t) : M + j \in closes(u) /\ j \in 1 .. N /\ M + j < i
        BY <1>2, <3>1
      <4>2. closes(t) = {}
        <5> SUFFICES ASSUME NEW j \in closes(t) PROVE FALSE
          OBVIOUS
        <5>1. j \in 1 .. N /\ M + j < i
          BY <4>1
        <5> HIDE DEF closes
        <5>2. QED
          BY <1>1, <3>2, <5>1
      <4>3. \A j \in closes(s) : j < i
        BY <1>2, <3>1
      <4>4. QED
        BY <3>2, <4>2, <4>3
    <3>3. CASE i - M \in opens(t) /\ i - M \in 1 .. N /\ i \in Nat
      <4>1. ASSUME NEW j \in closes(t) PROVE j < i - M
        <5>1. M + j \in closes(u) /\ j \in 1 .. N
          BY <1>2
        <5>2. M + j < i
          BY <3>1, <5>1
        <5>3. QED
          BY <1>1, <3>3, <5>1, <5>2
      <4>2. QED
        BY <3>3, <4>1
    <3>4. QED
      BY <1>2, <3>2, <3>3
  <2> HIDE DEF opens, closes, in
  <2>8. QED
    BY <2>1, <2>2, <2>3, <2>4, <2>5, <2>6, <2>7
<1>4. U!After(K, u) \subseteq Keys /\ U!After(U!After(K, s), t) \subseteq Keys
  BY DEF U!After
<1>5. QED
  BY <1>3, <1>4 DEF u

LEMMA Ordered ==
  ASSUME NEW L \in Seq(Keys), NEW type \in {"open", "close"}
  PROVE  LET sent == [i \in DOMAIN L |-> [type |-> type, key |-> L[i]]] IN
         /\ sent \in Seq(OrderSet)
         /\ \A k \in Keys : U!Orders(sent, type, k) = {} <=> k \notin U!Range(L)
         /\ \A k, other : other # type => U!Orders(sent, other, k) = {}
<1> DEFINE N == Len(L)
           sent == [i \in 1 .. N |-> [type |-> type, key |-> L[i]]]
<1>1. N \in Nat /\ DOMAIN L = 1 .. N /\ \A i \in 1 .. N : L[i] \in Keys
  OBVIOUS
<1> HIDE DEF N
<1>2. \A i \in 1 .. N : [type |-> type, key |-> L[i]] \in OrderSet
  BY <1>1 DEF OrderSet
<1>3. sent \in [1 .. N -> OrderSet]
  BY <1>2
<1>4. \A i \in 1 .. N : sent[i] = [type |-> type, key |-> L[i]]
  OBVIOUS
<1>5. DOMAIN sent = 1 .. N
  OBVIOUS
<1> HIDE DEF sent
<1>6. sent \in Seq(OrderSet)
  BY <1>1, <1>3
<1>7. ASSUME NEW k \in Keys PROVE U!Orders(sent, type, k) = {} <=> k \notin U!Range(L)
  <2>1. \A i \in 1 .. N : sent[i] = [type |-> type, key |-> k] <=> L[i] = k
    <3> TAKE i \in 1 .. N
    <3> DEFINE p == [type |-> type, key |-> L[i]]
               q == [type |-> type, key |-> k]
    <3>0. p.key = L[i] /\ q.key = k
      OBVIOUS
    <3>1. sent[i] = p
      BY <1>4
    <3>2. L[i] = k => sent[i] = [type |-> type, key |-> k]
      BY <1>4
    <3>3. sent[i] = q => L[i] = k
      <4> HIDE DEF p, q
      <4>1. QED
        BY <3>0, <3>1
    <3>4. QED
      BY <3>2, <3>3
  <2>2. QED
    BY <1>1, <1>5, <2>1 DEF U!Orders, U!Range
<1>8. ASSUME NEW k, NEW other, other # type PROVE U!Orders(sent, other, k) = {}
  BY <1>4, <1>5, <1>8 DEF U!Orders
<1>9. sent = [i \in DOMAIN L |-> [type |-> type, key |-> L[i]]]
  BY <1>1 DEF sent
<1>10. QED
  BY <1>6, <1>7, <1>8, <1>9

\* The commands of a step lead from the panes before it to those after.
LEMMA CommandsAre ==
  ASSUME NEW a \in Apps, NEW b \in Apps
  PROVE  /\ U!Commands(a, b) \in Seq(OrderSet)
         /\ U!After(U!Range(a.open), U!Commands(a, b)) = U!Range(b.open)
<1> DEFINE lost == U!Loses(a, b)
           won == U!Gains(a, b)
           ended == [i \in DOMAIN lost |-> [type |-> "close", key |-> lost[i]]]
           begun == [i \in DOMAIN won |-> [type |-> "open", key |-> won[i]]]
           X == U!Range(a.open)
           Y == U!Range(b.open)
<1>1. a.open \in Seq(Keys) /\ b.open \in Seq(Keys) /\ X \subseteq Keys /\ Y \subseteq Keys
  <2>1. a.open \in Seq(Keys) /\ b.open \in Seq(Keys)
    BY DEF Apps
  <2>2. \A s \in Seq(Keys) : U!Range(s) \subseteq Keys
    BY DEF U!Range
  <2>3. QED
    BY <2>1, <2>2
<1>2. lost \in Seq(Keys) /\ U!Range(lost) = X \ Y
  BY <1>1, AmongIs DEF U!Loses
<1>3. won \in Seq(Keys) /\ U!Range(won) = Y \ X
  BY <1>1, AmongIs DEF U!Gains
<1>4. U!Commands(a, b) = ended \o begun
  BY DEF U!Commands
<1> HIDE DEF lost, won, X, Y
<1>5. /\ ended \in Seq(OrderSet)
      /\ \A k \in Keys : U!Orders(ended, "close", k) = {} <=> k \notin X \ Y
      /\ \A k \in Keys : U!Orders(ended, "open", k) = {}
  BY <1>2, Ordered
<1>6. /\ begun \in Seq(OrderSet)
      /\ \A k \in Keys : U!Orders(begun, "open", k) = {} <=> k \notin Y \ X
      /\ \A k \in Keys : U!Orders(begun, "close", k) = {}
  BY <1>3, Ordered
<1> HIDE DEF ended, begun
<1>7. U!After(X, ended) = X \cap Y
  BY <1>1, <1>5 DEF U!After
<1>8. U!After(X \cap Y, begun) = Y
  BY <1>1, <1>6 DEF U!After
<1>9. U!After(X, ended \o begun) = Y /\ ended \o begun \in Seq(OrderSet)
  <2>1. U!After(X, ended \o begun) = U!After(U!After(X, ended), begun)
    BY <1>5, <1>6, AfterConcat
  <2>2. \A s, t \in Seq(OrderSet) : s \o t \in Seq(OrderSet)
    OBVIOUS
  <2>3. QED
    BY <1>5, <1>6, <1>7, <1>8, <2>1, <2>2
<1>10. QED
  BY <1>4, <1>9 DEF X, Y

Agrees(a) == a.open = U!Wants(a) /\ CursorOk(a)
Cleared(a) == DOMAIN a.buffers \subseteq U!Range(a.open)

LEMMA StepIs ==
  ASSUME NEW round \in TurnSet, NEW b \in Apps, NEW more \in Seq(OrderSet), NEW X,
         U!After(X, round.cmds) = U!Range(round.app.open),
         U!After(U!Range(round.app.open), more) = U!Range(round.app.open)
  PROVE  /\ U!Step(round, b, more) \in TurnSet /\ U!Step(round, b, more).app = b
         /\ U!After(X, U!Step(round, b, more).cmds) = U!Range(b.open)
<1> DEFINE sent == round.cmds
           a == round.app
           orders == U!Commands(a, b)
           all == sent \o more \o orders
<1>1. a \in Apps /\ sent \in Seq(OrderSet)
  BY DEF TurnSet
<1>2. orders \in Seq(OrderSet) /\ U!After(U!Range(a.open), orders) = U!Range(b.open)
  BY <1>1, CommandsAre
<1>3. U!Step(round, b, more) = [app |-> b, cmds |-> all]
  BY DEF U!Step
<1> HIDE DEF sent, a, orders
<1>4. sent \o more \in Seq(OrderSet) /\ all \in Seq(OrderSet)
  BY <1>1, <1>2
<1>5. U!After(X, sent \o more) = U!Range(a.open)
  BY <1>1, AfterConcat DEF sent, a
<1>6. U!After(X, all) = U!Range(b.open)
  <2> DEFINE first == sent \o more
  <2>1. all = first \o orders /\ first \in Seq(OrderSet) /\ U!After(X, first) = U!Range(a.open)
    BY <1>4, <1>5
  <2> HIDE DEF all, first
  <2>2. U!After(X, first \o orders) = U!After(U!After(X, first), orders)
    BY <1>2, <2>1, AfterConcat
  <2>3. QED
    BY <1>2, <2>1, <2>2
<1> HIDE DEF all
<1>7. QED
  BY <1>3, <1>4, <1>6 DEF TurnSet

LEMMA NothingSent ==
  ASSUME NEW X \in SUBSET Keys
  PROVE  <<>> \in Seq(OrderSet) /\ U!After(X, <<>>) = X
<1>1. DOMAIN <<>> = {}
  OBVIOUS
<1>2. \A type, k : U!Orders(<<>>, type, k) = {}
  BY <1>1 DEF U!Orders
<1>3. QED
  BY <1>2 DEF U!After

LEMMA PinsAre ==
  ASSUME NEW X \in SUBSET Keys, NEW a \in Apps
  PROVE  U!PinCommand(a) \in Seq(OrderSet) /\ U!After(X, U!PinCommand(a)) = X
<1> DEFINE order == [type |-> "pinned", keys |-> a.pins \cap U!Range(a.roster)]
<1>1. order \in OrderSet
  BY DEF OrderSet, Apps
<1>2. U!PinCommand(a) = <<order>>
  BY DEF U!PinCommand
<1>3. order.type = "pinned"
  OBVIOUS
<1> HIDE DEF order
<1>4. \A type \in {"open", "close"} : \A k : order # [type |-> type, key |-> k]
  BY <1>3
<1>5. \A k : U!Orders(<<order>>, "open", k) = {} /\ U!Orders(<<order>>, "close", k) = {}
  <2>1. DOMAIN <<order>> = {1} /\ <<order>>[1] = order
    OBVIOUS
  <2>2. QED
    BY <1>4, <2>1 DEF U!Orders
<1>6. QED
  BY <1>1, <1>2, <1>5 DEF U!After

LEMMA OnRosterIs ==
  ASSUME U!AppAssumption, NEW a \in Apps, NEW roster \in Seq(Keys)
  PROVE  LET b == U!OnRoster(a, roster) IN b \in Apps /\ Agrees(b) /\ Cleared(b)
<1> DEFINE c == [a EXCEPT !.roster = roster]
           d == IF ~c.flows /\ ~U!Selected(c) THEN U!SelectAt(c, U!At(a)) ELSE c
           b == U!OnRoster(a, roster)
<1>1. c \in Apps
  BY DEF Apps
<1>2. b = U!Sync(d)
  BY DEF U!OnRoster
<1> HIDE DEF c, b
<1>3. d \in Apps /\ CursorOk(d)
  <2>1. CASE ~c.flows /\ ~U!Selected(c)
    BY <1>1, <2>1, AtIs, Moved
  <2>2. CASE ~(~c.flows /\ ~U!Selected(c))
    <3>1. d = c
      BY <2>2
    <3>2. QED
      BY <1>1, <2>2, <3>1, VisibleIs DEF CursorOk
  <2>3. QED
    BY <2>1, <2>2
<1> HIDE DEF d
<1>4. QED
  BY <1>2, <1>3, SyncIs DEF Agrees, Cleared, b

LEMMA LifecycleIs ==
  ASSUME NEW a \in Apps, NEW k \in Keys, NEW b \in {U!OnEvicted(a, k), U!OnResumed(a, k)}
  PROVE  b \in Apps /\ (Cleared(a) => Cleared(b))
<1> DEFINE h == a.buffers
           kept == U!Restrict(h, (Keys \ {k}) \cap DOMAIN h)
           left == U!Restrict(h, DOMAIN h \ {k})
<1>1. h \in Held
  BY DEF Apps
<1>2. kept \in Held
  BY <1>1, RestrictedIs
<1>3. left = kept /\ DOMAIN left \subseteq DOMAIN h
  <2>1. DOMAIN h \subseteq Keys
    BY <1>1 DEF Held
  <2>2. (Keys \ {k}) \cap DOMAIN h = DOMAIN h \ {k}
    BY <2>1
  <2>3. QED
    BY <2>2 DEF U!Restrict
<1>4. U!Forgotten(a, k) = [a EXCEPT !.buffers = left]
  BY DEF U!Forgotten
<1> HIDE DEF left, kept
<1>5. PICK shut \in SUBSET Keys : b = [a EXCEPT !.buffers = left, !.shut = shut]
  <2>1. a.shut \cup {k} \in SUBSET Keys /\ a.shut \ {k} \in SUBSET Keys
    BY DEF Apps
  <2>2. b \in {[a EXCEPT !.buffers = left, !.shut = a.shut \cup {k}],
               [a EXCEPT !.buffers = left, !.shut = a.shut \ {k}]}
    BY <1>4 DEF U!OnEvicted, U!OnResumed, Apps
  <2>3. QED
    BY <2>1, <2>2
<1>6. b \in Apps
  BY <1>2, <1>3, <1>5 DEF Apps
<1>7. b.open = a.open /\ b.buffers = left
  BY <1>5 DEF Apps
<1>8. QED
  BY <1>3, <1>6, <1>7 DEF Cleared, h

LEMMA LinesAre ==
  ASSUME NEW a \in Apps, NEW k \in Keys
  PROVE  LET b == U!OnLines(a, k) IN
         b \in Apps /\ (Cleared(a) => Cleared(b)) /\ (Agrees(a) => Agrees(b))
<1> DEFINE h == a.buffers
           full == [j \in DOMAIN h \cup {k} |->
                      IF j = k THEN U!Min({U!Held(a, k) + 1, 2}) ELSE h[j]]
           b == U!OnLines(a, k)
<1>1. CASE k \notin U!Range(a.open)
  BY <1>1 DEF U!OnLines
<1>2. CASE k \in U!Range(a.open)
  <2>1. b = [a EXCEPT !.buffers = full]
    BY <1>2 DEF U!OnLines
  <2>2. PICK S \in SUBSET Keys : h \in [S -> Nat]
    BY DEF Apps, Held
  <2>3. U!Min({U!Held(a, k) + 1, 2}) \in Nat
    <3>1. U!Held(a, k) + 1 \in Nat
      BY <2>2 DEF U!Held
    <3>2. QED
      BY <3>1, OfTwo
  <2>4. full \in [S \cup {k} -> Nat] /\ DOMAIN full = DOMAIN h \cup {k}
    BY <2>2, <2>3
  <2> HIDE DEF full, b
  <2>5. full \in Held
    BY <2>4 DEF Held
  <2>6. b \in Apps
    BY <2>1, <2>5 DEF Apps
  <2>7. /\ a.roster = b.roster /\ a.filter = b.filter /\ a.pins = b.pins /\ a.cursor = b.cursor
        /\ a.mode = b.mode /\ a.page = b.page /\ a.flows = b.flows /\ a.shut = b.shut
        /\ a.open = b.open /\ b.buffers = full
    BY <2>1 DEF Apps
  <2>8. U!Wants(a) = U!Wants(b)
    BY <2>6, <2>7, SameViews
  <2>9. Agrees(a) => Agrees(b)
    BY <2>7, <2>8 DEF Agrees, CursorOk, Seen
  <2>10. Cleared(a) => Cleared(b)
    BY <1>2, <2>4, <2>7 DEF Cleared, h
  <2>11. QED
    BY <2>6, <2>9, <2>10 DEF b
<1>3. QED
  BY <1>1, <1>2

LEMMA HearIs ==
  ASSUME U!AppAssumption, NEW round \in TurnSet, NEW e \in Tidings, NEW X,
         U!After(X, round.cmds) = U!Range(round.app.open), Cleared(round.app)
  PROVE  LET next == U!Hear(round, e) IN
         /\ next \in TurnSet /\ U!After(X, next.cmds) = U!Range(next.app.open)
         /\ Cleared(next.app)
         /\ e.type = "roster" => Agrees(next.app)
         /\ e.type = "lines" /\ Agrees(round.app) => Agrees(next.app)
<1> DEFINE a == round.app
<1>1. a \in Apps /\ U!Range(a.open) \in SUBSET Keys
  <2>1. a \in Apps /\ a.open \in Seq(Keys)
    BY DEF TurnSet, Apps
  <2>2. QED
    BY <2>1 DEF U!Range
<1>2. ASSUME NEW b \in Apps, Cleared(b), U!Hear(round, e) = U!Step(round, b, <<>>),
             e.type = "roster" => Agrees(b), e.type = "lines" /\ Agrees(a) => Agrees(b)
      PROVE  LET next == U!Hear(round, e) IN
             /\ next \in TurnSet /\ U!After(X, next.cmds) = U!Range(next.app.open)
             /\ Cleared(next.app)
             /\ e.type = "roster" => Agrees(next.app)
             /\ e.type = "lines" /\ Agrees(a) => Agrees(next.app)
  <2>1. /\ U!Step(round, b, <<>>) \in TurnSet /\ U!Step(round, b, <<>>).app = b
        /\ U!After(X, U!Step(round, b, <<>>).cmds) = U!Range(b.open)
    <3>1. U!After(U!Range(a.open), <<>>) = U!Range(a.open) /\ <<>> \in Seq(OrderSet)
      BY <1>1, NothingSent
    <3> DEFINE more == <<>>
    <3>2. more \in Seq(OrderSet) /\ U!After(U!Range(a.open), more) = U!Range(a.open)
      BY <3>1
    <3> HIDE DEF more
    <3>3. /\ U!Step(round, b, more) \in TurnSet /\ U!Step(round, b, more).app = b
          /\ U!After(X, U!Step(round, b, more).cmds) = U!Range(b.open)
      BY <1>2, <3>2, StepIs
    <3>4. QED
      BY <3>3 DEF more
  <2>2. QED
    BY <1>2, <2>1
<1>3. CASE e.type = "roster"
  <2>1. e.rows \in Seq(Keys)
    BY <1>3 DEF Tidings
  <2>2. U!Hear(round, e) = U!Step(round, U!OnRoster(a, e.rows), <<>>)
    BY <1>3 DEF U!Hear
  <2>3. QED
    BY <1>1, <1>2, <1>3, <2>1, <2>2, OnRosterIs
<1>4. CASE e.type \in {"evicted", "resumed"}
  <2>1. e.key \in Keys
    BY <1>4 DEF Tidings
  <2>2. \/ U!Hear(round, e) = U!Step(round, U!OnEvicted(a, e.key), <<>>)
        \/ U!Hear(round, e) = U!Step(round, U!OnResumed(a, e.key), <<>>)
    BY <1>4 DEF U!Hear
  <2>3. QED
    BY <1>1, <1>2, <1>4, <2>1, <2>2, LifecycleIs
<1>5. CASE e.type = "lines"
  <2>1. e.key \in Keys
    BY <1>5 DEF Tidings
  <2>2. U!Hear(round, e) = U!Step(round, U!OnLines(a, e.key), <<>>)
    BY <1>5 DEF U!Hear
  <2>3. QED
    BY <1>1, <1>2, <1>5, <2>1, <2>2, LinesAre
<1>6. QED
  <2>1. e.type \in {"roster", "evicted", "resumed", "lines"}
    BY DEF Tidings
  <2>2. QED
    BY <1>3, <1>4, <1>5, <2>1

\* A turn of the loop: after it, whatever arrived, the commands lead to what is
\* open, and what is open is what the view calls for, unless all is still unsettled.
LEMMA TurnIs ==
  ASSUME U!AppAssumption, app \in Apps, Cleared(app), cmds \in Seq(OrderSet),
         events \in Seq(Tidings),
         NEW next \in Apps, Cleared(next), NEW more \in Seq(OrderSet), NEW was \in BOOLEAN,
         U!After(U!Range(app.open), more) = U!Range(app.open), Agrees(next) \/ was,
         U!Turn(next, more), U!Commotion(was)
  PROVE  /\ app' \in Apps /\ Cleared(app') /\ events' = <<>> /\ unsettled' \in BOOLEAN
         /\ UNCHANGED <<wanted, panes, unread>>
         /\ \E sent \in Seq(OrderSet) :
              cmds' = cmds \o sent /\ U!After(U!Range(app.open), sent) = U!Range(app'.open)
         /\ unsettled' \/ Agrees(app')
<1> DEFINE N == Len(events)
           X == U!Range(app.open)
           first == U!Step([app |-> app, cmds |-> <<>>], next, more)
           g == [p \in TurnSet \X (1 .. N) |-> U!Hear(p[1], events[p[2]])]
           unfolded(f) ==
             f = [i \in 0 .. N |-> IF i = 0 THEN first ELSE U!Hear(f[i - 1], events[i])]
           turns == CHOOSE f : unfolded(f)
           Fine(t) == U!After(X, t.cmds) = U!Range(t.app.open) /\ Cleared(t.app)
<1>1. /\ app' = turns[N].app /\ cmds' = cmds \o turns[N].cmds /\ events' = <<>>
      /\ UNCHANGED <<wanted, panes, unread>>
  BY DEF U!Turn, U!evars
<1>2. /\ N \in Nat /\ DOMAIN events = 1 .. N /\ \A i \in 1 .. N : events[i] \in Tidings
  OBVIOUS
<1>3. X \in SUBSET Keys
  BY DEF Apps, U!Range
<1>4. first \in TurnSet /\ Fine(first) /\ first.app = next
  <2> DEFINE round == [app |-> app, cmds |-> <<>>]
  <2>1. <<>> \in Seq(OrderSet) /\ U!After(X, <<>>) = X
    BY <1>3, NothingSent
  <2>2. round \in TurnSet /\ round.app = app /\ round.cmds = <<>>
    BY <2>1 DEF TurnSet
  <2> HIDE DEF round
  <2>3. /\ U!Step(round, next, more) \in TurnSet /\ U!Step(round, next, more).app = next
        /\ U!After(X, U!Step(round, next, more).cmds) = U!Range(next.open)
    BY <2>1, <2>2, StepIs
  <2>4. QED
    BY <2>3 DEF round
<1> HIDE DEF N, X, first
<1>5. ASSUME NEW t \in TurnSet, Fine(t), NEW i \in 1 .. N
      PROVE  LET u == U!Hear(t, events[i]) IN
             /\ u \in TurnSet /\ Fine(u)
             /\ events[i].type = "roster" => Agrees(u.app)
             /\ events[i].type = "lines" /\ Agrees(t.app) => Agrees(u.app)
  BY <1>2, <1>5, HearIs
<1> DEFINE V == {t \in TurnSet : Fine(t)}
           h == [p \in V \X (1 .. N) |-> U!Hear(p[1], events[p[2]])]
<1> HIDE DEF Fine
<1>6. PICK f \in [0 .. N -> V] : Unrolls(f, first, N, h)
  <2>1. h \in [V \X (1 .. N) -> V]
    <3>1. \A p \in V \X (1 .. N) : U!Hear(p[1], events[p[2]]) \in V
      BY <1>5
    <3>2. QED
      BY <3>1
  <2>2. first \in V
    BY <1>4
  <2> HIDE DEF h, V
  <2>3. QED
    BY <1>2, <2>1, <2>2, Unfolds
<1> HIDE DEF V
<1>7. f[0] = first /\ \A i \in 1 .. N : f[i - 1] \in V /\ f[i] = U!Hear(f[i - 1], events[i])
  <2>1. f[0] = first /\ \A i \in 1 .. N : f[i] = h[<<f[i - 1], i>>]
    BY <1>6 DEF Unrolls
  <2> SUFFICES ASSUME NEW i \in 1 .. N
               PROVE  f[i - 1] \in V /\ f[i] = U!Hear(f[i - 1], events[i])
    BY <2>1
  <2>2. i - 1 \in 0 .. N
    BY <1>2
  <2>3. <<f[i - 1], i>> \in V \X (1 .. N) /\ f[i] = h[<<f[i - 1], i>>]
    BY <1>6, <2>1, <2>2
  <2>4. QED
    BY <2>3
<1>8. turns[0] = first /\ \A i \in 1 .. N : turns[i] = U!Hear(turns[i - 1], events[i])
  <2> HIDE DEF h
  <2>1. f = [i \in 0 .. N |-> IF i = 0 THEN first ELSE U!Hear(f[i - 1], events[i])]
    BY <1>2, <1>6, <1>7
  <2>2. unfolded(f)
    BY <2>1
  <2>3. unfolded(turns)
    BY <2>2
  <2> HIDE DEF turns
  <2>4. QED
    BY <1>2, <2>3
<1> HIDE DEF turns, unfolded, h
<1> DEFINE Rostered(n, i) == \E j \in 1 .. n : j > i /\ events[j].type = "roster"
           Stirred(n) == \/ was /\ ~Rostered(n, 0)
                         \/ \E i \in 1 .. n : U!Unsettles(events[i]) /\ ~Rostered(n, i)
           Holds(n) == /\ turns[n] \in TurnSet /\ Fine(turns[n])
                       /\ Stirred(n) \/ Agrees(turns[n].app)
           T == {n \in Nat : n <= N => Holds(n)}
<1>9. 0 \in T
  <2>1. \A i : ~Rostered(0, i)
    OBVIOUS
  <2>2. Stirred(0) \/ Agrees(next)
    BY <2>1
  <2> HIDE DEF Stirred
  <2>3. QED
    BY <1>4, <1>8, <2>2
<1>10. ASSUME NEW n \in T
       PROVE  n + 1 \in T
  <2> SUFFICES ASSUME n + 1 <= N PROVE Holds(n + 1)
    OBVIOUS
  <2>1. n \in Nat /\ Holds(n) /\ n + 1 \in 1 .. N /\ n + 1 - 1 = n
    BY <1>2
  <2> DEFINE e == events[n + 1]
  <2>2. turns[n + 1] = U!Hear(turns[n], e) /\ e \in Tidings
    BY <1>2, <1>8, <2>1
  <2> HIDE DEF Stirred
  <2>3. /\ turns[n + 1] \in TurnSet /\ Fine(turns[n + 1])
        /\ e.type = "roster" => Agrees(turns[n + 1].app)
        /\ e.type = "lines" /\ Agrees(turns[n].app) => Agrees(turns[n + 1].app)
    BY <1>5, <2>1, <2>2
  <2>4. 1 .. n + 1 = (1 .. n) \cup {n + 1}
    BY <2>1
  <2>5. CASE e.type = "roster"
    BY <2>3, <2>5
  <2>6. CASE e.type = "lines"
    <3>1. \A i : Rostered(n + 1, i) <=> Rostered(n, i)
      BY <2>4, <2>6
    <3> HIDE DEF Rostered
    <3>2. Stirred(n) => Stirred(n + 1)
      BY <2>4, <3>1 DEF Stirred
    <3>3. QED
      BY <2>1, <2>3, <2>6, <3>2
  <2>7. CASE e.type \in {"resumed", "evicted"}
    <3>1. ~Rostered(n + 1, n + 1)
      BY <2>1
    <3>2. U!Unsettles(e)
      BY <2>7 DEF U!Unsettles
    <3> HIDE DEF Rostered
    <3>3. Stirred(n + 1)
      BY <2>4, <3>1, <3>2 DEF Stirred
    <3>4. QED
      BY <2>3, <3>3
  <2>8. QED
    <3>1. e.type \in {"roster", "lines", "resumed", "evicted"}
      BY <2>2 DEF Tidings
    <3>2. QED
      BY <2>5, <2>6, <2>7, <3>1
<1>11. Holds(N)
  <2> HIDE DEF Holds
  <2>1. T \subseteq Nat
    OBVIOUS
  <2> HIDE DEF T
  <2>2. N \in T
    BY <1>2, <1>9, <1>10, <2>1, AllNumbers
  <2>3. QED
    BY <1>2, <2>2 DEF T
<1>12. unsettled' = Stirred(N)
  BY <1>2 DEF U!Commotion, U!Settled
<1> HIDE DEF Stirred
<1>13. turns[N] \in TurnSet /\ Fine(turns[N]) /\ (Stirred(N) \/ Agrees(turns[N].app))
  BY <1>11
<1> DEFINE t == turns[N]
<1> HIDE DEF t
<1>14. t.app \in Apps /\ t.cmds \in Seq(OrderSet) /\ app' = t.app /\ cmds' = cmds \o t.cmds
  BY <1>1, <1>13 DEF t, TurnSet
<1>15. U!After(X, t.cmds) = U!Range(t.app.open) /\ Cleared(t.app)
  BY <1>13 DEF t, Fine
<1>16. unsettled' \in BOOLEAN /\ (unsettled' \/ Agrees(t.app))
  BY <1>12, <1>13 DEF t, Stirred
<1>17. QED
  BY <1>1, <1>14, <1>15, <1>16 DEF X
-----------------------------------------------------------------------------
(* The invariant of the two threads.                                       *)

LEMMA Listed ==
  ASSUME NEW S, IsFiniteSet(S)
  PROVE  /\ U!SetToSeq(S) \in Seq(S)
         /\ \A f \in U!SetToSeqs(S) : f \in Seq(S)
<1> DEFINE n == Cardinality(S)
<1>1. U!Cardinality(S) = n
  BY DEF U!Cardinality, Cardinality
<1>2. n \in Nat /\ ExistsBijection(1 .. n, S)
  BY FS_CardinalityType
<1>3. PICK f \in [1 .. n -> S] : \A i, j \in 1 .. n : f[i] = f[j] => i = j
  BY <1>2 DEF ExistsBijection, Bijection, Injection, IsInjective
<1>4. U!IsInjective(f)
  BY <1>3 DEF U!IsInjective
<1> HIDE DEF n
<1>5. U!SetToSeq(S) = CHOOSE h \in [1 .. n -> S] : U!IsInjective(h)
  BY <1>1 DEF U!SetToSeq
<1>6. U!SetToSeq(S) \in [1 .. n -> S]
  BY <1>3, <1>4, <1>5
<1>7. \A h \in U!SetToSeqs(S) : h \in [1 .. n -> S]
  BY <1>1 DEF U!SetToSeqs
<1>8. QED
  BY <1>2, <1>6, <1>7

LEMMA Reported ==
  ASSUME U!WatchAssumption, NEW ks \in SUBSET Keys, NEW type \in {"resumed", "evicted"}
  PROVE  U!Narrated(type, ks) \in Seq(Tidings)
<1> DEFINE S == {[type |-> type, key |-> k] : k \in ks}
<1>1. IsFiniteSet(Keys)
  BY DEF U!WatchAssumption, U!IsFiniteSet, IsFiniteSet
<1>2. IsFiniteSet(ks)
  BY <1>1, FS_Subset
<1> DEFINE f == [k \in ks |-> [type |-> type, key |-> k]]
<1>3. f \in Surjection(ks, S)
  BY DEF Surjection
<1>4. IsFiniteSet(S)
  <2> HIDE DEF f, S
  <2>1. QED
    BY <1>2, <1>3, FS_Surjection
<1>5. S \subseteq Tidings
  BY DEF Tidings
<1>6. U!Narrated(type, ks) = U!SetToSeq(S)
  BY DEF U!Narrated
<1> HIDE DEF S
<1>7. U!Narrated(type, ks) \in Seq(S)
  BY <1>4, <1>6, Listed
<1>8. QED
  BY <1>5, <1>7

WatchTypes ==
  /\ app \in Apps /\ cmds \in Seq(OrderSet) /\ events \in Seq(Tidings)
  /\ unsettled \in BOOLEAN
  /\ wanted \in SUBSET Keys /\ panes \in SUBSET Keys /\ unread \in SUBSET Keys

WatchInv ==
  /\ WatchTypes
  /\ U!After(wanted, cmds) = U!Range(app.open)
  /\ Cleared(app)
  /\ unsettled \/ Agrees(app)

\* These are state functions of the screen alone.
LEMMA Primes ==
  /\ Cleared(app') <=> Cleared(app)'
  /\ Agrees(app') <=> Agrees(app)'
BY DEF Cleared, Agrees, CursorOk, Seen, U!Wants, U!Slots, U!Selected, U!GridKeys, U!Visible,
       U!Range, U!PageCount

LEMMA TurnKeeps ==
  ASSUME U!AppAssumption, WatchInv,
         NEW next \in Apps, Cleared(next), NEW more \in Seq(OrderSet), NEW was \in BOOLEAN,
         U!After(U!Range(app.open), more) = U!Range(app.open), Agrees(next) \/ was,
         U!Turn(next, more), U!Commotion(was)
  PROVE  WatchInv'
<1>1. /\ app' \in Apps /\ Cleared(app') /\ events' = <<>> /\ unsettled' \in BOOLEAN
      /\ UNCHANGED <<wanted, panes, unread>>
      /\ unsettled' \/ Agrees(app')
  BY TurnIs DEF WatchInv, WatchTypes
<1>2. PICK sent \in Seq(OrderSet) :
        cmds' = cmds \o sent /\ U!After(U!Range(app.open), sent) = U!Range(app'.open)
  BY TurnIs DEF WatchInv, WatchTypes
<1>3. cmds \in Seq(OrderSet) /\ U!After(wanted, cmds) = U!Range(app.open)
  BY DEF WatchInv, WatchTypes
<1>4. cmds' \in Seq(OrderSet)
  BY <1>2, <1>3
<1>5. U!After(wanted, cmds') = U!Range(app'.open)
  BY <1>2, <1>3, AfterConcat
<1>6. /\ U!After(wanted', cmds') = U!Range(app'.open)
      /\ wanted' \in SUBSET Keys /\ panes' \in SUBSET Keys /\ unread' \in SUBSET Keys
  BY <1>1, <1>5 DEF WatchInv, WatchTypes
<1>7. events' \in Seq(Tidings)
  BY <1>1
<1>8. Cleared(app)' /\ (unsettled' \/ Agrees(app)')
  BY <1>1, Primes
<1>9. U!After(wanted, cmds)' = U!Range(app.open)'
  BY <1>6 DEF U!After, U!Orders, U!Range
<1>10. QED
  BY <1>1, <1>4, <1>6, <1>7, <1>8, <1>9 DEF WatchInv, WatchTypes

LEMMA WatchStarts ==
  ASSUME U!AppAssumption, U!WatchInit
  PROVE  WatchInv
<1>1. app = U!NewApp /\ cmds = <<>> /\ events = <<>> /\ unread = {} /\ unsettled = FALSE
      /\ wanted = {} /\ panes = {}
  BY DEF U!WatchInit, U!EngineInit
<1>2. <<>> \in Seq(Keys) /\ <<>> \in Seq(OrderSet) /\ <<>> \in Seq(Tidings)
      /\ DOMAIN <<>> = {} /\ U!Range(<<>>) = {}
  BY DEF U!Range
<1>3. <<>> \in Held
  <2>1. <<>> \in [{} -> Nat]
    BY <1>2
  <2>2. QED
    BY <2>1 DEF Held
<1>4. app \in Apps
  BY <1>1, <1>2, <1>3 DEF U!NewApp, Apps
<1>5. /\ app.roster = <<>> /\ app.open = <<>> /\ app.buffers = <<>> /\ app.mode = "list"
  BY <1>1 DEF U!NewApp
<1>6. Seen(app) = {}
  BY <1>2, <1>5 DEF Seen
<1>7. U!Wants(app) = <<>>
  BY <1>4, <1>5, <1>6, VisibleIs DEF U!Wants
<1>8. Cleared(app) /\ Agrees(app)
  BY <1>2, <1>5, <1>6, <1>7 DEF Cleared, Agrees, CursorOk
<1>9. U!After(wanted, cmds) = U!Range(app.open)
  BY <1>1, <1>2, <1>5, NothingSent
<1>10. QED
  BY <1>1, <1>2, <1>4, <1>8, <1>9 DEF WatchInv, WatchTypes

\* What the engine does of its own accord leaves the screen and the commands alone.
LEMMA EngineKeeps ==
  ASSUME WatchInv, UNCHANGED <<app, cmds, unsettled, wanted>>,
         events' \in Seq(Tidings), panes' \in SUBSET Keys, unread' \in SUBSET Keys
  PROVE  WatchInv'
<1>1. WatchTypes'
  BY DEF WatchInv, WatchTypes
<1>2. Cleared(app') /\ (unsettled' \/ Agrees(app'))
  BY DEF WatchInv
<1>3. Cleared(app)' /\ (unsettled' \/ Agrees(app)')
  BY <1>2, Primes
<1>4. U!After(wanted', cmds') = U!Range(app'.open)
  BY DEF WatchInv
<1>5. U!After(wanted, cmds)' = U!Range(app.open)'
  BY <1>4 DEF U!After, U!Orders, U!Range
<1>6. QED
  BY <1>1, <1>3, <1>5 DEF WatchInv

LEMMA Observed ==
  ASSUME WatchTypes, panes' \in SUBSET Keys, U!Unread
  PROVE  unread' \in SUBSET Keys
BY DEF WatchTypes, U!Unread

LEMMA Opened ==
  ASSUME WatchTypes, NEW k \in Keys, U!TryOpen(k)
  PROVE  panes' \in SUBSET Keys
BY DEF WatchTypes, U!TryOpen

LEMMA ScansKeep ==
  ASSUME U!WatchAssumption, WatchInv, U!EngineScans(U!Sights)
  PROVE  WatchInv'
<1>1. PICK sight \in U!Sights :
        /\ U!Scan(sight.rows)
        /\ events' = events \o <<[type |-> "roster", rows |-> sight.roster]>>
                       \o U!Narrated("resumed", U!Resumptions(sight.rows))
  BY DEF U!EngineScans
<1>2. PICK rows \in U!Decks : \E roster \in U!SetToSeqs(U!Present(rows)) :
        sight = [rows |-> rows, roster |-> roster]
  BY DEF U!Sights
<1> PICK roster \in U!SetToSeqs(U!Present(rows)) :
      sight = [rows |-> rows, roster |-> roster]
  BY <1>2
<1>3. U!Present(rows) \in SUBSET Keys
  BY DEF U!Decks, U!Present
<1>4. roster \in Seq(Keys)
  <2>1. IsFiniteSet(Keys)
    BY DEF U!WatchAssumption, U!IsFiniteSet, IsFiniteSet
  <2>2. IsFiniteSet(U!Present(rows))
    BY <1>3, <2>1, FS_Subset
  <2>3. roster \in Seq(U!Present(rows))
    BY <2>2, Listed
  <2>4. QED
    BY <1>3, <2>3
<1>5. U!Resumptions(sight.rows) \in SUBSET Keys
  BY <1>2, <1>3 DEF U!Resumptions
<1>6. U!Narrated("resumed", U!Resumptions(sight.rows)) \in Seq(Tidings)
  BY <1>5, Reported
<1>7. events' \in Seq(Tidings)
  <2> DEFINE news == [type |-> "roster", rows |-> sight.roster]
             rest == U!Narrated("resumed", U!Resumptions(sight.rows))
  <2>1. news \in Tidings
    BY <1>2, <1>4 DEF Tidings
  <2> HIDE DEF news, rest
  <2>2. events' = events \o <<news>> \o rest /\ rest \in Seq(Tidings) /\ events \in Seq(Tidings)
    BY <1>1, <1>6 DEF news, rest, WatchInv, WatchTypes
  <2>3. <<news>> \in Seq(Tidings)
    BY <2>1
  <2>4. QED
    BY <2>2, <2>3
<1>8. panes' \in SUBSET Keys /\ wanted' = wanted
  BY <1>1 DEF U!Scan, WatchInv, WatchTypes
<1>9. U!Unread /\ UNCHANGED <<app, cmds, unsettled>>
  BY DEF U!EngineScans
<1>10. unread' \in SUBSET Keys
  BY <1>8, <1>9, Observed DEF WatchInv
<1>11. QED
  BY <1>7, <1>8, <1>9, <1>10, EngineKeeps

LEMMA SettlesKeep ==
  ASSUME U!WatchAssumption, WatchInv, U!EngineSettles
  PROVE  WatchInv'
<1>1. PICK k \in Keys : U!OpenNext(k)
  BY DEF U!EngineSettles, U!Settle
<1>2. panes' \in SUBSET Keys /\ wanted' = wanted
  BY <1>1, Opened DEF U!OpenNext, WatchInv
<1>3. /\ U!Unread /\ UNCHANGED <<app, cmds, unsettled>>
      /\ events' = events \o U!Narrated("evicted", panes \ panes')
  BY DEF U!EngineSettles
<1>4. unread' \in SUBSET Keys
  BY <1>2, <1>3, Observed DEF WatchInv
<1>5. events' \in Seq(Tidings)
  <2>1. panes \ panes' \in SUBSET Keys /\ events \in Seq(Tidings)
    BY DEF WatchInv, WatchTypes
  <2>2. U!Narrated("evicted", panes \ panes') \in Seq(Tidings)
    BY <2>1, Reported
  <2>3. QED
    BY <1>3, <2>1, <2>2
<1>6. QED
  BY <1>2, <1>3, <1>4, <1>5, EngineKeeps

LEMMA ObeysKeep ==
  ASSUME U!WatchAssumption, WatchInv, U!EngineObeys
  PROVE  WatchInv'
<1> DEFINE c == Head(cmds)
           rest == Tail(cmds)
<1>1. /\ cmds # <<>> /\ cmds' = rest
      /\ \/ c.type = "open" /\ U!OpenPane(c.key)
              /\ events' = events \o U!Narrated("evicted", panes \ panes')
         \/ c.type = "close" /\ U!ClosePane(c.key) /\ UNCHANGED events
         \/ c.type = "pinned" /\ U!Pinned(c.keys) /\ UNCHANGED events
      /\ U!Unread /\ UNCHANGED <<app, unsettled>>
  BY DEF U!EngineObeys
<1>2. /\ c \in OrderSet /\ rest \in Seq(OrderSet) /\ cmds = <<c>> \o rest
      /\ <<c>> \in Seq(OrderSet)
  BY <1>1 DEF WatchInv, WatchTypes
<1> HIDE DEF c, rest
<1>3. /\ panes \in SUBSET Keys /\ wanted \in SUBSET Keys /\ events \in Seq(Tidings)
      /\ WatchTypes /\ U!After(wanted, cmds) = U!Range(app.open)
  BY DEF WatchInv, WatchTypes
<1>4. U!After(wanted, cmds) = U!After(U!After(wanted, <<c>>), rest)
  BY <1>2, AfterConcat
<1>5. \A type, k : U!Orders(<<c>>, type, k) = IF c = [type |-> type, key |-> k] THEN {1} ELSE {}
  <2>1. DOMAIN <<c>> = {1} /\ <<c>>[1] = c
    OBVIOUS
  <2>2. QED
    BY <2>1 DEF U!Orders
<1>6. \A kind : [type |-> "open", key |-> kind].type = "open"
             /\ [type |-> "close", key |-> kind].type = "close"
  OBVIOUS
<1>7. /\ panes' \in SUBSET Keys /\ events' \in Seq(Tidings)
      /\ wanted' = U!After(wanted, <<c>>)
  <2>1. CASE c.type = "open" /\ U!OpenPane(c.key)
             /\ events' = events \o U!Narrated("evicted", panes \ panes')
    <3>1. c.key \in Keys /\ c = [type |-> "open", key |-> c.key]
      BY <1>2, <2>1 DEF OrderSet
    <3>2. panes' \in SUBSET Keys /\ wanted' = wanted \cup {c.key}
      BY <1>3, <2>1, <3>1, Opened DEF U!OpenPane
    <3>3. U!Narrated("evicted", panes \ panes') \in Seq(Tidings)
      BY <1>3, Reported
    <3>4. events' \in Seq(Tidings)
      BY <1>3, <2>1, <3>3
    <3>5. \A k : U!Orders(<<c>>, "close", k) = {}
      BY <1>5, <1>6, <2>1
    <3>6. \A k : U!Orders(<<c>>, "open", k) = IF k = c.key THEN {1} ELSE {}
      <4>1. \A k : [type |-> "open", key |-> k].key = k
        OBVIOUS
      <4>2. \A k : c = [type |-> "open", key |-> k] <=> k = c.key
        BY <3>1, <4>1
      <4>3. QED
        BY <1>5, <4>2
    <3>7. U!After(wanted, <<c>>) = wanted \cup {c.key}
      BY <1>3, <3>1, <3>5, <3>6 DEF U!After
    <3>8. QED
      BY <3>2, <3>4, <3>7
  <2>2. CASE c.type = "close" /\ U!ClosePane(c.key) /\ UNCHANGED events
    <3>1. c.key \in Keys /\ c = [type |-> "close", key |-> c.key]
      BY <1>2, <2>2 DEF OrderSet
    <3>2. panes' \in SUBSET Keys /\ wanted' = wanted \ {c.key} /\ events' \in Seq(Tidings)
      BY <1>3, <2>2 DEF U!ClosePane
    <3>3. \A k : U!Orders(<<c>>, "open", k) = {}
      BY <1>5, <1>6, <2>2
    <3>4. \A k : U!Orders(<<c>>, "close", k) = IF k = c.key THEN {1} ELSE {}
      <4>1. \A k : [type |-> "close", key |-> k].key = k
        OBVIOUS
      <4>2. \A k : c = [type |-> "close", key |-> k] <=> k = c.key
        BY <3>1, <4>1
      <4>3. QED
        BY <1>5, <4>2
    <3>5. U!After(wanted, <<c>>) = wanted \ {c.key}
      BY <1>3, <3>1, <3>3, <3>4 DEF U!After
    <3>6. QED
      BY <3>2, <3>5
  <2>3. CASE c.type = "pinned" /\ U!Pinned(c.keys) /\ UNCHANGED events
    <3>1. panes' \in SUBSET Keys /\ wanted' = wanted /\ events' \in Seq(Tidings)
      BY <1>3, <2>3 DEF U!Pinned
    <3>2. \A k : U!Orders(<<c>>, "open", k) = {} /\ U!Orders(<<c>>, "close", k) = {}
      BY <1>5, <1>6, <2>3
    <3>3. U!After(wanted, <<c>>) = wanted
      BY <1>3, <3>2 DEF U!After
    <3>4. QED
      BY <3>1, <3>3
  <2>4. QED
    BY <1>1, <2>1, <2>2, <2>3
<1>8. unread' \in SUBSET Keys
  BY <1>1, <1>3, <1>7, Observed
<1>9. wanted' \in SUBSET Keys
  BY <1>7 DEF U!After
<1>10. U!After(wanted', cmds') = U!Range(app'.open)
  BY <1>1, <1>3, <1>4, <1>7
<1>11. WatchTypes'
  BY <1>1, <1>2, <1>3, <1>7, <1>8, <1>9 DEF WatchTypes
<1>12. Cleared(app)' /\ (unsettled \/ Agrees(app))'
  <2>1. Cleared(app') /\ (unsettled' \/ Agrees(app'))
    BY <1>1 DEF WatchInv
  <2>2. QED
    BY <2>1, Primes
<1>13. U!After(wanted, cmds)' = U!Range(app.open)'
  BY <1>10 DEF U!After, U!Orders, U!Range
<1>14. QED
  BY <1>11, <1>12, <1>13 DEF WatchInv

LEMMA PumpsKeep ==
  ASSUME WatchInv, U!EnginePumps
  PROVE  WatchInv'
<1>1. PICK k \in unread :
        /\ events' = Append(events, [type |-> "lines", key |-> k])
        /\ unread' = unread \ {k}
  BY DEF U!EnginePumps
<1>2. UNCHANGED <<app, cmds, unsettled, wanted, panes>>
  BY DEF U!EnginePumps, U!evars
<1>3. unread \in SUBSET Keys /\ panes \in SUBSET Keys /\ events \in Seq(Tidings)
  BY DEF WatchInv, WatchTypes
<1>4. [type |-> "lines", key |-> k] \in Tidings
  BY <1>3 DEF Tidings
<1>5. events' \in Seq(Tidings)
  BY <1>1, <1>3, <1>4
<1>6. QED
  BY <1>1, <1>2, <1>3, <1>5, EngineKeeps

LEMMA PressesKeep ==
  ASSUME U!AppAssumption, U!WatchAssumption, WatchInv, U!UserPresses(U!Pressed(app, Filters))
  PROVE  WatchInv'
<1>1. PICK b \in U!Pressed(app, Filters) :
        /\ U!Turn(U!Sync(b), <<>>)
        /\ U!Commotion(unsettled \/ (b = U!LeaveFlows(app) /\ app.flows))
  BY DEF U!UserPresses
<1> DEFINE was == unsettled \/ (b = U!LeaveFlows(app) /\ app.flows)
           next == U!Sync(b)
           more == <<>>
<1>2. app \in Apps /\ unsettled \in BOOLEAN /\ (unsettled \/ CursorOk(app))
  BY DEF WatchInv, WatchTypes, Agrees
<1>3. b \in Apps /\ (CursorOk(app) => CursorOk(b) \/ (b = U!LeaveFlows(app) /\ app.flows))
  BY <1>2, KeysAre
<1>4. next \in Apps /\ Cleared(next) /\ (CursorOk(b) => Agrees(next))
  BY <1>3, SyncIs DEF Cleared, Agrees
<1>5. more \in Seq(OrderSet) /\ U!After(U!Range(app.open), more) = U!Range(app.open)
  <2>1. U!Range(app.open) \in SUBSET Keys
    BY <1>2 DEF Apps, U!Range
  <2>2. QED
    BY <2>1, NothingSent
<1>6. was \in BOOLEAN
  BY <1>2 DEF Apps
<1>7. Agrees(next) \/ was
  BY <1>2, <1>3, <1>4
<1>8. U!Turn(next, more) /\ U!Commotion(was)
  BY <1>1
<1> HIDE DEF was, next, more
<1>9. QED
  BY <1>4, <1>5, <1>6, <1>7, <1>8, TurnKeeps

LEMMA PinsKeep ==
  ASSUME U!AppAssumption, WatchInv, U!UserPins
  PROVE  WatchInv'
<1> DEFINE b == U!TogglePin(app)
           next == U!Sync(b)
           more == U!PinCommand(b)
<1>1. U!Selected(app) /\ U!Turn(next, more) /\ U!Commotion(unsettled)
  BY DEF U!UserPins
<1>2. app \in Apps /\ unsettled \in BOOLEAN /\ (unsettled \/ CursorOk(app))
  BY DEF WatchInv, WatchTypes, Agrees
<1>3. app.cursor \in Keys
  BY <1>1, <1>2, VisibleIs DEF Seen, Apps
<1>4. PICK pins \in SUBSET Keys : b = [app EXCEPT !.pins = pins]
  <2>1. app.pins \ {app.cursor} \in SUBSET Keys /\ app.pins \cup {app.cursor} \in SUBSET Keys
    BY <1>2, <1>3 DEF Apps
  <2>2. QED
    BY <2>1 DEF U!TogglePin
<1> HIDE DEF b
<1>5. b \in Apps
  BY <1>2, <1>4 DEF Apps
<1>6. /\ b.roster = app.roster /\ b.filter = app.filter /\ b.cursor = app.cursor
      /\ b.flows = app.flows
  BY <1>2, <1>4 DEF Apps
<1>7. CursorOk(app) => CursorOk(b)
  BY <1>6 DEF CursorOk, Seen
<1>8. next \in Apps /\ Cleared(next) /\ (CursorOk(b) => Agrees(next))
  BY <1>5, SyncIs DEF Cleared, Agrees
<1>9. more \in Seq(OrderSet) /\ U!After(U!Range(app.open), more) = U!Range(app.open)
  <2>1. U!Range(app.open) \in SUBSET Keys
    BY <1>2 DEF Apps, U!Range
  <2>2. QED
    BY <1>5, <2>1, PinsAre
<1> HIDE DEF next, more
<1>10. QED
  BY <1>1, <1>2, <1>7, <1>8, <1>9, TurnKeeps

LEMMA HearsKeep ==
  ASSUME U!AppAssumption, WatchInv, U!UiHears
  PROVE  WatchInv'
<1> DEFINE more == <<>>
<1>1. U!Turn(app, more) /\ U!Commotion(unsettled)
  BY DEF U!UiHears
<1>2. /\ app \in Apps /\ unsettled \in BOOLEAN /\ Cleared(app)
      /\ Agrees(app) \/ unsettled
  BY DEF WatchInv, WatchTypes
<1>3. more \in Seq(OrderSet) /\ U!After(U!Range(app.open), more) = U!Range(app.open)
  <2>1. U!Range(app.open) \in SUBSET Keys
    BY <1>2 DEF Apps, U!Range
  <2>2. QED
    BY <2>1, NothingSent
<1> HIDE DEF more
<1>4. QED
  BY <1>1, <1>2, <1>3, TurnKeeps

LEMMA WatchKeeps ==
  ASSUME U!AppAssumption, U!WatchAssumption, WatchInv, [U!WatchNext]_U!wvars
  PROVE  WatchInv'
<1>1. ASSUME UNCHANGED <<app, cmds, unsettled, wanted, events, panes, unread>>
      PROVE  WatchInv'
  <2>1. events' \in Seq(Tidings) /\ panes' \in SUBSET Keys /\ unread' \in SUBSET Keys
    BY <1>1 DEF WatchInv, WatchTypes
  <2>2. QED
    BY <1>1, <2>1, EngineKeeps
<1>2. CASE U!EngineScans(U!Sights)
  BY <1>2, ScansKeep
<1>3. CASE U!EngineSettles
  BY <1>3, SettlesKeep
<1>4. CASE U!EngineObeys
  BY <1>4, ObeysKeep
<1>5. CASE U!EnginePumps
  BY <1>5, PumpsKeep
<1>6. CASE U!EngineWaits
  BY <1>1, <1>6 DEF U!EngineWaits, U!ClockTicks
<1>7. CASE U!UserPresses(U!Pressed(app, Filters))
  BY <1>7, PressesKeep
<1>8. CASE U!UserPins
  BY <1>8, PinsKeep
<1>9. CASE U!UiHears
  BY <1>9, HearsKeep
<1>10. CASE UNCHANGED U!wvars
  BY <1>1, <1>10 DEF U!wvars, U!evars
<1>11. QED
  BY <1>2, <1>3, <1>4, <1>5, <1>6, <1>7, <1>8, <1>9, <1>10 DEF U!WatchNext

LEMMA WatchHolds ==
  ASSUME U!AppAssumption, U!WatchAssumption
  PROVE  U!WatchSpec => []WatchInv
<1>1. U!WatchInit => WatchInv
  BY WatchStarts
<1>2. WatchInv /\ [U!WatchNext]_U!wvars => WatchInv'
  BY WatchKeeps
<1>3. QED
  BY <1>1, <1>2, PTL DEF U!WatchSpec

\* ui/mod.rs sync_panes, resync_selection, buffer_pane, engine.rs run: whatever
\* keys, scans, evictions and resumptions do between the threads, the commands on
\* their way lead from what the engine was told to tail to what the screen shows;
\* once a roster has followed a commotion the screen shows what the view calls for,
\* with the cursor on a session that can be seen; and no buffer outlives its pane.
THEOREM ScreenAndEngineAgree ==
  ASSUME U!AppAssumption, U!WatchAssumption
  PROVE  U!WatchSpec => []U!ScreenHolds
<1>1. WatchInv => U!EngineInStep
  BY DEF WatchInv, Agrees, U!EngineInStep
<1>2. WatchInv => U!CursorIsVisible
  BY VisibleIs DEF WatchInv, WatchTypes, Agrees, CursorOk, U!CursorIsVisible
<1>3. WatchInv => U!BuffersOfOpen
  BY DEF WatchInv, Cleared, U!BuffersOfOpen
<1>4. WatchInv => U!ScreenHolds
  BY <1>1, <1>2, <1>3 DEF U!ScreenHolds
<1>5. QED
  BY <1>4, WatchHolds, PTL

LEMMA SameEngine ==
  /\ U!EngineInit <=> E!EngineInit
  /\ U!evars = E!evars
  /\ U!ClockTicks <=> E!ClockTicks
  /\ U!Decks = E!Decks
  /\ \A rows : U!Scan(rows) <=> E!Scan(rows)
  /\ \A k : /\ U!OpenNext(k) <=> E!OpenNext(k)
            /\ U!OpenPane(k) <=> E!OpenPane(k)
            /\ U!ClosePane(k) <=> E!ClosePane(k)
            /\ U!Pinned(k) <=> E!Pinned(k)
<1>1. /\ U!EngineInit <=> E!EngineInit
      /\ U!evars = E!evars
      /\ U!ClockTicks <=> E!ClockTicks
      /\ U!Decks = E!Decks
  BY DEF U!EngineInit, E!EngineInit, U!evars, E!evars, U!ClockTicks, E!ClockTicks, U!Decks, E!Decks
<1>2. \A rows : U!Present(rows) = E!Present(rows)
  BY DEF U!Present, E!Present
<1>3. \A k : U!Tracks(k) = E!Tracks(k)
  BY DEF U!Tracks, E!Tracks
<1>4. \A k, rows : U!Now(k, rows) = E!Now(k, rows)
  BY <1>2 DEF U!Now, E!Now
<1>5. U!Attentions = E!Attentions
  BY DEF U!Attentions, E!Attentions
<1>6. \A k, rows : U!Entry(k, rows) = E!Entry(k, rows)
  BY <1>3, <1>4, <1>5 DEF U!Entry, E!Entry
<1>7. \A rows : U!Followed(rows) = E!Followed(rows)
  BY <1>2, <1>6 DEF U!Followed, E!Followed
<1>8. \A entry : U!Lingered(entry) = E!Lingered(entry)
  BY DEF U!Lingered, E!Lingered
<1>9. \A followed : U!Aged(followed) = E!Aged(followed)
  BY <1>8 DEF U!Aged, E!Aged
<1>10. \A aged, rows : U!Kept(aged, rows) = E!Kept(aged, rows)
  BY <1>2 DEF U!Kept, E!Kept
<1>11. /\ \A entry : U!Closed(entry) = E!Closed(entry)
       /\ \A k : U!KilledDone(k) = E!KilledDone(k)
  BY <1>3 DEF U!Closed, E!Closed, U!KilledDone, E!KilledDone
<1>12. \A aged, kept, left : U!Pending(aged, kept, left) = E!Pending(aged, kept, left)
  BY <1>11 DEF U!Pending, E!Pending
<1>13. \A k, rows : U!From(k, rows) = E!From(k, rows)
  BY <1>3 DEF U!From, E!From
<1>14. \A rows : U!Left(rows) = E!Left(rows) /\ U!Entered(rows) = E!Entered(rows)
  BY <1>2, <1>5, <1>13 DEF U!Left, E!Left, U!Entered, E!Entered
<1>15. \A n, rows, interval : U!Due(n, rows, interval) = E!Due(n, rows, interval)
  BY <1>14 DEF U!Due, E!Due
<1>16. \A k, rows : U!Finishes(k, rows) = E!Finishes(k, rows)
  BY <1>5, <1>13 DEF U!Finishes, E!Finishes
<1>17. \A rows : U!Alerts(rows) = E!Alerts(rows)
  BY <1>2, <1>14, <1>15, <1>16 DEF U!Alerts, E!Alerts
<1>18. \A rows : U!Seeded(rows) = E!Seeded(rows)
  BY <1>14 DEF U!Seeded, E!Seeded
<1>19. \A rows : U!Fired(rows) = E!Fired(rows)
  BY <1>14, <1>17, <1>18 DEF U!Fired, E!Fired
<1>20. \A n, rows : U!Outside(n, rows) = E!Outside(n, rows)
  BY <1>4, <1>5 DEF U!Outside, E!Outside
<1>21. \A rows : U!Heard(rows) = E!Heard(rows)
  BY <1>17, <1>20 DEF U!Heard, E!Heard
<1>22. \A rows : U!Scan(rows) <=> E!Scan(rows)
  BY <1>2, <1>7, <1>8, <1>9, <1>10, <1>12, <1>17, <1>19, <1>21 DEF U!Scan, E!Scan
<1>23. U!Full = E!Full
  BY DEF U!Full, E!Full, U!Cardinality, E!Cardinality
<1>24. U!Displaceable = E!Displaceable
  BY DEF U!Displaceable, E!Displaceable
<1>25. U!Victims = E!Victims
  BY <1>24 DEF U!Victims, E!Victims
<1>26. \A k : U!Opens(k) = E!Opens(k)
  BY <1>23, <1>25 DEF U!Opens, E!Opens
<1>27. \A k : U!TryOpen(k) <=> E!TryOpen(k)
  BY <1>23, <1>25, <1>26 DEF U!TryOpen, E!TryOpen
<1>28. U!Keep <=> E!Keep
  BY DEF U!Keep, E!Keep
<1>29. \A k : /\ U!OpenNext(k) <=> E!OpenNext(k)
              /\ U!OpenPane(k) <=> E!OpenPane(k)
              /\ U!ClosePane(k) <=> E!ClosePane(k)
              /\ U!Pinned(k) <=> E!Pinned(k)
  BY <1>11, <1>27, <1>28 DEF U!OpenNext, E!OpenNext, U!OpenPane, E!OpenPane, U!ClosePane,
     E!ClosePane, U!Pinned, E!Pinned
<1>30. QED
  BY <1>1, <1>22, <1>29

\* engine.rs run: whatever the terminal UI does, the engine behind it is the one
\* of module Engine, so that all that is proved of that one holds of hermon watch.
THEOREM WatchRunsTheEngine ==
  ASSUME U!AppAssumption, U!WatchAssumption
  PROVE  U!WatchSpec => E!EngineSpec
<1>1. U!WatchInit => E!EngineInit
  BY SameEngine DEF U!WatchInit
<1>2. WatchInv /\ [U!WatchNext]_U!wvars => [E!EngineNext]_E!evars
  <2> SUFFICES ASSUME WatchInv, [U!WatchNext]_U!wvars
               PROVE  E!EngineNext \/ UNCHANGED E!evars
    OBVIOUS
  <2>1. CASE U!EngineScans(U!Sights)
    <3>1. PICK sight \in U!Sights : U!Scan(sight.rows)
      BY <2>1 DEF U!EngineScans
    <3>2. sight.rows \in U!Decks
      BY DEF U!Sights
    <3>3. QED
      BY <3>1, <3>2, SameEngine DEF E!EngineNext, E!ScanAny
  <2>2. CASE U!EngineSettles
    BY <2>2, SameEngine DEF U!EngineSettles, U!Settle, E!Settle, E!EngineNext
  <2>3. CASE U!EngineObeys
    <3> DEFINE c == Head(cmds)
    <3>1. \/ c.type = "open" /\ U!OpenPane(c.key)
          \/ c.type = "close" /\ U!ClosePane(c.key)
          \/ c.type = "pinned" /\ U!Pinned(c.keys)
      BY <2>3 DEF U!EngineObeys
    <3>2. c \in OrderSet
      <4>1. cmds # <<>> /\ cmds \in Seq(OrderSet)
        BY <2>3 DEF U!EngineObeys, WatchInv, WatchTypes
      <4>2. QED
        BY <4>1
    <3> HIDE DEF c
    <3>3. /\ c.type \in {"open", "close"} => c.key \in Keys
          /\ c.type = "pinned" => c.keys \in SUBSET Keys
      BY <3>2 DEF OrderSet
    <3>4. QED
      BY <3>1, <3>3, SameEngine DEF E!EngineNext, E!Command
  <2>4. CASE U!EngineWaits
    BY <2>4, SameEngine DEF U!EngineWaits, E!EngineNext
  <2>5. CASE UNCHANGED U!evars
    BY <2>5 DEF U!evars, E!evars
  <2>6. U!EnginePumps => UNCHANGED U!evars
    BY DEF U!EnginePumps
  <2>7. \A b, more : U!Turn(b, more) => UNCHANGED U!evars
    BY DEF U!Turn
  <2>8. U!UserPresses(U!Pressed(app, Filters)) \/ U!UserPins \/ U!UiHears => UNCHANGED U!evars
    BY <2>7 DEF U!UserPresses, U!UserPins, U!UiHears
  <2>9. UNCHANGED U!wvars => UNCHANGED U!evars
    BY DEF U!wvars
  <2>10. QED
    BY <2>1, <2>2, <2>3, <2>4, <2>5, <2>6, <2>8, <2>9 DEF U!WatchNext
<1>3. QED
  BY <1>1, <1>2, WatchHolds, PTL DEF U!WatchSpec, E!EngineSpec
-----------------------------------------------------------------------------
(* Who raises banners (Arbitration). *)

CONSTANTS Programs, Kind, Flag
VARIABLES stage, notifies, pidfile, reused, saw

A == INSTANCE Arbitration

\* A pidfile names a program of its kind, and what a program saw when it decided
\* is why it notifies or not.
ArbInv ==
  /\ DOMAIN stage = Programs /\ DOMAIN saw = Programs /\ DOMAIN pidfile = A!Kinds
  /\ notifies \subseteq Programs
  /\ \A k \in A!Kinds :
       pidfile[k] # None => pidfile[k] \in Programs /\ A!Ui(pidfile[k]) = k
  /\ A!YieldsToHolder /\ A!SilentForSomeone

LEMMA UiKinds ==
  ASSUME A!ArbitrationAssumption, NEW p \in Programs
  PROVE  A!Ui(p) \in A!Kinds /\ Kind[p] \in {"watch", "gui", "menubar", "hub"}
  BY DEF A!ArbitrationAssumption, A!Ui, A!Kinds

\* A decision looks at the pidfiles of the kinds above.
LEMMA Decides ==
  ASSUME A!ArbitrationAssumption, ArbInv, NEW p \in Programs, A!Undecided(p)
  PROVE  /\ A!Decision(p) => A!Sight(p).held = {}
         /\ ~A!Decision(p) => A!Sight(p).alive # {}
<1>1. A!Decision(p) = \A k \in A!Above(p) : ~A!Held(k)
  BY DEF A!Decision, A!Undecided
<1>2. ASSUME NEW q \in A!Sight(p).held
      PROVE  A!Ui(q) \in A!Above(p) /\ A!Held(A!Ui(q))
  BY <1>2 DEF A!Sight, A!Held, A!Alive, A!ArbitrationAssumption
<1>3. ASSUME NEW k \in A!Above(p), A!Held(k)
      PROVE  pidfile[k] \in A!Sight(p).alive
  BY <1>3 DEF A!Sight, A!Held, A!Alive, A!Above, ArbInv
<1>4. QED
  BY <1>1, <1>2, <1>3

LEMMA ArbStep ==
  ASSUME A!ArbitrationAssumption, ArbInv, [A!ArbitrationNext]_A!avars
  PROVE  ArbInv'
<1> DEFINE Shape ==
       /\ DOMAIN stage = Programs /\ DOMAIN saw = Programs
       /\ DOMAIN pidfile = A!Kinds /\ notifies \subseteq Programs
<1> DEFINE Files == \A k \in A!Kinds :
       pidfile[k] # None => pidfile[k] \in Programs /\ A!Ui(pidfile[k]) = k
<1>1. ASSUME NEW p \in Programs, A!Decide(p), pidfile' = pidfile,
             stage' \in {[stage EXCEPT ![p] = "decided"], [stage EXCEPT ![p] = "running"]}
      PROVE  ArbInv'
  <2>1. /\ Shape' /\ Files'
    BY <1>1, UiKinds DEF ArbInv, A!Decide, A!Ui
  <2>2. \A q \in Programs \ {p} :
          /\ saw'[q] = saw[q] /\ stage'[q] = stage[q] /\ (q \in notifies' <=> q \in notifies)
    BY <1>1 DEF ArbInv, A!Decide
  <2>3. saw'[p] = A!Sight(p) /\ (p \in notifies' <=> A!Decision(p))
    BY <1>1 DEF ArbInv, A!Decide
  <2>4. A!YieldsToHolder'
    BY <2>1, <2>2, <2>3, Decides DEF ArbInv, A!YieldsToHolder, A!Undecided
  <2>5. A!SilentForSomeone'
    BY <2>1, <2>2, <2>3, Decides DEF ArbInv, A!SilentForSomeone, A!Undecided
  <2>6. QED
    BY <2>1, <2>4, <2>5 DEF ArbInv
<1>2. ASSUME NEW p \in Programs, UNCHANGED saw,
             notifies' \in {notifies, notifies \ {p}},
             NEW to \in {"claimed", "running", "gone"},
             stage' = [stage EXCEPT ![p] = to],
             to = "running" => stage[p] = "decided" /\ notifies' = notifies,
             \/ pidfile' = pidfile
             \/ pidfile' \in {[pidfile EXCEPT ![A!Ui(p)] = p], [pidfile EXCEPT ![A!Ui(p)] = None]}
      PROVE  ArbInv'
  <2>1. Shape'
    BY <1>2 DEF ArbInv
  <2>2. Files'
    BY <1>2, UiKinds DEF ArbInv, A!Ui
  <2>3. A!YieldsToHolder'
    BY <1>2 DEF ArbInv, A!YieldsToHolder, A!Undecided
  <2>4. A!SilentForSomeone'
    BY <1>2 DEF ArbInv, A!SilentForSomeone, A!Undecided
  <2>5. QED
    BY <2>1, <2>2, <2>3, <2>4 DEF ArbInv
<1>3. ASSUME UNCHANGED <<stage, notifies, pidfile, saw>>
      PROVE  ArbInv'
  BY <1>3 DEF ArbInv, A!YieldsToHolder, A!SilentForSomeone, A!Undecided, A!Ui
<1>4. ASSUME NEW p \in Programs, A!StartUi(p) \/ A!HubTick(p)
      PROVE  ArbInv'
  BY <1>1, <1>4 DEF A!StartUi, A!HubTick
<1>5. ASSUME NEW p \in Programs, A!Claim(p)
      PROVE  ArbInv'
  BY <1>2, <1>5 DEF A!Claim
<1>6. ASSUME NEW p \in Programs, A!StartHub(p)
      PROVE  ArbInv'
  <2>1. A!Ui(p) = "watch"
    BY <1>6 DEF A!StartHub, A!Ui
  <2>2. QED
    BY <1>2, <1>6, <2>1 DEF A!StartHub
<1>7. ASSUME NEW p \in Programs, A!Exit(p) \/ A!Die(p)
      PROVE  ArbInv'
  BY <1>2, <1>7 DEF A!Exit, A!Die, A!Stops
<1>8. QED
  BY <1>3, <1>4, <1>5, <1>6, <1>7 DEF A!ArbitrationNext, A!ReusePid, A!avars

LEMMA ArbHolds ==
  ASSUME A!ArbitrationAssumption
  PROVE  A!ArbitrationSpec => []ArbInv
<1>1. A!ArbitrationInit => ArbInv
  BY DEF A!ArbitrationInit, ArbInv, A!YieldsToHolder, A!SilentForSomeone
<1>2. ArbInv /\ [A!ArbitrationNext]_A!avars => ArbInv'
  BY ArbStep
<1>3. QED
  BY <1>1, <1>2, PTL DEF A!ArbitrationSpec

\* Of programs left to decide for themselves none raises banners beside one
\* above it that ran and had claimed its kind when it decided, for any programs,
\* kinds and flags (YieldsToHolder, part of AlertsHold).
THEOREM ProgramsYield ==
  ASSUME A!ArbitrationAssumption
  PROVE  A!ArbitrationSpec => []A!YieldsToHolder
<1>1. ArbInv => A!YieldsToHolder
  BY DEF ArbInv
<1>2. QED
  BY <1>1, ArbHolds, PTL

\* Nor is one silent but for a process above it (SilentForSomeone, part of
\* AlertsHold).
THEOREM SilenceHasReason ==
  ASSUME A!ArbitrationAssumption
  PROVE  A!ArbitrationSpec => []A!SilentForSomeone
<1>1. ArbInv => A!SilentForSomeone
  BY DEF ArbInv
<1>2. QED
  BY <1>1, ArbHolds, PTL
-----------------------------------------------------------------------------
(* How long a remote waits for its next try (Backoff). *)

CONSTANTS
  BackoffMin, BackoffMax, InstantExit, HealthyUptime, InstantExitStrikes, Uptimes
VARIABLES upcoming, strikes, capped, delay, streak, storm

B == INSTANCE Backoff WITH pinned <- capped

\* No exit in a row goes without its strike, and what comes next follows from
\* the wait before.
BackInv ==
  /\ upcoming \in Nat /\ delay \in Nat /\ strikes \in Nat /\ streak \in Nat
  /\ capped \in BOOLEAN /\ storm \in BOOLEAN
  /\ streak <= strikes
  /\ storm => capped
  /\ capped => delay = BackoffMax
  /\ delay # 0 => upcoming = B!Least(2 * delay, BackoffMax)

LEMMA BackStep ==
  ASSUME B!BackoffAssumption, BackInv, NEW uptime \in Uptimes, B!RecordExit(uptime)
  PROVE  BackInv'
<1> DEFINE struck == (IF B!Restarts(uptime) THEN 0 ELSE strikes)
                       + (IF B!Instant(uptime) THEN 1 ELSE 0)
           floor  == IF B!Restarts(uptime) THEN BackoffMin ELSE upcoming
           was    == B!Instant(uptime)
           over   == was /\ B!Pins(struck)
<1>1. /\ {BackoffMin, BackoffMax, InstantExit, HealthyUptime, InstantExitStrikes} \subseteq Nat \ {0}
      /\ InstantExit <= HealthyUptime /\ uptime \in Nat
  BY DEF B!BackoffAssumption
<1>2. was \in BOOLEAN /\ over \in BOOLEAN /\ (was => ~B!Restarts(uptime))
  BY <1>1 DEF B!Instant, B!Restarts
<1>3. struck \in Nat /\ floor \in Nat /\ (was => struck = strikes + 1)
  BY <1>1, <1>2 DEF BackInv
<1>4. over <=> was /\ struck >= InstantExitStrikes
  BY DEF B!Pins
<1>5. /\ strikes' = B!Least(struck, InstantExitStrikes + 1)
      /\ capped' = (capped \/ over)
      /\ delay' = IF capped' THEN BackoffMax ELSE floor
      /\ upcoming' = B!Least(2 * delay', BackoffMax)
      /\ streak' = IF was THEN B!Least(streak + 1, InstantExitStrikes) ELSE 0
      /\ storm' = (storm \/ streak' = InstantExitStrikes)
  BY DEF B!RecordExit
<1> HIDE DEF struck, floor, was, over
<1>6. strikes' \in Nat /\ streak' \in Nat /\ streak' <= strikes'
  BY <1>1, <1>2, <1>3, <1>5 DEF BackInv, B!Least
<1>7. delay' \in Nat /\ upcoming' \in Nat
  BY <1>1, <1>3, <1>5 DEF B!Least
<1>8. streak' = InstantExitStrikes => over
  BY <1>1, <1>2, <1>3, <1>4, <1>5 DEF BackInv, B!Least
<1>9. QED
  BY <1>2, <1>5, <1>6, <1>7, <1>8 DEF BackInv

LEMMA BackHolds ==
  ASSUME B!BackoffAssumption
  PROVE  B!BackoffSpec => []BackInv
<1>1. B!BackoffInit => BackInv
  <2> SUFFICES ASSUME B!BackoffInit
               PROVE  BackInv
    OBVIOUS
  <2>1. BackoffMin \in Nat
    BY DEF B!BackoffAssumption
  <2>2. /\ upcoming \in Nat /\ delay = 0 /\ strikes = 0 /\ streak = 0
        /\ capped = FALSE /\ storm = FALSE
    BY <2>1 DEF B!BackoffInit
  <2>3. /\ delay \in Nat /\ strikes \in Nat /\ streak \in Nat /\ streak <= strikes
        /\ ~(delay # 0)
    BY <2>2
  <2>4. capped \in BOOLEAN /\ storm \in BOOLEAN /\ ~capped /\ ~storm
    BY <2>2
  <2>5. QED
    BY <2>2, <2>3, <2>4 DEF BackInv
<1>2. BackInv /\ [B!BackoffNext]_B!bvars => BackInv'
  <2>1. CASE B!BackoffNext
    BY <2>1, BackStep DEF B!BackoffNext
  <2>2. CASE UNCHANGED B!bvars
    BY <2>2 DEF BackInv, B!bvars, B!Least
  <2>3. QED
    BY <2>1, <2>2
<1>3. QED
  BY <1>1, <1>2, PTL DEF B!BackoffSpec

\* A remote that failed instantly often enough in a row waits as long as the
\* longest backoff ever after, for any limits and uptimes (StormIsOver, part of
\* RemotesHold).
THEOREM StormsEnd ==
  ASSUME B!BackoffAssumption
  PROVE  B!BackoffSpec => []B!StormIsOver
<1>1. BackInv => B!StormIsOver
  BY DEF BackInv, B!StormIsOver
<1>2. QED
  BY <1>1, BackHolds, PTL

\* And until a connection lasts each wait is twice the one before, as far as
\* the longest allows (WaitsGrow, part of RemotesHold).
THEOREM WaitsDouble ==
  ASSUME B!BackoffAssumption
  PROVE  B!BackoffSpec => B!WaitsGrow
<1> DEFINE Fine == \A uptime \in Uptimes :
       delay # 0 /\ uptime < HealthyUptime /\ B!RecordExit(uptime) =>
         delay' >= B!Least(2 * delay, BackoffMax)
<1>1. BackInv => [Fine]_B!bvars
  <2> SUFFICES ASSUME BackInv, NEW uptime \in Uptimes, delay # 0,
                      uptime < HealthyUptime, B!RecordExit(uptime)
               PROVE  delay' >= B!Least(2 * delay, BackoffMax)
    OBVIOUS
  <2>1. uptime \in Nat /\ HealthyUptime \in Nat /\ BackoffMax \in Nat
    BY DEF B!BackoffAssumption
  <2>2. ~B!Restarts(uptime)
    BY <2>1 DEF B!Restarts
  <2>3. delay' \in {BackoffMax, upcoming} /\ upcoming = B!Least(2 * delay, BackoffMax)
    BY <2>2 DEF B!RecordExit, BackInv
  <2>4. QED
    BY <2>1, <2>3 DEF BackInv, B!Least
<1>2. QED
  BY <1>1, BackHolds, PTL DEF B!WaitsGrow
-----------------------------------------------------------------------------
(* Whether a session is live (Liveness). *)

CONSTANTS Silence, Idle, Mult, Fresh
VARIABLES clock, meta, writer, known, state

L == INSTANCE Liveness WITH now <- clock, seen <- known

\* What the store says is not from the future, and Claude's says less.
LiveInv ==
  /\ clock \in Nat /\ writer \in BOOLEAN /\ known \in BOOLEAN
  /\ meta \in L!Metas /\ meta.last <= clock
  /\ meta.claude => ~meta.pending /\ ~meta.closed

LEMMA LiveHolds ==
  ASSUME L!LivenessAssumption
  PROVE  L!LSpec => []LiveInv
<1>1. L!LInit => LiveInv
  <2> SUFFICES ASSUME L!LInit
               PROVE  LiveInv
    OBVIOUS
  <2>1. clock = 1 /\ writer \in BOOLEAN /\ known = FALSE /\ meta \in L!Metas /\ meta.last = 0
    BY DEF L!LInit
  <2>2. meta.claude => ~meta.pending /\ ~meta.closed
    BY DEF L!LInit
  <2>3. clock \in Nat /\ meta.last <= clock
    BY <2>1
  <2>4. QED
    BY <2>1, <2>2, <2>3 DEF LiveInv
<1>2. LiveInv /\ [L!LNext]_L!lvars => LiveInv'
  <2> SUFFICES ASSUME LiveInv, [L!LNext]_L!lvars
               PROVE  LiveInv'
    OBVIOUS
  <2>1. CASE L!StoreRecords
    BY <2>1 DEF L!StoreRecords, LiveInv, L!Metas
  <2>2. CASE L!Handle
    BY <2>2 DEF L!Handle, LiveInv, L!Metas
  <2>3. CASE L!Scans
    BY <2>3 DEF L!Scans, LiveInv, L!Metas
  <2>4. CASE L!Passes
    BY <2>4 DEF L!Passes, LiveInv, L!Metas
  <2>5. CASE UNCHANGED L!lvars
    BY <2>5 DEF L!lvars, LiveInv, L!Metas
  <2>6. QED
    BY <2>1, <2>2, <2>3, <2>4, <2>5 DEF L!LNext
<1>3. QED
  BY <1>1, <1>2, PTL DEF L!LSpec

LEMMA TimesAtLeast ==
  ASSUME NEW m \in Nat, NEW n \in Nat \ {0}
  PROVE  m <= m * n /\ m * n \in Nat
  OBVIOUS

\* The verdict on a followed session, by how long it has been silent.
LEMMA VerdictIs ==
  ASSUME L!LivenessAssumption, LiveInv, NEW t \in Nat, meta.last <= t
  PROVE  LET d == t - meta.last
             leash == IF meta.pending THEN Idle * Mult ELSE Idle
             active == ~meta.closed /\ ((writer /\ meta.claude) \/ d <= leash)
         IN  L!Verdict(t, TRUE) =
               IF active THEN IF meta.tool /\ d > Silence THEN "perm" ELSE "live"
               ELSE IF d > Fresh THEN "gone"
               ELSE IF meta.pending /\ ~meta.closed THEN "stuck" ELSE "done"
<1> DEFINE d == t - meta.last
           leash == IF meta.pending THEN Idle * Mult ELSE Idle
           active == ~meta.closed /\ ((writer /\ meta.claude) \/ d <= leash)
           forced == writer /\ L!Probed(meta, t, TRUE)
<1>1. d \in Nat /\ Idle \in Nat /\ Fresh \in Nat /\ Silence \in Nat
  BY DEF LiveInv, L!Metas, L!LivenessAssumption
<1>2. L!RawLive(meta, t, forced) = active
  BY <1>1 DEF L!RawLive, L!Ceiling, L!Probed, LiveInv, L!Metas
<1>3. L!Verdict(t, TRUE) = L!Row(L!Classify(meta, t, forced), meta, t)
  BY DEF L!Verdict
<1>4. d <= Fresh <=> ~(d > Fresh)
  BY <1>1
<1>5. QED
  BY <1>2, <1>3, <1>4 DEF L!Classify, L!Row

LEMMA AgeOrder ==
  ASSUME NEW v, NEW w,
         \/ v = w /\ v \in {"stuck", "done", "gone"}
         \/ w = "gone" /\ v \in {"stuck", "done", "gone"}
         \/ v \in {"live", "perm"} /\ w \in {"stuck", "done", "gone"}
         \/ v \in {"live", "perm"} /\ w \in {"live", "perm"} /\ (v = "perm" => w = "perm")
  PROVE  L!Age[v] <= L!Age[w]
<1>1. /\ L!Age["live"] = 0 /\ L!Age["perm"] = 1 /\ L!Age["stuck"] = 2
      /\ L!Age["done"] = 3 /\ L!Age["gone"] = 4
  BY DEF L!Age
<1>2. QED
  BY <1>1

LEMMA VerdictAges ==
  ASSUME L!LivenessAssumption, LiveInv, NEW t \in Nat, NEW u \in Nat,
         meta.last <= t, t <= u
  PROVE  L!Age[L!Verdict(t, TRUE)] <= L!Age[L!Verdict(u, TRUE)]
<1> DEFINE leash == IF meta.pending THEN Idle * Mult ELSE Idle
           Active(v) == ~meta.closed /\ ((writer /\ meta.claude) \/ v - meta.last <= leash)
           Shown(v) == IF Active(v) THEN IF meta.tool /\ v - meta.last > Silence THEN "perm" ELSE "live"
                       ELSE IF v - meta.last > Fresh THEN "gone"
                       ELSE IF meta.pending /\ ~meta.closed THEN "stuck" ELSE "done"
<1>0. meta.last <= u
  BY DEF LiveInv, L!Metas, L!LivenessAssumption
<1>1. L!Verdict(t, TRUE) = Shown(t)
  BY VerdictIs
<1>2. L!Verdict(u, TRUE) = Shown(u)
  BY <1>0, VerdictIs
<1>3. /\ t - meta.last \in Nat /\ u - meta.last \in Nat /\ t - meta.last <= u - meta.last
      /\ Idle \in Nat /\ Idle * Mult \in Nat /\ Fresh \in Nat /\ Silence \in Nat
  BY TimesAtLeast DEF LiveInv, L!Metas, L!LivenessAssumption
<1>4. Active(u) => Active(t)
  BY <1>3
<1>5. /\ t - meta.last > Fresh => u - meta.last > Fresh
      /\ t - meta.last > Silence => u - meta.last > Silence
  BY <1>3
<1> HIDE DEF leash, Active, Shown
<1>7. CASE Active(u)
  <2>1. /\ Shown(t) \in {"live", "perm"} /\ Shown(u) \in {"live", "perm"}
        /\ Shown(t) = "perm" => Shown(u) = "perm"
    BY <1>4, <1>5, <1>7 DEF Shown
  <2>2. QED
    BY <1>1, <1>2, <2>1, AgeOrder
<1>8. CASE ~Active(u) /\ Active(t)
  <2>1. Shown(t) \in {"live", "perm"} /\ Shown(u) \in {"stuck", "done", "gone"}
    BY <1>8 DEF Shown
  <2>2. QED
    BY <1>1, <1>2, <2>1, AgeOrder
<1>9. CASE ~Active(u) /\ ~Active(t)
  <2>1. /\ Shown(t) = Shown(u) \/ Shown(u) = "gone"
        /\ Shown(t) \in {"stuck", "done", "gone"}
    BY <1>5, <1>9 DEF Shown
  <2>2. QED
    BY <1>1, <1>2, <2>1, AgeOrder
<1>10. QED
  BY <1>4, <1>7, <1>8, <1>9

\* No verdict on a silent session is taken back by time, and in the end it is
\* gone or a process keeps it, for any timeouts (SilenceOnlyAges, part of
\* TranscriptsHold).
THEOREM SilentSessionsAge ==
  ASSUME L!LivenessAssumption
  PROVE  L!LSpec => []L!SilenceOnlyAges
<1>1. LiveInv => L!SilenceOnlyAges
  <2> SUFFICES ASSUME LiveInv
               PROVE  L!SilenceOnlyAges
    OBVIOUS
  <2>1. ASSUME NEW t \in clock .. MaxTime
        PROVE  t \in Nat /\ meta.last <= t
    BY DEF LiveInv, L!Metas, L!LivenessAssumption
  <2>2. ASSUME NEW t \in clock .. MaxTime, NEW u \in clock .. MaxTime, t <= u
        PROVE  L!Age[L!Verdict(t, TRUE)] <= L!Age[L!Verdict(u, TRUE)]
    BY <2>1, <2>2, VerdictAges
  <2>3. ASSUME NEW t \in clock .. MaxTime,
               t - meta.last > Fresh, t - meta.last > Idle * Mult
        PROVE  \/ L!Verdict(t, TRUE) = "gone"
               \/ writer /\ L!Verdict(t, TRUE) \in {"live", "perm"}
    <3>1. /\ Idle \in Nat /\ Idle * Mult \in Nat /\ Idle <= Idle * Mult
          /\ t - meta.last \in Nat
      BY <2>1, TimesAtLeast DEF LiveInv, L!Metas, L!LivenessAssumption
    <3>2. ~(t - meta.last <= IF meta.pending THEN Idle * Mult ELSE Idle)
      BY <2>3, <3>1
    <3>3. QED
      BY <2>1, <2>3, <3>2, VerdictIs
  <2>4. QED
    BY <2>2, <2>3 DEF L!SilenceOnlyAges
<1>2. QED
  BY <1>1, LiveHolds, PTL

\* A followed Claude session whose transcript a process holds is never done
\* (WriterKeepsSession, part of TranscriptsHold).
THEOREM WritersKeepSessions ==
  ASSUME L!LivenessAssumption
  PROVE  L!LSpec => L!WriterKeepsSession
<1> DEFINE Fine == meta.claude /\ writer /\ known /\ L!Scans => state' \in {"live", "perm"}
<1>1. LiveInv => [Fine]_L!lvars
  <2> SUFFICES ASSUME LiveInv, meta.claude, writer, known, L!Scans
               PROVE  state' \in {"live", "perm"}
    OBVIOUS
  <2>1. clock \in Nat /\ meta.last <= clock
    BY DEF LiveInv
  <2>2. known = TRUE
    BY DEF LiveInv
  <2>3. state' = L!Verdict(clock, TRUE)
    BY <2>2 DEF L!Scans, L!Verdict
  <2>4. QED
    BY <2>1, <2>3, VerdictIs DEF LiveInv
<1>2. QED
  BY <1>1, LiveHolds, PTL DEF L!WriterKeepsSession
-----------------------------------------------------------------------------
(* Which containers are followed, under which names (Discovery). *)

CONSTANTS Bad, Containers, Created, Names, Explicit, Reports
VARIABLES managed, remotes, disabled, listed

D == INSTANCE Discovery

\* What is followed was listed so, and the roster is in step.
DiscInv ==
  /\ \A id \in DOMAIN managed :
       /\ managed[id] \in Names
       /\ id \in DOMAIN listed /\ listed[id] = managed[id]
  /\ \A id, other \in DOMAIN managed : managed[id] = managed[other] => id = other
  /\ \A id \in DOMAIN managed : managed[id] \notin Explicit
  /\ \A n \in Names :
       remotes[n] = IF n \in Explicit \/ D!Holders(n) # {} THEN 1 ELSE 0

LEMMA RosterIs ==
  ASSUME DiscInv
  PROVE  D!RosterInStep
<1>1. D!IsInjective(managed)
  BY DEF DiscInv, D!IsInjective
<1>2. \A n : n \in D!Range(managed) <=> D!Holders(n) # {}
  BY DEF D!Range, D!Holders
<1>3. D!Range(managed) \cap Explicit = {}
  BY <1>2 DEF DiscInv, D!Holders
<1>4. QED
  BY <1>1, <1>2, <1>3 DEF DiscInv, D!RosterInStep

\* Who wins a name: its holder or, if it has none, the one that is older than
\* all the others.
LEMMA WinnerIs ==
  ASSUME D!DiscoveryAssumption, DiscInv, NEW list \in D!Listings, NEW n \in Names,
         NEW id \in D!Winners(list, n)
  PROVE  /\ id \in DOMAIN list /\ D!Resolved(list[id]) = n /\ n \notin Explicit
         /\ D!Holders(n) # {} => id \in D!Holders(n)
         /\ D!Holders(n) = {} =>
              \A other \in D!Contenders(list, n) \ {id} : Created[id] < Created[other]
         /\ \A other \in D!Winners(list, n) : other = id
<1>1. id \in D!Contenders(list, n) /\ n \notin Explicit
  BY DEF D!Winners, D!Oldest
<1>2. CASE D!Holders(n) # {}
  <2>1. \A other \in D!Winners(list, n) : other \in D!Holders(n)
    BY <1>2 DEF D!Winners
  <2>2. QED
    BY <1>1, <1>2, <2>1 DEF D!Contenders, D!Holders, DiscInv
<1>3. CASE D!Holders(n) = {}
  <2>1. D!Winners(list, n) = D!Oldest(D!Contenders(list, n))
    BY <1>1, <1>3 DEF D!Winners
  <2>2. \A other \in D!Contenders(list, n) : Created[other] \in Nat
    BY DEF D!Contenders, D!Listings, D!DiscoveryAssumption
  <2>3. \A other \in D!Contenders(list, n) \ {id} : Created[id] < Created[other]
    BY <2>1 DEF D!Oldest
  <2>4. ASSUME NEW other \in D!Winners(list, n), other # id
        PROVE  FALSE
    BY <1>1, <2>1, <2>2, <2>3, <2>4 DEF D!Oldest
  <2>5. QED
    BY <1>1, <1>3, <2>3, <2>4 DEF D!Contenders
<1>4. QED
  BY <1>2, <1>3

\* After a scan.
LEMMA TickIs ==
  ASSUME D!DiscoveryAssumption, DiscInv, NEW list \in D!Listings, D!Tick(list)
  PROVE  /\ \A id \in DOMAIN managed' :
              /\ managed'[id] \in Names /\ id \in D!Winners(list, managed'[id])
              /\ id \in DOMAIN listed' /\ listed'[id] = managed'[id]
         /\ \A n \in Names : \A id \in D!Winners(list, n) :
              id \in DOMAIN managed' /\ managed'[id] = n
         /\ \A n : D!Claimed(listed', n) = D!Contenders(list, n)
<1> DEFINE next == [id \in D!Follows(list) |-> D!Resolved(list[id])]
<1>1. managed' = next /\ listed' = [id \in DOMAIN list |-> D!Resolved(list[id])]
  BY DEF D!Tick
<1>2. ASSUME NEW id \in DOMAIN managed'
      PROVE  /\ managed'[id] \in Names /\ id \in D!Winners(list, managed'[id])
             /\ id \in DOMAIN listed' /\ listed'[id] = managed'[id]
  <2>1. id \in DOMAIN list /\ managed'[id] = D!Resolved(list[id]) /\ id \in D!Follows(list)
    BY <1>1 DEF D!Follows
  <2>2. PICK n \in Names : id \in D!Winners(list, n)
    BY <2>1 DEF D!Follows
  <2>3. QED
    BY <1>1, <2>1, <2>2, WinnerIs
<1>3. ASSUME NEW n \in Names, NEW id \in D!Winners(list, n)
      PROVE  id \in DOMAIN managed' /\ managed'[id] = n
  BY <1>1, WinnerIs DEF D!Follows
<1>4. \A n : D!Claimed(listed', n) = D!Contenders(list, n)
  BY <1>1 DEF D!Claimed, D!Contenders
<1>5. QED
  BY <1>2, <1>3, <1>4

LEMMA DiscTick ==
  ASSUME D!DiscoveryAssumption, DiscInv, NEW list \in D!Listings, D!Tick(list)
  PROVE  DiscInv'
<1>1. \A id, other \in DOMAIN managed' : managed'[id] = managed'[other] => id = other
  BY TickIs, WinnerIs
<1>2. \A id \in DOMAIN managed' : managed'[id] \notin Explicit
  BY TickIs, WinnerIs
<1>3. ASSUME NEW n \in Names
      PROVE  remotes'[n] = IF n \in Explicit \/ D!Holders(n)' # {} THEN 1 ELSE 0
  <2> DEFINE gone == n \in D!Removes(managed')
             new  == n \in D!Spawns(managed')
  <2>1. remotes'[n] = (IF gone THEN 0 ELSE remotes[n]) + (IF new THEN 1 ELSE 0)
    BY DEF D!Tick
  <2>2. gone <=> \E id \in DOMAIN managed :
                   managed[id] = n /\ (id \in DOMAIN managed' => managed'[id] # managed[id])
    BY DEF D!Removes
  <2>3. new <=> \E id \in DOMAIN managed' :
                  managed'[id] = n /\ (id \in DOMAIN managed => managed'[id] # managed[id])
    BY DEF D!Spawns
  <2>4. /\ D!Holders(n) = {id \in DOMAIN managed : managed[id] = n}
        /\ D!Holders(n)' = {id \in DOMAIN managed' : managed'[id] = n}
    BY DEF D!Holders
  <2>5. remotes[n] = IF n \in Explicit \/ D!Holders(n) # {} THEN 1 ELSE 0
    BY DEF DiscInv
  <2> HIDE DEF gone, new
  <2>6. CASE n \in Explicit
    <3>1. D!Holders(n) = {} /\ D!Holders(n)' = {}
      BY <1>2, <2>4, <2>6 DEF DiscInv
    <3>2. ~gone /\ ~new
      BY <2>2, <2>3, <2>4, <3>1
    <3>3. QED
      BY <2>1, <2>5, <2>6, <3>2
  <2>7. ASSUME n \notin Explicit, NEW id \in D!Holders(n)'
        PROVE  remotes'[n] = 1
    <3>1. id \in DOMAIN managed' /\ managed'[id] = n /\ id \in D!Winners(list, n)
      BY <2>4, <2>7, TickIs
    <3>2. CASE D!Holders(n) # {}
      <4>1. id \in D!Holders(n)
        BY <3>1, <3>2, WinnerIs
      <4>2. ~gone /\ ~new
        BY <1>1, <2>2, <2>3, <2>4, <3>1, <4>1 DEF DiscInv
      <4>3. QED
        BY <2>1, <2>5, <3>2, <4>2
    <3>3. CASE D!Holders(n) = {}
      <4>1. ~gone /\ new
        BY <2>2, <2>3, <2>4, <3>1, <3>3
      <4>2. QED
        BY <2>1, <2>5, <2>7, <3>3, <4>1
    <3>4. QED
      BY <3>2, <3>3
  <2>8. CASE n \notin Explicit /\ D!Holders(n)' = {}
    <3>1. ~new
      BY <2>3, <2>4, <2>8
    <3>2. D!Holders(n) # {} => gone
      BY <2>2, <2>4, <2>8
    <3>3. QED
      BY <2>1, <2>5, <2>8, <3>1, <3>2
  <2>9. QED
    BY <2>6, <2>7, <2>8
<1>4. QED
  BY <1>1, <1>2, <1>3, TickIs DEF DiscInv

LEMMA DiscHolds ==
  ASSUME D!DiscoveryAssumption
  PROVE  D!DiscoverySpec => []DiscInv
<1> DEFINE Empty == <<>>
<1>0. DOMAIN Empty = {}
  OBVIOUS
<1> HIDE DEF Empty
<1>1. D!DiscoveryInit => DiscInv
  <2> SUFFICES ASSUME D!DiscoveryInit
               PROVE  DiscInv
    OBVIOUS
  <2>1. DOMAIN managed = {}
    BY <1>0 DEF D!DiscoveryInit, Empty
  <2>2. \A n \in Names : remotes[n] = IF n \in Explicit THEN 1 ELSE 0
    BY DEF D!DiscoveryInit
  <2>3. QED
    BY <2>1, <2>2 DEF DiscInv, D!Holders
<1>2. DiscInv /\ [D!DiscoveryNext]_D!dvars => DiscInv'
  <2>1. ASSUME DiscInv, UNCHANGED <<managed, remotes, listed>>
        PROVE  DiscInv'
    BY <2>1 DEF DiscInv, D!Holders
  <2>2. QED
    BY <2>1, DiscTick DEF D!DiscoveryNext, D!DockerFails, D!dvars
<1>3. QED
  BY <1>1, <1>2, PTL DEF D!DiscoverySpec

\* The roster has one remote under each name of the user's and of the followed
\* containers, and no other, for any containers and reports (RosterInStep, part
\* of RemotesHold).
THEOREM RosterFollowsDocker ==
  ASSUME D!DiscoveryAssumption
  PROVE  D!DiscoverySpec => []D!RosterInStep
BY RosterIs, DiscHolds, PTL

\* A name is free for a scan at least between two containers (NoHandover, part
\* of RemotesHold).
THEOREM NamesRest ==
  ASSUME D!DiscoveryAssumption
  PROVE  D!DiscoverySpec => D!NoHandover
<1> DEFINE Fine == \A id, other \in Containers :
       id # other /\ id \in DOMAIN managed /\ other \in DOMAIN managed' =>
         managed[id] # managed'[other]
<1>1. DiscInv /\ [D!DiscoveryNext]_D!dvars => [Fine]_D!dvars
  <2> SUFFICES ASSUME DiscInv, D!DiscoveryNext,
                      NEW id \in DOMAIN managed, NEW other \in DOMAIN managed',
                      managed[id] = managed'[other]
               PROVE  id = other
    OBVIOUS
  <2>1. ASSUME NEW list \in D!Listings, D!Tick(list)
        PROVE  id = other
    <3>1. other \in D!Winners(list, managed[id]) /\ managed[id] \in Names
      BY <2>1, TickIs
    <3>2. D!Holders(managed[id]) # {}
      BY DEF D!Holders
    <3>3. other \in D!Holders(managed[id])
      BY <2>1, <3>1, <3>2, WinnerIs
    <3>4. QED
      BY <3>3 DEF D!Holders, DiscInv
  <2>2. CASE D!DockerFails
    BY <2>2 DEF D!DockerFails, DiscInv
  <2>3. QED
    BY <2>1, <2>2 DEF D!DiscoveryNext
<1>2. QED
  BY <1>1, DiscHolds, PTL DEF D!DiscoverySpec, D!NoHandover

\* A free name goes to none but the oldest of those that contend for it
\* (OldestIsFollowed, part of RemotesHold).
THEOREM OldestWins ==
  ASSUME D!DiscoveryAssumption
  PROVE  D!DiscoverySpec => D!OldestIsFollowed
<1> DEFINE Fine == \A id \in DOMAIN managed' :
       \/ id \in DOMAIN managed /\ managed[id] = managed'[id]
       \/ \A other \in D!Claimed(listed', managed'[id]) \ {id} :
            Created[id] < Created[other]
<1>1. DiscInv /\ [D!DiscoveryNext]_D!dvars => [Fine]_D!dvars
  <2> SUFFICES ASSUME DiscInv, D!DiscoveryNext, NEW id \in DOMAIN managed',
                      ~(id \in DOMAIN managed /\ managed[id] = managed'[id])
               PROVE  \A other \in D!Claimed(listed', managed'[id]) \ {id} :
                        Created[id] < Created[other]
    OBVIOUS
  <2>1. ASSUME NEW list \in D!Listings, D!Tick(list)
        PROVE  \A other \in D!Claimed(listed', managed'[id]) \ {id} :
                 Created[id] < Created[other]
    <3>1. id \in D!Winners(list, managed'[id]) /\ managed'[id] \in Names
      BY <2>1, TickIs
    <3>2. id \notin D!Holders(managed'[id])
      BY DEF D!Holders
    <3>3. QED
      BY <2>1, <3>1, <3>2, WinnerIs, TickIs
  <2>2. QED
    BY <2>1 DEF D!DiscoveryNext, D!DockerFails
<1>2. QED
  BY <1>1, DiscHolds, PTL DEF D!DiscoverySpec, D!OldestIsFollowed

\* Who alone claims a name in two scans is followed under it after the second
\* (FollowedSoon, part of RemotesHold).
THEOREM ClaimantsAreFollowed ==
  ASSUME D!DiscoveryAssumption
  PROVE  D!DiscoverySpec => D!FollowedSoon
<1> DEFINE Fine == \A id \in Containers :
       \A n \in Names \ Explicit :
         D!Claimed(listed, n) = {id} /\ D!Claimed(listed', n) = {id}
             /\ ~disabled /\ ~disabled'
           => id \in DOMAIN managed' /\ managed'[id] = n
<1>1. DiscInv /\ [D!DiscoveryNext]_D!dvars => [Fine]_D!dvars
  <2> SUFFICES ASSUME DiscInv, D!DiscoveryNext, NEW id, NEW n \in Names \ Explicit,
                      D!Claimed(listed, n) = {id}, D!Claimed(listed', n) = {id}, ~disabled'
               PROVE  id \in DOMAIN managed' /\ managed'[id] = n
    OBVIOUS
  <2>1. PICK list \in D!Listings : D!Tick(list)
    BY DEF D!DiscoveryNext, D!DockerFails
  <2>2. D!Contenders(list, n) = {id}
    BY <2>1, TickIs
  <2>3. D!Holders(n) \subseteq {id}
    BY DEF D!Holders, D!Claimed, DiscInv
  <2>4. id \in D!Winners(list, n)
    BY <2>2, <2>3 DEF D!Winners, D!Oldest
  <2>5. QED
    BY <2>1, <2>4, TickIs
<1>2. QED
  BY <1>1, DiscHolds, PTL DEF D!DiscoverySpec, D!FollowedSoon
-----------------------------------------------------------------------------
(* How sources that keep transcripts in files find sessions (SessionScan). *)

CONSTANTS Vendors, Paths, Ids, NameOf, Window
VARIABLES vendor, tree, hour, parsed, statistics, deck, index, ever

X == INSTANCE SessionScan WITH known <- parsed, listed <- deck

LEMMA ScanCounts == \A S : X!Cardinality(S) = Cardinality(S)
  BY DEF X!Cardinality, Cardinality

\* What is remembered of files is of files that have been there.
ScanTypes ==
  /\ vendor \in {"claude", "codex", "grok", "gemini"}
  /\ IsFiniteSet(ever) /\ ever \subseteq Paths /\ DOMAIN tree = Paths
  /\ \A p \in X!Present : p \in ever /\ tree[p].says \in Ids \cup {None}
  /\ DOMAIN parsed \subseteq ever /\ \A p \in DOMAIN parsed : parsed[p] \in Ids
  /\ \A i \in DOMAIN statistics : statistics[i] \in ever /\ NameOf[statistics[i]] = i

ScanInv == ScanTypes /\ X!RowsOpenTheirFile

\* A set of one element at most.
LEMMA AloneIn ==
  ASSUME NEW S, IsFiniteSet(S), X!Cardinality(S) <= 1, NEW p \in S
  PROVE  S = {p}
<1>1. Cardinality(S) \in Nat /\ Cardinality(S) <= 1
  BY FS_CardinalityType, ScanCounts
<1>2. IsFiniteSet(S \ {p}) /\ Cardinality(S \ {p}) = Cardinality(S) - 1
  BY FS_RemoveElement
<1>3. Cardinality(S \ {p}) \in Nat
  BY <1>2, FS_CardinalityType
<1>4. S \ {p} = {}
  BY <1>1, <1>2, <1>3, FS_EmptySet
<1>5. QED
  BY <1>4

\* What a scan reads.
LEMMA ReadsIds ==
  ASSUME X!ScanAssumption, ScanTypes
  PROVE  /\ DOMAIN X!Read(X!Present, X!Stated) = X!Present
         /\ \A p \in X!Present :
              /\ X!Read(X!Present, X!Stated)[p] \in Ids
              /\ tree[p].whole => X!Read(X!Present, X!Stated)[p] = X!Stated(p)
         /\ X!Present \subseteq ever /\ X!Present \subseteq Paths
<1>1. X!Present \subseteq ever /\ X!Present \subseteq Paths
  BY DEF X!Present, ScanTypes
<1>2. \A p \in X!Present : X!Stated(p) \in Ids /\ NameOf[p] \in Ids
  BY <1>1 DEF X!Stated, X!ScanAssumption, ScanTypes
<1>3. \A p \in X!Present : p \in DOMAIN parsed => parsed[p] \in Ids
  BY DEF ScanTypes
<1>4. QED
  BY <1>1, <1>2, <1>3 DEF X!Read

\* The best of one is that one.
LEMMA BestOfOne ==
  ASSUME NEW p
  PROVE  X!Best({p}, X!Earlier) = p /\ X!Best({p}, <) = p
BY DEF X!Best

LEMMA CodexOpens ==
  ASSUME X!ScanAssumption, ScanTypes, vendor = "codex", UNCHANGED vendor, X!CodexScan
  PROVE  X!RowsOpenTheirFile'
<1> DEFINE read == X!Read(X!Present, X!Stated)
           Of(i) == {p \in X!Present : tree[p].whole /\ read[p] = i}
           all == {i \in Ids : Of(i) # {}}
           Top(i) == X!Best(Of(i), X!Earlier)
<1>1. /\ deck' = {[id |-> i, path |-> Top(i), found |-> Top(i)] : i \in all}
      /\ index' = [i \in all |-> {Top(i)}]
  BY DEF X!CodexScan
<1> HIDE DEF Top, all
<1>2. QED
  BY <1>1 DEF X!RowsOpenTheirFile

LEMMA GrokOpens ==
  ASSUME X!ScanAssumption, ScanTypes, vendor = "grok", UNCHANGED vendor, X!GrokScan
  PROVE  X!RowsOpenTheirFile'
<1> DEFINE read == X!Read(X!Present, X!Stated)
           Of(i) == {p \in X!Present : read[p] = i}
           all == {i \in Ids : Of(i) # {}}
           Top(i) == X!Best(Of(i), X!Earlier)
           First(i) == X!Best(Of(i), <)
<1>1. /\ deck' = {[id |-> i, path |-> Top(i), found |-> Top(i)] : i \in all}
      /\ index' = [i \in all |-> {First(i)}] /\ parsed' = read
  BY DEF X!GrokScan
<1>2. \A i \in all : X!Sharing(i)' = Of(i) /\ IsFiniteSet(Of(i))
  <2>1. \A i : X!Sharing(i)' = Of(i)
    BY <1>1, ReadsIds DEF X!Sharing
  <2>2. \A i : Of(i) \subseteq ever
    BY ReadsIds
  <2>3. QED
    BY <2>1, <2>2, FS_Subset DEF ScanTypes
<1>3. ASSUME NEW i \in all, X!Cardinality(X!Sharing(i)') <= 1
      PROVE  Top(i) = First(i)
  <2>1. PICK p : p \in Of(i)
    OBVIOUS
  <2>2. Of(i) = {p}
    BY <1>2, <1>3, <2>1, AloneIn
  <2> HIDE DEF Of
  <2>3. QED
    BY <2>2, BestOfOne
<1> HIDE DEF Top, First, all
<1>4. QED
  BY <1>1, <1>3 DEF X!RowsOpenTheirFile

LEMMA GeminiOpens ==
  ASSUME X!ScanAssumption, ScanTypes, vendor = "gemini", UNCHANGED vendor, X!GeminiScan
  PROVE  X!RowsOpenTheirFile'
<1> DEFINE read == X!Read(X!Present, X!Stated)
           Of(i) == {p \in X!Present : i \in {read[p], NameOf[p]}}
<1>1. /\ deck' = {[id |-> read[p], path |-> p, found |-> p] : p \in X!Present}
      /\ index' = [i \in {j \in Ids : Of(j) # {}} |-> Of(i)] /\ parsed' = read
  BY DEF X!GeminiScan
<1>2. \A i : X!Sharing(i)' = Of(i) /\ IsFiniteSet(Of(i))
  <2>1. \A i : X!Sharing(i)' = Of(i)
    BY <1>1, ReadsIds DEF X!Sharing
  <2>2. \A i : Of(i) \subseteq ever
    BY ReadsIds
  <2>3. QED
    BY <2>1, <2>2, FS_Subset DEF ScanTypes
<1>3. ASSUME NEW p \in X!Present, NEW i, i = read[p], X!Cardinality(X!Sharing(i)') <= 1
      PROVE  /\ index'[i] = {p}
             /\ \A o \in X!Present : read[o] = i => o = p
  <2>1. p \in Of(i) /\ i \in Ids
    BY <1>3, ReadsIds
  <2>2. Of(i) = {p}
    BY <1>2, <1>3, <2>1, AloneIn
  <2>3. QED
    BY <1>1, <2>1, <2>2
<1> HIDE DEF read
<1>4. QED
  BY <1>1, <1>3 DEF X!RowsOpenTheirFile

\* The totals of a name stay with a file of that name.
LEMMA ClaudeTotals ==
  ASSUME ScanTypes, X!ClaudeScan
  PROVE  \A i \in DOMAIN statistics' : statistics'[i] \in ever /\ NameOf[statistics'[i]] = i
<1> DEFINE recent == {p \in X!Present : hour <= tree[p].at + Window}
           names == {NameOf[p] : p \in recent}
<1>1. PICK first \in [names -> recent] :
        /\ \A i \in names : NameOf[first[i]] = i
        /\ statistics' = [i \in DOMAIN statistics \cup names |->
                            IF i \in DOMAIN statistics THEN statistics[i] ELSE first[i]]
  BY DEF X!ClaudeScan
<1>2. recent \subseteq ever
  BY DEF ScanTypes
<1>3. \A i \in names : first[i] \in ever
  BY <1>1, <1>2
<1> HIDE DEF names, recent
<1>4. QED
  BY <1>1, <1>3 DEF ScanTypes

LEMMA ClaudeOpens ==
  ASSUME ScanTypes, vendor = "claude", UNCHANGED <<vendor, ever>>, X!ClaudeScan
  PROVE  X!RowsOpenTheirFile'
<1> DEFINE recent == {p \in X!Present : hour <= tree[p].at + Window}
           Of(i) == {p \in ever : NameOf[p] = i}
<1>1. /\ deck' = {[id |-> NameOf[p], path |-> statistics'[NameOf[p]], found |-> p] : p \in recent}
      /\ index' = [i \in DOMAIN statistics' |-> {statistics'[i]}]
      /\ \A p \in recent : NameOf[p] \in DOMAIN statistics'
  BY DEF X!ClaudeScan
<1>2. \A i : X!Sharing(i)' = Of(i) /\ IsFiniteSet(Of(i))
  <2>1. \A i : X!Sharing(i)' = Of(i)
    BY DEF X!Sharing
  <2>2. QED
    BY <2>1, FS_Subset DEF ScanTypes
<1>3. ASSUME NEW p \in recent, X!Cardinality(X!Sharing(NameOf[p])') <= 1
      PROVE  /\ statistics'[NameOf[p]] = p
             /\ \A o \in recent : NameOf[o] = NameOf[p] => o = p
  <2>1. \A o \in recent : o \in ever
    BY DEF ScanTypes
  <2>2. Of(NameOf[p]) = {p}
    BY <1>2, <1>3, <2>1, AloneIn
  <2>3. statistics'[NameOf[p]] \in Of(NameOf[p])
    BY <1>1, ClaudeTotals
  <2>4. QED
    BY <2>1, <2>2, <2>3
<1> HIDE DEF recent
<1>4. QED
  BY <1>1, <1>3 DEF X!RowsOpenTheirFile

\* Nothing but a scan changes rows; more files may come to be meant by an id.
LEMMA RowsStay ==
  ASSUME ScanTypes, X!RowsOpenTheirFile, ScanTypes', ever \subseteq ever',
         UNCHANGED <<vendor, parsed, statistics, deck, index>>
  PROVE  X!RowsOpenTheirFile'
<1>1. ASSUME NEW i, X!Cardinality(X!Sharing(i)') <= 1
      PROVE  X!Cardinality(X!Sharing(i)) <= 1
  <2>1. X!Sharing(i) \subseteq X!Sharing(i)'
    BY DEF X!Sharing, ScanTypes
  <2>2. X!Sharing(i)' \subseteq ever'
    BY DEF X!Sharing, ScanTypes
  <2>3. IsFiniteSet(X!Sharing(i)')
    BY <2>2, FS_Subset DEF ScanTypes
  <2>4. /\ IsFiniteSet(X!Sharing(i))
        /\ Cardinality(X!Sharing(i)) <= Cardinality(X!Sharing(i)')
    BY <2>1, <2>3, FS_Subset
  <2>5. Cardinality(X!Sharing(i)) \in Nat /\ Cardinality(X!Sharing(i)') \in Nat
    BY <2>3, <2>4, FS_CardinalityType
  <2>6. QED
    BY <1>1, <2>4, <2>5, ScanCounts
<1>2. QED
  BY <1>1 DEF X!RowsOpenTheirFile

LEMMA ScanStep ==
  ASSUME X!ScanAssumption, ScanInv, [X!ScanNext]_X!scanvars
  PROVE  ScanInv'
<1>1. CASE X!Scan
  <2>1. UNCHANGED <<vendor, tree, hour, ever>>
    BY <1>1 DEF X!Scan
  <2>2. CASE vendor = "claude"
    <3>1. X!ClaudeScan
      BY <1>1, <2>2 DEF X!Scan
    <3>2. ScanTypes'
      BY <2>1, <3>1, ClaudeTotals DEF ScanInv, ScanTypes, X!ClaudeScan, X!Present
    <3>3. QED
      BY <2>1, <2>2, <3>1, <3>2, ClaudeOpens DEF ScanInv
  <2>3. CASE vendor # "claude"
    <3>1. \/ vendor = "codex" /\ X!CodexScan
          \/ vendor = "grok" /\ X!GrokScan
          \/ vendor = "gemini" /\ X!GeminiScan
      BY <1>1, <2>3 DEF X!Scan, ScanInv, ScanTypes
    <3>2. parsed' = X!Read(X!Present, X!Stated) /\ UNCHANGED statistics
      BY <3>1 DEF X!CodexScan, X!GrokScan, X!GeminiScan
    <3>3. ScanTypes'
      BY <2>1, <3>2, ReadsIds DEF ScanInv, ScanTypes, X!Present
    <3>4. QED
      BY <2>1, <3>1, <3>3, CodexOpens, GrokOpens, GeminiOpens DEF ScanInv
  <2>4. QED
    BY <2>2, <2>3
<1>2. ASSUME NEW p \in Paths, NEW file, X!Put(p, file),
             file # None => file.says \in Ids \cup {None}
      PROVE  ScanInv'
  <2>1. ever' = ever \cup {p} /\ tree' = [tree EXCEPT ![p] = file]
        /\ UNCHANGED <<vendor, parsed, statistics, deck, index>>
    BY <1>2 DEF X!Put
  <2>2. IsFiniteSet(ever')
    BY <2>1, FS_AddElement DEF ScanInv, ScanTypes
  <2>3. ScanTypes'
    BY <1>2, <2>1, <2>2 DEF ScanInv, ScanTypes, X!Present
  <2>4. QED
    BY <2>1, <2>3, RowsStay DEF ScanInv
<1>3. CASE X!Passes \/ UNCHANGED X!scanvars
  <2>1. ScanTypes'
    BY <1>3 DEF ScanInv, ScanTypes, X!Present, X!Passes, X!scanvars
  <2>2. QED
    BY <1>3, <2>1, RowsStay DEF ScanInv, X!Passes, X!scanvars
<1>4. CASE X!Writes
  <2>1. PICK p \in Paths, says \in Ids \cup {None}, whole \in BOOLEAN :
          X!Put(p, [says |-> says, at |-> hour, whole |-> whole])
    BY <1>4 DEF X!Writes
  <2>2. QED
    BY <1>2, <2>1
<1>5. CASE X!Removes
  BY <1>2, <1>5 DEF X!Removes, X!Present
<1>6. QED
  BY <1>1, <1>3, <1>4, <1>5 DEF X!ScanNext

\* A row opens the file it was found at, whatever files have its id or had it,
\* unless two could be meant by it, for any files, ids and times
\* (RowsOpenTheirFile, part of TranscriptsHold).
THEOREM RowsOpenWhatTheyShow ==
  ASSUME X!ScanAssumption
  PROVE  X!ScanSpec => []X!RowsOpenTheirFile
<1>1. X!ScanInit => ScanInv
  BY FS_EmptySet DEF X!ScanInit, ScanInv, ScanTypes, X!RowsOpenTheirFile, X!Present, X!ScanAssumption
<1>2. ScanInv /\ [X!ScanNext]_X!scanvars => ScanInv'
  BY ScanStep
<1>3. ScanInv => X!RowsOpenTheirFile
  BY DEF ScanInv
<1>4. QED
  BY <1>1, <1>2, <1>3, PTL DEF X!ScanSpec

\* Whatever id a file states that can be read is on a row after a scan, the name
\* of what changed lately for Claude, for any files, ids and times
\* (NothingUnseen, part of TranscriptsHold).
THEOREM NoSessionUnseen ==
  ASSUME X!ScanAssumption
  PROVE  X!ScanSpec => X!NothingUnseen
<1> DEFINE Id(p) == IF vendor = "claude" THEN NameOf[p] ELSE X!Stated(p)
           Fine == X!Scan => \A p \in X!Present :
       tree[p].whole /\ (vendor = "claude" => hour <= tree[p].at + Window) =>
         LET id == IF vendor = "claude" THEN NameOf[p] ELSE X!Stated(p)
         IN \E r \in deck' : r.id = id
<1>1. X!ScanInit => ScanInv
  BY FS_EmptySet DEF X!ScanInit, ScanInv, ScanTypes, X!RowsOpenTheirFile, X!Present, X!ScanAssumption
<1>2. ScanInv /\ [X!ScanNext]_X!scanvars => ScanInv'
  BY ScanStep
<1>3. ScanInv => [Fine]_X!scanvars
  <2> SUFFICES ASSUME ScanInv, X!Scan, NEW p \in X!Present, tree[p].whole,
                      vendor = "claude" => hour <= tree[p].at + Window
               PROVE  \E r \in deck' : r.id = Id(p)
    OBVIOUS
  <2> DEFINE read == X!Read(X!Present, X!Stated)
  <2>1. read[p] = X!Stated(p) /\ read[p] \in Ids
    BY ReadsIds DEF ScanInv
  <2> HIDE DEF read
  <2>2. CASE vendor = "claude"
    <3> DEFINE row == [id |-> NameOf[p], path |-> statistics'[NameOf[p]], found |-> p]
    <3>1. row \in deck' /\ row.id = Id(p)
      BY <2>2 DEF X!Scan, X!ClaudeScan
    <3>2. QED
      BY <3>1
  <2>3. CASE vendor = "codex"
    <3> DEFINE Of(i) == {q \in X!Present : tree[q].whole /\ read[q] = i}
               Top(i) == X!Best(Of(i), X!Earlier)
               row == [id |-> read[p], path |-> Top(read[p]), found |-> Top(read[p])]
    <3>1. deck' = {[id |-> i, path |-> Top(i), found |-> Top(i)] : i \in {j \in Ids : Of(j) # {}}}
      BY <2>3 DEF X!Scan, X!CodexScan, read
    <3>2. p \in Of(read[p])
      OBVIOUS
    <3> HIDE DEF Top
    <3>3. row \in deck' /\ row.id = Id(p)
      BY <2>1, <2>3, <3>1, <3>2
    <3>4. QED
      BY <3>3
  <2>4. CASE vendor = "grok"
    <3> DEFINE Of(i) == {q \in X!Present : read[q] = i}
               Top(i) == X!Best(Of(i), X!Earlier)
               row == [id |-> read[p], path |-> Top(read[p]), found |-> Top(read[p])]
    <3>1. deck' = {[id |-> i, path |-> Top(i), found |-> Top(i)] : i \in {j \in Ids : Of(j) # {}}}
      BY <2>4 DEF X!Scan, X!GrokScan, read
    <3>2. p \in Of(read[p])
      OBVIOUS
    <3> HIDE DEF Top
    <3>3. row \in deck' /\ row.id = Id(p)
      BY <2>1, <2>4, <3>1, <3>2
    <3>4. QED
      BY <3>3
  <2>5. CASE vendor = "gemini"
    <3> DEFINE row == [id |-> read[p], path |-> p, found |-> p]
    <3>1. row \in deck' /\ row.id = Id(p)
      BY <2>1, <2>5 DEF X!Scan, X!GeminiScan, read
    <3>2. QED
      BY <3>1
  <2>6. QED
    BY <2>2, <2>3, <2>4, <2>5 DEF ScanInv, ScanTypes
<1>4. QED
  BY <1>1, <1>2, <1>3, PTL DEF X!ScanSpec, X!NothingUnseen
-----------------------------------------------------------------------------
(* The host's end of a remote roster (RemoteLink). *)

CONSTANTS CommandCap, PipeCap, WireCap, TooLong, MaxScans, MaxConnections
VARIABLES
  stop, phase, link, snapshot, pending, context, tails, asking, reading,
  frame, greeted, owes, sender, hand, child, leftover, stdin, wire, agent, scans,
  connections, filled, lost

R == INSTANCE RemoteLink WITH writer <- sender

\* The reader's connection is over only when the reader has ended, or the source
\* is being dropped.
ReaderInv ==
  /\ frame # None => reading
  /\ reading => phase = "run" \/ stop

\* What is not the supervisor's or the reader's step.
LEMMA OtherSteps ==
  ASSUME [R!RemoteNext]_R!rvars, ~R!Supervise, ~R!Read
  PROVE  /\ UNCHANGED <<frame, reading, phase, link, pending, context, snapshot>>
         /\ stop => stop'
         /\ \/ UNCHANGED <<wire, scans>>
            \/ R!AgentGreets \/ R!AgentScans \/ R!AgentObeys \/ R!AgentStops
            \/ \E k \in Keys : R!AgentPumps(k)
            \/ R!ChildDies
<1>1. CASE R!Ask \/ R!DropSource \/ \E k \in Keys : R!OpenTailer(k) \/ R!CloseTailer(k)
  BY <1>1 DEF R!Ask, R!DropSource, R!OpenTailer, R!CloseTailer, R!reader, R!pipes, R!counts
<1>2. CASE R!Write
  BY <1>2 DEF R!Write, R!WriterTakes, R!WriterLeaves, R!WriterPuts, R!WriterKeeps, R!host,
       R!reader, R!counts
<1>3. CASE R!Agent \/ R!ChildDies \/ R!LeftoverEnds
  <2>1. R!AgentKeeps
    BY <1>3 DEF R!Agent, R!AgentGreets, R!AgentScans, R!AgentObeys, R!AgentStops,
         R!AgentPumps, R!ChildDies, R!LeftoverEnds
  <2>2. UNCHANGED <<frame, reading, phase, link, pending, context, snapshot, stop>>
    BY <2>1 DEF R!AgentKeeps, R!host, R!reader
  <2>3. R!LeftoverEnds => UNCHANGED <<wire, scans>>
    BY DEF R!LeftoverEnds
  <2>4. QED
    BY <1>3, <2>2, <2>3 DEF R!Agent
<1>4. CASE UNCHANGED R!rvars
  BY <1>4 DEF R!rvars, R!host, R!reader, R!pipes, R!counts
<1>5. QED
  BY <1>1, <1>2, <1>3, <1>4 DEF R!RemoteNext

LEMMA ReaderStep ==
  ASSUME ReaderInv, [R!RemoteNext]_R!rvars
  PROVE  ReaderInv'
<1>1. CASE R!Supervise
  BY <1>1 DEF ReaderInv, R!Supervise, R!Spawn, R!SpawnFails, R!EndConnection, R!Kill,
       R!Join, R!Resume, R!Over, R!Kept, R!reader, R!host
<1>2. CASE R!Read
  BY <1>2 DEF ReaderInv, R!Read, R!ReadFrame, R!FoldHello, R!FoldContext, R!FoldSnap,
       R!FoldTail, R!FoldRefused, R!FoldBye, R!ReaderEnds, R!Reopen, R!Fold, R!FoldKeeps,
       R!host
<1>3. CASE ~R!Supervise /\ ~R!Read
  BY <1>3, OtherSteps DEF ReaderInv
<1>4. QED
  BY <1>1, <1>2, <1>3

\* No reader folds a frame into the roster when its connection is over, but
\* while the source is being dropped (OldFramesNeverFold, part of RemotesHold).
THEOREM FramesAreOfTheirConnection ==
  R!RemoteSpec => []R!OldFramesNeverFold
<1>1. R!RemoteInit => ReaderInv
  BY DEF R!RemoteInit, ReaderInv
<1>2. ReaderInv => R!OldFramesNeverFold
  BY DEF ReaderInv, R!OldFramesNeverFold, R!Live
<1>3. ReaderInv /\ [R!RemoteNext]_R!rvars => ReaderInv'
  BY ReaderStep
<1>4. QED
  BY <1>1, <1>2, <1>3, PTL DEF R!RemoteSpec

\* A snapshot comes right after the context of its scan.
Precedes(c, s) == s.type = "snap" => c.type = "context" /\ c.scan \in {0, s.scan}
InOrder(w) == \A i \in 2 .. Len(w) : Precedes(w[i - 1], w[i])

\* What the next snapshot will meet in `pending` is its own context.
Awaits(s) == s.type = "snap" => pending \in {0, s.scan}
ContextInv ==
  /\ wire \in Seq(R!Frames) /\ scans \in Nat
  /\ frame \in R!Frames \cup {None}
  /\ InOrder(wire)
  /\ frame # None /\ wire # <<>> => Precedes(frame, wire[1])
  /\ frame # None /\ link = "up" => Awaits(frame)
  /\ frame = None /\ link = "up" /\ wire # <<>> => Awaits(wire[1])
  /\ R!ContextIsOfSnapshot

LEMMA AppendKeepsOrder ==
  ASSUME NEW w \in Seq(R!Frames), InOrder(w), NEW s \in R!Frames, s.type # "snap"
  PROVE  /\ Append(w, s) \in Seq(R!Frames) /\ InOrder(Append(w, s))
         /\ Append(w, s)[1] = IF w = <<>> THEN s ELSE w[1]
<1>1. /\ Append(w, s) \in Seq(R!Frames) /\ Len(Append(w, s)) = Len(w) + 1 /\ Len(w) \in Nat
      /\ \A i \in 1 .. Len(w) : Append(w, s)[i] = w[i]
      /\ Append(w, s)[Len(w) + 1] = s
  OBVIOUS
<1>2. w = <<>> <=> Len(w) = 0
  OBVIOUS
<1>3. ASSUME NEW i \in 2 .. Len(w) + 1
      PROVE  Precedes(Append(w, s)[i - 1], Append(w, s)[i])
  <2>1. CASE i = Len(w) + 1
    BY <1>1, <2>1 DEF Precedes
  <2>2. CASE i \in 2 .. Len(w)
    <3>1. i - 1 \in 1 .. Len(w) /\ i \in 1 .. Len(w)
      BY <1>1, <2>2
    <3>2. QED
      BY <1>1, <2>2, <3>1 DEF InOrder
  <2>3. QED
    BY <1>1, <2>1, <2>2
<1>4. QED
  BY <1>1, <1>2, <1>3 DEF InOrder

LEMMA AppendSnap ==
  ASSUME NEW w \in Seq(R!Frames), InOrder(w), NEW c \in R!Frames, NEW s \in R!Frames, Precedes(c, s),
         c.type = "context"
  PROVE  /\ w \o <<c, s>> \in Seq(R!Frames) /\ InOrder(w \o <<c, s>>)
         /\ (w \o <<c, s>>)[1] = IF w = <<>> THEN c ELSE w[1]
<1> DEFINE v == Append(w, c)
<1>1. v \in Seq(R!Frames) /\ InOrder(v) /\ v[1] = IF w = <<>> THEN c ELSE w[1]
  BY AppendKeepsOrder
<1>2. /\ Len(v) = Len(w) + 1 /\ Len(w) \in Nat /\ v[Len(v)] = c
  OBVIOUS
<1>3. w \o <<c, s>> = Append(v, s)
  OBVIOUS
<1> HIDE DEF v
<1>4. /\ Append(v, s) \in Seq(R!Frames) /\ Len(Append(v, s)) = Len(v) + 1
      /\ \A i \in 1 .. Len(v) : Append(v, s)[i] = v[i]
      /\ Append(v, s)[Len(v) + 1] = s
  BY <1>1
<1>5. ASSUME NEW i \in 2 .. Len(v) + 1
      PROVE  Precedes(Append(v, s)[i - 1], Append(v, s)[i])
  <2>1. CASE i = Len(v) + 1
    BY <1>2, <1>4, <2>1
  <2>2. CASE i \in 2 .. Len(v)
    <3>1. i - 1 \in 1 .. Len(v) /\ i \in 1 .. Len(v)
      BY <1>2, <2>2
    <3>2. QED
      BY <1>1, <1>4, <2>2, <3>1 DEF InOrder
  <2>3. QED
    BY <1>2, <2>1, <2>2
<1>6. Append(v, s)[1] = v[1]
  BY <1>2, <1>4
<1>7. QED
  BY <1>1, <1>3, <1>4, <1>5, <1>6 DEF InOrder

\* What is left of the wire when its first frame is taken, or its end is lost.
LEMMA TailKeepsOrder ==
  ASSUME NEW w \in Seq(R!Frames), InOrder(w), w # <<>>
  PROVE  /\ Tail(w) \in Seq(R!Frames) /\ InOrder(Tail(w)) /\ Head(w) = w[1] /\ w[1] \in R!Frames
         /\ Tail(w) # <<>> => Precedes(w[1], Tail(w)[1])
<1>1. /\ Tail(w) \in Seq(R!Frames) /\ Len(Tail(w)) = Len(w) - 1 /\ Len(w) \in Nat \ {0}
      /\ \A i \in 1 .. Len(w) - 1 : Tail(w)[i] = w[i + 1]
      /\ Head(w) = w[1] /\ w[1] \in R!Frames
  OBVIOUS
<1>2. ASSUME NEW i \in 2 .. Len(w) - 1
      PROVE  Precedes(Tail(w)[i - 1], Tail(w)[i])
  <2>1. i - 1 \in 1 .. Len(w) - 1 /\ i \in 1 .. Len(w) - 1 /\ i + 1 \in 2 .. Len(w)
        /\ (i - 1) + 1 = i /\ (i + 1) - 1 = i
    BY <1>1
  <2>2. QED
    BY <1>1, <2>1 DEF InOrder
<1>3. ASSUME Tail(w) # <<>>
      PROVE  Precedes(w[1], Tail(w)[1])
  <2>1. 2 \in 2 .. Len(w) /\ 1 \in 1 .. Len(w) - 1 /\ 2 - 1 = 1 /\ 1 + 1 = 2
    BY <1>1, <1>3
  <2>2. QED
    BY <1>1, <2>1 DEF InOrder
<1>4. QED
  BY <1>1, <1>2, <1>3 DEF InOrder

LEMMA CutKeepsOrder ==
  ASSUME NEW w \in Seq(R!Frames), InOrder(w), NEW n \in 0 .. Len(w)
  PROVE  /\ SubSeq(w, 1, n) \in Seq(R!Frames) /\ InOrder(SubSeq(w, 1, n))
         /\ SubSeq(w, 1, n) # <<>> => w # <<>> /\ SubSeq(w, 1, n)[1] = w[1]
<1>1. /\ SubSeq(w, 1, n) \in Seq(R!Frames) /\ Len(SubSeq(w, 1, n)) = n /\ Len(w) \in Nat
      /\ \A i \in 1 .. n : SubSeq(w, 1, n)[i] = w[i]
  OBVIOUS
<1>2. ASSUME NEW i \in 2 .. n
      PROVE  Precedes(SubSeq(w, 1, n)[i - 1], SubSeq(w, 1, n)[i])
  <2>1. i - 1 \in 1 .. n /\ i \in 1 .. n /\ i \in 2 .. Len(w)
    BY <1>1
  <2>2. QED
    BY <1>1, <2>1 DEF InOrder
<1>3. SubSeq(w, 1, n) # <<>> => w # <<>> /\ 1 \in 1 .. n
  BY <1>1
<1>4. QED
  BY <1>1, <1>2, <1>3 DEF InOrder

\* The agent sends frames in this order.
LEMMA AgentSends ==
  ASSUME ContextInv,
         \/ R!AgentGreets \/ R!AgentScans \/ R!AgentObeys \/ R!AgentStops
         \/ \E k \in Keys : R!AgentPumps(k)
         \/ R!ChildDies
  PROVE  /\ scans' \in Nat /\ wire' \in Seq(R!Frames) /\ InOrder(wire')
         /\ wire' # <<>> => \/ wire # <<>> /\ wire'[1] = wire[1]
                            \/ wire = <<>> /\ wire'[1].type # "snap"
<1> USE DEF ContextInv
<1>1. ASSUME NEW s \in R!Frames, s.type # "snap", wire' = Append(wire, s), scans' = scans
      PROVE  /\ scans' \in Nat /\ wire' \in Seq(R!Frames) /\ InOrder(wire')
             /\ wire' # <<>> => \/ wire # <<>> /\ wire'[1] = wire[1]
                                \/ wire = <<>> /\ wire'[1].type # "snap"
  BY <1>1, AppendKeepsOrder
<1>2. CASE UNCHANGED <<wire, scans>>
  BY <1>2
<1>3. CASE R!AgentGreets
  <2>1. PICK ours \in BOOLEAN : wire' = Append(wire, [type |-> "hello", ours |-> ours])
    BY <1>3 DEF R!AgentGreets
  <2>2. [type |-> "hello", ours |-> ours] \in R!Frames
    BY DEF R!Frames
  <2>3. QED
    BY <1>1, <1>3, <2>1, <2>2 DEF R!AgentGreets
<1>4. CASE R!AgentObeys \/ R!AgentStops
  <2>1. [type |-> "bye"] \in R!Frames
    BY DEF R!Frames
  <2>2. UNCHANGED scans /\ wire' \in {wire, Append(wire, [type |-> "bye"])}
    BY <1>4 DEF R!AgentObeys, R!AgentStops
  <2>3. QED
    BY <1>1, <1>2, <2>1, <2>2
<1>5. ASSUME NEW k \in Keys, R!AgentPumps(k)
      PROVE  /\ scans' \in Nat /\ wire' \in Seq(R!Frames) /\ InOrder(wire')
             /\ wire' # <<>> => \/ wire # <<>> /\ wire'[1] = wire[1]
                                \/ wire = <<>> /\ wire'[1].type # "snap"
  <2>1. [type |-> "tail", key |-> k] \in R!Frames
    BY DEF R!Frames
  <2>2. UNCHANGED scans /\ wire' \in {wire, Append(wire, [type |-> "tail", key |-> k])}
    BY <1>5 DEF R!AgentPumps
  <2>3. QED
    BY <1>1, <1>2, <2>1, <2>2
<1>6. CASE R!AgentScans
  <2>1. PICK longContext \in TooLong, longSnap \in TooLong :
          wire' = wire \o
            << [type |-> "context", scan |-> IF longContext THEN 0 ELSE scans'],
               IF longSnap THEN [type |-> "refused"]
               ELSE [type |-> "snap", scan |-> scans', keys |-> Keys] >>
    BY <1>6 DEF R!AgentScans
  <2> DEFINE c == [type |-> "context", scan |-> IF longContext THEN 0 ELSE scans']
             s == IF longSnap THEN [type |-> "refused"]
                  ELSE [type |-> "snap", scan |-> scans', keys |-> Keys]
  <2>2. scans' \in Nat
    BY <1>6 DEF R!AgentScans
  <2>3. c \in R!Frames /\ c.type = "context"
    BY <2>2 DEF R!Frames
  <2>4. s \in R!Frames
    BY <2>2 DEF R!Frames
  <2>5. Precedes(c, s)
    BY DEF Precedes
  <2>6. wire' = wire \o <<c, s>>
    BY <2>1
  <2> HIDE DEF c, s
  <2>7. QED
    BY <2>2, <2>3, <2>4, <2>5, <2>6, AppendSnap
<1>7. CASE R!ChildDies
  BY <1>7, CutKeepsOrder DEF R!ChildDies
<1>8. QED
  BY <1>3, <1>4, <1>5, <1>6, <1>7

LEMMA ContextStep ==
  ASSUME R!RemoteAssumption, ContextInv, [R!RemoteNext]_R!rvars
  PROVE  ContextInv'
<1> USE DEF R!ContextIsOfSnapshot
<1>1. ASSUME UNCHANGED <<frame, link, pending, context, snapshot>>, scans' \in Nat,
             wire' \in Seq(R!Frames), InOrder(wire'),
             wire' # <<>> => \/ wire # <<>> /\ wire'[1] = wire[1]
                             \/ wire = <<>> /\ wire'[1].type # "snap"
      PROVE  ContextInv'
  BY <1>1 DEF ContextInv, Precedes, Awaits
<1>2. ASSUME UNCHANGED <<pending, context, snapshot, scans, wire, frame>>, link' \in {link, "down"}
      PROVE  ContextInv'
  BY <1>2 DEF ContextInv, Precedes, Awaits
<1>3. CASE R!Spawn
  <2>1. UNCHANGED <<pending, context, snapshot, scans>> /\ wire' = <<>> /\ frame' = None
    BY <1>3 DEF R!Spawn, R!Kept
  <2>2. Len(wire') = 0 /\ wire' \in Seq(R!Frames)
    BY <2>1
  <2>3. InOrder(wire')
    BY <2>2 DEF InOrder
  <2>4. QED
    BY <2>1, <2>2, <2>3 DEF ContextInv
<1>4. CASE R!SpawnFails \/ R!EndConnection \/ R!Kill \/ R!Join \/ R!Resume
  <2>1. UNCHANGED <<pending, context, snapshot, scans, wire, frame>> /\ link' \in {link, "down"}
    BY <1>4 DEF R!SpawnFails, R!EndConnection, R!Kill, R!Join, R!Resume, R!Kept, R!reader, R!pipes
  <2>2. QED
    BY <1>2, <2>1
<1>5. CASE R!ReadFrame
  <2>1. /\ frame = None /\ wire # <<>> /\ frame' = Head(wire) /\ wire' = Tail(wire)
        /\ UNCHANGED <<link, pending, context, snapshot, scans>>
    BY <1>5 DEF R!ReadFrame, R!host, R!counts
  <2>2. /\ wire' \in Seq(R!Frames) /\ InOrder(wire') /\ frame' = wire[1] /\ frame' \in R!Frames
        /\ wire' # <<>> => Precedes(frame', wire'[1])
    BY <2>1, TailKeepsOrder DEF ContextInv
  <2>3. link = "up" => Awaits(wire[1])
    BY <2>1 DEF ContextInv
  <2>4. link' = "up" => Awaits(frame)'
    BY <2>1, <2>2, <2>3 DEF Awaits
  <2>5. QED
    BY <2>1, <2>2, <2>4 DEF ContextInv, R!RemoteAssumption
<1>6. ASSUME NEW type, R!Fold(type), R!FoldKeeps
      PROVE  /\ frame \in R!Frames /\ frame # None /\ frame.type = type /\ frame' = None
             /\ UNCHANGED <<wire, scans>>
             /\ type # "context" /\ wire # <<>> => wire[1].type # "snap"
  BY <1>6 DEF R!Fold, R!FoldKeeps, R!pipes, R!counts, ContextInv, Precedes
<1>7. ASSUME NEW type, R!Fold(type), R!FoldKeeps, type # "context",
             context' \in {0, snapshot'.scan}
      PROVE  ContextInv'
  <2>1. frame' = None /\ UNCHANGED <<wire, scans>> /\ (wire # <<>> => wire[1].type # "snap")
    BY <1>6, <1>7
  <2>2. QED
    BY <1>7, <2>1 DEF ContextInv, Awaits
<1>8. CASE R!FoldHello \/ R!FoldTail \/ R!FoldRefused \/ R!FoldBye
  <2>1. context' \in {0, context} /\ UNCHANGED snapshot /\ R!FoldKeeps
    BY <1>8 DEF R!FoldHello, R!FoldTail, R!FoldRefused, R!FoldBye
  <2>2. PICK type \in {"hello", "tail", "refused", "bye"} : R!Fold(type)
    BY <1>8 DEF R!FoldHello, R!FoldTail, R!FoldRefused, R!FoldBye
  <2>3. QED
    BY <1>7, <2>1, <2>2 DEF ContextInv
<1>9. CASE R!FoldSnap
  <2>1. frame # None /\ frame.type = "snap"
    BY <1>9 DEF R!FoldSnap, R!Fold
  <2>2. link = "up" => pending \in {0, frame.scan}
    BY <2>1 DEF ContextInv, Awaits
  <2>3. context' \in {0, snapshot'.scan}
    BY <1>9, <2>2 DEF R!FoldSnap, ContextInv
  <2>4. QED
    BY <1>7, <1>9, <2>3 DEF R!FoldSnap
<1>10. CASE R!FoldContext
  <2>1. /\ frame \in R!Frames /\ frame # None /\ frame' = None
        /\ UNCHANGED <<wire, scans, link, snapshot, context>>
        /\ pending' = IF link = "up" THEN frame.scan ELSE pending
    BY <1>6, <1>10 DEF R!FoldContext, R!InUse
  <2>2. wire # <<>> => Precedes(frame, wire[1])
    BY <2>1 DEF ContextInv
  <2>3. link' = "up" /\ wire' # <<>> => Awaits(wire[1])'
    BY <2>1, <2>2 DEF Awaits, Precedes
  <2>4. QED
    BY <2>1, <2>3 DEF ContextInv
<1>11. CASE R!ReaderEnds \/ \E k \in Keys : R!Reopen(k)
  <2>1. UNCHANGED <<frame, link, pending, context, snapshot, scans, wire>>
    BY <1>11 DEF R!ReaderEnds, R!Reopen, R!host, R!pipes, R!counts
  <2>2. QED
    BY <1>2, <2>1
<1>12. CASE ~R!Supervise /\ ~R!Read
  <2>1. UNCHANGED <<frame, link, pending, context, snapshot>>
    BY <1>12, OtherSteps
  <2>2. CASE UNCHANGED <<wire, scans>>
    BY <1>2, <2>1, <2>2
  <2>3. CASE ~UNCHANGED <<wire, scans>>
    BY <1>1, <1>12, <2>1, <2>3, OtherSteps, AgentSends
  <2>4. QED
    BY <2>2, <2>3
<1>13. QED
  BY <1>3, <1>4, <1>5, <1>8, <1>9, <1>10, <1>11, <1>12 DEF R!Supervise, R!Read

\* The ownership that is shown was sent with the snapshot that is shown, for any
\* sessions, queues, connections and losses (ContextIsOfSnapshot, part of
\* RemotesHold).
THEOREM ContextsFitSnapshots ==
  ASSUME R!RemoteAssumption
  PROVE  R!RemoteSpec => []R!ContextIsOfSnapshot
<1>1. R!RemoteInit => ContextInv
  <2> SUFFICES ASSUME R!RemoteInit
               PROVE  ContextInv
    OBVIOUS
  <2>1. /\ wire = <<>> /\ scans = 0 /\ frame = None /\ context = 0
    BY DEF R!RemoteInit
  <2>2. Len(wire) = 0 /\ wire \in Seq(R!Frames)
    BY <2>1
  <2>3. QED
    BY <2>1, <2>2 DEF ContextInv, InOrder, R!ContextIsOfSnapshot
<1>2. ContextInv => R!ContextIsOfSnapshot
  BY DEF ContextInv
<1>3. ContextInv /\ [R!RemoteNext]_R!rvars => ContextInv'
  BY ContextStep
<1>4. QED
  BY <1>1, <1>2, <1>3, PTL DEF R!RemoteSpec
-----------------------------------------------------------------------------
(* What is told of a hosted run (FlowFeed). *)

CONSTANTS Begin, After, Gates, OnBlock, Reasons, Failures, MaxReopens
VARIABLES run, aged, hushed, conditions, stops, told, passed

F == INSTANCE FlowFeed WITH Next <- After, late <- aged, muted <- hushed

Unplanned == {"late", "lost", "settled", "cancelled", "reopened"}
Words == Reasons \cup Failures \cup F!Names \cup Unplanned \cup {None}
Controlled ==
  {"pause", "resume", "cancel", "retry", "answer", "approve", "reopen"}
Kinds ==
  F!Finishing \cup Controlled \cup
    {"intake", "block", "blocked", "transient_retry", "route", "done", "timeout",
     "unsettled", "settled", "owner_answer", "host_error", "host_recovered"}
Entries == [kind : Kinds, step : F!Names, reason : Words]
FeedRuns ==
  [current : F!Names, status : {"ready", "running", "gate", "blocked", "done"},
   paused : BOOLEAN, cancelled : BOOLEAN, reason : Words, asks : BOOLEAN,
   active : Nat, attempts : [F!Names -> Nat], requests : [F!Names -> Nat],
   events : Seq(Entries)]

\* A run that goes on logging after q.
Since(q, t) == Len(q) + 1 .. Len(t.events)
Grows(q, t) ==
  /\ t \in FeedRuns /\ Len(q) <= Len(t.events)
  /\ \A i \in 1 .. Len(q) : t.events[i] = q[i]
Logs(q, t, kinds) == \A i \in Since(q, t) : t.events[i].kind \in kinds
\* It is the current step that logs something of these kinds.
Says(q, t, kinds) ==
  \E i \in Since(q, t) : t.events[i].kind \in kinds /\ t.events[i].step = t.current

LEMMA Appending ==
  ASSUME NEW S, NEW q \in Seq(S), NEW e \in S
  PROVE  /\ Append(q, e) \in Seq(S) /\ Len(Append(q, e)) = Len(q) + 1 /\ Len(q) \in Nat
         /\ \A i \in 1 .. Len(q) : Append(q, e)[i] = q[i]
         /\ Append(q, e)[Len(q) + 1] = e
  OBVIOUS

\* What does not tell how a step was dealt with.
Remarks == Kinds \ F!Finishing

LEMMA KindNames ==
  /\ "block" \in Kinds /\ "blocked" \in Kinds /\ "transient_retry" \in Kinds
  /\ "route" \in Kinds /\ "done" \in Kinds /\ "timeout" \in Kinds /\ "unsettled" \in Kinds
  /\ "settled" \in Kinds /\ "owner_answer" \in Kinds /\ "host_error" \in Kinds
  /\ "host_recovered" \in Kinds /\ "step_done" \in Kinds /\ "gate_passed" \in Kinds
  /\ "override" \in Kinds /\ "started" \in Kinds /\ "gate_opened" \in Kinds
  /\ "pause" \in Kinds /\ "resume" \in Kinds /\ "cancel" \in Kinds /\ "retry" \in Kinds
  /\ "answer" \in Kinds /\ "approve" \in Kinds /\ "reopen" \in Kinds /\ "intake" \in Kinds
  BY DEF Kinds, Controlled, F!Finishing

LEMMA RemarkNames ==
  /\ "block" \in Remarks /\ "blocked" \in Remarks /\ "transient_retry" \in Remarks
  /\ "route" \in Remarks /\ "done" \in Remarks /\ "timeout" \in Remarks
  /\ "unsettled" \in Remarks /\ "settled" \in Remarks /\ "owner_answer" \in Remarks
  /\ "host_error" \in Remarks /\ "host_recovered" \in Remarks /\ "pause" \in Remarks
  /\ "resume" \in Remarks /\ "cancel" \in Remarks /\ "retry" \in Remarks
  /\ "answer" \in Remarks /\ "approve" \in Remarks /\ "reopen" \in Remarks
  BY DEF Remarks, Kinds, Controlled, F!Finishing

\* Nothing but the log differs.
Alike(r, t) ==
  /\ t.current = r.current /\ t.status = r.status /\ t.paused = r.paused
  /\ t.cancelled = r.cancelled /\ t.reason = r.reason /\ t.asks = r.asks
  /\ t.active = r.active /\ t.attempts = r.attempts /\ t.requests = r.requests

\* One event more.
OneMore(r, q, kind) ==
  /\ Len(r.events) \in Nat /\ Len(q) = Len(r.events) + 1
  /\ \A i \in 1 .. Len(r.events) : q[i] = r.events[i]
  /\ q[Len(r.events) + 1].kind = kind /\ q[Len(r.events) + 1].step = r.current

\* What Event makes of a run.
LEMMA Logged ==
  ASSUME NEW r \in FeedRuns, NEW kind \in Kinds, NEW w \in Words,
         NEW t, t = F!Event(r, kind, w)
  PROVE  /\ t \in FeedRuns /\ Alike(r, t) /\ OneMore(r, t.events, kind)
         /\ t.events[Len(t.events)] = [kind |-> kind, step |-> r.current, reason |-> w]
<1> DEFINE e == [kind |-> kind, step |-> r.current, reason |-> w]
<1>1. r.events \in Seq(Entries) /\ e \in Entries
  BY DEF FeedRuns, Entries
<1>2. t = [r EXCEPT !.events = Append(r.events, e)]
  BY DEF F!Event
<1>3. t.events = Append(r.events, e)
  BY <1>2 DEF FeedRuns
<1>4. /\ t.events \in Seq(Entries) /\ Len(t.events) = Len(r.events) + 1
      /\ Len(r.events) \in Nat
      /\ \A i \in 1 .. Len(r.events) : t.events[i] = r.events[i]
      /\ t.events[Len(r.events) + 1] = e
  BY <1>1, <1>3, Appending
<1>5. t \in FeedRuns /\ Alike(r, t)
  BY <1>2, <1>3, <1>4 DEF FeedRuns, Alike
<1>6. QED
  BY <1>4, <1>5 DEF OneMore

LEMMA GrowsOn ==
  ASSUME NEW r \in FeedRuns, NEW t \in FeedRuns, NEW u,
         Grows(r.events, t), Grows(t.events, u)
  PROVE  /\ Grows(r.events, u)
         /\ Len(r.events) \in Nat /\ Len(t.events) \in Nat /\ Len(u.events) \in Nat
         /\ Since(r.events, u) = Since(r.events, t) \cup Since(t.events, u)
         /\ \A i \in Since(r.events, t) : u.events[i] = t.events[i]
<1>1. u \in FeedRuns
  BY DEF Grows
<1>2. \A v \in FeedRuns : Len(v.events) \in Nat
  BY DEF FeedRuns
<1>3. QED
  BY <1>1, <1>2 DEF Grows, Since

\* The run is not stopped, or its step said that it is blocked.
Goes(r, t) ==
  /\ Grows(r.events, t) /\ t.requests = r.requests /\ Logs(r.events, t, Remarks)
  /\ \/ t.status \in {"ready", "done"}
     \/ /\ t.status = "blocked" /\ t.current = r.current
        /\ Says(r.events, t, {"blocked"})

LEMMA Compose ==
  ASSUME NEW r \in FeedRuns, NEW t \in FeedRuns, NEW u, NEW kinds,
         Grows(r.events, t), Logs(r.events, t, kinds),
         Grows(t.events, u), Logs(t.events, u, kinds)
  PROVE  Grows(r.events, u) /\ Logs(r.events, u, kinds)
  BY GrowsOn DEF Logs

\* One event more, and other fields of the run changed with it.
LEMMA LogsOne ==
  ASSUME NEW r \in FeedRuns, NEW kind, NEW u \in FeedRuns, OneMore(r, u.events, kind)
  PROVE  /\ Grows(r.events, u)
         /\ \A i \in Since(r.events, u) :
              u.events[i].kind = kind /\ u.events[i].step = r.current
         /\ Len(r.events) + 1 \in Since(r.events, u)
         /\ kind \in Remarks => Logs(r.events, u, Remarks)
  BY DEF OneMore, Grows, Since, Logs

LEMMA LeftIs ==
  ASSUME NEW r \in FeedRuns, NEW t, t = F!Left(r)
  PROVE  t \in FeedRuns /\ t.events = r.events /\ t.requests = r.requests
         /\ t.current = r.current /\ t.status = r.status
  BY DEF F!Left, FeedRuns, Words

LEMMA LeaveIs ==
  ASSUME F!FeedAssumption, NEW r \in FeedRuns, NEW s \in F!Names \cup {None},
         NEW t, t = F!Leave(r, s)
  PROVE  /\ Grows(r.events, t) /\ Logs(r.events, t, Remarks)
         /\ t.requests = r.requests /\ t.status \in {"ready", "done"}
<1>1. CASE s = None
  <2> DEFINE l == F!Left(r)
             d == [l EXCEPT !.status = "done"]
  <2>1. l \in FeedRuns /\ l.events = r.events /\ l.requests = r.requests
    BY LeftIs
  <2>2. d \in FeedRuns /\ d.events = r.events /\ d.requests = r.requests
        /\ d.status = "done"
    BY <2>1 DEF FeedRuns
  <2>3. t = F!Event(d, "done", None) /\ None \in Words
    BY <1>1 DEF F!Leave, Words
  <2> HIDE DEF l, d
  <2>4. t \in FeedRuns /\ Alike(d, t) /\ OneMore(d, t.events, "done")
    BY <2>2, <2>3, Logged, KindNames
  <2>5. t.requests = d.requests /\ t.status = d.status
    BY <2>2, <2>4 DEF FeedRuns, Alike
  <2>7. Grows(d.events, t) /\ Logs(d.events, t, Remarks)
    BY <2>2, <2>4, LogsOne, RemarkNames
  <2>8. QED
    BY <2>2, <2>5, <2>7
<1>2. CASE s \in F!Names /\ s # None
  <2> DEFINE l == F!Left(r)
             d == F!Event(l, "route", s)
  <2>1. l \in FeedRuns /\ l.events = r.events /\ l.requests = r.requests
    BY LeftIs
  <2>2. s \in Words
    BY <1>2 DEF Words
  <2> HIDE DEF l
  <2>3. d \in FeedRuns /\ Alike(l, d) /\ OneMore(l, d.events, "route")
    BY <2>1, <2>2, Logged, KindNames
  <2>4. t = [d EXCEPT !.current = s, !.status = "ready"]
    BY <1>2 DEF F!Leave, l
  <2>5. t \in FeedRuns /\ t.events = d.events /\ t.requests = d.requests
        /\ t.status = "ready" /\ d.requests = l.requests
    BY <1>2, <2>1, <2>3, <2>4 DEF FeedRuns, Alike
  <2> HIDE DEF d
  <2>7. Grows(l.events, t) /\ Logs(l.events, t, Remarks)
    BY <2>1, <2>3, <2>5, LogsOne, RemarkNames
  <2>8. QED
    BY <2>1, <2>5, <2>7
<1>3. QED
  BY <1>1, <1>2

LEMMA StopIs ==
  ASSUME NEW r \in FeedRuns, NEW w \in Words, NEW t, t = F!Stop(r, w)
  PROVE  /\ Grows(r.events, t) /\ Logs(r.events, t, Remarks)
         /\ t.requests = r.requests /\ t.status = "blocked" /\ t.current = r.current
         /\ Says(r.events, t, {"blocked"})
<1> DEFINE d == F!Event(r, "blocked", w)
<1>1. d \in FeedRuns /\ Alike(r, d) /\ OneMore(r, d.events, "blocked")
  BY Logged, KindNames
<1>2. t = [d EXCEPT !.status = "blocked", !.reason = w]
  BY DEF F!Stop
<1>3. t \in FeedRuns /\ t.events = d.events /\ t.status = "blocked"
      /\ t.requests = r.requests /\ t.current = r.current
  BY <1>1, <1>2 DEF FeedRuns, Alike
<1> HIDE DEF d
<1>5. /\ Grows(r.events, t) /\ Len(r.events) + 1 \in Since(r.events, t)
      /\ \A i \in Since(r.events, t) :
           t.events[i].kind = "blocked" /\ t.events[i].step = r.current
  BY <1>1, <1>3, LogsOne
<1>6. QED
  BY <1>3, <1>5, RemarkNames DEF Logs, Says

\* What handle_block makes of a run.
LEMMA BlocksAre ==
  ASSUME F!FeedAssumption, NEW r \in FeedRuns, NEW w \in Words,
         NEW t \in F!Blocks(r, w)
  PROVE  Goes(r, t)
<1> DEFINE said == F!Event(r, "block", w)
           tried == [said EXCEPT !.status = "ready", !.reason = w]
<1>1. said \in FeedRuns /\ Alike(r, said) /\ OneMore(r, said.events, "block")
  BY Logged, KindNames
<1>2. Grows(r.events, said) /\ Logs(r.events, said, Remarks)
  BY <1>1, LogsOne, RemarkNames
<1>3. said.requests = r.requests /\ said.current = r.current
  BY <1>1 DEF FeedRuns, Alike
<1>4. tried \in FeedRuns /\ tried.events = said.events /\ tried.requests = r.requests
      /\ tried.status = "ready"
  BY <1>1, <1>3 DEF FeedRuns, Alike
<1>5. \/ t = F!Event(tried, "transient_retry", None)
      \/ t = F!Stop(said, w)
      \/ OnBlock[r.current] # None /\ t = F!Leave(said, OnBlock[r.current])
  BY DEF F!Blocks
<1> HIDE DEF said, tried
<1>6. {"block", "blocked", "transient_retry", "route", "done"} \subseteq Remarks
  BY RemarkNames
<1>7. Logs(r.events, said, Remarks)
  BY <1>2, <1>6 DEF Logs
<1>8. CASE t = F!Event(tried, "transient_retry", None)
  <2>1. t \in FeedRuns /\ Alike(tried, t) /\ OneMore(tried, t.events, "transient_retry")
    BY <1>4, <1>8, Logged, KindNames DEF Words
  <2>2. Grows(said.events, t) /\ Logs(said.events, t, Remarks)
    BY <1>4, <1>6, <2>1, LogsOne, RemarkNames
  <2>3. t.requests = r.requests /\ t.status = "ready"
    BY <1>4, <2>1 DEF FeedRuns, Alike
  <2>4. QED
    BY <1>1, <1>2, <1>7, <2>2, <2>3, Compose DEF Goes
<1>9. CASE t = F!Stop(said, w)
  <2>1. /\ Grows(said.events, t) /\ Logs(said.events, t, Remarks)
        /\ t.requests = said.requests /\ t.status = "blocked"
        /\ t.current = said.current /\ Says(said.events, t, {"blocked"})
    BY <1>1, <1>9, StopIs
  <2>2. Logs(said.events, t, Remarks)
    BY <1>6, <2>1 DEF Logs
  <2>3. Says(r.events, t, {"blocked"})
    BY <1>1, <1>2, <2>1, GrowsOn DEF Says
  <2>4. QED
    BY <1>1, <1>2, <1>3, <1>7, <2>1, <2>2, <2>3, Compose DEF Goes
<1>10. CASE OnBlock[r.current] # None /\ t = F!Leave(said, OnBlock[r.current])
  <2>1. OnBlock[r.current] \in F!Names \cup {None}
    BY DEF F!FeedAssumption, FeedRuns
  <2>2. /\ Grows(said.events, t) /\ Logs(said.events, t, Remarks)
        /\ t.requests = said.requests /\ t.status \in {"ready", "done"}
    BY <1>1, <1>10, <2>1, LeaveIs
  <2>3. Logs(said.events, t, Remarks)
    BY <1>6, <2>2 DEF Logs
  <2>4. QED
    BY <1>1, <1>2, <1>3, <1>7, <2>2, <2>3, Compose DEF Goes
<1>11. QED
  BY <1>5, <1>8, <1>9, <1>10

\* A run that differs from r neither in its log nor in its place.
At(r, b) ==
  b \in FeedRuns /\ b.events = r.events /\ b.current = r.current /\ b.requests = r.requests

LEMMA EventAt ==
  ASSUME NEW r \in FeedRuns, NEW b, At(r, b), NEW kind \in Kinds, NEW w \in Words,
         NEW t, t = F!Event(b, kind, w)
  PROVE  /\ t \in FeedRuns /\ Alike(b, t) /\ OneMore(r, t.events, kind)
         /\ t.current = r.current /\ t.requests = r.requests
<1>1. b \in FeedRuns /\ b.events = r.events /\ b.current = r.current
      /\ b.requests = r.requests
  BY DEF At
<1>2. t \in FeedRuns /\ Alike(b, t) /\ OneMore(b, t.events, kind)
  BY <1>1, Logged
<1>3. QED
  BY <1>1, <1>2 DEF OneMore, Alike

\* What a step of the host or a control makes of a run: it goes on or is blocked,
Onward(r, t) == Goes(r, t) /\ (t.status = "blocked" => r.status # "blocked")
\* a gate or an attempt begins,
Asks(r) == [r.requests EXCEPT ![r.current] = @ + 1]
Begun(r, t) ==
  /\ t \in FeedRuns /\ t.current = r.current /\ r.status = "ready"
  /\ \/ /\ t.status = "gate" /\ OneMore(r, t.events, "gate_opened")
        /\ t.requests = Asks(r)
     \/ /\ t.status = "running" /\ OneMore(r, t.events, "started")
        /\ t.requests = r.requests
\* it is stopped without a block,
Halts(r, t) ==
  /\ t \in FeedRuns /\ t.current = r.current /\ t.requests = r.requests
  /\ r.status # "blocked" /\ t.status = "blocked" /\ t.reason \in Unplanned
  /\ \E kind \in {"timeout", "unsettled", "cancel"} : OneMore(r, t.events, kind)
\* or it stays where it is.
Stays(r, t) ==
  /\ t \in FeedRuns /\ t.current = r.current /\ t.requests = r.requests
  /\ t.status = r.status /\ (t.reason = r.reason \/ t.reason \in Unplanned)
  /\ \E kind \in {"settled", "pause", "resume", "cancel", "reopen", "host_error",
                 "host_recovered"} : OneMore(r, t.events, kind)
Worked(r, t) == Onward(r, t) \/ Begun(r, t) \/ Halts(r, t) \/ Stays(r, t)

LEMMA CountsOn ==
  ASSUME NEW f \in [F!Names -> Nat], NEW s \in F!Names
  PROVE  [f EXCEPT ![s] = @ + 1] \in [F!Names -> Nat]
  OBVIOUS

LEMMA Begins ==
  ASSUME run \in FeedRuns, run.status = "ready", NEW t,
         \/ t = F!Event([run EXCEPT !.status = "gate", !.requests[run.current] = @ + 1],
                        "gate_opened", None)
         \/ t = F!Event([F!Started EXCEPT !.active = F!Started.attempts[run.current],
                         !.status = "running", !.reason = None, !.asks = FALSE],
                        "started", None)
  PROVE  Begun(run, t)
<1> None \in Words
  BY DEF Words
<1>1. CASE t = F!Event([run EXCEPT !.status = "gate", !.requests[run.current] = @ + 1],
                       "gate_opened", None)
  <2> DEFINE b == [run EXCEPT !.status = "gate", !.requests[run.current] = @ + 1]
           q == [run.requests EXCEPT ![run.current] = @ + 1]
  <2>a. q \in [F!Names -> Nat]
    BY CountsOn DEF FeedRuns
  <2>b. b = [run EXCEPT !.status = "gate", !.requests = q]
    OBVIOUS
  <2> HIDE DEF q
  <2>1. b \in FeedRuns /\ b.events = run.events /\ b.current = run.current
        /\ b.status = "gate" /\ b.requests = q
    BY <2>a, <2>b DEF FeedRuns
  <2> HIDE DEF b
  <2>2. t \in FeedRuns /\ Alike(b, t) /\ OneMore(b, t.events, "gate_opened")
    BY <1>1, <2>1, Logged, KindNames DEF b
  <2>3. QED
    BY <2>1, <2>2 DEF Begun, Alike, OneMore, q, Asks
<1>2. CASE t = F!Event([F!Started EXCEPT !.active = F!Started.attempts[run.current],
                        !.status = "running", !.reason = None, !.asks = FALSE],
                       "started", None)
  <2> DEFINE a == F!Started
             b == [a EXCEPT !.active = a.attempts[run.current], !.status = "running",
                            !.reason = None, !.asks = FALSE]
           f == [run.attempts EXCEPT ![run.current] = @ + 1]
  <2>a. f \in [F!Names -> Nat]
    BY CountsOn DEF FeedRuns
  <2>b. a = [run EXCEPT !.attempts = f]
    BY DEF F!Started, F!Here
  <2> HIDE DEF a, f
  <2>1. a \in FeedRuns /\ At(run, a)
    BY <2>a, <2>b DEF FeedRuns, At
  <2>2. t = F!Event(b, "started", None)
    BY <1>2 DEF a
  <2>3. b \in FeedRuns /\ At(run, b) /\ b.status = "running"
    BY <2>1 DEF FeedRuns, At
  <2> HIDE DEF b
  <2>4. t \in FeedRuns /\ Alike(b, t) /\ OneMore(run, t.events, "started")
        /\ t.current = run.current /\ t.requests = run.requests
    BY <2>2, <2>3, EventAt, KindNames
  <2>5. QED
    BY <2>3, <2>4 DEF Begun, Alike
<1>3. QED
  BY <1>1, <1>2

LEMMA BlocksAt ==
  ASSUME F!FeedAssumption, NEW r \in FeedRuns, r.status # "blocked",
         NEW b, At(r, b), NEW w \in Words, NEW t,
         t \in F!Blocks(b, w) \/ t = F!Stop(b, w)
  PROVE  Onward(r, t)
<1>1. b \in FeedRuns /\ b.events = r.events /\ b.current = r.current
      /\ b.requests = r.requests
  BY DEF At
<1>2. Goes(b, t)
  BY <1>1, BlocksAre, StopIs DEF Goes
<1>3. QED
  BY <1>1, <1>2 DEF Goes, Onward

LEMMA Readied ==
  ASSUME run \in FeedRuns, NEW kind \in Kinds, kind \in Remarks, NEW t,
         t = F!Event([run EXCEPT !.status = "ready", !.reason = None, !.asks = FALSE],
                     kind, None)
  PROVE  Worked(run, t)
<1> DEFINE b == [run EXCEPT !.status = "ready", !.reason = None, !.asks = FALSE]
<1>1. None \in Words
  BY DEF Words
<1>2. At(run, b) /\ b.status = "ready"
  BY <1>1 DEF FeedRuns, At
<1> HIDE DEF b
<1>3. t \in FeedRuns /\ Alike(b, t) /\ OneMore(run, t.events, kind)
      /\ t.current = run.current /\ t.requests = run.requests
  BY <1>1, <1>2, EventAt DEF b
<1>4. Grows(run.events, t) /\ Logs(run.events, t, Remarks)
  BY <1>3, LogsOne
<1>5. QED
  BY <1>2, <1>3, <1>4 DEF Worked, Onward, Goes, Alike

LEMMA Reasoned == Reasons \subseteq Words /\ Failures \subseteq Words /\ None \in Words
                  /\ Unplanned \subseteq Words
  BY DEF Words

\* What may become of an attempt at work, and of a run that waits for its worker.
LEMMA Ends ==
  ASSUME F!FeedAssumption, run \in FeedRuns, run.status = "running", NEW t,
         \/ \E asks \in BOOLEAN, why \in Reasons :
              t \in F!Blocks([F!Finished EXCEPT !.asks = asks], why)
         \/ t = F!Event([run EXCEPT !.status = "blocked", !.reason = "lost"], "unsettled", None)
         \/ t = [F!Event(run, "timeout", None) EXCEPT !.status = "blocked", !.reason = "late"]
         \/ t \in F!Blocks(F!Event(F!Finished, "timeout", None), "late")
  PROVE  Worked(run, t)
<1> DEFINE f == F!Finished
<1>1. At(run, f)
  BY DEF FeedRuns, At, F!Finished
<1>2. \A asks \in BOOLEAN : At(run, [f EXCEPT !.asks = asks])
  BY <1>1 DEF FeedRuns, At
<1> HIDE DEF f
<1>3. CASE \E asks \in BOOLEAN, why \in Reasons : t \in F!Blocks([f EXCEPT !.asks = asks], why)
  <2>1. PICK asks \in BOOLEAN, why \in Reasons : t \in F!Blocks([f EXCEPT !.asks = asks], why)
    BY <1>3
  <2>2. At(run, [f EXCEPT !.asks = asks]) /\ why \in Words
    BY <1>2, Reasoned
  <2>3. QED
    BY <2>1, <2>2, BlocksAt DEF Worked
<1>4. CASE t = F!Event([run EXCEPT !.status = "blocked", !.reason = "lost"], "unsettled", None)
  <2> DEFINE b == [run EXCEPT !.status = "blocked", !.reason = "lost"]
  <2>1. At(run, b) /\ b.status = "blocked" /\ b.reason = "lost"
    BY Reasoned DEF FeedRuns, At, Unplanned
  <2> HIDE DEF b
  <2>2. t \in FeedRuns /\ Alike(b, t) /\ OneMore(run, t.events, "unsettled")
        /\ t.current = run.current /\ t.requests = run.requests
    BY <1>4, <2>1, EventAt, KindNames, Reasoned DEF b
  <2>3. QED
    BY <2>1, <2>2 DEF Worked, Halts, Alike, Unplanned
<1>5. CASE t = [F!Event(run, "timeout", None) EXCEPT !.status = "blocked", !.reason = "late"]
  <2> DEFINE d == F!Event(run, "timeout", None)
  <2>1. d \in FeedRuns /\ Alike(run, d) /\ OneMore(run, d.events, "timeout")
    BY Logged, KindNames, Reasoned
  <2> HIDE DEF d
  <2>2. t = [d EXCEPT !.status = "blocked", !.reason = "late"]
    BY <1>5 DEF d
  <2>3. t \in FeedRuns /\ t.events = d.events /\ t.current = d.current
        /\ t.requests = d.requests /\ t.status = "blocked" /\ t.reason = "late"
    BY <2>1, <2>2, Reasoned DEF FeedRuns, Unplanned
  <2>4. QED
    BY <2>1, <2>3 DEF Worked, Halts, Alike, Unplanned
<1>6. CASE t \in F!Blocks(F!Event(f, "timeout", None), "late")
  <2> DEFINE d == F!Event(f, "timeout", None)
  <2>1. f \in FeedRuns /\ f.events = run.events /\ f.current = run.current
        /\ f.requests = run.requests
    BY <1>1 DEF At
  <2>2. d \in FeedRuns /\ Alike(f, d) /\ OneMore(run, d.events, "timeout")
    BY <1>1, EventAt, KindNames, Reasoned
  <2>3. "late" \in Words
    BY Reasoned DEF Unplanned
  <2>4. t \in F!Blocks(d, "late")
    BY <1>6
  <2> HIDE DEF d
  <2>5. Goes(d, t)
    BY <2>2, <2>3, <2>4, BlocksAre
  <2>6. Grows(run.events, d) /\ Logs(run.events, d, Remarks)
    BY <2>2, LogsOne, RemarkNames
  <2>7. Grows(run.events, t) /\ Logs(run.events, t, Remarks)
    BY <2>2, <2>5, <2>6, Compose DEF Goes
  <2>8. d.requests = run.requests /\ d.current = run.current
    BY <2>1, <2>2 DEF Alike
  <2>9. Says(d.events, t, {"blocked"}) => Says(run.events, t, {"blocked"})
    BY <2>2, <2>5, <2>6, GrowsOn DEF Says, Goes
  <2>10. QED
    BY <2>5, <2>7, <2>8, <2>9 DEF Goes, Onward, Worked
<1>7. QED
  BY <1>3, <1>4, <1>5, <1>6 DEF f

LEMMA HostsDo ==
  ASSUME F!FeedAssumption, run \in FeedRuns, NEW t \in F!Hosts
  PROVE  Worked(run, t)
<1>1. At(run, run)
  BY DEF At
<1>2. CASE /\ F!Ready /\ F!Here \in Gates
           /\ t \in {F!Event([run EXCEPT !.status = "gate", !.requests[F!Here] = @ + 1],
                             "gate_opened", None)}
  BY <1>2, Begins DEF F!Ready, F!Here, Worked
<1>3. CASE /\ F!Ready
           /\ t \in {F!Event([F!Started EXCEPT !.active = F!Started.attempts[F!Here],
                              !.status = "running", !.reason = None, !.asks = FALSE],
                             "started", None)}
  BY <1>3, Begins DEF F!Ready, F!Here, Worked
<1>4. CASE /\ F!Ready
           /\ t \in UNION {F!Blocks(F!Started, why) \cup {F!Stop(run, why)} : why \in Reasons}
  <2>1. PICK why \in Reasons : t \in F!Blocks(F!Started, why) \/ t = F!Stop(run, why)
    BY <1>4
  <2> DEFINE f == [run.attempts EXCEPT ![run.current] = @ + 1]
             a == F!Started
  <2>2. f \in [F!Names -> Nat]
    BY CountsOn DEF FeedRuns
  <2>3. a = [run EXCEPT !.attempts = f]
    BY DEF F!Started, F!Here
  <2> HIDE DEF f, a
  <2>4. At(run, a)
    BY <2>2, <2>3 DEF FeedRuns, At
  <2>5. run.status # "blocked" /\ why \in Words
    BY <1>4, Reasoned DEF F!Ready
  <2>6. CASE t \in F!Blocks(a, why)
    BY <2>4, <2>5, <2>6, BlocksAt DEF Worked
  <2>7. CASE t = F!Stop(run, why)
    BY <1>1, <2>5, <2>7, BlocksAt DEF Worked
  <2>8. QED
    BY <2>1, <2>6, <2>7 DEF a
<1>5. CASE /\ F!Hosted /\ run.status = "gate"
           /\ t \in UNION {F!Blocks(run, why) : why \in Reasons}
  <2>1. PICK why \in Reasons : t \in F!Blocks(run, why)
    BY <1>5
  <2>2. run.status # "blocked" /\ why \in Words
    BY <1>5, Reasoned
  <2>3. QED
    BY <1>1, <2>1, <2>2, BlocksAt DEF Worked
<1>6. CASE /\ F!Working
           /\ \/ t \in F!BlocksWith(TRUE) \cup F!BlocksWith(FALSE)
              \/ t \in {F!Event([run EXCEPT !.status = "blocked", !.reason = "lost"],
                                "unsettled", None),
                        [F!Event(run, "timeout", None) EXCEPT !.status = "blocked",
                                                              !.reason = "late"]}
              \/ t \in F!Blocks(F!Event(F!Finished, "timeout", None), "late")
  <2>1. run.status = "running"
    BY <1>6 DEF F!Working
  <2>2. \/ \E asks \in BOOLEAN, why \in Reasons :
              t \in F!Blocks([F!Finished EXCEPT !.asks = asks], why)
        \/ t = F!Event([run EXCEPT !.status = "blocked", !.reason = "lost"], "unsettled", None)
        \/ t = [F!Event(run, "timeout", None) EXCEPT !.status = "blocked", !.reason = "late"]
        \/ t \in F!Blocks(F!Event(F!Finished, "timeout", None), "late")
    BY <1>6 DEF F!BlocksWith
  <2>3. QED
    BY <2>1, <2>2, Ends
<1>7. CASE /\ run.status = "blocked"
           /\ t \in {F!Event([F!Finished EXCEPT !.reason = "settled"], "settled", None)}
  <2> DEFINE b == [F!Finished EXCEPT !.reason = "settled"]
  <2>1. At(run, b) /\ b.status = run.status /\ b.reason = "settled"
    BY Reasoned DEF FeedRuns, At, Unplanned, F!Finished
  <2> HIDE DEF b
  <2>2. t \in FeedRuns /\ Alike(b, t) /\ OneMore(run, t.events, "settled")
        /\ t.current = run.current /\ t.requests = run.requests
    BY <1>7, <2>1, EventAt, KindNames, Reasoned DEF b
  <2>3. QED
    BY <2>1, <2>2 DEF Worked, Stays, Alike, Unplanned
<1>8. CASE /\ F!Stopped
           /\ t \in {F!Event([run EXCEPT !.status = "ready", !.reason = None, !.asks = FALSE],
                             "owner_answer", None)}
  <2>1. t = F!Event([run EXCEPT !.status = "ready", !.reason = None, !.asks = FALSE],
                    "owner_answer", None)
    BY <1>8
  <2>2. QED
    BY <2>1, RemarkNames, KindNames, Readied
<1> DEFINE
      Opening ==
        {F!Event([run EXCEPT !.status = "gate", !.requests[F!Here] = @ + 1],
                 "gate_opened", None)}
      Starting ==
        {F!Event([F!Started EXCEPT !.active = F!Started.attempts[F!Here],
                  !.status = "running", !.reason = None, !.asks = FALSE],
                 "started", None)}
      Refused == UNION {F!Blocks(F!Started, why) \cup {F!Stop(run, why)} : why \in Reasons}
      Failed == UNION {F!Blocks(run, why) : why \in Reasons}
      Blocked == F!BlocksWith(TRUE) \cup F!BlocksWith(FALSE)
      Late == {F!Event([run EXCEPT !.status = "blocked", !.reason = "lost"],
                       "unsettled", None),
               [F!Event(run, "timeout", None) EXCEPT !.status = "blocked", !.reason = "late"]}
      TooLate == F!Blocks(F!Event(F!Finished, "timeout", None), "late")
      Settling == {F!Event([F!Finished EXCEPT !.reason = "settled"], "settled", None)}
      Answered == {F!Event([run EXCEPT !.status = "ready", !.reason = None, !.asks = FALSE],
                           "owner_answer", None)}
<1>9. F!Hosts =
        UNION {IF F!Ready /\ F!Here \in Gates THEN Opening ELSE {},
               IF F!Ready /\ F!Here \notin Gates THEN Starting \cup Refused ELSE {},
               IF F!Hosted /\ run.status = "gate" THEN Failed ELSE {},
               IF F!Working THEN Blocked \cup Late \cup TooLate ELSE {},
               IF run.status = "blocked" /\ ~F!Settled THEN Settling ELSE {},
               IF F!Hosted /\ F!Stopped /\ F!Settled /\ run.asks THEN Answered ELSE {}}
  BY DEF F!Hosts
<1>10. /\ t \in Opening /\ F!Ready /\ F!Here \in Gates => Worked(run, t)
       /\ t \in Starting \cup Refused /\ F!Ready => Worked(run, t)
       /\ t \in Failed /\ F!Hosted /\ run.status = "gate" => Worked(run, t)
       /\ t \in Blocked \cup Late \cup TooLate /\ F!Working => Worked(run, t)
       /\ t \in Settling /\ run.status = "blocked" => Worked(run, t)
       /\ t \in Answered /\ F!Stopped => Worked(run, t)
  BY <1>2, <1>3, <1>4, <1>5, <1>6, <1>7, <1>8
<1> HIDE DEF Opening, Starting, Refused, Failed, Blocked, Late, TooLate, Settling, Answered
<1>11. QED
  BY <1>9, <1>10

LEMMA NotesDo ==
  ASSUME run \in FeedRuns, NEW t \in F!Notes
  PROVE  Stays(run, t)
<1>1. PICK kind \in {"host_error", "host_recovered"}, w \in Words : t = F!Event(run, kind, w)
  BY Reasoned DEF F!Notes
<1>2. t \in FeedRuns /\ Alike(run, t) /\ OneMore(run, t.events, kind)
  BY <1>1, Logged, KindNames
<1>3. QED
  BY <1>2 DEF Stays, Alike

LEMMA ControlsDo ==
  ASSUME F!FeedAssumption, run \in FeedRuns, NEW t \in F!Controls
  PROVE  Worked(run, t)
<1> DEFINE
      Pausing == F!Event([run EXCEPT !.paused = ~@],
                         IF run.paused THEN "resume" ELSE "pause", None)
      Cancelling == F!Event([run EXCEPT !.cancelled = TRUE, !.status = "blocked",
                                        !.reason = "cancelled"], "cancel", None)
      Ready(kind) ==
        F!Event([run EXCEPT !.status = "ready", !.reason = None, !.asks = FALSE],
                kind, None)
      left == F!Left(F!Event(run, "approve", None))
      Approved == IF After[F!Here] = None THEN [left EXCEPT !.status = "done"]
                  ELSE [left EXCEPT !.current = After[F!Here], !.status = "ready"]
      Reopening == F!Event([run EXCEPT !.cancelled = FALSE, !.reason = "reopened"],
                           "reopen", None)
<1>1. CASE t = Pausing
  <2> DEFINE b == [run EXCEPT !.paused = ~@]
  <2>1. At(run, b) /\ b.status = run.status /\ b.reason = run.reason
    BY DEF FeedRuns, At
  <2>2. PICK kind \in {"resume", "pause"} : t = F!Event(b, kind, None)
    BY <1>1
  <2> HIDE DEF b
  <2>3. t \in FeedRuns /\ Alike(b, t) /\ OneMore(run, t.events, kind)
        /\ t.current = run.current /\ t.requests = run.requests
    BY <2>1, <2>2, EventAt, KindNames, Reasoned
  <2>4. QED
    BY <2>1, <2>3 DEF Worked, Stays, Alike
<1>2. CASE t = Cancelling
  <2> DEFINE b == [run EXCEPT !.cancelled = TRUE, !.status = "blocked", !.reason = "cancelled"]
  <2>1. At(run, b) /\ b.status = "blocked" /\ b.reason = "cancelled"
    BY Reasoned DEF FeedRuns, At, Unplanned
  <2>2. t = F!Event(b, "cancel", None)
    BY <1>2
  <2> HIDE DEF b
  <2>3. t \in FeedRuns /\ Alike(b, t) /\ OneMore(run, t.events, "cancel")
        /\ t.current = run.current /\ t.requests = run.requests
    BY <2>1, <2>2, EventAt, KindNames, Reasoned
  <2>4. QED
    BY <2>1, <2>3 DEF Worked, Halts, Stays, Alike, Unplanned
<1>3. CASE t \in {Ready("retry"), Ready("answer")}
  BY <1>3, Readied, KindNames, RemarkNames
<1>4. CASE t = Approved
  <2> DEFINE d == F!Event(run, "approve", None)
  <2>1. d \in FeedRuns /\ Alike(run, d) /\ OneMore(run, d.events, "approve")
    BY Logged, KindNames, Reasoned
  <2> HIDE DEF d
  <2>2. left \in FeedRuns /\ left.events = d.events /\ left.requests = d.requests
    BY <2>1, LeftIs DEF d
  <2>3. After[F!Here] \in F!Names \cup {None}
    BY DEF F!FeedAssumption, F!Here, FeedRuns
  <2>4. \/ t = [left EXCEPT !.status = "done"]
        \/ After[F!Here] \in F!Names
             /\ t = [left EXCEPT !.current = After[F!Here], !.status = "ready"]
    BY <1>4, <2>3
  <2> HIDE DEF left
  <2>5. t \in FeedRuns /\ t.events = d.events /\ t.requests = d.requests
        /\ t.status \in {"ready", "done"}
    BY <2>2, <2>4 DEF FeedRuns
  <2>6. Grows(run.events, t) /\ Logs(run.events, t, Remarks)
    BY <2>1, <2>5, LogsOne, RemarkNames
  <2>7. QED
    BY <2>1, <2>5, <2>6 DEF Worked, Onward, Goes, Alike
<1>5. CASE t = Reopening
  <2> DEFINE b == [run EXCEPT !.cancelled = FALSE, !.reason = "reopened"]
  <2>1. At(run, b) /\ b.status = run.status /\ b.reason = "reopened"
    BY Reasoned DEF FeedRuns, At, Unplanned
  <2>2. t = F!Event(b, "reopen", None)
    BY <1>5
  <2> HIDE DEF b
  <2>3. t \in FeedRuns /\ Alike(b, t) /\ OneMore(run, t.events, "reopen")
        /\ t.current = run.current /\ t.requests = run.requests
    BY <2>1, <2>2, EventAt, KindNames, Reasoned
  <2>4. QED
    BY <2>1, <2>3 DEF Worked, Stays, Alike, Unplanned
<1>6. t \in {Pausing, Cancelling, Ready("retry"), Ready("answer"), Approved, Reopening}
  BY DEF F!Controls
<1>7. QED
  BY <1>1, <1>2, <1>3, <1>4, <1>5, <1>6

\* The run leaves its step, which was passed.
Passings == {"step_done", "gate_passed", "override"}
LeavesPassed(r, t) ==
  /\ Grows(r.events, t) /\ t.requests = r.requests /\ t.status \in {"ready", "done"}
  /\ \E i \in Since(r.events, t) :
       /\ t.events[i].kind \in Passings /\ t.events[i].step = r.current
       /\ \A k \in Since(r.events, t) : k > i => t.events[k].kind \in Remarks
  /\ \A i \in Since(r.events, t) :
       t.events[i].step # r.current => t.events[i].kind \in Remarks

LEMMA PassesAre ==
  ASSUME F!FeedAssumption, run \in FeedRuns,
         NEW t \in F!Passes \cup F!Overrides
  PROVE  LeavesPassed(run, t)
<1> DEFINE b == F!Finished
<1>1. At(run, b) /\ At(run, run)
  BY DEF FeedRuns, At, F!Finished
<1> HIDE DEF b
<1>2. PICK kind \in Passings, c \in {run, b} :
        t = F!Leave(F!Event(c, kind, None), After[F!Here])
  BY DEF F!Passes, F!Overrides, Passings, b
<1> DEFINE d == F!Event(c, kind, None)
<1>3. c \in FeedRuns /\ At(run, c)
  BY <1>1 DEF At
<1>4. kind \in Kinds
  BY KindNames DEF Passings
<1>5. d \in FeedRuns /\ OneMore(run, d.events, kind) /\ d.requests = run.requests
  BY <1>3, <1>4, EventAt, Reasoned
<1>6. t = F!Leave(d, After[F!Here])
  BY <1>2
<1> HIDE DEF d
<1>7. After[F!Here] \in F!Names \cup {None}
  BY DEF F!FeedAssumption, F!Here, FeedRuns
<1>8. /\ Grows(d.events, t) /\ Logs(d.events, t, Remarks)
      /\ t.requests = d.requests /\ t.status \in {"ready", "done"}
  BY <1>5, <1>6, <1>7, LeaveIs
<1>9. /\ Grows(run.events, d)
      /\ \A i \in Since(run.events, d) :
           d.events[i].kind = kind /\ d.events[i].step = run.current
      /\ Len(run.events) + 1 \in Since(run.events, d)
  BY <1>5, LogsOne
<1>10. /\ Grows(run.events, t)
       /\ Len(run.events) \in Nat /\ Len(d.events) \in Nat /\ Len(t.events) \in Nat
       /\ Since(run.events, t) = Since(run.events, d) \cup Since(d.events, t)
       /\ \A i \in Since(run.events, d) : t.events[i] = d.events[i]
  BY <1>5, <1>8, <1>9, GrowsOn
<1>11. Len(d.events) = Len(run.events) + 1
  BY <1>5 DEF OneMore
<1>12. \A k \in Since(run.events, t) :
         k > Len(run.events) + 1 => t.events[k].kind \in Remarks
  BY <1>8, <1>10, <1>11 DEF Logs, Since
<1>13. /\ t.events[Len(run.events) + 1].kind \in Passings
       /\ t.events[Len(run.events) + 1].step = run.current
       /\ Len(run.events) + 1 \in Since(run.events, t)
  BY <1>9, <1>10
<1>14. \A i \in Since(run.events, t) :
         t.events[i].step # run.current => t.events[i].kind \in Remarks
  BY <1>8, <1>9, <1>10 DEF Logs
<1>15. QED
  BY <1>5, <1>8, <1>10, <1>12, <1>13, <1>14 DEF LeavesPassed

\* The generation of a step: how often it was blocked, opened and dealt with.
Counted == {"blocked", "block", "gate_opened", "retry", "answer", "approve"}
Turned(q, s) == {i \in 1 .. Len(q) : q[i].step = s /\ q[i].kind \in Counted}
Gen(q, s) == Cardinality(Turned(q, s))

LEMMA GenerationIs ==
  ASSUME NEW r \in FeedRuns
  PROVE  F!Generation(r) = Gen(r.events, r.current)
<1>1. DOMAIN r.events = 1 .. Len(r.events)
  BY DEF FeedRuns
<1>2. \A S : F!Cardinality(S) = Cardinality(S)
  BY DEF F!Cardinality, Cardinality
<1>3. {i \in DOMAIN r.events :
         /\ r.events[i].step = r.current
         /\ r.events[i].kind \in {"blocked", "block", "gate_opened", "retry", "answer",
                                  "approve"}} = Turned(r.events, r.current)
  BY <1>1 DEF Turned, Counted
<1>4. QED
  BY <1>2, <1>3 DEF F!Generation, Gen

LEMMA GenGrows ==
  ASSUME NEW r \in FeedRuns, NEW t \in FeedRuns, Grows(r.events, t), NEW s
  PROVE  /\ Gen(r.events, s) \in Nat /\ Gen(t.events, s) \in Nat
         /\ Gen(r.events, s) <= Gen(t.events, s)
         /\ (\E i \in Since(r.events, t) :
               t.events[i].step = s /\ t.events[i].kind \in Counted)
            => Gen(r.events, s) < Gen(t.events, s)
         /\ (\A i \in Since(r.events, t) :
               t.events[i].step # s \/ t.events[i].kind \notin Counted)
            => Gen(r.events, s) = Gen(t.events, s)
<1> DEFINE Q == Turned(r.events, s)
           T == Turned(t.events, s)
<1>1. Len(r.events) \in Nat /\ Len(t.events) \in Nat /\ Len(r.events) <= Len(t.events)
      /\ \A i \in 1 .. Len(r.events) : t.events[i] = r.events[i]
  BY DEF Grows, FeedRuns
<1>2. Q \subseteq T
  BY <1>1 DEF Turned
<1>3. IsFiniteSet(1 .. Len(t.events))
  BY <1>1, FS_Interval
<1>4. T \subseteq 1 .. Len(t.events)
  BY DEF Turned
<1>5. IsFiniteSet(T)
  BY <1>3, <1>4, FS_Subset
<1>6. IsFiniteSet(Q) /\ Cardinality(Q) <= Cardinality(T)
      /\ (Cardinality(T) = Cardinality(Q) => Q = T)
  BY <1>2, <1>5, FS_Subset
<1>7. Cardinality(Q) \in Nat /\ Cardinality(T) \in Nat
  BY <1>5, <1>6, FS_CardinalityType
<1>8. \A i \in Since(r.events, t) :
        t.events[i].step = s /\ t.events[i].kind \in Counted => i \in T /\ i \notin Q
  BY <1>1 DEF Turned, Since
<1>9. (\A i \in Since(r.events, t) :
         t.events[i].step # s \/ t.events[i].kind \notin Counted) => Q = T
  BY <1>1 DEF Turned, Since
<1> HIDE DEF Q, T
<1>10. Gen(r.events, s) = Cardinality(Q) /\ Gen(t.events, s) = Cardinality(T)
  BY DEF Gen, Q, T
<1>11. QED
  BY <1>6, <1>7, <1>8, <1>9, <1>10

\* A stop that no block was logged for.
Unsaid(r) ==
  /\ r.status = "blocked" /\ r.reason \in Unplanned
  /\ \E i \in 1 .. Len(r.events) :
       /\ r.events[i].step = r.current
       /\ r.events[i].kind \in {"timeout", "unsettled", "cancel"}
       /\ \A k \in 1 .. Len(r.events) :
            k > i => r.events[k].step # r.current \/ r.events[k].kind # "blocked"

\* What has become of a stop of step s that was the n-th of m, with g, q and w.
Followed(r, m, n, s, g, q, w) ==
  /\ n <= m /\ q <= r.requests[s] /\ g <= Gen(r.events, s)
  /\ n = m /\ r.status \in {"gate", "blocked"} =>
       /\ r.current = s /\ r.requests[s] = q /\ Gen(r.events, s) = g
       /\ r.reason = w \/ r.reason \in Unplanned
  /\ n < m /\ r.status \in {"gate", "blocked"} =>
       \/ r.current # s \/ q < r.requests[s] \/ g < Gen(r.events, s)
       \/ Unsaid(r)

StopsNow(r, t, m) ==
  m + (IF t.status \in {"gate", "blocked"} /\ t.status # r.status THEN 1 ELSE 0)

LEMMA StaysFollowed ==
  ASSUME NEW r \in FeedRuns, NEW t, Stays(r, t), NEW s
  PROVE  /\ t \in FeedRuns /\ t.requests = r.requests /\ t.current = r.current
         /\ t.status = r.status /\ Gen(t.events, s) = Gen(r.events, s)
         /\ Gen(r.events, s) \in Nat
         /\ t.reason = r.reason \/ t.reason \in Unplanned
         /\ Unsaid(r) => Unsaid(t)
<1>1. PICK kind \in {"settled", "pause", "resume", "cancel", "reopen", "host_error",
                     "host_recovered"} : OneMore(r, t.events, kind)
  BY DEF Stays
<1>2. t \in FeedRuns /\ t.requests = r.requests /\ t.current = r.current
      /\ t.status = r.status /\ (t.reason = r.reason \/ t.reason \in Unplanned)
  BY DEF Stays
<1>3. /\ Grows(r.events, t)
      /\ \A i \in Since(r.events, t) :
              t.events[i].kind = kind /\ t.events[i].step = r.current
  BY <1>1, <1>2, LogsOne
<1>4. kind \notin Counted /\ kind # "blocked"
  BY DEF Counted
<1>5. Gen(t.events, s) = Gen(r.events, s) /\ Gen(r.events, s) \in Nat
  BY <1>2, <1>3, <1>4, GenGrows
<1>6. ASSUME Unsaid(r)
      PROVE  Unsaid(t)
  <2>1. PICK i \in 1 .. Len(r.events) :
          /\ r.events[i].step = r.current
          /\ r.events[i].kind \in {"timeout", "unsettled", "cancel"}
          /\ \A k \in 1 .. Len(r.events) :
               k > i => r.events[k].step # r.current \/ r.events[k].kind # "blocked"
    BY <1>6 DEF Unsaid
  <2>2. /\ Len(r.events) \in Nat /\ Len(t.events) = Len(r.events) + 1
        /\ \A k \in 1 .. Len(r.events) : t.events[k] = r.events[k]
        /\ t.events[Len(r.events) + 1].kind = kind
    BY <1>1 DEF OneMore
  <2>3. i \in 1 .. Len(t.events) /\ t.events[i] = r.events[i]
    BY <2>2
  <2>4. \A k \in 1 .. Len(t.events) :
          k > i => t.events[k].step # t.current \/ t.events[k].kind # "blocked"
    BY <1>2, <1>4, <2>1, <2>2
  <2>5. QED
    BY <1>2, <1>6, <2>1, <2>3, <2>4 DEF Unsaid
<1>7. QED
  BY <1>2, <1>5, <1>6

LEMMA HaltsUnsaid ==
  ASSUME NEW r \in FeedRuns, NEW t, Halts(r, t)
  PROVE  t \in FeedRuns /\ Grows(r.events, t) /\ t.requests = r.requests /\ Unsaid(t)
<1>1. t \in FeedRuns /\ t.current = r.current /\ t.requests = r.requests
      /\ t.status = "blocked" /\ t.reason \in Unplanned
  BY DEF Halts
<1>2. PICK kind \in {"timeout", "unsettled", "cancel"} : OneMore(r, t.events, kind)
  BY DEF Halts
<1>3. Len(r.events) \in Nat /\ Len(t.events) = Len(r.events) + 1
      /\ t.events[Len(r.events) + 1].kind = kind
      /\ t.events[Len(r.events) + 1].step = r.current
  BY <1>2 DEF OneMore
<1>4. Unsaid(t)
  <2>1. Len(r.events) + 1 \in 1 .. Len(t.events)
        /\ \A k \in 1 .. Len(t.events) : ~(k > Len(r.events) + 1)
    BY <1>3
  <2>2. QED
    BY <1>1, <1>3, <2>1 DEF Unsaid
<1>5. QED
  BY <1>1, <1>2, <1>4, LogsOne

LEMMA BegunOne ==
  ASSUME NEW r \in FeedRuns, NEW t, Begun(r, t)
  PROVE  /\ t \in FeedRuns /\ Grows(r.events, t)
         /\ \A i \in Since(r.events, t) : t.events[i].step = r.current
         /\ OneMore(r, t.events, "gate_opened") \/ OneMore(r, t.events, "started")
<1>1. t \in FeedRuns
  BY DEF Begun
<1>2. OneMore(r, t.events, "gate_opened") \/ OneMore(r, t.events, "started")
  BY DEF Begun
<1>3. ASSUME NEW kind, OneMore(r, t.events, kind)
      PROVE  Grows(r.events, t) /\ \A i \in Since(r.events, t) : t.events[i].step = r.current
  BY <1>1, <1>3 DEF OneMore, Grows, Since
<1>4. QED
  BY <1>1, <1>2, <1>3

LEMMA WorkedFollowed ==
  ASSUME NEW r \in FeedRuns, NEW t, Worked(r, t) \/ LeavesPassed(r, t),
         NEW m \in Nat, NEW n \in Nat, NEW s \in F!Names, NEW g \in Nat, NEW q \in Nat,
         NEW w, Followed(r, m, n, s, g, q, w)
  PROVE  t \in FeedRuns /\ Followed(t, StopsNow(r, t, m), n, s, g, q, w)
<1>1. CASE Stays(r, t)
  <2>1. /\ t \in FeedRuns /\ t.requests = r.requests /\ t.current = r.current
        /\ t.status = r.status /\ Gen(t.events, s) = Gen(r.events, s)
        /\ t.reason = r.reason \/ t.reason \in Unplanned
        /\ Unsaid(r) => Unsaid(t)
    BY <1>1, StaysFollowed
  <2>2. StopsNow(r, t, m) = m
    BY <2>1 DEF StopsNow
  <2>3. QED
    BY <2>1, <2>2 DEF Followed
<1>2. \A x \in FeedRuns : x.requests[s] \in Nat
  BY DEF FeedRuns
<1>3. CASE Halts(r, t)
  <2>1. t \in FeedRuns /\ Grows(r.events, t) /\ t.requests = r.requests /\ Unsaid(t)
    BY <1>3, HaltsUnsaid
  <2>2. StopsNow(r, t, m) = m + 1
    BY <1>3 DEF Halts, StopsNow
  <2>3. Gen(r.events, s) <= Gen(t.events, s) /\ Gen(r.events, s) \in Nat
        /\ Gen(t.events, s) \in Nat
    BY <2>1, GenGrows
  <2>4. QED
    BY <1>2, <2>1, <2>2, <2>3 DEF Followed
<1>4. CASE Begun(r, t)
  <2>1. t \in FeedRuns /\ t.current = r.current /\ r.status = "ready"
        /\ \/ t.status = "running" /\ t.requests = r.requests
           \/ t.status = "gate" /\ t.requests = Asks(r)
    BY <1>4 DEF Begun
  <2>3. Grows(r.events, t)
    BY <1>4, BegunOne
  <2>4. Gen(r.events, s) <= Gen(t.events, s) /\ Gen(r.events, s) \in Nat
        /\ Gen(t.events, s) \in Nat
    BY <2>1, <2>3, GenGrows
  <2>5. r.requests \in [F!Names -> Nat]
    BY DEF FeedRuns
  <2>6. CASE t.status = "running" /\ t.requests = r.requests
    <3>1. StopsNow(r, t, m) = m
      BY <2>6 DEF StopsNow
    <3>2. QED
      BY <1>2, <2>1, <2>4, <2>6, <3>1 DEF Followed
  <2>7. CASE t.status = "gate" /\ t.requests = Asks(r)
    <3>1. StopsNow(r, t, m) = m + 1
      BY <2>1, <2>7 DEF StopsNow
    <3>2. t.requests[s] = IF s = r.current THEN r.requests[s] + 1 ELSE r.requests[s]
      BY <2>5, <2>7 DEF Asks
    <3>3. QED
      BY <1>2, <2>1, <2>4, <2>7, <3>1, <3>2 DEF Followed
  <2>8. QED
    BY <2>1, <2>6, <2>7
<1>5. CASE Onward(r, t)
  <2>1. t \in FeedRuns /\ Grows(r.events, t) /\ t.requests = r.requests
    BY <1>5 DEF Onward, Goes, Grows
  <2>2. Gen(r.events, s) <= Gen(t.events, s) /\ Gen(r.events, s) \in Nat
        /\ Gen(t.events, s) \in Nat
    BY <2>1, GenGrows
  <2>3. CASE t.status \in {"ready", "done"}
    <3>1. StopsNow(r, t, m) = m
      BY <2>3 DEF StopsNow
    <3>2. QED
      BY <1>2, <2>1, <2>2, <2>3, <3>1 DEF Followed
  <2>4. CASE t.status = "blocked" /\ Says(r.events, t, {"blocked"})
    <3>1. StopsNow(r, t, m) = m + 1
      BY <1>5, <2>4 DEF StopsNow, Onward
    <3>2. t.current = s => Gen(r.events, s) < Gen(t.events, s)
      BY <2>1, <2>4, GenGrows DEF Says, Counted
    <3>3. QED
      BY <1>2, <2>1, <2>2, <2>4, <3>1, <3>2 DEF Followed
  <2>5. QED
    BY <1>5, <2>3, <2>4 DEF Onward, Goes
<1>6. CASE LeavesPassed(r, t)
  <2>1. t \in FeedRuns /\ Grows(r.events, t) /\ t.requests = r.requests
        /\ t.status \in {"ready", "done"}
    BY <1>6 DEF LeavesPassed, Grows
  <2>2. Gen(r.events, s) <= Gen(t.events, s) /\ Gen(r.events, s) \in Nat
        /\ Gen(t.events, s) \in Nat
    BY <2>1, GenGrows
  <2>3. StopsNow(r, t, m) = m
    BY <2>1 DEF StopsNow
  <2>4. QED
    BY <1>2, <2>1, <2>2, <2>3 DEF Followed
<1>7. QED
  BY <1>1, <1>3, <1>4, <1>5, <1>6 DEF Worked

\* A step is shown as it was before what does not deal with it.
LEMMA DoneStays ==
  ASSUME NEW r \in FeedRuns, NEW t \in FeedRuns, Grows(r.events, t), NEW s,
         \A i \in Since(r.events, t) :
           t.events[i].step # s \/ t.events[i].kind \in Remarks
  PROVE  F!IsDone(t, s) <=> F!IsDone(r, s)
<1>1. /\ Len(r.events) \in Nat /\ Len(t.events) \in Nat /\ Len(r.events) <= Len(t.events)
      /\ \A i \in 1 .. Len(r.events) : t.events[i] = r.events[i]
      /\ DOMAIN r.events = 1 .. Len(r.events) /\ DOMAIN t.events = 1 .. Len(t.events)
  BY DEF Grows, FeedRuns
<1>2. \A i \in 1 .. Len(r.events) : F!Deals(t, i, s) <=> F!Deals(r, i, s)
  BY <1>1 DEF F!Deals
<1>3. \A i \in 1 .. Len(t.events) : i \notin 1 .. Len(r.events) => ~F!Deals(t, i, s)
  BY <1>1 DEF F!Deals, Since, Remarks
<1>4. QED
  BY <1>1, <1>2, <1>3 DEF F!IsDone

LEMMA DoneWorks ==
  ASSUME NEW r \in FeedRuns, NEW t, Onward(r, t) \/ Halts(r, t) \/ Stays(r, t), NEW s
  PROVE  /\ t \in FeedRuns /\ (F!IsDone(t, s) <=> F!IsDone(r, s))
         /\ t.status \in {"running", "gate"} => t.status = r.status /\ t.current = r.current
<1>1. t \in FeedRuns /\ Grows(r.events, t) /\ Logs(r.events, t, Remarks)
  <2>1. CASE Onward(r, t)
    BY <2>1 DEF Onward, Goes, Grows
  <2>2. CASE Halts(r, t) \/ Stays(r, t)
    <3>1. t \in FeedRuns
      BY <2>2 DEF Halts, Stays
    <3>2. PICK kind \in {"timeout", "unsettled", "cancel", "settled", "pause", "resume",
                         "reopen", "host_error", "host_recovered"} :
            OneMore(r, t.events, kind)
      BY <2>2 DEF Halts, Stays
    <3>3. kind \in Remarks
      BY RemarkNames
    <3>4. QED
      BY <3>1, <3>2, <3>3, LogsOne
  <2>3. QED
    BY <2>1, <2>2
<1>2. F!IsDone(t, s) <=> F!IsDone(r, s)
  BY <1>1, DoneStays DEF Logs
<1>3. QED
  BY <1>1, <1>2 DEF Onward, Goes, Halts, Stays

LEMMA DoneBegins ==
  ASSUME NEW r \in FeedRuns, NEW t, Begun(r, t), NEW s
  PROVE  /\ t \in FeedRuns /\ t.current = r.current /\ t.status \in {"running", "gate"}
         /\ IF s = r.current THEN ~F!IsDone(t, s) ELSE F!IsDone(t, s) <=> F!IsDone(r, s)
<1>1. t \in FeedRuns /\ t.current = r.current /\ t.status \in {"running", "gate"}
  BY DEF Begun
<1>2. PICK kind \in {"gate_opened", "started"} : OneMore(r, t.events, kind)
  BY BegunOne
<1>3. /\ Grows(r.events, t)
      /\ \A i \in Since(r.events, t) : t.events[i].step = r.current
  BY BegunOne
<1>4. CASE s # r.current
  BY <1>1, <1>3, <1>4, DoneStays
<1>5. CASE s = r.current
  <2>1. /\ Len(r.events) \in Nat /\ Len(t.events) = Len(r.events) + 1
        /\ DOMAIN t.events = 1 .. Len(t.events)
        /\ t.events[Len(r.events) + 1].kind = kind
        /\ t.events[Len(r.events) + 1].step = s
    BY <1>1, <1>2, <1>5 DEF OneMore, FeedRuns
  <2>2. F!Deals(t, Len(r.events) + 1, s)
    BY <2>1 DEF F!Deals, F!Finishing
  <2>3. ~F!IsDone(t, s)
    BY <2>1, <2>2 DEF F!IsDone
  <2>4. QED
    BY <1>1, <1>5, <2>3
<1>6. QED
  BY <1>4, <1>5

LEMMA DonePasses ==
  ASSUME NEW r \in FeedRuns, NEW t, LeavesPassed(r, t), NEW s
  PROVE  /\ t \in FeedRuns /\ t.status \notin {"running", "gate"}
         /\ IF s = r.current THEN F!IsDone(t, s) ELSE F!IsDone(t, s) <=> F!IsDone(r, s)
<1>1. t \in FeedRuns /\ Grows(r.events, t) /\ t.status \in {"ready", "done"}
  BY DEF LeavesPassed, Grows
<1>2. CASE s # r.current
  <2>1. \A i \in Since(r.events, t) :
          t.events[i].step # s \/ t.events[i].kind \in Remarks
    BY <1>2 DEF LeavesPassed
  <2>2. QED
    BY <1>1, <1>2, <2>1, DoneStays
<1>3. CASE s = r.current
  <2>1. PICK i \in Since(r.events, t) :
          /\ t.events[i].kind \in Passings /\ t.events[i].step = s
          /\ \A k \in Since(r.events, t) : k > i => t.events[k].kind \in Remarks
    BY <1>3 DEF LeavesPassed
  <2>2. Len(r.events) \in Nat /\ Len(t.events) \in Nat /\ DOMAIN t.events = 1 .. Len(t.events)
    BY <1>1 DEF FeedRuns
  <2>3. /\ i \in DOMAIN t.events
        /\ \A k \in DOMAIN t.events : k > i => k \in Since(r.events, t)
    BY <2>2 DEF Since
  <2>4. F!Deals(t, i, s) /\ t.events[i].kind \notin {"started", "gate_opened"}
    BY <2>1 DEF F!Deals, F!Finishing, Passings
  <2>5. \A k \in DOMAIN t.events : k > i => ~F!Deals(t, k, s)
    BY <2>1, <2>3 DEF F!Deals, Remarks
  <2>6. QED
    BY <1>1, <1>3, <2>3, <2>4, <2>5 DEF F!IsDone
<1>4. QED
  BY <1>2, <1>3

Asked(w) == IF w = None THEN "approval" ELSE w

\* What the owner knows, and by which key: with a stop, what became of it.
Known ==
  \/ told = <<>> /\ conditions = None
  \/ \E w \in Words : told = <<"host", w>> /\ conditions = <<"perm", w>>
  \/ \E s \in F!Names, a \in Nat :
       told = <<"attempt", s, a>> /\ conditions = <<"stuck", s, a>>
  \/ \E n \in Nat, s \in F!Names, g \in Nat, q \in Nat, w \in Words :
       /\ told = <<"owner", n, w>> /\ conditions = <<"perm", s, g, q, Asked(w)>>
       /\ Followed(run, stops, n, s, g, q, w)

FeedInv ==
  /\ run \in FeedRuns /\ Len(run.events) > 0 /\ stops \in Nat
  /\ Known
  /\ \A s \in F!Names : F!IsDone(run, s) <=> s \in passed
  /\ run.status \in {"running", "gate"} => run.current \notin passed

\* An alert that is due, and what it is due for.
LEMMA DueFor ==
  ASSUME FeedInv, F!Condition(run) # None
  PROVE  \/ \E w \in Words :
              F!Wanted(run) = <<"host", w>> /\ F!Condition(run) = <<"perm", w>>
              /\ F!HostFails(run)
         \/ \E s \in F!Names, a \in Nat :
              F!Wanted(run) = <<"attempt", s, a>> /\ F!Condition(run) = <<"stuck", s, a>>
         \/ /\ F!Wanted(run) = <<"owner", stops, run.reason>>
            /\ F!Condition(run) = <<"perm", run.current, Gen(run.events, run.current),
                                    run.requests[run.current], Asked(run.reason)>>
            /\ run.status \in {"gate", "blocked"} /\ ~F!HostFails(run)
<1>1. run \in FeedRuns /\ Len(run.events) > 0
  BY DEF FeedInv
<1>2. ~(run.cancelled \/ run.paused \/ run.status = "done")
  BY DEF F!Condition
<1>3. CASE F!HostFails(run)
  <2> DEFINE q == run.events
  <2>a. q \in Seq(Entries) /\ Len(q) \in Nat
    BY <1>1 DEF FeedRuns
  <2> HIDE DEF q
  <2>b. Len(q) > 0
    BY <1>1 DEF q
  <2>c. q[Len(q)] \in Entries
    BY <2>a, <2>b
  <2>1. F!Latest(run).reason \in Words
    BY <2>c DEF F!Latest, Entries, q
  <2>2. QED
    BY <1>2, <1>3, <2>1 DEF F!Condition, F!Wanted
<1>4. CASE ~F!HostFails(run) /\ run.status \in {"gate", "blocked"}
  <2>1. F!Generation(run) = Gen(run.events, run.current)
    BY <1>1, GenerationIs
  <2>2. QED
    BY <1>2, <1>4, <2>1 DEF F!Condition, F!Wanted, Asked
<1>5. CASE ~F!HostFails(run) /\ run.status \notin {"gate", "blocked"}
  <2>1. run.current \in F!Names /\ run.active \in Nat
    BY <1>1 DEF FeedRuns
  <2>2. QED
    BY <1>2, <1>5, <2>1 DEF F!Condition, F!Wanted
<1>6. QED
  BY <1>3, <1>4, <1>5

LEMMA FeedStarts ==
  ASSUME F!FeedAssumption, F!FeedInit
  PROVE  FeedInv
<1> DEFINE e == [kind |-> "intake", step |-> Begin, reason |-> None]
           zero == [s \in F!Names |-> 0]
<1>1. /\ run = [current |-> Begin, status |-> "ready", paused |-> FALSE,
                cancelled |-> FALSE, reason |-> None, asks |-> FALSE, active |-> 0,
                attempts |-> zero, requests |-> zero, events |-> <<e>>]
      /\ conditions = None /\ stops = 0 /\ told = <<>> /\ passed = {}
  BY DEF F!FeedInit
<1>2. Begin \in F!Names /\ None \in Words /\ e \in Entries
  BY KindNames DEF F!FeedAssumption, Words, Entries
<1>3. e.kind = "intake" /\ e \in Entries
  BY <1>2
<1>4. zero \in [F!Names -> Nat]
  OBVIOUS
<1> HIDE DEF e, zero
<1>5. <<e>> \in Seq(Entries) /\ Len(<<e>>) = 1 /\ DOMAIN <<e>> = {1} /\ <<e>>[1] = e
  BY <1>2
<1>6. run \in FeedRuns
  BY <1>1, <1>2, <1>4, <1>5 DEF FeedRuns
<1>7. Len(run.events) > 0 /\ DOMAIN run.events = {1} /\ run.events[1].kind = "intake"
      /\ run.status = "ready"
  BY <1>1, <1>3, <1>5
<1>8. \A s \in F!Names : ~F!IsDone(run, s)
  BY <1>7 DEF F!IsDone, F!Deals, F!Finishing
<1>9. QED
  BY <1>1, <1>6, <1>7, <1>8 DEF FeedInv, Known

\* A rewritten run: whose log is no shorter and whose stops are followed.
LEMMA Rewritten ==
  ASSUME FeedInv, NEW runs, F!Rewrites(runs),
         Worked(run, run') \/ LeavesPassed(run, run')
  PROVE  run' \in FeedRuns /\ Len(run'.events) > 0 /\ stops' \in Nat /\ Known'
<1>1. run \in FeedRuns /\ Len(run.events) > 0 /\ stops \in Nat /\ Known
  BY DEF FeedInv
<1>2. stops' = StopsNow(run, run', stops) /\ told' = told /\ conditions' = conditions
  BY DEF F!Rewrites, StopsNow
<1>3. stops' \in Nat
  BY <1>1, <1>2 DEF StopsNow
<1>4. run' \in FeedRuns /\ Grows(run.events, run')
  <2>1. CASE LeavesPassed(run, run') \/ Onward(run, run')
    BY <2>1 DEF LeavesPassed, Onward, Goes, Grows
  <2>2. CASE Begun(run, run')
    BY <1>1, <2>2, BegunOne
  <2>3. CASE Halts(run, run') \/ Stays(run, run')
    <3>1. run' \in FeedRuns /\ \E kind : OneMore(run, run'.events, kind)
      BY <2>3 DEF Halts, Stays
    <3>2. QED
      BY <3>1 DEF OneMore, Grows
  <2>4. QED
    BY <2>1, <2>2, <2>3 DEF Worked
<1>5. Len(run'.events) > 0
  <2>1. Len(run.events) \in Nat /\ Len(run'.events) \in Nat
    BY <1>1, <1>4 DEF FeedRuns
  <2>2. QED
    BY <1>1, <1>4, <2>1 DEF Grows
<1>6. ASSUME NEW n \in Nat, NEW s \in F!Names, NEW g \in Nat, NEW q \in Nat, NEW w,
             Followed(run, stops, n, s, g, q, w)
      PROVE  Followed(run', stops', n, s, g, q, w)
  BY <1>1, <1>2, <1>6, WorkedFollowed
<1>7. Known'
  <2>1. CASE \E n \in Nat, s \in F!Names, g \in Nat, q \in Nat, w \in Words :
               /\ told = <<"owner", n, w>> /\ conditions = <<"perm", s, g, q, Asked(w)>>
               /\ Followed(run, stops, n, s, g, q, w)
    <3>1. PICK n \in Nat, s \in F!Names, g \in Nat, q \in Nat, w \in Words :
               /\ told = <<"owner", n, w>> /\ conditions = <<"perm", s, g, q, Asked(w)>>
               /\ Followed(run, stops, n, s, g, q, w)
      BY <2>1
    <3>2. Followed(run', stops', n, s, g, q, w)
      BY <1>6, <3>1
    <3>3. QED
      BY <1>2, <3>1, <3>2 DEF Known, Words, Asked
  <2>2. CASE ~\E n \in Nat, s \in F!Names, g \in Nat, q \in Nat, w \in Words :
               /\ told = <<"owner", n, w>> /\ conditions = <<"perm", s, g, q, Asked(w)>>
               /\ Followed(run, stops, n, s, g, q, w)
    BY <1>1, <1>2, <2>2 DEF Known, Words
  <2>3. QED
    BY <2>1, <2>2
<1>8. QED
  BY <1>3, <1>4, <1>5, <1>7

LEMMA FeedStep ==
  ASSUME F!FeedAssumption, FeedInv, [F!FeedNext]_(F!fvars)
  PROVE  FeedInv'
<1>1. run \in FeedRuns /\ Len(run.events) > 0 /\ stops \in Nat /\ Known
      /\ (\A s \in F!Names : F!IsDone(run, s) <=> s \in passed)
      /\ (run.status \in {"running", "gate"} => run.current \notin passed)
  BY DEF FeedInv
<1>2. CASE F!StepPasses
  <2>1. LeavesPassed(run, run')
    BY <1>1, <1>2, PassesAre DEF F!StepPasses, F!Rewrites
  <2>2. run' \in FeedRuns /\ Len(run'.events) > 0 /\ stops' \in Nat /\ Known'
    BY <1>2, <2>1, Rewritten DEF F!StepPasses
  <2>3. passed' = passed \cup {run.current}
    BY <1>2 DEF F!StepPasses, F!Here
  <2>4. \A s \in F!Names : F!IsDone(run', s) <=> s \in passed'
    BY <1>1, <2>1, <2>3, DonePasses
  <2>5. run'.status \notin {"running", "gate"}
    BY <1>1, <2>1, DonePasses
  <2>6. (\A s \in F!Names : F!IsDone(run, s) <=> s \in passed)'
    BY <2>4 DEF F!IsDone, F!Deals
  <2>7. QED
    BY <2>2, <2>5, <2>6 DEF FeedInv
<1>3. CASE F!StepWorks
  <2>1. Worked(run, run')
    BY <1>1, <1>3, HostsDo, NotesDo, ControlsDo DEF F!StepWorks, F!Rewrites, Worked
  <2>2. run' \in FeedRuns /\ Len(run'.events) > 0 /\ stops' \in Nat /\ Known'
    BY <1>3, <2>1, Rewritten DEF F!StepWorks
  <2>3. passed' = IF run'.status \in {"running", "gate"} THEN passed \ {run'.current}
                  ELSE passed
    BY <1>3 DEF F!StepWorks
  <2>4. /\ \A s \in F!Names : F!IsDone(run', s) <=> s \in passed'
        /\ run'.status \in {"running", "gate"} => run'.current \notin passed'
    <3>1. CASE Begun(run, run')
      BY <1>1, <2>3, <3>1, DoneBegins
    <3>2. CASE Onward(run, run') \/ Halts(run, run') \/ Stays(run, run')
      <4>1. \A s : F!IsDone(run', s) <=> F!IsDone(run, s)
        BY <1>1, <3>2, DoneWorks
      <4>2. run'.status \in {"running", "gate"} =>
              run'.status = run.status /\ run'.current = run.current
        BY <1>1, <3>2, DoneWorks
      <4>3. passed' = passed
        BY <1>1, <2>3, <4>2
      <4>4. QED
        BY <1>1, <4>1, <4>2, <4>3
    <3>3. QED
      BY <2>1, <3>1, <3>2 DEF Worked
  <2>5. (\A s \in F!Names : F!IsDone(run, s) <=> s \in passed)'
    BY <2>4 DEF F!IsDone, F!Deals
  <2>6. QED
    BY <2>2, <2>4, <2>5 DEF FeedInv
<1>4. CASE F!AttemptAges \/ F!Mutes \/ UNCHANGED F!fvars
  <2>1. UNCHANGED <<run, conditions, stops, told, passed>>
    BY <1>4 DEF F!AttemptAges, F!Mutes, F!fvars
  <2>2. QED
    BY <2>1 DEF FeedInv, Known
<1>5. CASE F!Polls
  <2>1. UNCHANGED <<run, stops, passed>>
    BY <1>5 DEF F!Polls
  <2> DEFINE key == F!Condition(run)
  <2>2. \/ conditions' = conditions /\ told' = told
        \/ conditions' = None /\ told' = <<>>
        \/ key # None /\ conditions' = key /\ told' = F!Wanted(run)
    BY <1>5 DEF F!Polls
  <2>3. Known'
    <3>1. CASE conditions' = conditions /\ told' = told
      BY <1>1, <2>1, <3>1 DEF Known
    <3>2. CASE conditions' = None /\ told' = <<>>
      BY <3>2 DEF Known
    <3>3. CASE key # None /\ conditions' = key /\ told' = F!Wanted(run)
      <4>1. CASE \E w \in Words : F!Wanted(run) = <<"host", w>> /\ key = <<"perm", w>>
        BY <3>3, <4>1 DEF Known, Words
      <4>2. CASE \E s \in F!Names, a \in Nat :
                   F!Wanted(run) = <<"attempt", s, a>> /\ key = <<"stuck", s, a>>
        BY <3>3, <4>2 DEF Known
      <4>3. CASE /\ F!Wanted(run) = <<"owner", stops, run.reason>>
                 /\ key = <<"perm", run.current, Gen(run.events, run.current),
                            run.requests[run.current], Asked(run.reason)>>
        <5> DEFINE s == run.current
                   g == Gen(run.events, s)
                   q == run.requests[s]
                   w == run.reason
        <5>1. s \in F!Names /\ q \in Nat /\ w \in Words
          BY <1>1 DEF FeedRuns
        <5>2. g \in Nat
          <6>1. Len(run.events) \in Nat
            BY <1>1 DEF FeedRuns
          <6>2. Grows(run.events, run)
            BY <1>1, <6>1 DEF Grows
          <6>3. QED
            BY <1>1, <6>2, GenGrows
        <5>3. Followed(run, stops, stops, s, g, q, w)
          BY <1>1, <5>1, <5>2 DEF Followed
        <5>4. /\ told' = <<"owner", stops, w>> /\ conditions' = <<"perm", s, g, q, Asked(w)>>
          BY <3>3, <4>3
        <5>5. run' = run /\ stops' = stops
          BY <2>1
        <5> HIDE DEF s, g, q, w
        <5>6. Followed(run', stops', stops, s, g, q, w)
          BY <5>3, <5>5
        <5>7. QED
          BY <1>1, <5>1, <5>2, <5>4, <5>6 DEF Known, Words, Asked
      <4>4. QED
        BY <3>3, <4>1, <4>2, <4>3, DueFor
    <3>4. QED
      BY <2>2, <3>1, <3>2, <3>3
  <2>4. QED
    BY <1>1, <2>1, <2>3 DEF FeedInv
<1>6. QED
  BY <1>2, <1>3, <1>4, <1>5 DEF F!FeedNext

\* What is to be told is what was told just if the key is that of what was told, but
\* where an earlier stop was told in the same words.
LEMMA Matches ==
  ASSUME F!FeedAssumption, FeedInv, F!Condition(run) # None
  PROVE  /\ F!Wanted(run) = told => F!Condition(run) = conditions
         /\ F!Wanted(run) # told /\ F!Condition(run) = conditions => F!ToldAlike(run)
<1> DEFINE key == F!Condition(run)
           word == F!Wanted(run)
<1>1. run \in FeedRuns /\ stops \in Nat /\ Known
  BY DEF FeedInv
<1>2. \A v, w, s, g, q, x, n, a, b, c :
        /\ <<>> # <<"host", w>> /\ <<>> # <<"attempt", s, a>> /\ <<>> # <<"owner", n, w>>
        /\ <<"host", v>> # <<"attempt", s, a>> /\ <<"host", v>> # <<"owner", n, w>>
        /\ <<"attempt", s, a>> # <<"owner", n, w>>
        /\ <<"perm", v>> # <<"stuck", s, a>> /\ <<"perm", v>> # <<"perm", s, g, q, x>>
        /\ <<"stuck", b, c>> # <<"perm", s, g, q, x>>
  OBVIOUS
<1>3. CASE \E w \in Words :
             word = <<"host", w>> /\ key = <<"perm", w>> /\ F!HostFails(run)
  <2>1. PICK v \in Words : word = <<"host", v>> /\ key = <<"perm", v>>
    BY <1>3
  <2>2. CASE told = <<>> /\ conditions = None
    BY <1>2, <2>1, <2>2
  <2>3. CASE \E w \in Words : told = <<"host", w>> /\ conditions = <<"perm", w>>
    <3>1. PICK w \in Words : told = <<"host", w>> /\ conditions = <<"perm", w>>
      BY <2>3
    <3>2. word = told <=> v = w
      BY <2>1, <3>1
    <3>3. key = conditions <=> v = w
      BY <2>1, <3>1
    <3>4. QED
      BY <3>2, <3>3
  <2>4. CASE \E s \in F!Names, a \in Nat :
               told = <<"attempt", s, a>> /\ conditions = <<"stuck", s, a>>
    BY <1>2, <2>1, <2>4
  <2>5. CASE \E n \in Nat, s \in F!Names, g \in Nat, q \in Nat, w \in Words :
               /\ told = <<"owner", n, w>> /\ conditions = <<"perm", s, g, q, Asked(w)>>
    BY <1>2, <2>1, <2>5
  <2>6. QED
    BY <1>1, <2>2, <2>3, <2>4, <2>5 DEF Known
<1>4. CASE \E s \in F!Names, a \in Nat :
             word = <<"attempt", s, a>> /\ key = <<"stuck", s, a>>
  BY <1>1, <1>2, <1>4 DEF Known
<1>5. CASE /\ word = <<"owner", stops, run.reason>>
           /\ key = <<"perm", run.current, Gen(run.events, run.current),
                      run.requests[run.current], Asked(run.reason)>>
           /\ run.status \in {"gate", "blocked"} /\ ~F!HostFails(run)
  <2>1. CASE told = <<>> /\ conditions = None
    BY <1>2, <1>5, <2>1
  <2>2. CASE \E w \in Words : told = <<"host", w>> /\ conditions = <<"perm", w>>
    BY <1>2, <1>5, <2>2
  <2>3. CASE \E s \in F!Names, a \in Nat :
               told = <<"attempt", s, a>> /\ conditions = <<"stuck", s, a>>
    BY <1>2, <1>5, <2>3
  <2>4. CASE \E n \in Nat, s \in F!Names, g \in Nat, q \in Nat, w \in Words :
               /\ told = <<"owner", n, w>> /\ conditions = <<"perm", s, g, q, Asked(w)>>
               /\ Followed(run, stops, n, s, g, q, w)
    <3>1. PICK n \in Nat, s \in F!Names, g \in Nat, q \in Nat, w \in Words :
               /\ told = <<"owner", n, w>> /\ conditions = <<"perm", s, g, q, Asked(w)>>
               /\ Followed(run, stops, n, s, g, q, w)
      BY <2>4
    <3>2. word = told => n = stops /\ w = run.reason
      BY <1>5, <3>1
    <3>3. n = stops => s = run.current /\ q = run.requests[s] /\ g = Gen(run.events, s)
                       /\ (run.reason = w \/ run.reason \in Unplanned)
      BY <1>5, <3>1 DEF Followed
    <3>4. word = told => key = conditions
      BY <1>5, <3>1, <3>2, <3>3
    <3>5. ASSUME word # told, key = conditions
          PROVE  F!ToldAlike(run)
      <4>1. /\ s = run.current /\ g = Gen(run.events, run.current)
            /\ q = run.requests[run.current] /\ Asked(w) = Asked(run.reason)
        BY <1>5, <3>1, <3>5
      <4>2. run.reason \in Unplanned => w = run.reason
        BY <4>1 DEF Asked, Unplanned, F!FeedAssumption
      <4>3. n # stops
        BY <1>5, <3>1, <3>3, <3>5, <4>2
      <4>4. n < stops
        BY <1>1, <3>1, <4>3 DEF Followed
      <4>5. \/ run.current # s \/ q < run.requests[s] \/ g < Gen(run.events, s)
            \/ Unsaid(run)
        BY <1>5, <3>1, <4>4 DEF Followed
      <4>6. Unsaid(run)
        BY <4>1, <4>5
      <4>7. told # <<>> /\ told[1] = "owner" /\ told[3] = w
        BY <1>2, <3>1
      <4>8. DOMAIN run.events = 1 .. Len(run.events)
        BY <1>1 DEF FeedRuns
      <4>9. w = run.reason
        BY <4>2, <4>6 DEF Unsaid
      <4>10. QED
        BY <1>5, <4>6, <4>7, <4>8, <4>9 DEF F!ToldAlike, Unsaid
    <3>6. QED
      BY <3>4, <3>5
  <2>5. QED
    BY <1>1, <2>1, <2>2, <2>3, <2>4 DEF Known
<1>6. QED
  BY <1>3, <1>4, <1>5, DueFor

LEMMA FeedHolds ==
  ASSUME F!FeedAssumption
  PROVE  F!FeedSpec => []FeedInv
  BY FeedStarts, FeedStep, PTL DEF F!FeedSpec

LEMMA PollTells ==
  ASSUME F!FeedAssumption, FeedInv, F!Polls
  PROVE  /\ F!Raises => F!Due
         /\ F!Due => F!Raises \/ F!ToldAlike(run)
<1> DEFINE key == F!Condition(run)
           word == F!Wanted(run)
<1>1. run \in FeedRuns /\ stops \in Nat /\ Known
  BY DEF FeedInv
<1>2. F!Raises => key # None /\ ~F!Keeps(key) /\ key # conditions
  BY DEF F!Polls, F!Raises
<1>3. key # None /\ ~F!Keeps(key) /\ key # conditions => F!Raises
  BY DEF F!Polls, F!Raises
<1>4. F!Due <=> key # None /\ ~F!Keeps(key) /\ word # told
  BY DEF F!Due
<1>5. ASSUME key # None, word = told
      PROVE  key = conditions
  BY <1>1, <1>5, Matches
<1>6. ASSUME key # None, word # told, key = conditions
      PROVE  F!ToldAlike(run)
  BY <1>1, <1>6, Matches
<1>7. QED
  BY <1>2, <1>3, <1>4, <1>5, <1>6

(* A poll raises an alert for everything the owner should know and was not *)
(* told, and for nothing else, however long the run and its log; but for a *)
(* stop that left no block, after one told in the same words               *)
(* (FlowAlerts::poll).                                                     *)
THEOREM OwnerIsTold ==
  ASSUME F!FeedAssumption
  PROVE  F!FeedSpec => F!EverythingTold
<1>1. FeedInv /\ [F!FeedNext]_(F!fvars) =>
        [F!Polls => /\ F!Raises => F!Due
                    /\ F!Due => F!Raises \/ F!ToldAlike(run)]_(F!fvars)
  BY PollTells
<1>2. QED
  BY <1>1, FeedHolds, PTL DEF F!FeedSpec, F!EverythingTold

(* A step that the run has left is shown done just if it was passed since  *)
(* it was last begun (pipeline_rows).                                      *)
THEOREM DoneStepsWerePassed ==
  ASSUME F!FeedAssumption
  PROVE  F!FeedSpec => []F!DoneWasPassed
<1>1. FeedInv => F!DoneWasPassed
  BY DEF FeedInv, F!DoneWasPassed, F!RowState
<1>2. QED
  BY <1>1, FeedHolds, PTL
-----------------------------------------------------------------------------
(* Rows and stores (Routes).  A row is what it was made of, at whichever   *)
(* time, and what is asked for follows from the row.                       *)

CONSTANTS Stores, Short, Default, Slugs, Given, MaxStores, Hosts, Wires, MaxTurns
VARIABLES
  target, alias, held, broken, reports, inventory, scanning, routes, rows, owners,
  shown, query, got, turns

O == INSTANCE Routes WITH
       Names <- Slugs, Explicit <- Given, Remotes <- Hosts, link <- target, asked <- query

\* A row is of a session of the source that follows a link, of a profile's
\* store, or of what a remote reported.
OfLocal(row) ==
  /\ row.route = <<None, row.of[1], row.route[3], row.of[3]>>
  /\ row.of = <<row.of[1], row.of[2], row.of[3]>>
  /\ row.of[1] \in {"C", "H"} /\ (row.of[1] = "H" => row.of[2] = row.route[3])
OfRemote(row) ==
  /\ row.of = <<row.of[1], row.of[2], row.of[3]>>
  /\ row.of[1] \in Hosts /\ row.of[3] \in Wires /\ O!Decodes(row.of[3])
  /\ row.route = <<row.of[1], row.of[3].source, row.of[3].store, row.of[3].vendor>>
IsRow(row) ==
  /\ OfLocal(row) \/ OfRemote(row)
  /\ row.key = <<row.route[1], row.route[2], Short[row.route[4]]>>

\* What the last scan has found of it still stands.
Stands(row, to, inv) ==
  row.route[1] = None =>
    IF row.route[2] = "C" THEN row.route[3] = to ELSE row.route[3] \in O!Profiled(inv)

RoutesInv ==
  /\ turns \in Nat
  /\ DOMAIN reports = Hosts /\ \A r \in Hosts : reports[r].wires \subseteq Wires
  /\ \A row \in rows \cup shown : IsRow(row)
  /\ query # None => /\ IsRow(query.row)
                     /\ query.row.route[1] = None /\ query.row.route[2] = "C" =>
                          query.row.route[3] = query.link
  /\ O!OpensWhatIsShown
  /\ turns = 0 =>
       \A row \in rows : /\ O!Valid(row.route) /\ routes[row.route] = row.key

LEMMA LocalAre ==
  ASSUME NEW read, NEW inv, NEW row \in O!LocalRows(read, inv)
  PROVE  IsRow(row) /\ OfLocal(row) /\ Stands(row, target, inv)
<1>1. CASE \E i \in read.ids :
             row = O!Row(O!Route(None, "C", target, i), O!Alias(None, "C", i), <<"C", read.store, i>>)
  BY <1>1 DEF O!Row, O!Route, O!Alias, IsRow, OfLocal, Stands
<1>2. CASE \E s \in O!Profiled(inv) : \E i \in held[s] :
             row = O!Row(O!Route(None, "H", s, i), O!Alias(None, "H", i), <<"H", s, i>>)
  BY <1>2 DEF O!Row, O!Route, O!Alias, IsRow, OfLocal, Stands
<1>3. QED
  BY <1>1, <1>2 DEF O!LocalRows

LEMMA RemoteAre ==
  ASSUME O!RoutesAssumption, \A r \in Hosts : reports[r].wires \subseteq Wires,
         NEW row \in O!RemoteRows
  PROVE  IsRow(row) /\ OfRemote(row) /\ row.route[1] # None
<1>1. PICK r \in Hosts : \E w \in {v \in reports[r].wires : O!Decodes(v)} :
        row = O!Row(O!Route(r, w.source, w.store, w.vendor), O!Alias(r, w.source, w.vendor),
                    <<r, reports[r].of, w>>)
  BY DEF O!RemoteRows
<1>2. PICK w \in Wires : /\ O!Decodes(w)
                         /\ row = O!Row(O!Route(r, w.source, w.store, w.vendor),
                                        O!Alias(r, w.source, w.vendor), <<r, reports[r].of, w>>)
  BY <1>1
<1>3. r # None
  BY <1>1 DEF O!RoutesAssumption
<1>4. QED
  BY <1>2, <1>3 DEF O!Row, O!Route, O!Alias, IsRow, OfRemote

\* One row a route: its key follows from it.
LEMMA KeyOfRoute ==
  ASSUME NEW v, NEW w, IsRow(v), IsRow(w), v.route = w.route
  PROVE  v.key = w.key
  BY DEF IsRow

LEMMA Admitting ==
  ASSUME O!RoutesAssumption, RoutesInv, O!ScanAdmits
  PROVE  RoutesInv'
<1>1. /\ turns' = 0 /\ UNCHANGED <<target, alias, held, broken, reports, query, got>>
      /\ rows' = O!LocalRows(scanning, inventory') \cup O!RemoteRows
      /\ routes' = [r \in {w.route : w \in rows'} |-> (CHOOSE w \in rows' : w.route = r).key]
      /\ shown' = rows \cup rows'
  BY DEF O!ScanAdmits, O!outside
<1>2. \A row \in rows' : IsRow(row) /\ Stands(row, target, inventory')
  <2> SUFFICES ASSUME NEW row \in rows'
               PROVE  IsRow(row) /\ Stands(row, target, inventory')
    OBVIOUS
  <2>1. CASE row \in O!LocalRows(scanning, inventory')
    BY <2>1, LocalAre
  <2>2. CASE row \in O!RemoteRows
    BY <2>2, RemoteAre DEF RoutesInv, Stands
  <2>3. QED
    BY <1>1, <2>1, <2>2
<1>3. ASSUME NEW row \in rows'
      PROVE  O!Valid(row.route)' /\ routes'[row.route] = row.key
  <2>1. row.route \in DOMAIN routes'
    BY <1>1
  <2> DEFINE same == CHOOSE w \in rows' : w.route = row.route
  <2>2. same \in rows' /\ same.route = row.route
    OBVIOUS
  <2>3. routes'[row.route] = same.key
    BY <1>1
  <2>4. same.key = row.key
    BY <1>2, <2>2, KeyOfRoute
  <2>5. /\ row.route[1] = None =>
             IF row.route[2] = "C" THEN row.route[3] = target'
             ELSE row.route[3] \in O!Profiled(inventory')
    BY <1>1, <1>2 DEF Stands
  <2>6. O!Profiled(inventory') \subseteq DOMAIN inventory'
    BY DEF O!Profiled
  <2>7. O!Valid(row.route)'
    BY <2>1, <2>5, <2>6 DEF O!Valid
  <2>8. QED
    BY <2>3, <2>4, <2>7
<1>4. \A row \in rows' \cup shown' : IsRow(row)
  BY <1>1, <1>2 DEF RoutesInv
<1>5. query' # None => /\ IsRow(query'.row)
                       /\ query'.row.route[1] = None /\ query'.row.route[2] = "C" =>
                            query'.row.route[3] = query'.link
  BY <1>1 DEF RoutesInv
<1>6. O!OpensWhatIsShown'
  BY <1>1 DEF RoutesInv, O!OpensWhatIsShown
<1>7. /\ turns' \in Nat /\ DOMAIN reports' = Hosts
      /\ \A r \in Hosts : reports'[r].wires \subseteq Wires
  BY <1>1 DEF RoutesInv
<1>8. QED
  BY <1>3, <1>4, <1>5, <1>6, <1>7 DEF RoutesInv, IsRow, OfLocal, OfRemote

\* A row that is asked for while it stands.
LEMMA Asking ==
  ASSUME RoutesInv, O!Asks \/ O!AsksByKey
  PROVE  RoutesInv'
<1>1. /\ got' = None
      /\ UNCHANGED <<target, alias, held, broken, reports, inventory, scanning, routes, rows,
                     owners, shown, turns>>
      /\ \E row \in rows \cup shown :
           O!Valid(row.route) /\ query' = [row |-> row, link |-> target]
  BY DEF O!Asks, O!AsksByKey, O!outside, O!Resolved
<1>2. PICK row \in rows \cup shown :
        O!Valid(row.route) /\ query' = [row |-> row, link |-> target]
  BY <1>1
<1>3. IsRow(row) /\ (row.route[1] = None /\ row.route[2] = "C" => row.route[3] = target)
  BY <1>2 DEF RoutesInv, O!Valid
<1>4. query'.row = row /\ query'.link = target
  BY <1>2
<1>5. query' # None => /\ IsRow(query'.row)
                       /\ query'.row.route[1] = None /\ query'.row.route[2] = "C" =>
                            query'.row.route[3] = query'.link
  BY <1>3, <1>4
<1>6. O!OpensWhatIsShown'
  BY <1>1 DEF O!OpensWhatIsShown
<1>7. turns' = 0 =>
        \A v \in rows' : O!Valid(v.route)' /\ routes'[v.route] = v.key
  BY <1>1 DEF RoutesInv, O!Valid, O!Profiled
<1>8. QED
  BY <1>1, <1>5, <1>6, <1>7 DEF RoutesInv, IsRow, OfLocal, OfRemote

\* What a remote called a session is known by three of its fields.
LEMMA WireIs ==
  ASSUME O!RoutesAssumption, NEW v \in Wires, NEW w \in Wires, O!Decodes(v), O!Decodes(w),
         v.source = w.source, v.store = w.store, v.vendor = w.vendor
  PROVE  v = w
<1> DEFINE W == [source : {"C", "H", None}, store : Stores \cup {0}, nested : BOOLEAN,
                 vendor : Ids]
<1>1. v \in W /\ w \in W
  BY DEF O!RoutesAssumption
<1>2. v.nested = FALSE /\ w.nested = FALSE
  BY <1>1 DEF O!Decodes
<1>3. QED
  BY <1>1, <1>2

\* What is opened is what the row says, but for what has changed since.
LEMMA Opening ==
  ASSUME O!RoutesAssumption, RoutesInv, O!Opens
  PROVE  RoutesInv'
<1> DEFINE row == query.row
           route == query.row.route
           name == CHOOSE w \in Wires : O!Decodes(w) /\ <<w.source, w.store, w.vendor>>
                                          = <<route[2], route[3], route[4]>>
           is == IF route[1] # None THEN <<route[1], reports[route[1]].of, name>>
                 ELSE <<route[2], IF route[2] = "C" THEN target ELSE route[3], route[4]>>
<1>1. /\ query # None /\ query' = None
      /\ got' = [row |-> row, link |-> query.link, is |-> is]
      /\ UNCHANGED <<target, alias, held, broken, reports, inventory, scanning, routes, rows,
                     owners, shown, turns>>
  BY DEF O!Opens, O!outside
<1>2. /\ IsRow(row)
      /\ route[1] = None /\ route[2] = "C" => route[3] = query.link
  BY <1>1 DEF RoutesInv
<1>3. got'.row = row /\ got'.link = query.link /\ got'.is = is
  BY <1>1
<1>4. ASSUME OfLocal(row)
      PROVE  got'.is = row.of \/ (row.of[1] = "C" /\ (row.of[2] # route[3] \/ is[2] # query.link))
  <2>1. route[1] = None /\ route[2] = row.of[1] /\ route[4] = row.of[3]
    BY <1>4 DEF OfLocal
  <2>2. is = <<route[2], IF route[2] = "C" THEN target ELSE route[3], route[4]>>
    BY <2>1
  <2> HIDE DEF is
  <2>3. row.of = <<row.of[1], row.of[2], row.of[3]>>
    BY <1>4 DEF OfLocal
  <2>4. CASE row.of[1] = "H"
    BY <1>3, <1>4, <2>1, <2>2, <2>3, <2>4 DEF OfLocal
  <2>5. CASE row.of[1] = "C"
    <3>1. route[3] = query.link /\ is[2] = target /\ is = <<"C", target, row.of[3]>>
      BY <1>2, <2>1, <2>2, <2>5
    <3>2. row.of[2] = route[3] /\ target = query.link => is = row.of
      BY <2>3, <2>5, <3>1
    <3>3. QED
      BY <1>3, <2>5, <3>1, <3>2
  <2>6. QED
    BY <1>4, <2>4, <2>5 DEF OfLocal
<1>5. ASSUME OfRemote(row)
      PROVE  \/ is = row.of
             \/ row.of[1] \in Hosts /\ is[3] = row.of[3] /\ is[2] # row.of[2]
  <2>1. /\ row.of[1] \in Hosts /\ row.of[3] \in Wires /\ O!Decodes(row.of[3])
        /\ row.of = <<row.of[1], row.of[2], row.of[3]>> /\ route[1] = row.of[1]
        /\ route[2] = row.of[3].source /\ route[3] = row.of[3].store
        /\ route[4] = row.of[3].vendor
    BY <1>5 DEF OfRemote
  <2>2. route[1] # None
    BY <2>1 DEF O!RoutesAssumption
  <2>3. name \in Wires /\ O!Decodes(name) /\ name.source = row.of[3].source
        /\ name.store = row.of[3].store /\ name.vendor = row.of[3].vendor
    BY <2>1
  <2> HIDE DEF name
  <2>5. name = row.of[3]
    BY <2>1, <2>3, WireIs
  <2>6. is = <<row.of[1], reports[row.of[1]].of, row.of[3]>>
    BY <2>1, <2>2, <2>5
  <2> HIDE DEF is
  <2>7. reports[row.of[1]].of = row.of[2] => is = row.of
    BY <2>1, <2>6
  <2>8. is[2] = reports[row.of[1]].of /\ is[3] = row.of[3]
    BY <2>6
  <2>9. QED
    BY <2>1, <2>7, <2>8
<1> HIDE DEF is, name
<1>6. O!OpensWhatIsShown'
  BY <1>2, <1>3, <1>4, <1>5 DEF IsRow, O!OpensWhatIsShown
<1>7. turns' = 0 =>
        \A v \in rows' : O!Valid(v.route)' /\ routes'[v.route] = v.key
  BY <1>1 DEF RoutesInv, O!Valid, O!Profiled
<1>8. QED
  BY <1>1, <1>6, <1>7 DEF RoutesInv, IsRow, OfLocal, OfRemote

\* What goes on outside touches no route, no row and nothing opened.
LEMMA Outside ==
  ASSUME O!RoutesAssumption, RoutesInv, O!Retargets \/ O!Sessions \/ O!Reports
  PROVE  RoutesInv'
<1>1. /\ turns \in Nat /\ turns' = turns + 1
      /\ UNCHANGED <<inventory, scanning, routes, rows, owners, shown, query, got>>
  BY DEF O!Retargets, O!Sessions, O!Reports, O!Changes, RoutesInv
<1>2. DOMAIN reports' = Hosts /\ \A r \in Hosts : reports'[r].wires \subseteq Wires
  <2>1. CASE O!Retargets \/ O!Sessions
    BY <2>1 DEF O!Retargets, O!Sessions, RoutesInv
  <2>2. CASE O!Reports
    <3>1. PICK r \in Hosts, wires \in SUBSET Wires :
            \/ reports' = [reports EXCEPT ![r].wires = wires]
            \/ reports' = [reports EXCEPT ![r] = [of |-> @.of + 1, wires |-> wires]]
      BY <2>2 DEF O!Reports
    <3>2. DOMAIN reports = Hosts /\ \A h \in Hosts : reports[h].wires \subseteq Wires
      BY DEF RoutesInv
    <3>3. CASE reports' = [reports EXCEPT ![r].wires = wires]
      BY <3>2, <3>3
    <3>4. CASE reports' = [reports EXCEPT ![r] = [of |-> @.of + 1, wires |-> wires]]
      BY <3>2, <3>4
    <3>5. QED
      BY <3>1, <3>3, <3>4
  <2>3. QED
    BY <2>1, <2>2
<1>3. turns' # 0 /\ turns' \in Nat
  BY <1>1
<1>4. query' # None => /\ IsRow(query'.row)
                       /\ query'.row.route[1] = None /\ query'.row.route[2] = "C" =>
                            query'.row.route[3] = query'.link
  BY <1>1 DEF RoutesInv
<1>5. O!OpensWhatIsShown'
  BY <1>1 DEF RoutesInv, O!OpensWhatIsShown
<1>6. QED
  BY <1>1, <1>2, <1>3, <1>4, <1>5 DEF RoutesInv, IsRow, OfLocal, OfRemote

LEMMA Reading ==
  ASSUME RoutesInv, O!ScanReads
  PROVE  RoutesInv'
<1>1. /\ query' = None /\ got' = None
      /\ UNCHANGED <<target, alias, held, broken, reports, inventory, routes, rows, owners,
                     shown, turns>>
  BY DEF O!ScanReads, O!outside
<1>2. turns' = 0 => \A v \in rows' : O!Valid(v.route)' /\ routes'[v.route] = v.key
  BY <1>1 DEF RoutesInv, O!Valid, O!Profiled
<1>3. O!OpensWhatIsShown'
  BY <1>1 DEF O!OpensWhatIsShown
<1>4. QED
  BY <1>1, <1>2, <1>3 DEF RoutesInv, IsRow, OfLocal, OfRemote

THEOREM RoutesInductive == ASSUME O!RoutesAssumption PROVE O!RoutesSpec => []RoutesInv
<1>1. O!SInit => RoutesInv
  <2> SUFFICES ASSUME O!SInit PROVE RoutesInv
    OBVIOUS
  <2>1. /\ turns = 0 /\ rows = {} /\ shown = {} /\ query = None /\ got = None
        /\ reports = [r \in Hosts |-> [of |-> 1, wires |-> {}]]
    BY DEF O!SInit
  <2>2. O!OpensWhatIsShown
    BY <2>1 DEF O!OpensWhatIsShown
  <2>3. QED
    BY <2>1, <2>2 DEF RoutesInv
<1>2. RoutesInv /\ [O!SNext]_O!svars => RoutesInv'
  <2> SUFFICES ASSUME RoutesInv, [O!SNext]_O!svars PROVE RoutesInv'
    OBVIOUS
  <2>1. CASE UNCHANGED O!svars
    <3>1. UNCHANGED <<target, alias, held, broken, reports, inventory, scanning, routes, rows,
                      owners, shown, query, got, turns>>
      BY <2>1 DEF O!svars
    <3>2. turns' = 0 => \A v \in rows' : O!Valid(v.route)' /\ routes'[v.route] = v.key
      BY <3>1 DEF RoutesInv, O!Valid, O!Profiled
    <3>3. O!OpensWhatIsShown'
      BY <3>1 DEF RoutesInv, O!OpensWhatIsShown
    <3>4. QED
      BY <3>1, <3>2, <3>3 DEF RoutesInv, IsRow, OfLocal, OfRemote
  <2>2. QED
    BY <2>1, Admitting, Asking, Opening, Outside, Reading DEF O!SNext
<1>3. QED
  BY <1>1, <1>2, PTL DEF O!RoutesSpec

\* What is opened for a row is the session the row was made of, but for a link
\* that was turned and a remote that took the name (Sources::open_tailer).
THEOREM RowsOpenTheirSessions ==
  ASSUME O!RoutesAssumption PROVE O!RoutesSpec => []O!OpensWhatIsShown
<1>1. RoutesInv => O!OpensWhatIsShown
  BY DEF RoutesInv
<1>2. QED
  BY <1>1, RoutesInductive, PTL

\* While nothing changes outside, every row of the last scan can be opened.
THEOREM FreshRowsCanBeOpened ==
  ASSUME O!RoutesAssumption PROVE O!RoutesSpec => []O!FreshRowsOpen
<1>1. RoutesInv => O!FreshRowsOpen
  BY DEF RoutesInv, O!FreshRowsOpen
<1>2. QED
  BY <1>1, RoutesInductive, PTL
-----------------------------------------------------------------------------
(* The registry keeps a store's owner.  The order of slugs has a first one  *)
(* in every set of them (Smallest).                                         *)

Owners == O!Aliases \cup {None}
Profile == [owner : Owners, active : BOOLEAN, available : BOOLEAN]
RegistryInv ==
  /\ alias \in [O!Aliases -> Stores \cup {None}]
  /\ DOMAIN inventory \subseteq Stores
  /\ \A s \in DOMAIN inventory : inventory[s] \in Profile

LEMMA SlugsInOrder ==
  ASSUME O!RoutesAssumption
  PROVE  /\ DOMAIN O!Order \subseteq Nat
         /\ Default \in O!Aliases
         /\ \A i \in DOMAIN O!Order : O!Order[i] \in O!Aliases
<1>1. Slugs \in Seq(O!Aliases)
  BY DEF O!RoutesAssumption
<1>2. Len(O!Order) = 1 + Len(Slugs) /\ Len(Slugs) \in Nat /\ DOMAIN O!Order = 1 .. 1 + Len(Slugs)
      /\ O!Order[1] = Default
  <2> HIDE DEF O!Aliases
  <2>1. QED
    BY <1>1 DEF O!Order
<1>3. QED
  BY <1>2 DEF O!Aliases

\* A store's place is that of one of its slugs.
LEMMA PlaceIsOfASlug ==
  ASSUME O!RoutesAssumption, NEW s, O!Slugs(s) # {}
  PROVE  O!Order[O!Place(s)] \in O!Slugs(s)
<1> DEFINE T == {i \in DOMAIN O!Order : O!Order[i] \in O!Slugs(s)}
<1>1. T \subseteq Nat
  BY SlugsInOrder
<1>2. T # {}
  BY DEF O!Slugs, O!Aliases
<1>3. PICK m \in T : \A n \in T : m <= n
  BY <1>1, <1>2, Smallest
<1>4. /\ m \in DOMAIN O!Order /\ O!Order[m] \in O!Slugs(s)
      /\ \A j \in DOMAIN O!Order : O!Order[j] \in O!Slugs(s) => m <= j
  BY <1>3
<1>5. QED
  BY <1>4 DEF O!Place

\* The winner is one of the store's own slugs, the default or the owner it had
\* wherever that is one of them.
LEMMA OwnerWins ==
  ASSUME O!RoutesAssumption, NEW s
  PROVE  /\ O!Winner(s) \in Owners
         /\ s \in DOMAIN inventory /\ inventory[s].owner \in O!Slugs(s) =>
              O!Winner(s) \in {Default, inventory[s].owner}
<1>1. O!Slugs(s) \subseteq O!Aliases
  BY DEF O!Slugs
<1>2. O!Winner(s) \in Owners
  BY <1>1, PlaceIsOfASlug DEF O!Winner, Owners
<1>3. ASSUME s \in DOMAIN inventory, inventory[s].owner \in O!Slugs(s)
      PROVE  O!Winner(s) \in {Default, inventory[s].owner}
  BY <1>3 DEF O!Winner
<1>4. QED
  BY <1>2, <1>3

LEMMA RefreshedIs ==
  ASSUME O!RoutesAssumption, RegistryInv
  PROVE  /\ DOMAIN O!Refreshed \subseteq Stores
         /\ \A s \in DOMAIN O!Refreshed :
              /\ O!Refreshed[s] \in Profile
              /\ \/ O!Refreshed[s].owner = O!Winner(s)
                 \/ s \in DOMAIN inventory /\ O!Refreshed[s].owner = inventory[s].owner
<1> DEFINE admitted == O!Admitted(MaxStores)
           room == MaxStores - O!Cardinality(admitted)
           kept == O!Retained(DOMAIN inventory \ admitted, room)
           Of(s) == IF s \in admitted
                    THEN [owner |-> O!Winner(s), active |-> TRUE,
                          available |-> s \in DOMAIN inventory /\ inventory[s].available]
                    ELSE [inventory[s] EXCEPT !.active = FALSE]
<1>1. O!Refreshed = [s \in admitted \cup kept |-> Of(s)]
  BY DEF O!Refreshed
<1>2. admitted \subseteq Stores
  BY DEF O!Admitted, O!Admissible, O!RoutesAssumption
<1>3. kept \subseteq DOMAIN inventory
  BY DEF O!Retained
<1>4. ASSUME NEW s \in admitted \cup kept
      PROVE  /\ Of(s) \in Profile
             /\ \/ Of(s).owner = O!Winner(s)
                \/ s \in DOMAIN inventory /\ Of(s).owner = inventory[s].owner
  <2>1. CASE s \in admitted
    <3>1. O!Winner(s) \in Owners
      BY OwnerWins
    <3>2. Of(s) = [owner |-> O!Winner(s), active |-> TRUE,
                   available |-> s \in DOMAIN inventory /\ inventory[s].available]
      BY <2>1
    <3> DEFINE been == s \in DOMAIN inventory /\ inventory[s].available
    <3>3. been \in BOOLEAN
      BY DEF RegistryInv, Profile
    <3> HIDE DEF Of, been
    <3>4. QED
      BY <3>1, <3>2, <3>3 DEF Profile, been
  <2>2. CASE s \notin admitted
    <3>1. s \in DOMAIN inventory /\ Of(s) = [inventory[s] EXCEPT !.active = FALSE]
      BY <2>2, <1>3, <1>4
    <3>2. inventory[s] \in Profile
      BY <3>1 DEF RegistryInv
    <3> HIDE DEF Of
    <3>3. QED
      BY <3>1, <3>2 DEF Profile
  <2>3. QED
    BY <2>1, <2>2
<1> HIDE DEF admitted, kept, Of
<1>5. QED
  BY <1>1, <1>2, <1>3, <1>4 DEF RegistryInv

LEMMA ProbedIs ==
  ASSUME NEW inv, \A s \in DOMAIN inv : inv[s] \in Profile
  PROVE  /\ DOMAIN O!Probed(inv) = DOMAIN inv
         /\ \A s \in DOMAIN inv : /\ O!Probed(inv)[s] \in Profile
                                  /\ O!Probed(inv)[s].owner = inv[s].owner
                                  /\ O!Probed(inv)[s].active = inv[s].active
<1>1. DOMAIN O!Probed(inv) = DOMAIN inv
  BY DEF O!Probed
<1>2. ASSUME NEW s \in DOMAIN inv
      PROVE  /\ O!Probed(inv)[s] \in Profile
             /\ O!Probed(inv)[s].owner = inv[s].owner
             /\ O!Probed(inv)[s].active = inv[s].active
  <2> DEFINE answers == inv[s].active /\ s \notin broken
  <2>1. inv[s] \in Profile
    OBVIOUS
  <2>2. answers \in BOOLEAN
    BY <2>1 DEF Profile
  <2>3. O!Probed(inv)[s] = [inv[s] EXCEPT !.available = answers]
    BY DEF O!Probed
  <2> HIDE DEF answers
  <2>4. QED
    BY <2>1, <2>2, <2>3 DEF Profile
<1>3. QED
  BY <1>1, <1>2

LEMMA NoneAreCounted == O!Cardinality({}) = 0
<1>1. O!Cardinality({}) = Cardinality({})
  BY DEF O!Cardinality, Cardinality
<1>2. QED
  BY <1>1, FS_EmptySet

THEOREM RegistryInductive ==
  ASSUME O!RoutesAssumption PROVE O!RoutesSpec => []RegistryInv
<1>1. O!SInit => RegistryInv
  BY DEF O!SInit, RegistryInv
<1>2. RegistryInv /\ [O!SNext]_O!svars => RegistryInv'
  <2> SUFFICES ASSUME RegistryInv, [O!SNext]_O!svars PROVE RegistryInv'
    OBVIOUS
  <2>1. CASE O!ScanAdmits
    <3>1. alias' = alias
      BY <2>1 DEF O!ScanAdmits, O!outside
    <3>2. PICK inv \in {inventory, O!Refreshed} : inventory' = O!Probed(inv)
      BY <2>1 DEF O!ScanAdmits
    <3>3. DOMAIN inv \subseteq Stores /\ \A s \in DOMAIN inv : inv[s] \in Profile
      BY RefreshedIs DEF RegistryInv
    <3>4. DOMAIN inventory' \subseteq Stores /\ \A s \in DOMAIN inventory' : inventory'[s] \in Profile
      BY <3>2, <3>3, ProbedIs
    <3>5. QED
      BY <3>1, <3>4 DEF RegistryInv, Profile, Owners
  <2>2. CASE O!Retargets
    <3>1. inventory' = inventory
      BY <2>2 DEF O!Retargets, O!Changes
    <3>2. \/ alias' = alias
          \/ \E n \in O!Aliases, s \in Stores \cup {None} : alias' = [alias EXCEPT ![n] = s]
      BY <2>2 DEF O!Retargets
    <3>3. alias' \in [O!Aliases -> Stores \cup {None}]
      BY <3>2 DEF RegistryInv
    <3>4. QED
      BY <3>1, <3>3 DEF RegistryInv, Profile, Owners
  <2>3. CASE \/ O!ScanReads \/ O!Asks \/ O!AsksByKey \/ O!Opens \/ O!Sessions \/ O!Reports
             \/ UNCHANGED O!svars
    <3>1. UNCHANGED <<alias, inventory>>
      BY <2>3 DEF O!ScanReads, O!Asks, O!AsksByKey, O!Opens, O!Sessions, O!Reports, O!Changes,
                  O!svars, O!outside
    <3>2. QED
      BY <3>1 DEF RegistryInv, Profile, Owners
  <2>4. QED
    BY <2>1, <2>2, <2>3 DEF O!SNext
<1>3. QED
  BY <1>1, <1>2, PTL DEF O!RoutesSpec

LEMMA OwnerStays ==
  ASSUME O!RoutesAssumption, RegistryInv, O!ScanAdmits,
         NEW s \in DOMAIN inventory \cap DOMAIN inventory',
         inventory[s].owner # inventory'[s].owner, inventory[s].owner # None,
         alias[inventory[s].owner] = s
  PROVE  inventory'[s].owner = Default
<1>1. PICK inv \in {inventory, O!Refreshed} : inventory' = O!Probed(inv)
  BY DEF O!ScanAdmits
<1>2. \A t \in DOMAIN inv : inv[t] \in Profile
  BY RefreshedIs DEF RegistryInv
<1>3. s \in DOMAIN inv /\ inventory'[s].owner = inv[s].owner
  BY <1>1, <1>2, ProbedIs
<1>4. inv = O!Refreshed /\ inv[s].owner = O!Winner(s)
  BY <1>1, <1>3, RefreshedIs
<1>5. inventory[s].owner \in O!Slugs(s)
  BY DEF RegistryInv, Profile, Owners, O!Slugs
<1>6. QED
  BY <1>3, <1>4, <1>5, OwnerWins

\* No store precedes the default's.
LEMMA DefaultFirst ==
  ASSUME O!RoutesAssumption, RegistryInv, Given = None, alias[Default] # None
  PROVE  /\ alias[Default] \in DOMAIN O!Refreshed
         /\ O!Refreshed[alias[Default]].active = TRUE
<1> DEFINE d == alias[Default]
           admitted == O!Admitted(MaxStores)
           room == MaxStores - O!Cardinality(admitted)
           kept == O!Retained(DOMAIN inventory \ admitted, room)
<1>1. d \in Stores /\ Default \in O!Slugs(d)
  BY SlugsInOrder DEF RegistryInv, O!Slugs
<1>2. d \in O!Admissible
  BY <1>1 DEF O!Admissible
<1>3. {t \in O!Admissible : O!Precedes(t, d)} = {}
  BY DEF O!Precedes
<1>4. 0 < MaxStores
  BY DEF O!RoutesAssumption
<1>5. d \in admitted
  BY <1>2, <1>3, <1>4, NoneAreCounted DEF O!Admitted
<1>6. /\ DOMAIN O!Refreshed = admitted \cup kept
      /\ O!Refreshed[d] = [owner |-> O!Winner(d), active |-> TRUE,
                           available |-> d \in DOMAIN inventory /\ inventory[d].available]
  BY <1>5 DEF O!Refreshed
<1>7. QED
  BY <1>5, <1>6

\* A store keeps its owner while the owner's name leads to it, unless it
\* becomes the default's, and the default's store is always followed
\* (HermesProfiles::refresh).
THEOREM OwnersOfStoresStay ==
  ASSUME O!RoutesAssumption PROVE O!RoutesSpec => O!OwnersStay
<1>1. ASSUME RegistryInv, [O!SNext]_O!svars
      PROVE  [/\ \A s \in DOMAIN inventory \cap DOMAIN inventory' :
                   inventory[s].owner # inventory'[s].owner /\ inventory[s].owner # None =>
                     alias[inventory[s].owner] # s \/ inventory'[s].owner = Default
              /\ O!ScanAdmits /\ Given = None /\ alias[Default] # None
                   /\ inventory' = O!Probed(O!Refreshed) =>
                   inventory'[alias[Default]].active]_O!svars
  <2>1. CASE O!ScanAdmits
    <3>1. \A s \in DOMAIN inventory \cap DOMAIN inventory' :
            inventory[s].owner # inventory'[s].owner /\ inventory[s].owner # None =>
              alias[inventory[s].owner] # s \/ inventory'[s].owner = Default
      BY <1>1, <2>1, OwnerStays
    <3>2. ASSUME Given = None, alias[Default] # None, inventory' = O!Probed(O!Refreshed)
          PROVE  inventory'[alias[Default]].active
      <4>1. \A t \in DOMAIN O!Refreshed : O!Refreshed[t] \in Profile
        BY <1>1, RefreshedIs
      <4>2. alias[Default] \in DOMAIN O!Refreshed /\ O!Refreshed[alias[Default]].active = TRUE
        BY <1>1, <3>2, DefaultFirst
      <4>3. QED
        BY <3>2, <4>1, <4>2, ProbedIs
    <3>3. QED
      BY <3>1, <3>2
  <2>2. CASE ~O!ScanAdmits
    <3>1. inventory' = inventory
      BY <1>1, <2>2 DEF O!SNext, O!ScanReads, O!Asks, O!AsksByKey, O!Opens, O!Retargets,
                        O!Sessions, O!Reports, O!Changes, O!svars, O!outside
    <3>2. QED
      BY <2>2, <3>1
  <2>3. QED
    BY <2>1, <2>2
<1>2. QED
  BY <1>1, RegistryInductive, PTL DEF O!RoutesSpec, O!OwnersStay
=============================================================================
