----------------------------- MODULE BotCapacity ----------------------------
(***************************************************************************)
(* What hosts need of the attempts in their root: a bot has one attempt    *)
(* that is not settled, whichever run it belongs to, and an attempt that   *)
(* is settled has been executed and never is again.                        *)
(***************************************************************************)
CONSTANTS
  Attempts,  \* attempt directories
  BotOf      \* attempt -> the bot that executes it

VARIABLES
  holding,   \* attempts that hold their bot's capacity
  settled    \* attempts of the past

Init == holding = {} /\ settled = {}

Take(a) ==
  /\ a \notin holding \cup settled
  /\ \A b \in holding : BotOf[b] # BotOf[a]
  /\ holding' = holding \cup {a} /\ UNCHANGED settled

\* Nothing of the attempt has been executed.
GiveBack(a) ==
  /\ a \in holding
  /\ holding' = holding \ {a} /\ UNCHANGED settled

Settle(a) ==
  /\ a \in holding
  /\ holding' = holding \ {a} /\ settled' = settled \cup {a}

Next == \E a \in Attempts : Take(a) \/ GiveBack(a) \/ Settle(a)

Spec == Init /\ [][Next]_<<holding, settled>>
=============================================================================
