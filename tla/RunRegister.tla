----------------------------- MODULE RunRegister ----------------------------
(***************************************************************************)
(* What the hub needs of the run's directory: a register that a save sets  *)
(* at one instant or not at all.  While a save is under way a reader, were *)
(* there one, would see the old record or the new one; a save that returns *)
(* has set the record; one that fails or is cut short may have set it.     *)
(***************************************************************************)
CONSTANTS
  Records,  \* the records a run may have (RunRecord)
  First,    \* the record intake leaves
  None

VARIABLES
  value,    \* the record a read returns
  pending,  \* the record being saved, or None
  returned  \* the record of the last save that returned

Init == value = First /\ pending = None /\ returned = First

Begin ==
  /\ pending = None
  /\ pending' \in Records /\ UNCHANGED <<value, returned>>

Commit ==
  /\ pending # None
  /\ value' = pending /\ UNCHANGED <<pending, returned>>

Return ==
  /\ pending # None
  /\ value' = pending /\ returned' = pending /\ pending' = None

Abort ==
  /\ pending # None
  /\ pending' = None /\ UNCHANGED <<value, returned>>

Next == Begin \/ Commit \/ Return \/ Abort

Spec == Init /\ [][Next]_<<value, pending, returned>>
=============================================================================
