---------------------------- MODULE SettledTurn ----------------------------
(***************************************************************************)
(* What a hub needs of an attempt whose work is done by a service that     *)
(* outlives the attempt's own processes: one request at a time, and no     *)
(* outcome while one is being worked on, nor a request after it.           *)
(***************************************************************************)
VARIABLES
  working, \* the service works on a request of the attempt
  settled  \* the attempt has an outcome

Init == ~working /\ ~settled

Submit == ~working /\ ~settled /\ working' /\ UNCHANGED settled

End == working /\ ~working' /\ UNCHANGED settled

Settle == ~working /\ ~settled /\ settled' /\ UNCHANGED working

Next == Submit \/ End \/ Settle

Spec == Init /\ [][Next]_<<working, settled>>
=============================================================================
