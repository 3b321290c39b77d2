--------------------------- MODULE Correspondence ---------------------------
(***************************************************************************)
(* What the hub may count on when it corresponds with the owner: a request *)
(* is put to the owner once, whatever is lost; what it hears of a request  *)
(* is something the owner said to that request, once and for all; and a    *)
(* question's answer is acknowledged in the thread before it is acted on.  *)
(***************************************************************************)
EXTENDS Naturals

CONSTANTS Questions, Keys, Replies, Ack(_)

VARIABLES
  copies,  \* comments of the thread that put a request
  said,    \* what the owner said to a request
  heard    \* what the hub was told of it

Init ==
  /\ copies = [k \in Keys |-> 0]
  /\ said = [k \in Keys |-> {}]
  /\ heard = {}

Put(k) ==
  /\ copies[k] = 0 /\ copies' = [copies EXCEPT ![k] = 1]
  /\ UNCHANGED <<said, heard>>

Say(k, words) ==
  /\ copies[k] = 1
  /\ said' = [said EXCEPT ![k] = @ \cup {words}]
  /\ UNCHANGED <<copies, heard>>

Hear(k, words) ==
  /\ words \in said[k]
  /\ \A entry \in heard : entry[1] = k => entry[2] = words
  /\ heard' = heard \cup {<<k, words>>}
  /\ IF k \in Questions
     THEN copies' = [copies EXCEPT ![Ack(k)] = 1]
     ELSE UNCHANGED copies
  /\ UNCHANGED said

Next ==
  \E k \in Keys :
    Put(k) \/ \E words \in Replies : Say(k, words) \/ Hear(k, words)

Spec == Init /\ [][Next]_<<copies, said, heard>>
=============================================================================
