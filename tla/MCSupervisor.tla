---------------------------- MODULE MCSupervisor ----------------------------
(***************************************************************************)
(* Two runs that share a bot; one of them resumes an attempt with an       *)
(* answer.                                                                 *)
(***************************************************************************)
EXTENDS Supervisor, TLC

CONSTANTS h1, h2, a_one, a_two, a_other, r_a, r_b, writer

MCBotOf == [a \in Attempts |-> writer]
MCRunOf == (a_one :> r_a) @@ (a_two :> r_a) @@ (a_other :> r_b)
MCResumes == (a_one :> None) @@ (a_two :> a_one) @@ (a_other :> None)

\* One attempt's directory has a result in it from before.
MCInit == Init /\ output = [a \in Attempts |->
                             IF a = a_one THEN "left" ELSE "none"]
MCSpec == MCInit /\ [][Next]_vars /\ Fairness
=============================================================================
