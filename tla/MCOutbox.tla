------------------------------ MODULE MCOutbox ------------------------------
(***************************************************************************)
(* Instance of Outbox for TLC: two processors, two attempts for each event *)
(* (the code's default is five), three events and two lost answers.        *)
(***************************************************************************)
EXTENDS Outbox

CONSTANTS p1, p2
MCProcessors == {p1, p2}
=============================================================================
