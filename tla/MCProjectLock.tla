--------------------------- MODULE MCProjectLock ---------------------------
(***************************************************************************)
(* Instance of ProjectLock for TLC: a process that runs two concurrent     *)
(* operations and a second process, a command-line one, that runs one.     *)
(***************************************************************************)
EXTENDS ProjectLock, TLC

CONSTANTS a1, a2, b1, pa, pb

MCContender == {a1, a2, b1}
MCProcess == {pa, pb}
MCProcessOf == (a1 :> pa) @@ (a2 :> pa) @@ (b1 :> pb)
=============================================================================
