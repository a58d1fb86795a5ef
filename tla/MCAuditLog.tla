----------------------------- MODULE MCAuditLog -----------------------------
(***************************************************************************)
(* Instance of AuditLog for TLC: concurrent requests of one transaction    *)
(* and of none.                                                            *)
(***************************************************************************)
EXTENDS AuditLog, TLC

CONSTANTS c1, c2, c3

MCCaller == {c1, c2, c3}
MCSymmetry == Permutations(MCCaller)
=============================================================================
