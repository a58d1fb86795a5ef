------------------------- MODULE MCRepositoryCommit -------------------------
(***************************************************************************)
(* Instance of RepositoryCommit for TLC: two commands that share an        *)
(* idempotency key, a third one that expects revision 1, three             *)
(* transactions, and two mixes of faults.                                  *)
(***************************************************************************)
EXTENDS RepositoryCommit, TLC

CONSTANTS r1, r2, r3, k1, k2, t1, t2, t3

MCRequest == {r1, r2, r3}
MCKeyOf == (r1 :> k1) @@ (r2 :> k1) @@ (r3 :> k2)
MCExpected == (r1 :> AnyRevision) @@ (r2 :> AnyRevision) @@ (r3 :> 1)
MCTx == {t1, t2, t3}

\* Every two crashes with a corrupted file; one crash with an I/O error inside
\* recovery and a corrupted file.
MCFaults == { [crash |-> 2, error |-> 0, corrupt |-> 1],
              [crash |-> 1, error |-> 1, corrupt |-> 1] }
MCTwoCrashes == { [crash |-> 2, error |-> 0, corrupt |-> 0] }

MCSymmetry == Permutations(MCTx)
=============================================================================
