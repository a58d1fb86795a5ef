------------------------- MODULE NotificationQueue -------------------------
(***************************************************************************)
(* What the consumer of notifications may rely on: events are offered in   *)
(* the order they were published, an event only after every earlier one    *)
(* was delivered or given up; one that is marked delivered was taken, and  *)
(* stays delivered.  One that was given up may still turn out delivered.   *)
(***************************************************************************)
EXTENDS Naturals, Sequences

VARIABLES
    fate,    \* of each event in publication order: open, abandoned or delivered
    taken    \* the events the consumer has taken

qvars == <<fate, taken>>

OpenBefore(e) == \E f \in 1..Len(fate) : f < e /\ fate[f] = "open"

QInit == fate = <<>> /\ taken = {}

Publish == fate' = Append(fate, "open") /\ UNCHANGED taken

Take(e) == ~OpenBefore(e) /\ taken' = taken \cup {e} /\ UNCHANGED fate

Settle(e, how) ==
    /\ ~OpenBefore(e)
    /\ fate[e] # "delivered"
    /\ how = "delivered" => e \in taken
    /\ how = "abandoned" => fate[e] = "open"
    /\ fate' = [fate EXCEPT ![e] = how]
    /\ UNCHANGED taken

QNext ==
    \/ Publish
    \/ \E e \in 1..Len(fate) : Take(e) \/ \E how \in {"delivered", "abandoned"} : Settle(e, how)

QSpec == QInit /\ [][QNext]_qvars
============================================================================
