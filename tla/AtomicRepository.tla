-------------------------- MODULE AtomicRepository --------------------------
(***************************************************************************)
(* What a client may rely on: the repository is one register whose content *)
(* is the sequence of requests that took effect, its revision their        *)
(* number.  A request takes effect at once and entirely, at most once per  *)
(* idempotency key, and is acknowledged only when it has taken effect.     *)
(* What was ever observed is never taken back.                             *)
(***************************************************************************)
EXTENDS Naturals, Sequences

CONSTANTS Request, KeyOf

VARIABLES
    content,   \* the requests that took effect, in order
    acked      \* the requests whose caller was told they succeeded

avars == <<content, acked>>

InContent(r) == \E i \in 1..Len(content) : content[i] = r

KeyUsed(k) == \E i \in 1..Len(content) : KeyOf[content[i]] = k

AInit == content = <<>> /\ acked = {}

\* A request takes effect; its caller may hear of it at once, later or never.
TakeEffect(r) ==
    /\ ~KeyUsed(KeyOf[r])
    /\ content' = Append(content, r)
    /\ acked' \in {acked, acked \cup {r}}

Acknowledge(r) ==
    /\ InContent(r)
    /\ acked' = acked \cup {r}
    /\ UNCHANGED content

ANext == \E r \in Request : TakeEffect(r) \/ Acknowledge(r)

ASpec == AInit /\ [][ANext]_avars
=============================================================================
