------------------------------- MODULE Outbox -------------------------------
(***************************************************************************)
(* TransactionalOutbox of workflow.js: governed commands append events to  *)
(* the canonical documents; processors deliver them afterwards.            *)
(*                                                                         *)
(* deliverNext reads the documents, calls the handler, and records the     *)
(* answer in a later repository.execute, with nothing held in between: any *)
(* number of processors may have the same event in hand.  A processor that *)
(* stops, or whose execute is refused, leaves no record of the answer.     *)
(***************************************************************************)
EXTENDS Naturals, FiniteSets, SequencesExt

CONSTANTS
    Processor,         \* callers of deliverNext, each one call at a time
    MaximumAttempts,
    MaxEvents,         \* bound: events appended
    MaxLost            \* bound: answers that are never recorded

ASSUME OutboxAssumption ==
    /\ IsFiniteSet(Processor)
    /\ MaximumAttempts \in Nat \ {0} /\ MaxEvents \in Nat /\ MaxLost \in Nat

VARIABLES
    outbox,     \* changeControl.outbox: status and attempts of each event
    call,       \* the deliverNext in progress of each processor
    accepted,   \* external: the events whose delivery the handler accepted
    lost        \* bound: answers not recorded so far

vars == <<outbox, call, accepted, lost>>

Idle == [step |-> "idle"]
Events == DOMAIN outbox

Init ==
    /\ outbox = <<>>
    /\ call = [p \in Processor |-> Idle]
    /\ accepted = {}
    /\ lost = 0

\* event(): part of a governed commit.
Enqueue ==
    /\ Len(outbox) < MaxEvents
    /\ outbox' = Append(outbox, [status |-> "pending", attempts |-> 0])
    /\ UNCHANGED <<call, accepted, lost>>

\* Fault: an event that failed before waits behind the new ones.
NewestFirst ==
    LET new == {e \in Events : outbox[e].status = "pending"}
        old == {e \in Events : outbox[e].status = "failed"}
    IN  IF new # {} THEN new ELSE old

Pending == {e \in Events : outbox[e].status \in {"pending", "failed"}}

\* const [candidate] = await this.pending()
Pick(p) == \E e \in Pending :
    /\ call[p] = Idle
    /\ \A f \in Pending : e <= f
    /\ call' = [call EXCEPT ![p] = [step |-> "deliver", event |-> e]]
    /\ UNCHANGED <<outbox, accepted, lost>>

\* The handler may take the event and still be reported as failed (a lost answer).
Deliver(p) == \E taken, failure \in BOOLEAN :
    /\ call[p].step = "deliver"
    /\ taken \/ failure
    /\ accepted' = IF taken THEN accepted \cup {call[p].event} ELSE accepted
    /\ call' = [call EXCEPT ![p] = [step |-> "record", event |-> @.event, failure |-> failure]]
    /\ UNCHANGED <<outbox, lost>>

\* Fault: only failures are counted.
FailuresCounted(entry, failure) ==
    IF entry.status = "delivered" THEN entry
    ELSE LET attempts == IF failure THEN entry.attempts + 1 ELSE entry.attempts IN
         [attempts |-> attempts,
          status |-> IF ~failure THEN "delivered"
                     ELSE IF attempts >= MaximumAttempts THEN "dead-letter" ELSE "failed"]

\* Fault: one attempt too many.
OneMoreAttempt(entry, failure) ==
    IF entry.status = "delivered" THEN entry
    ELSE LET attempts == entry.attempts + 1 IN
         [attempts |-> attempts,
          status |-> IF ~failure THEN "delivered"
                     ELSE IF attempts > MaximumAttempts THEN "dead-letter" ELSE "failed"]

\* Fault: a failure the consumer may recover from is never given up.
RetriedForever(entry, failure) ==
    IF entry.status = "delivered" THEN entry
    ELSE [attempts |-> IF entry.attempts < MaximumAttempts - 1 THEN entry.attempts + 1 ELSE entry.attempts,
          status |-> IF failure THEN "failed" ELSE "delivered"]

Answered(entry, failure) ==
    IF entry.status = "delivered" THEN entry
    ELSE LET attempts == entry.attempts + 1 IN
         [attempts |-> attempts,
          status |-> IF ~failure THEN "delivered"
                     ELSE IF attempts >= MaximumAttempts THEN "dead-letter" ELSE "failed"]

Record(p) ==
    /\ call[p].step = "record"
    /\ outbox' = [outbox EXCEPT ![call[p].event] = Answered(@, call[p].failure)]
    /\ call' = [call EXCEPT ![p] = Idle]
    /\ UNCHANGED <<accepted, lost>>

\* The process stops, or repository.execute throws.
Lose(p) ==
    /\ call[p] # Idle
    /\ lost < MaxLost /\ lost' = lost + 1
    /\ call' = [call EXCEPT ![p] = Idle]
    /\ UNCHANGED <<outbox, accepted>>

Next ==
    \/ Enqueue
    \/ \E p \in Processor : Pick(p) \/ Deliver(p) \/ Record(p) \/ Lose(p)

\* Whoever runs a processor calls deliverNext again, a handler answers, and the
\* repository takes the record.
Fairness == \A p \in Processor : WF_vars(Pick(p) \/ Deliver(p) \/ Record(p))

Spec == Init /\ [][Next]_vars /\ Fairness

----------------------------------------------------------------------------
(* Properties.                                                             *)

Calls ==
    {Idle} \cup [step : {"deliver"}, event : Nat] \cup [step : {"record"}, event : Nat, failure : BOOLEAN]

Statuses == {"pending", "failed", "dead-letter", "delivered"}
Entry == [status : Statuses, attempts : Nat]

\* Every answer counts as an attempt, so only a pending event has none.
TypeOK ==
    /\ outbox \in Seq(Entry)
    /\ \A e \in Events : outbox[e].status = "pending" <=> outbox[e].attempts = 0
    /\ call \in [Processor -> Calls]
    /\ \A p \in Processor : call[p] # Idle => call[p].event \in Events
    /\ accepted \subseteq Events
    /\ lost \in 0..MaxLost

\* An event is tried until it is delivered or its attempts are used up; only the
\* processors that had it in hand at that moment add to the count.
AttemptsBounded ==
    \A e \in Events :
        LET inHand == {p \in Processor : call[p] # Idle /\ call[p].event = e} IN
        /\ outbox[e].status = "failed" => outbox[e].attempts < MaximumAttempts
        /\ outbox[e].status = "dead-letter" =>
             /\ outbox[e].attempts >= MaximumAttempts
             /\ outbox[e].attempts + Cardinality(inHand) < MaximumAttempts + Cardinality(Processor)

Fate(status) ==
    CASE status = "delivered" -> "delivered"
      [] status = "dead-letter" -> "abandoned"
      [] OTHER -> "open"

Queue == INSTANCE NotificationQueue WITH
             fate <- [e \in Events |-> Fate(outbox[e].status)],
             taken <- accepted

\* Whatever the processors have in hand, and whichever answers are lost, events are
\* offered in order, and an event is delivered only if the handler took it
\* (workflow-and-change-control-guide.md:45; pilot-outbox.v1.json orderingReplay).
ImplementsQueue == Queue!QSpec

\* Every event is delivered or given up, and so never blocks the ones behind it.
EventuallySettled ==
    \A e \in 1..MaxEvents : e \in Events ~> e \in Events /\ outbox[e].status \in {"delivered", "dead-letter"}
============================================================================
