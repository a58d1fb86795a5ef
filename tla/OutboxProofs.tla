---------------------------- MODULE OutboxProofs ----------------------------
(***************************************************************************)
(* The outbox implements NotificationQueue for any number of processors,   *)
(* attempts, events and lost answers.  TypeOK is inductive.  For the       *)
(* refinement, a processor that has an event in hand knows that every      *)
(* earlier event is settled, and one that records a success knows that the *)
(* handler took the event: both stay true whatever the others do.          *)
(***************************************************************************)
EXTENDS Outbox, FiniteSetTheorems, TLAPS

\* An answer keeps the type of an entry, and never reopens a settled one.
LEMMA AnsweredType ==
  ASSUME NEW entry \in Entry, NEW failure \in BOOLEAN,
         entry.status = "pending" <=> entry.attempts = 0
  PROVE  /\ Answered(entry, failure) \in Entry
         /\ Answered(entry, failure).status = "pending" <=> Answered(entry, failure).attempts = 0
         /\ entry.status = "delivered" => Answered(entry, failure) = entry
         /\ Answered(entry, failure).status \in {"delivered", "dead-letter", "failed"}
         /\ Answered(entry, failure).status = "delivered" => entry.status = "delivered" \/ ~failure
  BY DEF Answered, Entry, Statuses

\* What Record does to the outbox and to nothing else.
LEMMA RecordStep ==
  ASSUME TypeOK, NEW p \in Processor, Record(p)
  PROVE  /\ call[p].event \in Events /\ call[p].failure \in BOOLEAN
         /\ Events' = Events
         /\ outbox' \in Seq(Entry)
         /\ outbox'[call[p].event] = Answered(outbox[call[p].event], call[p].failure)
         /\ \A e \in Events : e # call[p].event => outbox'[e] = outbox[e]
<1>1. call[p] # Idle
  BY DEF Record, Idle
<1>2. call[p].event \in Events /\ call[p].failure \in BOOLEAN
  BY <1>1 DEF TypeOK, Calls, Record, Idle
<1>3. outbox \in Seq(Entry) /\ outbox[call[p].event] \in Entry
  BY <1>2 DEF TypeOK, Events
<1>4. Answered(outbox[call[p].event], call[p].failure) \in Entry
  BY <1>2, <1>3, AnsweredType DEF TypeOK
<1>5. outbox' = [outbox EXCEPT ![call[p].event] = Answered(outbox[call[p].event], call[p].failure)]
  BY DEF Record
<1>6. QED
  BY <1>2, <1>3, <1>4, <1>5 DEF Events

\* The type invariant: every answer counts as an attempt, whatever is lost.
THEOREM TypeCorrect == Spec => []TypeOK
<1>1. Init => TypeOK
  BY OutboxAssumption DEF Init, TypeOK, Events, Calls, Idle
<1>2. TypeOK /\ [Next]_vars => TypeOK'
  <2> SUFFICES ASSUME TypeOK, [Next]_vars PROVE TypeOK'
    OBVIOUS
  <2>1. CASE Enqueue
    <3>1. Events \subseteq Events' /\ Events' = 1..(Len(outbox) + 1)
      BY <2>1 DEF Enqueue, TypeOK, Events
    <3>2. outbox' \in Seq(Entry)
      BY <2>1 DEF Enqueue, TypeOK, Entry, Statuses
    <3>3. \A e \in Events' : outbox'[e].status = "pending" <=> outbox'[e].attempts = 0
      BY <2>1, <3>1 DEF Enqueue, TypeOK, Events
    <3>4. QED
      BY <2>1, <3>1, <3>2, <3>3 DEF Enqueue, TypeOK, Entry
  <2>2. ASSUME NEW p \in Processor, Pick(p) PROVE TypeOK'
    <3>1. PICK e \in Pending : call' = [call EXCEPT ![p] = [step |-> "deliver", event |-> e]]
      BY <2>2 DEF Pick
    <3>2. e \in Nat /\ e \in Events
      BY DEF Pending, Events, TypeOK
    <3>3. call' \in [Processor -> Calls]
      BY <3>1, <3>2 DEF TypeOK, Calls
    <3>4. \A q \in Processor : call'[q] # Idle => call'[q].event \in Events
      BY <3>1, <3>2 DEF TypeOK
    <3>5. QED
      BY <2>2, <3>3, <3>4 DEF Pick, TypeOK, Events
  <2>3. ASSUME NEW p \in Processor, Deliver(p) PROVE TypeOK'
    <3>1. PICK failure \in BOOLEAN :
            call' = [call EXCEPT ![p] = [step |-> "record", event |-> @.event, failure |-> failure]]
      BY <2>3 DEF Deliver
    <3>2. call[p].event \in Nat /\ call[p].event \in Events
      BY <2>3 DEF Deliver, TypeOK, Calls, Idle, Events
    <3>3. call' \in [Processor -> Calls]
      BY <3>1, <3>2 DEF TypeOK, Calls
    <3>4. \A q \in Processor : call'[q] # Idle => call'[q].event \in Events
      BY <3>1, <3>2 DEF TypeOK
    <3>5. accepted' \subseteq Events
      BY <2>3, <3>2 DEF Deliver, TypeOK
    <3>6. QED
      BY <2>3, <3>3, <3>4, <3>5 DEF Deliver, TypeOK, Events
  <2>4. ASSUME NEW p \in Processor, Record(p) PROVE TypeOK'
    <3>1. \A e \in Events : outbox[e] \in Entry
      BY DEF TypeOK, Events
    <3>2. \A e \in Events' : outbox'[e].status = "pending" <=> outbox'[e].attempts = 0
      BY <2>4, <3>1, RecordStep, AnsweredType DEF TypeOK
    <3>3. call' = [call EXCEPT ![p] = Idle]
      BY <2>4 DEF Record
    <3>4. call' \in [Processor -> Calls]
      BY <3>3 DEF TypeOK, Calls
    <3>5. \A q \in Processor : call'[q] # Idle => call'[q].event \in Events'
      BY <3>3, <2>4, RecordStep DEF TypeOK
    <3>6. QED
      BY <2>4, <3>2, <3>4, <3>5, RecordStep DEF Record, TypeOK, Entry
  <2>5. ASSUME NEW p \in Processor, Lose(p) PROVE TypeOK'
    <3>1. MaxLost \in Nat
      BY OutboxAssumption
    <3>2. QED
      BY <2>5, <3>1 DEF Lose, TypeOK, Calls, Events
  <2>6. CASE UNCHANGED vars
    BY <2>6 DEF vars, TypeOK, Events
  <2>7. QED
    BY <2>1, <2>2, <2>3, <2>4, <2>5, <2>6 DEF Next
<1>3. QED
  BY <1>1, <1>2, PTL DEF Spec

----------------------------------------------------------------------------
(* The bound on attempts.                                                  *)

HandsOn(e) == {p \in Processor : call[p] # Idle /\ call[p].event = e}

\* What AttemptsBounded says of one event.
Bounded(e) ==
    /\ outbox[e].status = "failed" => outbox[e].attempts < MaximumAttempts
    /\ outbox[e].status = "dead-letter" =>
         /\ outbox[e].attempts >= MaximumAttempts
         /\ outbox[e].attempts + Cardinality(HandsOn(e)) < MaximumAttempts + Cardinality(Processor)

LEMMA HandsCounted ==
  ASSUME NEW S \in SUBSET Processor, NEW T \in SUBSET S
  PROVE  /\ Cardinality(S) \in Nat /\ Cardinality(T) \in Nat /\ Cardinality(T) <= Cardinality(S)
         /\ \A p \in S \ T : Cardinality(T) < Cardinality(S)
<1>1. IsFiniteSet(S)
  BY OutboxAssumption, FS_Subset
<1>2. IsFiniteSet(T) /\ Cardinality(T) <= Cardinality(S) /\ (Cardinality(T) = Cardinality(S) => S = T)
  BY <1>1, FS_Subset
<1>3. Cardinality(S) \in Nat /\ Cardinality(T) \in Nat
  BY <1>1, <1>2, FS_CardinalityType
<1>4. \A p \in S \ T : Cardinality(T) # Cardinality(S)
  BY <1>2
<1>5. QED
  BY <1>2, <1>3, <1>4

\* An event that is in fewer hands than before and has as many attempts stays bounded.
LEMMA FewerHands ==
  ASSUME TypeOK, NEW e \in Events, Bounded(e), outbox'[e] = outbox[e],
         outbox[e].status = "dead-letter" => HandsOn(e)' \subseteq HandsOn(e)
  PROVE  Bounded(e)'
<1> DEFINE S == HandsOn(e)  T == HandsOn(e)'  k == outbox[e].attempts
<1>1. k \in Nat /\ MaximumAttempts \in Nat
  <2>1. outbox[e] \in Entry
    BY DEF TypeOK, Events
  <2>2. QED
    BY <2>1, OutboxAssumption DEF Entry
<1>2. S \in SUBSET Processor /\ Processor \in SUBSET Processor
  BY DEF HandsOn
<1>3. Cardinality(Processor) \in Nat /\ Cardinality(S) \in Nat
  BY <1>2, HandsCounted
<1>4. CASE outbox[e].status = "dead-letter"
  <2>1. Cardinality(T) \in Nat /\ Cardinality(T) <= Cardinality(S)
    BY <1>2, <1>4, HandsCounted
  <2>2. k + Cardinality(T) < MaximumAttempts + Cardinality(Processor)
    BY <1>1, <1>3, <1>4, <2>1 DEF Bounded
  <2>3. QED
    BY <1>4, <2>2 DEF Bounded
<1>5. CASE outbox[e].status # "dead-letter"
  BY <1>5 DEF Bounded
<1>6. QED
  BY <1>4, <1>5

\* A processor that records an answer takes the event out of its own hand.
LEMMA LastHand ==
  ASSUME TypeOK, NEW e \in Events, outbox[e] \in Entry, Bounded(e),
         NEW p, p \in HandsOn(e), HandsOn(e) \in SUBSET Processor, HandsOn(e)' = HandsOn(e) \ {p},
         outbox[e].status # "delivered", NEW failure \in BOOLEAN,
         outbox'[e] = Answered(outbox[e], failure)
  PROVE  Bounded(e)'
<1>1. outbox[e].attempts \in Nat /\ MaximumAttempts \in Nat \ {0}
  BY OutboxAssumption DEF Entry
<1>2. /\ outbox'[e].attempts = outbox[e].attempts + 1
      /\ outbox'[e].status = "dead-letter" => outbox'[e].attempts >= MaximumAttempts
      /\ outbox'[e].status = "failed" => outbox'[e].attempts < MaximumAttempts
  BY <1>1 DEF Answered
<1>3. /\ Cardinality(HandsOn(e)) \in Nat /\ Cardinality(HandsOn(e)') \in Nat
      /\ Cardinality(HandsOn(e)') < Cardinality(HandsOn(e))
  <2>1. HandsOn(e) \ {p} \in SUBSET HandsOn(e) /\ p \in HandsOn(e) \ (HandsOn(e) \ {p})
    OBVIOUS
  <2>2. /\ Cardinality(HandsOn(e)) \in Nat /\ Cardinality(HandsOn(e) \ {p}) \in Nat
        /\ Cardinality(HandsOn(e) \ {p}) < Cardinality(HandsOn(e))
    BY <2>1, HandsCounted
  <2>3. QED
    BY <2>2
<1>4. Cardinality(Processor) \in Nat /\ Cardinality(HandsOn(e)) <= Cardinality(Processor)
  BY HandsCounted
<1>5. outbox[e].attempts < MaximumAttempts \/ outbox[e].status = "dead-letter"
  BY <1>1 DEF Bounded, TypeOK, Entry, Statuses
<1>6. outbox'[e].attempts + Cardinality(HandsOn(e)') < MaximumAttempts + Cardinality(Processor)
  <2>1. CASE outbox[e].status = "dead-letter"
    <3>1. outbox[e].attempts + Cardinality(HandsOn(e)) < MaximumAttempts + Cardinality(Processor)
      BY <2>1 DEF Bounded
    <3>2. QED
      BY <1>1, <1>2, <1>3, <1>4, <3>1
  <2>2. CASE outbox[e].attempts < MaximumAttempts
    BY <1>1, <1>2, <1>3, <1>4, <2>2
  <2>3. QED
    BY <1>5, <2>1, <2>2
<1>7. QED
  BY <1>2, <1>6 DEF Bounded

\* Processors that have an event in hand when its attempts are used up may still
\* add theirs, and nobody takes it up again: attempts stay bounded for any number of
\* processors, events and lost answers.
THEOREM BoundedAttempts == Spec => []AttemptsBounded
<1> DEFINE AllBounded == \A e \in Events : Bounded(e)
<1>1. Init => AllBounded
  BY DEF Init, Events
<1>2. TypeOK /\ AllBounded /\ [Next]_vars => AllBounded'
  <2> SUFFICES ASSUME TypeOK, AllBounded, [Next]_vars PROVE AllBounded'
    OBVIOUS
  <2>0. \A e \in Events : outbox[e] \in Entry
    BY DEF TypeOK, Events
  <2>1. CASE Enqueue
    <3>1. /\ \A e \in Events' \ Events : outbox'[e].status = "pending"
          /\ \A e \in Events : outbox'[e] = outbox[e]
      BY <2>1 DEF Enqueue, TypeOK, Events
    <3>2. \A e : HandsOn(e)' = HandsOn(e)
      BY <2>1 DEF Enqueue, HandsOn
    <3>3. \A e \in Events : Bounded(e)'
      BY <3>1, <3>2, FewerHands
    <3>4. \A e \in Events' \ Events : Bounded(e)'
      BY <3>1 DEF Bounded
    <3>5. QED
      BY <3>3, <3>4
  <2>2. ASSUME NEW p \in Processor, Pick(p) PROVE AllBounded'
    <3>1. PICK e \in Pending : call' = [call EXCEPT ![p] = [step |-> "deliver", event |-> e]]
      BY <2>2 DEF Pick
    <3>2. outbox' = outbox /\ call[p] = Idle /\ outbox[e].status \in {"pending", "failed"}
      BY <2>2 DEF Pick, Pending
    <3>3. \A f \in Events : outbox[f].status = "dead-letter" => HandsOn(f)' \subseteq HandsOn(f)
      BY <3>1, <3>2 DEF HandsOn, TypeOK
    <3>4. QED
      BY <3>2, <3>3, FewerHands DEF Events
  <2>3. ASSUME NEW p \in Processor, Deliver(p) \/ Lose(p) PROVE AllBounded'
    <3>1. outbox' = outbox
      BY <2>3 DEF Deliver, Lose
    <3>2. /\ \A q \in Processor \ {p} : call'[q] = call[q]
          /\ call'[p] = Idle \/ (call[p] # Idle /\ call'[p].event = call[p].event)
      BY <2>3 DEF Deliver, Lose, TypeOK, Idle
    <3>3. \A f \in Events : HandsOn(f)' \subseteq HandsOn(f)
      BY <3>2 DEF HandsOn
    <3>4. QED
      BY <3>1, <3>3, FewerHands DEF Events
  <2>4. ASSUME NEW p \in Processor, Record(p) PROVE AllBounded'
    <3> SUFFICES ASSUME NEW e \in Events, e = call[p].event PROVE AllBounded'
      BY <2>4, RecordStep
    <3>1. /\ call[p].failure \in BOOLEAN /\ Events' = Events
          /\ outbox'[e] = Answered(outbox[e], call[p].failure)
          /\ \A f \in Events : f # e => outbox'[f] = outbox[f]
      BY <2>4, RecordStep
    <3>2. call' = [call EXCEPT ![p] = Idle] /\ call[p] # Idle
      BY <2>4 DEF Record, Idle
    <3>3. \A f \in Events : HandsOn(f)' = HandsOn(f) \ {p}
      BY <3>2 DEF HandsOn, TypeOK
    <3>4. \A f \in Events : f # e => Bounded(f)'
      BY <3>1, <3>3, FewerHands
    <3>5. Bounded(e)'
      <4>1. CASE outbox[e].status = "delivered"
        <5>1. outbox'[e] = outbox[e]
          BY <3>1, <4>1 DEF Answered
        <5>2. QED
          BY <3>3, <4>1, <5>1, FewerHands
      <4>2. CASE outbox[e].status # "delivered"
        <5>1. p \in HandsOn(e) /\ HandsOn(e) \in SUBSET Processor
          BY <3>2 DEF HandsOn
        <5>2. HandsOn(e)' = HandsOn(e) \ {p}
          BY <3>3
        <5>3. Bounded(e) /\ outbox[e] \in Entry
          BY <2>0
        <5>4. QED
          BY <3>1, <4>2, <5>1, <5>2, <5>3, LastHand
      <4>3. QED
        BY <4>1, <4>2
    <3>6. QED
      BY <3>1, <3>4, <3>5
  <2>5. CASE UNCHANGED vars
    BY <2>5 DEF vars, Bounded, HandsOn, Events
  <2>6. QED
    BY <2>1, <2>2, <2>3, <2>4, <2>5 DEF Next
<1>3. AllBounded => AttemptsBounded
  BY DEF AttemptsBounded, Bounded, HandsOn
<1>4. QED
  BY <1>1, <1>2, <1>3, TypeCorrect, PTL DEF Spec

----------------------------------------------------------------------------
(* The refinement.                                                         *)

\* An event is given up only when its attempts are used up.
Spent == \A e \in Events : outbox[e].status = "dead-letter" => outbox[e].attempts >= MaximumAttempts

InHand ==
    \A p \in Processor : call[p] # Idle =>
        /\ \A f \in Events : f < call[p].event => outbox[f].status \in {"delivered", "dead-letter"}
        /\ call[p].step = "record" /\ ~call[p].failure => call[p].event \in accepted

IInv == TypeOK /\ Spent /\ InHand

\* An answer never reopens a settled entry.
LEMMA AnsweredStaysSettled ==
  ASSUME NEW entry \in Entry, NEW failure \in BOOLEAN,
         entry.status = "dead-letter" => entry.attempts >= MaximumAttempts
  PROVE  /\ entry.status \in {"delivered", "dead-letter"} =>
              Answered(entry, failure).status \in {"delivered", "dead-letter"}
         /\ Answered(entry, failure).status = "dead-letter" =>
              Answered(entry, failure).attempts >= MaximumAttempts
<1>1. MaximumAttempts \in Nat
  BY OutboxAssumption
<1>2. QED
  BY <1>1 DEF Answered, Entry, Statuses

LEMMA Inductive == IInv /\ TypeOK' /\ [Next]_vars => IInv'
<1> SUFFICES ASSUME IInv, TypeOK', [Next]_vars PROVE Spent' /\ InHand'
  BY DEF IInv
<1>0. \A e \in Events : outbox[e] \in Entry
  BY DEF IInv, TypeOK, Events
<1>1. CASE Enqueue
  <2>1. /\ Events \subseteq Events'
        /\ \A e \in Events : outbox'[e] = outbox[e]
        /\ \A e \in Events' \ Events : outbox'[e].status = "pending"
        /\ \A e \in Events, f \in Events' : f < e => f \in Events
    BY <1>1 DEF Enqueue, IInv, TypeOK, Events
  <2>2. call' = call /\ accepted' = accepted
    BY <1>1 DEF Enqueue
  <2>3. Spent'
    BY <2>1 DEF IInv, Spent
  <2>4. InHand'
    BY <2>1, <2>2 DEF IInv, InHand, TypeOK
  <2>5. QED
    BY <2>3, <2>4
<1>2. ASSUME NEW p \in Processor, Pick(p) PROVE Spent' /\ InHand'
  <2>1. PICK e \in Pending : /\ \A f \in Pending : e <= f
                             /\ call' = [call EXCEPT ![p] = [step |-> "deliver", event |-> e]]
    BY <1>2 DEF Pick
  <2>2. UNCHANGED <<outbox, accepted>>
    BY <1>2 DEF Pick
  <2>3. \A f \in Events : f < e => outbox[f].status \in {"delivered", "dead-letter"}
    <3>1. e \in Nat /\ \A f \in Events : f \in Nat
      BY DEF Pending, Events, IInv, TypeOK
    <3>2. \A f \in Events : f < e => f \notin Pending
      BY <2>1, <3>1
    <3>3. QED
      BY <1>0, <3>2 DEF Pending, Entry, Statuses
  <2>4. QED
    BY <2>1, <2>2, <2>3 DEF IInv, InHand, Spent, TypeOK, Events
<1>3. ASSUME NEW p \in Processor, Deliver(p) PROVE Spent' /\ InHand'
  <2>1. PICK taken, failure \in BOOLEAN :
          /\ taken \/ failure
          /\ accepted' = IF taken THEN accepted \cup {call[p].event} ELSE accepted
          /\ call' = [call EXCEPT ![p] = [step |-> "record", event |-> @.event, failure |-> failure]]
    BY <1>3 DEF Deliver
  <2>2. outbox' = outbox /\ call[p] # Idle
    BY <1>3 DEF Deliver, Idle
  <2>3. ASSUME NEW q \in Processor, call'[q] # Idle
        PROVE  /\ \A f \in Events : f < call'[q].event => outbox[f].status \in {"delivered", "dead-letter"}
               /\ call'[q].step = "record" /\ ~call'[q].failure => call'[q].event \in accepted'
    <3>1. CASE q = p
      <4>1. call'[q] = [step |-> "record", event |-> call[p].event, failure |-> failure]
        BY <2>1, <3>1 DEF IInv, TypeOK
      <4>2. QED
        BY <2>1, <2>2, <4>1 DEF IInv, InHand
    <3>2. CASE q # p
      BY <2>1, <2>3, <3>2 DEF IInv, InHand, TypeOK
    <3>3. QED
      BY <3>1, <3>2
  <2>4. QED
    BY <2>2, <2>3 DEF IInv, InHand, Spent, Events
<1>4. ASSUME NEW p \in Processor, Record(p) PROVE Spent' /\ InHand'
  <2>1. /\ call[p].event \in Events /\ call[p].failure \in BOOLEAN /\ Events' = Events
        /\ outbox'[call[p].event] = Answered(outbox[call[p].event], call[p].failure)
        /\ \A e \in Events : e # call[p].event => outbox'[e] = outbox[e]
    BY <1>4, RecordStep DEF IInv
  <2>2. call' = [call EXCEPT ![p] = Idle] /\ accepted' = accepted
    BY <1>4 DEF Record
  <2>3. /\ outbox[call[p].event].status \in {"delivered", "dead-letter"} =>
             outbox'[call[p].event].status \in {"delivered", "dead-letter"}
        /\ outbox'[call[p].event].status = "dead-letter" =>
             outbox'[call[p].event].attempts >= MaximumAttempts
    BY <1>0, <2>1, AnsweredStaysSettled DEF IInv, Spent
  <2>4. \A e \in Events : outbox[e].status \in {"delivered", "dead-letter"} =>
                            outbox'[e].status \in {"delivered", "dead-letter"}
    BY <2>1, <2>3
  <2>5. Spent'
    BY <2>1, <2>3 DEF IInv, Spent
  <2>6. InHand'
    <3>1. \A q \in Processor : call'[q] # Idle => call'[q] = call[q]
      BY <2>2 DEF IInv, TypeOK
    <3>2. QED
      BY <3>1, <2>1, <2>2, <2>4 DEF IInv, InHand
  <2>7. QED
    BY <2>5, <2>6
<1>5. ASSUME NEW p \in Processor, Lose(p) PROVE Spent' /\ InHand'
  <2>1. UNCHANGED <<outbox, accepted>> /\ call' = [call EXCEPT ![p] = Idle]
    BY <1>5 DEF Lose
  <2>2. QED
    BY <2>1 DEF IInv, InHand, Spent, TypeOK, Events
<1>6. CASE UNCHANGED vars
  BY <1>6 DEF vars, IInv, InHand, Spent, Events
<1>7. QED
  BY <1>1, <1>2, <1>3, <1>4, <1>5, <1>6 DEF Next

Fates == [e \in Events |-> Fate(outbox[e].status)]

\* The mapped state is a sequence as long as the outbox.
LEMMA FatesType ==
  ASSUME TypeOK
  PROVE  /\ Fates \in Seq({"open", "abandoned", "delivered"})
         /\ Len(Fates) = Len(outbox) /\ Events = 1..Len(Fates)
         /\ \A e \in Events : Fates[e] = Fate(outbox[e].status)
<1>1. Events = 1..Len(outbox) /\ Len(outbox) \in Nat
  BY DEF TypeOK, Events
<1>2. Fates = [e \in 1..Len(outbox) |-> Fate(outbox[e].status)]
  BY <1>1 DEF Fates
<1>3. \A e \in 1..Len(outbox) : Fate(outbox[e].status) \in {"open", "abandoned", "delivered"}
  BY DEF Fate
<1>4. Fates \in Seq({"open", "abandoned", "delivered"}) /\ Len(Fates) = Len(outbox)
  BY <1>1, <1>2, <1>3
<1>5. QED
  BY <1>1, <1>2, <1>4

\* While a processor has an event in hand no earlier event is open.
LEMMA NothingOpenBefore ==
  ASSUME IInv, NEW p \in Processor, call[p] # Idle
  PROVE  ~Queue!OpenBefore(call[p].event)
<1>1. \A f \in Events : f < call[p].event => Fate(outbox[f].status) # "open"
  BY DEF IInv, InHand, Fate
<1>2. QED
  BY <1>1, FatesType DEF Queue!OpenBefore, Fates, IInv

LEMMA StepRefines == IInv /\ IInv' /\ [Next]_vars => [Queue!QNext]_(Queue!qvars)
<1> SUFFICES ASSUME IInv, IInv', [Next]_vars PROVE Queue!QNext \/ UNCHANGED <<Fates, accepted>>
  BY DEF Queue!qvars, Fates
<1> USE DEF Fates
<1>0. \A e \in Events : outbox[e] \in Entry
  BY DEF IInv, TypeOK, Events
<1>1. CASE Enqueue
  <2>1. outbox' = Append(outbox, [status |-> "pending", attempts |-> 0]) /\ accepted' = accepted
    BY <1>1 DEF Enqueue
  <2>2. outbox \in Seq(Entry) /\ outbox' \in Seq(Entry)
    BY DEF IInv, TypeOK
  <2>3. QED
    BY <2>1, <2>2 DEF Queue!QNext, Queue!Publish, Fate, Events
<1>2. ASSUME NEW p \in Processor, Pick(p) \/ Lose(p) PROVE UNCHANGED <<Fates, accepted>>
  BY <1>2 DEF Pick, Lose, Events
<1>3. ASSUME NEW p \in Processor, Deliver(p) PROVE Queue!QNext \/ UNCHANGED <<Fates, accepted>>
  <2>1. outbox' = outbox /\ accepted' \in {accepted, accepted \cup {call[p].event}} /\ call[p] # Idle
    BY <1>3 DEF Deliver, Idle
  <2>2. Fates' = Fates
    BY <2>1 DEF Events
  <2>3. call[p].event \in 1..Len(Fates)
    BY <2>1, FatesType DEF IInv, TypeOK
  <2>4. CASE accepted' = accepted \cup {call[p].event}
    BY <2>1, <2>2, <2>3, <2>4, NothingOpenBefore DEF Queue!QNext, Queue!Take
  <2>5. QED
    BY <2>1, <2>2, <2>4
<1>4. ASSUME NEW p \in Processor, Record(p) PROVE Queue!QNext \/ UNCHANGED <<Fates, accepted>>
  <2> DEFINE e == call[p].event  old == outbox[e].status  new == outbox'[e].status
  <2>1. /\ e \in Events /\ call[p].failure \in BOOLEAN /\ Events' = Events
        /\ outbox'[e] = Answered(outbox[e], call[p].failure)
        /\ \A f \in Events : f # e => outbox'[f] = outbox[f]
    BY <1>4, RecordStep DEF IInv
  <2>2. accepted' = accepted /\ call[p] # Idle /\ call[p].step = "record"
    BY <1>4 DEF Record, Idle
  <2>3. Fates' = [Fates EXCEPT ![e] = Fate(new)]
    BY <2>1
  <2>4. e \in 1..Len(Fates) /\ Fates[e] = Fate(old)
    BY <2>1, FatesType DEF IInv
  <2>5. CASE Fate(new) = Fate(old)
    BY <2>2, <2>3, <2>4, <2>5
  <2>6. CASE Fate(new) # Fate(old)
    <3>1. /\ old \in Statuses
          /\ old = "delivered" => new = old
          /\ new \in {"delivered", "dead-letter", "failed"}
          /\ new = "delivered" => old = "delivered" \/ ~call[p].failure
          /\ old \in {"delivered", "dead-letter"} => new \in {"delivered", "dead-letter"}
      <4>1. outbox[e] \in Entry /\ (outbox[e].status = "pending" <=> outbox[e].attempts = 0)
        BY <1>0, <2>1 DEF IInv, TypeOK
      <4>2. outbox[e].status = "dead-letter" => outbox[e].attempts >= MaximumAttempts
        BY <2>1 DEF IInv, Spent
      <4>3. QED
        BY <2>1, <4>1, <4>2, AnsweredType, AnsweredStaysSettled DEF Entry
    <3>2. old # "delivered" /\ Fates[e] # "delivered"
      BY <2>4, <2>6, <3>1 DEF Fate, Statuses
    <3>3. CASE new = "delivered"
      <4>1. e \in accepted
        BY <2>2, <3>1, <3>2, <3>3 DEF IInv, InHand
      <4>2. Queue!Settle(e, "delivered")
        BY <2>2, <2>3, <3>2, <3>3, <4>1, NothingOpenBefore DEF Queue!Settle, Fate
      <4>3. QED
        BY <2>4, <4>2 DEF Queue!QNext
    <3>4. CASE new = "dead-letter"
      <4>1. Fates[e] = "open"
        BY <2>4, <2>6, <3>1, <3>2, <3>4 DEF Fate, Statuses
      <4>2. Queue!Settle(e, "abandoned")
        BY <2>2, <2>3, <3>2, <3>4, <4>1, NothingOpenBefore DEF Queue!Settle, Fate
      <4>3. QED
        BY <2>4, <4>2 DEF Queue!QNext
    <3>5. QED
      BY <2>6, <3>1, <3>2, <3>3, <3>4 DEF Fate, Statuses
  <2>7. QED
    BY <2>5, <2>6
<1>5. CASE UNCHANGED vars
  BY <1>5 DEF vars, Events
<1>6. QED
  BY <1>1, <1>2, <1>3, <1>4, <1>5 DEF Next

\* Events are offered in order, one that is marked delivered was taken and stays
\* delivered: for any number of processors, attempts, events and lost answers.
THEOREM Refinement == Spec => ImplementsQueue
<1>1. Init => IInv
  BY OutboxAssumption DEF Init, IInv, TypeOK, Spent, InHand, Events, Calls, Idle
<1>2. Init => Queue!QInit
  BY DEF Init, Queue!QInit, Events, Fates
<1>3. QED
  BY <1>1, <1>2, Inductive, StepRefines, TypeCorrect, PTL DEF Spec, ImplementsQueue, Queue!QSpec
=============================================================================
