------------------------ MODULE ExecutionGateProofs ------------------------
(***************************************************************************)
(* What the execution gate guarantees for any calls, any number of slots   *)
(* and any queue limit, whatever order timers, aborts and tasks take.      *)
(***************************************************************************)
EXTENDS ExecutionGate, FiniteSetTheorems, TLAPS

----------------------------------------------------------------------------
(* Lemmas about the queue and about counting *)

LEMMA RemoveAtFacts ==
  ASSUME NEW S, NEW s \in Seq(S), NEW i \in DOMAIN s
  PROVE  /\ RemoveAt(s, i) \in Seq(S)
         /\ Len(RemoveAt(s, i)) = Len(s) - 1
         /\ \A k \in 1..(Len(s) - 1) : RemoveAt(s, i)[k] = IF k < i THEN s[k] ELSE s[k + 1]
<1> DEFINE a == SubSeq(s, 1, i - 1)
           b == SubSeq(s, i + 1, Len(s))
<1>1. i \in 1..Len(s) /\ Len(s) \in Nat
  OBVIOUS
<1>2. a \in Seq(S) /\ Len(a) = i - 1 /\ \A k \in 1..(i - 1) : a[k] = s[k]
  BY <1>1
<1>3. b \in Seq(S) /\ Len(b) = Len(s) - i /\ \A k \in 1..(Len(s) - i) : b[k] = s[k + i]
  BY <1>1
<1>4. RemoveAt(s, i) = a \o b
  BY DEF RemoveAt
<1> HIDE DEF a, b
<1>5. a \o b \in Seq(S) /\ Len(a \o b) = Len(s) - 1
  BY <1>1, <1>2, <1>3
<1>6. ASSUME NEW k \in 1..(Len(s) - 1)
      PROVE  (a \o b)[k] = IF k < i THEN s[k] ELSE s[k + 1]
  <2>1. (a \o b)[k] = IF k <= Len(a) THEN a[k] ELSE b[k - Len(a)]
    <3>1. a \in Seq(S) /\ b \in Seq(S) /\ k \in 1..(Len(a) + Len(b))
      BY <1>1, <1>2, <1>3
    <3>2. QED
      BY ONLY <3>1
  <2>2. CASE k < i
    <3>1. k \in 1..(i - 1)
      BY <1>1, <2>2
    <3>2. QED
      BY <1>2, <2>1, <2>2, <3>1
  <2>3. CASE k >= i
    <3>1. k - (i - 1) \in 1..(Len(s) - i) /\ k > i - 1 /\ k - (i - 1) + i = k + 1
      BY <1>1, <2>3
    <3>2. b[k - (i - 1)] = s[k + 1]
      BY <1>3, <3>1
    <3>3. QED
      BY <1>1, <1>2, <2>1, <2>3, <3>1, <3>2
  <2>4. k < i \/ k >= i
    BY <1>1
  <2>5. QED
    BY <2>2, <2>3, <2>4
<1>7. QED
  BY <1>4, <1>5, <1>6

LEMMA SubSeqFacts ==
  ASSUME NEW S, NEW s \in Seq(S), NEW n \in 0..Len(s)
  PROVE  /\ SubSeq(s, n + 1, Len(s)) \in Seq(S)
         /\ Len(SubSeq(s, n + 1, Len(s))) = Len(s) - n
         /\ \A k \in 1..(Len(s) - n) : SubSeq(s, n + 1, Len(s))[k] = s[k + n]
OBVIOUS

LEMMA CardinalityGrows ==
  ASSUME NEW S \in SUBSET Call, NEW c \in Call \ S
  PROVE  Cardinality(S \cup {c}) = Cardinality(S) + 1 /\ Cardinality(S) \in Nat
BY GateAssumption, FS_Subset, FS_AddElement, FS_CardinalityType

LEMMA CardinalityAdds ==
  ASSUME NEW S \in SUBSET Call, NEW T \in SUBSET Call, S \cap T = {}
  PROVE  Cardinality(S \cup T) = Cardinality(S) + Cardinality(T)
<1>1. IsFiniteSet(S) /\ IsFiniteSet(T)
  BY GateAssumption, FS_Subset
<1>2. Cardinality(S \cup T) = Cardinality(S) + Cardinality(T) - Cardinality(S \cap T)
  BY <1>1, FS_Union
<1>3. Cardinality(S) \in Nat /\ Cardinality(T) \in Nat /\ Cardinality(S \cap T) = 0
  BY <1>1, FS_EmptySet, FS_CardinalityType
<1>4. QED
  BY <1>2, <1>3

----------------------------------------------------------------------------

(***************************************************************************)
(* The queue holds each waiting call once, and a call that was not started *)
(* has no answer yet.  Together with the counter of slots and the counts   *)
(* of outcomes this is inductive: #drain frees a slot that is held, starts *)
(* calls that hold none, and answers calls that have no answer.            *)
(***************************************************************************)
QueueOK ==
    /\ \A i \in 1..Len(queue) : pc[queue[i]] = "queued"
    /\ \A i, j \in 1..Len(queue) : queue[i] = queue[j] => i = j
    /\ \A c \in Call : pc[c] = "queued" => \E i \in 1..Len(queue) : queue[i] = c
    /\ \A c \in Call : pc[c] \in {"new", "queued"} => outcome[c] = "pending"

GateInv == TypeOK /\ QueueOK /\ SlotsAccounted /\ WorkConserving /\ CountedOnce

\* Entries of the queue that #drain answers without starting them.
Late(n) == {queue[i] : i \in 1..n} \ Fresh(n)

LEMMA FreshFacts ==
  ASSUME TypeOK, NEW n \in 0..Len(queue)
  PROVE  /\ Fresh(n) \subseteq {queue[i] : i \in 1..n} /\ Fresh(n) \in SUBSET Call
         /\ Late(n) \in SUBSET Call
         /\ Cardinality(Fresh(n)) \in Nat /\ Cardinality(Late(n)) \in Nat
         /\ n = 0 => Fresh(n) = {}
         /\ n > 0 => /\ Cardinality(Fresh(n - 1)) \in Nat
                     /\ Cardinality(Fresh(n)) <= Cardinality(Fresh(n - 1)) + 1
<1>1. \A m \in 0..n : \A i \in 1..m : queue[i] \in Call
  BY DEF TypeOK
<1>2. \A m \in 0..n : Fresh(m) \subseteq {queue[i] : i \in 1..m} /\ Fresh(m) \in SUBSET Call
  BY <1>1 DEF Fresh
<1>3. Late(n) \in SUBSET Call
  BY <1>1 DEF Late
<1>4. \A S \in SUBSET Call : IsFiniteSet(S) /\ Cardinality(S) \in Nat
  BY GateAssumption, FS_Subset, FS_CardinalityType
<1>5. n = 0 => Fresh(n) = {}
  BY <1>2
<1>6. ASSUME n > 0
      PROVE  /\ Cardinality(Fresh(n - 1)) \in Nat
             /\ Cardinality(Fresh(n)) <= Cardinality(Fresh(n - 1)) + 1
  <2>1. n - 1 \in 0..n /\ n \in 1..n
    BY <1>6
  <2>2. Fresh(n - 1) \in SUBSET Call
    BY <1>2, <2>1
  <2>3. Fresh(n) \subseteq Fresh(n - 1) \cup {queue[n]}
    BY <1>6 DEF Fresh
  <2>4. /\ IsFiniteSet(Fresh(n - 1) \cup {queue[n]})
        /\ Cardinality(Fresh(n - 1) \cup {queue[n]}) <= Cardinality(Fresh(n - 1)) + 1
    <3>1. IsFiniteSet(Fresh(n - 1)) /\ Cardinality(Fresh(n - 1)) \in Nat
      BY <1>4, <2>2
    <3>2. /\ IsFiniteSet(Fresh(n - 1) \cup {queue[n]})
          /\ Cardinality(Fresh(n - 1) \cup {queue[n]})
               = IF queue[n] \in Fresh(n - 1) THEN Cardinality(Fresh(n - 1))
                                              ELSE Cardinality(Fresh(n - 1)) + 1
      BY <3>1, FS_AddElement
    <3>3. QED
      BY <3>1, <3>2
  <2>5. /\ Cardinality(Fresh(n)) <= Cardinality(Fresh(n - 1) \cup {queue[n]})
        /\ Cardinality(Fresh(n - 1) \cup {queue[n]}) \in Nat
    BY <2>3, <2>4, FS_Subset, FS_CardinalityType
  <2>6. Cardinality(Fresh(n)) \in Nat /\ Cardinality(Fresh(n - 1)) \in Nat
    BY <1>2, <1>4, <2>2
  <2>7. QED
    BY <2>4, <2>5, <2>6
<1>7. QED
  BY <1>2, <1>3, <1>4, <1>5, <1>6

\* What the finally clause of a slot does when it shifts n entries of the queue.
Serve(c, n) ==
    /\ pc[c] = "settled" /\ late' = late
    /\ queue' = SubSeq(queue, n + 1, Len(queue))
    /\ active \in Nat \ {0}
    /\ active' = active - 1 + Cardinality(Fresh(n))
    /\ active' <= MaximumConcurrent
    /\ n = Len(queue) \/ active' = MaximumConcurrent
    /\ pc' = [d \in Call |-> CASE d = c -> "done"
                               [] d \in Fresh(n) -> "admitted"
                               [] d \in Late(n) -> "done"
                               [] OTHER -> pc[d]]
    /\ outcome' = [d \in Call |-> IF d \in Late(n) THEN "timedOut" ELSE outcome[d]]
    /\ totals' = [totals EXCEPT !["timedOut"] = @ + Cardinality(Late(n))]

LEMMA FreeSlotFacts ==
  ASSUME GateInv, NEW c \in Call, FreeSlot(c)
  PROVE  \E n \in 0..Len(queue) : Serve(c, n)
<1>1. PICK n \in 0..Len(queue) :
            /\ Drained(MaximumConcurrent - (active - 1), n)
            /\ queue' = SubSeq(queue, n + 1, Len(queue))
            /\ active' = active - 1 + Cardinality(Fresh(n))
            /\ pc' = [d \in Call |-> CASE d = c -> "done"
                                       [] d \in Fresh(n) -> "admitted"
                                       [] d \in Late(n) -> "done"
                                       [] OTHER -> pc[d]]
            /\ outcome' = [d \in Call |-> IF d \in Late(n) THEN "timedOut" ELSE outcome[d]]
            /\ totals' = [totals EXCEPT !["timedOut"] = @ + Cardinality(Late(n))]
  BY DEF FreeSlot, Late
<1>2. active \in Nat \ {0}
  <2>1. c \in Slots /\ Slots # {} /\ Slots \in SUBSET Call
    BY DEF FreeSlot, Slots, SlotSteps
  <2>2. IsFiniteSet(Slots)
    BY <2>1, GateAssumption, FS_Subset
  <2>3. Cardinality(Slots) \in Nat
    BY <2>2, FS_CardinalityType
  <2>4. Cardinality(Slots) # 0
    BY <2>1, <2>2, FS_EmptySet
  <2>5. QED
    BY <2>3, <2>4 DEF GateInv, SlotsAccounted
<1>3. active' <= MaximumConcurrent /\ (n = Len(queue) \/ active' = MaximumConcurrent)
  <2> DEFINE free == MaximumConcurrent - (active - 1)
  <2>1. free \in Nat \ {0}
    BY <1>2, GateAssumption DEF GateInv, SlotsAccounted
  <2>2. /\ Cardinality(Fresh(n)) \in Nat
        /\ n = 0 => Cardinality(Fresh(n)) = 0
        /\ n > 0 => /\ Cardinality(Fresh(n - 1)) \in Nat
                    /\ Cardinality(Fresh(n)) <= Cardinality(Fresh(n - 1)) + 1
    BY FreshFacts, FS_EmptySet DEF GateInv
  <2>3. n > 0 => Cardinality(Fresh(n - 1)) < free
    BY <1>1 DEF Drained
  <2>4. Cardinality(Fresh(n)) <= free
    BY <2>1, <2>2, <2>3
  <2>5. n = Len(queue) \/ Cardinality(Fresh(n)) = free
    BY <1>1 DEF Drained
  <2>6. active' = active - 1 + Cardinality(Fresh(n)) /\ MaximumConcurrent \in Nat
    BY <1>1, GateAssumption
  <2>7. QED
    BY <1>2, <2>2, <2>4, <2>5, <2>6
<1>4. QED
  BY <1>1, <1>2, <1>3 DEF FreeSlot, Serve

----------------------------------------------------------------------------

LEMMA AnswerTypes ==
  ASSUME TypeOK, NEW c \in Call, NEW how \in Counted, Answer(c, how)
  PROVE  outcome' \in [Call -> Outcomes] /\ totals' \in [Counted -> Nat]
<1>1. outcome' \in [Call -> Outcomes]
  BY DEF TypeOK, Answer, Outcomes
<1>2. totals' \in [Counted -> Nat]
  <2>1. totals[how] + 1 \in Nat
    BY DEF TypeOK
  <2>2. totals' = [totals EXCEPT ![how] = totals[how] + 1] /\ totals \in [Counted -> Nat]
    BY DEF TypeOK, Answer
  <2>3. QED
    BY ONLY <2>1, <2>2
<1>3. QED
  BY <1>1, <1>2

LEMMA GotoTypes ==
  ASSUME TypeOK, NEW c \in Call, NEW step \in Steps, Goto(c, step)
  PROVE  pc' \in [Call -> Steps]
BY DEF TypeOK, Goto

LEMMA TypeStep == GateInv /\ [Next]_vars => TypeOK'
<1> SUFFICES ASSUME GateInv, [Next]_vars PROVE TypeOK'
  OBVIOUS
<1>1. TypeOK
  BY DEF GateInv
<1> USE <1>1 DEF TypeOK
<1>2. CASE UNCHANGED vars
  BY <1>2 DEF vars, gate
<1>3. CASE Next
  <2>1. ahead' \in SUBSET (Call \X Call)
    BY <1>3 DEF Next, RecordOrder
  <2>2. PICK c \in Call :
          \/ Refuse(c) \/ Reject(c) \/ Start(c) \/ Enqueue(c) \/ Abort(c) \/ Clockwork(c)
          \/ \E how \in {"completed", "failed"} : TaskSettles(c, how)
    BY <1>3 DEF Next, Turn
  <2>3. CASE Refuse(c)
    <3>1. pc' \in [Call -> Steps]
      BY <2>3, GotoTypes DEF Refuse, Steps
    <3>2. outcome' \in [Call -> Outcomes]
      BY <2>3 DEF Refuse, Outcomes
    <3>3. QED
      BY <2>1, <2>3, <3>1, <3>2 DEF Refuse
  <2>4. CASE Reject(c)
    <3>1. pc' \in [Call -> Steps]
      BY <2>4, GotoTypes DEF Reject, Steps
    <3>2. outcome' \in [Call -> Outcomes] /\ totals' \in [Counted -> Nat]
      BY <2>4, AnswerTypes DEF Reject, Counted
    <3>3. QED
      BY <2>1, <2>4, <3>1, <3>2 DEF Reject
  <2>5. CASE Start(c)
    <3>1. pc' \in [Call -> Steps]
      BY <2>5, GotoTypes DEF Start, Steps, SlotSteps
    <3>2. QED
      BY <2>1, <2>5, <3>1 DEF Start
  <2>6. CASE Enqueue(c)
    <3>1. pc' \in [Call -> Steps]
      BY <2>6, GotoTypes DEF Enqueue, Steps
    <3>2. queue' \in Seq(Call)
      BY <2>6 DEF Enqueue
    <3>3. QED
      BY <2>1, <2>6, <3>1, <3>2 DEF Enqueue
  <2>7. CASE Expire(c)
    BY <2>1, <2>7 DEF Expire
  <2>8. CASE InvokeTask(c)
    <3>1. pc' \in [Call -> Steps]
      BY <2>8, GotoTypes DEF InvokeTask, Steps, SlotSteps
    <3>2. QED
      BY <2>1, <2>8, <3>1 DEF InvokeTask
  <2>10. CASE RunTimeout(c)
    <3>1. outcome' \in [Call -> Outcomes] /\ totals' \in [Counted -> Nat]
      BY <2>10, AnswerTypes DEF RunTimeout, Counted
    <3>2. QED
      BY <2>1, <2>10, <3>1 DEF RunTimeout
  <2>11. ASSUME NEW how \in {"completed", "failed"}, TaskSettles(c, how) PROVE TypeOK'
    <3>1. pc' \in [Call -> Steps]
      BY <2>11, GotoTypes DEF TaskSettles, Steps, SlotSteps
    <3>2. outcome' \in [Call -> Outcomes] /\ totals' \in [Counted -> Nat]
      <4>1. CASE Answer(c, how)
        BY <4>1, AnswerTypes DEF Counted
      <4>2. CASE UNCHANGED <<outcome, totals>>
        BY <4>2
      <4>3. QED
        BY <2>11, <4>1, <4>2 DEF TaskSettles
    <3>3. QED
      BY <2>1, <2>11, <3>1, <3>2 DEF TaskSettles
  <2>12. ASSUME NEW how \in Counted, LeaveQueue(c, how), late' = late PROVE TypeOK'
    <3>1. queue' \in Seq(Call)
      BY <2>12, RemoveAtFacts DEF LeaveQueue
    <3>2. pc' \in [Call -> Steps]
      BY <2>12, GotoTypes DEF LeaveQueue, Steps
    <3>3. outcome' \in [Call -> Outcomes] /\ totals' \in [Counted -> Nat]
      BY <2>12, AnswerTypes DEF LeaveQueue
    <3>4. QED
      BY <2>1, <2>12, <3>1, <3>2, <3>3 DEF LeaveQueue
  <2>13. CASE Abort(c)
    <3>1. "cancelled" \in Counted /\ late' = late
      BY <2>13 DEF Abort, Counted
    <3>2. CASE LeaveQueue(c, "cancelled")
      BY <2>12, <3>1, <3>2
    <3>3. CASE Answer(c, "cancelled") /\ UNCHANGED <<pc, queue, active>>
      <4>1. outcome' \in [Call -> Outcomes] /\ totals' \in [Counted -> Nat]
        BY <3>1, <3>3, AnswerTypes
      <4>2. QED
        BY <2>1, <3>1, <3>3, <4>1
    <3>4. QED
      BY <2>13, <3>2, <3>3 DEF Abort
  <2>14. CASE QueueTimeout(c)
    <3>1. "timedOut" \in Counted /\ LeaveQueue(c, "timedOut") /\ late' = late
      BY <2>14 DEF QueueTimeout, Counted
    <3>2. QED
      BY <2>12, <3>1
  <2>9. CASE FreeSlot(c)
    <3>0. PICK n \in 0..Len(queue) : Serve(c, n)
      BY <2>9, FreeSlotFacts
    <3>1. /\ late' = late
          /\ queue' = SubSeq(queue, n + 1, Len(queue))
          /\ active \in Nat \ {0}
          /\ active' = active - 1 + Cardinality(Fresh(n))
          /\ pc' = [d \in Call |-> CASE d = c -> "done"
                                     [] d \in Fresh(n) -> "admitted"
                                     [] d \in Late(n) -> "done"
                                     [] OTHER -> pc[d]]
          /\ outcome' = [d \in Call |-> IF d \in Late(n) THEN "timedOut" ELSE outcome[d]]
          /\ totals' = [totals EXCEPT !["timedOut"] = @ + Cardinality(Late(n))]
      BY <3>0 DEF Serve
    <3>2. Cardinality(Fresh(n)) \in Nat /\ Cardinality(Late(n)) \in Nat
      BY FreshFacts
    <3>3. queue' \in Seq(Call)
      BY <3>1, SubSeqFacts
    <3>4. pc' \in [Call -> Steps]
      <4>1. pc \in [Call -> Steps] /\ "done" \in Steps /\ "admitted" \in Steps
        BY DEF Steps, SlotSteps
      <4>2. pc' = [d \in Call |-> CASE d = c -> "done"
                                    [] d \in Fresh(n) -> "admitted"
                                    [] d \in Late(n) -> "done"
                                    [] OTHER -> pc[d]]
        BY <3>1
      <4>3. QED
        BY ONLY <4>1, <4>2
    <3>5. outcome' \in [Call -> Outcomes]
      BY <3>1 DEF Outcomes, Counted
    <3>6. totals' \in [Counted -> Nat]
      <4>1. totals["timedOut"] + Cardinality(Late(n)) \in Nat
        BY <3>2 DEF Counted
      <4>2. totals' = [totals EXCEPT !["timedOut"] = totals["timedOut"] + Cardinality(Late(n))]
        BY <3>1
      <4>3. QED
        BY <4>1, <4>2
    <3>7. active' \in Nat
      <4>1. active \in Nat \ {0} /\ active' = active - 1 + Cardinality(Fresh(n))
        BY <3>1
      <4>2. QED
        BY ONLY <3>2, <4>1
    <3>8. QED
      BY <2>1, <3>1, <3>3, <3>4, <3>5, <3>6, <3>7
  <2> HIDE DEF TypeOK
  <2>15. QED
    BY <2>2, <2>3, <2>4, <2>5, <2>6, <2>7, <2>8, <2>9, <2>10, <2>11, <2>13, <2>14 DEF Clockwork
<1>4. QED
  BY <1>2, <1>3

LEMMA QueueStep == GateInv /\ [Next]_vars => QueueOK'
<1> SUFFICES ASSUME GateInv, [Next]_vars PROVE QueueOK'
  OBVIOUS
<1>1. TypeOK /\ QueueOK
  BY DEF GateInv
<1> USE <1>1 DEF TypeOK, QueueOK, SlotSteps, Goto, Answer
<1>2. CASE UNCHANGED vars
  BY <1>2 DEF vars, gate
<1>3. ASSUME NEW c \in Call, Refuse(c) \/ Reject(c) \/ Start(c) PROVE QueueOK'
  <2>1. /\ pc[c] = "new" /\ queue' = queue
        /\ \E step \in {"done", "admitted"} : pc' = [pc EXCEPT ![c] = step]
        /\ \A d \in Call \ {c} : outcome'[d] = outcome[d]
    BY <1>3 DEF Refuse, Reject, Start
  <2>2. \A d \in Call : IF d = c THEN pc'[d] \in {"done", "admitted"} ELSE pc'[d] = pc[d]
    BY <2>1
  <2>3. \A i \in 1..Len(queue) : queue[i] \in Call /\ queue[i] # c
    BY <2>1
  <2>4. (\A i \in 1..Len(queue) : pc[queue[i]] = "queued")'
    BY <2>1, <2>2, <2>3
  <2>5. (\A d \in Call : pc[d] = "queued" => \E i \in 1..Len(queue) : queue[i] = d)'
    BY <2>1, <2>2
  <2>6. (\A d \in Call : pc[d] \in {"new", "queued"} => outcome[d] = "pending")'
    BY <2>1, <2>2
  <2>7. (\A i, j \in 1..Len(queue) : queue[i] = queue[j] => i = j)'
    BY <2>1
  <2>8. QED
    BY <2>4, <2>5, <2>6, <2>7
<1>4. ASSUME NEW c \in Call, Enqueue(c) PROVE QueueOK'
  <2>1. /\ queue' \in Seq(Call) /\ Len(queue') = Len(queue) + 1 /\ Len(queue) \in Nat
        /\ queue'[Len(queue) + 1] = c /\ \A i \in 1..Len(queue) : queue'[i] = queue[i]
    BY <1>4 DEF Enqueue
  <2>2. \A i \in 1..Len(queue) : queue[i] # c
    BY <1>4 DEF Enqueue
  <2>3. (\A i \in 1..Len(queue) : pc[queue[i]] = "queued")'
    BY <1>4, <2>1 DEF Enqueue
  <2>4. (\A i, j \in 1..Len(queue) : queue[i] = queue[j] => i = j)'
    <3>1. \A i, j \in 1..Len(queue) : queue[i] = queue[j] => i = j
      OBVIOUS
    <3>2. \A i \in 1..Len(queue') : i \in 1..Len(queue) \/ i = Len(queue) + 1
      BY ONLY <2>1
    <3>3. QED
      BY ONLY <2>1, <2>2, <3>1, <3>2
  <2>5. (\A d \in Call : pc[d] = "queued" => \E i \in 1..Len(queue) : queue[i] = d)'
    BY <1>4, <2>1 DEF Enqueue
  <2>6. (\A d \in Call : pc[d] \in {"new", "queued"} => outcome[d] = "pending")'
    BY <1>4 DEF Enqueue
  <2>7. QED
    BY <2>3, <2>4, <2>5, <2>6
<1>5. ASSUME NEW c \in Call, Expire(c) \/ RunTimeout(c) \/ InvokeTask(c) PROVE QueueOK'
  BY <1>5 DEF Expire, RunTimeout, InvokeTask
<1>6. ASSUME NEW c \in Call, NEW how \in {"completed", "failed"}, TaskSettles(c, how) PROVE QueueOK'
  BY <1>6 DEF TaskSettles
<1>7. ASSUME NEW c \in Call, NEW how, LeaveQueue(c, how) PROVE QueueOK'
  <2>1. PICK k \in DOMAIN queue : queue[k] = c /\ queue' = RemoveAt(queue, k)
    BY <1>7 DEF LeaveQueue
  <2>2. k \in 1..Len(queue) /\ Len(queue) \in Nat
    OBVIOUS
  <2>3. /\ Len(queue') = Len(queue) - 1
        /\ \A i \in 1..Len(queue') : queue'[i] = IF i < k THEN queue[i] ELSE queue[i + 1]
    <3>1. queue \in Seq(Call)
      OBVIOUS
    <3>2. /\ Len(RemoveAt(queue, k)) = Len(queue) - 1
          /\ \A i \in 1..(Len(queue) - 1) :
                RemoveAt(queue, k)[i] = IF i < k THEN queue[i] ELSE queue[i + 1]
      BY ONLY <3>1, RemoveAtFacts, k \in DOMAIN queue
    <3>3. QED
      BY <2>1, <3>2
  <2>4. pc' = [pc EXCEPT ![c] = "done"] /\ \A d \in Call \ {c} : outcome'[d] = outcome[d]
    BY <1>7 DEF LeaveQueue
  <2>5. \A i \in 1..Len(queue') : \E j \in 1..Len(queue) :
           queue'[i] = queue[j] /\ j # k /\ (i < k => j = i) /\ (i >= k => j = i + 1)
    <3>1. ASSUME NEW i \in 1..Len(queue')
          PROVE  \E j \in 1..Len(queue) :
                    queue'[i] = queue[j] /\ j # k /\ (i < k => j = i) /\ (i >= k => j = i + 1)
      <4>1. CASE i < k
        <5>1. i \in 1..Len(queue) /\ i # k /\ queue'[i] = queue[i] /\ ~(i >= k)
          BY ONLY <2>2, <2>3, <4>1, i \in 1..Len(queue')
        <5>2. QED
          BY ONLY <5>1
      <4>2. CASE ~(i < k)
        <5>1. i + 1 \in 1..Len(queue) /\ i + 1 # k /\ queue'[i] = queue[i + 1]
          BY ONLY <2>2, <2>3, <4>2, i \in 1..Len(queue')
        <5>2. QED
          BY ONLY <4>2, <5>1
      <4>3. QED
        BY ONLY <4>1, <4>2
    <3>2. QED
      BY ONLY <3>1
  <2>6. (\A i \in 1..Len(queue) : pc[queue[i]] = "queued")'
    <3>1. ASSUME NEW i \in 1..Len(queue') PROVE pc'[queue'[i]] = "queued"
      <4>1. PICK j \in 1..Len(queue) : queue'[i] = queue[j] /\ j # k
        BY <2>5
      <4>2. queue[j] # c
        BY <2>1, <2>2, <4>1
      <4>3. QED
        BY <2>4, <4>1, <4>2
    <3>2. QED
      BY <3>1
  <2>7. (\A i, j \in 1..Len(queue) : queue[i] = queue[j] => i = j)'
    <3>1. ASSUME NEW i \in 1..Len(queue'), NEW j \in 1..Len(queue'), queue'[i] = queue'[j]
          PROVE  i = j
      <4>1. PICK i2 \in 1..Len(queue) :
                queue'[i] = queue[i2] /\ i2 # k /\ (i < k => i2 = i) /\ (i >= k => i2 = i + 1)
        BY <2>5
      <4>2. PICK j2 \in 1..Len(queue) :
                queue'[j] = queue[j2] /\ j2 # k /\ (j < k => j2 = j) /\ (j >= k => j2 = j + 1)
        BY <2>5
      <4>3. i2 = j2
        <5>1. queue[i2] = queue[j2]
          BY <3>1, <4>1, <4>2
        <5>2. QED
          BY <5>1
      <4>4. QED
        BY <2>2, <2>3, <4>1, <4>2, <4>3
    <3>2. QED
      BY <3>1
  <2>8. (\A d \in Call : pc[d] = "queued" => \E i \in 1..Len(queue) : queue[i] = d)'
    <3>1. ASSUME NEW d \in Call, pc'[d] = "queued"
          PROVE  \E i \in 1..Len(queue') : queue'[i] = d
      <4>1. d # c /\ pc[d] = "queued"
        BY <2>4, <3>1
      <4>2. PICK j \in 1..Len(queue) : queue[j] = d
        BY <4>1
      <4>3. j # k
        BY <2>1, <4>1, <4>2
      <4>4. CASE j < k
        <5>1. j \in 1..Len(queue') /\ queue'[j] = d
          BY <2>2, <2>3, <4>2, <4>4
        <5>2. QED
          BY <5>1
      <4>5. CASE j > k
        <5>1. j - 1 \in 1..Len(queue') /\ queue'[j - 1] = d
          BY <2>2, <2>3, <4>2, <4>5
        <5>2. QED
          BY <5>1
      <4>6. j < k \/ j > k
        BY ONLY <2>2, <4>3, j \in 1..Len(queue)
      <4>7. QED
        BY <4>4, <4>5, <4>6
    <3>2. QED
      BY <3>1
  <2>9. (\A d \in Call : pc[d] \in {"new", "queued"} => outcome[d] = "pending")'
    BY <2>4
  <2>10. QED
    BY <2>6, <2>7, <2>8, <2>9
<1>8. ASSUME NEW c \in Call, Abort(c) PROVE QueueOK'
  <2>1. CASE LeaveQueue(c, "cancelled")
    BY <1>7, <2>1
  <2>2. CASE ~LeaveQueue(c, "cancelled")
    BY <1>8, <2>2 DEF Abort
  <2>3. QED
    BY <2>1, <2>2
<1>9. ASSUME NEW c \in Call, QueueTimeout(c) PROVE QueueOK'
  BY <1>7, <1>9 DEF QueueTimeout
<1>10. ASSUME NEW c \in Call, FreeSlot(c) PROVE QueueOK'
  <2>0. PICK n \in 0..Len(queue) : Serve(c, n)
    BY <1>10, FreeSlotFacts
  <2>1. /\ pc[c] = "settled"
        /\ queue' = SubSeq(queue, n + 1, Len(queue))
        /\ pc' = [d \in Call |-> CASE d = c -> "done"
                                   [] d \in Fresh(n) -> "admitted"
                                   [] d \in Late(n) -> "done"
                                   [] OTHER -> pc[d]]
        /\ outcome' = [d \in Call |-> IF d \in Late(n) THEN "timedOut" ELSE outcome[d]]
    BY <2>0 DEF Serve
  <2>2. /\ Len(queue') = Len(queue) - n /\ Len(queue) \in Nat
        /\ \A i \in 1..Len(queue') : queue'[i] = queue[i + n]
    BY <2>1, SubSeqFacts
  <2>3. \A d : d \in Fresh(n) \/ d \in Late(n) <=> \E i \in 1..n : queue[i] = d
    <3>1. Fresh(n) \subseteq {queue[i] : i \in 1..n}
      BY FreshFacts
    <3>2. QED
      BY ONLY <3>1 DEF Late
  <2>4. \A i \in 1..Len(queue') : i + n \in 1..Len(queue) /\ \A j \in 1..n : i + n # j
    BY <2>2
  <2>5. (\A i \in 1..Len(queue) : pc[queue[i]] = "queued")'
    <3>1. ASSUME NEW i \in 1..Len(queue') PROVE pc'[queue'[i]] = "queued"
      <4>1. i + n \in 1..Len(queue) /\ queue'[i] = queue[i + n] /\ \A j \in 1..n : i + n # j
        BY <2>2, <2>4
      <4>2. queue'[i] \in Call /\ pc[queue'[i]] = "queued"
        BY <4>1
      <4>3. ~(queue'[i] \in Fresh(n)) /\ ~(queue'[i] \in Late(n))
        <5>1. \A j \in 1..n : j \in 1..Len(queue)
          OBVIOUS
        <5>2. QED
          BY <2>3, <4>1, <5>1
      <4>4. QED
        BY <2>1, <4>2, <4>3
    <3>2. QED
      BY <3>1
  <2>6. (\A i, j \in 1..Len(queue) : queue[i] = queue[j] => i = j)'
    <3>1. ASSUME NEW i \in 1..Len(queue'), NEW j \in 1..Len(queue'), queue'[i] = queue'[j]
          PROVE  i = j
      <4>1. i + n \in 1..Len(queue) /\ j + n \in 1..Len(queue) /\ queue[i + n] = queue[j + n]
        BY <2>2, <2>4, <3>1
      <4>2. i + n = j + n
        BY <4>1
      <4>3. QED
        BY <2>2, <4>2
    <3>2. QED
      BY <3>1
  <2>7. (\A d \in Call : pc[d] = "queued" => \E i \in 1..Len(queue) : queue[i] = d)'
    <3>1. ASSUME NEW d \in Call, pc'[d] = "queued"
          PROVE  \E i \in 1..Len(queue') : queue'[i] = d
      <4>1. pc[d] = "queued" /\ ~(d \in Fresh(n)) /\ ~(d \in Late(n))
        BY <2>1, <3>1
      <4>2. PICK j \in 1..Len(queue) : queue[j] = d
        BY <4>1
      <4>3. j > n
        BY <2>3, <4>1, <4>2
      <4>4. j - n \in 1..Len(queue') /\ queue'[j - n] = d
        BY <2>2, <4>2, <4>3
      <4>5. QED
        BY <4>4
    <3>2. QED
      BY <3>1
  <2>8. (\A d \in Call : pc[d] \in {"new", "queued"} => outcome[d] = "pending")'
    BY <2>1
  <2>9. QED
    BY <2>5, <2>6, <2>7, <2>8
<1>11. QED
  BY <1>2, <1>3, <1>4, <1>5, <1>6, <1>8, <1>9, <1>10 DEF Next, Turn, Clockwork

\* Entries that #drain takes were waiting, each for its first answer.
LEMMA TakenWaiting ==
  ASSUME TypeOK, QueueOK, NEW n \in 0..Len(queue), NEW d \in Fresh(n) \cup Late(n)
  PROVE  d \in Call /\ pc[d] = "queued" /\ outcome[d] = "pending"
<1>1. PICK i \in 1..n : queue[i] = d
  <2>1. Fresh(n) \subseteq {queue[i] : i \in 1..n}
    BY FreshFacts
  <2>2. QED
    BY <2>1 DEF Late
<1>2. i \in 1..Len(queue) /\ queue[i] \in Call
  BY DEF TypeOK
<1>3. QED
  BY <1>1, <1>2 DEF QueueOK

\* Steps that neither take nor free a slot, and do not lengthen the queue.
LEMMA KeepsSlots ==
  ASSUME GateInv, TypeOK', Slots' = Slots, active' = active, Len(queue') <= Len(queue)
  PROVE  SlotsAccounted'
<1>1. Len(queue) \in Nat /\ Len(queue') \in Nat
  BY DEF GateInv, TypeOK
<1>2. QED
  BY <1>1, GateAssumption DEF GateInv, SlotsAccounted

LEMMA LeaveQueueSteps ==
  ASSUME GateInv, NEW c \in Call, NEW how, LeaveQueue(c, how)
  PROVE  /\ Slots' = Slots /\ active' = active
         /\ Len(queue) \in Nat \ {0} /\ Len(queue') = Len(queue) - 1
         /\ outcome[c] = "pending"
<1>1. PICK k \in DOMAIN queue : queue' = RemoveAt(queue, k)
  BY DEF LeaveQueue
<1>2. queue \in Seq(Call)
  BY DEF GateInv, TypeOK
<1>3. Len(RemoveAt(queue, k)) = Len(queue) - 1
  BY ONLY <1>2, RemoveAtFacts, k \in DOMAIN queue
<1>4. Len(queue) \in Nat \ {0}
  BY <1>2
<1>5. Slots' = Slots
  BY DEF LeaveQueue, Slots, SlotSteps, Goto, GateInv, TypeOK
<1>6. QED
  BY <1>1, <1>3, <1>4, <1>5 DEF LeaveQueue, GateInv, QueueOK

LEMMA SlotsStep == GateInv /\ TypeOK' /\ [Next]_vars => SlotsAccounted'
<1> SUFFICES ASSUME GateInv, TypeOK', [Next]_vars PROVE SlotsAccounted'
  OBVIOUS
<1>1. TypeOK /\ QueueOK /\ SlotsAccounted /\ Len(queue) \in Nat
  BY DEF GateInv, TypeOK
<1>2. CASE UNCHANGED vars
  BY <1>2, <1>1 DEF vars, gate, SlotsAccounted, Slots
<1>3. ASSUME NEW c \in Call, Refuse(c) \/ Reject(c) \/ Expire(c) \/ RunTimeout(c) \/ InvokeTask(c)
      PROVE  SlotsAccounted'
  <2>1. active' = active /\ queue' = queue
    BY <1>3 DEF Refuse, Reject, Expire, RunTimeout, InvokeTask
  <2>2. Slots' = Slots
    BY <1>1, <1>3 DEF Refuse, Reject, Expire, RunTimeout, InvokeTask, Goto, Slots, SlotSteps, TypeOK
  <2>3. QED
    BY <1>1, <2>1, <2>2, KeepsSlots
<1>4. ASSUME NEW c \in Call, NEW how, TaskSettles(c, how) PROVE SlotsAccounted'
  <2>1. active' = active /\ queue' = queue
    BY <1>4 DEF TaskSettles
  <2>2. Slots' = Slots
    BY <1>1, <1>4 DEF TaskSettles, Goto, Slots, SlotSteps, TypeOK
  <2>3. QED
    BY <1>1, <2>1, <2>2, KeepsSlots
<1>5. ASSUME NEW c \in Call, NEW how, LeaveQueue(c, how) PROVE SlotsAccounted'
  <2>1. Len(queue') <= Len(queue) /\ Slots' = Slots /\ active' = active
    BY <1>5, LeaveQueueSteps
  <2>2. QED
    BY <2>1, KeepsSlots
<1>6. ASSUME NEW c \in Call, Abort(c) PROVE SlotsAccounted'
  <2>1. CASE LeaveQueue(c, "cancelled")
    BY <1>5, <2>1
  <2>2. CASE ~LeaveQueue(c, "cancelled")
    <3>1. pc' = pc /\ queue' = queue /\ active' = active
      BY <1>6, <2>2 DEF Abort
    <3>2. Slots' = Slots
      BY <3>1 DEF Slots
    <3>3. QED
      BY <1>1, <3>1, <3>2, KeepsSlots
  <2>3. QED
    BY <2>1, <2>2
<1>7. ASSUME NEW c \in Call, QueueTimeout(c) PROVE SlotsAccounted'
  BY <1>5, <1>7 DEF QueueTimeout
<1>8. ASSUME NEW c \in Call, Start(c) PROVE SlotsAccounted'
  <2>1. Slots \in SUBSET Call /\ c \in Call \ Slots
    BY <1>8 DEF Start, Slots, SlotSteps
  <2>2. Slots' = Slots \cup {c}
    BY <1>1, <1>8 DEF Start, Goto, Slots, SlotSteps, TypeOK
  <2>3. Cardinality(Slots') = Cardinality(Slots) + 1
    BY <2>1, <2>2, CardinalityGrows
  <2>4. active' = active + 1 /\ active < MaximumConcurrent /\ active \in Nat /\ queue' = queue
    BY <1>1, <1>8 DEF Start, TypeOK
  <2>5. QED
    BY <1>1, <2>3, <2>4, GateAssumption DEF SlotsAccounted
<1>9. ASSUME NEW c \in Call, Enqueue(c) PROVE SlotsAccounted'
  <2>1. Slots' = Slots
    BY <1>1, <1>9 DEF Enqueue, Goto, Slots, SlotSteps, TypeOK
  <2>2. Len(queue') = Len(queue) + 1 /\ Len(queue) < MaximumQueue /\ active' = active
    BY <1>1, <1>9 DEF Enqueue, TypeOK
  <2>3. QED
    BY <1>1, <2>1, <2>2, GateAssumption DEF SlotsAccounted
<1>10. ASSUME NEW c \in Call, FreeSlot(c) PROVE SlotsAccounted'
  <2>1. PICK n \in 0..Len(queue) : Serve(c, n)
    BY <1>10, FreeSlotFacts
  <2> DEFINE rest == Slots \ {c}
  <2>2. /\ rest \in SUBSET Call /\ c \in Slots /\ c \in Call \ rest /\ Slots = rest \cup {c}
    BY <2>1 DEF Serve, Slots, SlotSteps
  <2>3. Fresh(n) \in SUBSET Call /\ Cardinality(Fresh(n)) \in Nat
    BY <1>1, FreshFacts
  <2>4. \A d \in Fresh(n) \cup Late(n) : d \in Call /\ pc[d] = "queued"
    BY <1>1, TakenWaiting
  <2>5. rest \cap Fresh(n) = {}
    BY <2>4 DEF Slots, SlotSteps
  <2>6. Slots' = rest \cup Fresh(n)
    <3>1. \A d \in Call : pc'[d] = IF d = c THEN "done"
                                  ELSE IF d \in Fresh(n) THEN "admitted"
                                  ELSE IF d \in Late(n) THEN "done" ELSE pc[d]
      <4>1. pc' = [d \in Call |-> CASE d = c -> "done"
                                    [] d \in Fresh(n) -> "admitted"
                                    [] d \in Late(n) -> "done"
                                    [] OTHER -> pc[d]]
        BY <2>1 DEF Serve
      <4>2. \A d \in Fresh(n) \cup Late(n) : d # c
        BY <2>2, <2>4 DEF Slots, SlotSteps
      <4>3. \A d \in Fresh(n) : d \notin Late(n)
        BY DEF Late
      <4>4. QED
        BY ONLY <4>1, <4>2, <4>3
    <3>2. c \notin Fresh(n)
      BY <2>2, <2>4 DEF Slots, SlotSteps
    <3>3. \A d \in Call : d \in Slots' <=> pc'[d] \in SlotSteps
      BY DEF Slots
    <3>4. \A d \in Late(n) : d \notin Fresh(n) /\ d \notin rest
      BY <2>4 DEF Late, Slots, SlotSteps
    <3>5. \A d \in Call : d \in Slots' <=> d \in rest \cup Fresh(n)
      BY <3>1, <3>2, <3>3, <3>4 DEF Slots, SlotSteps
    <3>6. Slots' \in SUBSET Call
      BY DEF Slots
    <3>7. QED
      BY <2>2, <2>3, <3>5, <3>6
  <2>7. Cardinality(Slots') = Cardinality(rest) + Cardinality(Fresh(n))
    BY <2>2, <2>3, <2>5, <2>6, CardinalityAdds
  <2>8. Cardinality(Slots) = Cardinality(rest) + 1 /\ Cardinality(rest) \in Nat
    BY <2>2, CardinalityGrows
  <2>9. active' = active - 1 + Cardinality(Fresh(n)) /\ active' <= MaximumConcurrent
    BY <2>1 DEF Serve
  <2>10. Len(queue') = Len(queue) - n
    BY <1>1, <2>1, SubSeqFacts DEF Serve, TypeOK
  <2>11. active = Cardinality(Slots) /\ Len(queue) <= MaximumQueue
    BY <1>1 DEF SlotsAccounted
  <2>12. active' = Cardinality(Slots')
    BY <2>3, <2>7, <2>8, <2>9, <2>11
  <2>13. Len(queue') <= MaximumQueue
    BY <1>1, <2>10, <2>11, GateAssumption
  <2>14. QED
    BY <2>9, <2>12, <2>13 DEF SlotsAccounted
<1>11. QED
  BY <1>2, <1>3, <1>4, <1>6, <1>7, <1>8, <1>9, <1>10 DEF Next, Turn, Clockwork

LEMMA ConservingStep == GateInv /\ TypeOK' /\ [Next]_vars => WorkConserving'
<1> SUFFICES ASSUME GateInv, TypeOK', [Next]_vars PROVE WorkConserving'
  OBVIOUS
<1>1. /\ TypeOK /\ WorkConserving /\ active \in Nat /\ active <= MaximumConcurrent
      /\ queue \in Seq(Call) /\ Len(queue) \in Nat
  BY DEF GateInv, TypeOK, SlotsAccounted
<1>2. ASSUME queue' = queue, active' = active PROVE WorkConserving'
  BY <1>1, <1>2 DEF WorkConserving
<1>3. ASSUME NEW c \in Call,
             \/ Refuse(c) \/ Reject(c) \/ Expire(c) \/ RunTimeout(c) \/ InvokeTask(c)
             \/ \E how \in {"completed", "failed"} : TaskSettles(c, how)
      PROVE  WorkConserving'
  <2>1. queue' = queue /\ active' = active
    BY <1>3 DEF Refuse, Reject, Expire, RunTimeout, InvokeTask, TaskSettles
  <2>2. QED
    BY <1>2, <2>1
<1>4. ASSUME NEW c \in Call, NEW how, LeaveQueue(c, how) PROVE WorkConserving'
  <2>1. active' = active /\ Len(queue) \in Nat \ {0}
    BY <1>4, LeaveQueueSteps
  <2>2. queue # <<>>
    BY <2>1
  <2>3. QED
    BY <1>1, <2>1, <2>2 DEF WorkConserving
<1>5. ASSUME NEW c \in Call, Abort(c) PROVE WorkConserving'
  <2>1. CASE LeaveQueue(c, "cancelled")
    BY <1>4, <2>1
  <2>2. CASE ~LeaveQueue(c, "cancelled")
    <3>1. queue' = queue /\ active' = active
      BY <1>5, <2>2 DEF Abort
    <3>2. QED
      BY <1>2, <3>1
  <2>3. QED
    BY <2>1, <2>2
<1>6. ASSUME NEW c \in Call, QueueTimeout(c) PROVE WorkConserving'
  BY <1>4, <1>6 DEF QueueTimeout
<1>7. ASSUME NEW c \in Call, Start(c) PROVE WorkConserving'
  <2>1. active < MaximumConcurrent /\ queue' = queue
    BY <1>7 DEF Start
  <2>2. queue = <<>>
    BY <1>1, <2>1, GateAssumption DEF WorkConserving
  <2>3. QED
    BY <2>1, <2>2 DEF WorkConserving
<1>8. ASSUME NEW c \in Call, Enqueue(c) PROVE WorkConserving'
  <2>1. active >= MaximumConcurrent /\ active' = active
    BY <1>8 DEF Enqueue
  <2>2. QED
    BY <1>1, <2>1, GateAssumption DEF WorkConserving
<1>9. ASSUME NEW c \in Call, FreeSlot(c) PROVE WorkConserving'
  <2>1. PICK n \in 0..Len(queue) : Serve(c, n)
    BY <1>9, FreeSlotFacts
  <2>2. n = Len(queue) \/ active' = MaximumConcurrent
    BY <2>1 DEF Serve
  <2>3. queue' \in Seq(Call) /\ Len(queue') = Len(queue) - n
    BY <1>1, <2>1, SubSeqFacts DEF Serve
  <2>4. n = Len(queue) => queue' = <<>>
    BY <1>1, <2>3
  <2>5. QED
    BY <2>2, <2>4 DEF WorkConserving
<1>10. CASE UNCHANGED vars
  BY <1>2, <1>10 DEF vars, gate
<1>11. QED
  BY <1>3, <1>5, <1>6, <1>7, <1>8, <1>9, <1>10 DEF Next, Turn, Clockwork

----------------------------------------------------------------------------

With(how) == {c \in Call : outcome[c] = how}

\* A first answer is counted where it belongs and nowhere else.
LEMMA CountsAnswer ==
  ASSUME TypeOK, CountedOnce, NEW c \in Call, NEW how \in Counted,
         outcome[c] = "pending", Answer(c, how)
  PROVE  CountedOnce'
<1>1. With(how) \in SUBSET Call /\ c \in Call \ With(how)
  BY DEF With, Counted
<1>2. With(how)' = With(how) \cup {c}
  BY DEF With, Answer, TypeOK
<1>3. Cardinality(With(how)') = Cardinality(With(how)) + 1
  BY <1>1, <1>2, CardinalityGrows
<1>4. \A h \in Counted \ {how} : With(h)' = With(h)
  BY DEF With, Answer, TypeOK, Counted
<1>5. totals'[how] = totals[how] + 1 /\ \A h \in Counted \ {how} : totals'[h] = totals[h]
  BY DEF Answer, TypeOK
<1>6. \A h \in Counted : totals[h] = Cardinality(With(h))
  BY DEF CountedOnce, With
<1>7. \A h \in Counted : totals'[h] = Cardinality(With(h)')
  BY <1>3, <1>4, <1>5, <1>6
<1>8. QED
  BY <1>7 DEF CountedOnce, With

LEMMA CountStep == GateInv /\ [Next]_vars => CountedOnce'
<1> SUFFICES ASSUME GateInv, [Next]_vars PROVE CountedOnce'
  OBVIOUS
<1>1. TypeOK /\ QueueOK /\ CountedOnce
  BY DEF GateInv
<1>2. ASSUME outcome' = outcome, totals' = totals PROVE CountedOnce'
  BY <1>1, <1>2 DEF CountedOnce
<1>3. ASSUME NEW c \in Call, Start(c) \/ Enqueue(c) \/ Expire(c) \/ InvokeTask(c)
      PROVE  CountedOnce'
  <2>1. outcome' = outcome /\ totals' = totals
    BY <1>3 DEF Start, Enqueue, Expire, InvokeTask
  <2>2. QED
    BY <1>2, <2>1
<1>4. ASSUME NEW c \in Call, Refuse(c) PROVE CountedOnce'
  <2>1. outcome[c] = "pending" /\ outcome' = [outcome EXCEPT ![c] = "refused"] /\ totals' = totals
    BY <1>1, <1>4 DEF Refuse, QueueOK
  <2>2. \A h \in Counted : With(h)' = With(h)
    BY <1>1, <2>1 DEF With, Counted, TypeOK
  <2>3. QED
    BY <1>1, <2>1, <2>2 DEF CountedOnce, With
<1>5. ASSUME NEW c \in Call, Reject(c) PROVE CountedOnce'
  <2>1. outcome[c] = "pending" /\ Answer(c, "rejected") /\ "rejected" \in Counted
    BY <1>1, <1>5 DEF Reject, QueueOK, Counted
  <2>2. QED
    BY <1>1, <2>1, CountsAnswer
<1>6. ASSUME NEW c \in Call, RunTimeout(c) PROVE CountedOnce'
  <2>1. outcome[c] = "pending" /\ Answer(c, "timedOut") /\ "timedOut" \in Counted
    BY <1>6 DEF RunTimeout, Counted
  <2>2. QED
    BY <1>1, <2>1, CountsAnswer
<1>7. ASSUME NEW c \in Call, NEW how \in Counted, LeaveQueue(c, how) PROVE CountedOnce'
  <2>1. outcome[c] = "pending" /\ Answer(c, how)
    BY <1>7, LeaveQueueSteps DEF LeaveQueue
  <2>2. QED
    BY <1>1, <2>1, CountsAnswer
<1>8. ASSUME NEW c \in Call, QueueTimeout(c) PROVE CountedOnce'
  <2>1. LeaveQueue(c, "timedOut") /\ "timedOut" \in Counted
    BY <1>8 DEF QueueTimeout, Counted
  <2>2. QED
    BY <1>7, <2>1
<1>9. ASSUME NEW c \in Call, Abort(c) PROVE CountedOnce'
  <2>1. "cancelled" \in Counted
    BY DEF Counted
  <2>2. CASE LeaveQueue(c, "cancelled")
    BY <1>7, <2>1, <2>2
  <2>3. CASE ~LeaveQueue(c, "cancelled")
    <3>1. outcome[c] = "pending" /\ Answer(c, "cancelled")
      BY <1>9, <2>3 DEF Abort
    <3>2. QED
      BY <1>1, <2>1, <3>1, CountsAnswer
  <2>4. QED
    BY <2>2, <2>3
<1>10. ASSUME NEW c \in Call, NEW how \in {"completed", "failed"}, TaskSettles(c, how)
       PROVE  CountedOnce'
  <2>1. CASE outcome[c] = "pending"
    <3>1. how \in Counted /\ Answer(c, how)
      BY <1>10, <2>1 DEF TaskSettles, Counted
    <3>2. QED
      BY <1>1, <2>1, <3>1, CountsAnswer
  <2>2. CASE outcome[c] # "pending"
    <3>1. outcome' = outcome /\ totals' = totals
      BY <1>10, <2>2 DEF TaskSettles
    <3>2. QED
      BY <1>2, <3>1
  <2>3. QED
    BY <2>1, <2>2
<1>11. ASSUME NEW c \in Call, FreeSlot(c) PROVE CountedOnce'
  <2>1. PICK n \in 0..Len(queue) : Serve(c, n)
    BY <1>11, FreeSlotFacts
  <2>2. /\ outcome' = [d \in Call |-> IF d \in Late(n) THEN "timedOut" ELSE outcome[d]]
        /\ totals' = [totals EXCEPT !["timedOut"] = totals["timedOut"] + Cardinality(Late(n))]
    BY <2>1 DEF Serve
  <2>3. \A d \in Late(n) : d \in Call /\ outcome[d] = "pending"
    BY <1>1, TakenWaiting
  <2>4. Late(n) \in SUBSET Call
    BY <2>3
  <2>5. With("timedOut") \in SUBSET Call /\ With("timedOut") \cap Late(n) = {}
    BY <2>3 DEF With
  <2>6. With("timedOut")' = With("timedOut") \cup Late(n)
    BY <2>2, <2>3 DEF With
  <2>7. Cardinality(With("timedOut")') = Cardinality(With("timedOut")) + Cardinality(Late(n))
    BY <2>4, <2>5, <2>6, CardinalityAdds
  <2>8. \A h \in Counted \ {"timedOut"} : With(h)' = With(h)
    BY <2>2, <2>3 DEF With, Counted
  <2>9. /\ totals'["timedOut"] = totals["timedOut"] + Cardinality(Late(n))
        /\ \A h \in Counted \ {"timedOut"} : totals'[h] = totals[h]
    BY <1>1, <2>2 DEF TypeOK, Counted
  <2>10. \A h \in Counted : totals[h] = Cardinality(With(h))
    BY <1>1 DEF CountedOnce, With
  <2>11. "timedOut" \in Counted
    BY DEF Counted
  <2>12. \A h \in Counted : totals'[h] = Cardinality(With(h)')
    BY <2>7, <2>8, <2>9, <2>10, <2>11
  <2>13. QED
    BY <2>12 DEF CountedOnce, With
<1>12. CASE UNCHANGED vars
  BY <1>2, <1>12 DEF vars, gate
<1>13. QED
  BY <1>3, <1>4, <1>5, <1>6, <1>8, <1>9, <1>10, <1>11, <1>12 DEF Next, Turn, Clockwork

----------------------------------------------------------------------------

LEMMA GateInvInit == Init => GateInv
<1> SUFFICES ASSUME Init PROVE GateInv
  OBVIOUS
<1>1. TypeOK
  BY DEF Init, TypeOK, Steps, Outcomes
<1>2. QueueOK /\ WorkConserving
  BY DEF Init, QueueOK, WorkConserving
<1>3. SlotsAccounted
  <2>1. Slots = {}
    BY DEF Init, Slots, SlotSteps
  <2>2. QED
    BY <2>1, FS_EmptySet, GateAssumption DEF Init, SlotsAccounted
<1>4. CountedOnce
  <2>1. \A h \in Counted : With(h) = {} /\ totals[h] = 0
    BY DEF Init, With, Counted
  <2>2. QED
    BY <2>1, FS_EmptySet DEF CountedOnce, With
<1>5. QED
  BY <1>1, <1>2, <1>3, <1>4 DEF GateInv

LEMMA GateInvStep == GateInv /\ [Next]_vars => GateInv'
BY TypeStep, QueueStep, SlotsStep, ConservingStep, CountStep DEF GateInv

\* The state of the gate has its type in every behaviour.
THEOREM Typing == Spec => []TypeOK
<1>1. GateInv => TypeOK
  BY DEF GateInv
<1>2. QED
  BY <1>1, GateInvInit, GateInvStep, PTL DEF Spec

\* The counter of active work is the number of slots that are held, also when
\* callers were answered long ago, and slots and queue keep their limits.
THEOREM Accounting == Spec => []SlotsAccounted
<1>1. GateInv => SlotsAccounted
  BY DEF GateInv
<1>2. QED
  BY <1>1, GateInvInit, GateInvStep, PTL DEF Spec

\* No call waits while a slot is free.
THEOREM Conserving == Spec => []WorkConserving
<1>1. GateInv => WorkConserving
  BY DEF GateInv
<1>2. QED
  BY <1>1, GateInvInit, GateInvStep, PTL DEF Spec

\* Every answer is counted once, under the outcome the caller got.
THEOREM Counting == Spec => []CountedOnce
<1>1. GateInv => CountedOnce
  BY DEF GateInv
<1>2. QED
  BY <1>1, GateInvInit, GateInvStep, PTL DEF Spec

----------------------------------------------------------------------------

(***************************************************************************)
(* First come, first served.  The queue is ordered by the history of who   *)
(* was queued before whom; #drain takes a prefix of it, and a new call is  *)
(* started at once only when nobody waits.                                 *)
(***************************************************************************)
Ordered == \A i, j \in 1..Len(queue) : i < j => <<queue[i], queue[j]>> \in ahead

\* Two neighbours of the new queue stood in that order before, or one just came.
KeepsOrder ==
    \A i, j \in 1..Len(queue') : i < j =>
        \/ \E k, l \in 1..Len(queue) : k < l /\ queue[k] = queue'[i] /\ queue[l] = queue'[j]
        \/ pc[queue'[i]] = "queued" /\ pc[queue'[j]] = "new"

LEMMA TurnKeepsOrder == GateInv /\ Turn => KeepsOrder
<1> SUFFICES ASSUME GateInv, Turn PROVE KeepsOrder
  OBVIOUS
<1>1. queue \in Seq(Call) /\ Len(queue) \in Nat
  BY DEF GateInv, TypeOK
<1>2. ASSUME queue' = queue PROVE KeepsOrder
  BY <1>1, <1>2 DEF KeepsOrder
<1>3. ASSUME NEW c \in Call,
             \/ Refuse(c) \/ Reject(c) \/ Start(c) \/ Expire(c) \/ RunTimeout(c) \/ InvokeTask(c)
             \/ \E how \in {"completed", "failed"} : TaskSettles(c, how)
      PROVE  KeepsOrder
  BY <1>2, <1>3 DEF Refuse, Reject, Start, Expire, RunTimeout, InvokeTask, TaskSettles
<1>4. ASSUME NEW c \in Call, NEW how, LeaveQueue(c, how) PROVE KeepsOrder
  <2>1. PICK m \in DOMAIN queue : queue' = RemoveAt(queue, m)
    BY <1>4 DEF LeaveQueue
  <2>2. /\ Len(RemoveAt(queue, m)) = Len(queue) - 1
        /\ \A i \in 1..(Len(queue) - 1) :
              RemoveAt(queue, m)[i] = IF i < m THEN queue[i] ELSE queue[i + 1]
    BY ONLY <1>1, RemoveAtFacts, m \in DOMAIN queue
  <2>3. m \in 1..Len(queue)
    BY <1>1
  <2>4. ASSUME NEW i \in 1..Len(queue'), NEW j \in 1..Len(queue'), i < j
        PROVE  \E k, l \in 1..Len(queue) : k < l /\ queue[k] = queue'[i] /\ queue[l] = queue'[j]
    <3>1. PICK k \in 1..Len(queue) : queue[k] = queue'[i] /\ k = IF i < m THEN i ELSE i + 1
      BY <1>1, <2>1, <2>2, <2>3
    <3>2. PICK l \in 1..Len(queue) : queue[l] = queue'[j] /\ l = IF j < m THEN j ELSE j + 1
      BY <1>1, <2>1, <2>2, <2>3
    <3>3. k < l
      BY <1>1, <2>3, <2>4, <3>1, <3>2
    <3>4. QED
      BY <3>1, <3>2, <3>3
  <2>5. QED
    BY <2>4 DEF KeepsOrder
<1>5. ASSUME NEW c \in Call, Abort(c) PROVE KeepsOrder
  <2>1. CASE LeaveQueue(c, "cancelled")
    BY <1>4, <2>1
  <2>2. CASE ~LeaveQueue(c, "cancelled")
    BY <1>2, <1>5, <2>2 DEF Abort
  <2>3. QED
    BY <2>1, <2>2
<1>6. ASSUME NEW c \in Call, QueueTimeout(c) PROVE KeepsOrder
  BY <1>4, <1>6 DEF QueueTimeout
<1>7. ASSUME NEW c \in Call, Enqueue(c) PROVE KeepsOrder
  <2>1. /\ pc[c] = "new" /\ Len(queue') = Len(queue) + 1
        /\ queue'[Len(queue) + 1] = c /\ \A i \in 1..Len(queue) : queue'[i] = queue[i]
    BY <1>1, <1>7 DEF Enqueue
  <2>2. \A i \in 1..Len(queue) : pc[queue[i]] = "queued"
    BY DEF GateInv, QueueOK
  <2>3. ASSUME NEW i \in 1..Len(queue'), NEW j \in 1..Len(queue'), i < j
        PROVE  \/ \E k, l \in 1..Len(queue) : k < l /\ queue[k] = queue'[i] /\ queue[l] = queue'[j]
               \/ pc[queue'[i]] = "queued" /\ pc[queue'[j]] = "new"
    <3>1. i \in 1..Len(queue)
      BY <1>1, <2>1, <2>3
    <3>2. CASE j = Len(queue) + 1
      BY <2>1, <2>2, <3>1, <3>2
    <3>3. CASE j # Len(queue) + 1
      <4>1. j \in 1..Len(queue)
        BY <1>1, <2>1, <3>3
      <4>2. QED
        BY <2>1, <2>3, <3>1, <4>1
    <3>4. QED
      BY <3>2, <3>3
  <2>4. QED
    BY <2>3 DEF KeepsOrder
<1>8. ASSUME NEW c \in Call, FreeSlot(c) PROVE KeepsOrder
  <2>1. PICK n \in 0..Len(queue) : Serve(c, n)
    BY <1>8, FreeSlotFacts
  <2>2. /\ Len(queue') = Len(queue) - n
        /\ \A i \in 1..(Len(queue) - n) : queue'[i] = queue[i + n]
    BY <1>1, <2>1, SubSeqFacts DEF Serve
  <2>3. ASSUME NEW i \in 1..Len(queue'), NEW j \in 1..Len(queue'), i < j
        PROVE  \E k, l \in 1..Len(queue) : k < l /\ queue[k] = queue'[i] /\ queue[l] = queue'[j]
    <3>1. i + n \in 1..Len(queue) /\ j + n \in 1..Len(queue) /\ i + n < j + n
      BY <1>1, <2>2, <2>3
    <3>2. queue'[i] = queue[i + n] /\ queue'[j] = queue[j + n]
      BY <2>2
    <3>3. QED
      BY <3>1, <3>2
  <2>4. QED
    BY <2>3 DEF KeepsOrder
<1>9. QED
  BY <1>3, <1>5, <1>6, <1>7, <1>8 DEF Turn, Clockwork

LEMMA OrderedStep == GateInv /\ GateInv' /\ Ordered /\ [Next]_vars => Ordered'
<1> SUFFICES ASSUME GateInv, GateInv', Ordered, [Next]_vars PROVE Ordered'
  OBVIOUS
<1>1. CASE UNCHANGED vars
  BY <1>1 DEF vars, gate, Ordered
<1>2. CASE Next
  <2>1. KeepsOrder /\ RecordOrder
    BY <1>2, TurnKeepsOrder DEF Next
  <2>2. ASSUME NEW i \in 1..Len(queue'), NEW j \in 1..Len(queue'), i < j
        PROVE  <<queue'[i], queue'[j]>> \in ahead'
    <3> DEFINE a == queue'[i]
               b == queue'[j]
    <3>1. a \in Call /\ b \in Call
      BY DEF GateInv, TypeOK
    <3>2. pc'[a] = "queued" /\ pc'[b] = "queued"
      BY DEF GateInv, QueueOK
    <3>3. <<a, b>> \in ahead \/ (pc[a] = "queued" /\ pc[b] = "new")
      BY <2>1, <2>2 DEF KeepsOrder, Ordered
    <3> HIDE DEF a, b
    <3>4. <<a, b>> \in ahead'
      BY <2>1, <3>1, <3>2, <3>3 DEF RecordOrder
    <3>5. QED
      BY <3>4 DEF a, b
  <2>3. QED
    BY <2>2 DEF Ordered
<1>3. QED
  BY <1>1, <1>2

LEMMA AdmitsInOrder ==
  ASSUME GateInv, Ordered, Turn,
         NEW c \in Call, NEW d \in Call,
         pc[c] = "queued", pc'[c] = "queued", pc[d] # "admitted", pc'[d] = "admitted"
  PROVE  <<d, c>> \in ahead
<1>1. TypeOK /\ QueueOK /\ WorkConserving
  BY DEF GateInv
<1>2. PICK i \in 1..Len(queue) : queue[i] = c
  BY <1>1 DEF QueueOK
<1>3. PICK e \in Call :
        \/ Refuse(e) \/ Reject(e) \/ Start(e) \/ Enqueue(e) \/ Abort(e) \/ Clockwork(e)
        \/ \E how \in {"completed", "failed"} : TaskSettles(e, how)
  BY DEF Turn
<1>4. CASE FreeSlot(e)
  <2>1. PICK n \in 0..Len(queue) : Serve(e, n)
    BY <1>4, FreeSlotFacts
  <2>2. pc' = [x \in Call |-> CASE x = e -> "done"
                                [] x \in Fresh(n) -> "admitted"
                                [] x \in Late(n) -> "done"
                                [] OTHER -> pc[x]]
    BY <2>1 DEF Serve
  <2>3. d \in Fresh(n)
    <3>1. ASSUME d \notin Fresh(n) PROVE pc'[d] \in {"done", pc[d]}
      BY ONLY <2>2, <3>1, d \in Call
    <3>2. QED
      BY <3>1
  <2>4. c \notin Fresh(n) /\ c \notin Late(n)
    <3>1. pc[e] = "settled"
      BY <2>1 DEF Serve
    <3>2. c # e
      BY <3>1
    <3>3. ASSUME c \in Fresh(n) \cup Late(n) PROVE pc'[c] \in {"admitted", "done"}
      BY ONLY <2>2, <3>2, <3>3, c \in Call
    <3>4. QED
      BY <3>3
  <2>5. Fresh(n) \subseteq {queue[k] : k \in 1..n}
    BY <1>1, FreshFacts
  <2>6. PICK j \in 1..n : queue[j] = d
    BY <2>3, <2>5
  <2>7. i \notin 1..n
    BY <1>2, <2>4 DEF Late
  <2>8. Len(queue) \in Nat
    BY <1>1 DEF TypeOK
  <2>9. j \in 1..Len(queue) /\ j < i
    BY <2>7, <2>8
  <2>10. QED
    BY <1>2, <2>6, <2>9 DEF Ordered
<1>5. CASE Start(e)
  <2>1. active < MaximumConcurrent /\ active \in Nat
    BY <1>1, <1>5 DEF Start, TypeOK
  <2>2. queue = <<>>
    BY <1>1, <2>1, GateAssumption DEF WorkConserving
  <2>3. QED
    BY <1>2, <2>2
<1>6. CASE ~FreeSlot(e) /\ ~Start(e)
  <2>1. \/ pc' = pc
        \/ \E step \in Steps \ {"admitted"} : pc' = [pc EXCEPT ![e] = step]
    BY <1>3, <1>6 DEF Refuse, Reject, Enqueue, Abort, LeaveQueue, Clockwork, Expire, QueueTimeout,
       RunTimeout, InvokeTask, TaskSettles, Goto, Steps, SlotSteps
  <2>2. QED
    BY <1>1, <2>1 DEF TypeOK
<1>7. QED
  BY <1>4, <1>5, <1>6

\* Nobody overtakes: a call that keeps waiting sees only calls queued before it
\* being started, whatever was cancelled, timed out or newly called meanwhile.
THEOREM FirstComeFirstServed == Spec => NeverOvertakes
<1>1. Init => GateInv /\ Ordered
  BY GateInvInit DEF Init, Ordered
<1>2. GateInv /\ Ordered /\ [Next]_vars => (GateInv /\ Ordered)'
  BY GateInvStep, OrderedStep
<1>3. GateInv /\ Ordered /\ [Next]_vars =>
        [ \A c, d \in Call :
            ( /\ pc[c] = "queued" /\ pc'[c] = "queued"
              /\ pc[d] # "admitted" /\ pc'[d] = "admitted" ) => <<d, c>> \in ahead ]_vars
  BY AdmitsInOrder DEF Next
<1>4. QED
  BY <1>1, <1>2, <1>3, PTL DEF Spec, NeverOvertakes
=============================================================================
