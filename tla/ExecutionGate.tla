---------------------------- MODULE ExecutionGate ----------------------------
(***************************************************************************)
(* BoundedExecutionGate of src/operations/runtime.js: FIFO admission of    *)
(* calls to a bounded number of slots, with a bounded queue, deadlines and *)
(* cancellation.                                                           *)
(*                                                                         *)
(* The gate runs on one event loop, so an action is one turn of it: a call *)
(* of run(), a timer, an abort listener, the task of a slot being invoked, *)
(* its promise settling, and the finally clause that frees the slot, which *)
(* is a later microtask: anything may come between the two.                *)
(***************************************************************************)
EXTENDS Naturals, FiniteSets, SequencesExt

CONSTANTS
    Call,                \* calls of run()
    MaximumConcurrent,
    MaximumQueue

ASSUME GateAssumption ==
    /\ IsFiniteSet(Call)
    /\ MaximumConcurrent \in Nat \ {0}
    /\ MaximumQueue \in Nat

VARIABLES
    pc,        \* where each call is
    outcome,   \* how the promise that run() returned was settled
    queue,     \* this.queue
    active,    \* this.active
    totals,    \* this.totals
    late,      \* calls whose deadline has passed
    ahead      \* history: <<c, d>> when c and d wait and c was queued before d

gate == <<pc, outcome, queue, active, totals, late>>
vars == <<gate, ahead>>

\* A slot is held from admission until the finally clause of the task.
SlotSteps == {"admitted", "running", "settled"}
Steps == {"new", "queued", "done"} \cup SlotSteps

\* The outcomes this.totals counts; a refused call is not counted.
Counted == {"cancelled", "completed", "failed", "rejected", "timedOut"}
Outcomes == {"pending", "refused"} \cup Counted

Slots == {c \in Call : pc[c] \in SlotSteps}

Goto(c, step) == pc' = [pc EXCEPT ![c] = step]

\* The promise of a call settles and the outcome is counted.
Answer(c, how) ==
    /\ outcome' = [outcome EXCEPT ![c] = how]
    /\ totals' = [totals EXCEPT ![how] = @ + 1]

Init ==
    /\ pc = [c \in Call |-> "new"]
    /\ outcome = [c \in Call |-> "pending"]
    /\ queue = <<>>
    /\ active = 0
    /\ totals = [how \in Counted |-> 0]
    /\ late = {}
    /\ ahead = {}

----------------------------------------------------------------------------
(* run *)

\* The signal is aborted already, or the requested timeout is out of range.
Refuse(c) ==
    /\ pc[c] = "new"
    /\ Goto(c, "done")
    /\ outcome' = [outcome EXCEPT ![c] = "refused"]
    /\ UNCHANGED <<queue, active, totals, late>>

Reject(c) ==
    /\ pc[c] = "new"
    /\ active >= MaximumConcurrent /\ Len(queue) >= MaximumQueue
    /\ Goto(c, "done")
    /\ Answer(c, "rejected")
    /\ UNCHANGED <<queue, active, late>>

Start(c) ==
    /\ pc[c] = "new"
    /\ active < MaximumConcurrent
    /\ Goto(c, "admitted")
    /\ active' = active + 1
    /\ UNCHANGED <<outcome, queue, totals, late>>

\* Fault: unshift instead of push.
EnqueueFirst(c) ==
    /\ pc[c] = "new"
    /\ active >= MaximumConcurrent /\ Len(queue) < MaximumQueue
    /\ Goto(c, "queued")
    /\ queue' = <<c>> \o queue
    /\ UNCHANGED <<outcome, active, totals, late>>

Enqueue(c) ==
    /\ pc[c] = "new"
    /\ active >= MaximumConcurrent /\ Len(queue) < MaximumQueue
    /\ Goto(c, "queued")
    /\ queue' = Append(queue, c)
    /\ UNCHANGED <<outcome, active, totals, late>>

----------------------------------------------------------------------------
(* Timers and abort listeners *)

Expire(c) ==
    /\ pc[c] \in {"queued", "admitted", "running"}
    /\ outcome[c] = "pending" /\ c \notin late
    /\ late' = late \cup {c}
    /\ UNCHANGED <<pc, outcome, queue, active, totals>>

LeaveQueue(c, how) ==
    /\ pc[c] = "queued"
    /\ \E i \in DOMAIN queue : queue[i] = c /\ queue' = RemoveAt(queue, i)
    /\ Goto(c, "done")
    /\ Answer(c, how)
    /\ UNCHANGED active

\* Fault: the queue timer waits for a slot instead of the deadline.
QueueTimeoutOnSlot(c) ==
    /\ c \in late /\ active < MaximumConcurrent
    /\ LeaveQueue(c, "timedOut")
    /\ UNCHANGED late

QueueTimeout(c) ==
    /\ c \in late
    /\ LeaveQueue(c, "timedOut")
    /\ UNCHANGED late

\* Fault: the slot is given up with the answer, while the task still runs.
RunTimeoutFreesSlot(c) ==
    /\ pc[c] = "running" /\ c \in late /\ outcome[c] = "pending"
    /\ Answer(c, "timedOut")
    /\ active' = active - 1
    /\ UNCHANGED <<pc, queue, late>>

\* The caller is answered; the task keeps its slot until it settles.
RunTimeout(c) ==
    /\ pc[c] = "running" /\ c \in late /\ outcome[c] = "pending"
    /\ Answer(c, "timedOut")
    /\ UNCHANGED <<pc, queue, active, late>>

\* The caller aborts the signal; once the call is answered its listener does nothing.
Abort(c) ==
    /\ outcome[c] = "pending"
    /\ \/ LeaveQueue(c, "cancelled")
       \/ /\ pc[c] \in SlotSteps
          /\ Answer(c, "cancelled")
          /\ UNCHANGED <<pc, queue, active>>
    /\ UNCHANGED late

----------------------------------------------------------------------------
(* The task of a slot *)

\* The task is invoked even when the call was aborted after its admission.
InvokeTask(c) ==
    /\ pc[c] = "admitted"
    /\ Goto(c, "running")
    /\ UNCHANGED <<outcome, queue, active, totals, late>>

\* Fault: the late answer of a task is counted although its caller has one already.
TaskSettlesAnyway(c, how) ==
    /\ pc[c] = "running"
    /\ Goto(c, "settled")
    /\ Answer(c, how)
    /\ UNCHANGED <<queue, active, late>>

TaskSettles(c, how) ==
    /\ pc[c] = "running"
    /\ Goto(c, "settled")
    /\ IF outcome[c] = "pending" THEN Answer(c, how) ELSE UNCHANGED <<outcome, totals>>
    /\ UNCHANGED <<queue, active, late>>

\* Calls among the first n of the queue that can still be started.
Fresh(n) == {queue[i] : i \in {j \in 1..n : queue[j] \notin late}}

\* Fault: an entry found late is dropped without serving the next one.
DrainedOne(free, n) == n = IF queue = <<>> THEN 0 ELSE 1

\* #drain shifts n entries: as many as it takes to fill the free slots.
Drained(free, n) ==
    /\ n = Len(queue) \/ Cardinality(Fresh(n)) = free
    /\ \A m \in 0..(n - 1) : Cardinality(Fresh(m)) < free

\* The finally clause: the slot is freed and the queue served; an entry whose
\* deadline has passed is answered without being started.
FreeSlot(c) ==
    /\ pc[c] = "settled"
    /\ \E n \in 0..Len(queue) :
          /\ Drained(MaximumConcurrent - (active - 1), n)
          /\ LET started == Fresh(n)
                 expired == {queue[i] : i \in 1..n} \ started
             IN  /\ pc' = [d \in Call |-> CASE d = c -> "done"
                                            [] d \in started -> "admitted"
                                            [] d \in expired -> "done"
                                            [] OTHER -> pc[d]]
                 /\ outcome' = [d \in Call |-> IF d \in expired THEN "timedOut" ELSE outcome[d]]
                 /\ totals' = [totals EXCEPT !["timedOut"] = @ + Cardinality(expired)]
                 /\ active' = active - 1 + Cardinality(started)
          /\ queue' = SubSeq(queue, n + 1, Len(queue))
    /\ UNCHANGED late

----------------------------------------------------------------------------

\* What happens to a call whatever its task and its caller do.
Clockwork(c) ==
    Expire(c) \/ QueueTimeout(c) \/ RunTimeout(c) \/ InvokeTask(c) \/ FreeSlot(c)

\* The history of the queue, kept apart from the gate's own actions.
RecordOrder ==
    ahead' = {p \in Call \X Call :
                 /\ pc'[p[1]] = "queued" /\ pc'[p[2]] = "queued"
                 /\ p \in ahead \/ (pc[p[1]] = "queued" /\ pc[p[2]] = "new")}

Turn ==
    \E c \in Call :
        \/ Refuse(c) \/ Reject(c) \/ Start(c) \/ Enqueue(c)
        \/ Abort(c) \/ Clockwork(c)
        \/ \E how \in {"completed", "failed"} : TaskSettles(c, how)

Next == Turn /\ RecordOrder

\* Timers fire and microtasks run; nothing is assumed of tasks, which may hang.
Fairness == \A c \in Call : WF_gate(Clockwork(c))

Spec == Init /\ [][Next]_vars /\ Fairness

----------------------------------------------------------------------------

TypeOK ==
    /\ pc \in [Call -> Steps]
    /\ outcome \in [Call -> Outcomes]
    /\ queue \in Seq(Call)
    /\ active \in Nat
    /\ totals \in [Counted -> Nat]
    /\ late \in SUBSET Call
    /\ ahead \in SUBSET (Call \X Call)

\* runtime.js: timed-out work retains its slot until it settles.  The counter is
\* the number of tasks admitted and not yet settled, whoever was answered what,
\* and neither slots nor queue ever exceed their limits.
SlotsAccounted ==
    /\ active = Cardinality(Slots)
    /\ active <= MaximumConcurrent
    /\ Len(queue) <= MaximumQueue

\* No call waits while a slot is free, also after entries of the queue were
\* cancelled, timed out, or found late by #drain.
WorkConserving == queue # <<>> => active = MaximumConcurrent

\* Every call that is answered is counted once, under the answer it got: a
\* timeout that races the late end of its task, or an abort, is not two outcomes.
CountedOnce ==
    \A how \in Counted : totals[how] = Cardinality({c \in Call : outcome[c] = how})

\* FIFO: a call is admitted while another one keeps waiting only if it was queued
\* before it, whatever was cancelled, timed out or newly called meanwhile.
NeverOvertakes ==
    [][ \A c, d \in Call :
          ( /\ pc[c] = "queued" /\ pc'[c] = "queued"
            /\ pc[d] # "admitted" /\ pc'[d] = "admitted" ) => <<d, c>> \in ahead ]_vars

\* Every call is answered by its deadline, also when all slots are held by tasks
\* that never settle.
EveryCallAnswered == \A c \in Call : pc[c] # "new" ~> outcome[c] # "pending"
=============================================================================
