------------------------------ MODULE AuditLog ------------------------------
(***************************************************************************)
(* TamperEvidentAuditLog of src/adapters/repository/audit-log.js: numbered *)
(* event files chained by hashes, and head.json that counts them.          *)
(*                                                                         *)
(* append runs under the audit lock, verify and the creation of head.json  *)
(* do not: repository.execute, health checks and audit.verify may read     *)
(* while another request appends.  An action is one file-system call, the  *)
(* reads of all the listed events being one.                               *)
(***************************************************************************)
EXTENDS Naturals, Sequences, FiniteSets

CONSTANTS
    Caller,        \* requests that append or verify
    Tx,            \* transactions of governed-record events
    NoTx,          \* any other event, an authorization decision for example
    Verification,  \* the job of a caller that only verifies
    Initialized,   \* TRUE: the log was initialized before any caller started
    MaxEvents,     \* bound: no append starts once so many records were written
    MaxFaults,     \* bound: crashes and I/O errors
    MaxTampers     \* bound: files modified or deleted by somebody else

ASSUME AuditAssumption ==
    /\ NoTx \notin Tx /\ Verification \notin Tx \cup {NoTx}
    /\ Initialized \in BOOLEAN
    /\ {MaxEvents, MaxFaults, MaxTampers} \subseteq Nat

VARIABLES
    events,    \* audit/events: one file per sequence number
    head,      \* audit/head.json
    lock,      \* callers that hold the audit lock
    shared,    \* history: two callers held it at once, as ProjectLock allows after an expiry
    pc,        \* next file-system call of each caller
    job,       \* the transaction it appends an event for, or Verification
    seen,      \* the sequence numbers its last readdir listed
    made,      \* records ever written: the next one is a new hash
    verdict,   \* history: what the last verify of the caller concluded
    dirty,     \* history: a covered event was broken when it listed the events
    answered,  \* history: hashes of the records that append returned
    faults, tampers

disk == <<events, head>>
history == <<verdict, dirty, answered>>
vars == <<disk, lock, shared, pc, job, seen, made, history, faults, tampers>>

Steps == {"idle", "createHead", "writeHead", "lock", "list", "read", "head",
          "dedupe", "create", "write", "replaceHead"}

\* The hash of record n is n; 0 is the null previousHash of the first one.
Hash == Nat
File == [state : {"torn", "whole", "modified", "gone"}, tx : Tx \cup {NoTx}, hash : Hash, prev : Hash]
HeadFile == [state : {"absent", "torn", "whole"}, count : Nat, tail : Hash]

EmptyHead(state) == [state |-> state, count |-> 0, tail |-> 0]

Present == {i \in DOMAIN events : events[i].state # "gone"}
Broken == \E i \in 1..head.count : events[i].state # "whole"

Goto(c, step) == pc' = [pc EXCEPT ![c] = step] /\ UNCHANGED <<lock, job, seen>>

\* The call returns or throws; in append the finally clause releases the lock.
End(c) ==
    /\ pc' = [pc EXCEPT ![c] = "idle"]
    /\ lock' = lock \ {c}
    /\ job' = [job EXCEPT ![c] = Verification]
    /\ seen' = [seen EXCEPT ![c] = {}]

Init ==
    /\ events = <<>>
    /\ head = EmptyHead(IF Initialized THEN "whole" ELSE "absent")
    /\ lock = {} /\ shared = FALSE
    /\ pc = [c \in Caller |-> "idle"]
    /\ job = [c \in Caller |-> Verification]
    /\ seen = [c \in Caller |-> {}]
    /\ made = 0
    /\ verdict = [c \in Caller |-> "none"]
    /\ dirty = [c \in Caller |-> FALSE]
    /\ answered = {}
    /\ faults = MaxFaults
    /\ tampers = MaxTampers

----------------------------------------------------------------------------

BeginVerify(c) ==
    /\ pc[c] = "idle"
    /\ pc' = [pc EXCEPT ![c] = "list"]
    /\ verdict' = [verdict EXCEPT ![c] = "none"]
    /\ UNCHANGED <<disk, lock, job, seen, made, dirty, answered, shared, faults, tampers>>

BeginAppend(c, t) ==
    /\ pc[c] = "idle" /\ made < MaxEvents
    /\ pc' = [pc EXCEPT ![c] = "createHead"]
    /\ job' = [job EXCEPT ![c] = t]
    /\ verdict' = [verdict EXCEPT ![c] = "none"]
    /\ UNCHANGED <<disk, lock, seen, made, dirty, answered, shared, faults, tampers>>

\* initialize: head.json is created exclusively and in place.
CreateHead(c) ==
    /\ pc[c] = "createHead"
    /\ IF head.state = "absent"
       THEN head' = EmptyHead("torn") /\ Goto(c, "writeHead")
       ELSE UNCHANGED head /\ Goto(c, "lock")
    /\ UNCHANGED <<events, made, history, shared, faults, tampers>>

WriteHead(c) ==
    /\ pc[c] = "writeHead"
    /\ head' = EmptyHead("whole")
    /\ Goto(c, "lock")
    /\ UNCHANGED <<events, made, history, shared, faults, tampers>>

\* acquireProjectLock: it acquires the lock, perhaps as a second holder, or times out.
Lock(c) ==
    /\ pc[c] = "lock"
    /\ \/ /\ lock' = lock \cup {c}
          /\ shared' = (shared \/ lock # {})
          /\ pc' = [pc EXCEPT ![c] = "list"]
          /\ UNCHANGED <<job, seen>>
       \/ lock # {} /\ End(c) /\ UNCHANGED shared
    /\ UNCHANGED <<disk, made, history, faults, tampers>>

----------------------------------------------------------------------------
(* verify *)

Fail(c) ==
    /\ verdict' = [verdict EXCEPT ![c] = "failed"]
    /\ End(c)

List(c) ==
    /\ pc[c] = "list"
    /\ seen' = [seen EXCEPT ![c] = Present]
    /\ dirty' = [dirty EXCEPT ![c] = Broken]
    /\ pc' = [pc EXCEPT ![c] = "read"]
    /\ UNCHANGED <<disk, lock, job, made, verdict, answered, shared, faults, tampers>>

\* Fault: the hash of a record is not computed again.
ChainedByLinks(S) ==
    /\ S = 1..Cardinality(S)
    /\ \A i \in S : /\ events[i].state # "torn"
                    /\ events[i].prev = IF i = 1 THEN 0 ELSE events[i - 1].hash

\* assertEvent on every listed record: it parses, its hash and its sequence number
\* are right and previousHash is the hash of the one before.
Chained(S) ==
    /\ S = 1..Cardinality(S)
    /\ \A i \in S : /\ events[i].state = "whole"
                    /\ events[i].prev = IF i = 1 THEN 0 ELSE events[i - 1].hash

Read(c) ==
    /\ pc[c] = "read"
    /\ IF Chained(seen[c])
       THEN Goto(c, "head") /\ UNCHANGED verdict
       ELSE Fail(c)
    /\ UNCHANGED <<disk, made, dirty, answered, shared, faults, tampers>>

TailHash(S) == IF S = {} THEN 0 ELSE events[Cardinality(S)].hash

\* Fault: an uncommitted tail is let through.
HeadMatchesCovered(S) == head.state = "whole" /\ head.count <= Cardinality(S)

\* Without head.json an empty log is healthy.
HeadMatches(S) ==
    \/ head.state = "absent" /\ S = {}
    \/ head.state = "whole" /\ head.count = Cardinality(S) /\ head.tail = TailHash(S)

ReadHead(c) ==
    /\ pc[c] = "head"
    /\ IF HeadMatches(seen[c])
       THEN /\ verdict' = [verdict EXCEPT ![c] = "healthy"]
            /\ IF job[c] = Verification
               THEN End(c)
               ELSE Goto(c, IF job[c] = NoTx THEN "create" ELSE "dedupe")
       ELSE Fail(c)
    /\ UNCHANGED <<disk, made, dirty, answered, shared, faults, tampers>>

----------------------------------------------------------------------------
(* append, after its own verify *)

\* Fault: the search for an event of the same transaction is skipped.
DedupeNever(c) ==
    /\ pc[c] = "dedupe"
    /\ Goto(c, "create")
    /\ UNCHANGED <<disk, made, history, shared, faults, tampers>>

\* An event of the same transaction is returned as it is; an unreadable one throws.
Dedupe(c) ==
    /\ pc[c] = "dedupe"
    /\ LET same == {i \in Present : events[i].tx = job[c]}
       IN  IF \A i \in Present : events[i].state # "torn"
           THEN /\ answered' = answered \cup {events[i].hash : i \in same}
                /\ IF same = {} THEN Goto(c, "create") ELSE End(c)
           ELSE End(c) /\ UNCHANGED answered
    /\ UNCHANGED <<disk, made, verdict, dirty, shared, faults, tampers>>

\* Fault: the event file is opened without the exclusive flag.
CreateEventShared(c) ==
    /\ pc[c] = "create"
    /\ LET n == Cardinality(seen[c]) + 1
           file == [state |-> "torn", tx |-> job[c], hash |-> 0, prev |-> TailHash(seen[c])]
       IN  events' = [i \in 1..(IF n > Len(events) THEN n ELSE Len(events)) |->
                        IF i = n THEN file ELSE events[i]]
    /\ Goto(c, "write")
    /\ UNCHANGED <<head, made, history, shared, faults, tampers>>

\* The next number after those listed, created exclusively: EEXIST throws.
CreateEvent(c) ==
    /\ pc[c] = "create"
    /\ LET n == Cardinality(seen[c]) + 1
           file == [state |-> "torn", tx |-> job[c], hash |-> 0, prev |-> TailHash(seen[c])]
       IN  IF n \in Present
           THEN End(c) /\ UNCHANGED events
           ELSE /\ events' = [i \in DOMAIN events \cup {n} |-> IF i = n THEN file ELSE events[i]]
                /\ Goto(c, "write")
    /\ UNCHANGED <<head, made, history, shared, faults, tampers>>

WriteEvent(c) ==
    /\ pc[c] = "write"
    /\ made' = made + 1
    /\ events' = [events EXCEPT ![Cardinality(seen[c]) + 1].state = "whole",
                               ![Cardinality(seen[c]) + 1].hash = made + 1]
    /\ Goto(c, "replaceHead")
    /\ UNCHANGED <<head, history, shared, faults, tampers>>

\* Fault: head.json is replaced by the event instead of its number and hash.
ReplaceHeadByEvent(c) ==
    /\ pc[c] = "replaceHead"
    /\ head' = events[Cardinality(seen[c]) + 1]
    /\ End(c)
    /\ UNCHANGED <<events, made, history, shared, faults, tampers>>

\* head.json is read again and renamed into place.
ReplaceHead(c) ==
    /\ pc[c] = "replaceHead"
    /\ LET n == Cardinality(seen[c]) + 1
       IN  /\ head' = [state |-> "whole", count |-> n, tail |-> events[n].hash]
           /\ answered' = answered \cup {events[n].hash}
    /\ End(c)
    /\ UNCHANGED <<events, made, verdict, dirty, shared, faults, tampers>>

----------------------------------------------------------------------------
(* The environment *)

\* The process dies, or a step throws.  The lock of a dead process is taken over.
Interrupt(c) ==
    /\ pc[c] # "idle" /\ faults > 0
    /\ faults' = faults - 1
    /\ End(c)
    /\ UNCHANGED <<disk, made, history, shared, tampers>>

\* A covered event is modified or deleted.
Tamper(i) ==
    /\ tampers > 0 /\ i <= head.count /\ events[i].state = "whole"
    /\ tampers' = tampers - 1
    /\ \E state \in {"modified", "gone"} : events' = [events EXCEPT ![i].state = state]
    /\ UNCHANGED <<head, lock, pc, job, seen, made, history, shared, faults>>

----------------------------------------------------------------------------

Next ==
    \/ \E c \in Caller :
          \/ BeginVerify(c) \/ List(c) \/ Read(c) \/ ReadHead(c)
          \/ \E t \in Tx \cup {NoTx} : BeginAppend(c, t)
          \/ CreateHead(c) \/ WriteHead(c) \/ Lock(c) \/ Dedupe(c)
          \/ CreateEvent(c) \/ WriteEvent(c) \/ ReplaceHead(c) \/ Interrupt(c)
    \/ \E i \in DOMAIN events : Tamper(i)

Spec == Init /\ [][Next]_vars

----------------------------------------------------------------------------

TypeOK ==
    /\ events \in Seq(File)
    /\ head \in HeadFile
    /\ lock \in SUBSET Caller /\ shared \in BOOLEAN
    /\ pc \in [Caller -> Steps]
    /\ job \in [Caller -> Tx \cup {NoTx, Verification}]
    /\ seen \in [Caller -> SUBSET Nat]
    /\ made \in Nat
    /\ verdict \in [Caller -> {"none", "healthy", "failed"}]
    /\ dirty \in [Caller -> BOOLEAN]
    /\ answered \in SUBSET Hash
    /\ faults \in 0..MaxFaults /\ tampers \in 0..MaxTampers

Untampered == tampers = MaxTampers

\* The log is one hash chain in the order of its numbers and only its last event
\* may be unfinished, even if the audit lock admits two appenders: the exclusive
\* creation of the numbered file is what keeps the chain.
ChainIntact ==
    Untampered =>
        \A i \in DOMAIN events :
            /\ i < Len(events) => events[i].state = "whole"
            /\ events[i].prev = IF i = 1 THEN 0 ELSE events[i - 1].hash

\* head.json never counts an event that is not completely written, names the hash
\* of the last one it counts, and is at most one event behind.
HeadWithinOne ==
    Untampered =>
        /\ head.count \in {Len(events), Len(events) - 1}
        /\ head.count > 0 => /\ events[head.count].state = "whole"
                             /\ head.tail = events[head.count].hash

\* A transaction has one governed-record event, whether commit, recovery or both
\* append it.
OncePerTransaction ==
    Untampered \/ ~shared =>
        \A i, j \in Present :
            events[i].tx = events[j].tx /\ events[i].tx # NoTx => i = j

\* An event whose append returned is in the log for good, and counted by head.json
\* unless two appenders shared the lock.
AnsweredIsKept ==
    Untampered =>
        \A h \in answered : \E i \in DOMAIN events :
            /\ events[i].hash = h /\ events[i].state = "whole"
            /\ ~shared => i <= head.count

\* history-baselines-and-audit-guide.md: audit.verify fails closed.  No verify that
\* lists the events after a covered one was modified or deleted passes, as long as
\* the lock kept appenders apart (one that listed an empty log could otherwise
\* write the deleted number again).
FailsClosed == ~shared => \A c \in Caller : dirty[c] => verdict[c] # "healthy"

\* The same guide names modification, deletion, reordering and segment boundaries
\* as what verify fails on.  Without these and without a crash no verify fails.
NoFalseAlarm ==
    Untampered /\ ~shared /\ faults = MaxFaults => \A c \in Caller : verdict[c] # "failed"
=============================================================================
