--------------------------- MODULE AuditLogProofs ---------------------------
(***************************************************************************)
(* What the audit log guarantees for any number of callers, records and    *)
(* transactions, any number of crashes, with and without two holders of    *)
(* the audit lock, and under any number of tampered files.                 *)
(***************************************************************************)
EXTENDS AuditLog, FiniteSetTheorems, SequenceTheorems, TLAPS

\* How many events a caller's last listing had.
Listed(c) == Cardinality(seen[c])

BeforeLock == {"createHead", "writeHead", "lock"}
Checking == {"list", "read", "head"}
Appending == {"dedupe", "create", "write", "replaceHead"}

(***************************************************************************)
(* The control of a caller: what it has listed and what it is about to do. *)
(***************************************************************************)
ControlOf(c) ==
    /\ seen[c] \subseteq DOMAIN events
    /\ pc[c] \in {"head"} \cup Appending => seen[c] = 1..Listed(c)
    /\ pc[c] \in {"write", "replaceHead"} => Listed(c) + 1 \in DOMAIN events
    /\ pc[c] = "idle" => job[c] = Verification
    /\ pc[c] \in BeforeLock \cup Appending => job[c] # Verification
    /\ pc[c] = "dedupe" => job[c] \in Tx
    /\ pc[c] \in BeforeLock \cup Checking => verdict[c] = "none"

(***************************************************************************)
(* head.json is created once, before the first event, and an appender is   *)
(* past the creation when it asks for the lock.                            *)
(***************************************************************************)
HeadOf(c) ==
    /\ pc[c] = "writeHead" => head.state = "torn" /\ \A d \in Caller : pc[d] = "writeHead" => d = c
    /\ job[c] # Verification /\ pc[c] # "createHead" => head.state # "absent"
    /\ pc[c] \in Appending => head.state = "whole"

HeadInv ==
    /\ head.state # "whole" => head.count = 0 /\ events = <<>>
    /\ head.count <= Len(events)
    /\ \A c \in Caller : HeadOf(c)

TypeInv == TypeOK /\ (\A c \in Caller : ControlOf(c)) /\ HeadInv

(***************************************************************************)
(* What the audit lock gives as long as it has one holder: nothing is      *)
(* created between a caller's listing and its own event, and head.json     *)
(* counts what it listed.                                                  *)
(***************************************************************************)
HoldsLock(c) == pc[c] \in Appending \/ (pc[c] \in Checking /\ job[c] # Verification)

AloneOf(c) ==
    /\ HoldsLock(c) /\ pc[c] \in {"read", "head", "dedupe", "create"} => Present \subseteq seen[c]
    /\ pc[c] \in Appending => head.count = Listed(c)
    /\ pc[c] = "write" => events[Listed(c) + 1].state = "torn"
    /\ dirty[c] /\ pc[c] = "read" =>
          \E i \in 1..head.count : i \notin seen[c] \/ events[i].state # "whole"
    /\ dirty[c] /\ pc[c] = "head" => \E i \in 1..head.count : i \notin seen[c]
    /\ dirty[c] => verdict[c] # "healthy"

LockInv ==
    /\ \A c \in Caller : HoldsLock(c) => c \in lock
    /\ ~shared => /\ \A c, d \in lock : c = d
                  /\ \A c \in Caller : AloneOf(c)

(***************************************************************************)
(* Without tampering the numbered files keep the chain, whoever holds the  *)
(* lock: the number after a listing is free only if the listing was        *)
(* complete and head.json counts all of it.                                *)
(***************************************************************************)
LastIsMine(c) ==
    /\ Listed(c) + 1 = Len(events) /\ head.count = Len(events) - 1
    /\ \A d \in Caller : pc[d] \in {"write", "replaceHead"} => d = c
    /\ events[Len(events)].state = IF pc[c] = "write" THEN "torn" ELSE "whole"

ChainOf(c) ==
    /\ pc[c] \in {"head"} \cup Appending => \A i \in seen[c] : events[i].state = "whole"
    /\ pc[c] \in Appending => Listed(c) <= head.count
    /\ pc[c] \in {"write", "replaceHead"} => LastIsMine(c)

ChainInv ==
    Untampered =>
        /\ \A i \in DOMAIN events : events[i].state \in {"torn", "whole"}
        /\ ChainIntact /\ HeadWithinOne /\ AnsweredIsKept
        /\ \A c \in Caller : ChainOf(c)

(***************************************************************************)
(* The number that is free for an appender tells it that nobody has        *)
(* recorded its transaction since it looked.                               *)
(***************************************************************************)
OnceInv ==
    /\ OncePerTransaction
    /\ Untampered \/ ~shared =>
          \A c \in Caller :
              pc[c] = "create" /\ job[c] \in Tx /\ Listed(c) + 1 \notin Present =>
                  \A i \in Present : events[i].tx # job[c]

----------------------------------------------------------------------------

LEMMA ListedType ==
  ASSUME TypeInv, NEW c \in Caller
  PROVE  /\ Listed(c) \in Nat
         /\ Listed(c) = 0 <=> seen[c] = {}
         /\ seen[c] = 1..Listed(c) => Listed(c) <= Len(events)
<1>1. events \in Seq(File) /\ seen[c] \subseteq 1..Len(events) /\ Len(events) \in Nat
  BY DEF TypeInv, TypeOK, ControlOf
<1>2. IsFiniteSet(seen[c])
  <2>1. IsFiniteSet(1..Len(events))
    BY <1>1, FS_Interval
  <2>2. QED
    BY <1>1, <2>1, FS_Subset
<1>3. Listed(c) \in Nat /\ (Listed(c) = 0 <=> seen[c] = {})
  BY <1>2, FS_CardinalityType, FS_EmptySet DEF Listed
<1>4. QED
  BY <1>1, <1>3

\* A step of one caller leaves what the others are doing alone.
CallerStep(c) ==
    \/ BeginVerify(c) \/ List(c) \/ Read(c) \/ ReadHead(c)
    \/ \E t \in Tx \cup {NoTx} : BeginAppend(c, t)
    \/ CreateHead(c) \/ WriteHead(c) \/ Lock(c) \/ Dedupe(c)
    \/ CreateEvent(c) \/ WriteEvent(c) \/ ReplaceHead(c) \/ Interrupt(c)

LEMMA OthersKept ==
  ASSUME TypeOK, NEW c \in Caller, CallerStep(c), NEW d \in Caller \ {c}
  PROVE  /\ pc'[d] = pc[d] /\ job'[d] = job[d] /\ seen'[d] = seen[d]
         /\ verdict'[d] = verdict[d] /\ dirty'[d] = dirty[d]
BY DEF TypeOK, CallerStep, BeginVerify, BeginAppend, CreateHead, WriteHead, Lock, List, Read,
   ReadHead, Dedupe, CreateEvent, WriteEvent, ReplaceHead, Interrupt, Goto, End, Fail,
   history

\* The file that CreateEvent adds, and the record WriteEvent completes.
NewFile(c) == [state |-> "torn", tx |-> job[c], hash |-> 0, prev |-> TailHash(seen[c])]

LEMMA TailHashType ==
  ASSUME TypeInv, NEW c \in Caller, pc[c] \in {"head"} \cup Appending
  PROVE  /\ TailHash(seen[c]) \in Nat
         /\ TailHash(seen[c]) = IF Listed(c) = 0 THEN 0 ELSE events[Listed(c)].hash
<1>1. /\ seen[c] = 1..Listed(c) /\ Listed(c) \in Nat /\ Listed(c) <= Len(events)
      /\ events \in Seq(File) /\ (Listed(c) = 0 <=> seen[c] = {})
  BY ListedType DEF TypeInv, TypeOK, ControlOf
<1>2. Listed(c) # 0 => events[Listed(c)] \in File
  BY <1>1
<1>3. QED
  BY <1>1, <1>2 DEF TailHash, File, Hash, Listed

LEMMA CreatedEvents ==
  ASSUME TypeInv, NEW c \in Caller, CreateEvent(c), Listed(c) + 1 \notin Present
  PROVE  LET n == Listed(c) + 1 IN
         /\ n \in Nat /\ n <= Len(events) + 1
         /\ events' \in Seq(File) /\ DOMAIN events' = DOMAIN events \cup {n}
         /\ Len(events') = IF n \in DOMAIN events THEN Len(events) ELSE n
         /\ Len(events') >= Len(events)
         /\ events'[n] = NewFile(c)
         /\ \A i \in DOMAIN events : i # n => events'[i] = events[i]
<1> DEFINE n == Listed(c) + 1
           m == IF n \in DOMAIN events THEN Len(events) ELSE n
<1>1. pc[c] = "create" /\ events \in Seq(File) /\ Len(events) \in Nat /\ DOMAIN events = 1..Len(events)
  BY DEF CreateEvent, TypeInv, TypeOK
<1>2. n \in Nat /\ n <= Len(events) + 1 /\ n >= 1
  BY <1>1, ListedType DEF TypeInv, ControlOf, Appending
<1>3. NewFile(c) \in File
  <2>1. TailHash(seen[c]) \in Nat
    BY <1>1, TailHashType DEF Appending
  <2>2. job[c] \in Tx \cup {NoTx}
    BY <1>1 DEF TypeInv, TypeOK, ControlOf, Appending
  <2>3. QED
    BY <2>1, <2>2 DEF NewFile, File, Hash
<1>4. events' = [i \in DOMAIN events \cup {n} |-> IF i = n THEN NewFile(c) ELSE events[i]]
  BY DEF CreateEvent, NewFile, Listed
<1>5. DOMAIN events \cup {n} = 1..m /\ m \in Nat
  BY <1>1, <1>2
<1>6. \A i \in DOMAIN events : events[i] \in File
  BY <1>1
<1>7. events' \in [1..m -> File]
  BY <1>3, <1>4, <1>5, <1>6
<1>8. events' \in Seq(File) /\ Len(events') = m
  BY <1>5, <1>7, SeqDef, LenProperties
<1>9. m >= Len(events)
  BY <1>1, <1>2
<1>10. QED
  BY <1>2, <1>4, <1>8, <1>9

LEMMA WrittenEvents ==
  ASSUME TypeInv, NEW c \in Caller, WriteEvent(c)
  PROVE  LET n == Listed(c) + 1 IN
         /\ n \in DOMAIN events /\ events' \in Seq(File) /\ Len(events') = Len(events)
         /\ events'[n].tx = events[n].tx /\ events'[n].prev = events[n].prev
         /\ events'[n].state = "whole" /\ events'[n].hash = made + 1
         /\ \A i \in DOMAIN events : i # n => events'[i] = events[i]
<1> DEFINE n == Listed(c) + 1
           whole == [events[n] EXCEPT !.state = "whole"]
           file == [whole EXCEPT !.hash = made + 1]
<1>1. pc[c] = "write" /\ events \in Seq(File) /\ made \in Nat
  BY DEF WriteEvent, TypeInv, TypeOK
<1>2. n \in DOMAIN events
  BY <1>1 DEF TypeInv, ControlOf
<1>3. events[n] \in File
  BY <1>1, <1>2
<1>4. /\ file \in File /\ file.tx = events[n].tx /\ file.prev = events[n].prev
      /\ file.state = "whole" /\ file.hash = made + 1
  <2>1. /\ whole \in File /\ whole.tx = events[n].tx /\ whole.prev = events[n].prev
        /\ whole.state = "whole"
    BY <1>3 DEF File
  <2> HIDE DEF whole
  <2>2. made + 1 \in Nat
    BY <1>1
  <2>3. QED
    BY <2>1, <2>2 DEF File, Hash
<1>5. events' = [events EXCEPT ![n] = file]
  BY <1>2, Zenon DEF WriteEvent, Listed
<1> HIDE DEF file
<1>6. events' \in Seq(File) /\ Len(events') = Len(events) /\ events'[n] = file
      /\ \A i \in DOMAIN events : i # n => events'[i] = events[i]
  BY <1>1, <1>2, <1>4, <1>5
<1>7. QED
  BY <1>2, <1>4, <1>6 DEF file

LEMMA TamperedEvents ==
  ASSUME TypeOK, NEW i \in DOMAIN events, Tamper(i)
  PROVE  /\ events' \in Seq(File) /\ Len(events') = Len(events)
         /\ events[i].state = "whole" /\ i <= head.count
         /\ events'[i].state \in {"modified", "gone"} /\ events'[i].tx = events[i].tx
         /\ \A j \in DOMAIN events : j # i => events'[j] = events[j]
<1>1. events \in Seq(File) /\ events[i] \in File
  BY DEF TypeOK
<1>2. PICK state \in {"modified", "gone"} : events' = [events EXCEPT ![i].state = state]
  BY DEF Tamper
<1> DEFINE file == [events[i] EXCEPT !.state = state]
<1>3. file \in File /\ file.state = state /\ file.tx = events[i].tx
  BY <1>1 DEF File
<1>4. events' = [events EXCEPT ![i] = file]
  BY <1>2
<1> HIDE DEF file
<1>5. QED
  BY <1>1, <1>3, <1>4 DEF Tamper


LEMMA TypeStep == TypeInv /\ [Next]_vars => TypeOK'
<1> SUFFICES ASSUME TypeInv, [Next]_vars PROVE TypeOK'
  OBVIOUS
<1> USE AuditAssumption DEF TypeOK, Steps, disk, history
<1>0. TypeOK /\ (\A c \in Caller : ControlOf(c))
  BY DEF TypeInv
<1>1. ASSUME NEW c \in Caller, BeginVerify(c) \/ List(c) \/ Read(c) PROVE TypeOK'
  <2>1. Present \subseteq Nat
    BY <1>0 DEF Present
  <2>2. Broken \in BOOLEAN
    BY DEF Broken
  <2>3. QED
    BY <1>0, <1>1, <2>1, <2>2 DEF BeginVerify, List, Read, Goto, Fail, End
<1>2. ASSUME NEW c \in Caller, ReadHead(c) PROVE TypeOK'
  BY <1>0, <1>2 DEF ReadHead, Goto, Fail, End
<1>3. ASSUME NEW c \in Caller, NEW t \in Tx \cup {NoTx}, BeginAppend(c, t) PROVE TypeOK'
  BY <1>0, <1>3 DEF BeginAppend
<1>4. ASSUME NEW c \in Caller, CreateHead(c) \/ WriteHead(c) PROVE TypeOK'
  <2>1. EmptyHead("torn") \in HeadFile /\ EmptyHead("whole") \in HeadFile
    BY DEF EmptyHead, HeadFile, Hash
  <2>2. QED
    BY <1>0, <1>4, <2>1 DEF CreateHead, WriteHead, Goto
<1>5. ASSUME NEW c \in Caller, Lock(c) \/ Interrupt(c) PROVE TypeOK'
  <2>1. CASE Lock(c)
    <3>1. shared' \in BOOLEAN
      BY <1>0, <2>1, Zenon DEF Lock
    <3>2. QED
      BY <1>0, <2>1, <3>1 DEF Lock, End
  <2>2. CASE Interrupt(c)
    BY <1>0, <2>2 DEF Interrupt, End
  <2>3. QED
    BY <1>5, <2>1, <2>2
<1>6. ASSUME NEW c \in Caller, Dedupe(c) PROVE TypeOK'
  <2>1. \A i \in Present : events[i] \in File
    BY <1>0 DEF Present
  <2>2. \A i \in Present : events[i].hash \in Hash
    BY <2>1 DEF File
  <2>3. answered' \in SUBSET Hash
    BY <1>0, <1>6, <2>2 DEF Dedupe
  <2>4. QED
    BY <1>0, <1>6, <2>3 DEF Dedupe, Goto, End
<1>7. ASSUME NEW c \in Caller, CreateEvent(c) PROVE TypeOK'
  <2>1. events' \in Seq(File)
    BY <1>0, <1>7, CreatedEvents DEF CreateEvent, Listed
  <2>2. QED
    BY <1>0, <1>7, <2>1 DEF CreateEvent, Goto, End
<1>8. ASSUME NEW c \in Caller, WriteEvent(c) PROVE TypeOK'
  <2>1. events' \in Seq(File)
    BY <1>8, WrittenEvents
  <2>2. QED
    BY <1>0, <1>8, <2>1 DEF WriteEvent, Goto
<1>9. ASSUME NEW c \in Caller, ReplaceHead(c) PROVE TypeOK'
  <2> DEFINE n == Listed(c) + 1
  <2>1. n \in DOMAIN events
    BY <1>0, <1>9 DEF ReplaceHead, ControlOf
  <2>2. n \in Nat /\ events[n].hash \in Nat
    <3>1. events[n] \in File /\ n \in Nat
      BY <1>0, <2>1
    <3>2. QED
      BY <3>1 DEF File, Hash
  <2>3. head' = [state |-> "whole", count |-> n, tail |-> events[n].hash] /\ answered' = answered \cup {events[n].hash}
    BY <1>9 DEF ReplaceHead, Listed
  <2> HIDE DEF n
  <2>4. head' \in HeadFile /\ answered' \in SUBSET Hash
    BY <1>0, <2>2, <2>3 DEF HeadFile, Hash
  <2>5. QED
    BY <1>0, <1>9, <2>4 DEF ReplaceHead, End
<1>10. ASSUME NEW i \in DOMAIN events, Tamper(i) PROVE TypeOK'
  <2>1. events' \in Seq(File)
    BY <1>0, <1>10, TamperedEvents
  <2>2. QED
    BY <1>0, <1>10, <2>1 DEF Tamper
<1>11. CASE UNCHANGED vars
  BY <1>0, <1>11 DEF vars
<1>12. QED
  BY <1>1, <1>2, <1>3, <1>4, <1>5, <1>6, <1>7, <1>8, <1>9, <1>10, <1>11 DEF Next

LEMMA ControlStep == TypeInv /\ [Next]_vars => \A c \in Caller : ControlOf(c)'
<1> SUFFICES ASSUME TypeInv, [Next]_vars, NEW d \in Caller PROVE ControlOf(d)'
  OBVIOUS
<1> USE AuditAssumption DEF BeforeLock, Checking, Appending
<1>0. TypeOK /\ ControlOf(d)
  BY DEF TypeInv
<1>1. DOMAIN events \subseteq DOMAIN events'
  <2>1. ASSUME NEW c \in Caller, CreateEvent(c) PROVE DOMAIN events \subseteq DOMAIN events'
    <3>1. CASE Listed(c) + 1 \in Present
      BY <2>1, <3>1 DEF CreateEvent, Listed
    <3>2. CASE Listed(c) + 1 \notin Present
      BY <2>1, <3>2, CreatedEvents
    <3>3. QED
      BY <3>1, <3>2
  <2>2. ASSUME NEW c \in Caller, WriteEvent(c) PROVE DOMAIN events' = DOMAIN events
    BY <2>2 DEF WriteEvent
  <2>3. ASSUME NEW i \in DOMAIN events, Tamper(i) PROVE DOMAIN events' = DOMAIN events
    BY <2>3 DEF Tamper
  <2>4. QED
    BY <2>1, <2>2, <2>3 DEF Next, vars, disk, history, BeginVerify, BeginAppend, CreateHead, WriteHead,
       Lock, List, Read, ReadHead, Dedupe, ReplaceHead, Interrupt
<1>2. ASSUME NEW c \in Caller \ {d}, CallerStep(c) PROVE ControlOf(d)'
  <2>1. /\ pc'[d] = pc[d] /\ job'[d] = job[d] /\ seen'[d] = seen[d] /\ verdict'[d] = verdict[d]
    BY <1>0, <1>2, OthersKept
  <2>2. QED
    BY <1>0, <1>1, <2>1 DEF ControlOf, Listed
<1>3. CASE BeginVerify(d) \/ (\E t \in Tx \cup {NoTx} : BeginAppend(d, t))
  BY <1>0, <1>3 DEF BeginVerify, BeginAppend, ControlOf, TypeOK, disk
<1>4. CASE CreateHead(d) \/ WriteHead(d) \/ Lock(d) \/ Interrupt(d)
  BY <1>0, <1>4 DEF CreateHead, WriteHead, Lock, Interrupt, Goto, End, ControlOf, TypeOK, disk, history
<1>5. CASE List(d)
  <2>1. Present \subseteq DOMAIN events
    BY DEF Present
  <2>2. QED
    BY <1>0, <1>5, <2>1 DEF List, ControlOf, TypeOK, disk
<1>6. CASE Read(d)
  <2>1. CASE Chained(seen[d])
    BY <1>0, <1>6, <2>1 DEF Read, Chained, Goto, ControlOf, TypeOK, disk, Listed
  <2>2. CASE ~Chained(seen[d])
    BY <1>0, <1>6, <2>2 DEF Read, Fail, End, ControlOf, TypeOK, disk
  <2>3. QED
    BY <2>1, <2>2
<1>7. CASE ReadHead(d)
  <2>1. CASE HeadMatches(seen[d]) /\ job[d] # Verification
    <3>1. /\ pc[d] = "head" /\ pc'[d] \in {"create", "dedupe"} /\ (pc'[d] = "dedupe" => job[d] # NoTx)
          /\ UNCHANGED <<events, seen, job>>
      BY <1>0, <1>7, <2>1 DEF ReadHead, Goto, TypeOK, disk
    <3>2. QED
      BY <1>0, <2>1, <3>1 DEF ControlOf, Listed, TypeOK
  <2>2. CASE ~(HeadMatches(seen[d]) /\ job[d] # Verification)
    BY <1>0, <1>7, <2>2 DEF ReadHead, Fail, End, ControlOf, TypeOK, disk
  <2>3. QED
    BY <2>1, <2>2
<1>8. CASE Dedupe(d)
  <2>1. pc[d] = "dedupe" /\ UNCHANGED <<events, verdict>>
    BY <1>8 DEF Dedupe, disk
  <2>2. End(d) \/ Goto(d, "create")
    BY <1>8 DEF Dedupe
  <2>3. QED
    BY <1>0, <2>1, <2>2 DEF End, Goto, ControlOf, TypeOK, Listed
<1>9. CASE CreateEvent(d)
  <2>1. pc[d] = "create" /\ UNCHANGED verdict
    BY <1>9 DEF CreateEvent, history
  <2>2. CASE Listed(d) + 1 \notin Present
    <3>1. Goto(d, "write") /\ Listed(d) + 1 \in DOMAIN events'
      BY <1>9, <2>2, CreatedEvents DEF CreateEvent, Listed
    <3>2. QED
      BY <1>0, <1>1, <2>1, <3>1 DEF Goto, ControlOf, TypeOK, Listed
  <2>3. CASE Listed(d) + 1 \in Present
    <3>1. End(d)
      BY <1>9, <2>3 DEF CreateEvent, Listed
    <3>2. QED
      BY <1>0, <1>1, <2>1, <3>1 DEF End, ControlOf, TypeOK
  <2>4. QED
    BY <2>2, <2>3
<1>10. CASE WriteEvent(d)
  <2>1. pc[d] = "write" /\ Goto(d, "replaceHead") /\ UNCHANGED verdict
    BY <1>10 DEF WriteEvent, history
  <2>2. QED
    BY <1>0, <1>1, <2>1 DEF Goto, ControlOf, TypeOK, Listed
<1>11. CASE ReplaceHead(d)
  BY <1>0, <1>11 DEF ReplaceHead, End, ControlOf, TypeOK
<1>12. ASSUME NEW i \in DOMAIN events, Tamper(i) PROVE ControlOf(d)'
  BY <1>0, <1>1, <1>12 DEF Tamper, ControlOf, Listed, history
<1>13. CASE UNCHANGED vars
  BY <1>0, <1>13 DEF vars, disk, history, ControlOf, Listed
<1>14. QED
  BY <1>2, <1>3, <1>4, <1>5, <1>6, <1>7, <1>8, <1>9, <1>10, <1>11, <1>12, <1>13 DEF Next, CallerStep


LEMMA HeadStep == TypeInv /\ [Next]_vars => HeadInv'
<1> SUFFICES ASSUME TypeInv, [Next]_vars PROVE HeadInv'
  OBVIOUS
<1> USE AuditAssumption DEF BeforeLock, Checking, Appending
<1>0. TypeOK /\ TypeOK' /\ HeadInv /\ \A c \in Caller : HeadOf(c) /\ ControlOf(c)
  BY TypeStep DEF TypeInv, HeadInv
<1>1. ASSUME NEW c \in Caller, CallerStep(c), NEW d \in Caller \ {c}
      PROVE  pc'[d] = pc[d] /\ job'[d] = job[d]
  BY <1>0, <1>1, OthersKept
<1>2. ASSUME NEW c \in Caller, CreateHead(c) PROVE HeadInv'
  <2>1. CASE head.state = "absent"
    <3>1. /\ head'.state = "torn" /\ head'.count = 0 /\ events' = <<>>
          /\ pc'[c] = "writeHead" /\ job'[c] = job[c]
          /\ \A d \in Caller : pc[d] # "writeHead" /\ pc[d] \notin Appending
      BY <1>0, <1>2, <2>1 DEF CreateHead, EmptyHead, Goto, HeadInv, HeadOf, TypeOK
    <3>2. \A d \in Caller \ {c} : pc'[d] = pc[d] /\ job'[d] = job[d]
      BY <1>1, <1>2 DEF CallerStep
    <3>3. \A d \in Caller : HeadOf(d)'
      BY <3>1, <3>2 DEF HeadOf
    <3>4. QED
      BY <3>1, <3>3 DEF HeadInv
  <2>2. CASE head.state # "absent"
    <3>1. UNCHANGED <<head, events, job>> /\ pc' = [pc EXCEPT ![c] = "lock"]
      BY <1>2, <2>2 DEF CreateHead, Goto
    <3>2. \A d \in Caller : HeadOf(d)'
      BY <1>0, <2>2, <3>1 DEF HeadOf, TypeOK
    <3>3. QED
      BY <1>0, <3>1, <3>2 DEF HeadInv
  <2>3. QED
    BY <2>1, <2>2
<1>3. ASSUME NEW c \in Caller, WriteHead(c) PROVE HeadInv'
  <2>1. /\ head'.state = "whole" /\ head'.count = 0 /\ events' = <<>>
        /\ pc' = [pc EXCEPT ![c] = "lock"]
        /\ \A d \in Caller : pc[d] = "writeHead" => d = c
    BY <1>0, <1>3 DEF WriteHead, EmptyHead, Goto, HeadInv, HeadOf
  <2>2. \A d \in Caller : HeadOf(d)'
    BY <1>0, <2>1 DEF HeadOf, TypeOK
  <2>3. QED
    BY <2>1, <2>2 DEF HeadInv
<1>4. ASSUME NEW c \in Caller, CreateEvent(c) PROVE HeadInv'
  <2>1. /\ UNCHANGED head /\ pc[c] = "create" /\ head.state = "whole"
        /\ pc'[c] \in {"write", "idle"} /\ job'[c] \in {job[c], Verification}
    BY <1>0, <1>4 DEF CreateEvent, Goto, End, TypeOK, HeadOf
  <2>2. Len(events') >= Len(events)
    <3>1. CASE Listed(c) + 1 \in Present
      BY <1>0, <1>4, <3>1 DEF CreateEvent, Listed, TypeOK
    <3>2. CASE Listed(c) + 1 \notin Present
      BY <1>0, <1>4, <3>2, CreatedEvents DEF TypeOK
    <3>3. QED
      BY <3>1, <3>2
  <2>3. \A d \in Caller \ {c} : pc'[d] = pc[d] /\ job'[d] = job[d]
    BY <1>1, <1>4 DEF CallerStep
  <2>4. \A d \in Caller : HeadOf(d)'
    BY <1>0, <2>1, <2>3 DEF HeadOf
  <2>5. head.count \in Nat /\ Len(events) \in Nat /\ Len(events') \in Nat
    BY <1>0 DEF TypeOK, HeadFile
  <2>6. QED
    BY <1>0, <2>1, <2>2, <2>4, <2>5 DEF HeadInv
<1>5. ASSUME NEW c \in Caller, WriteEvent(c) PROVE HeadInv'
  <2>1. UNCHANGED <<head, job>> /\ Len(events') = Len(events) /\ pc' = [pc EXCEPT ![c] = "replaceHead"]
        /\ pc[c] = "write"
    BY <1>5, WrittenEvents DEF WriteEvent, Goto
  <2>2. \A d \in Caller : HeadOf(d)'
    BY <1>0, <2>1 DEF HeadOf, TypeOK
  <2>3. head.state = "whole"
    BY <1>0, <2>1 DEF HeadOf
  <2>4. QED
    BY <1>0, <2>1, <2>2, <2>3 DEF HeadInv
<1>6. ASSUME NEW c \in Caller, ReplaceHead(c) PROVE HeadInv'
  <2>1. /\ head'.state = "whole" /\ head'.count = Listed(c) + 1 /\ UNCHANGED events
        /\ pc' = [pc EXCEPT ![c] = "idle"] /\ job' = [job EXCEPT ![c] = Verification]
        /\ pc[c] = "replaceHead"
    BY <1>6 DEF ReplaceHead, End, Listed
  <2>2. Listed(c) + 1 \in DOMAIN events
    BY <1>0, <2>1 DEF ControlOf
  <2>3. \A d \in Caller : HeadOf(d)'
    BY <1>0, <2>1 DEF HeadOf, TypeOK
  <2>4. Listed(c) + 1 <= Len(events)
    BY <1>0, <2>2 DEF TypeOK
  <2>5. QED
    BY <2>1, <2>3, <2>4 DEF HeadInv
<1>7. ASSUME NEW i \in DOMAIN events, Tamper(i) PROVE HeadInv'
  <2>1. UNCHANGED <<head, pc, job>> /\ Len(events') = Len(events)
    BY <1>0, <1>7, TamperedEvents DEF Tamper
  <2>2. \A d \in Caller : HeadOf(d)'
    BY <1>0, <2>1 DEF HeadOf
  <2>3. head.state = "whole"
    BY <1>0, <1>7 DEF HeadInv, Tamper
  <2>4. QED
    BY <1>0, <2>1, <2>2, <2>3 DEF HeadInv
<1>8. ASSUME UNCHANGED <<head, events>>, \A d \in Caller : HeadOf(d)' PROVE HeadInv'
  BY <1>0, <1>8 DEF HeadInv
<1>9. ASSUME NEW c \in Caller, ReadHead(c) PROVE HeadInv'
  <2>1. UNCHANGED <<head, events>> /\ pc[c] = "head"
    BY <1>9 DEF ReadHead, disk
  <2>2. \/ pc'[c] = "idle" /\ job'[c] = Verification
        \/ pc'[c] \in Appending /\ job'[c] = job[c] /\ job[c] # Verification /\ HeadMatches(seen[c])
    BY <1>0, <1>9 DEF ReadHead, Goto, End, Fail, TypeOK
  <2>3. job[c] # Verification /\ HeadMatches(seen[c]) => head.state = "whole"
    BY <1>0, <2>1 DEF HeadMatches, HeadOf
  <2>4. \A d \in Caller \ {c} : pc'[d] = pc[d] /\ job'[d] = job[d]
    BY <1>1, <1>9 DEF CallerStep
  <2>5. \A d \in Caller : HeadOf(d)'
    BY <1>0, <2>1, <2>2, <2>3, <2>4 DEF HeadOf
  <2>6. QED
    BY <1>8, <2>1, <2>5
<1>10. ASSUME NEW c \in Caller,
              \/ BeginVerify(c) \/ (\E t \in Tx \cup {NoTx} : BeginAppend(c, t)) \/ List(c) \/ Read(c)
              \/ Lock(c) \/ Dedupe(c) \/ Interrupt(c)
       PROVE  HeadInv'
  <2>1. UNCHANGED <<head, events>>
    BY <1>10 DEF BeginVerify, BeginAppend, List, Read, Lock, Dedupe, Interrupt, disk
  <2>2. /\ \/ job'[c] \in {Verification, job[c]} /\ pc[c] # "createHead"
           \/ job'[c] = Verification
           \/ pc'[c] = "createHead"
        /\ pc'[c] # "writeHead"
        /\ pc'[c] \in Appending => pc[c] \in Appending
    BY <1>0, <1>10 DEF BeginVerify, BeginAppend, List, Read, Lock, Dedupe, Interrupt, Goto, End, Fail, TypeOK
  <2>3. \A d \in Caller \ {c} : pc'[d] = pc[d] /\ job'[d] = job[d]
    BY <1>1, <1>10 DEF CallerStep
  <2>4. \A d \in Caller : HeadOf(d)'
    BY <1>0, <2>1, <2>2, <2>3 DEF HeadOf
  <2>5. QED
    BY <1>8, <2>1, <2>4
<1>11. CASE UNCHANGED vars
  <2>1. \A d \in Caller : HeadOf(d)'
    BY <1>0, <1>11 DEF vars, disk, HeadOf
  <2>2. QED
    BY <1>8, <1>11, <2>1 DEF vars, disk
<1>12. QED
  BY <1>2, <1>3, <1>4, <1>5, <1>6, <1>7, <1>9, <1>10, <1>11 DEF Next

LEMMA TypeInvStep == TypeInv /\ [Next]_vars => TypeInv'
BY TypeStep, ControlStep, HeadStep DEF TypeInv

LEMMA TypeInvInit == Init => TypeInv
<1> SUFFICES ASSUME Init PROVE TypeInv
  OBVIOUS
<1>1. TypeOK
  <2>1. <<>> \in Seq(File)
    OBVIOUS
  <2>2. head \in HeadFile
    BY DEF Init, EmptyHead, HeadFile, Hash
  <2>3. faults \in 0..MaxFaults /\ tampers \in 0..MaxTampers
    BY AuditAssumption DEF Init
  <2>4. shared \in BOOLEAN /\ dirty \in [Caller -> BOOLEAN]
    BY DEF Init
  <2>5. QED
    BY <2>1, <2>2, <2>3, <2>4 DEF Init, TypeOK, Steps
<1>2. \A c \in Caller : ControlOf(c)
  BY AuditAssumption DEF Init, ControlOf, BeforeLock, Checking, Appending
<1>3. HeadInv
  BY <1>1, AuditAssumption DEF Init, HeadInv, HeadOf, EmptyHead, Appending
<1>4. QED
  BY <1>1, <1>2, <1>3 DEF TypeInv

\* Every variable of the log stays in its type.
THEOREM Typing == Spec => []TypeOK
<1>1. TypeInv => TypeOK
  BY DEF TypeInv
<1>2. QED
  BY <1>1, TypeInvInit, TypeInvStep, PTL DEF Spec

----------------------------------------------------------------------------
(* The audit lock with one holder at a time *)

\* Nothing but a caller that holds the lock writes events, and what a verify has to
\* find stays there: head.json counts no less, and no covered event is repaired.
LEMMA WritersHoldTheLock ==
  ASSUME TypeInv, NEW c \in Caller, CallerStep(c), ~HoldsLock(c)
  PROVE  UNCHANGED events /\ head'.count = head.count
<1>0. TypeOK /\ HeadInv /\ HeadOf(c)
  BY DEF TypeInv, HeadInv
<1>1. pc[c] \notin Appending
  BY DEF HoldsLock
<1>2. CASE CreateHead(c) \/ WriteHead(c)
  <2>1. UNCHANGED events /\ head.state # "whole" => head.count = 0
    BY <1>0, <1>2 DEF CreateHead, WriteHead, HeadInv, HeadOf
  <2>2. UNCHANGED head \/ (head.state # "whole" /\ head'.count = 0)
    BY <1>0, <1>2 DEF CreateHead, WriteHead, HeadOf, EmptyHead
  <2>3. UNCHANGED events
    BY <1>2 DEF CreateHead, WriteHead
  <2>4. QED
    BY <1>0, <2>2, <2>3 DEF HeadInv
<1>3. CASE ~(CreateHead(c) \/ WriteHead(c))
  <2>1. UNCHANGED <<events, head>>
    BY <1>1, <1>3 DEF CallerStep, Appending, BeginVerify, BeginAppend, Lock, List, Read, ReadHead, Dedupe,
       CreateEvent, WriteEvent, ReplaceHead, Interrupt, disk
  <2>2. QED
    BY <2>1
<1>4. QED
  BY <1>2, <1>3

LEMMA OneHolder ==
  ASSUME LockInv, ~shared, NEW c \in Caller, NEW d \in Caller, HoldsLock(c), HoldsLock(d)
  PROVE  c = d
BY DEF LockInv

LEMMA CoveredKept ==
  ASSUME TypeInv, LockInv, ~shared, [Next]_vars
  PROVE  /\ head'.count \in Nat /\ head.count \in Nat /\ head'.count >= head.count
         /\ \A i \in 1..head.count : events[i].state # "whole" => events'[i].state # "whole"
<1>0. /\ TypeOK /\ TypeOK' /\ head.count \in Nat /\ head'.count \in Nat
      /\ head.count <= Len(events) /\ Len(events) \in Nat
      /\ \A c \in Caller : AloneOf(c)
  BY TypeStep DEF TypeInv, TypeOK, HeadFile, HeadInv, LockInv
<1>1. ASSUME NEW c \in Caller, CallerStep(c), ~HoldsLock(c)
      PROVE  UNCHANGED events /\ head'.count = head.count
  BY <1>1, WritersHoldTheLock
<1>2. ASSUME NEW c \in Caller, CreateEvent(c), Listed(c) + 1 \notin Present
      PROVE  /\ head'.count = head.count
             /\ \A i \in 1..head.count : events'[i] = events[i]
  <2>1. head.count = Listed(c)
    BY <1>0, <1>2 DEF CreateEvent, AloneOf, Appending
  <2>2. \A i \in DOMAIN events : i # Listed(c) + 1 => events'[i] = events[i]
    BY <1>2, CreatedEvents
  <2>3. QED
    BY <1>0, <1>2, <2>1, <2>2 DEF CreateEvent, TypeOK
<1>3. ASSUME NEW c \in Caller, WriteEvent(c)
      PROVE  /\ head'.count = head.count
             /\ \A i \in 1..head.count : events'[i] = events[i]
  <2>1. head.count = Listed(c)
    BY <1>0, <1>3 DEF WriteEvent, AloneOf, Appending
  <2>2. \A i \in DOMAIN events : i # Listed(c) + 1 => events'[i] = events[i]
    BY <1>3, WrittenEvents
  <2>3. QED
    BY <1>0, <1>3, <2>1, <2>2 DEF WriteEvent, TypeOK
<1>4. ASSUME NEW c \in Caller, ReplaceHead(c)
      PROVE  UNCHANGED events /\ head'.count = head.count + 1
  BY <1>0, <1>4 DEF ReplaceHead, AloneOf, Appending, Listed
<1>5. ASSUME NEW c \in Caller, CallerStep(c), HoldsLock(c), ~WriteEvent(c), ~ReplaceHead(c),
             ~(CreateEvent(c) /\ Listed(c) + 1 \notin Present)
      PROVE  UNCHANGED <<events, head>>
  BY <1>5 DEF CallerStep, HoldsLock, Checking, Appending, BeginVerify, BeginAppend, CreateHead, WriteHead,
     Lock, List, Read, ReadHead, Dedupe, CreateEvent, Listed, Interrupt, disk
<1>6. ASSUME NEW k \in DOMAIN events, Tamper(k)
      PROVE  /\ UNCHANGED head
             /\ \A i \in 1..head.count : events[i].state # "whole" => events'[i].state # "whole"
  <2>1. /\ UNCHANGED head /\ events'[k].state # "whole"
        /\ \A j \in DOMAIN events : j # k => events'[j] = events[j]
    BY <1>0, <1>6, TamperedEvents DEF Tamper
  <2>2. QED
    BY <1>0, <2>1 DEF TypeOK
<1>7. CASE UNCHANGED vars
  BY <1>0, <1>7 DEF vars, disk
<1>8. ASSUME NEW c \in Caller, CallerStep(c)
      PROVE  /\ head'.count >= head.count
             /\ \A i \in 1..head.count : events[i].state # "whole" => events'[i].state # "whole"
  BY <1>0, <1>1, <1>2, <1>3, <1>4, <1>5, <1>8
<1>9. QED
  BY <1>0, <1>6, <1>7, <1>8 DEF Next, CallerStep

\* What a verify knows when it compares its listing with head.json.
LEMMA CheckedAlone ==
  ASSUME TypeInv, NEW c \in Caller, AloneOf(c), pc[c] = "head", HeadMatches(seen[c])
  PROVE  ~dirty[c] /\ head.count = Listed(c)
<1>1. /\ seen[c] = 1..Listed(c) /\ Listed(c) \in Nat /\ (Listed(c) = 0 <=> seen[c] = {})
      /\ head.count \in Nat
  BY ListedType DEF TypeInv, TypeOK, HeadFile, ControlOf
<1>2. head.count = Listed(c)
  BY <1>1 DEF HeadMatches, Listed, TypeInv, HeadInv
<1>3. QED
  BY <1>1, <1>2 DEF AloneOf

LEMMA LockInvStep == TypeInv /\ LockInv /\ [Next]_vars => LockInv'
<1> SUFFICES ASSUME TypeInv, LockInv, [Next]_vars PROVE LockInv'
  OBVIOUS
<1>0. TypeOK /\ TypeOK' /\ \A c \in Caller : ControlOf(c)
  BY TypeStep DEF TypeInv
<1>1. ~shared' => ~shared
  BY DEF Next, vars, history, BeginVerify, BeginAppend, CreateHead, WriteHead, Lock, List, Read, ReadHead,
     Dedupe, CreateEvent, WriteEvent, ReplaceHead, Interrupt, Tamper
<1>2. ASSUME NEW c \in Caller, CallerStep(c)
      PROVE  /\ \A d \in Caller : HoldsLock(d)' => d \in lock'
             /\ ~shared' => \A d, e \in lock' : d = e
  <2>1. \A d \in Caller \ {c} : pc'[d] = pc[d] /\ job'[d] = job[d]
    BY <1>0, <1>2, OthersKept
  <2>2. CASE Lock(c)
    <3>1. \/ lock' = lock \cup {c} /\ (~shared' => lock = {})
          \/ lock' = lock \ {c} /\ pc'[c] = "idle"
      BY <1>0, <2>2 DEF Lock, End, TypeOK
    <3>2. QED
      BY <1>1, <2>1, <3>1 DEF LockInv, HoldsLock, Appending, Checking
  <2>3. CASE ~Lock(c)
    <3>1. \/ lock' = lock \ {c} /\ pc'[c] = "idle"
          \/ lock' = lock /\ (HoldsLock(c)' => HoldsLock(c))
      BY <1>0, <1>2, <2>3 DEF CallerStep, BeginVerify, BeginAppend, CreateHead, WriteHead, List, Read,
         ReadHead, Dedupe, CreateEvent, WriteEvent, ReplaceHead, Interrupt, Goto, End, Fail, history,
         HoldsLock, Appending, Checking, TypeOK, ControlOf
    <3>2. QED
      BY <1>1, <2>1, <3>1 DEF LockInv, HoldsLock, Appending, Checking
  <2>4. QED
    BY <2>2, <2>3
<1>3. ASSUME NEW c \in Caller, CallerStep(c), ~shared, NEW d \in Caller \ {c} PROVE AloneOf(d)'
  <2>1. /\ pc'[d] = pc[d] /\ job'[d] = job[d] /\ seen'[d] = seen[d]
        /\ verdict'[d] = verdict[d] /\ dirty'[d] = dirty[d] /\ Listed(d)' = Listed(d)
    BY <1>0, <1>3, OthersKept DEF Listed
  <2>2. AloneOf(d)
    BY <1>3 DEF LockInv
  <2>3. HoldsLock(d) => UNCHANGED events /\ head'.count = head.count /\ Present' = Present
    BY <1>3, OneHolder, WritersHoldTheLock DEF Present
  <2>4. /\ head'.count \in Nat /\ head.count \in Nat /\ head'.count >= head.count
        /\ \A i \in 1..head.count : events[i].state # "whole" => events'[i].state # "whole"
    BY <1>3, CoveredKept
  <2>5. HoldsLock(d)' <=> HoldsLock(d)
    BY <2>1 DEF HoldsLock
  <2>6. (dirty[d] /\ pc[d] = "read" =>
           \E i \in 1..head.count : i \notin seen[d] \/ events[i].state # "whole")'
    BY <2>1, <2>2, <2>4 DEF AloneOf
  <2>7. (dirty[d] /\ pc[d] = "head" => \E i \in 1..head.count : i \notin seen[d])'
    BY <2>1, <2>2, <2>4 DEF AloneOf
  <2>8. QED
    BY <2>1, <2>2, <2>3, <2>5, <2>6, <2>7 DEF AloneOf, HoldsLock, Appending
<1>4. ASSUME NEW k \in DOMAIN events, Tamper(k), ~shared, NEW d \in Caller PROVE AloneOf(d)'
  <2>1. /\ UNCHANGED <<head, pc, job, seen, verdict, dirty>> /\ events'[k].state # "whole"
        /\ \A j \in DOMAIN events : j # k => events'[j] = events[j]
        /\ k <= head.count /\ events[k].state = "whole" /\ Len(events') = Len(events)
    BY <1>0, <1>4, TamperedEvents DEF Tamper, history
  <2>2. AloneOf(d)
    BY <1>4 DEF LockInv
  <2>3. Present' \subseteq Present
    BY <1>0, <2>1 DEF Present, TypeOK
  <2>4. pc[d] = "write" => events'[Listed(d) + 1].state = "torn"
    BY <1>0, <2>1, <2>2 DEF AloneOf, ControlOf
  <2>5. /\ head'.count \in Nat /\ head.count \in Nat /\ head'.count >= head.count
        /\ \A i \in 1..head.count : events[i].state # "whole" => events'[i].state # "whole"
    BY <1>4, CoveredKept
  <2>6. QED
    BY <2>1, <2>2, <2>3, <2>4, <2>5 DEF AloneOf, HoldsLock, Listed
<1>5. ASSUME NEW c \in Caller, CallerStep(c), ~shared PROVE AloneOf(c)'
  <2>0. AloneOf(c) /\ ControlOf(c) /\ TypeOK
    BY <1>0, <1>5 DEF LockInv
  <2>1. CASE BeginVerify(c) \/ (\E t \in Tx \cup {NoTx} : BeginAppend(c, t))
    BY <2>0, <2>1 DEF BeginVerify, BeginAppend, AloneOf, HoldsLock, Checking, Appending, TypeOK
  <2>2. CASE CreateHead(c) \/ WriteHead(c) \/ Lock(c) \/ Interrupt(c)
    BY <2>0, <2>2 DEF CreateHead, WriteHead, Lock, Interrupt, Goto, End, history, AloneOf, HoldsLock,
       Checking, Appending, TypeOK
  <2>3. CASE List(c)
    <3>1. /\ pc'[c] = "read" /\ seen'[c] = Present /\ dirty'[c] = Broken /\ verdict'[c] = "none"
          /\ UNCHANGED <<events, head>>
      BY <2>0, <2>3 DEF List, TypeOK, ControlOf, Checking, disk
    <3>2. Present' = Present
      BY <3>1 DEF Present
    <3>3. QED
      BY <3>1, <3>2 DEF AloneOf, Broken, Appending
  <2>4. CASE Read(c)
    <3>1. CASE Chained(seen[c])
      <4>1. /\ pc[c] = "read" /\ pc'[c] = "head" /\ UNCHANGED <<events, head, job, seen, dirty, verdict>>
            /\ \A i \in seen[c] : events[i].state = "whole"
        BY <2>0, <2>4, <3>1 DEF Read, Goto, Chained, TypeOK, disk
      <4>2. Present' = Present
        BY <4>1 DEF Present
      <4>3. QED
        BY <2>0, <4>1, <4>2 DEF AloneOf, HoldsLock, Checking, Appending
    <3>2. CASE ~Chained(seen[c])
      BY <2>0, <2>4, <3>2 DEF Read, Fail, End, AloneOf, HoldsLock, Checking, Appending, TypeOK
    <3>3. QED
      BY <3>1, <3>2
  <2>5. CASE ReadHead(c)
    <3>1. CASE HeadMatches(seen[c])
      <4>1. ~dirty[c] /\ head.count = Listed(c)
        BY <2>0, <2>5, <3>1, CheckedAlone DEF ReadHead
      <4>2. /\ pc[c] = "head" /\ UNCHANGED <<events, head, dirty>>
            /\ pc'[c] = "idle" \/ (pc'[c] \in {"create", "dedupe"} /\ job[c] # Verification /\ UNCHANGED <<job, seen>>)
        BY <2>0, <2>5, <3>1 DEF ReadHead, Goto, End, TypeOK, disk
      <4>3. Present' = Present /\ (UNCHANGED seen => Listed(c)' = Listed(c))
        BY <4>2 DEF Present, Listed
      <4>4. QED
        BY <2>0, <4>1, <4>2, <4>3 DEF AloneOf, HoldsLock, Checking, Appending
    <3>2. CASE ~HeadMatches(seen[c])
      BY <2>0, <2>5, <3>2 DEF ReadHead, Fail, End, AloneOf, HoldsLock, Checking, Appending, TypeOK
    <3>3. QED
      BY <3>1, <3>2
  <2>6. CASE Dedupe(c)
    <3>1. /\ pc[c] = "dedupe" /\ UNCHANGED <<events, head, dirty, verdict>>
          /\ pc'[c] = "idle" \/ (pc'[c] = "create" /\ UNCHANGED <<job, seen>>)
      BY <2>0, <2>6 DEF Dedupe, Goto, End, TypeOK, disk
    <3>2. Present' = Present /\ (UNCHANGED seen => Listed(c)' = Listed(c))
      BY <3>1 DEF Present, Listed
    <3>3. QED
      BY <2>0, <3>1, <3>2 DEF AloneOf, HoldsLock, Checking, Appending
  <2>7. CASE CreateEvent(c)
    <3>1. pc[c] = "create" /\ UNCHANGED <<head, dirty, verdict>>
      BY <2>7 DEF CreateEvent, history
    <3>2. CASE Listed(c) + 1 \in Present
      <4>1. pc'[c] = "idle"
        BY <2>0, <2>7, <3>2 DEF CreateEvent, End, Listed, TypeOK
      <4>2. QED
        BY <2>0, <3>1, <4>1 DEF AloneOf, HoldsLock, Checking, Appending
    <3>3. CASE Listed(c) + 1 \notin Present
      <4>1. pc'[c] = "write" /\ UNCHANGED <<job, seen>>
        BY <2>0, <2>7, <3>3 DEF CreateEvent, Goto, Listed, TypeOK
      <4>2. events'[Listed(c) + 1].state = "torn"
        <5>1. events'[Listed(c) + 1] = NewFile(c)
          BY <2>7, <3>3, CreatedEvents
        <5>2. QED
          BY <5>1 DEF NewFile
      <4>3. QED
        BY <2>0, <3>1, <4>1, <4>2 DEF AloneOf, HoldsLock, Checking, Appending, Listed
    <3>4. QED
      BY <3>2, <3>3
  <2>8. CASE WriteEvent(c)
    <3>1. /\ pc[c] = "write" /\ pc'[c] = "replaceHead" /\ UNCHANGED <<head, dirty, verdict, job, seen>>
      BY <2>0, <2>8 DEF WriteEvent, Goto, TypeOK, history
    <3>2. QED
      BY <2>0, <3>1 DEF AloneOf, HoldsLock, Checking, Appending, Listed
  <2>9. CASE ReplaceHead(c)
    <3>1. /\ pc'[c] = "idle" /\ UNCHANGED <<dirty, verdict>>
      BY <2>0, <2>9 DEF ReplaceHead, End, TypeOK
    <3>2. QED
      BY <2>0, <3>1 DEF AloneOf, HoldsLock, Checking, Appending
  <2>10. QED
    BY <1>5, <2>1, <2>2, <2>3, <2>4, <2>5, <2>6, <2>7, <2>8, <2>9 DEF CallerStep
<1>6. ASSUME NEW c \in Caller, CallerStep(c) PROVE LockInv'
  BY <1>1, <1>2, <1>3, <1>5, <1>6 DEF LockInv
<1>7. ASSUME NEW k \in DOMAIN events, Tamper(k) PROVE LockInv'
  <2>1. UNCHANGED <<lock, pc, job, shared>>
    BY <1>7 DEF Tamper
  <2>2. QED
    BY <1>4, <1>7, <2>1 DEF LockInv, HoldsLock
<1>8. CASE UNCHANGED vars
  BY <1>8 DEF vars, disk, history, LockInv, HoldsLock, AloneOf, Present, Listed
<1>9. QED
  BY <1>6, <1>7, <1>8 DEF Next, CallerStep

LEMMA LockInvInit == Init => LockInv
BY DEF Init, LockInv, AloneOf, HoldsLock, Appending, Checking

\* As long as the lock kept appenders apart, no verify passes that listed the events
\* after a covered one was modified or deleted, wherever it and the others stood.
THEOREM TamperingFound == Spec => []FailsClosed
<1>1. LockInv => FailsClosed
  BY DEF LockInv, AloneOf, FailsClosed
<1>2. QED
  BY <1>1, TypeInvInit, TypeInvStep, LockInvInit, LockInvStep, PTL DEF Spec

----------------------------------------------------------------------------
(* The chain, without tampering and whoever holds the lock *)

\* What the listing of an appender and a free number together say.
LEMMA FreeNumberIsNext ==
  ASSUME TypeInv, ChainInv, Untampered, NEW c \in Caller, pc[c] = "create", Listed(c) + 1 \notin Present
  PROVE  /\ Present = 1..Len(events) /\ Len(events) \in Nat
         /\ Listed(c) = Len(events) /\ head.count = Len(events)
         /\ \A d \in Caller : pc[d] \notin {"write", "replaceHead"}
<1>1. /\ Len(events) \in Nat /\ Listed(c) \in Nat /\ DOMAIN events = 1..Len(events) /\ head.count \in Nat
      /\ Listed(c) <= head.count /\ head.count <= Len(events)
  BY ListedType DEF TypeInv, TypeOK, HeadFile, HeadInv, ChainInv, ChainOf, Appending
<1>2. Present = 1..Len(events)
  BY <1>1 DEF Present, ChainInv
<1>3. Listed(c) = Len(events) /\ head.count = Len(events)
  BY <1>1, <1>2
<1>4. ASSUME NEW d \in Caller, pc[d] \in {"write", "replaceHead"} PROVE FALSE
  <2>1. LastIsMine(d)
    BY <1>4, Zenon DEF ChainInv, ChainOf
  <2>2. head.count = Len(events) - 1
    BY <2>1 DEF LastIsMine
  <2>3. QED
    BY <1>1, <1>3, <2>2
<1>5. QED
  BY <1>1, <1>2, <1>3, <1>4

\* Nothing but these three steps touches the log or what was answered of it.
LEMMA LogKept ==
  ASSUME TypeInv, [Next]_vars, Untampered',
         \A c \in Caller : ~CreateEvent(c) /\ ~WriteEvent(c) /\ ~ReplaceHead(c)
  PROVE  /\ UNCHANGED events
         /\ head'.count = head.count /\ (head'.tail = head.tail \/ head.count = 0)
<1>1. ~\E i \in DOMAIN events : Tamper(i)
  BY DEF Untampered, Tamper, TypeInv, TypeOK
<1>2. ASSUME NEW c \in Caller, CreateHead(c) \/ WriteHead(c)
      PROVE  UNCHANGED events /\ head'.count = head.count /\ (head'.tail = head.tail \/ head.count = 0)
  <2>1. UNCHANGED head \/ (head.state # "whole" /\ head'.count = 0)
    BY <1>2 DEF CreateHead, WriteHead, EmptyHead, TypeInv, HeadInv, HeadOf
  <2>2. UNCHANGED events
    BY <1>2 DEF CreateHead, WriteHead
  <2>3. QED
    BY <2>1, <2>2 DEF TypeInv, HeadInv
<1>3. ASSUME UNCHANGED <<events, head>>
      PROVE  UNCHANGED events /\ head'.count = head.count /\ (head'.tail = head.tail \/ head.count = 0)
  BY <1>3
<1>4. QED
  BY <1>1, <1>2, <1>3 DEF Next, vars, disk, BeginVerify, BeginAppend, List, Read, ReadHead, Lock, Dedupe, Interrupt

\* An event that was whole before a step is the same event after it.
LEMMA WholeKept ==
  ASSUME TypeInv, ChainInv, [Next]_vars, Untampered'
  PROVE  /\ Untampered
         /\ DOMAIN events \subseteq DOMAIN events'
         /\ \A i \in DOMAIN events : events[i].state = "whole" => events'[i] = events[i]
         /\ \A i \in DOMAIN events : events'[i].tx = events[i].tx
         /\ head'.count \in Nat /\ head.count \in Nat /\ head'.count >= head.count
<1>1. Untampered
  <2>1. ASSUME NEW i \in DOMAIN events, Tamper(i) PROVE FALSE
    BY <2>1 DEF Untampered, Tamper, TypeInv, TypeOK
  <2>2. UNCHANGED tampers
    BY <2>1 DEF Next, vars, BeginVerify, BeginAppend, CreateHead, WriteHead, Lock, List, Read,
       ReadHead, Dedupe, CreateEvent, WriteEvent, ReplaceHead, Interrupt
  <2>3. QED
    BY <2>2 DEF Untampered
<1>2. /\ TypeOK /\ TypeOK' /\ head.count \in Nat /\ head'.count \in Nat
  BY TypeStep DEF TypeInv, TypeOK, HeadFile
<1>3. ASSUME NEW c \in Caller, CreateEvent(c)
      PROVE  /\ DOMAIN events \subseteq DOMAIN events' /\ UNCHANGED head
             /\ \A i \in DOMAIN events : events'[i] = events[i]
  <2>1. CASE Listed(c) + 1 \in Present
    BY <1>3, <2>1 DEF CreateEvent, Listed
  <2>2. CASE Listed(c) + 1 \notin Present
    <3>1. /\ DOMAIN events' = DOMAIN events \cup {Listed(c) + 1}
          /\ \A i \in DOMAIN events : i # Listed(c) + 1 => events'[i] = events[i]
      BY <1>3, <2>2, CreatedEvents
    <3>2. Listed(c) + 1 \notin DOMAIN events
      BY <1>1, <1>2, <1>3, <2>2, FreeNumberIsNext DEF CreateEvent, TypeOK
    <3>3. QED
      BY <1>3, <3>1, <3>2 DEF CreateEvent
  <2>3. QED
    BY <2>1, <2>2
<1>4. ASSUME NEW c \in Caller, WriteEvent(c)
      PROVE  /\ DOMAIN events \subseteq DOMAIN events' /\ UNCHANGED head
             /\ \A i \in DOMAIN events : events[i].state = "whole" => events'[i] = events[i]
             /\ \A i \in DOMAIN events : events'[i].tx = events[i].tx
  <2>1. events[Listed(c) + 1].state = "torn" /\ UNCHANGED head
    BY <1>1, <1>4 DEF WriteEvent, ChainInv, ChainOf, LastIsMine
  <2>2. /\ Len(events') = Len(events) /\ events'[Listed(c) + 1].tx = events[Listed(c) + 1].tx
        /\ \A i \in DOMAIN events : i # Listed(c) + 1 => events'[i] = events[i]
    BY <1>4, WrittenEvents
  <2>3. DOMAIN events' = DOMAIN events
    BY <1>2, <2>2 DEF TypeOK
  <2>4. QED
    BY <2>1, <2>2, <2>3
<1>5. ASSUME NEW c \in Caller, ReplaceHead(c)
      PROVE  UNCHANGED events /\ head'.count = head.count + 1
  BY <1>1, <1>2, <1>5 DEF ReplaceHead, ChainInv, ChainOf, LastIsMine, Listed, TypeOK
<1>6. QED
  BY <1>1, <1>2, <1>3, <1>4, <1>5, LogKept


\* The three steps that write the log, on the log itself.
Intact ==
    /\ \A i \in DOMAIN events : events[i].state \in {"torn", "whole"}
    /\ ChainIntact /\ HeadWithinOne

LEMMA CreateKeepsIntact ==
  ASSUME TypeInv, ChainInv, Untampered, Untampered', NEW c \in Caller, CreateEvent(c), Listed(c) + 1 \notin Present
  PROVE  /\ Intact'
         /\ Len(events') = Listed(c) + 1 /\ Len(events) = Listed(c) /\ UNCHANGED head
         /\ head.count = Len(events) /\ events'[Len(events')].state = "torn"
<1> DEFINE n == Listed(c) + 1
<1>1. pc[c] = "create" /\ UNCHANGED head
  BY DEF CreateEvent
<1>2. Len(events) \in Nat /\ Listed(c) = Len(events) /\ head.count = Len(events) /\ DOMAIN events = 1..Len(events)
  BY <1>1, FreeNumberIsNext DEF TypeInv, TypeOK
<1>3. /\ DOMAIN events' = DOMAIN events \cup {n} /\ events'[n] = NewFile(c)
      /\ Len(events') = IF n \in DOMAIN events THEN Len(events) ELSE n
      /\ \A i \in DOMAIN events : i # n => events'[i] = events[i]
  BY CreatedEvents
<1>4. n = Len(events) + 1 /\ n \notin DOMAIN events /\ Len(events') = n
  BY <1>2, <1>3
<1>5. /\ events'[n].state = "torn"
      /\ events'[n].prev = IF Listed(c) = 0 THEN 0 ELSE events[Listed(c)].hash
  BY <1>1, <1>3, TailHashType DEF NewFile, Appending
<1>6. \A i \in DOMAIN events : events[i].state \in {"torn", "whole"}
  BY DEF ChainInv
<1>7. \A i \in DOMAIN events : /\ i < Len(events) => events[i].state = "whole"
                               /\ events[i].prev = IF i = 1 THEN 0 ELSE events[i - 1].hash
  BY DEF ChainInv, ChainIntact
<1>8. head.count > 0 => events[head.count].state = "whole" /\ head.tail = events[head.count].hash
  BY DEF ChainInv, HeadWithinOne
<1> HIDE DEF n
<1>9. ChainIntact'
  <2>1. \A i \in DOMAIN events : events[i].state = "whole"
    BY <1>2, <1>7, <1>8
  <2>2. ASSUME NEW i \in DOMAIN events'
        PROVE  /\ i < Len(events') => events'[i].state = "whole"
               /\ events'[i].prev = IF i = 1 THEN 0 ELSE events'[i - 1].hash
    <3>1. CASE i \in DOMAIN events
      <4>1. events'[i] = events[i] /\ (i # 1 => i - 1 \in DOMAIN events /\ events'[i - 1] = events[i - 1])
        BY <1>2, <1>3, <1>4, <3>1
      <4>2. QED
        BY <1>7, <2>1, <3>1, <4>1
    <3>2. CASE i = n
      <4>1. i # 1 => events'[i - 1] = events[i - 1]
        BY <1>2, <1>3, <1>4, <3>2
      <4>2. QED
        BY <1>2, <1>4, <1>5, <3>2, <4>1
    <3>3. QED
      BY <1>3, <3>1, <3>2
  <2>3. QED
    BY <2>2 DEF ChainIntact
<1>10. HeadWithinOne'
  <2>1. head.count > 0 => events'[head.count] = events[head.count]
    BY <1>2, <1>3, <1>4
  <2>2. QED
    BY <1>1, <1>2, <1>4, <1>8, <2>1 DEF HeadWithinOne
<1>11. \A i \in DOMAIN events' : events'[i].state \in {"torn", "whole"}
  BY <1>3, <1>4, <1>5, <1>6
<1>12. QED
  BY <1>1, <1>2, <1>4, <1>5, <1>9, <1>10, <1>11 DEF Intact, n

LEMMA WriteKeepsIntact ==
  ASSUME TypeInv, ChainInv, Untampered, Untampered', NEW c \in Caller, WriteEvent(c)
  PROVE  /\ Intact'
         /\ Len(events') = Len(events) /\ UNCHANGED head /\ events'[Len(events)].state = "whole"
         /\ LastIsMine(c)
<1> DEFINE n == Listed(c) + 1
<1>1. pc[c] = "write" /\ UNCHANGED head /\ LastIsMine(c)
  BY DEF WriteEvent, ChainInv, ChainOf
<1>2. /\ n = Len(events) /\ head.count = Len(events) - 1
  BY <1>1 DEF LastIsMine
<1>3. /\ Len(events) \in Nat /\ DOMAIN events = 1..Len(events) /\ DOMAIN events' = 1..Len(events)
      /\ n \in DOMAIN events /\ Len(events') = Len(events)
      /\ events'[n].prev = events[n].prev /\ events'[n].state = "whole"
      /\ \A i \in DOMAIN events : i # n => events'[i] = events[i]
  BY WrittenEvents DEF TypeInv, TypeOK
<1>4. \A i \in DOMAIN events : events[i].state \in {"torn", "whole"}
  BY DEF ChainInv
<1>5. \A i \in DOMAIN events : /\ i < Len(events) => events[i].state = "whole"
                               /\ events[i].prev = IF i = 1 THEN 0 ELSE events[i - 1].hash
  BY DEF ChainInv, ChainIntact
<1>6. head.count > 0 => events[head.count].state = "whole" /\ head.tail = events[head.count].hash
  BY DEF ChainInv, HeadWithinOne
<1> HIDE DEF n
<1>7. ChainIntact'
  <2>1. ASSUME NEW i \in 1..Len(events)
        PROVE  /\ i < Len(events) => events'[i].state = "whole"
               /\ events'[i].prev = IF i = 1 THEN 0 ELSE events'[i - 1].hash
    <3>1. i # 1 => i - 1 \in DOMAIN events /\ events'[i - 1] = events[i - 1]
      BY <1>2, <1>3
    <3>2. events'[i].prev = events[i].prev /\ (i < Len(events) => events'[i] = events[i])
      BY <1>2, <1>3
    <3>3. QED
      BY <1>3, <1>5, <3>1, <3>2
  <2>2. QED
    BY <1>3, <2>1 DEF ChainIntact
<1>8. HeadWithinOne'
  <2>1. head.count > 0 => events'[head.count] = events[head.count]
    BY <1>2, <1>3
  <2>2. QED
    BY <1>1, <1>2, <1>3, <1>6, <2>1 DEF HeadWithinOne
<1>9. \A i \in DOMAIN events' : events'[i].state \in {"torn", "whole"}
  BY <1>3, <1>4
<1>10. QED
  BY <1>1, <1>2, <1>3, <1>7, <1>8, <1>9 DEF Intact

LEMMA ReplaceKeepsIntact ==
  ASSUME TypeInv, ChainInv, Untampered, Untampered', NEW c \in Caller, ReplaceHead(c)
  PROVE  /\ Intact' /\ UNCHANGED events
         /\ head'.count = Listed(c) + 1 /\ Listed(c) + 1 = Len(events) /\ Len(events) \in DOMAIN events
         /\ events[Len(events)].state = "whole" /\ LastIsMine(c)
<1>1. /\ pc[c] = "replaceHead" /\ UNCHANGED events /\ head'.count = Listed(c) + 1
      /\ head'.tail = events[Listed(c) + 1].hash
  BY DEF ReplaceHead, Listed
<1>2. LastIsMine(c) /\ Listed(c) + 1 \in DOMAIN events
  BY <1>1 DEF ChainInv, ChainOf, TypeInv, ControlOf
<1>3. Listed(c) + 1 = Len(events) /\ events[Len(events)].state = "whole"
  BY <1>1, <1>2 DEF LastIsMine
<1>4. HeadWithinOne'
  BY <1>1, <1>3 DEF HeadWithinOne
<1>5. ChainIntact'
  BY <1>1 DEF ChainIntact, ChainInv
<1>6. \A i \in DOMAIN events' : events'[i].state \in {"torn", "whole"}
  BY <1>1 DEF ChainInv
<1>7. QED
  BY <1>1, <1>2, <1>3, <1>4, <1>5, <1>6 DEF Intact

LEMMA IntactStep ==
  ASSUME TypeInv, ChainInv, [Next]_vars, Untampered'
  PROVE  Intact'
<1>0. Untampered /\ Intact
  BY WholeKept DEF ChainInv, Intact
<1>1. ASSUME UNCHANGED events, head'.count = head.count, head'.tail = head.tail \/ head.count = 0 PROVE Intact'
  BY <1>0, <1>1 DEF Intact, ChainIntact, HeadWithinOne
<1>2. ASSUME NEW c \in Caller, CreateEvent(c), Listed(c) + 1 \in Present PROVE Intact'
  BY <1>1, <1>2 DEF CreateEvent, Listed
<1>3. QED
  BY <1>0, <1>1, <1>2, CreateKeepsIntact, WriteKeepsIntact, ReplaceKeepsIntact, LogKept

\* An answered record stays where it was answered from.
LEMMA AnsweredStep ==
  ASSUME TypeInv, LockInv, ChainInv, [Next]_vars, Untampered'
  PROVE  AnsweredIsKept'
<1>0. /\ Untampered
      /\ DOMAIN events \subseteq DOMAIN events'
      /\ \A i \in DOMAIN events : events[i].state = "whole" => events'[i] = events[i]
      /\ head'.count \in Nat /\ head.count \in Nat /\ head'.count >= head.count
  BY WholeKept
<1>1. ~shared' => ~shared
  BY DEF Next, vars, history, BeginVerify, BeginAppend, CreateHead, WriteHead, Lock, List, Read, ReadHead,
     Dedupe, CreateEvent, WriteEvent, ReplaceHead, Interrupt, Tamper
<1>2. DOMAIN events \subseteq Nat
  BY DEF TypeInv, TypeOK
<1>3. ASSUME NEW h \in answered
      PROVE  \E i \in DOMAIN events' : /\ events'[i].hash = h /\ events'[i].state = "whole"
                                       /\ ~shared' => i <= head'.count
  <2>1. PICK i \in DOMAIN events : /\ events[i].hash = h /\ events[i].state = "whole"
                                   /\ ~shared => i <= head.count
    BY <1>0, <1>3 DEF ChainInv, AnsweredIsKept
  <2>2. QED
    BY <1>0, <1>1, <1>2, <2>1
<1>4. ASSUME NEW c \in Caller, Dedupe(c), NEW h \in answered' \ answered
      PROVE  \E i \in DOMAIN events' : /\ events'[i].hash = h /\ events'[i].state = "whole"
                                       /\ ~shared' => i <= head'.count
  <2>1. /\ pc[c] = "dedupe" /\ UNCHANGED <<events, head, shared>>
        /\ \A i \in Present : events[i].state # "torn"
        /\ \E i \in Present : events[i].hash = h
    BY <1>4 DEF Dedupe, disk
  <2>2. PICK i \in Present : events[i].hash = h
    BY <2>1
  <2>3. i \in DOMAIN events /\ events[i].state = "whole"
    BY <1>0, <2>1 DEF Present, ChainInv
  <2>4. ASSUME ~shared PROVE i <= head.count
    <3>1. AloneOf(c) /\ ControlOf(c)
      BY <2>4 DEF LockInv, TypeInv
    <3>2. Present \subseteq seen[c] /\ seen[c] = 1..Listed(c) /\ head.count = Listed(c)
      BY <2>1, <3>1 DEF AloneOf, ControlOf, HoldsLock, Appending
    <3>3. QED
      BY <1>0, <3>2
  <2>5. QED
    BY <2>1, <2>2, <2>3, <2>4
<1>5. ASSUME NEW c \in Caller, ReplaceHead(c), NEW h \in answered' \ answered
      PROVE  \E i \in DOMAIN events' : /\ events'[i].hash = h /\ events'[i].state = "whole"
                                       /\ ~shared' => i <= head'.count
  <2>1. h = events[Listed(c) + 1].hash
    BY <1>5 DEF ReplaceHead, Listed
  <2>2. /\ UNCHANGED events /\ head'.count = Listed(c) + 1 /\ Listed(c) + 1 = Len(events)
        /\ Len(events) \in DOMAIN events /\ events[Len(events)].state = "whole"
    BY <1>0, <1>5, ReplaceKeepsIntact
  <2>3. QED
    BY <1>0, <2>1, <2>2
<1>6. (\A c \in Caller : ~Dedupe(c) /\ ~ReplaceHead(c)) => answered' = answered
  BY DEF Next, vars, history, BeginVerify, BeginAppend, CreateHead, WriteHead, Lock, List, Read, ReadHead,
     CreateEvent, WriteEvent, Interrupt, Tamper
<1>7. QED
  BY <1>3, <1>4, <1>5, <1>6 DEF AnsweredIsKept


LEMMA ChainOfOthers ==
  ASSUME TypeInv, ChainInv, [Next]_vars, Untampered',
         NEW c \in Caller, CallerStep(c), NEW d \in Caller \ {c}
  PROVE  ChainOf(d)'
<1>0. /\ Untampered /\ TypeOK /\ ControlOf(d) /\ ChainOf(d)
      /\ DOMAIN events \subseteq DOMAIN events'
      /\ \A i \in DOMAIN events : events[i].state = "whole" => events'[i] = events[i]
      /\ head'.count \in Nat /\ head.count \in Nat /\ head'.count >= head.count /\ Listed(d) \in Nat
  BY WholeKept, ListedType DEF TypeInv, ChainInv
<1>1. pc'[d] = pc[d] /\ seen'[d] = seen[d] /\ Listed(d)' = Listed(d)
  BY <1>0, OthersKept DEF Listed
<1>2. (pc[d] \in {"head"} \cup Appending => \A i \in seen[d] : events[i].state = "whole")'
  BY <1>0, <1>1 DEF ChainOf, ControlOf
<1>3. (pc[d] \in Appending => Listed(d) <= head.count)'
  BY <1>0, <1>1 DEF ChainOf
<1>4. ASSUME pc[d] \in {"write", "replaceHead"} PROVE LastIsMine(d)'
  <2>1. LastIsMine(d)
    BY <1>0, <1>4 DEF ChainOf
  <2>2. pc[c] \notin {"write", "replaceHead"}
    BY <2>1 DEF LastIsMine
  <2>3. ~(CreateEvent(c) /\ Listed(c) + 1 \notin Present)
    BY <1>0, <1>4, FreeNumberIsNext DEF CreateEvent
  <2>4. UNCHANGED events /\ head'.count = head.count
    <3>1. CASE CreateEvent(c)
      BY <2>3, <3>1 DEF CreateEvent, Listed
    <3>2. CASE ~CreateEvent(c)
      <4>1. pc[c] \notin {"write", "replaceHead"} /\ CallerStep(c)
        BY <2>2
      <4>2. CASE HoldsLock(c)
        BY <3>2, <4>1, <4>2 DEF CallerStep, HoldsLock, Checking, Appending, BeginVerify, BeginAppend,
           CreateHead, WriteHead, Lock, List, Read, ReadHead, Dedupe, WriteEvent, ReplaceHead, Interrupt, disk
      <4>3. CASE ~HoldsLock(c)
        BY <4>3, WritersHoldTheLock
      <4>4. QED
        BY <4>2, <4>3
    <3>3. QED
      BY <3>1, <3>2
  <2>5. pc'[c] \notin {"write", "replaceHead"}
    BY <1>0, <2>2, <2>3 DEF CallerStep, BeginVerify, BeginAppend, CreateHead, WriteHead, Lock, List, Read,
       ReadHead, Dedupe, CreateEvent, WriteEvent, ReplaceHead, Interrupt, Listed, Goto, End, Fail, TypeOK
  <2>6. \A e \in Caller \ {c} : pc'[e] = pc[e]
    BY <1>0, OthersKept
  <2>7. QED
    BY <1>1, <2>1, <2>4, <2>5, <2>6 DEF LastIsMine
<1>5. QED
  BY <1>1, <1>2, <1>3, <1>4 DEF ChainOf

LEMMA ChainOfOwn ==
  ASSUME TypeInv, ChainInv, [Next]_vars, Untampered', NEW c \in Caller, CallerStep(c)
  PROVE  ChainOf(c)'
<1>0. /\ Untampered /\ TypeOK /\ ControlOf(c) /\ ChainOf(c)
      /\ DOMAIN events \subseteq DOMAIN events'
      /\ \A i \in DOMAIN events : events[i].state = "whole" => events'[i] = events[i]
      /\ head'.count \in Nat /\ head.count \in Nat /\ head'.count >= head.count
      /\ Listed(c) \in Nat /\ (Listed(c) = 0 <=> seen[c] = {})
  BY WholeKept, ListedType DEF TypeInv, ChainInv
<1>1. CASE Read(c) /\ Chained(seen[c])
  <2>1. pc'[c] = "head" /\ UNCHANGED <<events, seen>> /\ \A i \in seen[c] : events[i].state = "whole"
    BY <1>0, <1>1 DEF Read, Goto, Chained, TypeOK, disk
  <2>2. QED
    BY <2>1 DEF ChainOf, Appending
<1>2. CASE ReadHead(c) /\ HeadMatches(seen[c]) /\ job[c] # Verification
  <2>1. /\ pc[c] = "head" /\ pc'[c] \in {"create", "dedupe"} /\ UNCHANGED <<events, head, seen>>
    BY <1>0, <1>2 DEF ReadHead, Goto, TypeOK, disk
  <2>2. Listed(c) <= head.count
    BY <1>0, <1>2 DEF HeadMatches, Listed
  <2>3. QED
    BY <1>0, <2>1, <2>2 DEF ChainOf, Appending, Listed
<1>3. CASE Dedupe(c) /\ pc'[c] # "idle"
  <2>1. /\ pc[c] = "dedupe" /\ pc'[c] = "create" /\ UNCHANGED <<events, head, seen>>
    BY <1>0, <1>3 DEF Dedupe, Goto, End, TypeOK, disk
  <2>2. QED
    BY <1>0, <2>1 DEF ChainOf, Appending, Listed
<1>4. CASE CreateEvent(c) /\ Listed(c) + 1 \notin Present
  <2>1. pc[c] = "create" /\ pc' = [pc EXCEPT ![c] = "write"] /\ UNCHANGED seen /\ Listed(c)' = Listed(c)
    BY <1>4 DEF CreateEvent, Goto, Listed
  <2>2. /\ Len(events') = Listed(c) + 1 /\ Len(events) = Listed(c) /\ UNCHANGED head
        /\ head.count = Len(events) /\ events'[Len(events')].state = "torn"
    BY <1>0, <1>4, CreateKeepsIntact
  <2>3. \A d \in Caller : pc[d] \notin {"write", "replaceHead"}
    BY <1>0, <1>4, <2>1, FreeNumberIsNext
  <2>4. LastIsMine(c)'
    BY <1>0, <2>1, <2>2, <2>3 DEF LastIsMine, TypeOK
  <2>5. \A i \in seen'[c] : events'[i].state = "whole"
    BY <1>0, <2>1 DEF ChainOf, ControlOf, Appending
  <2>6. QED
    BY <1>0, <2>1, <2>2, <2>4, <2>5 DEF ChainOf
<1>5. CASE WriteEvent(c)
  <2>1. pc[c] = "write" /\ pc' = [pc EXCEPT ![c] = "replaceHead"] /\ UNCHANGED seen /\ Listed(c)' = Listed(c)
    BY <1>5 DEF WriteEvent, Goto, Listed
  <2>2. Len(events') = Len(events) /\ UNCHANGED head /\ events'[Len(events)].state = "whole" /\ LastIsMine(c)
    BY <1>0, <1>5, WriteKeepsIntact
  <2>3. LastIsMine(c)'
    BY <1>0, <2>1, <2>2 DEF LastIsMine, TypeOK
  <2>4. \A i \in seen'[c] : events'[i].state = "whole"
    BY <1>0, <2>1 DEF ChainOf, ControlOf, Appending
  <2>5. QED
    BY <1>0, <2>1, <2>2, <2>3, <2>4 DEF ChainOf, Appending
<1>6. ASSUME pc'[c] \notin {"head"} \cup Appending PROVE ChainOf(c)'
  BY <1>6 DEF ChainOf, Appending
<1>7. CASE ~(Read(c) /\ Chained(seen[c])) /\ ~(ReadHead(c) /\ HeadMatches(seen[c]) /\ job[c] # Verification)
           /\ ~(Dedupe(c) /\ pc'[c] # "idle") /\ ~(CreateEvent(c) /\ Listed(c) + 1 \notin Present)
           /\ ~WriteEvent(c)
  <2>1. pc'[c] \notin {"head"} \cup Appending
    BY <1>0, <1>7 DEF CallerStep, BeginVerify, BeginAppend, CreateHead, WriteHead, Lock, List, Read,
       ReadHead, Dedupe, CreateEvent, ReplaceHead, Interrupt, Listed, Goto, End, Fail, TypeOK, Appending
  <2>2. QED
    BY <1>6, <2>1
<1>8. QED
  BY <1>1, <1>2, <1>3, <1>4, <1>5, <1>7

LEMMA ChainInvStep == TypeInv /\ LockInv /\ ChainInv /\ [Next]_vars => ChainInv'
<1> SUFFICES ASSUME TypeInv, LockInv, ChainInv, [Next]_vars, Untampered'
             PROVE  Intact' /\ AnsweredIsKept' /\ \A d \in Caller : ChainOf(d)'
  BY DEF ChainInv, Intact
<1>1. Intact' /\ AnsweredIsKept'
  BY IntactStep, AnsweredStep
<1>2. ASSUME NEW d \in Caller PROVE ChainOf(d)'
  <2>1. ASSUME NEW c \in Caller, CallerStep(c) PROVE ChainOf(d)'
    BY <2>1, ChainOfOthers, ChainOfOwn
  <2>2. ASSUME NEW i \in DOMAIN events, Tamper(i) PROVE FALSE
    BY <2>2 DEF Tamper, Untampered, TypeInv, TypeOK
  <2>3. CASE UNCHANGED vars
    <3>1. ChainOf(d)
      BY <2>3 DEF vars, ChainInv, Untampered
    <3>2. QED
      BY <2>3, <3>1 DEF vars, disk, ChainOf, LastIsMine, Listed
  <2>4. QED
    BY <2>1, <2>2, <2>3 DEF Next, CallerStep
<1>3. QED
  BY <1>1, <1>2

LEMMA ChainInvInit == Init => ChainInv
<1> SUFFICES ASSUME Init PROVE ChainInv
  OBVIOUS
<1>1. /\ events = <<>> /\ head.count = 0 /\ answered = {} /\ \A c \in Caller : pc[c] = "idle"
  BY DEF Init, EmptyHead
<1>2. QED
  BY <1>1 DEF ChainInv, ChainIntact, HeadWithinOne, AnsweredIsKept, ChainOf, Appending

LEMMA AllKept == Spec => [](TypeInv /\ LockInv /\ ChainInv)
BY TypeInvInit, TypeInvStep, LockInvInit, LockInvStep, ChainInvInit, ChainInvStep, PTL DEF Spec

\* Without tampering the numbered files are one hash chain, whatever crashed and
\* even if two appenders held the lock at once.
THEOREM Chaining == Spec => []ChainIntact
<1>1. ChainInv => ChainIntact
  BY DEF ChainInv, ChainIntact
<1>2. QED
  BY <1>1, AllKept, PTL

\* head.json counts whole events only and is at most one behind.
THEOREM HeadFollows == Spec => []HeadWithinOne
<1>1. ChainInv => HeadWithinOne
  BY DEF ChainInv, HeadWithinOne
<1>2. QED
  BY <1>1, AllKept, PTL

\* What append answered is in the log for good.
THEOREM AnswersKept == Spec => []AnsweredIsKept
<1>1. ChainInv => AnsweredIsKept
  BY DEF ChainInv, AnsweredIsKept
<1>2. QED
  BY <1>1, AllKept, PTL

----------------------------------------------------------------------------
(* One event per transaction *)

\* Nothing that is present changes its transaction, and only a creation adds to it.
LEMMA PresentKept ==
  ASSUME TypeInv, [Next]_vars, Untampered \/ ~shared, LockInv, ChainInv,
         \A c \in Caller : ~(CreateEvent(c) /\ Listed(c) + 1 \notin Present)
  PROVE  Present' \subseteq Present /\ \A i \in Present' : events'[i].tx = events[i].tx
<1>0. TypeOK /\ DOMAIN events = 1..Len(events)
  BY DEF TypeInv, TypeOK
<1>1. ASSUME NEW c \in Caller, WriteEvent(c)
      PROVE  Present' \subseteq Present /\ \A i \in Present' : events'[i].tx = events[i].tx
  <2>1. events[Listed(c) + 1].state = "torn"
    <3>1. CASE Untampered
      BY <1>1, <3>1 DEF WriteEvent, ChainInv, ChainOf, LastIsMine
    <3>2. CASE ~shared
      BY <1>1, <3>2 DEF WriteEvent, LockInv, AloneOf
    <3>3. QED
      BY <3>1, <3>2
  <2>2. /\ events' \in Seq(File) /\ Len(events') = Len(events)
        /\ events'[Listed(c) + 1].tx = events[Listed(c) + 1].tx
        /\ \A i \in DOMAIN events : i # Listed(c) + 1 => events'[i] = events[i]
    BY <1>1, WrittenEvents
  <2>3. DOMAIN events' = DOMAIN events
    BY <1>0, <2>2
  <2>4. QED
    BY <2>1, <2>2, <2>3 DEF Present
<1>2. ASSUME NEW i \in DOMAIN events, Tamper(i)
      PROVE  Present' \subseteq Present /\ \A j \in Present' : events'[j].tx = events[j].tx
  <2>1. /\ events' \in Seq(File) /\ Len(events') = Len(events) /\ events[i].state = "whole"
        /\ events'[i].tx = events[i].tx
        /\ \A j \in DOMAIN events : j # i => events'[j] = events[j]
    BY <1>0, <1>2, TamperedEvents
  <2>2. DOMAIN events' = DOMAIN events
    BY <1>0, <2>1
  <2>3. QED
    BY <2>1, <2>2 DEF Present
<1>3. ASSUME \A c \in Caller : ~WriteEvent(c), \A i \in DOMAIN events : ~Tamper(i) PROVE UNCHANGED events
  BY <1>3 DEF Next, vars, disk, BeginVerify, BeginAppend, CreateHead, WriteHead, Lock, List, Read, ReadHead,
     Dedupe, CreateEvent, ReplaceHead, Interrupt, Listed
<1>4. QED
  BY <1>1, <1>2, <1>3 DEF Present

NobodyRecorded(c) ==
    pc[c] = "create" /\ job[c] \in Tx /\ Listed(c) + 1 \notin Present =>
        \A i \in Present : events[i].tx # job[c]

LEMMA OnceInvStep == TypeInv /\ LockInv /\ ChainInv /\ OnceInv /\ [Next]_vars => OnceInv'
<1> SUFFICES ASSUME TypeInv, LockInv, ChainInv, OnceInv, [Next]_vars, (Untampered \/ ~shared)'
             PROVE  /\ (\A i, j \in Present : events[i].tx = events[j].tx /\ events[i].tx # NoTx => i = j)'
                    /\ \A d \in Caller : NobodyRecorded(d)'
  BY DEF OnceInv, OncePerTransaction, NobodyRecorded
<1>0. TypeOK /\ (Untampered' => Untampered) /\ (~shared' => ~shared)
  <2>1. ~shared' => ~shared
    BY DEF Next, vars, history, BeginVerify, BeginAppend, CreateHead, WriteHead, Lock, List, Read, ReadHead,
       Dedupe, CreateEvent, WriteEvent, ReplaceHead, Interrupt, Tamper
  <2>2. QED
    BY <2>1, WholeKept DEF TypeInv
<1>1. Untampered \/ ~shared
  BY <1>0
<1>2. /\ \A i, j \in Present : events[i].tx = events[j].tx /\ events[i].tx # NoTx => i = j
      /\ \A d \in Caller : NobodyRecorded(d)
  BY <1>1 DEF OnceInv, OncePerTransaction, NobodyRecorded
<1>3. ASSUME NEW c \in Caller, CreateEvent(c), Listed(c) + 1 \notin Present
      PROVE  /\ (\A i, j \in Present : events[i].tx = events[j].tx /\ events[i].tx # NoTx => i = j)'
             /\ \A d \in Caller : NobodyRecorded(d)'
  <2> DEFINE n == Listed(c) + 1
  <2>1. /\ DOMAIN events' = DOMAIN events \cup {n} /\ events'[n] = NewFile(c)
        /\ \A i \in DOMAIN events : i # n => events'[i] = events[i]
    BY <1>3, CreatedEvents
  <2>2. events'[n].tx = job[c] /\ events'[n].state = "torn"
    BY <2>1 DEF NewFile
  <2>3. Present' = Present \cup {n} /\ \A i \in Present : events'[i] = events[i]
    BY <1>3, <2>1, <2>2 DEF Present
  <2>4. pc[c] = "create" /\ pc'[c] = "write" /\ job[c] \in Tx \cup {NoTx}
    BY <1>0, <1>3 DEF CreateEvent, Goto, Listed, TypeOK, TypeInv, ControlOf, Appending
  <2>5. job[c] \in Tx => \A i \in Present : events[i].tx # job[c]
    BY <1>2, <1>3, <2>4 DEF NobodyRecorded
  <2>6. (\A i, j \in Present : events[i].tx = events[j].tx /\ events[i].tx # NoTx => i = j)'
    BY <1>2, <2>2, <2>3, <2>4, <2>5
  <2>7. ASSUME NEW d \in Caller \ {c}, pc[d] = "create" PROVE Listed(d) + 1 \in Present'
    <3>1. CASE Untampered
      <4>1. /\ Present = 1..Len(events) /\ Len(events) \in Nat /\ Listed(c) = Len(events)
            /\ head.count = Len(events)
        BY <1>3, <2>4, <3>1, FreeNumberIsNext
      <4>2. Listed(d) \in Nat /\ Listed(d) <= head.count
        BY <2>7, <3>1, ListedType DEF ChainInv, ChainOf, Appending
      <4>3. QED
        BY <2>3, <4>1, <4>2
    <3>2. CASE ~shared
      BY <2>4, <2>7, <3>2, OneHolder DEF HoldsLock, Appending
    <3>3. QED
      BY <1>1, <3>1, <3>2
  <2>8. ASSUME NEW d \in Caller PROVE NobodyRecorded(d)'
    <3>1. CASE d = c
      BY <2>4, <3>1 DEF NobodyRecorded
    <3>2. CASE d # c
      <4>1. pc'[d] = pc[d] /\ seen'[d] = seen[d]
        BY <1>0, <1>3, <3>2, OthersKept DEF CallerStep
      <4>2. QED
        BY <2>7, <3>2, <4>1 DEF NobodyRecorded, Listed
    <3>3. QED
      BY <3>1, <3>2
  <2>9. QED
    BY <2>6, <2>8
<1>4. CASE \A c \in Caller : ~(CreateEvent(c) /\ Listed(c) + 1 \notin Present)
  <2>1. Present' \subseteq Present /\ \A i \in Present' : events'[i].tx = events[i].tx
    BY <1>1, <1>4, PresentKept
  <2>2. (\A i, j \in Present : events[i].tx = events[j].tx /\ events[i].tx # NoTx => i = j)'
    BY <1>2, <2>1
  <2>3. ASSUME NEW d \in Caller,
               pc[d] = "create", pc'[d] = pc[d], job'[d] = job[d], seen'[d] = seen[d]
        PROVE  NobodyRecorded(d)'
    <3>1. Listed(d)' = Listed(d)
      BY <2>3 DEF Listed
    <3>2. CASE Untampered'
      <4>1. Present \subseteq Present'
        <5>1. ASSUME NEW i \in Present PROVE i \in Present'
          <6>1. TypeOK' /\ DOMAIN events \subseteq DOMAIN events' /\ Untampered
            BY <3>2, WholeKept, TypeStep
          <6>2. Intact'
            BY <3>2, IntactStep
          <6>3. i \in DOMAIN events'
            BY <6>1 DEF Present
          <6>4. QED
            BY <6>2, <6>3 DEF Intact, Present
        <5>2. QED
          BY <5>1
      <4>2. QED
        BY <1>2, <2>1, <2>3, <3>1, <4>1 DEF NobodyRecorded
    <3>3. CASE ~shared
      <4>1. AloneOf(d) /\ ControlOf(d) /\ Listed(d) \in Nat
        BY <3>3, ListedType DEF LockInv, TypeInv
      <4>2. Listed(d) + 1 \notin Present
        BY <2>3, <4>1 DEF AloneOf, ControlOf, HoldsLock, Appending
      <4>3. QED
        BY <1>2, <2>1, <2>3, <4>2 DEF NobodyRecorded
    <3>4. QED
      BY <1>0, <3>2, <3>3
  <2>4. ASSUME NEW d \in Caller, pc'[d] = "create" PROVE NobodyRecorded(d)'
    <3>1. CASE Dedupe(d)
      <4>1. /\ UNCHANGED <<events, job>> /\ \A i \in Present : events[i].tx # job[d]
        BY <1>0, <2>4, <3>1 DEF Dedupe, Goto, End, TypeOK, disk
      <4>2. QED
        BY <4>1 DEF NobodyRecorded, Present
    <3>2. CASE ReadHead(d)
      <4>1. job'[d] = NoTx \/ job'[d] = Verification
        BY <1>0, <2>4, <3>2 DEF ReadHead, Goto, End, Fail, TypeOK
      <4>2. QED
        BY <4>1, AuditAssumption DEF NobodyRecorded
    <3>3. CASE ~Dedupe(d) /\ ~ReadHead(d)
      <4>1. pc[d] = "create" /\ pc'[d] = pc[d] /\ job'[d] = job[d] /\ seen'[d] = seen[d]
        <5>1. ASSUME NEW c \in Caller \ {d}, CallerStep(c)
              PROVE  pc'[d] = pc[d] /\ job'[d] = job[d] /\ seen'[d] = seen[d]
          BY <1>0, <5>1, OthersKept
        <5>2. ASSUME CallerStep(d) PROVE pc'[d] # "create"
          BY <1>0, <3>3, <5>2 DEF CallerStep, BeginVerify, BeginAppend, CreateHead, WriteHead, Lock, List,
             Read, CreateEvent, WriteEvent, ReplaceHead, Interrupt, Goto, End, Fail, TypeOK
        <5>3. ASSUME NEW i \in DOMAIN events, Tamper(i)
              PROVE  pc'[d] = pc[d] /\ job'[d] = job[d] /\ seen'[d] = seen[d]
          BY <5>3 DEF Tamper
        <5>4. CASE UNCHANGED vars
          BY <2>4, <5>4 DEF vars
        <5>5. QED
          BY <2>4, <5>1, <5>2, <5>3, <5>4 DEF Next, CallerStep
      <4>2. QED
        BY <2>3, <4>1
    <3>4. QED
      BY <3>1, <3>2, <3>3
  <2>5. \A d \in Caller : NobodyRecorded(d)'
    BY <2>4 DEF NobodyRecorded
  <2>6. QED
    BY <2>2, <2>5
<1>5. QED
  BY <1>3, <1>4

\* A transaction has one governed-record event, whether commit, recovery or both
\* append it, in every run that nobody tampers with or that keeps appenders apart.
THEOREM OneEventPerTransaction == Spec => []OncePerTransaction
<1>1. Init => OnceInv
  BY DEF Init, OnceInv, OncePerTransaction, Present
<1>2. OnceInv => OncePerTransaction
  BY DEF OnceInv
<1>3. QED
  BY <1>1, <1>2, TypeInvInit, TypeInvStep, LockInvInit, LockInvStep, ChainInvInit, ChainInvStep,
     OnceInvStep, PTL DEF Spec
=============================================================================
