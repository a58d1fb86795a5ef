---------------------------- MODULE ProjectLock ----------------------------
(***************************************************************************)
(* The on-disk project lock of src/adapters/repository/lock.js.            *)
(*                                                                         *)
(* A lock is a directory that holds one file, owner.json.  Every step of   *)
(* the module is one file-system call of acquireProjectLock, stale or      *)
(* release, so any other contender may run between two of them.  A         *)
(* contender is one pending acquireProjectLock call; a process (a pid) has *)
(* any number of them and takes all of them down when it dies.             *)
(***************************************************************************)
EXTENDS Naturals, FiniteSets

CONSTANTS
    Contender,     \* calls that may compete for the lock
    Process,       \* operating-system processes
    ProcessOf,     \* the process each contender runs in
    Nobody,        \* "no contender": the file does not exist or is unreadable
    MaxExpiries,   \* bound: how many times the lease runs out on a lock
    MaxErrors,     \* bound: how many mkdirs fail otherwise than by finding the directory
    Prompt         \* TRUE: no live contender stalls for a whole lease inside a call

ASSUME LockAssumption ==
    /\ ProcessOf \in [Contender -> Process]
    /\ Nobody \notin Contender
    /\ MaxExpiries \in Nat
    /\ MaxErrors \in Nat
    /\ Prompt \in BOOLEAN

VARIABLES
    dir,        \* the lock directory: does it exist, is its mtime older than the lease
    owner,      \* owner.json: who created it, is it complete, is acquiredAt older than the lease
    pc,         \* next file-system call of each contender
    goal,       \* why a contender is inside release()
    seen,       \* the owner whose liveness stale() is about to test; Nobody = unreadable
    expiries,   \* leases that ran out so far
    errors,     \* mkdirs that failed with another code than EEXIST so far
    usurped     \* history: a live contender's owner.json was removed by another one

vars == <<dir, owner, pc, goal, seen, expiries, errors, usurped>>

NoFile == [by |-> Nobody, valid |-> FALSE, aged |-> FALSE]

Steps == {"idle", "mkdir", "open", "write", "held", "read", "judge", "unlink", "rmdir", "wait", "dead"}
Goals == {"release", "abort", "takeover"}

Live(c) == pc[c] # "dead"

\* A contender whose lock another one must not take away.
Engaged(c) == pc[c] \in {"write", "held"}

Holders == {c \in Contender : pc[c] = "held"}

Goto(c, step) == pc' = [pc EXCEPT ![c] = step]
StartRelease(c, why) == /\ Goto(c, "unlink")
                        /\ goal' = [goal EXCEPT ![c] = why]

Init ==
    /\ dir = [exists |-> FALSE, aged |-> FALSE]
    /\ owner = NoFile
    /\ pc = [c \in Contender |-> "idle"]
    /\ goal = [c \in Contender |-> "release"]
    /\ seen = [c \in Contender |-> Nobody]
    /\ expiries = 0
    /\ errors = 0
    /\ usurped = FALSE

----------------------------------------------------------------------------
(* acquireProjectLock *)

Acquire(c) ==
    /\ pc[c] = "idle"
    /\ Goto(c, "mkdir")
    /\ UNCHANGED <<dir, owner, goal, seen, expiries, errors, usurped>>

Mkdir(c) ==
    /\ pc[c] = "mkdir"
    /\ IF dir.exists
       THEN Goto(c, "read") /\ UNCHANGED dir
       ELSE Goto(c, "open") /\ dir' = [exists |-> TRUE, aged |-> FALSE]
    /\ UNCHANGED <<owner, goal, seen, expiries, errors, usurped>>

\* An I/O or permission error of mkdir, whoever holds the lock: release() goes by
\* path all the same, then the call throws.
MkdirFails(c) ==
    /\ pc[c] = "mkdir"
    /\ errors < MaxErrors
    /\ errors' = errors + 1
    /\ StartRelease(c, "abort")
    /\ UNCHANGED <<dir, owner, seen, expiries, usurped>>

\* Fault: open without the exclusive flag overwrites somebody's owner.json.
OpenOwnerShared(c) ==
    /\ pc[c] = "open"
    /\ dir.exists
    /\ owner' = [by |-> c, valid |-> FALSE, aged |-> FALSE]
    /\ Goto(c, "write")
    /\ UNCHANGED <<dir, goal, seen, expiries, errors, usurped>>

\* open(owner.json, "wx") succeeds: the exclusive creation is the lock.
OpenOwner(c) ==
    /\ pc[c] = "open"
    /\ dir.exists /\ owner.by = Nobody
    /\ owner' = [by |-> c, valid |-> FALSE, aged |-> FALSE]
    /\ dir' = [dir EXCEPT !.aged = FALSE]
    /\ Goto(c, "write")
    /\ UNCHANGED <<goal, seen, expiries, errors, usurped>>

\* EEXIST from open is handled as EEXIST from mkdir.
OpenFindsOwner(c) ==
    /\ pc[c] = "open"
    /\ dir.exists /\ owner.by # Nobody
    /\ Goto(c, "read")
    /\ UNCHANGED <<dir, owner, goal, seen, expiries, errors, usurped>>

\* Fault: throw without removing the directory that mkdir made.
OpenFailsUnreleased(c) ==
    /\ pc[c] = "open"
    /\ Goto(c, "idle")
    /\ UNCHANGED <<dir, owner, goal, seen, expiries, errors, usurped>>

\* ENOENT (the directory was removed meanwhile), or an I/O error: release, then throw.
OpenFails(c) ==
    /\ pc[c] = "open"
    /\ StartRelease(c, "abort")
    /\ UNCHANGED <<dir, owner, seen, expiries, errors, usurped>>

\* The write goes to the open file, which may have been unlinked since.
WriteOwner(c) ==
    /\ pc[c] = "write"
    /\ owner' = IF owner.by = c THEN [by |-> c, valid |-> TRUE, aged |-> FALSE] ELSE owner
    /\ Goto(c, "held")
    /\ UNCHANGED <<dir, goal, seen, expiries, errors, usurped>>

WriteFails(c) ==
    /\ pc[c] = "write"
    /\ StartRelease(c, "abort")
    /\ UNCHANGED <<dir, owner, seen, expiries, errors, usurped>>

\* Before every sleep the elapsed time is compared with the timeout.
Retry(c) ==
    /\ pc[c] = "wait"
    /\ Goto(c, "mkdir")
    /\ UNCHANGED <<dir, owner, goal, seen, expiries, errors, usurped>>

\* Fault: the elapsed time is never compared with the timeout.
GiveUpNever(c) ==
    /\ pc[c] = "wait"
    /\ Goto(c, "mkdir")
    /\ UNCHANGED <<dir, owner, goal, seen, expiries, errors, usurped>>

GiveUp(c) ==
    /\ pc[c] = "wait"
    /\ Goto(c, "idle")
    /\ UNCHANGED <<dir, owner, goal, seen, expiries, errors, usurped>>

----------------------------------------------------------------------------
(* stale *)

\* Fault: the verdict is reached on the whole record instead of the owner in it.
ReadOwnerRecord(c) ==
    /\ pc[c] = "read"
    /\ seen' = [seen EXCEPT ![c] = owner]
    /\ Goto(c, "judge")
    /\ UNCHANGED <<dir, owner, goal, expiries, errors, usurped>>

\* readFile(owner.json): a complete record younger than the lease settles it.
ReadOwner(c) ==
    /\ pc[c] = "read"
    /\ seen' = [seen EXCEPT ![c] = IF owner.valid /\ owner.aged THEN owner.by ELSE Nobody]
    /\ Goto(c, IF owner.valid /\ ~owner.aged THEN "wait" ELSE "judge")
    /\ UNCHANGED <<dir, owner, goal, expiries, errors, usurped>>

\* Fault: an unreadable owner.json is taken for stale whatever its age.
JudgedStaleAtOnce(c) ==
    IF seen[c] # Nobody THEN ~Live(seen[c]) ELSE dir.exists

\* A complete, old record is stale when its process is gone; an absent or
\* unreadable one when the directory is older than the lease.
JudgedStale(c) ==
    IF seen[c] # Nobody THEN ~Live(seen[c]) ELSE dir.exists /\ dir.aged

Judge(c) ==
    /\ pc[c] = "judge"
    /\ IF JudgedStale(c)
       THEN StartRelease(c, "takeover")
       ELSE Goto(c, "wait") /\ UNCHANGED goal
    /\ seen' = [seen EXCEPT ![c] = Nobody]
    /\ UNCHANGED <<dir, owner, expiries, errors, usurped>>

----------------------------------------------------------------------------
(* release *)

Release(c) ==
    /\ pc[c] = "held"
    /\ StartRelease(c, "release")
    /\ UNCHANGED <<dir, owner, seen, expiries, errors, usurped>>

\* unlink(owner.json) goes by path: whoever's file it is, it is removed.
Unlink(c) ==
    /\ pc[c] = "unlink"
    /\ owner' = NoFile
    /\ dir' = IF owner.by = Nobody THEN dir ELSE [dir EXCEPT !.aged = FALSE]
    /\ usurped' = (usurped \/ (owner.by \in Contender \ {c} /\ Engaged(owner.by)))
    /\ Goto(c, "rmdir")
    /\ UNCHANGED <<goal, seen, expiries, errors>>

\* rmdir fails with ENOTEMPTY when somebody created owner.json meanwhile: after
\* a takeover the contender waits, otherwise the call ends (with an error).
Rmdir(c) ==
    /\ pc[c] = "rmdir"
    /\ dir' = IF owner.by = Nobody THEN [exists |-> FALSE, aged |-> FALSE] ELSE dir
    /\ Goto(c, CASE goal[c] # "takeover" -> "idle"
                 [] goal[c] = "takeover" /\ owner.by = Nobody -> "mkdir"
                 [] OTHER -> "wait")
    /\ goal' = [goal EXCEPT ![c] = "release"]
    /\ UNCHANGED <<owner, seen, expiries, errors, usurped>>

----------------------------------------------------------------------------
(* The environment: time and death *)

\* The lease runs out on the directory's mtime, on acquiredAt, or on both.
Expire ==
    /\ expiries < MaxExpiries
    /\ Prompt => \A c \in Contender : pc[c] \in {"idle", "wait", "dead"}
    /\ expiries' = expiries + 1
    /\ \/ /\ dir.exists /\ ~dir.aged
          /\ dir' = [dir EXCEPT !.aged = TRUE]
          /\ owner' = [owner EXCEPT !.aged = owner.valid]
       \/ /\ owner.valid /\ ~owner.aged
          /\ owner' = [owner EXCEPT !.aged = TRUE]
          /\ UNCHANGED dir
    /\ UNCHANGED <<pc, goal, seen, errors, usurped>>

Die(p) ==
    /\ \E c \in Contender : ProcessOf[c] = p /\ Live(c)
    /\ pc' = [c \in Contender |-> IF ProcessOf[c] = p THEN "dead" ELSE pc[c]]
    /\ goal' = [c \in Contender |-> IF ProcessOf[c] = p THEN "release" ELSE goal[c]]
    /\ seen' = [c \in Contender |-> IF ProcessOf[c] = p THEN Nobody ELSE seen[c]]
    /\ UNCHANGED <<dir, owner, expiries, errors, usurped>>

----------------------------------------------------------------------------

\* What a contender does of itself once it has called acquireProjectLock.
Progress(c) ==
    \/ Mkdir(c) \/ MkdirFails(c) \/ OpenOwner(c) \/ OpenFindsOwner(c) \/ OpenFails(c)
    \/ WriteOwner(c) \/ WriteFails(c) \/ Retry(c) \/ GiveUp(c) \/ ReadOwner(c) \/ Judge(c)
    \/ Release(c) \/ Unlink(c) \/ Rmdir(c)

Next ==
    \/ \E c \in Contender : Acquire(c) \/ Progress(c)
    \/ \E p \in Process : Die(p)
    \/ Expire

Fairness == \A c \in Contender : WF_vars(Progress(c)) /\ SF_vars(GiveUp(c))

Spec == Init /\ [][Next]_vars /\ Fairness

----------------------------------------------------------------------------

TypeOK ==
    /\ dir \in [exists : BOOLEAN, aged : BOOLEAN]
    /\ owner \in [by : Contender \cup {Nobody}, valid : BOOLEAN, aged : BOOLEAN]
    /\ pc \in [Contender -> Steps]
    /\ goal \in [Contender -> Goals]
    /\ seen \in [Contender -> Contender \cup {Nobody}]
    /\ expiries \in 0..MaxExpiries
    /\ errors \in 0..MaxErrors
    /\ usurped \in BOOLEAN

\* README.md of the adapter: operations are serialized by one project lock.
\* Two live calls never both return from acquireProjectLock without a release.
MutualExclusion == \A c, d \in Holders : c = d

\* The exclusive creation of owner.json is what excludes: two calls hold the
\* lock only after release(), which unlinks by path, removed the file of a live
\* contender other than the one that ran it.
ExclusionUnlessUsurped == ~usurped => MutualExclusion

\* As long as no lock has outlived its lease and every mkdir that failed found the
\* directory there, the lock excludes: contention, acquisitions that fail from open
\* on and dead processes never admit two.  (A mkdir that fails for another reason
\* releases by path: it may remove a live holder's lock.)
ExclusionWithinLease == expiries = 0 /\ errors = 0 => MutualExclusion

\* Whatever the interleaving of releases, takeovers, aborted acquisitions and
\* timeouts, when no call is in progress and no process died holding it, the
\* lock directory is gone: a lock is never left behind by a running system.
NoLeakedLock ==
    (\A c \in Contender : pc[c] = "idle") => ~dir.exists

\* A call that competes for the lock comes to an end: it acquires the lock, or
\* fails, or dies (lock.js bounds the wait by timeoutMilliseconds).
AcquireTerminates ==
    \A c \in Contender : pc[c] = "mkdir" ~> pc[c] \in {"held", "idle", "dead"}
=============================================================================
