----------------------------- MODULE HdfsSpout -----------------------------
(***************************************************************************)
(* HdfsSpout of storm-hdfs-plus with FileLock, DirLock, ProgressTracker    *)
(* and the text reader: spouts share a directory of files.                 *)
(*                                                                         *)
(* A spout reads one file at a time. It owns the file's lock file, to      *)
(* which it appends how far it has come; a lock without a recent entry is  *)
(* taken over, by a spout that holds the DIRLOCK, and its file is resumed. *)
(* A record is emitted, acked or failed; a failed one is emitted again;    *)
(* when all is read and acked the file is archived and unlocked.           *)
(*                                                                         *)
(* Storm acks the tuples in any order, and starts a dead executor again.   *)
(* HDFS creates, renames and deletes atomically, and lets one client       *)
(* write a file, the holder of its lease. Both are external.               *)
(***************************************************************************)
EXTENDS Integers, FiniteSets

CONSTANTS
    Spouts, Files,
    Records,          \* how many records a file has
    MaxPending,       \* topology.max.spout.pending
    MaxOutstanding,   \* maxOutstanding
    None,
    Faults,           \* the kinds of failure that may happen
    MaxCrashes        \* bound: deaths of executors, except by an exception

ASSUME HdfsSpoutAssumption ==
    /\ Records \in Nat /\ MaxPending \in Nat \ {0} /\ MaxOutstanding \in Nat
    /\ None \notin Spouts \cup Files
    /\ Faults \subseteq {"fail", "crash", "torn", "stale"}
    /\ MaxCrashes \in Nat

Offset == 0 .. Records
Record == 1 .. Records

VARIABLES
    place,       \* where each file is
    lockFile,    \* each lock file: absent, without an entry, or how old the entry
    entry,       \* the offset in its last entry
    lease,       \* who may write it
    dirLock,     \* the file DIRLOCK
    pc,          \* what each spout does; "idle" is between two calls of Storm
    seen,        \* the file it has found, and the offset it has read for it
    reader,      \* the file it reads
    plain,       \* has that file kept its name, without .inprogress?
    offset,      \* of the reader
    readAll,     \* fileReadCompletely
    inflight, retryList, tracker,
    acked,       \* history: the records of each file that were acked
    stolen,      \* history: was a living spout's lock seen stale, or its DIRLOCK taken?
    orderly,     \* history: was each record acked before the later ones?
    crashes

files == <<place, lockFile, entry, lease, dirLock>>
reading == <<reader, plain, offset, readAll, inflight, retryList, tracker>>
history == <<acked, stolen, orderly>>
vars == <<files, pc, seen, reading, history, crashes>>

SpTypeOK ==
    /\ place \in [Files -> {"source", "inprogress", "archived"}]
    /\ lockFile \in [Files -> {"none", "empty", "fresh", "stale"}]
    /\ entry \in [Files -> Offset]
    /\ lease \in [Files -> Spouts \cup {None}]
    /\ \A f \in Files : lease[f] # None => lockFile[f] \in {"fresh", "stale"}
    /\ dirLock \in {"none", "fresh", "stale"}
    /\ pc \in [Spouts -> {"idle", "usurp", "create", "scan", "take", "list", "lock",
                          "rename", "closing"}]
    /\ seen \in [Spouts -> [file : Files \cup {None}, at : Offset]]
    /\ reader \in [Spouts -> Files \cup {None}]
    /\ \A s \in Spouts : reader[s] # None => pc[s] \in {"idle", "closing"}
    /\ plain \in [Spouts -> BOOLEAN] /\ readAll \in [Spouts -> BOOLEAN]
    /\ offset \in [Spouts -> Offset]
    /\ inflight \in [Spouts -> SUBSET Record]
    /\ retryList \in [Spouts -> SUBSET Record]
    /\ tracker \in [Spouts -> SUBSET Record]
    /\ \A s \in Spouts :
          /\ Cardinality(inflight[s]) <= MaxPending
          /\ inflight[s] \cap retryList[s] = {}
          /\ inflight[s] \cup retryList[s] \subseteq 1 .. offset[s]
    /\ acked \in [Files -> SUBSET Record]
    /\ stolen \in BOOLEAN /\ orderly \in BOOLEAN
    /\ crashes \in 0 .. MaxCrashes

Nothing == [file |-> None, at |-> 0]

Init ==
    /\ place = [f \in Files |-> "source"]
    /\ lockFile = [f \in Files |-> "none"] /\ entry = [f \in Files |-> 0]
    /\ lease = [f \in Files |-> None] /\ dirLock = "none"
    /\ pc = [s \in Spouts |-> "idle"] /\ seen = [s \in Spouts |-> Nothing]
    /\ reader = [s \in Spouts |-> None] /\ plain = [s \in Spouts |-> FALSE]
    /\ offset = [s \in Spouts |-> 0] /\ readAll = [s \in Spouts |-> TRUE]
    /\ inflight = [s \in Spouts |-> {}] /\ retryList = [s \in Spouts |-> {}]
    /\ tracker = [s \in Spouts |-> {}]
    /\ acked = [f \in Files |-> {}] /\ stolen = FALSE /\ orderly = TRUE
    /\ crashes = 0

Goto(s, where) == pc' = [pc EXCEPT ![s] = where]

\* Storm calls nextTuple.
NextTuple(s) ==
    /\ pc[s] = "idle"
    /\ Cardinality(inflight[s]) < MaxPending

\* An exception other than IOException ends the executor, and so does a crash; the
\* next one starts without a file. Its lease outlives it, but holds nobody up.
Dies(s) ==
    /\ Goto(s, "idle")
    /\ seen' = [seen EXCEPT ![s] = Nothing]
    /\ reader' = [reader EXCEPT ![s] = None] /\ plain' = [plain EXCEPT ![s] = FALSE]
    /\ offset' = [offset EXCEPT ![s] = 0] /\ readAll' = [readAll EXCEPT ![s] = TRUE]
    /\ inflight' = [inflight EXCEPT ![s] = {}]
    /\ retryList' = [retryList EXCEPT ![s] = {}]
    /\ tracker' = [tracker EXCEPT ![s] = {}]

\* As lease, without what s holds.
LeaseWithout(s) == [f \in Files |-> IF lease[f] = s THEN None ELSE lease[f]]

-----------------------------------------------------------------------------
(* pickNextFile: the DIRLOCK.                                              *)

InSection(s) == pc[s] \in {"scan", "take"}

\* Mutant: DIRLOCK is not asked for.
ScanAnyway(s) ==
    /\ NextTuple(s)
    /\ reader[s] = None /\ Cardinality(tracker[s]) < MaxOutstanding
    /\ dirLock' = "fresh"
    /\ Goto(s, "scan")
    /\ UNCHANGED <<place, lockFile, entry, lease, seen, reading, history, crashes>>

\* DirLock.tryLock; if it is taken, takeOwnershipIfStale looks at its age.
TryDirLock(s) ==
    /\ NextTuple(s)
    /\ reader[s] = None /\ Cardinality(tracker[s]) < MaxOutstanding
    /\ \/ /\ dirLock = "none"
          /\ dirLock' = "fresh"
          /\ Goto(s, "scan")
       \/ dirLock = "stale" /\ Goto(s, "usurp") /\ UNCHANGED dirLock
       \/ dirLock = "fresh" /\ Goto(s, "list") /\ UNCHANGED dirLock
    /\ UNCHANGED <<place, lockFile, entry, lease, seen, reading, history, crashes>>

\* takeOwnership: delete tells whether there was a file, not whether it was the
\* stale one.
DeleteDirLock(s) ==
    /\ pc[s] = "usurp"
    /\ IF dirLock # "none"
       THEN /\ Goto(s, "create")
            /\ stolen' = (stolen \/ \E o \in Spouts : InSection(o))
       ELSE Goto(s, "list") /\ UNCHANGED stolen
    /\ dirLock' = "none"
    /\ UNCHANGED <<place, lockFile, entry, lease, seen, reading, acked, orderly, crashes>>

\* The lock is taken to be owned even if another spout has created it meanwhile.
CreateDirLock(s) ==
    /\ pc[s] = "create"
    /\ dirLock' = "fresh"
    /\ stolen' = (stolen \/ \E o \in Spouts : InSection(o))
    /\ Goto(s, "scan")
    /\ UNCHANGED <<place, lockFile, entry, lease, seen, reading, acked, orderly, crashes>>

-----------------------------------------------------------------------------
(* pickNextFile: a lock nobody looks after.                                *)

\* acquireOldestExpiredLock reads the last entry of a stale lock, ...
FindStale(s) ==
    /\ pc[s] = "scan"
    /\ \E f \in Files :
         /\ lockFile[f] = "stale"
         /\ seen' = [seen EXCEPT ![s] = [file |-> f, at |-> entry[f]]]
         /\ stolen' = (stolen \/ lease[f] # None)
    /\ Goto(s, "take")
    /\ UNCHANGED <<files, reading, acked, orderly, crashes>>

\* ... meets an old lock without an entry, and throws a NullPointerException (how old
\* such a lock is, is left open) ...
FindEmpty(s) ==
    /\ pc[s] = "scan"
    /\ \E f \in Files : lockFile[f] = "empty"
    /\ dirLock' = "none"
    /\ Dies(s)
    /\ UNCHANGED <<place, lockFile, entry, lease, history, crashes>>

\* ... or finds none.
FindNone(s) ==
    /\ pc[s] = "scan"
    /\ \A f \in Files : lockFile[f] # "stale"
    /\ dirLock' = "none"
    /\ Goto(s, "list")
    /\ UNCHANGED <<place, lockFile, entry, lease, seen, reading, history, crashes>>

\* recoverLease does not succeed at once, or the lock has gone by now.
TakeFails(s) ==
    /\ pc[s] = "take"
    /\ dirLock' = "none"
    /\ \/ Goto(s, "list")
       \/ lockFile[seen[s].file] = "none" /\ Goto(s, "idle")
    /\ seen' = [seen EXCEPT ![s] = Nothing]
    /\ UNCHANGED <<place, lockFile, entry, lease, reading, history, crashes>>

OpenAt(s, f, o) ==
    /\ reader' = [reader EXCEPT ![s] = f]
    /\ plain' = [plain EXCEPT ![s] = place'[f] = "source"]
    /\ offset' = [offset EXCEPT ![s] = o]
    /\ readAll' = [readAll EXCEPT ![s] = FALSE]
    /\ seen' = [seen EXCEPT ![s] = Nothing]
    /\ Goto(s, "idle")
    /\ UNCHANGED <<inflight, retryList, tracker>>

\* Mutant: a new owner starts one record further on.
TakeOneFurther(s) ==
    LET f == seen[s].file
        o == IF seen[s].at < Records THEN seen[s].at + 1 ELSE seen[s].at
    IN
    /\ pc[s] = "take"
    /\ lockFile[f] \in {"fresh", "stale"}
    /\ lockFile' = [lockFile EXCEPT ![f] = "fresh"]
    /\ entry' = [entry EXCEPT ![f] = o]
    /\ dirLock' = "none"
    /\ UNCHANGED <<place, history, crashes>>
    /\ IF place[f] = "archived"
       THEN Dies(s) /\ lease' = [lease EXCEPT ![f] = None]
       ELSE OpenAt(s, f, o) /\ lease' = [lease EXCEPT ![f] = s]

\* takeOwnership: append the offset read before, and resume there. The holder of
\* the lease, if it lives, cannot write any more. If the file is archived already
\* createFileReader throws an IllegalArgumentException.
Take(s) ==
    LET f == seen[s].file IN
    /\ pc[s] = "take"
    /\ lockFile[f] \in {"fresh", "stale"}
    /\ lockFile' = [lockFile EXCEPT ![f] = "fresh"]
    /\ entry' = [entry EXCEPT ![f] = seen[s].at]
    /\ dirLock' = "none"
    /\ UNCHANGED <<place, history, crashes>>
    /\ IF place[f] = "archived"
       THEN Dies(s) /\ lease' = [lease EXCEPT ![f] = None]
       ELSE OpenAt(s, f, seen[s].at) /\ lease' = [lease EXCEPT ![f] = s]

-----------------------------------------------------------------------------
(* pickNextFile: a new file.                                               *)

ListFiles(s) ==
    /\ pc[s] = "list"
    /\ \/ /\ \E f \in Files : /\ place[f] = "source"
                              /\ seen' = [seen EXCEPT ![s] = [file |-> f, at |-> 0]]
          /\ Goto(s, "lock")
       \/ /\ \A f \in Files : place[f] # "source"
          /\ Goto(s, "idle") /\ UNCHANGED seen
    /\ UNCHANGED <<files, reading, history, crashes>>

\* FileLock.tryLock and its first entry. Torn: the spout dies in between.
TryLock(s) ==
    LET f == seen[s].file IN
    /\ pc[s] = "lock" /\ lockFile[f] = "none"
    /\ lockFile' = [lockFile EXCEPT ![f] = "fresh"]
    /\ entry' = [entry EXCEPT ![f] = 0]
    /\ lease' = [lease EXCEPT ![f] = s]
    /\ Goto(s, "rename")
    /\ UNCHANGED <<place, dirLock, seen, reading, history, crashes>>

TryLockTorn(s) ==
    LET f == seen[s].file IN
    /\ "torn" \in Faults /\ crashes < MaxCrashes
    /\ pc[s] = "lock" /\ lockFile[f] = "none"
    /\ lockFile' = [lockFile EXCEPT ![f] = "empty"]
    /\ crashes' = crashes + 1
    /\ Dies(s)
    /\ UNCHANGED <<place, entry, lease, dirLock, history>>

IsLocked(s) ==
    /\ pc[s] = "lock" /\ lockFile[seen[s].file] # "none"
    /\ Goto(s, "idle")
    /\ seen' = [seen EXCEPT ![s] = Nothing]
    /\ UNCHANGED <<files, reading, history, crashes>>

\* release: close fails for a spout that has lost the lease, and then the lock
\* file stays.
Release(s, f) ==
    IF lease[f] = s
    THEN /\ lockFile' = [lockFile EXCEPT ![f] = "none"]
         /\ lease' = [lease EXCEPT ![f] = None]
         /\ entry' = [entry EXCEPT ![f] = 0]
    ELSE UNCHANGED <<lockFile, lease, entry>>

\* renameToInProgressFile; the file may have been read and archived since it was
\* listed.
RenameAndOpen(s) ==
    LET f == seen[s].file IN
    /\ pc[s] = "rename" /\ place[f] = "source"
    /\ place' = [place EXCEPT ![f] = "inprogress"]
    /\ OpenAt(s, f, 0)
    /\ UNCHANGED <<lockFile, entry, lease, dirLock, history, crashes>>

RenameFails(s) ==
    LET f == seen[s].file IN
    /\ pc[s] = "rename" /\ place[f] # "source"
    /\ Release(s, f)
    /\ seen' = [seen EXCEPT ![s] = Nothing]
    /\ Goto(s, "idle")
    /\ UNCHANGED <<place, dirLock, reading, history, crashes>>

-----------------------------------------------------------------------------
(* Reading.                                                                *)

IsFirst(o, T) == o \in T /\ \A p \in T : o <= p

\* The offsets without those from the first one on that another follows directly.
TrimHead(T) ==
    {o \in T : ~ (o + 1 \in T /\ \A p \in T : p .. o \subseteq T)}

\* recordAckedOffset: an offset is that of the end of its record.
RecordAcked(T, r) ==
    LET U == T \cup {r} IN IF IsFirst(r - 1, U) THEN TrimHead(U) ELSE U

\* commitProgress: at times the first offset in the tracker is written to the lock
\* file, which is a heartbeat too; without the lease that fails.
CommitProgress(s, T) ==
    LET f == reader[s] IN
    \/ /\ lease[f] = s
       /\ \E o \in T : IsFirst(o, T) /\ entry' = [entry EXCEPT ![f] = o]
       /\ lockFile' = [lockFile EXCEPT ![f] = "fresh"]
    \/ UNCHANGED <<entry, lockFile>>

\* nextTuple: a failed tuple first, ...
EmitAgain(s) ==
    /\ NextTuple(s)
    /\ \E r \in retryList[s] :
         /\ retryList' = [retryList EXCEPT ![s] = @ \ {r}]
         /\ inflight' = [inflight EXCEPT ![s] = @ \cup {r}]
    /\ UNCHANGED <<files, pc, seen, reader, plain, offset, readAll, tracker, history,
                   crashes>>

CanRead(s) ==
    /\ NextTuple(s)
    /\ retryList[s] = {} /\ Cardinality(tracker[s]) < MaxOutstanding
    /\ reader[s] # None /\ ~readAll[s]

\* ... else the next record, ...
EmitNext(s) ==
    /\ CanRead(s)
    /\ offset[s] < Records
    /\ offset' = [offset EXCEPT ![s] = @ + 1]
    /\ inflight' = [inflight EXCEPT ![s] = @ \cup {offset[s] + 1}]
    /\ CommitProgress(s, tracker[s])
    /\ UNCHANGED <<place, lease, dirLock, pc, seen, reader, plain, readAll, retryList,
                   tracker, history, crashes>>

\* ... and at the end of the file nothing until the acks have come.
ReachEnd(s) ==
    /\ CanRead(s)
    /\ offset[s] = Records
    /\ readAll' = [readAll EXCEPT ![s] = TRUE]
    /\ UNCHANGED <<files, pc, seen, reader, plain, offset, inflight, retryList, tracker,
                   history, crashes>>

\* The history variables after an ack of r.
Acknowledge(s, r) ==
    /\ acked' = [acked EXCEPT ![reader[s]] = @ \cup {r}]
    /\ orderly' = (orderly /\ retryList[s] = {} /\ \A q \in inflight[s] : r <= q)
    /\ UNCHANGED stolen

LastAck(s, r) == readAll[s] /\ inflight[s] = {r}

\* ack, with more to come.
Ack(s, r) ==
    /\ pc[s] = "idle" /\ r \in inflight[s] /\ ~LastAck(s, r)
    /\ inflight' = [inflight EXCEPT ![s] = @ \ {r}]
    /\ tracker' = [tracker EXCEPT ![s] = RecordAcked(@, r)]
    /\ CommitProgress(s, RecordAcked(tracker[s], r))
    /\ Acknowledge(s, r)
    /\ UNCHANGED <<place, lease, dirLock, pc, seen, reader, plain, offset, readAll,
                   retryList, crashes>>

\* Mutant: the file is done when its end has been read.
ArchiveAtEnd(s, r) ==
    /\ pc[s] = "idle" /\ r \in inflight[s] /\ readAll[s]
    /\ ~plain[s]
    /\ inflight' = [inflight EXCEPT ![s] = @ \ {r}]
    /\ tracker' = [tracker EXCEPT ![s] = RecordAcked(@, r)]
    /\ CommitProgress(s, RecordAcked(tracker[s], r))
    /\ Acknowledge(s, r)
    /\ place' = [place EXCEPT ![reader[s]] = IF @ = "inprogress" THEN "archived" ELSE @]
    /\ Goto(s, "closing")
    /\ UNCHANGED <<lease, dirLock, seen, reader, plain, offset, readAll, retryList,
                   crashes>>

\* ack of the last one in flight, renameCompletedFile; whether a failed tuple still
\* waits in retryList is not looked at.
AckAndArchive(s, r) ==
    /\ pc[s] = "idle" /\ r \in inflight[s] /\ LastAck(s, r)
    /\ ~plain[s]
    /\ inflight' = [inflight EXCEPT ![s] = @ \ {r}]
    /\ tracker' = [tracker EXCEPT ![s] = RecordAcked(@, r)]
    /\ CommitProgress(s, RecordAcked(tracker[s], r))
    /\ Acknowledge(s, r)
    /\ place' = [place EXCEPT ![reader[s]] = IF @ = "inprogress" THEN "archived" ELSE @]
    /\ Goto(s, "closing")
    /\ UNCHANGED <<lease, dirLock, seen, reader, plain, offset, readAll, retryList,
                   crashes>>

\* The same of a file that its first owner did not get round to rename: there is no
\* suffix to cut off, substring throws.
AckAndThrow(s, r) ==
    /\ pc[s] = "idle" /\ r \in inflight[s] /\ LastAck(s, r)
    /\ plain[s]
    /\ CommitProgress(s, RecordAcked(tracker[s], r))
    /\ Acknowledge(s, r)
    /\ lease' = LeaseWithout(s)
    /\ Dies(s)
    /\ UNCHANGED <<place, dirLock, crashes>>

\* closeReaderAndResetTrackers, which forgets the retryList too.
CloseReader(s) ==
    /\ pc[s] = "closing"
    /\ Release(s, reader[s])
    /\ Dies(s)
    /\ UNCHANGED <<place, dirLock, history, crashes>>

\* Mutant: a failed tuple stays in flight.
FailKeeps(s, r) ==
    /\ "fail" \in Faults
    /\ pc[s] = "idle" /\ r \in inflight[s]
    /\ retryList' = [retryList EXCEPT ![s] = @ \cup {r}]
    /\ UNCHANGED <<files, pc, seen, reader, plain, offset, readAll, inflight, tracker,
                   history, crashes>>

Fail(s, r) ==
    /\ "fail" \in Faults
    /\ pc[s] = "idle" /\ r \in inflight[s]
    /\ inflight' = [inflight EXCEPT ![s] = @ \ {r}]
    /\ retryList' = [retryList EXCEPT ![s] = @ \cup {r}]
    /\ UNCHANGED <<files, pc, seen, reader, plain, offset, readAll, tracker, history,
                   crashes>>

-----------------------------------------------------------------------------
(* Deaths and time.                                                        *)

Crash(s) ==
    /\ "crash" \in Faults /\ crashes < MaxCrashes
    /\ pc[s] # "idle" \/ reader[s] # None
    /\ crashes' = crashes + 1
    /\ Dies(s)
    /\ lease' = LeaseWithout(s)
    /\ UNCHANGED <<place, lockFile, entry, dirLock, history>>

\* The lock time-out passes without a new entry: the owner is dead, waits for acks,
\* or has read a file whose last ack came before its end.
GetStale ==
    /\ "stale" \in Faults
    /\ \/ \E f \in Files : /\ lockFile[f] = "fresh"
                           /\ lockFile' = [lockFile EXCEPT ![f] = "stale"]
                           /\ UNCHANGED dirLock
       \/ dirLock = "fresh" /\ dirLock' = "stale" /\ UNCHANGED lockFile
    /\ UNCHANGED <<place, entry, lease, pc, seen, reading, history, crashes>>

-----------------------------------------------------------------------------
Pick(s) ==
    \/ TryDirLock(s) \/ DeleteDirLock(s) \/ CreateDirLock(s)
    \/ FindStale(s) \/ FindEmpty(s) \/ FindNone(s) \/ TakeFails(s) \/ Take(s)
    \/ ListFiles(s) \/ TryLock(s) \/ TryLockTorn(s) \/ IsLocked(s)
    \/ RenameAndOpen(s) \/ RenameFails(s)

Read(s) == EmitAgain(s) \/ EmitNext(s) \/ ReachEnd(s) \/ CloseReader(s)

Answer(s, r) == Ack(s, r) \/ AckAndArchive(s, r) \/ AckAndThrow(s, r) \/ Fail(s, r)

Next ==
    \/ \E s \in Spouts :
         Pick(s) \/ Read(s) \/ Crash(s) \/ \E r \in Record : Answer(s, r)
    \/ GetStale

Spec == Init /\ [][Next]_vars

-----------------------------------------------------------------------------
(* Properties.                                                             *)

\* The README: "each instance will consume a different file". It does, through
\* listings that are out of date, crashes at any point and take-overs, as long
\* as no lock of a living spout is found stale and no spout loses the DIRLOCK while
\* it looks for stale ones: lock files alone keep spouts apart.
OneReader ==
    ~stolen => \A s, o \in Spouts : s # o /\ reader[s] # None => reader[s] # reader[o]

\* Where a new owner resumes, everything before was acked, by whichever spout, even
\* if two of them read the file, as long as acks come in order.
NoneSkipped ==
    orderly => \A f \in Files :
        lockFile[f] \in {"fresh", "stale"} => 1 .. entry[f] \subseteq acked[f]

\* An archived file was acked to its last record, as long as acks come in order.
ArchivedIsAcked ==
    orderly => \A f \in Files : place[f] = "archived" => acked[f] = Record

\* The README of maxOutstanding: "Limits the number of unACKed tuples by pausing
\* tuple generation". A pause inside a file is for a tuple that is not acked; with
\* none, no ack would ever end it.
PausedForAcks ==
    \A s \in Spouts :
        reader[s] # None /\ ~readAll[s] /\ Cardinality(tracker[s]) >= MaxOutstanding
            => inflight[s] \cup retryList[s] # {}

=============================================================================
