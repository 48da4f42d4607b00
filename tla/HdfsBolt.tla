------------------------------ MODULE HdfsBolt ------------------------------
(***************************************************************************)
(* One task of the HDFS bolt the launcher topology writes its logs with:   *)
(* AbstractHdfsBolt with the time-out policy this project added to it.     *)
(*                                                                         *)
(* The task keeps one open file per partition. Two threads use the map of  *)
(* open files (writers) and the map of their opening times (writersTtl):   *)
(*   - the executor, in execute(), which holds writeLock throughout;       *)
(*   - a Timer, in doTtlClose(), which holds it only while it closes.      *)
(* A tuple is acked once its data has been synced, so that the spout will  *)
(* not send it again.                                                      *)
(*                                                                         *)
(* HDFS is external: hsync and close make everything written to the file   *)
(* durable, and a closed file takes no more data. Single operations on the *)
(* two maps are taken to be atomic.                                        *)
(***************************************************************************)
EXTENDS Integers, Sequences, FiniteSets

CONSTANTS
    Tuples,          \* tuples that reach the task; a replay is another tuple
    Keys,            \* getHashKeyForTuple: one per partition directory
    KeyOf,           \* the key of a tuple
    MaxOpenFiles,    \* maxOpenFiles
    SyncCount,       \* CountSyncPolicy.count
    FileRetryCount,  \* fileRetryCount
    Rotates,         \* FileSizeRotationPolicy, or NoRotationPolicy
    MaxRecords,      \* maxBytes, in records
    Ttl,             \* does outTime ever pass while a file is open?
    Kind,            \* "text": HDFSWriter, "seq": SequenceFileWriter
    Faults           \* the file system operations that may fail

ASSUME HdfsBoltAssumption ==
    /\ KeyOf \in [Tuples -> Keys]
    /\ "nil" \notin Tuples
    /\ IsFiniteSet(Keys)
    /\ MaxOpenFiles \in Nat \ {0}
    /\ SyncCount \in Nat \ {0}
    /\ FileRetryCount \in Nat \ {0}
    /\ Rotates \in BOOLEAN
    /\ MaxRecords \in Nat \ {0}
    /\ Ttl \in BOOLEAN
    /\ Kind \in {"text", "seq"}
    /\ Faults \subseteq {"create", "write", "sync", "close"}

VARIABLES
    writers,      \* key -> its open file; files are numbered as they are made
    lru,          \* the keys of writers, in access order
    writersTtl,   \* key -> the file whose opening time it holds
    ttlOrder,     \* the keys of writersTtl, in insertion order
    made,         \* files made so far
    expired,      \* files up to this number were opened more than outTime ago
    closed,       \* files closed
    broken,       \* files whose close() failed
    fileOf,       \* tuple -> the file it was written to
    durable,      \* tuples HDFS will not lose
    pc,           \* the executor
    tuple, file,  \* the tuple execute() handles, and its writer
    tupleBatch,   \* tuples written and not answered
    executeCount, \* CountSyncPolicy
    toSync,       \* keys the running syncAllWriters has not reached
    syncMod,      \* has writers changed under that iteration?
    attempts,     \* of the sync loop
    tpc,          \* the timer
    ttlTodo,      \* keys the running doTtlClose has not reached
    ttlMod,       \* has writersTtl changed under that iteration?
    writeKey, old,\* the entry the timer handles, and its writer
    acked, failed,
    lost          \* tuples a dead process held and never answered

None == 0         \* no file
Nil == "nil"      \* no tuple, or no key

maps == <<writers, lru, writersTtl, ttlOrder>>
hdfs == <<made, closed, broken, fileOf, durable>>
exec == <<pc, tuple, file, tupleBatch, executeCount, toSync, syncMod, attempts>>
timer == <<tpc, ttlTodo, ttlMod, writeKey, old>>
answers == <<acked, failed, lost>>
vars == <<maps, hdfs, expired, exec, timer, answers>>

OpenKeys == {k \in Keys : writers[k] # None}
TtlKeys == {k \in Keys : writersTtl[k] # None}
ContentOf(f) == {t \in Tuples : fileOf[t] = f}

HbTypeOK ==
    /\ writers \in [Keys -> 0 .. made]
    /\ lru \in Seq(Keys) /\ {lru[i] : i \in 1 .. Len(lru)} = OpenKeys
    /\ Len(lru) = Cardinality(OpenKeys) /\ Len(lru) <= MaxOpenFiles
    /\ writersTtl \in [Keys -> 0 .. made]
    /\ ttlOrder \in Seq(Keys) /\ {ttlOrder[i] : i \in 1 .. Len(ttlOrder)} = TtlKeys
    /\ made \in Nat /\ expired \in 0 .. made
    /\ closed \subseteq 1 .. made /\ broken \subseteq (1 .. made) \ closed
    /\ fileOf \in [Tuples -> 0 .. made]
    /\ durable \subseteq Tuples
    /\ pc \in {"idle", "stamp", "write", "mark", "sync", "rotate", "dead", "stopped"}
    /\ tuple \in Tuples \cup {Nil} /\ file \in 0 .. made
    /\ tupleBatch \subseteq Tuples
    /\ executeCount \in 0 .. SyncCount
    /\ toSync \subseteq Keys /\ syncMod \in BOOLEAN
    /\ attempts \in 0 .. FileRetryCount
    /\ tpc \in {"idle", "next", "get", "close", "removeWriter", "removeTtl", "dead"}
    /\ ttlTodo \in Seq(Keys) /\ ttlMod \in BOOLEAN
    /\ writeKey \in Keys \cup {Nil} /\ old \in 0 .. made
    /\ acked \subseteq Tuples /\ failed \subseteq Tuples /\ lost \subseteq Tuples

\* prepare(): a process with empty maps.
Prepared ==
    /\ writers' = [k \in Keys |-> None] /\ lru' = <<>>
    /\ writersTtl' = [k \in Keys |-> None] /\ ttlOrder' = <<>>
    /\ pc' = "idle" /\ tuple' = Nil /\ file' = None /\ tupleBatch' = {}
    /\ executeCount' = 0 /\ toSync' = {} /\ syncMod' = FALSE /\ attempts' = 0
    /\ tpc' = "idle" /\ ttlTodo' = <<>> /\ ttlMod' = FALSE
    /\ writeKey' = Nil /\ old' = None

Init ==
    /\ writers = [k \in Keys |-> None] /\ lru = <<>>
    /\ writersTtl = [k \in Keys |-> None] /\ ttlOrder = <<>>
    /\ made = 0 /\ expired = 0 /\ closed = {} /\ broken = {}
    /\ fileOf = [t \in Tuples |-> None] /\ durable = {}
    /\ pc = "idle" /\ tuple = Nil /\ file = None /\ tupleBatch = {}
    /\ executeCount = 0 /\ toSync = {} /\ syncMod = FALSE /\ attempts = 0
    /\ tpc = "idle" /\ ttlTodo = <<>> /\ ttlMod = FALSE
    /\ writeKey = Nil /\ old = None
    /\ acked = {} /\ failed = {} /\ lost = {}

-----------------------------------------------------------------------------
(* LinkedHashMap and HDFS.                                                 *)

\* Key k leaves an order, where it is at most once.
Without(s, k) ==
    IF \E i \in 1 .. Len(s) : s[i] = k
      THEN LET i == CHOOSE i \in 1 .. Len(s) : s[i] = k
           IN  SubSeq(s, 1, i - 1) \o SubSeq(s, i + 1, Len(s))
      ELSE s

\* get() moves an entry of the access-ordered map to the end.
Touched(k) == IF writers[k] = None THEN lru ELSE Append(Without(lru, k), k)

\* writers.put of a new key, and removeEldestEntry: the file of the evicted
\* entry is neither closed nor synced, and its writersTtl entry stays.
PutWriter(k, f) ==
    LET full == Cardinality(OpenKeys) >= MaxOpenFiles IN
    /\ writers' = [j \in Keys |->
                     IF j = k THEN f
                     ELSE IF full /\ j = Head(lru) THEN None ELSE writers[j]]
    /\ lru' = Append(IF full THEN Tail(lru) ELSE lru, k)

RemoveWriter(k) ==
    /\ writers' = [writers EXCEPT ![k] = None]
    /\ lru' = Without(lru, k)

\* writersTtl.put: an existing entry keeps its place.
PutTtl(k, f) ==
    /\ writersTtl' = [writersTtl EXCEPT ![k] = f]
    /\ ttlOrder' = IF writersTtl[k] = None THEN Append(ttlOrder, k) ELSE ttlOrder
    /\ ttlMod' = (ttlMod \/ writersTtl[k] = None)

RemoveTtl(k) ==
    /\ writersTtl' = [writersTtl EXCEPT ![k] = None]
    /\ ttlOrder' = Without(ttlOrder, k)
    /\ ttlMod' = (ttlMod \/ writersTtl[k] # None)

Open(f) == f \notin closed \cup broken

\* close() of the files of S, of which those of B throw an IOException; closing
\* a closed file does nothing.
CloseFiles(S, B) ==
    /\ B # {} => "close" \in Faults
    /\ closed' = closed \cup {f \in S \ B : Open(f)}
    /\ broken' = broken \cup B
    /\ durable' = durable \cup {t \in Tuples : fileOf[t] \in S \ B /\ Open(fileOf[t])}

\* FileSizeRotationPolicy.mark, as of the last record written to the file.
NeedsRotation(f) ==
    Rotates /\ f # None /\ Cardinality(ContentOf(f)) >= MaxRecords

\* An exception other than IOException leaves execute(): Storm kills the
\* worker. What it held is never answered; Storm's timeout fails it.
Die(held) ==
    /\ pc' = "dead"
    /\ tupleBatch' = {}
    /\ lost' = lost \cup held

-----------------------------------------------------------------------------
(* execute(), under writeLock.                                             *)

\* getOrCreateWriter of a key that has a writer.
ExecuteKnown(t) ==
    /\ pc = "idle"
    /\ t \notin tupleBatch \cup acked \cup failed \cup lost
    /\ writers[KeyOf[t]] # None
    /\ tuple' = t
    /\ file' = writers[KeyOf[t]]
    /\ lru' = Touched(KeyOf[t])
    /\ pc' = "write"
    /\ UNCHANGED <<writers, writersTtl, ttlOrder, hdfs, expired, tupleBatch,
                   executeCount, toSync, syncMod, attempts, timer, answers>>

\* Of a key that has none: makeNewWriter and writers.put.
ExecuteNew(t) ==
    /\ pc = "idle"
    /\ t \notin tupleBatch \cup acked \cup failed \cup lost
    /\ writers[KeyOf[t]] = None
    /\ tuple' = t
    /\ file' = made + 1
    /\ made' = made + 1
    /\ PutWriter(KeyOf[t], made + 1)
    /\ pc' = "stamp"
    /\ UNCHANGED <<writersTtl, ttlOrder, closed, broken, fileOf, durable, expired,
                   tupleBatch, executeCount, toSync, syncMod, attempts, timer,
                   answers>>

\* makeNewWriter throws: the tuple is failed, there is no writer.
CreateFails(t) ==
    /\ "create" \in Faults
    /\ pc = "idle"
    /\ t \notin tupleBatch \cup acked \cup failed \cup lost
    /\ writers[KeyOf[t]] = None
    /\ tuple' = t
    /\ failed' = failed \cup {t}
    /\ pc' = "mark"
    /\ UNCHANGED <<maps, hdfs, expired, file, tupleBatch, executeCount, toSync,
                   syncMod, attempts, timer, acked, lost>>

\* A tick tuple is acked at once and forces a sync.
ExecuteTick ==
    /\ pc = "idle"
    /\ pc' = "mark"
    /\ UNCHANGED <<maps, hdfs, expired, tuple, file, tupleBatch, executeCount,
                   toSync, syncMod, attempts, timer, answers>>

\* writersTtl.put(writerKey, now)
Stamp ==
    /\ pc = "stamp"
    /\ PutTtl(KeyOf[tuple], file)
    /\ pc' = "write"
    /\ UNCHANGED <<writers, lru, hdfs, expired, tuple, file, tupleBatch,
                   executeCount, toSync, syncMod, attempts, tpc, ttlTodo,
                   writeKey, old, answers>>

\* writer.write(tuple); tupleBatch.add(tuple)
Write ==
    /\ pc = "write"
    /\ Open(file)
    /\ fileOf' = [fileOf EXCEPT ![tuple] = file]
    /\ tupleBatch' = tupleBatch \cup {tuple}
    /\ pc' = "mark"
    /\ UNCHANGED <<maps, made, closed, broken, durable, expired, tuple, file,
                   executeCount, toSync, syncMod, attempts, timer, answers>>

\* IOException: HDFS fails, or the timer has closed a text file.
WriteFails ==
    /\ pc = "write"
    /\ \/ "write" \in Faults /\ Open(file)
       \/ file \in broken
       \/ Kind = "text" /\ file \in closed
    /\ failed' = failed \cup {tuple}
    /\ pc' = "mark"
    /\ UNCHANGED <<maps, hdfs, expired, tuple, file, tupleBatch, executeCount,
                   toSync, syncMod, attempts, timer, acked, lost>>

\* A closed SequenceFile.Writer has no stream: append throws a
\* NullPointerException.
WriteDies ==
    /\ pc = "write"
    /\ Kind = "seq" /\ file \in closed
    /\ Die(tupleBatch \cup {tuple})
    /\ UNCHANGED <<maps, hdfs, expired, tuple, file, executeCount, toSync,
                   syncMod, attempts, timer, acked, failed>>

\* After the sync, if there was one: rotate, or leave execute().
Finish ==
    IF NeedsRotation(file)
      THEN pc' = "rotate" /\ UNCHANGED <<tuple, file>>
      ELSE pc' = "idle" /\ tuple' = Nil /\ file' = None

\* Mutant: a tick neither forces a sync nor counts.
MarkCountOnly ==
    /\ pc = "mark"
    /\ executeCount' = executeCount + (IF tuple = Nil THEN 0 ELSE 1)
    /\ IF executeCount' >= SyncCount
         THEN /\ pc' = "sync"
              /\ toSync' = OpenKeys /\ syncMod' = FALSE /\ attempts' = 1
              /\ UNCHANGED <<tuple, file>>
         ELSE Finish /\ UNCHANGED <<toSync, syncMod, attempts>>
    /\ UNCHANGED <<maps, hdfs, expired, tupleBatch, timer, answers>>

\* syncPolicy.mark counts every tuple, ticks and failed ones included; a tick
\* or a failed write forces a sync of a non-empty batch.
Mark ==
    /\ pc = "mark"
    /\ executeCount' = executeCount + 1
    /\ IF \/ executeCount' >= SyncCount
          \/ tuple \notin tupleBatch /\ tupleBatch # {}
         THEN /\ pc' = "sync"
              /\ toSync' = OpenKeys /\ syncMod' = FALSE /\ attempts' = 1
              /\ UNCHANGED <<tuple, file>>
         ELSE Finish /\ UNCHANGED <<toSync, syncMod, attempts>>
    /\ UNCHANGED <<maps, hdfs, expired, tupleBatch, timer, answers>>

\* One writer.sync() of syncAllWriters; hsync of a closed SequenceFile.Writer
\* does nothing.
SyncOne(k) ==
    /\ pc = "sync"
    /\ k \in toSync
    /\ ~syncMod
    /\ Open(writers[k]) \/ (Kind = "seq" /\ writers[k] \in closed)
    /\ durable' = durable \cup ContentOf(writers[k])
    /\ toSync' = toSync \ {k}
    /\ UNCHANGED <<maps, made, closed, broken, fileOf, expired, pc, tuple, file,
                   tupleBatch, executeCount, syncMod, attempts, timer, answers>>

CannotSync(k) ==
    /\ k \in toSync
    /\ ~syncMod
    /\ \/ "sync" \in Faults /\ Open(writers[k])
       \/ writers[k] \in broken
       \/ Kind = "text" /\ writers[k] \in closed

\* An IOException ends the attempt; the next one starts over.
SyncRetry(k) ==
    /\ pc = "sync"
    /\ CannotSync(k)
    /\ attempts < FileRetryCount
    /\ attempts' = attempts + 1
    /\ toSync' = OpenKeys
    /\ UNCHANGED <<maps, hdfs, expired, pc, tuple, file, tupleBatch, executeCount,
                   syncMod, timer, answers>>

\* The last attempt fails: the batch is failed, and the bolt killed.
SyncGivesUp(k) ==
    /\ pc = "sync"
    /\ CannotSync(k)
    /\ attempts = FileRetryCount
    /\ failed' = failed \cup tupleBatch
    /\ Die({})
    /\ UNCHANGED <<maps, hdfs, expired, tuple, file, executeCount, toSync,
                   syncMod, attempts, timer, acked>>

\* The timer has changed writers: ConcurrentModificationException, which is no
\* IOException.
SyncDies ==
    /\ pc = "sync"
    /\ toSync # {} /\ syncMod
    /\ Die(tupleBatch)
    /\ UNCHANGED <<maps, hdfs, expired, tuple, file, executeCount, toSync,
                   syncMod, attempts, timer, acked, failed>>

\* Mutant: the batch is not cleared.
SyncDoneKeepBatch ==
    /\ pc = "sync"
    /\ toSync = {}
    /\ acked' = acked \cup tupleBatch
    /\ executeCount' = 0
    /\ Finish
    /\ UNCHANGED <<maps, hdfs, expired, tupleBatch, toSync, syncMod, attempts,
                   timer, failed, lost>>

\* Mutant: the sync policy is not reset.
SyncDoneNoReset ==
    /\ pc = "sync"
    /\ toSync = {}
    /\ acked' = acked \cup tupleBatch
    /\ tupleBatch' = {}
    /\ Finish
    /\ UNCHANGED <<maps, hdfs, expired, executeCount, toSync, syncMod, attempts,
                   timer, failed, lost>>

\* All synced: the batch is acked.
SyncDone ==
    /\ pc = "sync"
    /\ toSync = {}
    /\ acked' = acked \cup tupleBatch
    /\ tupleBatch' = {}
    /\ executeCount' = 0
    /\ Finish
    /\ UNCHANGED <<maps, hdfs, expired, toSync, syncMod, attempts, timer, failed,
                   lost>>

\* doRotationAndRemoveWriter: the entries go even if close() fails.
Rotate ==
    /\ pc = "rotate"
    /\ \E B \in SUBSET {f \in {file} : Open(f)} : CloseFiles({file}, B)
    /\ RemoveWriter(KeyOf[tuple])
    /\ RemoveTtl(KeyOf[tuple])
    /\ pc' = "idle" /\ tuple' = Nil /\ file' = None
    /\ UNCHANGED <<made, fileOf, expired, tupleBatch, executeCount, toSync, syncMod,
                   attempts, tpc, ttlTodo, writeKey, old, answers>>

\* cleanup(): close and forget every writer; nothing is acked.
Cleanup ==
    /\ pc = "idle"
    /\ \E B \in SUBSET {writers[k] : k \in {j \in OpenKeys : Open(writers[j])}} :
         CloseFiles({writers[k] : k \in OpenKeys}, B)
    /\ writers' = [k \in Keys |-> None] /\ lru' = <<>>
    /\ writersTtl' = [k \in Keys |-> None] /\ ttlOrder' = <<>>
    /\ pc' = "stopped"
    /\ lost' = lost \cup tupleBatch
    /\ tupleBatch' = {}
    /\ UNCHANGED <<made, fileOf, expired, tuple, file, executeCount, toSync,
                   syncMod, attempts, timer, acked, failed>>

\* The supervisor starts the worker again.
Restart ==
    /\ pc = "dead"
    /\ Prepared
    /\ UNCHANGED <<hdfs, expired, answers>>

-----------------------------------------------------------------------------
(* doTtlClose(), on the timer's thread.                                    *)

Running == pc \notin {"dead", "stopped"}
LockFree == pc = "idle"

\* outTime goes by for the oldest file it has not gone by for.
Age ==
    /\ Ttl
    /\ expired < made
    /\ expired' = expired + 1
    /\ UNCHANGED <<maps, hdfs, exec, timer, answers>>

\* The interval is over: iterate over writersTtl.
TimerRuns ==
    /\ Ttl /\ Running
    /\ tpc = "idle"
    /\ tpc' = "next"
    /\ ttlTodo' = ttlOrder
    /\ ttlMod' = FALSE
    /\ UNCHANGED <<maps, hdfs, expired, exec, writeKey, old, answers>>

TimerNext ==
    /\ Running
    /\ tpc = "next"
    /\ ttlTodo # <<>> /\ ~ttlMod
    /\ ttlTodo' = Tail(ttlTodo)
    /\ IF writersTtl[Head(ttlTodo)] <= expired
         THEN tpc' = "get" /\ writeKey' = Head(ttlTodo)
         ELSE UNCHANGED <<tpc, writeKey>>
    /\ UNCHANGED <<maps, hdfs, expired, exec, ttlMod, old, answers>>

TimerDone ==
    /\ Running
    /\ tpc = "next"
    /\ ttlTodo = <<>>
    /\ tpc' = "idle" /\ writeKey' = Nil /\ old' = None /\ ttlMod' = FALSE
    /\ UNCHANGED <<maps, hdfs, expired, exec, ttlTodo, answers>>

\* ConcurrentModificationException, also from the timer's own remove: the
\* Timer's thread ends.
TimerDies ==
    /\ Running
    /\ tpc = "next"
    /\ ttlTodo # <<>> /\ ttlMod
    /\ tpc' = "dead"
    /\ UNCHANGED <<maps, hdfs, expired, exec, ttlTodo, ttlMod, writeKey, old, answers>>

\* writers.get(writeKey), an access that reorders the map.
TimerGet ==
    /\ Running
    /\ tpc = "get"
    /\ old' = writers[writeKey]
    /\ lru' = Touched(writeKey)
    /\ syncMod' = (syncMod \/ lru' # lru)
    /\ tpc' = "close"
    /\ UNCHANGED <<writers, writersTtl, ttlOrder, hdfs, expired, pc, tuple, file,
                   tupleBatch, executeCount, toSync, attempts, ttlTodo, ttlMod,
                   writeKey, answers>>

\* rotateOutputFile(null): NullPointerException, and the Timer's thread ends.
TimerGotNull ==
    /\ LockFree
    /\ tpc = "close"
    /\ old = None
    /\ tpc' = "dead"
    /\ UNCHANGED <<maps, hdfs, expired, exec, ttlTodo, ttlMod, writeKey, old, answers>>

\* Mutant: the timer drops the writer without closing it.
TimerSkipsClose ==
    /\ LockFree
    /\ tpc = "close"
    /\ old # None
    /\ tpc' = "removeWriter"
    /\ UNCHANGED <<maps, hdfs, expired, exec, ttlTodo, ttlMod, writeKey, old, answers>>

TimerClose ==
    /\ LockFree
    /\ tpc = "close"
    /\ old # None
    /\ old \notin broken
    /\ CloseFiles({old}, {})
    /\ tpc' = "removeWriter"
    /\ UNCHANGED <<maps, made, fileOf, expired, exec, ttlTodo, ttlMod, writeKey,
                   old, answers>>

\* IOException: both entries stay.
TimerCloseFails ==
    /\ LockFree
    /\ tpc = "close"
    /\ old # None
    /\ "close" \in Faults
    /\ old \notin closed
    /\ CloseFiles({old}, {old})
    /\ tpc' = "next"
    /\ UNCHANGED <<maps, made, fileOf, expired, exec, ttlTodo, ttlMod, writeKey,
                   old, answers>>

\* writers.remove(writeKey), without the lock.
TimerRemoveWriter ==
    /\ Running
    /\ tpc = "removeWriter"
    /\ RemoveWriter(writeKey)
    /\ syncMod' = (syncMod \/ writers[writeKey] # None)
    /\ tpc' = "removeTtl"
    /\ UNCHANGED <<writersTtl, ttlOrder, hdfs, expired, pc, tuple, file, tupleBatch,
                   executeCount, toSync, attempts, ttlTodo, ttlMod, writeKey, old,
                   answers>>

\* writersTtl.remove(writeKey), without the lock.
TimerRemoveTtl ==
    /\ Running
    /\ tpc = "removeTtl"
    /\ RemoveTtl(writeKey)
    /\ tpc' = "next"
    /\ UNCHANGED <<writers, lru, hdfs, expired, exec, ttlTodo, writeKey, old,
                   answers>>

-----------------------------------------------------------------------------
ExecStep ==
    \/ Stamp \/ Write \/ WriteFails \/ WriteDies \/ Mark
    \/ \E k \in Keys : SyncOne(k) \/ SyncRetry(k) \/ SyncGivesUp(k)
    \/ SyncDies \/ SyncDone \/ Rotate

TimerStep ==
    \/ TimerRuns \/ TimerNext \/ TimerDone \/ TimerDies \/ TimerGet \/ TimerGotNull
    \/ TimerClose \/ TimerCloseFails \/ TimerRemoveWriter \/ TimerRemoveTtl

Next ==
    \/ \E t \in Tuples : ExecuteKnown(t) \/ ExecuteNew(t) \/ CreateFails(t)
    \/ ExecuteTick \/ ExecStep \/ Cleanup \/ Restart \/ Age \/ TimerStep

Spec == Init /\ [][Next]_vars

\* The executor and the timer keep running, Storm sends its tick tuples, time
\* passes. Strong fairness for the timer: writeLock is free most of the time.
FairSpec ==
    /\ Spec
    /\ WF_vars(ExecStep) /\ SF_vars(TimerStep) /\ WF_vars(Age)
    /\ SF_vars(ExecuteTick)

-----------------------------------------------------------------------------
(* Properties.                                                             *)

\* An acked tuple is never lost: the ack follows a sync of the file it was
\* written to, or that file's close, whatever rotation, eviction, the timer and
\* failing writes have done to the map of writers in between (execute 150-165).
AckedIsDurable == acked \subseteq durable

\* No tuple is answered twice, acked after a failure or failed after an ack:
\* the batch only holds tuples Storm still waits for.
AnsweredOnce ==
    /\ acked \cap failed = {}
    /\ tupleBatch \cap (acked \cup failed) = {}

Sink == INSTANCE DurableSink WITH stored <- durable

\* Seen from Storm, the bolt is a sink that answers each tuple once and for all
\* and acks only what HDFS already has, over restarts of its process too: every
\* step of executor and timer stores, acks, fails, loses, or changes nothing.
SinkRefined == Sink!Spec

\* With tick tuples, no written tuple waits for its answer for ever, however
\* few follow it, unless its process goes away.
BatchSettles ==
    \A t \in Tuples : t \in tupleBatch ~> t \in acked \cup failed \cup lost

=============================================================================
