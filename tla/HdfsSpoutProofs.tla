-------------------------- MODULE HdfsSpoutProofs --------------------------
(***************************************************************************)
(* Proofs about HdfsSpout, for any number of spouts, files and records,    *)
(* any limits and any faults.                                              *)
(***************************************************************************)
EXTENDS HdfsSpout, TLAPS, FiniteSetTheorems

-----------------------------------------------------------------------------
(* Types.                                                                  *)

FilesOK ==
    /\ place \in [Files -> {"source", "inprogress", "archived"}]
    /\ lockFile \in [Files -> {"none", "empty", "fresh", "stale"}]
    /\ entry \in [Files -> Offset]
    /\ lease \in [Files -> Spouts \cup {None}]
    /\ \A f \in Files : lease[f] # None => lockFile[f] \in {"fresh", "stale"}
    /\ dirLock \in {"none", "fresh", "stale"}

\* What a spout has is bounded, and fits what it does.
SpoutsOK ==
    /\ pc \in [Spouts -> {"idle", "usurp", "create", "scan", "take", "list", "lock",
                          "rename", "closing"}]
    /\ seen \in [Spouts -> [file : Files \cup {None}, at : Offset]]
    /\ reader \in [Spouts -> Files \cup {None}]
    /\ \A s \in Spouts : reader[s] # None => pc[s] \in {"idle", "closing"}
    /\ plain \in [Spouts -> BOOLEAN] /\ readAll \in [Spouts -> BOOLEAN]
    /\ offset \in [Spouts -> Offset]
    /\ inflight \in [Spouts -> SUBSET Record]
    /\ retryList \in [Spouts -> SUBSET Record]
    /\ tracker \in [Spouts -> SUBSET Record]
    /\ \A s \in Spouts :
          /\ Cardinality(inflight[s]) <= MaxPending
          /\ inflight[s] \cap retryList[s] = {}
          /\ inflight[s] \cup retryList[s] \subseteq 1 .. offset[s]
    /\ \A s \in Spouts :
          /\ pc[s] \in {"take", "lock", "rename"} => seen[s].file \in Files
          /\ pc[s] = "closing" => reader[s] \in Files
          /\ reader[s] = None => inflight[s] = {} /\ retryList[s] = {} /\ tracker[s] = {}

HistoryOK ==
    /\ acked \in [Files -> SUBSET Record]
    /\ stolen \in BOOLEAN /\ orderly \in BOOLEAN
    /\ crashes \in 0 .. MaxCrashes

TypesOK == FilesOK /\ SpoutsOK /\ HistoryOK

LEMMA Typed == TypesOK => SpTypeOK
  BY DEF TypesOK, FilesOK, SpoutsOK, HistoryOK, SpTypeOK

LEMMA FiniteRecords ==
    ASSUME NEW S \in SUBSET Record
    PROVE  IsFiniteSet(S) /\ Cardinality(S) \in Nat
<1>1. IsFiniteSet(Record)
  BY FS_Interval, HdfsSpoutAssumption DEF Record
<1> QED
  BY <1>1, FS_Subset, FS_CardinalityType

LEMMA TypesInit == Init => TypesOK
<1> SUFFICES ASSUME Init PROVE TypesOK
  OBVIOUS
<1> USE HdfsSpoutAssumption DEF Init
<1>1. FilesOK
  BY DEF FilesOK, Offset
<1>2. SpoutsOK
  <2>1. Cardinality({}) = 0
    BY FS_EmptySet
  <2>2. Nothing \in [file : Files \cup {None}, at : Offset]
    BY DEF Nothing, Offset
  <2> QED
    BY <2>1, <2>2 DEF SpoutsOK, Offset
<1>3. HistoryOK
  <2>1. acked \in [Files -> SUBSET Record]
    OBVIOUS
  <2>2. stolen \in BOOLEAN /\ orderly \in BOOLEAN
    BY Zenon
  <2>3. crashes \in 0 .. MaxCrashes
    OBVIOUS
  <2> QED
    BY <2>1, <2>2, <2>3 DEF HistoryOK
<1> QED
  BY <1>1, <1>2, <1>3 DEF TypesOK

\* A spout that dies has nothing in hand.
LEMMA DiesOK ==
    ASSUME SpoutsOK, NEW s \in Spouts, Dies(s) PROVE SpoutsOK'
  BY FS_EmptySet, HdfsSpoutAssumption
     DEF SpoutsOK, Dies, Goto, Nothing, Offset, Record

\* A spout without a file may go anywhere but to closing.
LEMMA GoOK ==
    ASSUME SpoutsOK, NEW s \in Spouts, UNCHANGED reading,
           NEW where \in {"idle", "usurp", "create", "scan", "take", "list", "lock",
                          "rename"},
           NEW f \in Files \cup {None}, NEW o \in Offset,
           reader[s] # None => where = "idle",
           Goto(s, where),
           \/ seen' = [seen EXCEPT ![s] = [file |-> f, at |-> o]]
              /\ (where \in {"take", "lock", "rename"} => f \in Files)
           \/ UNCHANGED seen
              /\ (where \in {"take", "lock", "rename"} => seen[s].file \in Files)
    PROVE  SpoutsOK'
<1> USE DEF SpoutsOK, Goto, reading
<1>1. pc' \in [Spouts -> {"idle", "usurp", "create", "scan", "take", "list", "lock",
                          "rename", "closing"}]
  OBVIOUS
<1>2. seen' \in [Spouts -> [file : Files \cup {None}, at : Offset]]
  OBVIOUS
<1>3. \A t \in Spouts : reader'[t] # None => pc'[t] \in {"idle", "closing"}
  OBVIOUS
<1>4. \A t \in Spouts : pc'[t] \in {"take", "lock", "rename"} => seen'[t].file \in Files
  OBVIOUS
<1>5. \A t \in Spouts : pc'[t] = "closing" => reader'[t] \in Files
  OBVIOUS
<1> QED
  BY <1>1, <1>2, <1>3, <1>4, <1>5

LEMMA OpenOK ==
    ASSUME SpoutsOK, FilesOK', NEW s \in Spouts, reader[s] = None,
           NEW f \in Files, NEW o \in Offset, OpenAt(s, f, o)
    PROVE  SpoutsOK'
  BY FS_EmptySet, HdfsSpoutAssumption DEF SpoutsOK, FilesOK, OpenAt, Goto, Nothing, Offset, Record

LEMMA CommitOK ==
    ASSUME FilesOK, NEW s \in Spouts, reader[s] \in Files, NEW T \in SUBSET Record,
           CommitProgress(s, T), UNCHANGED <<place, dirLock>>,
           UNCHANGED lease \/ lease' = LeaseWithout(s)
    PROVE  FilesOK'
<1> USE HdfsSpoutAssumption DEF FilesOK, Offset, Record
<1>1. lease' \in [Files -> Spouts \cup {None}] /\ \A f \in Files : lease'[f] \in {lease[f], None}
  BY DEF LeaseWithout
<1>2. CASE UNCHANGED <<entry, lockFile>>
  BY <1>1, <1>2
<1>3. ASSUME NEW o \in T, entry' = [entry EXCEPT ![reader[s]] = o],
             lockFile' = [lockFile EXCEPT ![reader[s]] = "fresh"]
      PROVE  FilesOK'
  BY <1>1, <1>3
<1> QED
  BY <1>2, <1>3 DEF CommitProgress

LEMMA ReleaseOK ==
    ASSUME FilesOK, NEW s \in Spouts, NEW f \in Files, Release(s, f),
           UNCHANGED <<place, dirLock>>
    PROVE  FilesOK'
  BY HdfsSpoutAssumption DEF FilesOK, Release, Offset, Record

LEMMA TrackerOK ==
    ASSUME NEW T \in SUBSET Record, NEW r \in Record
    PROVE  RecordAcked(T, r) \in SUBSET Record
  BY DEF RecordAcked, TrimHead

LEMMA PickOK ==
    ASSUME TypesOK, NEW s \in Spouts, Pick(s) PROVE TypesOK'
<1> USE DEF TypesOK
<1>0. \A f \in Files : entry[f] \in Offset
  BY DEF FilesOK
<1>z. 0 \in Offset
  BY HdfsSpoutAssumption DEF Offset
<1>n. ASSUME NEW where \in {"idle", "usurp", "create", "scan", "list"}, Goto(s, where),
             pc[s] # "idle" \/ reader[s] = None, pc[s] # "closing",
             UNCHANGED seen \/ seen' = [seen EXCEPT ![s] = Nothing],
             UNCHANGED reading
      PROVE  SpoutsOK'
  <2>1. reader[s] = None
    BY <1>n DEF SpoutsOK
  <2> QED
    BY <1>n, <1>z, <2>1, GoOK DEF Nothing
<1>h. ASSUME UNCHANGED <<acked, orderly, crashes>>, stolen' \in BOOLEAN PROVE HistoryOK'
  BY <1>h DEF HistoryOK
<1>f. ASSUME UNCHANGED <<place, lockFile, entry, lease>>, dirLock' \in {"none", "fresh", "stale"}
      PROVE  FilesOK'
  BY <1>f DEF FilesOK
<1>b. stolen \in BOOLEAN /\ dirLock \in {"none", "fresh", "stale"}
  BY DEF HistoryOK, FilesOK
<1>1. CASE TryDirLock(s)
  <2>1. FilesOK' /\ HistoryOK'
    BY <1>1, <1>f, <1>h, <1>b DEF TryDirLock, history
  <2> QED
    BY <1>1, <1>n, <2>1 DEF TryDirLock, NextTuple
<1>2. CASE DeleteDirLock(s)
  <2>1. FilesOK'
    BY <1>2, <1>f DEF DeleteDirLock
  <2>2. stolen' \in BOOLEAN
    BY <1>2, <1>b, Zenon DEF DeleteDirLock
  <2> QED
    BY <1>2, <1>n, <1>h, <2>1, <2>2 DEF DeleteDirLock
<1>3. CASE CreateDirLock(s)
  <2>1. FilesOK'
    BY <1>3, <1>f DEF CreateDirLock
  <2>2. stolen' \in BOOLEAN
    BY <1>3, Zenon DEF CreateDirLock
  <2> QED
    BY <1>3, <1>n, <1>h, <2>1, <2>2 DEF CreateDirLock
<1>4. CASE FindStale(s)
  <2>1. FilesOK'
    BY <1>4, <1>f, <1>b DEF FindStale, files
  <2>2. PICK f \in Files : /\ seen' = [seen EXCEPT ![s] = [file |-> f, at |-> entry[f]]]
                           /\ stolen' = (stolen \/ lease[f] # None)
    BY <1>4 DEF FindStale
  <2>3. stolen' \in BOOLEAN
    BY <2>2, Zenon
  <2>4. reader[s] = None
    BY <1>4 DEF FindStale, SpoutsOK
  <2>5. SpoutsOK'
    BY <1>4, <1>0, <2>2, <2>4, GoOK DEF FindStale
  <2> QED
    BY <1>4, <1>h, <2>1, <2>3, <2>5 DEF FindStale
<1>5. CASE FindEmpty(s)
  BY <1>5, <1>f, <1>h, <1>b, DiesOK DEF FindEmpty, history
<1>6. CASE FindNone(s)
  BY <1>6, <1>f, <1>h, <1>b, <1>n DEF FindNone, history
<1>7. CASE TakeFails(s)
  BY <1>7, <1>f, <1>h, <1>b, <1>n DEF TakeFails, history
<1>8. CASE Take(s)
  <2> DEFINE f == seen[s].file
  <2>1. f \in Files /\ seen[s].at \in Offset /\ reader[s] = None
    BY <1>8 DEF Take, SpoutsOK
  <2>2. FilesOK'
    BY <1>8, <2>1 DEF Take, FilesOK
  <2>3. HistoryOK'
    BY <1>8, <1>h, <1>b DEF Take, history
  <2>4. SpoutsOK'
    BY <1>8, <2>1, <2>2, DiesOK, OpenOK DEF Take
  <2> QED
    BY <2>2, <2>3, <2>4
<1>9. CASE ListFiles(s)
  <2>1. FilesOK' /\ HistoryOK'
    BY <1>9, <1>f, <1>h, <1>b DEF ListFiles, files, history
  <2>2. reader[s] = None
    BY <1>9 DEF ListFiles, SpoutsOK
  <2>3. SpoutsOK'
    BY <1>9, <1>z, <2>2, GoOK DEF ListFiles
  <2> QED
    BY <2>1, <2>3
<1>10. CASE TryLock(s)
  <2>1. seen[s].file \in Files /\ reader[s] = None
    BY <1>10 DEF TryLock, SpoutsOK
  <2>2. FilesOK'
    BY <1>10, <1>z, <2>1 DEF TryLock, FilesOK
  <2>3. SpoutsOK'
    BY <1>10, <1>z, <2>1, GoOK DEF TryLock
  <2> QED
    BY <1>10, <1>h, <1>b, <2>2, <2>3 DEF TryLock, history
<1>11. CASE TryLockTorn(s)
  <2>1. seen[s].file \in Files
    BY <1>11 DEF TryLockTorn, SpoutsOK
  <2>2. lockFile[seen[s].file] = "none"
    BY <1>11 DEF TryLockTorn
  <2>3. FilesOK'
    BY <1>11, <2>1, <2>2 DEF TryLockTorn, FilesOK
  <2>4. HistoryOK'
    BY <1>11, HdfsSpoutAssumption DEF TryLockTorn, HistoryOK, history
  <2> QED
    BY <1>11, DiesOK, <2>3, <2>4 DEF TryLockTorn
<1>12. CASE IsLocked(s)
  BY <1>12, <1>f, <1>h, <1>b, <1>n DEF IsLocked, files, history
<1>13. CASE RenameAndOpen(s)
  <2>1. seen[s].file \in Files /\ reader[s] = None
    BY <1>13 DEF RenameAndOpen, SpoutsOK
  <2>2. FilesOK'
    BY <1>13, <2>1 DEF RenameAndOpen, FilesOK
  <2>3. SpoutsOK'
    BY <1>13, <1>z, <2>1, <2>2, OpenOK DEF RenameAndOpen
  <2> QED
    BY <1>13, <1>h, <1>b, <2>2, <2>3 DEF RenameAndOpen, history
<1>14. CASE RenameFails(s)
  <2>1. seen[s].file \in Files
    BY <1>14 DEF RenameFails, SpoutsOK
  <2>2. FilesOK'
    BY <1>14, <2>1, ReleaseOK DEF RenameFails
  <2> QED
    BY <1>14, <1>h, <1>b, <1>n, <2>2 DEF RenameFails, history
<1> QED
  BY <1>1, <1>2, <1>3, <1>4, <1>5, <1>6, <1>7, <1>8, <1>9, <1>10, <1>11, <1>12, <1>13,
     <1>14 DEF Pick

\* A spout that reads on, or hears of a tuple, has its books in order.
InHand(s) ==
    /\ inflight' \in [Spouts -> SUBSET Record] /\ retryList' \in [Spouts -> SUBSET Record]
    /\ tracker' \in [Spouts -> SUBSET Record] /\ offset' \in [Spouts -> Offset]
    /\ readAll' \in [Spouts -> BOOLEAN]
    /\ \A t \in Spouts \ {s} :
         /\ inflight'[t] = inflight[t] /\ retryList'[t] = retryList[t]
         /\ tracker'[t] = tracker[t] /\ offset'[t] = offset[t]
    /\ Cardinality(inflight'[s]) <= MaxPending
    /\ inflight'[s] \cap retryList'[s] = {}
    /\ inflight'[s] \cup retryList'[s] \subseteq 1 .. offset'[s]

LEMMA InHandOK ==
    ASSUME SpoutsOK, NEW s \in Spouts, pc[s] = "idle", reader[s] \in Files, InHand(s),
           UNCHANGED pc \/ Goto(s, "closing"),
           UNCHANGED <<seen, reader, plain>>
    PROVE  SpoutsOK'
<1> USE DEF SpoutsOK, Goto, InHand
<1>2. \A t \in Spouts : t # s => pc'[t] = pc[t]
  OBVIOUS
<1>3. pc'[s] \in {"idle", "closing"}
  OBVIOUS
<1>4. pc' \in [Spouts -> {"idle", "usurp", "create", "scan", "take", "list", "lock",
                          "rename", "closing"}]
  OBVIOUS
<1>5. ASSUME NEW t \in Spouts
      PROVE  /\ Cardinality(inflight'[t]) <= MaxPending
             /\ inflight'[t] \cap retryList'[t] = {}
             /\ inflight'[t] \cup retryList'[t] \subseteq 1 .. offset'[t]
  <2>1. CASE t = s
    BY <1>3, <2>1
  <2>2. CASE t # s
    <3>1. /\ Cardinality(inflight[t]) <= MaxPending
          /\ inflight[t] \cap retryList[t] = {}
          /\ inflight[t] \cup retryList[t] \subseteq 1 .. offset[t]
      BY <1>5
    <3> QED
      BY <1>2, <1>5, <2>2, <3>1
  <2> QED
    BY <2>1, <2>2
<1>6. ASSUME NEW t \in Spouts
      PROVE  /\ reader'[t] # None => pc'[t] \in {"idle", "closing"}
             /\ pc'[t] \in {"take", "lock", "rename"} => seen'[t].file \in Files
             /\ pc'[t] = "closing" => reader'[t] \in Files
             /\ reader'[t] = None
                  => inflight'[t] = {} /\ retryList'[t] = {} /\ tracker'[t] = {}
  <2>1. CASE t = s
    BY <1>3, <2>1, HdfsSpoutAssumption
  <2>2. CASE t # s
    BY <1>2, <1>6, <2>2
  <2> QED
    BY <2>1, <2>2
<1>7. UNCHANGED <<seen, reader, plain>>
  OBVIOUS
<1> QED
  BY <1>4, <1>5, <1>6, <1>7

LEMMA ReadOK ==
    ASSUME TypesOK, NEW s \in Spouts, Read(s) PROVE TypesOK'
<1> USE DEF TypesOK
<1>t. /\ inflight[s] \in SUBSET Record /\ retryList[s] \in SUBSET Record
      /\ tracker[s] \in SUBSET Record /\ offset[s] \in Offset
      /\ inflight[s] \cap retryList[s] = {}
      /\ inflight[s] \cup retryList[s] \subseteq 1 .. offset[s]
      /\ Cardinality(inflight[s]) <= MaxPending
      /\ reader[s] # None => reader[s] \in Files
      /\ reader[s] = None => inflight[s] = {} /\ retryList[s] = {}
  BY DEF SpoutsOK
<1>c. ASSUME NEW r, Cardinality(inflight[s]) < MaxPending
      PROVE  Cardinality(inflight[s] \cup {r}) <= MaxPending
  BY <1>c, <1>t, FiniteRecords, FS_AddElement, HdfsSpoutAssumption
<1>h. ASSUME UNCHANGED <<history, crashes>> PROVE HistoryOK'
  BY <1>h DEF HistoryOK, history
<1>f. ASSUME UNCHANGED files PROVE FilesOK'
  BY <1>f DEF FilesOK, files
<1>1. CASE EmitAgain(s)
  <2>1. PICK r \in retryList[s] :
            /\ retryList' = [retryList EXCEPT ![s] = retryList[s] \ {r}]
            /\ inflight' = [inflight EXCEPT ![s] = inflight[s] \cup {r}]
    BY <1>1, <1>t DEF EmitAgain
  <2>2. pc[s] = "idle" /\ Cardinality(inflight[s]) < MaxPending /\ reader[s] \in Files
    BY <1>1, <1>t, <2>1 DEF EmitAgain, NextTuple
  <2>3. InHand(s)
    <3>1. Cardinality(inflight[s] \cup {r}) <= MaxPending
      BY <1>c, <2>2
    <3>2. inflight' \in [Spouts -> SUBSET Record] /\ retryList' \in [Spouts -> SUBSET Record]
      BY <1>t, <2>1 DEF SpoutsOK
    <3>3. inflight'[s] = inflight[s] \cup {r} /\ retryList'[s] = retryList[s] \ {r}
      BY <2>1 DEF SpoutsOK
    <3>4. UNCHANGED <<offset, tracker, readAll>>
      BY <1>1 DEF EmitAgain
    <3>5. r \in inflight[s] \cup retryList[s]
      BY <2>1
    <3>6. /\ (inflight[s] \cup {r}) \cap (retryList[s] \ {r}) = {}
          /\ inflight[s] \cup {r} \cup (retryList[s] \ {r}) \subseteq 1 .. offset[s]
      BY <1>t, <3>5
    <3>7. \A t \in Spouts \ {s} : inflight'[t] = inflight[t] /\ retryList'[t] = retryList[t]
      BY <2>1 DEF SpoutsOK
    <3> QED
      BY <3>1, <3>2, <3>3, <3>4, <3>6, <3>7 DEF InHand, SpoutsOK
  <2>4. SpoutsOK'
    BY <1>1, <2>2, <2>3, InHandOK DEF EmitAgain
  <2> QED
    BY <1>1, <1>f, <1>h, <2>4 DEF EmitAgain
<1>2. CASE EmitNext(s)
  <2>1. /\ pc[s] = "idle" /\ Cardinality(inflight[s]) < MaxPending /\ reader[s] \in Files
        /\ retryList[s] = {} /\ offset[s] < Records
        /\ inflight' = [inflight EXCEPT ![s] = inflight[s] \cup {offset[s] + 1}]
        /\ offset' = [offset EXCEPT ![s] = offset[s] + 1]
    BY <1>2, <1>t DEF EmitNext, CanRead, NextTuple
  <2>2. /\ offset[s] + 1 \in Offset /\ offset[s] + 1 \in Record
        /\ inflight[s] \cup {offset[s] + 1} \subseteq 1 .. (offset[s] + 1)
    BY <1>t, <2>1, HdfsSpoutAssumption DEF Offset, Record
  <2>3. InHand(s)
    <3>1. Cardinality(inflight[s] \cup {offset[s] + 1}) <= MaxPending
      BY <1>c, <2>1
    <3>2. inflight' \in [Spouts -> SUBSET Record] /\ offset' \in [Spouts -> Offset]
      BY <1>t, <2>1, <2>2 DEF SpoutsOK
    <3>3. inflight'[s] = inflight[s] \cup {offset[s] + 1} /\ offset'[s] = offset[s] + 1
      BY <2>1 DEF SpoutsOK
    <3>4. UNCHANGED <<retryList, tracker, readAll>>
      BY <1>2 DEF EmitNext
    <3> QED
      BY <1>t, <2>1, <2>2, <3>1, <3>2, <3>3, <3>4 DEF InHand, SpoutsOK
  <2>4. SpoutsOK'
    BY <1>2, <2>1, <2>3, InHandOK DEF EmitNext
  <2>5. FilesOK'
    BY <1>2, <1>t, <2>1, CommitOK DEF EmitNext
  <2> QED
    BY <1>2, <1>h, <2>4, <2>5 DEF EmitNext
<1>3. CASE ReachEnd(s)
  <2>1. pc[s] = "idle" /\ reader[s] \in Files
    BY <1>3, <1>t DEF ReachEnd, CanRead, NextTuple
  <2>2. SpoutsOK'
    <3>1. InHand(s)
      BY <1>3, <1>t DEF ReachEnd, InHand, SpoutsOK
    <3> QED
      BY <1>3, <2>1, <3>1, InHandOK DEF ReachEnd
  <2> QED
    BY <1>3, <1>f, <1>h, <2>2 DEF ReachEnd
<1>4. CASE CloseReader(s)
  <2>1. reader[s] \in Files
    BY <1>4 DEF CloseReader, SpoutsOK
  <2> QED
    BY <1>4, <1>h, <2>1, ReleaseOK, DiesOK DEF CloseReader
<1> QED
  BY <1>1, <1>2, <1>3, <1>4 DEF Read

LEMMA AnswerOK ==
    ASSUME TypesOK, NEW s \in Spouts, NEW r \in Record, Answer(s, r) PROVE TypesOK'
<1> USE DEF TypesOK
<1>t. /\ inflight[s] \in SUBSET Record /\ retryList[s] \in SUBSET Record
      /\ tracker[s] \in SUBSET Record /\ offset[s] \in Offset
      /\ inflight[s] \cap retryList[s] = {}
      /\ inflight[s] \cup retryList[s] \subseteq 1 .. offset[s]
      /\ Cardinality(inflight[s]) <= MaxPending
      /\ reader[s] # None => reader[s] \in Files
      /\ reader[s] = None => inflight[s] = {} /\ retryList[s] = {}
  BY DEF SpoutsOK
<1>r. r \in inflight[s] /\ pc[s] = "idle" /\ reader[s] \in Files
  BY <1>t DEF Answer, Ack, AckAndArchive, AckAndThrow, Fail
<1>c. Cardinality(inflight[s] \ {r}) <= MaxPending
  BY <1>t, FiniteRecords, FS_RemoveElement, HdfsSpoutAssumption
<1>a. RecordAcked(tracker[s], r) \in SUBSET Record
  BY <1>t, TrackerOK
<1>h. ASSUME Acknowledge(s, r), UNCHANGED crashes PROVE HistoryOK'
  <2>1. acked' \in [Files -> SUBSET Record]
    BY <1>h, <1>r DEF Acknowledge, HistoryOK
  <2>2. orderly' \in BOOLEAN /\ stolen' \in BOOLEAN
    BY <1>h, Zenon DEF Acknowledge, HistoryOK
  <2> QED
    BY <1>h, <2>1, <2>2 DEF HistoryOK
<1>1. CASE Ack(s, r)
  <2>1. FilesOK'
    BY <1>1, <1>r, <1>a, CommitOK DEF Ack
  <2>2. /\ inflight' = [inflight EXCEPT ![s] = inflight[s] \ {r}]
        /\ tracker' = [tracker EXCEPT ![s] = RecordAcked(tracker[s], r)]
    BY <1>1 DEF Ack
  <2>3. SpoutsOK'
    <3>1. InHand(s)
      BY <1>1, <1>t, <1>c, <1>a, <2>2 DEF Ack, InHand, SpoutsOK
    <3> QED
      BY <1>1, <1>r, <3>1, InHandOK DEF Ack
  <2> QED
    BY <1>1, <1>h, <2>1, <2>3 DEF Ack
<1>2. CASE AckAndArchive(s, r)
  <2>1. FilesOK'
    <3> DEFINE there == [place EXCEPT ![reader[s]] =
                            IF place[reader[s]] = "inprogress" THEN "archived"
                                                               ELSE place[reader[s]]]
    <3>1. there \in [Files -> {"source", "inprogress", "archived"}]
      BY <1>r DEF FilesOK
    <3>2. place' = there /\ UNCHANGED <<lease, dirLock>>
      BY <1>2 DEF AckAndArchive
    <3>3. CommitProgress(s, RecordAcked(tracker[s], r))
      BY <1>2 DEF AckAndArchive
    <3>4. CASE UNCHANGED <<entry, lockFile>>
      BY <3>1, <3>2, <3>4 DEF FilesOK
    <3>5. ASSUME NEW o \in RecordAcked(tracker[s], r), entry' = [entry EXCEPT ![reader[s]] = o],
                 lockFile' = [lockFile EXCEPT ![reader[s]] = "fresh"]
          PROVE  FilesOK'
      <4>1. o \in Offset
        BY <1>a, <3>5, HdfsSpoutAssumption DEF Record, Offset
      <4> QED
        BY <1>r, <3>1, <3>2, <3>5, <4>1 DEF FilesOK
    <3> QED
      BY <3>3, <3>4, <3>5 DEF CommitProgress
  <2>2. /\ inflight' = [inflight EXCEPT ![s] = inflight[s] \ {r}]
        /\ tracker' = [tracker EXCEPT ![s] = RecordAcked(tracker[s], r)]
    BY <1>2 DEF AckAndArchive
  <2>3. SpoutsOK'
    <3>1. InHand(s)
      BY <1>2, <1>t, <1>c, <1>a, <2>2 DEF AckAndArchive, InHand, SpoutsOK
    <3> QED
      BY <1>2, <1>r, <3>1, InHandOK DEF AckAndArchive
  <2> QED
    BY <1>2, <1>h, <2>1, <2>3 DEF AckAndArchive
<1>3. CASE AckAndThrow(s, r)
  <2>1. FilesOK'
    BY <1>3, <1>r, <1>a, CommitOK DEF AckAndThrow
  <2> QED
    BY <1>3, <1>h, <2>1, DiesOK DEF AckAndThrow
<1>4. CASE Fail(s, r)
  <2>1. /\ inflight' = [inflight EXCEPT ![s] = inflight[s] \ {r}]
        /\ retryList' = [retryList EXCEPT ![s] = retryList[s] \cup {r}]
    BY <1>4 DEF Fail
  <2>2. SpoutsOK'
    <3>1. InHand(s)
      BY <1>4, <1>t, <1>r, <1>c, <2>1 DEF Fail, InHand, SpoutsOK
    <3> QED
      BY <1>4, <1>r, <3>1, InHandOK DEF Fail
  <2>3. FilesOK' /\ HistoryOK'
    BY <1>4 DEF Fail, FilesOK, HistoryOK, files, history
  <2> QED
    BY <2>2, <2>3
<1> QED
  BY <1>1, <1>2, <1>3, <1>4 DEF Answer

LEMMA TypesStep == TypesOK /\ [Next]_vars => TypesOK'
<1> SUFFICES ASSUME TypesOK, [Next]_vars PROVE TypesOK'
  OBVIOUS
<1>1. ASSUME NEW s \in Spouts, Crash(s) PROVE TypesOK'
  <2>1. FilesOK'
    BY <1>1 DEF TypesOK, Crash, FilesOK, LeaseWithout
  <2>2. HistoryOK'
    BY <1>1, HdfsSpoutAssumption DEF TypesOK, Crash, HistoryOK, history
  <2> QED
    BY <1>1, <2>1, <2>2, DiesOK DEF TypesOK, Crash
<1>2. CASE GetStale
  <2>1. FilesOK'
    BY <1>2 DEF TypesOK, GetStale, FilesOK
  <2>2. SpoutsOK' /\ HistoryOK'
    BY <1>2 DEF TypesOK, GetStale, SpoutsOK, HistoryOK, reading, history
  <2> QED
    BY <2>1, <2>2 DEF TypesOK
<1>3. CASE UNCHANGED vars
  BY <1>3 DEF vars, TypesOK, FilesOK, SpoutsOK, HistoryOK, files, reading, history
<1> QED
  BY <1>1, <1>2, <1>3, PickOK, ReadOK, AnswerOK DEF Next

\* HdfsSpout is type correct; with it the spout's tuples are each in flight or to be
\* retried, never both, and never more than topology.max.spout.pending.
THEOREM SpTypeCorrect == Spec => []SpTypeOK
<1>1. Spec => []TypesOK
  BY TypesInit, TypesStep, PTL DEF Spec
<1> QED
  BY <1>1, Typed, PTL

-----------------------------------------------------------------------------
(* Lock files keep spouts apart.                                           *)

\* A spout reads a file, or is about to.
Reads(s, f) == reader[s] = f \/ (pc[s] = "rename" /\ seen[s].file = f)

\* One spout looks for stale locks at a time.
SectionHeld ==
    ~stolen => \A s \in Spouts :
        InSection(s) => dirLock # "none" /\ \A o \in Spouts \ {s} : ~InSection(o)

\* A reader has the lease of the lock file; a lock that is taken over has none.
LocksHeld ==
    ~stolen => \A s \in Spouts :
        /\ \A f \in Files : Reads(s, f) => lease[f] = s
        /\ pc[s] = "take" => lease[seen[s].file] = None /\ lockFile[seen[s].file] # "none"

Apart == TypesOK /\ SectionHeld /\ LocksHeld

LEMMA PickSection ==
    ASSUME TypesOK, SectionHeld, NEW s \in Spouts, Pick(s) PROVE SectionHeld'
<1> USE DEF SectionHeld, InSection, Goto
<1>t. /\ pc \in [Spouts -> {"idle", "usurp", "create", "scan", "take", "list", "lock",
                             "rename", "closing"}]
      /\ stolen \in BOOLEAN
  BY DEF TypesOK, SpoutsOK, HistoryOK
<1>1. CASE TryDirLock(s)
  BY <1>1, <1>t DEF TryDirLock, NextTuple, history
<1>2. CASE DeleteDirLock(s)
  BY <1>2, <1>t DEF DeleteDirLock
<1>3. CASE CreateDirLock(s)
  BY <1>3, <1>t DEF CreateDirLock
<1>4. CASE FindStale(s)
  BY <1>4, <1>t DEF FindStale, files
<1>5. CASE FindEmpty(s)
  BY <1>5, <1>t DEF FindEmpty, Dies, history
<1>6. CASE FindNone(s)
  BY <1>6, <1>t DEF FindNone, history
<1>7. CASE TakeFails(s)
  BY <1>7, <1>t DEF TakeFails, history
<1>8. CASE Take(s)
  BY <1>8, <1>t DEF Take, Dies, OpenAt, history
<1>9. CASE ListFiles(s)
  BY <1>9, <1>t DEF ListFiles, files, history
<1>10. CASE TryLock(s)
  BY <1>10, <1>t DEF TryLock, history
<1>11. CASE TryLockTorn(s)
  BY <1>11, <1>t DEF TryLockTorn, Dies, history
<1>12. CASE IsLocked(s)
  BY <1>12, <1>t DEF IsLocked, files, history
<1>13. CASE RenameAndOpen(s)
  BY <1>13, <1>t DEF RenameAndOpen, OpenAt, history
<1>14. CASE RenameFails(s)
  BY <1>14, <1>t DEF RenameFails, history
<1> QED
  BY <1>1, <1>2, <1>3, <1>4, <1>5, <1>6, <1>7, <1>8, <1>9, <1>10, <1>11, <1>12, <1>13,
     <1>14 DEF Pick

LEMMA ReadSection ==
    ASSUME TypesOK, SectionHeld, NEW s \in Spouts, Read(s) PROVE SectionHeld'
<1> USE DEF SectionHeld, InSection
<1>t. /\ pc \in [Spouts -> {"idle", "usurp", "create", "scan", "take", "list", "lock",
                             "rename", "closing"}]
      /\ stolen \in BOOLEAN
  BY DEF TypesOK, SpoutsOK, HistoryOK
<1>1. CASE EmitAgain(s)
  BY <1>1 DEF EmitAgain, files, history
<1>2. CASE EmitNext(s)
  BY <1>2 DEF EmitNext, history
<1>3. CASE ReachEnd(s)
  BY <1>3 DEF ReachEnd, files, history
<1>4. CASE CloseReader(s)
  BY <1>4, <1>t DEF CloseReader, Dies, Goto, history
<1> QED
  BY <1>1, <1>2, <1>3, <1>4 DEF Read

LEMMA AnswerSection ==
    ASSUME TypesOK, SectionHeld, NEW s \in Spouts, NEW r \in Record, Answer(s, r)
    PROVE  SectionHeld'
<1> USE DEF SectionHeld, InSection, Acknowledge
<1>t. /\ pc \in [Spouts -> {"idle", "usurp", "create", "scan", "take", "list", "lock",
                             "rename", "closing"}]
      /\ stolen \in BOOLEAN
  BY DEF TypesOK, SpoutsOK, HistoryOK
<1>1. CASE Ack(s, r)
  BY <1>1 DEF Ack
<1>2. CASE AckAndArchive(s, r)
  BY <1>2, <1>t DEF AckAndArchive, Goto
<1>3. CASE AckAndThrow(s, r)
  BY <1>3, <1>t DEF AckAndThrow, Dies, Goto
<1>4. CASE Fail(s, r)
  BY <1>4 DEF Fail, files, history
<1> QED
  BY <1>1, <1>2, <1>3, <1>4 DEF Answer

LEMMA SectionStep == TypesOK /\ SectionHeld /\ [Next]_vars => SectionHeld'
<1> SUFFICES ASSUME TypesOK, SectionHeld, [Next]_vars PROVE SectionHeld'
  OBVIOUS
<1> USE DEF SectionHeld, InSection
<1>1. ASSUME NEW s \in Spouts, Crash(s) PROVE SectionHeld'
  BY <1>1 DEF Crash, Dies, Goto, history, TypesOK, SpoutsOK
<1>2. CASE GetStale
  BY <1>2 DEF GetStale, history
<1>3. CASE UNCHANGED vars
  BY <1>3 DEF vars, files, history
<1> QED
  BY <1>1, <1>2, <1>3, PickSection, ReadSection, AnswerSection DEF Next

LEMMA PickLocks ==
    ASSUME TypesOK, SectionHeld, LocksHeld, NEW s \in Spouts, Pick(s) PROVE LocksHeld'
<1> USE DEF LocksHeld, Reads, Goto
<1>t. /\ pc \in [Spouts -> {"idle", "usurp", "create", "scan", "take", "list", "lock",
                             "rename", "closing"}]
      /\ seen \in [Spouts -> [file : Files \cup {None}, at : Offset]]
      /\ reader \in [Spouts -> Files \cup {None}]
      /\ stolen \in BOOLEAN
  BY DEF TypesOK, SpoutsOK, HistoryOK
<1>l. /\ lockFile \in [Files -> {"none", "empty", "fresh", "stale"}]
      /\ lease \in [Files -> Spouts \cup {None}]
      /\ \A f \in Files : lease[f] # None => lockFile[f] \in {"fresh", "stale"}
      /\ None \notin Spouts /\ None \notin Files
  BY HdfsSpoutAssumption DEF TypesOK, FilesOK
<1>s. /\ pc[s] \in {"take", "lock", "rename"} => seen[s].file \in Files
      /\ reader[s] # None => pc[s] \in {"idle", "closing"}
      /\ \A t \in Spouts : pc[t] = "take" => seen[t].file \in Files
  BY DEF TypesOK, SpoutsOK
<1>o. ASSUME UNCHANGED <<lease, lockFile, reader, stolen>>,
             pc'[s] \notin {"take", "rename"},
             \A t \in Spouts \ {s} : pc'[t] = pc[t] /\ seen'[t] = seen[t]
      PROVE  LocksHeld'
  BY <1>o
<1>1. CASE TryDirLock(s)
  BY <1>1, <1>t DEF TryDirLock, NextTuple, history, reading
<1>2. CASE DeleteDirLock(s)
  BY <1>2, <1>t DEF DeleteDirLock, reading
<1>3. CASE CreateDirLock(s)
  BY <1>3, <1>t DEF CreateDirLock, reading
<1>4. CASE FindStale(s)
  <2>1. PICK f \in Files :
            /\ lockFile[f] = "stale"
            /\ seen' = [seen EXCEPT ![s] = [file |-> f, at |-> entry[f]]]
            /\ stolen' = (stolen \/ lease[f] # None)
    BY <1>4 DEF FindStale
  <2>2. /\ pc' = [pc EXCEPT ![s] = "take"] /\ UNCHANGED <<lease, lockFile, reader>>
    BY <1>4 DEF FindStale, files, reading
  <2>3. ASSUME ~stolen', NEW t \in Spouts
        PROVE  /\ \A g \in Files : Reads(t, g)' => lease'[g] = t
               /\ pc'[t] = "take" => /\ lease'[seen'[t].file] = None
                                     /\ lockFile'[seen'[t].file] # "none"
    <3>1. CASE t = s
      <4>1. seen'[t].file = f /\ pc'[t] = "take" /\ reader'[t] = reader[t]
        BY <1>t, <2>1, <2>2, <3>1
      <4>2. ~stolen /\ lease[f] = None
        BY <1>t, <2>1, <2>3
      <4> QED
        BY <2>1, <2>2, <4>1, <4>2
    <3>2. CASE t # s
      BY <1>t, <2>1, <2>2, <2>3, <3>2
    <3> QED
      BY <3>1, <3>2
  <2> QED
    BY <2>3
<1>5. CASE FindEmpty(s)
  BY <1>5, <1>t, <1>l DEF FindEmpty, Dies, history
<1>6. CASE FindNone(s)
  BY <1>6, <1>t DEF FindNone, history, reading
<1>7. CASE TakeFails(s)
  <2>1. UNCHANGED <<lease, lockFile, reader, stolen>>
    BY <1>7 DEF TakeFails, history, reading
  <2>2. pc'[s] \in {"idle", "list", "lock"}
    BY <1>7, <1>t DEF TakeFails
  <2>3. \A t \in Spouts \ {s} : pc'[t] = pc[t] /\ seen'[t] = seen[t]
    BY <1>7, <1>t DEF TakeFails
  <2> QED
    BY <1>o, <2>1, <2>2, <2>3
<1>8. CASE Take(s)
  BY <1>8, <1>t, <1>l, <1>s DEF Take, Dies, OpenAt, history, SectionHeld, InSection
<1>9. CASE ListFiles(s)
  <2>1. UNCHANGED <<lease, lockFile, reader, stolen>>
    BY <1>9 DEF ListFiles, files, history, reading
  <2>2. pc'[s] \in {"idle", "list", "lock"}
    BY <1>9, <1>t DEF ListFiles
  <2>3. \A t \in Spouts \ {s} : pc'[t] = pc[t] /\ seen'[t] = seen[t]
    BY <1>9, <1>t DEF ListFiles
  <2> QED
    BY <1>o, <2>1, <2>2, <2>3
<1>10. CASE TryLock(s)
  BY <1>10, <1>t, <1>l, <1>s DEF TryLock, history, reading
<1>11. CASE TryLockTorn(s)
  BY <1>11, <1>t, <1>l, <1>s DEF TryLockTorn, Dies, history
<1>12. CASE IsLocked(s)
  <2>1. UNCHANGED <<lease, lockFile, reader, stolen>>
    BY <1>12 DEF IsLocked, files, history, reading
  <2>2. pc'[s] \in {"idle", "list", "lock"}
    BY <1>12, <1>t DEF IsLocked
  <2>3. \A t \in Spouts \ {s} : pc'[t] = pc[t] /\ seen'[t] = seen[t]
    BY <1>12, <1>t DEF IsLocked
  <2> QED
    BY <1>o, <2>1, <2>2, <2>3
<1>13. CASE RenameAndOpen(s)
  BY <1>13, <1>t, <1>l, <1>s DEF RenameAndOpen, OpenAt, history
<1>14. CASE RenameFails(s)
  BY <1>14, <1>t, <1>l, <1>s DEF RenameFails, Release, history, reading
<1> QED
  BY <1>1, <1>2, <1>3, <1>4, <1>5, <1>6, <1>7, <1>8, <1>9, <1>10, <1>11, <1>12, <1>13,
     <1>14 DEF Pick

LEMMA ReadLocks ==
    ASSUME TypesOK, LocksHeld, NEW s \in Spouts, Read(s) PROVE LocksHeld'
<1> USE DEF LocksHeld, Reads
<1>t. /\ pc \in [Spouts -> {"idle", "usurp", "create", "scan", "take", "list", "lock",
                             "rename", "closing"}]
      /\ seen \in [Spouts -> [file : Files \cup {None}, at : Offset]]
      /\ reader \in [Spouts -> Files \cup {None}]
      /\ lockFile \in [Files -> {"none", "empty", "fresh", "stale"}]
      /\ lease \in [Files -> Spouts \cup {None}]
      /\ None \notin Spouts /\ None \notin Files
      /\ \A t \in Spouts : pc[t] = "take" => seen[t].file \in Files
      /\ pc[s] = "closing" => reader[s] \in Files
  BY HdfsSpoutAssumption DEF TypesOK, SpoutsOK, FilesOK
<1>1. CASE EmitAgain(s)
  BY <1>1 DEF EmitAgain, files, history
<1>2. CASE EmitNext(s)
  BY <1>2, <1>t DEF EmitNext, CommitProgress, history
<1>3. CASE ReachEnd(s)
  BY <1>3 DEF ReachEnd, files, history
<1>4. CASE CloseReader(s)
  BY <1>4, <1>t DEF CloseReader, Release, Dies, Goto, history
<1> QED
  BY <1>1, <1>2, <1>3, <1>4 DEF Read

LEMMA AnswerLocks ==
    ASSUME TypesOK, LocksHeld, NEW s \in Spouts, NEW r \in Record, Answer(s, r)
    PROVE  LocksHeld'
<1> USE DEF LocksHeld, Reads, Acknowledge
<1>t. /\ pc \in [Spouts -> {"idle", "usurp", "create", "scan", "take", "list", "lock",
                             "rename", "closing"}]
      /\ seen \in [Spouts -> [file : Files \cup {None}, at : Offset]]
      /\ reader \in [Spouts -> Files \cup {None}]
      /\ lockFile \in [Files -> {"none", "empty", "fresh", "stale"}]
      /\ lease \in [Files -> Spouts \cup {None}]
      /\ None \notin Spouts /\ None \notin Files
      /\ \A t \in Spouts : pc[t] = "take" => seen[t].file \in Files
  BY HdfsSpoutAssumption DEF TypesOK, SpoutsOK, FilesOK
<1>1. CASE Ack(s, r)
  BY <1>1, <1>t DEF Ack, CommitProgress
<1>2. CASE AckAndArchive(s, r)
  BY <1>2, <1>t DEF AckAndArchive, CommitProgress, Goto
<1>3. CASE AckAndThrow(s, r)
  BY <1>3, <1>t DEF AckAndThrow, CommitProgress, LeaseWithout, Dies, Goto
<1>4. CASE Fail(s, r)
  BY <1>4 DEF Fail, files, history
<1> QED
  BY <1>1, <1>2, <1>3, <1>4 DEF Answer

LEMMA LocksStep == Apart /\ [Next]_vars => LocksHeld'
<1> SUFFICES ASSUME Apart, [Next]_vars PROVE LocksHeld'
  OBVIOUS
<1> USE DEF Apart, LocksHeld, Reads
<1>t. /\ lease \in [Files -> Spouts \cup {None}]
      /\ lockFile \in [Files -> {"none", "empty", "fresh", "stale"}]
      /\ reader \in [Spouts -> Files \cup {None}]
      /\ pc \in [Spouts -> {"idle", "usurp", "create", "scan", "take", "list", "lock",
                             "rename", "closing"}]
      /\ seen \in [Spouts -> [file : Files \cup {None}, at : Offset]]
      /\ None \notin Spouts /\ None \notin Files
      /\ \A t \in Spouts : pc[t] = "take" => seen[t].file \in Files
  BY HdfsSpoutAssumption DEF TypesOK, SpoutsOK, FilesOK
<1>1. ASSUME NEW s \in Spouts, Crash(s) PROVE LocksHeld'
  BY <1>1, <1>t DEF Crash, Dies, Goto, LeaseWithout, history
<1>2. CASE GetStale
  BY <1>2, <1>t DEF GetStale, reading, history
<1>3. CASE UNCHANGED vars
  BY <1>3 DEF vars, files, reading, history
<1> QED
  BY <1>1, <1>2, <1>3, PickLocks, ReadLocks, AnswerLocks DEF Next

LEMMA ApartInit == Init => Apart
<1> SUFFICES ASSUME Init PROVE Apart
  OBVIOUS
<1>1. TypesOK
  BY TypesInit
<1>2. SectionHeld /\ LocksHeld
  BY HdfsSpoutAssumption DEF Init, SectionHeld, LocksHeld, InSection, Reads
<1> QED
  BY <1>1, <1>2 DEF Apart

\* Two spouts read one file only after a lock of a living spout was found stale, or a
\* spout lost the DIRLOCK while it looked for stale locks.
THEOREM SpoutsReadApart == Spec => []OneReader
<1>1. Apart /\ [Next]_vars => Apart'
  BY TypesStep, SectionStep, LocksStep DEF Apart
<1>2. Apart => OneReader
  <2> SUFFICES ASSUME Apart, ~stolen, NEW s \in Spouts, NEW o \in Spouts, s # o,
                      reader[s] # None, reader[s] = reader[o]
               PROVE  FALSE
    BY DEF OneReader
  <2>1. reader[s] \in Files
    BY DEF Apart, TypesOK, SpoutsOK
  <2>2. lease[reader[s]] = s /\ lease[reader[s]] = o
    BY <2>1 DEF Apart, LocksHeld, Reads
  <2> QED
    BY <2>2
<1> QED
  BY <1>1, <1>2, ApartInit, PTL DEF Spec

-----------------------------------------------------------------------------
(* Acks in order: what a lock file says, and an archived file, can be      *)
(* trusted. The offset up to which a spout's records were acked is k.      *)

AckedUpTo(s, k) ==
    /\ 1 .. k \subseteq acked[reader[s]]
    /\ tracker[s] \subseteq {k}
    /\ inflight[s] \cup retryList[s] = (k + 1) .. offset[s]

\* A spout has in hand what it read and is not acked, and resumes after what is.
SpoutInOrder(s) ==
    /\ reader[s] # None => \E k \in 0 .. offset[s] : AckedUpTo(s, k)
    /\ reader[s] # None /\ readAll[s] => offset[s] = Records
    /\ pc[s] = "take" => 1 .. seen[s].at \subseteq acked[seen[s].file]

FileInOrder(f) ==
    /\ 1 .. entry[f] \subseteq acked[f]
    /\ place[f] = "archived" => acked[f] = Record

InOrder == orderly => (\A s \in Spouts : SpoutInOrder(s)) /\ (\A f \in Files : FileInOrder(f))

\* What a spout does leaves the others as they are.
Alone(s) ==
    \A t \in Spouts \ {s} :
        /\ pc'[t] = pc[t] /\ seen'[t] = seen[t] /\ reader'[t] = reader[t]
        /\ offset'[t] = offset[t] /\ readAll'[t] = readAll[t]
        /\ inflight'[t] = inflight[t] /\ retryList'[t] = retryList[t]
        /\ tracker'[t] = tracker[t]

\* What was acked stays acked, so a spout left alone stays in order.
LEMMA StaysInOrder ==
    ASSUME SpoutsOK, NEW t \in Spouts, SpoutInOrder(t),
           /\ pc'[t] = pc[t] /\ seen'[t] = seen[t] /\ reader'[t] = reader[t]
           /\ offset'[t] = offset[t] /\ readAll'[t] = readAll[t]
           /\ inflight'[t] = inflight[t] /\ retryList'[t] = retryList[t]
           /\ tracker'[t] = tracker[t],
           \A f \in Files : acked[f] \subseteq acked'[f]
    PROVE  SpoutInOrder(t)'
<1>1. /\ reader[t] # None => reader[t] \in Files
      /\ pc[t] = "take" => seen[t].file \in Files
  BY DEF SpoutsOK
<1>2. ASSUME reader'[t] # None PROVE \E k \in 0 .. offset'[t] : AckedUpTo(t, k)'
  <2>1. PICK k \in 0 .. offset[t] : AckedUpTo(t, k)
    BY <1>2 DEF SpoutInOrder
  <2>2. AckedUpTo(t, k)'
    BY <1>1, <1>2, <2>1 DEF AckedUpTo
  <2> QED
    BY <2>1, <2>2
<1>3. pc'[t] = "take" => 1 .. seen'[t].at \subseteq acked'[seen'[t].file]
  BY <1>1 DEF SpoutInOrder
<1>4. reader'[t] # None /\ readAll'[t] => offset'[t] = Records
  BY DEF SpoutInOrder
<1> QED
  BY <1>2, <1>3, <1>4 DEF SpoutInOrder

\* A spout that has died has nothing to keep in order.
LEMMA DeadInOrder ==
    ASSUME SpoutsOK, NEW s \in Spouts, Dies(s) PROVE Alone(s) /\ SpoutInOrder(s)'
<1>1. Alone(s)
  BY DEF SpoutsOK, Dies, Goto, Alone
<1>2. reader'[s] = None /\ pc'[s] = "idle"
  BY DEF SpoutsOK, Dies, Goto
<1> QED
  BY <1>1, <1>2 DEF SpoutInOrder

LEMMA PickAlone ==
    ASSUME SpoutsOK, NEW s \in Spouts, Pick(s)
    PROVE  Alone(s) /\ UNCHANGED <<acked, orderly>>
<1> USE DEF SpoutsOK, Goto, Alone, files, reading, history
<1>1. CASE TryDirLock(s)
  BY <1>1 DEF TryDirLock
<1>2. CASE DeleteDirLock(s)
  BY <1>2 DEF DeleteDirLock
<1>3. CASE CreateDirLock(s)
  BY <1>3 DEF CreateDirLock
<1>4. CASE FindStale(s)
  BY <1>4 DEF FindStale
<1>5. CASE FindEmpty(s)
  BY <1>5 DEF FindEmpty, Dies
<1>6. CASE FindNone(s)
  BY <1>6 DEF FindNone
<1>7. CASE TakeFails(s)
  BY <1>7 DEF TakeFails
<1>8. CASE Take(s)
  BY <1>8 DEF Take, Dies, OpenAt
<1>9. CASE ListFiles(s)
  BY <1>9 DEF ListFiles
<1>10. CASE TryLock(s)
  BY <1>10 DEF TryLock
<1>11. CASE TryLockTorn(s)
  BY <1>11 DEF TryLockTorn, Dies
<1>12. CASE IsLocked(s)
  BY <1>12 DEF IsLocked
<1>13. CASE RenameAndOpen(s)
  BY <1>13 DEF RenameAndOpen, OpenAt
<1>14. CASE RenameFails(s)
  BY <1>14 DEF RenameFails
<1> QED
  BY <1>1, <1>2, <1>3, <1>4, <1>5, <1>6, <1>7, <1>8, <1>9, <1>10, <1>11, <1>12, <1>13,
     <1>14 DEF Pick

\* A spout that opens a file at a record before which all is acked.
LEMMA OpenInOrder ==
    ASSUME SpoutsOK, NEW s \in Spouts, NEW f \in Files, NEW o \in Offset,
           reader[s] = None, OpenAt(s, f, o), 1 .. o \subseteq acked'[f]
    PROVE  SpoutInOrder(s)'
<1>1. /\ reader'[s] = f /\ offset'[s] = o /\ readAll'[s] = FALSE /\ pc'[s] = "idle"
      /\ inflight'[s] = {} /\ retryList'[s] = {} /\ tracker'[s] = {}
  BY DEF OpenAt, Goto, SpoutsOK
<1>2. o \in 0 .. o /\ (o + 1) .. o = {}
  BY HdfsSpoutAssumption DEF Offset
<1>3. AckedUpTo(s, o)'
  BY <1>1, <1>2 DEF AckedUpTo
<1> QED
  BY <1>1, <1>2, <1>3 DEF SpoutInOrder

LEMMA PickInOrder ==
    ASSUME TypesOK, NEW s \in Spouts, Pick(s),
           SpoutInOrder(s), \A f \in Files : FileInOrder(f)
    PROVE  SpoutInOrder(s)' /\ \A f \in Files : FileInOrder(f)'
<1>t. /\ SpoutsOK
      /\ pc \in [Spouts -> {"idle", "usurp", "create", "scan", "take", "list", "lock",
                             "rename", "closing"}]
      /\ seen \in [Spouts -> [file : Files \cup {None}, at : Offset]]
      /\ entry \in [Files -> Offset]
      /\ lockFile \in [Files -> {"none", "empty", "fresh", "stale"}]
      /\ place \in [Files -> {"source", "inprogress", "archived"}]
      /\ lease \in [Files -> Spouts \cup {None}]
      /\ pc[s] \in {"take", "lock", "rename"} => seen[s].file \in Files
      /\ reader[s] # None => pc[s] \in {"idle", "closing"}
  BY DEF TypesOK, SpoutsOK, FilesOK
<1>a. UNCHANGED acked
  BY <1>t, PickAlone
<1>d. ASSUME Dies(s) PROVE SpoutInOrder(s)'
  BY <1>t, <1>d, DeadInOrder
<1>f. ASSUME UNCHANGED <<place, entry>> PROVE \A f \in Files : FileInOrder(f)'
  BY <1>a, <1>f DEF FileInOrder
<1>s. ASSUME UNCHANGED reading, pc'[s] # "take" PROVE SpoutInOrder(s)'
  <2>1. UNCHANGED <<reader, offset, readAll, inflight, retryList, tracker>>
    BY <1>s DEF reading
  <2> QED
    BY <1>a, <1>s, <2>1 DEF SpoutInOrder, AckedUpTo
<1>1. CASE TryDirLock(s)
  BY <1>1, <1>f, <1>s, <1>t DEF TryDirLock, Goto
<1>2. CASE DeleteDirLock(s)
  BY <1>2, <1>f, <1>s, <1>t DEF DeleteDirLock, Goto
<1>3. CASE CreateDirLock(s)
  BY <1>3, <1>f, <1>s, <1>t DEF CreateDirLock, Goto
<1>4. CASE FindStale(s)
  <2>1. PICK f \in Files : seen' = [seen EXCEPT ![s] = [file |-> f, at |-> entry[f]]]
    BY <1>4 DEF FindStale
  <2>2. seen'[s].file = f /\ seen'[s].at = entry[f]
    BY <1>t, <2>1
  <2>3. UNCHANGED <<place, entry>> /\ UNCHANGED reading /\ pc[s] = "scan"
    BY <1>4 DEF FindStale, files
  <2>4. reader'[s] = None
    BY <1>t, <2>3 DEF reading
  <2> QED
    BY <1>a, <1>f, <2>2, <2>3, <2>4 DEF SpoutInOrder, FileInOrder
<1>5. CASE FindEmpty(s)
  BY <1>5, <1>d, <1>f DEF FindEmpty
<1>6. CASE FindNone(s)
  BY <1>6, <1>f, <1>s, <1>t DEF FindNone, Goto
<1>7. CASE TakeFails(s)
  BY <1>7, <1>f, <1>s, <1>t DEF TakeFails, Goto
<1>8. CASE Take(s)
  <2>1. /\ pc[s] = "take" /\ UNCHANGED place /\ reader[s] = None
        /\ entry' = [entry EXCEPT ![seen[s].file] = seen[s].at]
    BY <1>8, <1>t DEF Take
  <2>2. 1 .. seen[s].at \subseteq acked'[seen[s].file]
    BY <1>a, <2>1 DEF SpoutInOrder
  <2>3. \A f \in Files : FileInOrder(f)'
    BY <1>a, <1>t, <2>1, <2>2 DEF FileInOrder
  <2>4. SpoutInOrder(s)'
    <3>1. CASE place[seen[s].file] = "archived"
      BY <1>8, <1>d, <3>1 DEF Take
    <3>2. CASE place[seen[s].file] # "archived"
      <4>1. OpenAt(s, seen[s].file, seen[s].at)
        BY <1>8, <3>2 DEF Take
      <4>2. seen[s].file \in Files /\ seen[s].at \in Offset
        BY <1>t, <2>1
      <4> QED
        BY <1>t, <2>1, <2>2, <4>1, <4>2, OpenInOrder
    <3> QED
      BY <3>1, <3>2
  <2> QED
    BY <2>3, <2>4
<1>9. CASE ListFiles(s)
  BY <1>9, <1>f, <1>s, <1>t DEF ListFiles, Goto, files
<1>10. CASE TryLock(s)
  <2>1. UNCHANGED place /\ entry' = [entry EXCEPT ![seen[s].file] = 0]
    BY <1>10 DEF TryLock
  <2>2. \A f \in Files : FileInOrder(f)'
    <3>1. 1 .. 0 = {}
      OBVIOUS
    <3> QED
      BY <1>a, <1>t, <2>1, <3>1 DEF FileInOrder
  <2> QED
    BY <1>10, <1>s, <1>t, <2>2 DEF TryLock, Goto
<1>11. CASE TryLockTorn(s)
  BY <1>11, <1>d, <1>f DEF TryLockTorn
<1>12. CASE IsLocked(s)
  BY <1>12, <1>f, <1>s, <1>t DEF IsLocked, Goto, files
<1>13. CASE RenameAndOpen(s)
  <2>1. /\ pc[s] = "rename" /\ UNCHANGED entry /\ reader[s] = None
        /\ place' = [place EXCEPT ![seen[s].file] = "inprogress"]
        /\ OpenAt(s, seen[s].file, 0) /\ seen[s].file \in Files
    BY <1>13, <1>t DEF RenameAndOpen
  <2>2. 0 \in Offset /\ 1 .. 0 \subseteq acked'[seen[s].file]
    BY HdfsSpoutAssumption DEF Offset
  <2>3. SpoutInOrder(s)'
    BY <1>t, <2>1, <2>2, OpenInOrder
  <2>4. \A f \in Files : FileInOrder(f)'
    BY <1>a, <1>t, <2>1 DEF FileInOrder
  <2> QED
    BY <2>3, <2>4
<1>14. CASE RenameFails(s)
  <2>1. UNCHANGED place /\ (UNCHANGED entry \/ entry' = [entry EXCEPT ![seen[s].file] = 0])
    BY <1>14 DEF RenameFails, Release
  <2>2. \A f \in Files : FileInOrder(f)'
    <3>1. 1 .. 0 = {}
      OBVIOUS
    <3> QED
      BY <1>a, <1>t, <2>1, <3>1 DEF FileInOrder
  <2> QED
    BY <1>14, <1>s, <1>t, <2>2 DEF RenameFails, Goto
<1> QED
  BY <1>1, <1>2, <1>3, <1>4, <1>5, <1>6, <1>7, <1>8, <1>9, <1>10, <1>11, <1>12, <1>13,
     <1>14 DEF Pick

\* The offset that commitProgress writes is one up to which all is acked.
LEMMA CommitInOrder ==
    ASSUME FilesOK, NEW s \in Spouts, reader[s] \in Files, NEW T, CommitProgress(s, T),
           NEW k, T \subseteq {k}, 1 .. k \subseteq acked'[reader[s]],
           \A f \in Files : 1 .. entry[f] \subseteq acked[f] /\ acked[f] \subseteq acked'[f]
    PROVE  \A f \in Files : 1 .. entry'[f] \subseteq acked'[f]
<1>1. CASE UNCHANGED entry
  BY <1>1
<1>2. CASE \E o \in T : entry' = [entry EXCEPT ![reader[s]] = o]
  <2>1. entry' = [entry EXCEPT ![reader[s]] = k]
    BY <1>2
  <2> QED
    BY <2>1 DEF FilesOK
<1> QED
  BY <1>1, <1>2 DEF CommitProgress

LEMMA ReadInOrder ==
    ASSUME TypesOK, NEW s \in Spouts, Read(s),
           SpoutInOrder(s), \A f \in Files : FileInOrder(f)
    PROVE  /\ Alone(s) /\ UNCHANGED <<acked, orderly>>
           /\ SpoutInOrder(s)' /\ \A f \in Files : FileInOrder(f)'
<1>t. /\ SpoutsOK /\ FilesOK
      /\ inflight \in [Spouts -> SUBSET Record] /\ retryList \in [Spouts -> SUBSET Record]
      /\ offset \in [Spouts -> Offset] /\ readAll \in [Spouts -> BOOLEAN]
      /\ tracker[s] \subseteq Record /\ inflight[s] \subseteq Record
      /\ offset[s] \in Nat
      /\ reader[s] # None => reader[s] \in Files
      /\ reader[s] = None => inflight[s] = {} /\ retryList[s] = {}
      /\ pc[s] = "closing" => reader[s] \in Files
      /\ None \notin Files
  BY HdfsSpoutAssumption DEF TypesOK, SpoutsOK, Offset
<1>1. CASE EmitAgain(s)
  <2>1. PICK r \in retryList[s] :
            /\ retryList' = [retryList EXCEPT ![s] = retryList[s] \ {r}]
            /\ inflight' = [inflight EXCEPT ![s] = inflight[s] \cup {r}]
    BY <1>1, <1>t DEF EmitAgain
  <2>2. /\ pc[s] = "idle"
        /\ UNCHANGED <<place, entry, pc, seen, reader, offset, readAll, tracker, acked, orderly>>
    BY <1>1 DEF EmitAgain, NextTuple, files, history
  <2>3. inflight'[s] \cup retryList'[s] = inflight[s] \cup retryList[s]
    BY <1>t, <2>1
  <2>4. Alone(s)
    BY <1>t, <2>1, <2>2 DEF Alone
  <2>5. SpoutInOrder(s)'
    BY <2>2, <2>3 DEF SpoutInOrder, AckedUpTo
  <2> QED
    BY <2>2, <2>4, <2>5 DEF FileInOrder
<1>2. CASE EmitNext(s)
  <2>1. /\ retryList[s] = {} /\ reader[s] # None /\ ~readAll[s] /\ pc[s] = "idle"
        /\ offset' = [offset EXCEPT ![s] = offset[s] + 1]
        /\ inflight' = [inflight EXCEPT ![s] = inflight[s] \cup {offset[s] + 1}]
        /\ CommitProgress(s, tracker[s])
        /\ UNCHANGED <<place, pc, seen, reader, readAll, retryList, tracker, acked, orderly>>
    BY <1>2 DEF EmitNext, CanRead, NextTuple, history
  <2>2. PICK k \in 0 .. offset[s] : AckedUpTo(s, k)
    BY <2>1 DEF SpoutInOrder
  <2>3. SpoutInOrder(s)'
    <3>1. offset'[s] = offset[s] + 1 /\ inflight'[s] = inflight[s] \cup {offset[s] + 1}
      BY <1>t, <2>1
    <3>2. ((k + 1) .. offset[s]) \cup {offset[s] + 1} = (k + 1) .. (offset[s] + 1)
      BY <1>t
    <3>3. k \in 0 .. offset'[s]
      BY <1>t, <3>1
    <3>4. inflight'[s] \cup retryList'[s] = (k + 1) .. offset'[s]
      BY <2>1, <2>2, <3>1, <3>2 DEF AckedUpTo
    <3>5. AckedUpTo(s, k)'
      BY <2>1, <2>2, <3>4 DEF AckedUpTo
    <3> QED
      BY <2>1, <3>3, <3>5 DEF SpoutInOrder
  <2>4. \A f \in Files : 1 .. entry'[f] \subseteq acked'[f]
    BY <1>t, <2>1, <2>2, CommitInOrder DEF AckedUpTo, FileInOrder
  <2> QED
    BY <1>t, <2>1, <2>3, <2>4 DEF Alone, FileInOrder
<1>3. CASE ReachEnd(s)
  <2>1. /\ offset[s] = Records /\ pc[s] = "idle"
        /\ UNCHANGED <<place, entry, pc, seen, reader, offset, inflight, retryList, tracker,
                       acked, orderly>>
        /\ readAll' = [readAll EXCEPT ![s] = TRUE]
    BY <1>3 DEF ReachEnd, CanRead, NextTuple, files, history
  <2> QED
    BY <1>t, <2>1 DEF SpoutInOrder, AckedUpTo, Alone, FileInOrder
<1>4. CASE CloseReader(s)
  <2>1. Dies(s) /\ UNCHANGED <<place, acked, orderly>> /\ reader[s] \in Files
    BY <1>4, <1>t DEF CloseReader, history
  <2>2. UNCHANGED entry \/ entry' = [entry EXCEPT ![reader[s]] = 0]
    BY <1>4 DEF CloseReader, Release
  <2>3. \A f \in Files : FileInOrder(f)'
    <3>1. 1 .. 0 = {}
      OBVIOUS
    <3> QED
      BY <1>t, <2>1, <2>2, <3>1 DEF FileInOrder, FilesOK
  <2> QED
    BY <1>t, <2>1, <2>3, DeadInOrder
<1> QED
  BY <1>1, <1>2, <1>3, <1>4 DEF Read

\* The record after those that are acked takes the place of the last of them.
LEMMA RecordNext ==
    ASSUME NEW k \in Nat, NEW T, T \subseteq {k} PROVE RecordAcked(T, k + 1) = {k + 1}
<1>1. CASE T = {}
  <2>1. T \cup {k + 1} = {k + 1} /\ ~IsFirst(k, {k + 1})
    BY <1>1 DEF IsFirst
  <2> QED
    BY <2>1 DEF RecordAcked
<1>2. CASE T = {k}
  <2>1. T \cup {k + 1} = {k, k + 1} /\ (k + 1) - 1 = k
    BY <1>2
  <2>2. k \notin TrimHead({k, k + 1})
    BY DEF TrimHead
  <2>3. k + 1 \in TrimHead({k, k + 1})
    BY DEF TrimHead
  <2>4. TrimHead({k, k + 1}) = {k + 1}
    BY <2>2, <2>3 DEF TrimHead
  <2>5. IsFirst(k, {k, k + 1})
    BY DEF IsFirst
  <2> QED
    BY <2>1, <2>4, <2>5 DEF RecordAcked
<1> QED
  BY <1>1, <1>2

\* An ack in order is that of the record after those that are acked.
LEMMA AckInOrder ==
    ASSUME TypesOK, NEW s \in Spouts, NEW r \in Record, r \in inflight[s],
           reader[s] \in Files, CommitProgress(s, RecordAcked(tracker[s], r)),
           Acknowledge(s, r), orderly', SpoutInOrder(s), \A f \in Files : FileInOrder(f)
    PROVE  /\ \A f \in Files : acked[f] \subseteq acked'[f] /\ acked'[f] \subseteq Record
           /\ \A f \in Files : 1 .. entry'[f] \subseteq acked'[f]
           /\ 1 .. r \subseteq acked'[reader[s]]
           /\ RecordAcked(tracker[s], r) = {r}
           /\ inflight[s] \ {r} = (r + 1) .. offset[s] /\ retryList[s] = {}
<1>t. /\ FilesOK
      /\ acked \in [Files -> SUBSET Record] /\ offset[s] \in Nat /\ r \in Nat
      /\ inflight[s] \subseteq Record /\ reader[s] # None
  BY HdfsSpoutAssumption DEF TypesOK, SpoutsOK, HistoryOK, Offset, Record
<1>1. /\ retryList[s] = {} /\ \A q \in inflight[s] : r <= q
      /\ acked' = [acked EXCEPT ![reader[s]] = acked[reader[s]] \cup {r}]
  BY DEF Acknowledge
<1>2. PICK k \in 0 .. offset[s] : AckedUpTo(s, k)
  BY <1>t DEF SpoutInOrder
<1>3. r = k + 1
  <2>1. inflight[s] = (k + 1) .. offset[s]
    BY <1>1, <1>2 DEF AckedUpTo
  <2>2. r \in (k + 1) .. offset[s] /\ k + 1 \in inflight[s]
    BY <1>t, <2>1
  <2>3. r <= k + 1
    BY <1>1, <2>2
  <2> QED
    BY <1>t, <2>2, <2>3
<1>4. \A f \in Files : acked[f] \subseteq acked'[f] /\ acked'[f] \subseteq Record
  BY <1>t, <1>1
<1>5. 1 .. r \subseteq acked'[reader[s]]
  <2>1. 1 .. k \subseteq acked[reader[s]]
    BY <1>2 DEF AckedUpTo
  <2>2. acked'[reader[s]] = acked[reader[s]] \cup {k + 1}
    BY <1>t, <1>1, <1>3
  <2>3. 1 .. (k + 1) = (1 .. k) \cup {k + 1}
    BY <1>t
  <2> QED
    BY <1>3, <2>1, <2>2, <2>3
<1>6. RecordAcked(tracker[s], r) = {r}
  BY <1>2, <1>3, <1>t, RecordNext DEF AckedUpTo
<1>7. inflight[s] \ {r} = (r + 1) .. offset[s]
  <2>1. inflight[s] = (k + 1) .. offset[s]
    BY <1>1, <1>2 DEF AckedUpTo
  <2>2. ((k + 1) .. offset[s]) \ {k + 1} = ((k + 1) + 1) .. offset[s]
    BY <1>t
  <2> QED
    BY <1>3, <2>1, <2>2
<1>8. \A f \in Files : 1 .. entry'[f] \subseteq acked'[f]
  BY <1>t, <1>4, <1>5, <1>6, CommitInOrder DEF FileInOrder
<1> QED
  BY <1>1, <1>4, <1>5, <1>6, <1>7, <1>8

LEMMA AnswerInOrder ==
    ASSUME TypesOK, NEW s \in Spouts, NEW r \in Record, Answer(s, r), orderly',
           orderly => SpoutInOrder(s), orderly => \A f \in Files : FileInOrder(f)
    PROVE  /\ Alone(s) /\ orderly /\ \A f \in Files : acked[f] \subseteq acked'[f]
           /\ SpoutInOrder(s)' /\ \A f \in Files : FileInOrder(f)'
<1>t. /\ SpoutsOK
      /\ inflight \in [Spouts -> SUBSET Record] /\ retryList \in [Spouts -> SUBSET Record]
      /\ tracker \in [Spouts -> SUBSET Record]
      /\ pc \in [Spouts -> {"idle", "usurp", "create", "scan", "take", "list", "lock",
                             "rename", "closing"}]
      /\ place \in [Files -> {"source", "inprogress", "archived"}]
      /\ offset[s] \in Nat /\ r \in Nat
      /\ reader[s] # None => reader[s] \in Files
      /\ reader[s] = None => inflight[s] = {}
      /\ inflight[s] \subseteq 1 .. offset[s]
  BY HdfsSpoutAssumption DEF TypesOK, SpoutsOK, FilesOK, Offset, Record
<1>o. orderly
  BY DEF Answer, Ack, AckAndArchive, AckAndThrow, Fail, Acknowledge, history
<1>r. pc[s] = "idle" /\ r \in inflight[s] /\ reader[s] \in Files
  BY <1>t DEF Answer, Ack, AckAndArchive, AckAndThrow, Fail
<1>g. r <= offset[s]
  BY <1>r, <1>t
<1>a. ASSUME CommitProgress(s, RecordAcked(tracker[s], r)), Acknowledge(s, r)
      PROVE  /\ \A f \in Files : acked[f] \subseteq acked'[f] /\ acked'[f] \subseteq Record
             /\ \A f \in Files : 1 .. entry'[f] \subseteq acked'[f]
             /\ 1 .. r \subseteq acked'[reader[s]]
             /\ RecordAcked(tracker[s], r) = {r}
             /\ inflight[s] \ {r} = (r + 1) .. offset[s] /\ retryList[s] = {}
  BY <1>a, <1>o, <1>r, AckInOrder
<1>f. ASSUME \A f \in Files : acked[f] \subseteq acked'[f] /\ acked'[f] \subseteq Record,
             \A f \in Files : 1 .. entry'[f] \subseteq acked'[f], UNCHANGED place
      PROVE  \A f \in Files : FileInOrder(f)'
  BY <1>f, <1>o DEF FileInOrder
<1>s. ASSUME CommitProgress(s, RecordAcked(tracker[s], r)), Acknowledge(s, r),
             pc'[s] \in {"idle", "closing"}, UNCHANGED <<seen, reader, offset, readAll, retryList>>,
             inflight' = [inflight EXCEPT ![s] = inflight[s] \ {r}],
             tracker' = [tracker EXCEPT ![s] = RecordAcked(tracker[s], r)]
      PROVE  SpoutInOrder(s)'
  <2>1. inflight'[s] = (r + 1) .. offset'[s] /\ tracker'[s] = {r} /\ retryList'[s] = {}
    BY <1>a, <1>s, <1>t
  <2>2. AckedUpTo(s, r)'
    BY <1>a, <1>s, <2>1 DEF AckedUpTo
  <2>3. r \in 0 .. offset'[s]
    BY <1>g, <1>s, <1>t
  <2> QED
    BY <1>o, <1>s, <2>2, <2>3 DEF SpoutInOrder
<1>1. CASE Ack(s, r)
  <2>1. /\ CommitProgress(s, RecordAcked(tracker[s], r)) /\ Acknowledge(s, r)
        /\ UNCHANGED <<place, pc, seen, reader, offset, readAll, retryList>>
        /\ inflight' = [inflight EXCEPT ![s] = inflight[s] \ {r}]
        /\ tracker' = [tracker EXCEPT ![s] = RecordAcked(tracker[s], r)]
    BY <1>1 DEF Ack
  <2>2. Alone(s)
    BY <1>t, <2>1 DEF Alone
  <2>3. SpoutInOrder(s)'
    BY <1>r, <1>s, <2>1
  <2> QED
    BY <1>a, <1>f, <1>o, <2>1, <2>2, <2>3
<1>2. CASE AckAndArchive(s, r)
  <2>1. /\ CommitProgress(s, RecordAcked(tracker[s], r)) /\ Acknowledge(s, r)
        /\ UNCHANGED <<seen, reader, offset, readAll, retryList>>
        /\ inflight' = [inflight EXCEPT ![s] = inflight[s] \ {r}]
        /\ tracker' = [tracker EXCEPT ![s] = RecordAcked(tracker[s], r)]
        /\ pc' = [pc EXCEPT ![s] = "closing"]
        /\ \A f \in Files : f # reader[s] => place'[f] = place[f]
        /\ readAll[s] /\ inflight[s] = {r}
    BY <1>2, <1>t DEF AckAndArchive, LastAck, Goto
  <2>2. Alone(s)
    BY <1>t, <2>1 DEF Alone
  <2>3. SpoutInOrder(s)'
    <3>1. pc'[s] = "closing"
      BY <1>t, <2>1
    <3> QED
      BY <1>s, <2>1, <3>1
  <2>4. acked'[reader[s]] = Record
    <3>1. offset[s] = Records
      BY <1>o, <1>r, <1>t, <2>1, HdfsSpoutAssumption DEF SpoutInOrder
    <3>2. r = offset[s]
      <4>1. offset[s] \notin (r + 1) .. offset[s]
        BY <1>a, <2>1
      <4> QED
        BY <1>g, <1>t, <4>1
    <3> QED
      BY <1>a, <1>r, <2>1, <3>1, <3>2 DEF Record
  <2>5. \A f \in Files : FileInOrder(f)'
    <3>1. ASSUME NEW f \in Files, place'[f] = "archived" PROVE acked'[f] = Record
      <4>1. CASE f = reader[s]
        BY <2>4, <4>1
      <4>2. CASE f # reader[s]
        <5>1. acked[f] = Record
          BY <1>o, <2>1, <3>1, <4>2 DEF FileInOrder
        <5>2. acked[f] \subseteq acked'[f] /\ acked'[f] \subseteq Record
          BY <1>a, <2>1
        <5> QED
          BY <5>1, <5>2
      <4> QED
        BY <4>1, <4>2
    <3> QED
      BY <1>a, <2>1, <3>1 DEF FileInOrder
  <2> QED
    BY <1>a, <1>o, <2>1, <2>2, <2>3, <2>5
<1>3. CASE AckAndThrow(s, r)
  <2>1. /\ CommitProgress(s, RecordAcked(tracker[s], r)) /\ Acknowledge(s, r)
        /\ Dies(s) /\ UNCHANGED place
    BY <1>3 DEF AckAndThrow
  <2> QED
    BY <1>a, <1>f, <1>o, <1>t, <2>1, DeadInOrder
<1>4. CASE Fail(s, r)
  <2>1. /\ UNCHANGED <<place, entry, pc, seen, reader, offset, readAll, tracker, acked>>
        /\ inflight' = [inflight EXCEPT ![s] = inflight[s] \ {r}]
        /\ retryList' = [retryList EXCEPT ![s] = retryList[s] \cup {r}]
    BY <1>4 DEF Fail, files, history
  <2>2. inflight'[s] \cup retryList'[s] = inflight[s] \cup retryList[s]
    BY <1>r, <1>t, <2>1
  <2>3. SpoutInOrder(s)'
    BY <1>o, <2>1, <2>2 DEF SpoutInOrder, AckedUpTo
  <2> QED
    BY <1>o, <1>t, <2>1, <2>3 DEF Alone, FileInOrder
<1> QED
  BY <1>1, <1>2, <1>3, <1>4 DEF Answer

LEMMA InOrderStep == TypesOK /\ InOrder /\ [Next]_vars => InOrder'
<1> SUFFICES ASSUME TypesOK, InOrder, [Next]_vars, orderly'
             PROVE  (\A t \in Spouts : SpoutInOrder(t)') /\ \A f \in Files : FileInOrder(f)'
  BY DEF InOrder
<1>t. SpoutsOK
  BY DEF TypesOK
<1>o. ASSUME NEW s \in Spouts, Alone(s), \A f \in Files : acked[f] \subseteq acked'[f], orderly,
             SpoutInOrder(s)'
      PROVE  \A t \in Spouts : SpoutInOrder(t)'
  <2> TAKE t \in Spouts
  <2>1. CASE t = s
    BY <1>o, <2>1
  <2>2. CASE t # s
    <3>1. SpoutInOrder(t)
      BY <1>o DEF InOrder
    <3>2. /\ pc'[t] = pc[t] /\ seen'[t] = seen[t] /\ reader'[t] = reader[t]
          /\ offset'[t] = offset[t] /\ readAll'[t] = readAll[t]
          /\ inflight'[t] = inflight[t] /\ retryList'[t] = retryList[t]
          /\ tracker'[t] = tracker[t]
      BY <1>o, <2>2 DEF Alone
    <3> QED
      BY <1>o, <1>t, <3>1, <3>2, StaysInOrder
  <2> QED
    BY <2>1, <2>2
<1>1. ASSUME NEW s \in Spouts, Pick(s)
      PROVE  (\A t \in Spouts : SpoutInOrder(t)') /\ \A f \in Files : FileInOrder(f)'
  <2>1. Alone(s) /\ UNCHANGED <<acked, orderly>>
    BY <1>t, <1>1, PickAlone
  <2>2. SpoutInOrder(s)' /\ \A f \in Files : FileInOrder(f)'
    BY <1>1, <2>1, PickInOrder DEF InOrder
  <2> QED
    BY <1>o, <2>1, <2>2
<1>2. ASSUME NEW s \in Spouts, Read(s)
      PROVE  (\A t \in Spouts : SpoutInOrder(t)') /\ \A f \in Files : FileInOrder(f)'
  <2>1. UNCHANGED orderly
    BY <1>2 DEF Read, EmitAgain, EmitNext, ReachEnd, CloseReader, history
  <2>2. /\ Alone(s) /\ UNCHANGED acked
        /\ SpoutInOrder(s)' /\ \A f \in Files : FileInOrder(f)'
    BY <1>2, <2>1, ReadInOrder DEF InOrder
  <2> QED
    BY <1>o, <2>1, <2>2
<1>3. ASSUME NEW s \in Spouts, NEW r \in Record, Answer(s, r)
      PROVE  (\A t \in Spouts : SpoutInOrder(t)') /\ \A f \in Files : FileInOrder(f)'
  <2>1. /\ Alone(s) /\ orderly /\ \A f \in Files : acked[f] \subseteq acked'[f]
        /\ SpoutInOrder(s)' /\ \A f \in Files : FileInOrder(f)'
    BY <1>3, AnswerInOrder DEF InOrder
  <2> QED
    BY <1>o, <2>1
<1>4. ASSUME NEW s \in Spouts, Crash(s)
      PROVE  (\A t \in Spouts : SpoutInOrder(t)') /\ \A f \in Files : FileInOrder(f)'
  <2>1. Dies(s) /\ UNCHANGED <<place, entry, acked, orderly>>
    BY <1>4 DEF Crash, history
  <2>2. Alone(s) /\ SpoutInOrder(s)'
    BY <1>t, <2>1, DeadInOrder
  <2> QED
    BY <1>o, <2>1, <2>2 DEF InOrder, FileInOrder
<1>5. ASSUME GetStale \/ UNCHANGED vars
      PROVE  (\A t \in Spouts : SpoutInOrder(t)') /\ \A f \in Files : FileInOrder(f)'
  <2>1. UNCHANGED <<place, entry, pc, seen, reader, offset, readAll, inflight, retryList,
                    tracker, acked, orderly>>
    BY <1>5 DEF GetStale, vars, files, reading, history
  <2> QED
    BY <2>1 DEF InOrder, SpoutInOrder, AckedUpTo, FileInOrder
<1> QED
  BY <1>1, <1>2, <1>3, <1>4, <1>5 DEF Next

LEMMA InOrderInit == Init => InOrder
<1> SUFFICES ASSUME Init PROVE InOrder
  OBVIOUS
<1>1. 1 .. 0 = {}
  OBVIOUS
<1> QED
  BY <1>1 DEF Init, InOrder, SpoutInOrder, FileInOrder

LEMMA SpoutsInOrder == Spec => [](TypesOK /\ InOrder)
  BY TypesInit, TypesStep, InOrderInit, InOrderStep, PTL DEF Spec

\* No record before the one at which a new owner of a lock resumes is unread: all are
\* acked, if acks come in order, whatever crashes, fails or is taken over.
THEOREM ResumesAfterAcked == Spec => []NoneSkipped
<1>1. TypesOK /\ InOrder => NoneSkipped
  BY DEF InOrder, FileInOrder, NoneSkipped
<1> QED
  BY <1>1, SpoutsInOrder, PTL

\* A file goes to the archive with its last record acked, if acks come in order.
THEOREM ArchivesWhatIsAcked == Spec => []ArchivedIsAcked
<1>1. TypesOK /\ InOrder => ArchivedIsAcked
  BY DEF InOrder, FileInOrder, ArchivedIsAcked
<1> QED
  BY <1>1, SpoutsInOrder, PTL
=============================================================================
