-------------------------- MODULE HdfsBoltProofs --------------------------
(***************************************************************************)
(* HdfsBolt acks no tuple that HDFS could lose, for any number of tuples,  *)
(* partitions and retries, as long as the keys fit into the map of         *)
(* writers and, if the executor rotates files, the timer does not time     *)
(* them out and close() does not fail.                                     *)
(*                                                                         *)
(* AckedIsDurable is not inductive: an ack covers the whole batch, so what *)
(* has to be invariant is where the data of an unanswered tuple is. It is  *)
(* durable already, or in a file that writers still holds and, during a    *)
(* sync, that the iteration has still to reach (Covered). The other parts  *)
(* say why no thread takes a file with such data out of the map.           *)
(*                                                                         *)
(* Its answers (OneAnswer), the refinement of DurableSink (ImplementsSink) *)
(* and its types (BoltTypeCorrect) follow, in sections of their own.       *)
(***************************************************************************)
EXTENDS HdfsBolt, FiniteSetTheorems, SequenceTheorems, TLAPS

\* The conditions under which an ack is safe.
OneCloser ==
    /\ Cardinality(Keys) <= MaxOpenFiles
    /\ Rotates => ~Ttl /\ "close" \notin Faults

\* The types the argument needs.
Typed ==
    /\ writers \in [Keys -> Nat] /\ fileOf \in [Tuples -> Nat] /\ made \in Nat
    /\ file \in Nat /\ ttlOrder \in Seq(Keys) /\ ttlTodo \in Seq(Keys)
    /\ toSync \subseteq Keys /\ tupleBatch \subseteq Tuples
    /\ tpc \in {"get", "close", "removeWriter", "removeTtl"} => writeKey \in Keys
    /\ pc \in {"stamp", "write"} \/ file # None => tuple \in Tuples
    /\ pc = "idle" => file = None

\* The executor's writer stays in the map until the timer has closed it.
ExecutorHolds ==
    /\ pc \in {"stamp", "write"} => file # None
    /\ file # None /\ Running =>
         writers[KeyOf[tuple]] = file \/ (Ttl /\ file \in closed)
    /\ pc = "rotate" => Rotates /\ file # None

\* The timer removes from the map the very file it has closed.
TimerHolds ==
    /\ ~Ttl => tpc = "idle"
    /\ Running /\ tpc = "close" /\ old # None => writers[writeKey] = old
    /\ Running /\ tpc = "removeWriter" =>
         old # None /\ old \in closed /\ writers[writeKey] = old

\* The data of a tuple in the batch is durable or will be reached by a sync.
Covered ==
    \A t \in tupleBatch :
        \/ t \in durable
        \/ /\ fileOf[t] # None
           /\ \E k \in Keys : writers[k] = fileOf[t] /\ (pc = "sync" => k \in toSync)

\* What a closed file holds is durable, and rotation meets no broken file.
ClosedDurable ==
    /\ Rotates => broken = {}
    /\ \A t \in Tuples : fileOf[t] \in closed => t \in durable

SafeInv == Typed /\ ExecutorHolds /\ TimerHolds /\ Covered /\ ClosedDurable
             /\ AckedIsDurable

-----------------------------------------------------------------------------
\* Removing a key from an order leaves an order of keys.
LEMMA WithoutType ==
  ASSUME NEW s \in Seq(Keys), NEW k
  PROVE  Without(s, k) \in Seq(Keys)
<1>1. CASE ~ \E i \in 1 .. Len(s) : s[i] = k
  BY <1>1 DEF Without
<1>2. CASE \E i \in 1 .. Len(s) : s[i] = k
  <2> DEFINE i == CHOOSE i \in 1 .. Len(s) : s[i] = k
  <2>1. i \in 1 .. Len(s)
    BY <1>2
  <2>2. SubSeq(s, 1, i - 1) \in Seq(Keys)
    <3>1. \A j \in 1 .. i - 1 : s[j] \in Keys
      BY <2>1, ElementOfSeq, LenProperties
    <3> HIDE DEF i
    <3> QED  BY <2>1, <3>1, LenProperties, SubSeqProperties
  <2>3. SubSeq(s, i + 1, Len(s)) \in Seq(Keys)
    <3>1. \A j \in i + 1 .. Len(s) : s[j] \in Keys
      BY <2>1, ElementOfSeq, LenProperties
    <3> HIDE DEF i
    <3> QED  BY <2>1, <3>1, LenProperties, SubSeqProperties
  <2> HIDE DEF i
  <2>4. SubSeq(s, 1, i - 1) \o SubSeq(s, i + 1, Len(s)) \in Seq(Keys)
    BY <2>2, <2>3, ConcatProperties
  <2> QED  BY <1>2, <2>4 DEF Without, i
<1> QED  BY <1>1, <1>2

\* A map that misses a key has room for it (removeEldestEntry says no).
LEMMA NotFull ==
  ASSUME OneCloser, NEW k \in Keys, writers[k] = None
  PROVE  ~(Cardinality(OpenKeys) >= MaxOpenFiles)
<1>1. IsFiniteSet(Keys \ {k}) /\ Cardinality(Keys \ {k}) = Cardinality(Keys) - 1
  BY HdfsBoltAssumption, FS_RemoveElement
<1>2. OpenKeys \in SUBSET (Keys \ {k})
  BY DEF OpenKeys
<1>3. Cardinality(OpenKeys) <= Cardinality(Keys \ {k}) /\ IsFiniteSet(OpenKeys)
  BY <1>1, <1>2, FS_Subset
<1>4. Cardinality(OpenKeys) \in Nat /\ Cardinality(Keys) \in Nat
  BY <1>3, HdfsBoltAssumption, FS_CardinalityType
<1> QED  BY <1>1, <1>3, <1>4, HdfsBoltAssumption DEF OneCloser

\* Every step keeps the types.
LEMMA TypedStep ==
  ASSUME OneCloser, SafeInv, [Next]_vars
  PROVE  Typed'
<1> USE HdfsBoltAssumption DEF SafeInv, Typed, None, maps, hdfs, exec,
     timer, answers
<1>1. ASSUME NEW t \in Tuples, ExecuteNew(t) PROVE Typed'
  BY <1>1, NotFull DEF ExecuteNew, PutWriter
<1>2. CASE Stamp
  BY <1>2, AppendProperties DEF Stamp, PutTtl
<1>3. CASE Write
  BY <1>3 DEF Write, Open
<1>4. CASE Rotate
  BY <1>4, WithoutType DEF Rotate, CloseFiles, Open, RemoveWriter,
     RemoveTtl, Nil
<1>5. CASE Cleanup
  BY <1>5, EmptySeq DEF Cleanup, CloseFiles, Open
<1>6. CASE Restart
  BY <1>6, EmptySeq DEF Restart, Prepared, Nil
<1>7. CASE TimerNext
  BY <1>7, HeadTailProperties DEF TimerNext
<1>8. CASE TimerRemoveTtl
  BY <1>8, WithoutType DEF TimerRemoveTtl, RemoveTtl
<1>9. CASE ExecuteTick \/ WriteFails \/ WriteDies \/ Mark \/ SyncDies \/
          SyncDone \/ Age \/ TimerRuns \/ TimerDone \/ TimerDies
          \/ TimerGet \/ TimerGotNull \/ TimerClose \/
          TimerCloseFails \/ TimerRemoveWriter \/ UNCHANGED vars
  BY <1>9 DEF ExecuteTick, WriteFails, WriteDies, Mark, SyncDies, SyncDone,
     Age, TimerRuns, TimerDone, TimerDies, TimerGet, TimerGotNull,
     TimerClose, TimerCloseFails, TimerRemoveWriter, Open, Die, Finish,
     NeedsRotation, Nil, OpenKeys, Touched, CloseFiles, RemoveWriter, vars
<1>10. ASSUME NEW t \in Tuples, ExecuteKnown(t) \/ CreateFails(t)
      PROVE  Typed'
  BY <1>10 DEF ExecuteKnown, CreateFails, Touched
<1>11. ASSUME NEW k \in Keys, SyncOne(k) \/ SyncRetry(k) \/ SyncGivesUp(k)
      PROVE  Typed'
  BY <1>11 DEF SyncOne, SyncRetry, SyncGivesUp, Open, ContentOf, CannotSync,
     OpenKeys, Die
<1> QED
  BY <1>1, <1>2, <1>3, <1>4, <1>5, <1>6, <1>7, <1>8, <1>9, <1>10, <1>11 DEF
     Next, ExecStep, TimerStep

\* Every step keeps the hold of the executor on its writer: it is the executor
\* that changes the map, or the timer, which takes out only what it has closed.
LEMMA ExecutorHoldsStep ==
  ASSUME OneCloser, SafeInv, [Next]_vars
  PROVE  ExecutorHolds'
<1> USE HdfsBoltAssumption DEF SafeInv, Typed, ExecutorHolds, TimerHolds,
     Running, LockFree, None, maps, hdfs, exec, timer, answers
<1>1. ASSUME NEW t \in Tuples, ExecuteKnown(t) PROVE ExecutorHolds'
  BY <1>1 DEF ExecuteKnown, Touched
<1>2. ASSUME NEW t \in Tuples, ExecuteNew(t) PROVE ExecutorHolds'
  BY <1>2, NotFull DEF ExecuteNew, PutWriter
<1>3. CASE Mark
  BY <1>3 DEF Mark, Finish, NeedsRotation, Nil, OpenKeys
<1>4. CASE SyncDone
  BY <1>4 DEF SyncDone, Finish, NeedsRotation, Nil
<1>5. CASE Rotate
  BY <1>5 DEF Rotate, CloseFiles, Open, RemoveWriter, RemoveTtl, Nil
<1>6. CASE TimerClose
  BY <1>6 DEF TimerClose, CloseFiles, Open
<1>7. CASE TimerRemoveWriter
  BY <1>7 DEF TimerRemoveWriter, RemoveWriter
<1>8. CASE ExecuteTick \/ Stamp \/ Write \/ WriteFails \/ WriteDies \/
          SyncDies \/ Cleanup \/ Restart \/ Age \/ TimerRuns \/
          TimerNext \/ TimerDone \/ TimerDies \/ TimerGet \/
          TimerGotNull \/ TimerCloseFails \/ TimerRemoveTtl \/
          UNCHANGED vars
  BY <1>8 DEF ExecuteTick, Stamp, Write, WriteFails, WriteDies, SyncDies,
     Cleanup, Restart, Age, TimerRuns, TimerNext, TimerDone, TimerDies,
     TimerGet, TimerGotNull, TimerCloseFails, TimerRemoveTtl, PutTtl, Open,
     Die, CloseFiles, Prepared, Nil, Touched, RemoveTtl, vars
<1>9. ASSUME NEW t \in Tuples, CreateFails(t)
      PROVE  ExecutorHolds'
  BY <1>9 DEF CreateFails
<1>10. ASSUME NEW k \in Keys, SyncOne(k) \/ SyncRetry(k) \/ SyncGivesUp(k)
      PROVE  ExecutorHolds'
  BY <1>10 DEF SyncOne, SyncRetry, SyncGivesUp, Open, ContentOf, CannotSync,
     OpenKeys, Die
<1> QED
  BY <1>1, <1>2, <1>3, <1>4, <1>5, <1>6, <1>7, <1>8, <1>9, <1>10 DEF Next,
     ExecStep, TimerStep

\* Every step keeps the hold of the timer on its writer: while it has one, the
\* key is taken and the executor neither evicts nor rotates.
LEMMA TimerHoldsStep ==
  ASSUME OneCloser, SafeInv, [Next]_vars
  PROVE  TimerHolds'
<1> USE HdfsBoltAssumption DEF SafeInv, OneCloser, Typed, TimerHolds,
     ExecutorHolds, Running, LockFree, None, maps, hdfs, exec, timer,
     answers
<1>1. ASSUME NEW t \in Tuples, ExecuteNew(t) PROVE TimerHolds'
  BY <1>1, NotFull DEF ExecuteNew, PutWriter
<1>2. CASE Rotate
  BY <1>2 DEF Rotate, CloseFiles, Open, RemoveWriter, RemoveTtl, Nil
<1>3. CASE TimerNext
  BY <1>3 DEF TimerNext
<1>4. CASE TimerGet
  BY <1>4 DEF TimerGet, Touched
<1>5. CASE TimerClose
  BY <1>5 DEF TimerClose, CloseFiles, Open
<1>6. CASE TimerRemoveWriter
  BY <1>6 DEF TimerRemoveWriter, RemoveWriter
<1>7. CASE ExecuteTick \/ Stamp \/ Write \/ WriteFails \/ WriteDies \/ Mark
          \/ SyncDies \/ SyncDone \/ Cleanup \/ Restart \/ Age \/
          TimerRuns \/ TimerDone \/ TimerDies \/ TimerGotNull \/
          TimerCloseFails \/ TimerRemoveTtl \/ UNCHANGED vars
  BY <1>7 DEF ExecuteTick, Stamp, Write, WriteFails, WriteDies, Mark,
     SyncDies, SyncDone, Cleanup, Restart, Age, TimerRuns, TimerDone,
     TimerDies, TimerGotNull, TimerCloseFails, TimerRemoveTtl, PutTtl, Open,
     Die, Finish, NeedsRotation, Nil, OpenKeys, CloseFiles, Prepared,
     RemoveTtl, vars
<1>8. ASSUME NEW t \in Tuples, ExecuteKnown(t) \/ CreateFails(t)
      PROVE  TimerHolds'
  BY <1>8 DEF ExecuteKnown, CreateFails, Touched
<1>9. ASSUME NEW k \in Keys, SyncOne(k) \/ SyncRetry(k) \/ SyncGivesUp(k)
      PROVE  TimerHolds'
  BY <1>9 DEF SyncOne, SyncRetry, SyncGivesUp, Open, ContentOf, CannotSync,
     OpenKeys, Die
<1> QED
  BY <1>1, <1>2, <1>3, <1>4, <1>5, <1>6, <1>7, <1>8, <1>9 DEF Next,
     ExecStep, TimerStep

\* Every step keeps the unanswered tuples covered.
LEMMA CoveredStep ==
  ASSUME OneCloser, SafeInv, [Next]_vars
  PROVE  Covered'
<1> USE HdfsBoltAssumption DEF SafeInv, OneCloser, Typed, ExecutorHolds,
     TimerHolds, Covered, ClosedDurable, Running, LockFree, None, maps,
     hdfs, exec, timer, answers
<1>1. ASSUME NEW t \in Tuples, ExecuteNew(t) PROVE Covered'
  BY <1>1, NotFull DEF ExecuteNew, PutWriter
<1>2. CASE Write
  BY <1>2 DEF Write, Open
<1>3. CASE Mark
  BY <1>3 DEF Mark, Finish, NeedsRotation, Nil, OpenKeys
<1>4. ASSUME NEW k \in Keys, SyncOne(k) PROVE Covered'
  BY <1>4 DEF SyncOne, Open, ContentOf
<1>5. ASSUME NEW k \in Keys, SyncRetry(k) PROVE Covered'
  BY <1>5 DEF SyncRetry, CannotSync, OpenKeys
<1>6. CASE SyncDone
  BY <1>6 DEF SyncDone, Finish, NeedsRotation, Nil
<1>7. CASE Rotate
  BY <1>7 DEF Rotate, CloseFiles, Open, RemoveWriter, RemoveTtl, Nil
<1>8. CASE TimerClose
  BY <1>8 DEF TimerClose, CloseFiles, Open
<1>9. CASE TimerRemoveWriter
  BY <1>9 DEF TimerRemoveWriter, RemoveWriter
<1>10. CASE ExecuteTick \/ Stamp \/ WriteFails \/ WriteDies \/ SyncDies \/
          Cleanup \/ Restart \/ Age \/ TimerRuns \/ TimerNext \/
          TimerDone \/ TimerDies \/ TimerGet \/ TimerGotNull \/
          TimerCloseFails \/ TimerRemoveTtl \/ UNCHANGED vars
  BY <1>10 DEF ExecuteTick, Stamp, WriteFails, WriteDies, SyncDies, Cleanup,
     Restart, Age, TimerRuns, TimerNext, TimerDone, TimerDies, TimerGet,
     TimerGotNull, TimerCloseFails, TimerRemoveTtl, PutTtl, Open, Die,
     CloseFiles, Prepared, Nil, Touched, RemoveTtl, vars
<1>11. ASSUME NEW t \in Tuples, ExecuteKnown(t) \/ CreateFails(t)
      PROVE  Covered'
  BY <1>11 DEF ExecuteKnown, CreateFails, Touched
<1>12. ASSUME NEW k \in Keys, SyncGivesUp(k)
      PROVE  Covered'
  BY <1>12 DEF SyncGivesUp, Die
<1> QED
  BY <1>1, <1>2, <1>3, <1>4, <1>5, <1>6, <1>7, <1>8, <1>9, <1>10, <1>11,
     <1>12 DEF Next, ExecStep, TimerStep

\* Every step keeps what closed files hold durable.
LEMMA ClosedDurableStep ==
  ASSUME OneCloser, SafeInv, [Next]_vars
  PROVE  ClosedDurable'
<1> USE HdfsBoltAssumption DEF SafeInv, OneCloser, Typed, ExecutorHolds,
     ClosedDurable, Open, maps, hdfs, exec, timer, answers
<1>1. CASE Write
  BY <1>1 DEF Write, Open
<1>2. ASSUME NEW k \in Keys, SyncOne(k) PROVE ClosedDurable'
  BY <1>2 DEF SyncOne, Open, ContentOf
<1>3. CASE Rotate
  BY <1>3 DEF Rotate, CloseFiles, Open, RemoveWriter, RemoveTtl, Nil
<1>4. CASE Cleanup
  BY <1>4 DEF Cleanup, CloseFiles, Open
<1>5. CASE TimerClose
  BY <1>5 DEF TimerClose, CloseFiles, Open
<1>6. CASE TimerCloseFails
  BY <1>6 DEF TimerCloseFails, CloseFiles, TimerHolds
<1>7. CASE ExecuteTick \/ Stamp \/ WriteFails \/ WriteDies \/ Mark \/
          SyncDies \/ SyncDone \/ Restart \/ Age \/ TimerRuns \/
          TimerNext \/ TimerDone \/ TimerDies \/ TimerGet \/
          TimerGotNull \/ TimerRemoveWriter \/ TimerRemoveTtl \/
          UNCHANGED vars
  BY <1>7 DEF ExecuteTick, Stamp, WriteFails, WriteDies, Mark, SyncDies,
     SyncDone, Restart, Age, TimerRuns, TimerNext, TimerDone, TimerDies,
     TimerGet, TimerGotNull, TimerRemoveWriter, TimerRemoveTtl, PutTtl,
     Open, Die, Finish, NeedsRotation, Nil, OpenKeys, Prepared, Touched,
     RemoveWriter, RemoveTtl, vars
<1>8. ASSUME NEW t \in Tuples, ExecuteKnown(t) \/ ExecuteNew(t) \/ CreateFails(t)
      PROVE  ClosedDurable'
  BY <1>8 DEF ExecuteKnown, ExecuteNew, CreateFails, Touched, PutWriter
<1>9. ASSUME NEW k \in Keys, SyncRetry(k) \/ SyncGivesUp(k)
      PROVE  ClosedDurable'
  BY <1>9 DEF SyncRetry, SyncGivesUp, CannotSync, OpenKeys, Die
<1> QED
  BY <1>1, <1>2, <1>3, <1>4, <1>5, <1>6, <1>7, <1>8, <1>9 DEF Next,
     ExecStep, TimerStep

\* Every step keeps the acked tuples durable: only SyncDone acks.
LEMMA AckedStep ==
  ASSUME OneCloser, SafeInv, [Next]_vars
  PROVE  AckedIsDurable'
<1> USE HdfsBoltAssumption DEF SafeInv, OneCloser, Typed, Covered,
     AckedIsDurable, maps, hdfs, exec, timer, answers
<1>1. ASSUME NEW k \in Keys, SyncOne(k) PROVE AckedIsDurable'
  BY <1>1 DEF SyncOne, Open, ContentOf
<1>2. CASE SyncDone
  BY <1>2 DEF SyncDone, Finish, NeedsRotation, Nil
<1>3. CASE Rotate
  BY <1>3 DEF Rotate, CloseFiles, Open, RemoveWriter, RemoveTtl, Nil
<1>4. CASE Cleanup
  BY <1>4 DEF Cleanup, CloseFiles, Open
<1>5. CASE TimerClose
  BY <1>5 DEF TimerClose, CloseFiles, Open
<1>6. CASE TimerCloseFails
  BY <1>6 DEF TimerCloseFails, CloseFiles
<1>7. CASE ExecuteTick \/ Stamp \/ Write \/ WriteFails \/ WriteDies \/ Mark
          \/ SyncDies \/ Restart \/ Age \/ TimerRuns \/ TimerNext
          \/ TimerDone \/ TimerDies \/ TimerGet \/ TimerGotNull \/
          TimerRemoveWriter \/ TimerRemoveTtl \/ UNCHANGED vars
  BY <1>7 DEF ExecuteTick, Stamp, Write, WriteFails, WriteDies, Mark,
     SyncDies, Restart, Age, TimerRuns, TimerNext, TimerDone, TimerDies,
     TimerGet, TimerGotNull, TimerRemoveWriter, TimerRemoveTtl, PutTtl,
     Open, Die, Finish, NeedsRotation, Nil, OpenKeys, Prepared, Touched,
     RemoveWriter, RemoveTtl, vars
<1>8. ASSUME NEW t \in Tuples, ExecuteKnown(t) \/ ExecuteNew(t) \/ CreateFails(t)
      PROVE  AckedIsDurable'
  BY <1>8 DEF ExecuteKnown, ExecuteNew, CreateFails, Touched, PutWriter
<1>9. ASSUME NEW k \in Keys, SyncRetry(k) \/ SyncGivesUp(k)
      PROVE  AckedIsDurable'
  BY <1>9 DEF SyncRetry, SyncGivesUp, CannotSync, OpenKeys, Die
<1> QED
  BY <1>1, <1>2, <1>3, <1>4, <1>5, <1>6, <1>7, <1>8, <1>9 DEF Next,
     ExecStep, TimerStep

-----------------------------------------------------------------------------
\* Empty maps and no answers satisfy the invariant.
LEMMA SafeInit == Init => SafeInv
BY HdfsBoltAssumption, EmptySeq DEF Init, SafeInv, Typed, ExecutorHolds,
   TimerHolds, Covered, ClosedDurable, AckedIsDurable, Running, None, Nil

\* Every step keeps the invariant.
LEMMA SafeStep ==
  ASSUME OneCloser, SafeInv, [Next]_vars
  PROVE  SafeInv'
BY TypedStep, ExecutorHoldsStep, TimerHoldsStep, CoveredStep, ClosedDurableStep,
   AckedStep DEF SafeInv

\* What the bolt has acked, HDFS has: execute() acks a batch only after
\* syncAllWriters has reached every file that holds data of it, or after that
\* file was closed.
THEOREM AckedAreDurable ==
  ASSUME OneCloser
  PROVE  Spec => []AckedIsDurable
<1>1. Init => SafeInv
  BY SafeInit
<1>2. SafeInv /\ [Next]_vars => SafeInv'
  BY SafeStep
<1>3. SafeInv => AckedIsDurable
  BY DEF SafeInv
<1> QED  BY <1>1, <1>2, <1>3, PTL DEF Spec

-----------------------------------------------------------------------------
\* A tuple that execute() is still writing has no answer and is not in the batch.
InHand ==
    pc \in {"stamp", "write"} => tuple \notin tupleBatch \cup acked \cup failed

\* Nothing is answered or in hand at the start.
LEMMA AnswerInit == Init => AnsweredOnce /\ InHand
BY DEF Init, AnsweredOnce, InHand

\* No step answers a tuple for the second time.
LEMMA AnswerStep ==
  ASSUME AnsweredOnce, InHand, [Next]_vars
  PROVE  AnsweredOnce' /\ InHand'
<1> USE DEF AnsweredOnce, InHand, maps, hdfs, exec, timer, answers
<1>1. ASSUME NEW t \in Tuples, ExecuteKnown(t) \/ ExecuteNew(t) \/ CreateFails(t)
      PROVE  AnsweredOnce' /\ InHand'
  BY <1>1 DEF ExecuteKnown, ExecuteNew, CreateFails
<1>2. CASE Stamp \/ Write \/ WriteFails \/ WriteDies
  BY <1>2 DEF Stamp, Write, WriteFails, WriteDies, Die
<1>3. CASE ExecuteTick \/ Mark \/ Rotate \/ Cleanup \/ Restart \/ Age
  BY <1>3 DEF ExecuteTick, Mark, Finish, Rotate, Cleanup, Restart, Prepared, Age
<1>4. ASSUME NEW k \in Keys, SyncOne(k) \/ SyncRetry(k) \/ SyncGivesUp(k)
      PROVE  AnsweredOnce' /\ InHand'
  BY <1>4 DEF SyncOne, SyncRetry, SyncGivesUp, Die
<1>5. CASE SyncDies \/ SyncDone
  BY <1>5 DEF SyncDies, SyncDone, Die, Finish
<1>6. CASE TimerStep \/ UNCHANGED vars
  BY <1>6 DEF TimerStep, TimerRuns, TimerNext, TimerDone, TimerDies, TimerGet,
     TimerGotNull, TimerClose, TimerCloseFails, TimerRemoveWriter,
     TimerRemoveTtl, vars
<1> QED  BY <1>1, <1>2, <1>3, <1>4, <1>5, <1>6 DEF Next, ExecStep

\* Storm gets one answer for a tuple, ack or fail, whatever fails and whoever
\* closes the files; here no condition on the constants is needed.
THEOREM OneAnswer == Spec => []AnsweredOnce
<1>1. Init => AnsweredOnce /\ InHand
  BY AnswerInit
<1>2. AnsweredOnce /\ InHand /\ [Next]_vars => (AnsweredOnce /\ InHand)'
  BY AnswerStep
<1>3. AnsweredOnce /\ InHand => AnsweredOnce
  OBVIOUS
<1> QED  BY <1>1, <1>2, <1>3, PTL DEF Spec

-----------------------------------------------------------------------------
(* Refinement.                                                             *)

\* A tuple the executor still holds is not given up.
LostApart ==
    /\ tupleBatch \cap lost = {}
    /\ pc \in {"stamp", "write"} => tuple \notin lost

\* Every step keeps LostApart: a process gives up what it held and forgets it.
LEMMA LostApartStep ==
  ASSUME LostApart, [Next]_vars
  PROVE  LostApart'
<1> USE DEF LostApart, maps, hdfs, exec, timer, answers
<1>1. ASSUME NEW t \in Tuples, ExecuteKnown(t) \/ ExecuteNew(t) \/ CreateFails(t)
      PROVE  LostApart'
  BY <1>1 DEF ExecuteKnown, ExecuteNew, CreateFails
<1>2. CASE Stamp \/ Write \/ WriteFails \/ WriteDies
  BY <1>2 DEF Stamp, Write, WriteFails, WriteDies, Die
<1>3. CASE ExecuteTick \/ Mark \/ Rotate \/ Cleanup \/ Restart \/ Age
  BY <1>3 DEF ExecuteTick, Mark, Finish, Rotate, Cleanup, Restart, Prepared, Age
<1>4. ASSUME NEW k \in Keys, SyncOne(k) \/ SyncRetry(k) \/ SyncGivesUp(k)
      PROVE  LostApart'
  BY <1>4 DEF SyncOne, SyncRetry, SyncGivesUp, Die
<1>5. CASE SyncDies \/ SyncDone
  BY <1>5 DEF SyncDies, SyncDone, Die, Finish
<1>6. CASE TimerStep \/ UNCHANGED vars
  BY <1>6 DEF TimerStep, TimerRuns, TimerNext, TimerDone, TimerDies, TimerGet,
     TimerGotNull, TimerClose, TimerCloseFails, TimerRemoveWriter,
     TimerRemoveTtl, vars
<1> QED  BY <1>1, <1>2, <1>3, <1>4, <1>5, <1>6 DEF Next, ExecStep

\* What the sink sees of the bolt.
sinkVars == <<durable, acked, failed, lost>>

\* Every step of the bolt is one step of the sink or changes nothing of it.
LEMMA SinkStep ==
  ASSUME OneCloser, SafeInv, AnsweredOnce, InHand, LostApart, [Next]_vars
  PROVE  Sink!Next \/ UNCHANGED sinkVars
<1> DEFINE Goal == Sink!Next \/ UNCHANGED sinkVars
<1> SUFFICES Goal
  OBVIOUS
<1> USE DEF SafeInv, sinkVars, answers
<1>a. ASSUME NEW S \in SUBSET Tuples, Sink!Store(S) \/ Sink!Ack(S) \/ Sink!Fail(S)
      PROVE  Goal
  BY <1>a DEF Sink!Next
<1>b. ASSUME NEW S \in SUBSET Tuples, NEW T \in SUBSET Tuples, Sink!Lose(S, T)
      PROVE  Goal
  BY <1>b DEF Sink!Next
<1>c. /\ tupleBatch \subseteq Tuples
      /\ tupleBatch \cap (acked \cup failed \cup lost) = {}
  BY DEF Typed, AnsweredOnce, LostApart
<1>d. pc = "write" => tuple \in Tuples /\ tuple \notin acked \cup failed \cup lost
  BY DEF Typed, InHand, LostApart
<1>1. ASSUME NEW t \in Tuples, CreateFails(t) PROVE Goal
  <2>1. Sink!Fail({t})
    BY <1>1 DEF CreateFails, hdfs, Sink!Fail, Sink!Settled
  <2> QED  BY <1>a, <2>1
<1>2. CASE WriteFails
  <2>1. Sink!Fail({tuple})
    BY <1>2, <1>d DEF WriteFails, hdfs, Sink!Fail, Sink!Settled
  <2> QED  BY <1>2, <1>a, <1>d, <2>1 DEF WriteFails
<1>3. CASE WriteDies
  <2>1. Sink!Lose(tupleBatch \cup {tuple}, {})
    BY <1>3, <1>c, <1>d DEF WriteDies, Die, hdfs, Sink!Lose, Sink!Settled
  <2> QED  BY <1>3, <1>b, <1>c, <1>d, <2>1 DEF WriteDies
<1>4. ASSUME NEW k \in Keys, SyncOne(k) PROVE Goal
  <2>1. Sink!Store(ContentOf(writers[k])) /\ ContentOf(writers[k]) \subseteq Tuples
    BY <1>4 DEF SyncOne, ContentOf, Sink!Store
  <2> QED  BY <1>a, <2>1
<1>5. ASSUME NEW k \in Keys, SyncGivesUp(k) PROVE Goal
  <2>1. Sink!Fail(tupleBatch)
    BY <1>5, <1>c DEF SyncGivesUp, Die, hdfs, Sink!Fail, Sink!Settled
  <2> QED  BY <1>a, <1>c, <2>1
<1>6. CASE SyncDies
  <2>1. Sink!Lose(tupleBatch, {})
    BY <1>6, <1>c DEF SyncDies, Die, hdfs, Sink!Lose, Sink!Settled
  <2> QED  BY <1>b, <1>c, <2>1
<1>7. CASE SyncDone
  <2>1. tupleBatch \subseteq durable
    BY <1>7 DEF SyncDone, Covered
  <2>2. Sink!Ack(tupleBatch)
    BY <1>7, <1>c, <2>1 DEF SyncDone, hdfs, Sink!Ack, Sink!Settled
  <2> QED  BY <1>a, <1>c, <2>2
<1>8. ASSUME NEW F, NEW B, CloseFiles(F, B), UNCHANGED answers PROVE Goal
  <2> DEFINE S == {t \in Tuples : fileOf[t] \in F \ B /\ Open(fileOf[t])}
  <2>1. Sink!Store(S)
    BY <1>8 DEF CloseFiles, Sink!Store
  <2> QED  BY <1>a, <2>1
<1>9. CASE Rotate \/ TimerClose \/ TimerCloseFails
  BY <1>8, <1>9 DEF Rotate, TimerClose, TimerCloseFails
<1>10. CASE Cleanup
  <2> DEFINE F == {writers[k] : k \in OpenKeys}
  <2>1. PICK B : CloseFiles(F, B)
    BY <1>10 DEF Cleanup
  <2> DEFINE S == {t \in Tuples : fileOf[t] \in F \ B /\ Open(fileOf[t])}
  <2>2. Sink!Lose(tupleBatch, S)
    BY <1>10, <1>c, <2>1 DEF Cleanup, CloseFiles, Sink!Lose, Sink!Settled
  <2> QED  BY <1>b, <1>c, <2>2
<1>11. ASSUME NEW t \in Tuples, ExecuteKnown(t) \/ ExecuteNew(t) PROVE Goal
  BY <1>11 DEF ExecuteKnown, ExecuteNew, hdfs
<1>12. CASE ExecuteTick \/ Stamp \/ Write \/ Mark \/ Restart \/ Age
            \/ \E k \in Keys : SyncRetry(k)
  BY <1>12 DEF ExecuteTick, Stamp, Write, Mark, Restart, Age, SyncRetry, hdfs
<1>13. CASE TimerStep \/ UNCHANGED vars
  BY <1>9, <1>13 DEF TimerStep, TimerRuns, TimerNext, TimerDone, TimerDies,
     TimerGet, TimerGotNull, TimerRemoveWriter, TimerRemoveTtl, hdfs, vars
<1> QED
  BY <1>1, <1>2, <1>3, <1>4, <1>5, <1>6, <1>7, <1>9, <1>10, <1>11, <1>12, <1>13
  DEF Next, ExecStep

\* Executor and timer together implement the sink: whatever Storm is told has
\* been stored, and it is told once.
THEOREM ImplementsSink ==
  ASSUME OneCloser
  PROVE  Spec => SinkRefined
<1>1. Init => SafeInv /\ AnsweredOnce /\ InHand /\ LostApart /\ Sink!Init
  BY SafeInit, AnswerInit DEF Init, LostApart, Sink!Init
<1>2. SafeInv /\ AnsweredOnce /\ InHand /\ LostApart /\ [Next]_vars
        => (SafeInv /\ AnsweredOnce /\ InHand /\ LostApart)'
  BY SafeStep, AnswerStep, LostApartStep
<1>3. SafeInv /\ AnsweredOnce /\ InHand /\ LostApart /\ [Next]_vars
        => [Sink!Next]_sinkVars
  BY SinkStep
<1> QED
  BY <1>1, <1>2, <1>3, PTL DEF Spec, SinkRefined, Sink!Spec, sinkVars

-----------------------------------------------------------------------------
(* Types. HbTypeOK ties each order to the keys of its map; what makes it     *)
(* inductive is that an order names a key once, so that removing a key once  *)
(* removes it for good and the length of the order is the size of the map.   *)
(* No condition on the constants is needed: these theorems cover the         *)
(* evictions and the two threads that close files.                           *)

\* s is an order of the keys in K, each of them once.
Orders(s, K) ==
    /\ s \in Seq(Keys)
    /\ {s[i] : i \in 1 .. Len(s)} = K
    /\ \A i, j \in 1 .. Len(s) : s[i] = s[j] => i = j

\* The empty sequence orders no key.
LEMMA EmptyOrder == Orders(<<>>, {})
BY EmptySeq DEF Orders

\* A key that is not in the order may be appended.
LEMMA AppendOrder ==
  ASSUME NEW s, NEW K, Orders(s, K), NEW k \in Keys \ K
  PROVE  Orders(Append(s, k), K \cup {k})
<1> DEFINE a == Append(s, k)
<1>1. s \in Seq(Keys) /\ Len(s) \in Nat
  BY LenProperties DEF Orders
<1>2. /\ a \in Seq(Keys) /\ Len(a) = Len(s) + 1 /\ a[Len(s) + 1] = k
      /\ \A i \in 1 .. Len(s) : a[i] = s[i]
  BY <1>1, AppendProperties
<1> HIDE DEF a
<1>3. {a[i] : i \in 1 .. Len(a)} = K \cup {k}
  <2>1. ASSUME NEW i \in 1 .. Len(a) PROVE a[i] \in K \cup {k}
    <3>1. CASE i = Len(s) + 1
      BY <1>2, <3>1
    <3>2. CASE i \in 1 .. Len(s)
      BY <1>2, <3>2 DEF Orders
    <3> QED  BY <1>1, <1>2, <3>1, <3>2
  <2>2. ASSUME NEW x \in K \cup {k} PROVE \E i \in 1 .. Len(a) : a[i] = x
    <3>1. CASE x = k
      BY <1>1, <1>2, <3>1
    <3>2. CASE x \in K
      <4>1. PICK i \in 1 .. Len(s) : s[i] = x
        BY <3>2 DEF Orders
      <4> QED  BY <1>1, <1>2, <4>1
    <3> QED  BY <3>1, <3>2
  <2> QED  BY <2>1, <2>2
<1>4. \A i \in 1 .. Len(s) : a[i] # k
  BY <1>2 DEF Orders
<1>5. \A i, j \in 1 .. Len(a) : a[i] = a[j] => i = j
  <2> SUFFICES ASSUME NEW i \in 1 .. Len(a), NEW j \in 1 .. Len(a), a[i] = a[j]
               PROVE  i = j
    OBVIOUS
  <2>1. i \in 1 .. Len(s) \/ i = Len(s) + 1
    BY <1>1, <1>2
  <2>2. j \in 1 .. Len(s) \/ j = Len(s) + 1
    BY <1>1, <1>2
  <2> QED  BY <1>2, <1>4, <2>1, <2>2 DEF Orders
<1> QED  BY <1>2, <1>3, <1>5 DEF Orders, a

\* Without removes one place of the order, and with it the key.
LEMMA WithoutOrder ==
  ASSUME NEW s, NEW K, Orders(s, K), NEW k
  PROVE  /\ Orders(Without(s, k), K \ {k})
         /\ Len(Without(s, k)) = IF k \in K THEN Len(s) - 1 ELSE Len(s)
<1>1. s \in Seq(Keys) /\ Len(s) \in Nat
  BY LenProperties DEF Orders
<1>2. CASE k \notin K
  <2>1. ~ \E i \in 1 .. Len(s) : s[i] = k
    BY <1>2 DEF Orders
  <2>2. Without(s, k) = s /\ K \ {k} = K
    BY <1>2, <2>1 DEF Without
  <2> QED  BY <1>2, <2>2
<1>3. CASE k \in K
  <2>1. \E i \in 1 .. Len(s) : s[i] = k
    BY <1>3 DEF Orders
  <2> DEFINE c == CHOOSE i \in 1 .. Len(s) : s[i] = k
             b == SubSeq(s, 1, c - 1)
             e == SubSeq(s, c + 1, Len(s))
             w == Without(s, k)
  <2>2. c \in 1 .. Len(s) /\ s[c] = k
    BY <2>1
  <2>3. w = b \o e
    BY <2>1 DEF Without
  <2> HIDE DEF c
  <2>4. /\ b \in Seq(Keys) /\ Len(b) = c - 1
        /\ \A i \in 1 .. c - 1 : b[i] = s[i]
    <3>1. \A i \in 1 .. c - 1 : s[i] \in Keys
      BY <1>1, <2>2, ElementOfSeq
    <3>2. /\ b \in Seq(Keys) /\ Len(b) = IF 1 <= c - 1 THEN (c - 1) - 1 + 1 ELSE 0
          /\ \A i \in 1 .. (c - 1) - 1 + 1 : b[i] = s[1 + i - 1]
      BY <1>1, <2>2, <3>1, SubSeqProperties
    <3> HIDE DEF b
    <3> QED  BY <1>1, <2>2, <3>2
  <2>5. /\ e \in Seq(Keys) /\ Len(e) = Len(s) - c
        /\ \A i \in 1 .. Len(s) - c : e[i] = s[c + i]
    <3>1. \A i \in c + 1 .. Len(s) : s[i] \in Keys
      BY <1>1, <2>2, ElementOfSeq
    <3>2. /\ e \in Seq(Keys)
          /\ Len(e) = IF c + 1 <= Len(s) THEN Len(s) - (c + 1) + 1 ELSE 0
          /\ \A i \in 1 .. Len(s) - (c + 1) + 1 : e[i] = s[(c + 1) + i - 1]
      BY <1>1, <2>2, <3>1, SubSeqProperties
    <3> HIDE DEF e
    <3> QED  BY <1>1, <2>2, <3>2
  <2> HIDE DEF b, e, w
  <2>6. /\ w \in Seq(Keys) /\ Len(w) = Len(s) - 1
        /\ \A i \in 1 .. Len(s) - 1 : w[i] = IF i < c THEN s[i] ELSE s[i + 1]
    <3>1. /\ w \in Seq(Keys) /\ Len(w) = Len(b) + Len(e)
          /\ \A i \in 1 .. Len(b) + Len(e) :
               w[i] = IF i <= Len(b) THEN b[i] ELSE e[i - Len(b)]
      BY <2>3, <2>4, <2>5, ConcatProperties
    <3>2. ASSUME NEW i \in 1 .. Len(s) - 1
          PROVE  w[i] = IF i < c THEN s[i] ELSE s[i + 1]
      <4>1. CASE i < c
        BY <1>1, <2>2, <2>4, <2>5, <3>1, <4>1
      <4>2. CASE ~(i < c)
        <5>1. w[i] = e[i - (c - 1)]
          BY <1>1, <2>2, <2>4, <2>5, <3>1, <4>2
        <5>2. i - (c - 1) \in 1 .. Len(s) - c /\ c + (i - (c - 1)) = i + 1
          BY <1>1, <2>2, <4>2
        <5>3. e[i - (c - 1)] = s[c + (i - (c - 1))]
          BY <2>5, <5>2
        <5> QED  BY <4>2, <5>1, <5>2, <5>3
      <4> QED  BY <4>1, <4>2
    <3> QED  BY <1>1, <2>2, <2>4, <2>5, <3>1, <3>2
  <2> DEFINE p(i) == IF i < c THEN i ELSE i + 1
  <2>7. \A i \in 1 .. Len(w) : p(i) \in 1 .. Len(s) /\ p(i) # c /\ w[i] = s[p(i)]
    BY <1>1, <2>2, <2>6
  <2>8. {w[i] : i \in 1 .. Len(w)} = K \ {k}
    <3>1. ASSUME NEW i \in 1 .. Len(w) PROVE w[i] \in K \ {k}
      <4>1. w[i] = s[p(i)] /\ p(i) \in 1 .. Len(s) /\ p(i) # c
        BY <2>7
      <4> HIDE DEF p
      <4> QED  BY <2>2, <4>1 DEF Orders
    <3>2. ASSUME NEW x \in K \ {k} PROVE \E i \in 1 .. Len(w) : w[i] = x
      <4>1. PICK j \in 1 .. Len(s) : s[j] = x
        BY DEF Orders
      <4>2. j # c
        BY <2>2, <4>1
      <4>3. CASE j < c
        BY <1>1, <2>2, <2>6, <4>1, <4>3
      <4>4. CASE j > c
        <5>1. j - 1 \in 1 .. Len(w) /\ w[j - 1] = s[(j - 1) + 1]
          BY <1>1, <2>2, <2>6, <4>4
        <5> QED  BY <1>1, <4>1, <5>1
      <4> QED  BY <1>1, <2>2, <4>2, <4>3, <4>4
    <3> QED  BY <3>1, <3>2
  <2>9. \A i, j \in 1 .. Len(w) : w[i] = w[j] => i = j
    <3> SUFFICES ASSUME NEW i \in 1 .. Len(w), NEW j \in 1 .. Len(w), w[i] = w[j]
                 PROVE  i = j
      OBVIOUS
    <3>1. p(i) = p(j)
      <4> HIDE DEF p
      <4> QED  BY <2>7 DEF Orders
    <3> QED  BY <1>1, <2>2, <2>6, <3>1
  <2>10. Orders(w, K \ {k}) /\ Len(w) = Len(s) - 1
    BY <2>6, <2>8, <2>9 DEF Orders
  <2> QED  BY <1>3, <2>10 DEF w
<1> QED  BY <1>2, <1>3

\* Dropping the first place of an order drops its key.
LEMMA TailOrder ==
  ASSUME NEW s, NEW K, Orders(s, K), s # <<>>
  PROVE  Head(s) \in K /\ Orders(Tail(s), K \ {Head(s)}) /\ Len(Tail(s)) = Len(s) - 1
<1> DEFINE t == Tail(s)
<1>1. s \in Seq(Keys) /\ Len(s) \in Nat \ {0} /\ Head(s) = s[1]
  BY LenProperties, EmptySeq DEF Orders
<1>2. /\ t \in Seq(Keys) /\ Len(t) = Len(s) - 1
      /\ \A i \in 1 .. Len(t) : t[i] = s[i + 1]
  BY <1>1, HeadTailProperties
<1> HIDE DEF t
<1>3. \A i \in 1 .. Len(t) : i + 1 \in 1 .. Len(s) /\ i + 1 # 1
  BY <1>1, <1>2
<1>4. 1 \in 1 .. Len(s) /\ s[1] \in K
  BY <1>1 DEF Orders
<1>5. {t[i] : i \in 1 .. Len(t)} = K \ {s[1]}
  <2>1. ASSUME NEW i \in 1 .. Len(t) PROVE t[i] \in K \ {s[1]}
    BY <1>2, <1>3, <1>4 DEF Orders
  <2>2. ASSUME NEW x \in K \ {s[1]} PROVE \E i \in 1 .. Len(t) : t[i] = x
    <3>1. PICK j \in 1 .. Len(s) : s[j] = x
      BY DEF Orders
    <3>2. j - 1 \in 1 .. Len(t) /\ t[j - 1] = s[(j - 1) + 1]
      BY <1>1, <1>2, <3>1
    <3> QED  BY <1>1, <3>1, <3>2
  <2> QED  BY <2>1, <2>2
<1>6. \A i, j \in 1 .. Len(t) : t[i] = t[j] => i = j
  <2> SUFFICES ASSUME NEW i \in 1 .. Len(t), NEW j \in 1 .. Len(t), t[i] = t[j]
               PROVE  i = j
    OBVIOUS
  <2>1. i + 1 = j + 1
    BY <1>2, <1>3 DEF Orders
  <2> QED  BY <1>1, <1>2, <2>1
<1> QED  BY <1>1, <1>2, <1>4, <1>5, <1>6 DEF Orders, t

\* An order is as long as its set is large.
LEMMA OrderLength ==
  ASSUME NEW s, NEW K, Orders(s, K)
  PROVE  Len(s) \in Nat /\ IsFiniteSet(K) /\ Len(s) = Cardinality(K)
<1>1. s \in Seq(Keys) /\ Len(s) \in Nat /\ s \in [1 .. Len(s) -> Keys]
  BY LenProperties DEF Orders
<1>2. s \in [1 .. Len(s) -> K]
  <2>1. \A i \in 1 .. Len(s) : s[i] \in K
    BY DEF Orders
  <2> QED  BY <1>1, <2>1
<1>3. s \in Injection(1 .. Len(s), K)
  <2>1. \A i, j \in 1 .. Len(s) : s[i] = s[j] => i = j
    BY DEF Orders
  <2> QED  BY <1>2, <2>1, Zenon DEF Injection, IsInjective
<1>4. s \in Surjection(1 .. Len(s), K)
  <2>1. \A x \in K : \E i \in 1 .. Len(s) : s[i] = x
    BY DEF Orders
  <2> QED  BY <1>2, <2>1 DEF Surjection
<1>5. ExistsBijection(1 .. Len(s), K)
  BY <1>3, <1>4 DEF Bijection, ExistsBijection
<1>6. IsFiniteSet(1 .. Len(s))
  BY <1>1, FS_Interval
<1>7. IsFiniteSet(K)
  BY <1>5, <1>6, FS_Bijection
<1>8. Cardinality(K) = Len(s)
  BY <1>1, <1>5, FS_CountingElements
<1> QED  BY <1>1, <1>7, <1>8

\* The maps, with the orders that LinkedHashMap keeps of them. The bound on
\* writers is removeEldestEntry's.
MapsOK ==
    /\ made \in Nat
    /\ writers \in [Keys -> 0 .. made]
    /\ Orders(lru, OpenKeys) /\ Len(lru) <= MaxOpenFiles
    /\ writersTtl \in [Keys -> 0 .. made]
    /\ Orders(ttlOrder, TtlKeys)
    /\ ttlTodo \in Seq(Keys)

\* A file is closed or broken, never both, and only if it was made.
FilesOK ==
    /\ expired \in 0 .. made
    /\ closed \subseteq 1 .. made /\ broken \subseteq (1 .. made) \ closed
    /\ fileOf \in [Tuples -> 0 .. made]
    /\ durable \subseteq Tuples

\* The executor has a tuple and a file where it uses them, and leaves execute()
\* only with the sync policy below its count.
ExecOK ==
    /\ pc \in {"idle", "stamp", "write", "mark", "sync", "rotate", "dead", "stopped"}
    /\ tuple \in Tuples \cup {Nil} /\ file \in 0 .. made
    /\ pc \in {"stamp", "write"} \/ file # None => tuple \in Tuples
    /\ pc \in {"stamp", "write"} => file # None
    /\ pc = "rotate" => file # None
    /\ pc = "idle" => file = None
    /\ tupleBatch \subseteq Tuples
    /\ executeCount \in 0 .. SyncCount
    /\ pc \in {"idle", "stamp", "write", "mark", "rotate"} => executeCount < SyncCount
    /\ toSync \subseteq Keys
    /\ attempts \in 0 .. FileRetryCount

\* The timer has a key where it uses one.
TimerOK ==
    /\ tpc \in {"idle", "next", "get", "close", "removeWriter", "removeTtl", "dead"}
    /\ writeKey \in Keys \cup {Nil} /\ old \in 0 .. made
    /\ tpc \in {"get", "close", "removeWriter", "removeTtl"} => writeKey \in Keys

AnswersOK == acked \subseteq Tuples /\ failed \subseteq Tuples /\ lost \subseteq Tuples

FlagsOK == syncMod \in BOOLEAN /\ ttlMod \in BOOLEAN

HbInv == MapsOK /\ FilesOK /\ ExecOK /\ TimerOK /\ FlagsOK /\ AnswersOK

\* The invariant gives the types: an order is as long as its map is large.
LEMMA HbInvTypes == HbInv => HbTypeOK
<1> SUFFICES ASSUME HbInv PROVE HbTypeOK
  OBVIOUS
<1>1. Len(lru) = Cardinality(OpenKeys)
  BY OrderLength DEF HbInv, MapsOK
<1> QED
  BY <1>1 DEF HbInv, MapsOK, FilesOK, ExecOK, TimerOK, FlagsOK, AnswersOK, HbTypeOK, Orders

\* Empty maps satisfy it.
LEMMA HbInvInit == Init => HbInv
<1> SUFFICES ASSUME Init PROVE HbInv
  OBVIOUS
<1> USE HdfsBoltAssumption DEF Init, None, Nil
<1>1. OpenKeys = {} /\ TtlKeys = {}
  BY DEF OpenKeys, TtlKeys
<1>2. MapsOK
  BY <1>1, EmptyOrder, EmptySeq DEF MapsOK
<1>3. FilesOK /\ AnswersOK
  <2>1. 0 \in 0 .. made
    OBVIOUS
  <2> QED  BY <2>1 DEF FilesOK, AnswersOK
<1>4. TimerOK
  BY DEF TimerOK
<1>5. ExecOK
  BY DEF ExecOK
<1>6. FlagsOK
  BY DEF FlagsOK
<1> QED  BY <1>2, <1>3, <1>4, <1>5, <1>6 DEF HbInv

\* get() moves a key of the map to the end of the order and no other.
LEMMA TouchedOrder ==
  ASSUME MapsOK, NEW k \in Keys
  PROVE  Orders(Touched(k), OpenKeys) /\ Len(Touched(k)) <= MaxOpenFiles
<1> USE DEF MapsOK
<1>1. CASE writers[k] = None
  BY <1>1 DEF Touched
<1>2. CASE writers[k] # None
  <2> DEFINE w == Without(lru, k)
  <2>1. k \in OpenKeys /\ (OpenKeys \ {k}) \cup {k} = OpenKeys
    BY <1>2 DEF OpenKeys
  <2>2. Orders(w, OpenKeys \ {k}) /\ Len(w) = Len(lru) - 1
    BY <2>1, WithoutOrder
  <2>3. lru \in Seq(Keys) /\ w \in Seq(Keys) /\ Len(lru) \in Nat
    BY <2>2, LenProperties DEF Orders
  <2> HIDE DEF w
  <2>4. Orders(Append(w, k), OpenKeys)
    BY <2>1, <2>2, AppendOrder
  <2>5. Len(Append(w, k)) = Len(lru)
    BY <2>2, <2>3, AppendProperties
  <2>6. Touched(k) = Append(w, k)
    BY <1>2 DEF Touched, w
  <2> QED  BY <2>4, <2>5, <2>6
<1> QED  BY <1>1, <1>2

\* Removing a writer removes its key from map and order.
LEMMA RemoveWriterOrder ==
  ASSUME MapsOK, NEW k \in Keys, RemoveWriter(k)
  PROVE  /\ writers' \in [Keys -> 0 .. made]
         /\ Orders(lru', OpenKeys') /\ Len(lru') <= MaxOpenFiles
<1> USE DEF MapsOK
<1>1. writers' = [writers EXCEPT ![k] = None] /\ lru' = Without(lru, k)
  BY DEF RemoveWriter
<1>2. writers' \in [Keys -> 0 .. made]
  BY <1>1 DEF None
<1>3. OpenKeys' = OpenKeys \ {k}
  BY <1>1 DEF OpenKeys
<1>4. /\ Orders(Without(lru, k), OpenKeys \ {k})
      /\ Len(Without(lru, k)) = IF k \in OpenKeys THEN Len(lru) - 1 ELSE Len(lru)
  BY WithoutOrder
<1>5. Len(lru) \in Nat
  BY LenProperties DEF Orders
<1>6. Len(Without(lru, k)) <= MaxOpenFiles
  BY <1>4, <1>5, HdfsBoltAssumption
<1> QED  BY <1>1, <1>2, <1>3, <1>4, <1>6

\* So does removing an opening time.
LEMMA RemoveTtlOrder ==
  ASSUME MapsOK, NEW k \in Keys, RemoveTtl(k)
  PROVE  writersTtl' \in [Keys -> 0 .. made] /\ Orders(ttlOrder', TtlKeys')
<1> USE DEF MapsOK
<1>1. writersTtl' = [writersTtl EXCEPT ![k] = None] /\ ttlOrder' = Without(ttlOrder, k)
  BY DEF RemoveTtl
<1>2. TtlKeys' = TtlKeys \ {k}
  BY <1>1 DEF TtlKeys
<1>3. Orders(Without(ttlOrder, k), TtlKeys \ {k})
  BY WithoutOrder
<1>4. writersTtl' \in [Keys -> 0 .. made]
  BY <1>1 DEF None
<1> QED  BY <1>1, <1>2, <1>3, <1>4

\* An opening time keeps its place or is appended.
LEMMA PutTtlOrder ==
  ASSUME MapsOK, NEW k \in Keys, NEW f \in 1 .. made, PutTtl(k, f)
  PROVE  writersTtl' \in [Keys -> 0 .. made] /\ Orders(ttlOrder', TtlKeys')
<1> USE DEF MapsOK
<1>1. /\ writersTtl' = [writersTtl EXCEPT ![k] = f]
      /\ ttlOrder' = IF writersTtl[k] = None THEN Append(ttlOrder, k) ELSE ttlOrder
  BY DEF PutTtl
<1>2. TtlKeys' = TtlKeys \cup {k}
  BY <1>1 DEF TtlKeys, None
<1>3. writersTtl' \in [Keys -> 0 .. made]
  BY <1>1
<1>4. CASE writersTtl[k] = None
  <2>1. k \in Keys \ TtlKeys
    BY <1>4 DEF TtlKeys
  <2>2. Orders(Append(ttlOrder, k), TtlKeys \cup {k})
    BY <2>1, AppendOrder
  <2> QED  BY <1>1, <1>2, <1>3, <1>4, <2>2
<1>5. CASE writersTtl[k] # None
  <2>1. TtlKeys \cup {k} = TtlKeys
    BY <1>5 DEF TtlKeys
  <2> QED  BY <1>1, <1>2, <1>3, <1>5, <2>1
<1> QED  BY <1>4, <1>5

\* A new writer takes the eldest one's place when the map is full: the map
\* never holds more than maxOpenFiles.
LEMMA PutWriterOrder ==
  ASSUME MapsOK, NEW k \in Keys, writers[k] = None, NEW f \in Nat \ {0}, f = made + 1,
         PutWriter(k, f)
  PROVE  /\ writers' \in [Keys -> 0 .. f]
         /\ Orders(lru', OpenKeys') /\ Len(lru') <= MaxOpenFiles
<1> DEFINE full == Cardinality(OpenKeys) >= MaxOpenFiles
           base == IF full THEN Tail(lru) ELSE lru
           kept == IF full THEN OpenKeys \ {Head(lru)} ELSE OpenKeys
<1>1. /\ writers' = [j \in Keys |->
                       IF j = k THEN f
                       ELSE IF full /\ j = Head(lru) THEN None ELSE writers[j]]
      /\ lru' = Append(base, k)
  BY DEF PutWriter
<1>2. k \notin OpenKeys /\ lru \in Seq(Keys) /\ Orders(lru, OpenKeys)
  BY DEF OpenKeys, MapsOK, Orders
<1>3. Len(lru) \in Nat /\ Len(lru) = Cardinality(OpenKeys) /\ Len(lru) <= MaxOpenFiles
  BY <1>2, OrderLength DEF MapsOK
<1>4. full => lru # <<>>
  BY <1>3, EmptySeq, HdfsBoltAssumption
<1>5. Orders(base, kept) /\ Len(base) < MaxOpenFiles /\ Len(base) \in Nat
  <2>1. CASE full
    BY <1>2, <1>3, <1>4, <2>1, TailOrder, HdfsBoltAssumption
  <2>2. CASE ~full
    BY <1>2, <1>3, <2>2, HdfsBoltAssumption
  <2> QED  BY <2>1, <2>2
<1>6. writers' \in [Keys -> 0 .. f]
  <2>1. \A j \in Keys : writers[j] \in 0 .. f
    BY DEF MapsOK
  <2> HIDE DEF full
  <2> QED  BY <1>1, <2>1 DEF None
<1>7. OpenKeys' = kept \cup {k}
  <2> HIDE DEF full
  <2> QED  BY <1>1 DEF OpenKeys, None
<1> HIDE DEF full, base, kept
<1>8. k \in Keys \ kept
  BY <1>2 DEF kept
<1>9. Orders(Append(base, k), kept \cup {k})
  BY <1>5, <1>8, AppendOrder
<1>10. Len(Append(base, k)) = Len(base) + 1
  BY <1>5, AppendProperties DEF Orders
<1>11. Len(Append(base, k)) <= MaxOpenFiles
  BY <1>5, <1>10, HdfsBoltAssumption
<1> QED  BY <1>1, <1>6, <1>7, <1>9, <1>11

\* No map and no order change in a step that leaves them alone.
LEMMA MapsUnchanged ==
  ASSUME MapsOK, UNCHANGED <<writers, writersTtl, made>>,
         lru' = lru \/ (Orders(lru', OpenKeys) /\ Len(lru') <= MaxOpenFiles),
         ttlOrder' = ttlOrder, ttlTodo' \in Seq(Keys)
  PROVE  MapsOK'
<1>1. OpenKeys' = OpenKeys /\ TtlKeys' = TtlKeys
  BY DEF OpenKeys, TtlKeys
<1> QED  BY <1>1 DEF MapsOK

\* Every step keeps the maps and their orders, whoever takes it.
LEMMA MapsStep ==
  ASSUME HbInv, [Next]_vars
  PROVE  MapsOK'
<1> USE HdfsBoltAssumption DEF HbInv
<1>a. MapsOK
  OBVIOUS
<1>b. made \in Nat /\ ttlTodo \in Seq(Keys) /\ ttlOrder \in Seq(Keys)
  BY DEF MapsOK, Orders
<1>1. ASSUME NEW t \in Tuples, ExecuteKnown(t) PROVE MapsOK'
  <2>1. KeyOf[t] \in Keys
    OBVIOUS
  <2>2. lru' = Touched(KeyOf[t]) /\ UNCHANGED <<writers, writersTtl, made, ttlOrder, ttlTodo>>
    BY <1>1 DEF ExecuteKnown, hdfs, timer
  <2> QED  BY <1>b, <2>1, <2>2, TouchedOrder, MapsUnchanged
<1>2. ASSUME NEW t \in Tuples, ExecuteNew(t) PROVE MapsOK'
  <2>1. KeyOf[t] \in Keys /\ writers[KeyOf[t]] = None
    BY <1>2 DEF ExecuteNew
  <2>2. made' = made + 1 /\ PutWriter(KeyOf[t], made + 1)
        /\ UNCHANGED <<writersTtl, ttlOrder, ttlTodo>>
    BY <1>2 DEF ExecuteNew, timer
  <2>3. /\ writers' \in [Keys -> 0 .. made']
        /\ Orders(lru', OpenKeys') /\ Len(lru') <= MaxOpenFiles
    BY <1>b, <2>1, <2>2, PutWriterOrder
  <2>4. TtlKeys' = TtlKeys /\ Orders(ttlOrder, TtlKeys)
    BY <2>2 DEF TtlKeys, MapsOK
  <2>5. writersTtl \in [Keys -> 0 .. made']
    BY <2>2 DEF MapsOK
  <2> QED  BY <1>b, <2>2, <2>3, <2>4, <2>5 DEF MapsOK
<1>3. CASE Stamp
  <2>1. KeyOf[tuple] \in Keys /\ file \in 1 .. made
    BY <1>3 DEF Stamp, ExecOK, None, MapsOK
  <2>2. PutTtl(KeyOf[tuple], file) /\ UNCHANGED <<writers, lru, made, ttlTodo>>
    BY <1>3 DEF Stamp, hdfs
  <2>3. writersTtl' \in [Keys -> 0 .. made] /\ Orders(ttlOrder', TtlKeys')
    BY <2>1, <2>2, PutTtlOrder
  <2>4. OpenKeys' = OpenKeys
    BY <2>2 DEF OpenKeys
  <2> QED  BY <2>2, <2>3, <2>4 DEF MapsOK
<1>4. CASE Rotate
  <2>1. KeyOf[tuple] \in Keys
    BY <1>4 DEF Rotate, ExecOK
  <2>2. /\ RemoveWriter(KeyOf[tuple]) /\ RemoveTtl(KeyOf[tuple])
        /\ UNCHANGED <<made, ttlTodo>>
    BY <1>4 DEF Rotate
  <2>3. /\ writers' \in [Keys -> 0 .. made]
        /\ Orders(lru', OpenKeys') /\ Len(lru') <= MaxOpenFiles
    BY <2>1, <2>2, RemoveWriterOrder
  <2>4. writersTtl' \in [Keys -> 0 .. made] /\ Orders(ttlOrder', TtlKeys')
    BY <2>1, <2>2, RemoveTtlOrder
  <2> QED  BY <2>2, <2>3, <2>4 DEF MapsOK
<1>5. CASE Cleanup \/ Restart
  <2>1. /\ writers' = [k \in Keys |-> None] /\ lru' = <<>>
        /\ writersTtl' = [k \in Keys |-> None] /\ ttlOrder' = <<>>
        /\ made' = made
    BY <1>5 DEF Cleanup, Restart, Prepared, hdfs
  <2>2. ttlTodo' \in Seq(Keys)
    BY <1>5, <1>b, EmptySeq DEF Cleanup, Restart, Prepared, timer
  <2>3. OpenKeys' = {} /\ TtlKeys' = {}
    BY <2>1 DEF OpenKeys, TtlKeys
  <2>4. writers' \in [Keys -> 0 .. made'] /\ writersTtl' \in [Keys -> 0 .. made']
    BY <1>b, <2>1 DEF None
  <2> QED  BY <1>b, <2>1, <2>2, <2>3, <2>4, EmptyOrder, EmptySeq DEF MapsOK
<1>6. CASE TimerRuns \/ TimerNext
  <2>1. ttlTodo' \in Seq(Keys)
    <3>1. CASE TimerRuns
      BY <1>b, <3>1 DEF TimerRuns
    <3>2. CASE TimerNext
      <4>1. ttlTodo # <<>> /\ ttlTodo' = Tail(ttlTodo)
        BY <3>2 DEF TimerNext
      <4>2. Tail(ttlTodo) \in Seq(Keys)
        BY <1>b, <4>1, HeadTailProperties
      <4> QED  BY <4>1, <4>2
    <3> QED  BY <1>6, <3>1, <3>2
  <2> QED  BY <1>6, <2>1, MapsUnchanged DEF TimerRuns, TimerNext, maps, hdfs
<1>7. CASE TimerGet
  <2>1. writeKey \in Keys
    BY <1>7 DEF TimerGet, TimerOK
  <2>2. lru' = Touched(writeKey) /\ UNCHANGED <<writers, writersTtl, made, ttlOrder, ttlTodo>>
    BY <1>7 DEF TimerGet, hdfs
  <2> QED  BY <1>b, <2>1, <2>2, TouchedOrder, MapsUnchanged
<1>8. CASE TimerRemoveWriter
  <2>1. writeKey \in Keys
    BY <1>8 DEF TimerRemoveWriter, TimerOK
  <2>2. RemoveWriter(writeKey) /\ UNCHANGED <<writersTtl, ttlOrder, made, ttlTodo>>
    BY <1>8 DEF TimerRemoveWriter, hdfs
  <2>3. TtlKeys' = TtlKeys
    BY <2>2 DEF TtlKeys
  <2> QED  BY <2>1, <2>2, <2>3, RemoveWriterOrder DEF MapsOK
<1>9. CASE TimerRemoveTtl
  <2>1. writeKey \in Keys
    BY <1>9 DEF TimerRemoveTtl, TimerOK
  <2>2. RemoveTtl(writeKey) /\ UNCHANGED <<writers, lru, made, ttlTodo>>
    BY <1>9 DEF TimerRemoveTtl, hdfs
  <2>3. OpenKeys' = OpenKeys
    BY <2>2 DEF OpenKeys
  <2> QED  BY <2>1, <2>2, <2>3, RemoveTtlOrder DEF MapsOK
<1>10. CASE UNCHANGED <<maps, made, ttlTodo>>
  BY <1>10, <1>b, MapsUnchanged DEF maps
<1>11. ASSUME NEW t \in Tuples, CreateFails(t) PROVE MapsOK'
  BY <1>10, <1>11 DEF CreateFails, hdfs, timer
<1>12. ASSUME NEW k \in Keys, SyncOne(k) \/ SyncRetry(k) \/ SyncGivesUp(k)
       PROVE  MapsOK'
  BY <1>10, <1>12 DEF SyncOne, SyncRetry, SyncGivesUp, hdfs, timer
<1>13. CASE ExecuteTick \/ Write \/ WriteFails \/ WriteDies \/ Mark \/ SyncDies
            \/ SyncDone \/ Age
  BY <1>10, <1>13 DEF ExecuteTick, Write, WriteFails, WriteDies, Mark, SyncDies,
     SyncDone, Age, hdfs, timer
<1>14. CASE TimerDone \/ TimerDies \/ TimerGotNull \/ TimerClose
            \/ TimerCloseFails \/ UNCHANGED vars
  BY <1>10, <1>14 DEF TimerDone, TimerDies, TimerGotNull, TimerClose,
     TimerCloseFails, hdfs, timer, vars
<1> QED
  BY <1>1, <1>2, <1>3, <1>4, <1>5, <1>6, <1>7, <1>8, <1>9, <1>11, <1>12, <1>13,
     <1>14 DEF Next, ExecStep, TimerStep

\* Closing files of the maps closes or breaks only what was made, once.
LEMMA CloseFilesOK ==
  ASSUME HbInv, NEW S \in SUBSET (1 .. made), NEW B \in SUBSET S, CloseFiles(S, B),
         B \cap closed = {}, UNCHANGED <<made, expired, fileOf>>
  PROVE  FilesOK'
BY DEF HbInv, FilesOK, CloseFiles, Open

\* Every step keeps the files in order.
LEMMA FilesStep ==
  ASSUME HbInv, [Next]_vars
  PROVE  FilesOK'
<1> USE HdfsBoltAssumption DEF HbInv
<1>a. made \in Nat
  BY DEF MapsOK
<1>1. CASE UNCHANGED <<hdfs, expired>>
  BY <1>1 DEF FilesOK, hdfs
<1>2. ASSUME NEW t \in Tuples, ExecuteNew(t) PROVE FilesOK'
  BY <1>2, <1>a DEF ExecuteNew, FilesOK
<1>3. CASE Write
  BY <1>3, <1>a DEF Write, FilesOK, ExecOK
<1>4. ASSUME NEW k \in Keys, SyncOne(k) PROVE FilesOK'
  BY <1>4 DEF SyncOne, FilesOK, ContentOf
<1>5. CASE Rotate
  <2>1. PICK B \in SUBSET {f \in {file} : Open(f)} : CloseFiles({file}, B)
    BY <1>5 DEF Rotate
  <2>2. file \in 1 .. made
    BY <1>5, <1>a DEF Rotate, ExecOK, None
  <2>3. B \in SUBSET {file} /\ B \cap closed = {}
    BY <2>1 DEF Open
  <2> QED  BY <1>5, <2>1, <2>2, <2>3, CloseFilesOK DEF Rotate
<1>6. CASE Cleanup
  <2> DEFINE S == {writers[k] : k \in OpenKeys}
             O == {writers[k] : k \in {j \in OpenKeys : Open(writers[j])}}
  <2>1. PICK B \in SUBSET O : CloseFiles(S, B)
    BY <1>6 DEF Cleanup
  <2>2. S \in SUBSET (1 .. made)
    BY <1>a DEF MapsOK, OpenKeys, None
  <2>3. B \in SUBSET S /\ B \cap closed = {}
    BY <2>1 DEF Open
  <2> HIDE DEF S, O
  <2>4. UNCHANGED <<made, expired, fileOf>>
    BY <1>6 DEF Cleanup
  <2> QED  BY <2>1, <2>2, <2>3, <2>4, CloseFilesOK
<1>7. CASE TimerClose \/ TimerCloseFails
  <2>1. PICK B \in SUBSET {old} : CloseFiles({old}, B) /\ B \cap closed = {}
    BY <1>7 DEF TimerClose, TimerCloseFails
  <2>2. {old} \in SUBSET (1 .. made)
    BY <1>7, <1>a DEF TimerClose, TimerCloseFails, TimerOK, None
  <2> QED  BY <1>7, <2>1, <2>2, CloseFilesOK DEF TimerClose, TimerCloseFails
<1>8. CASE Age
  BY <1>8, <1>a DEF Age, FilesOK, hdfs
<1>9. ASSUME NEW t \in Tuples, ExecuteKnown(t) \/ CreateFails(t) PROVE FilesOK'
  BY <1>1, <1>9 DEF ExecuteKnown, CreateFails
<1>10. ASSUME NEW k \in Keys, SyncRetry(k) \/ SyncGivesUp(k) PROVE FilesOK'
  BY <1>1, <1>10 DEF SyncRetry, SyncGivesUp
<1>11. CASE ExecuteTick \/ Stamp \/ WriteFails \/ WriteDies \/ Mark \/ SyncDies
            \/ SyncDone \/ Restart
  BY <1>1, <1>11 DEF ExecuteTick, Stamp, WriteFails, WriteDies, Mark, SyncDies,
     SyncDone, Restart
<1>12. CASE TimerRuns \/ TimerNext \/ TimerDone \/ TimerDies \/ TimerGet \/ TimerGotNull
            \/ TimerRemoveWriter \/ TimerRemoveTtl \/ UNCHANGED vars
  BY <1>1, <1>12 DEF TimerRuns, TimerNext, TimerDone, TimerDies, TimerGet,
     TimerGotNull, TimerRemoveWriter, TimerRemoveTtl, vars
<1> QED
  BY <1>2, <1>3, <1>4, <1>5, <1>6, <1>7, <1>8, <1>9, <1>10, <1>11, <1>12
  DEF Next, ExecStep, TimerStep

\* Finish rotates only a file there is, or forgets tuple and file.
LEMMA FinishDoes ==
  ASSUME Finish
  PROVE  \/ pc' = "rotate" /\ file # None /\ tuple' = tuple /\ file' = file
         \/ pc' = "idle" /\ tuple' = Nil /\ file' = None
BY DEF Finish, NeedsRotation

\* Every step keeps the executor's data: Mark counts up to the policy's count,
\* and only a sync, which resets it, follows a count that is reached.
LEMMA ExecutorStep ==
  ASSUME HbInv, [Next]_vars
  PROVE  ExecOK'
<1> USE HdfsBoltAssumption DEF HbInv, ExecOK, None, Nil
<1>a. made \in Nat /\ writers \in [Keys -> 0 .. made]
  BY DEF MapsOK
<1>1. ASSUME NEW t \in Tuples, ExecuteKnown(t) PROVE ExecOK'
  BY <1>1, <1>a DEF ExecuteKnown, hdfs
<1>2. ASSUME NEW t \in Tuples, ExecuteNew(t) PROVE ExecOK'
  BY <1>2, <1>a DEF ExecuteNew
<1>3. ASSUME NEW t \in Tuples, CreateFails(t) PROVE ExecOK'
  BY <1>3, <1>a DEF CreateFails, hdfs
<1>4. CASE ExecuteTick \/ Stamp \/ Write \/ WriteFails \/ WriteDies
  BY <1>4, <1>a DEF ExecuteTick, Stamp, Write, WriteFails, WriteDies, Die, hdfs
<1>5. CASE Mark
  <2>1. made' = made /\ tupleBatch' = tupleBatch /\ executeCount' = executeCount + 1
    BY <1>5 DEF Mark, hdfs
  <2>2. CASE pc' = "sync"
    BY <1>5, <2>1, <2>2 DEF Mark, Finish, OpenKeys
  <2>3. CASE pc' # "sync"
    <3>1. executeCount' < SyncCount /\ Finish /\ UNCHANGED <<toSync, attempts>>
      BY <1>5, <2>1, <2>3 DEF Mark
    <3>2. executeCount' \in 0 .. SyncCount
      BY <2>1, <3>1
    <3>3. CASE pc' = "rotate" /\ file # None /\ tuple' = tuple /\ file' = file
      BY <2>1, <3>1, <3>2, <3>3
    <3>4. CASE pc' = "idle" /\ tuple' = Nil /\ file' = None
      BY <1>a, <2>1, <3>1, <3>2, <3>4
    <3> QED  BY <3>1, <3>3, <3>4, FinishDoes
  <2> QED  BY <2>2, <2>3
<1>6. ASSUME NEW k \in Keys, SyncOne(k) \/ SyncRetry(k) \/ SyncGivesUp(k)
      PROVE  ExecOK'
  BY <1>6 DEF SyncOne, SyncRetry, SyncGivesUp, Die, OpenKeys, hdfs
<1>7. CASE SyncDies
  BY <1>7 DEF SyncDies, Die, hdfs
<1>8. CASE SyncDone
  <2>1. /\ Finish /\ executeCount' = 0 /\ tupleBatch' = {}
        /\ UNCHANGED <<made, toSync, attempts>>
    BY <1>8 DEF SyncDone, hdfs
  <2>2. CASE pc' = "rotate" /\ file # None /\ tuple' = tuple /\ file' = file
    BY <2>1, <2>2
  <2>3. CASE pc' = "idle" /\ tuple' = Nil /\ file' = None
    BY <1>a, <2>1, <2>3
  <2> QED  BY <2>1, <2>2, <2>3, FinishDoes
<1>9. CASE Rotate
  BY <1>9, <1>a DEF Rotate
<1>10. CASE Cleanup
  BY <1>10 DEF Cleanup
<1>11. CASE Restart
  BY <1>11, <1>a DEF Restart, Prepared, hdfs
<1>12. CASE Age \/ TimerRuns \/ TimerNext \/ TimerDone \/ TimerDies \/ TimerGet
            \/ TimerGotNull
  BY <1>12 DEF Age, TimerRuns, TimerNext, TimerDone, TimerDies, TimerGet,
     TimerGotNull, exec, hdfs
<1>13. CASE TimerClose \/ TimerCloseFails \/ TimerRemoveWriter \/ TimerRemoveTtl
            \/ UNCHANGED vars
  BY <1>13 DEF TimerClose, TimerCloseFails, TimerRemoveWriter, TimerRemoveTtl,
     exec, hdfs, vars
<1> QED
  BY <1>1, <1>2, <1>3, <1>4, <1>5, <1>6, <1>7, <1>8, <1>9, <1>10, <1>11, <1>12,
     <1>13 DEF Next, ExecStep, TimerStep

\* Every step keeps the timer's data: the key comes from the iteration.
LEMMA TimerDataStep ==
  ASSUME HbInv, [Next]_vars
  PROVE  TimerOK'
<1> USE DEF HbInv, TimerOK, Nil, None
<1>a. made \in Nat /\ ttlTodo \in Seq(Keys) /\ writers \in [Keys -> 0 .. made]
  BY DEF MapsOK
<1>1. CASE UNCHANGED <<made, tpc, writeKey, old>>
  BY <1>1
<1>2. ASSUME NEW t \in Tuples, ExecuteNew(t) PROVE TimerOK'
  BY <1>2, <1>a DEF ExecuteNew, timer
<1>3. CASE Restart
  BY <1>3, <1>a DEF Restart, Prepared, hdfs
<1>4. CASE TimerNext
  <2>1. Head(ttlTodo) \in Keys
    BY <1>4, <1>a, HeadTailProperties DEF TimerNext
  <2> QED  BY <1>4, <2>1 DEF TimerNext, hdfs
<1>5. CASE TimerRuns \/ TimerDone \/ TimerDies \/ TimerGet \/ TimerGotNull
           \/ TimerClose \/ TimerCloseFails \/ TimerRemoveWriter \/ TimerRemoveTtl
  BY <1>5, <1>a DEF TimerRuns, TimerDone, TimerDies, TimerGet, TimerGotNull,
     TimerClose, TimerCloseFails, TimerRemoveWriter, TimerRemoveTtl, hdfs
<1>6. ASSUME NEW t \in Tuples, ExecuteKnown(t) \/ CreateFails(t) PROVE TimerOK'
  BY <1>1, <1>6 DEF ExecuteKnown, CreateFails, hdfs, timer
<1>7. ASSUME NEW k \in Keys, SyncOne(k) \/ SyncRetry(k) \/ SyncGivesUp(k)
      PROVE  TimerOK'
  BY <1>1, <1>7 DEF SyncOne, SyncRetry, SyncGivesUp, hdfs, timer
<1>8. CASE ExecuteTick \/ Stamp \/ Write \/ WriteFails \/ WriteDies \/ Mark
           \/ SyncDies \/ SyncDone \/ Rotate \/ Cleanup \/ Age \/ UNCHANGED vars
  BY <1>1, <1>8 DEF ExecuteTick, Stamp, Write, WriteFails, WriteDies, Mark,
     SyncDies, SyncDone, Rotate, Cleanup, Age, hdfs, timer, vars
<1> QED
  BY <1>2, <1>3, <1>4, <1>5, <1>6, <1>7, <1>8 DEF Next, ExecStep, TimerStep

\* The two iterators' modification flags are flags.
LEMMA FlagsStep ==
  ASSUME FlagsOK, [Next]_vars
  PROVE  FlagsOK'
<1> USE DEF FlagsOK
<1>1. \/ syncMod' = syncMod \/ syncMod' = FALSE
      \/ \E b \in BOOLEAN : syncMod' = (syncMod \/ b)
  <2>1. ASSUME NEW t \in Tuples, ExecuteKnown(t) \/ ExecuteNew(t) \/ CreateFails(t)
        PROVE  syncMod' = syncMod
    BY <2>1 DEF ExecuteKnown, ExecuteNew, CreateFails
  <2>2. ASSUME NEW k \in Keys, SyncOne(k) \/ SyncRetry(k) \/ SyncGivesUp(k)
        PROVE  syncMod' = syncMod
    BY <2>2 DEF SyncOne, SyncRetry, SyncGivesUp
  <2>3. CASE ExecuteTick \/ Stamp \/ Write \/ WriteFails \/ WriteDies \/ SyncDies
             \/ SyncDone \/ Rotate \/ Cleanup
    BY <2>3 DEF ExecuteTick, Stamp, Write, WriteFails, WriteDies, SyncDies,
       SyncDone, Rotate, Cleanup
  <2>4. CASE Mark \/ Restart
    BY <2>4 DEF Mark, Restart, Prepared
  <2>5. CASE TimerGet \/ TimerRemoveWriter
    BY <2>5 DEF TimerGet, TimerRemoveWriter
  <2>6. CASE Age \/ TimerRuns \/ TimerNext \/ TimerDone \/ TimerDies \/ TimerGotNull
             \/ TimerClose \/ TimerCloseFails \/ TimerRemoveTtl \/ UNCHANGED vars
    BY <2>6 DEF Age, TimerRuns, TimerNext, TimerDone, TimerDies, TimerGotNull,
       TimerClose, TimerCloseFails, TimerRemoveTtl, exec, vars
  <2> QED
    BY <2>1, <2>2, <2>3, <2>4, <2>5, <2>6 DEF Next, ExecStep, TimerStep
<1>2. \/ ttlMod' = ttlMod \/ ttlMod' = FALSE
      \/ \E b \in BOOLEAN : ttlMod' = (ttlMod \/ b)
  <2>1. ASSUME NEW t \in Tuples, ExecuteKnown(t) \/ ExecuteNew(t) \/ CreateFails(t)
        PROVE  ttlMod' = ttlMod
    BY <2>1 DEF ExecuteKnown, ExecuteNew, CreateFails, timer
  <2>2. ASSUME NEW k \in Keys, SyncOne(k) \/ SyncRetry(k) \/ SyncGivesUp(k)
        PROVE  ttlMod' = ttlMod
    BY <2>2 DEF SyncOne, SyncRetry, SyncGivesUp, timer
  <2>3. CASE ExecuteTick \/ Write \/ WriteFails \/ WriteDies \/ Mark \/ SyncDies
             \/ SyncDone \/ Cleanup \/ Age
    BY <2>3 DEF ExecuteTick, Write, WriteFails, WriteDies, Mark, SyncDies,
       SyncDone, Cleanup, Age, timer
  <2>4. CASE Restart \/ TimerRuns \/ TimerDone
    BY <2>4 DEF Restart, Prepared, TimerRuns, TimerDone
  <2>5. CASE Stamp \/ Rotate \/ TimerRemoveTtl
    BY <2>5 DEF Stamp, Rotate, TimerRemoveTtl, PutTtl, RemoveTtl
  <2>6. CASE TimerNext \/ TimerDies \/ TimerGet \/ TimerGotNull \/ TimerClose
             \/ TimerCloseFails \/ TimerRemoveWriter \/ UNCHANGED vars
    BY <2>6 DEF TimerNext, TimerDies, TimerGet, TimerGotNull, TimerClose,
       TimerCloseFails, TimerRemoveWriter, timer, vars
  <2> QED
    BY <2>1, <2>2, <2>3, <2>4, <2>5, <2>6 DEF Next, ExecStep, TimerStep
<1> QED  BY <1>1, <1>2

\* Only tuples are answered or lost.
LEMMA AnswersStep ==
  ASSUME HbInv, [Next]_vars
  PROVE  AnswersOK'
<1> USE DEF HbInv, AnswersOK, ExecOK
<1>1. CASE UNCHANGED answers
  BY <1>1 DEF answers
<1>2. ASSUME NEW t \in Tuples, ExecuteKnown(t) \/ ExecuteNew(t) \/ CreateFails(t)
      PROVE  AnswersOK'
  BY <1>2 DEF ExecuteKnown, ExecuteNew, CreateFails, answers
<1>3. ASSUME NEW k \in Keys, SyncOne(k) \/ SyncRetry(k) \/ SyncGivesUp(k)
      PROVE  AnswersOK'
  BY <1>3 DEF SyncOne, SyncRetry, SyncGivesUp, Die, answers
<1>4. CASE WriteFails \/ WriteDies \/ SyncDies \/ SyncDone \/ Cleanup
  BY <1>4 DEF WriteFails, WriteDies, SyncDies, SyncDone, Cleanup, Die
<1>5. CASE ExecuteTick \/ Stamp \/ Write \/ Mark \/ Rotate \/ Restart \/ Age
           \/ TimerStep \/ UNCHANGED vars
  BY <1>1, <1>5 DEF ExecuteTick, Stamp, Write, Mark, Rotate, Restart, Age, TimerStep,
     TimerRuns, TimerNext, TimerDone, TimerDies, TimerGet, TimerGotNull, TimerClose,
     TimerCloseFails, TimerRemoveWriter, TimerRemoveTtl, vars
<1> QED  BY <1>2, <1>3, <1>4, <1>5 DEF Next, ExecStep

\* Whatever executor, timer, failing file system and restarts do to the two
\* maps, each order of a LinkedHashMap lists exactly the keys of its map, the
\* map of writers never holds more than maxOpenFiles, and no file is both closed
\* and broken. No condition on the constants is needed.
THEOREM BoltTypeCorrect == Spec => []HbTypeOK
<1>1. Init => HbInv
  BY HbInvInit
<1>2. HbInv /\ [Next]_vars => HbInv'
  BY MapsStep, FilesStep, ExecutorStep, TimerDataStep, FlagsStep, AnswersStep DEF HbInv
<1>3. HbInv => HbTypeOK
  BY HbInvTypes
<1> QED  BY <1>1, <1>2, <1>3, PTL DEF Spec

=============================================================================
