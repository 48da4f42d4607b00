-------------------------- MODULE MacSessionProofs --------------------------
(***************************************************************************)
(* Proofs about MacSession, for any number of boxes, channels, operators,  *)
(* bolt tasks, trigger threads and events, and any set of faults.          *)
(***************************************************************************)
EXTENDS MacSession, TLAPS

-----------------------------------------------------------------------------
(* Types.                                                                  *)

\* The six fields of a play event have their types.
LEMMA PlayFields ==
    ASSUME NEW p \in Play
    PROVE  /\ p.mac \in Macs /\ p.pt \in PlayTypes /\ p.chan \in Channels
           /\ p.partner \in Partners
           /\ [chan |-> p.chan, partner |-> p.partner] \in Session
           /\ p # None
BY MacSessionAssumption DEF Play, Session, MacSessionAssumption

\* The channel of a session is a channel, and None is neither.
LEMMA SessionFields ==
    /\ None \notin Session
    /\ None \notin Channels
    /\ None \notin Macs
    /\ \A s \in Session \cup {None} : ChanOf(s) \in Channels \cup {None}
    /\ \A s \in Session : ChanOf(s) = s.chan /\ s.chan \in Channels
BY MacSessionAssumption DEF MacSessionAssumption, Session, ChanOf

\* Bolt tasks and trigger threads are different clients.
LEMMA ClientKinds ==
    /\ \A b \in MacTasks : b \in Clients /\ b \notin Threads
    /\ \A t \in Threads : t \in Clients /\ t \notin MacTasks
    /\ \A c \in Clients : c \in MacTasks \/ c \in Threads
BY MacSessionAssumption DEF MacSessionAssumption, Clients

\* Giving a connection back keeps the types of the client's registers.
LEMMA CloseType ==
    ASSUME TypeOK, NEW c \in Clients, Close(c)
    PROVE  /\ pc' \in [Clients -> {"idle", "get", "exec", "renew", "emit",
                                   "decrTotal", "decrPartner"}]
           /\ on' \in [Clients -> Macs \cup {None}]
           /\ ev' \in [Clients -> Play \cup {None}]
           /\ seen' \in [Clients -> Session \cup {None}]
           /\ \A b \in MacTasks :
                pc'[b] \in {"idle", "get", "exec", "renew", "emit"}
           /\ \A t \in Threads :
                pc'[t] \in {"idle", "get", "exec", "decrTotal", "decrPartner"}
           /\ \A d \in Clients : pc'[d] # "idle" => on'[d] \in Macs
           /\ \A b \in MacTasks :
                pc'[b] # "idle" => ev'[b] \in Play /\ ev'[b].mac = on'[b]
BY ClientKinds DEF TypeOK, Close

\* Spoiling transactions keeps the type of dirty.
LEMMA TouchType ==
    ASSUME TypeOK, NEW c, NEW m, Touch(c, m)
    PROVE  dirty' \in [Clients -> BOOLEAN]
BY Zenon DEF TypeOK, Touch

\* Booking keeps the type of booked.
LEMMA BookType ==
    ASSUME TypeOK, NEW m \in Macs, NEW add, NEW dec, Book(m, add, dec)
    PROVE  booked' \in [Macs -> [Channels -> Int]]
BY DEF TypeOK, Book


\* Every step keeps the types of the variables.
LEMMA TypeStep == TypeOK /\ [Next]_vars => TypeOK'
<1> SUFFICES ASSUME TypeOK, [Next]_vars PROVE TypeOK'
  OBVIOUS
<1>1. ASSUME NEW b \in MacTasks, NEW log \in Log, Watch(b, log) PROVE TypeOK'
  <2>1. log.play \in Play
    BY DEF Log
  <2>2. log.play.mac \in Macs
    BY <2>1, PlayFields
  <2> QED
    BY <1>1, <2>1, <2>2, ClientKinds, MacSessionAssumption
    DEF Watch, TypeOK, MacSessionAssumption
<1>2. ASSUME NEW b \in MacTasks, BoltStep(b) PROVE TypeOK'
  <2>1. CASE GetForTransaction(b)
    BY <2>1, ClientKinds DEF GetForTransaction, TypeOK
  <2>2. CASE GetForRenewal(b)
    BY <2>2, ClientKinds DEF GetForRenewal, TypeOK
  <2>3. CASE GetAndReturn(b)
    BY <2>3, ClientKinds, CloseType DEF GetAndReturn, TypeOK
  <2>4. CASE ExecPlay(b)
    <3>1. on[b] \in Macs /\ ev[b] \in Play
      BY <2>4, ClientKinds DEF ExecPlay, TypeOK
    <3>2. dirty' \in [Clients -> BOOLEAN]
      BY <2>4, TouchType DEF ExecPlay
    <3>3. booked' \in [Macs -> [Channels -> Int]]
      BY <2>4, <3>1, BookType DEF ExecPlay
    <3>4. /\ macKey' \in [Macs -> {"absent", "fresh", "stale"}]
          /\ macCopy' \in [Macs -> Session \cup {None}]
      BY <2>4, <3>1, PlayFields DEF ExecPlay, WritePlay, TypeOK
    <3> QED
      BY <2>4, <3>2, <3>3, <3>4, ClientKinds DEF ExecPlay, TypeOK
  <2>5. CASE ExecStop(b)
    <3>1. on[b] \in Macs
      BY <2>5, ClientKinds DEF ExecStop, TypeOK
    <3>2. dirty' \in [Clients -> BOOLEAN]
      BY <2>5, TouchType DEF ExecStop
    <3>3. booked' \in [Macs -> [Channels -> Int]]
      BY <2>5, <3>1, BookType DEF ExecStop
    <3>4. /\ macKey' \in [Macs -> {"absent", "fresh", "stale"}]
          /\ macCopy' \in [Macs -> Session \cup {None}]
      BY <2>5, <3>1 DEF ExecStop, WriteStop, TypeOK
    <3> QED
      BY <2>5, <3>2, <3>3, <3>4, ClientKinds DEF ExecStop, TypeOK
  <2>6. CASE Aborted(b)
    BY <2>6, ClientKinds, CloseType DEF Aborted, TypeOK
  <2>7. CASE Renew(b)
    <3>1. dirty' \in [Clients -> BOOLEAN]
      BY <2>7, TouchType DEF Renew, TypeOK
    <3>2. macKey' \in [Macs -> {"absent", "fresh", "stale"}]
      BY <2>7 DEF Renew, TypeOK
    <3> QED
      BY <2>7, <3>1, <3>2, ClientKinds, CloseType DEF Renew, TypeOK
  <2>8. CASE Emit(b)
    BY <2>8, ClientKinds, CloseType DEF Emit, TypeOK
  <2> QED
    BY <1>2, <2>1, <2>2, <2>3, <2>4, <2>5, <2>6, <2>7, <2>8 DEF BoltStep
<1>3. ASSUME NEW b \in MacTasks, ExecAnswerLost(b) PROVE TypeOK'
  <2>1. on[b] \in Macs /\ ev[b] \in Play
    BY <1>3, ClientKinds DEF ExecAnswerLost, TypeOK
  <2>2. dirty' \in [Clients -> BOOLEAN]
    BY <1>3, TouchType DEF ExecAnswerLost
  <2>3. /\ macKey' \in [Macs -> {"absent", "fresh", "stale"}]
        /\ macCopy' \in [Macs -> Session \cup {None}]
    <3>1. CASE WritePlay(b)
      BY <2>1, <3>1, PlayFields DEF WritePlay, TypeOK
    <3>2. CASE WriteStop(b)
      BY <2>1, <3>2 DEF WriteStop, TypeOK
    <3> QED
      BY <1>3, <3>1, <3>2 DEF ExecAnswerLost
  <2> QED
    BY <1>3, <2>2, <2>3, ClientKinds, CloseType DEF ExecAnswerLost, TypeOK
<1>4. ASSUME NEW t \in Threads, TriggerStep(t) PROVE TypeOK'
  <2>1. ASSUME NEW m \in Macs, TriggerWatch(t, m) PROVE TypeOK'
    BY <2>1, ClientKinds DEF TriggerWatch, TypeOK
  <2>2. CASE TriggerGet(t)
    BY <2>2, ClientKinds DEF TriggerGet, TypeOK
  <2>3. CASE TriggerExec(t)
    <3>1. on[t] \in Macs
      BY <2>3, ClientKinds DEF TriggerExec, TypeOK
    <3>2. dirty' \in [Clients -> BOOLEAN]
      BY <2>3, TouchType DEF TriggerExec, DelCopy, TypeOK
    <3>3. booked' \in [Macs -> [Channels -> Int]]
      BY <2>3, <3>1, BookType DEF TriggerExec
    <3>4. macCopy' \in [Macs -> Session \cup {None}]
      BY <2>3 DEF TriggerExec, DelCopy, TypeOK
    <3>5. CASE seen[t] # None
      BY <2>3, <3>2, <3>3, <3>4, <3>5, ClientKinds DEF TriggerExec, TypeOK
    <3>6. CASE Close(t)
      BY <2>3, <3>2, <3>3, <3>4, <3>6, ClientKinds, CloseType
      DEF TriggerExec, TypeOK
    <3> QED
      BY <2>3, <3>5, <3>6 DEF TriggerExec
  <2>4. CASE Aborted(t)
    BY <2>4, ClientKinds, CloseType DEF Aborted, TypeOK
  <2>5. CASE DecrTotal(t)
    BY <2>5, ClientKinds DEF DecrTotal, TypeOK
  <2>6. CASE DecrPartner(t)
    BY <2>6, ClientKinds, CloseType DEF DecrPartner, TypeOK
  <2> QED
    BY <1>4, <2>1, <2>2, <2>3, <2>4, <2>5, <2>6 DEF TriggerStep
<1>5. ASSUME NEW t \in Threads, TriggerAnswerLost(t) PROVE TypeOK'
  <2>1. dirty' \in [Clients -> BOOLEAN]
    BY <1>5, TouchType DEF TriggerAnswerLost, DelCopy, TypeOK
  <2>2. macCopy' \in [Macs -> Session \cup {None}]
    BY <1>5 DEF TriggerAnswerLost, DelCopy, TypeOK
  <2> QED
    BY <1>5, <2>1, <2>2, ClientKinds, CloseType DEF TriggerAnswerLost, TypeOK
<1>6. ASSUME NEW c \in Clients, CallFails(c) PROVE TypeOK'
  BY <1>6, CloseType DEF CallFails, TypeOK
<1>7. ASSUME NEW m \in Macs, Age(m) \/ Expire(m) \/ ExpireUnheard(m)
      PROVE  TypeOK'
  <2>1. CASE Age(m)
    BY <2>1 DEF Age, TypeOK
  <2>2. CASE Expire(m)
    BY <2>2 DEF Expire, TypeOK
  <2>3. CASE ExpireUnheard(m)
    BY <2>3 DEF ExpireUnheard, TypeOK
  <2> QED
    BY <1>7, <2>1, <2>2, <2>3
<1>8. CASE UNCHANGED vars
  BY <1>8 DEF vars, TypeOK
<1> QED
  BY <1>1, <1>2, <1>3, <1>4, <1>5, <1>6, <1>7, <1>8 DEF Next

\* Every reachable state is well typed; in particular a client that is not
\* idle watches a real box, and a task's event is about that box.
THEOREM TypeCorrect == Spec => []TypeOK
<1>1. Init => TypeOK
  BY MacSessionAssumption, ClientKinds DEF Init, TypeOK, MacSessionAssumption
<1> QED
  BY <1>1, TypeStep, PTL DEF Spec

-----------------------------------------------------------------------------
(* The optimistic lock.                                                    *)

\* A client that writes the session of m, spoils its other watchers and leaves
\* its own transaction keeps the lock sound.
LEMMA WriteKeepsReads ==
    ASSUME TypeOK, ReadStillTrue,
           NEW c \in Clients, NEW m \in Macs, NEW s,
           macCopy' = [macCopy EXCEPT ![m] = s],
           Touch(c, m),
           pc'[c] # "exec",
           \A d \in Clients \ {c} :
               pc'[d] = pc[d] /\ on'[d] = on[d] /\ seen'[d] = seen[d]
    PROVE  ReadStillTrue'
<1> SUFFICES ASSUME NEW d \in Clients, pc'[d] = "exec", ~dirty'[d]
             PROVE  seen'[d] = macCopy'[on'[d]]
  BY DEF ReadStillTrue
<1>1. d # c
  OBVIOUS
<1>2. ~dirty[d] /\ on[d] # m
  BY <1>1 DEF Touch
<1>3. pc[d] = "exec" /\ on'[d] = on[d] /\ seen'[d] = seen[d]
  BY <1>1
<1>4. on[d] \in Macs
  BY <1>3 DEF TypeOK
<1>5. macCopy'[on[d]] = macCopy[on[d]]
  BY <1>2, <1>4 DEF TypeOK
<1> QED
  BY <1>2, <1>3, <1>5 DEF ReadStillTrue

\* So does a client that writes no session, if it is not about to commit
\* afterwards or has just read.
LEMMA NoWriteKeepsReads ==
    ASSUME TypeOK, ReadStillTrue, macCopy' = macCopy,
           NEW c \in Clients,
           pc'[c] = "exec" => seen'[c] = macCopy[on'[c]],
           \A d \in Clients \ {c} :
               /\ pc'[d] = pc[d] /\ on'[d] = on[d] /\ seen'[d] = seen[d]
               /\ dirty[d] => dirty'[d]
    PROVE  ReadStillTrue'
BY DEF ReadStillTrue, TypeOK

\* Closing leaves every other client alone.
LEMMA CloseOthers ==
    ASSUME TypeOK, NEW c \in Clients, Close(c)
    PROVE  /\ pc'[c] = "idle"
           /\ \A d \in Clients \ {c} :
                pc'[d] = pc[d] /\ on'[d] = on[d] /\ seen'[d] = seen[d]
BY DEF TypeOK, Close

\* Spoiling never cleans.
LEMMA TouchMonotone ==
    ASSUME NEW c, NEW m, Touch(c, m)
    PROVE  \A d \in Clients : dirty[d] => dirty'[d]
BY DEF Touch

\* DEL mac|cp keeps the lock sound, whether there was a session or not.
LEMMA DelKeepsReads ==
    ASSUME TypeOK, ReadStillTrue, NEW t \in Clients, on[t] \in Macs,
           DelCopy(t), pc'[t] # "exec",
           \A d \in Clients \ {t} :
               pc'[d] = pc[d] /\ on'[d] = on[d] /\ seen'[d] = seen[d]
    PROVE  ReadStillTrue'
<1>1. CASE macCopy[on[t]] # None
  BY <1>1, WriteKeepsReads DEF DelCopy
<1>2. CASE macCopy[on[t]] = None
  <2>1. macCopy' = macCopy
    BY <1>2 DEF DelCopy, TypeOK
  <2> QED
    BY <1>2, <2>1, NoWriteKeepsReads DEF DelCopy
<1> QED
  BY <1>1, <1>2

\* Every step keeps the lock sound.
LEMMA ReadStep == TypeOK /\ ReadStillTrue /\ [Next]_vars => ReadStillTrue'
<1> SUFFICES ASSUME TypeOK, ReadStillTrue, [Next]_vars PROVE ReadStillTrue'
  OBVIOUS
<1>1. ASSUME NEW b \in MacTasks, NEW log \in Log, Watch(b, log)
      PROVE  ReadStillTrue'
  BY <1>1, ClientKinds DEF Watch, ReadStillTrue, TypeOK
<1>2. ASSUME NEW b \in MacTasks, BoltStep(b) PROVE ReadStillTrue'
  <2>1. CASE GetForTransaction(b)
    BY <2>1, ClientKinds DEF GetForTransaction, ReadStillTrue, TypeOK
  <2>2. CASE GetForRenewal(b)
    BY <2>2, ClientKinds DEF GetForRenewal, ReadStillTrue, TypeOK
  <2>3. CASE GetAndReturn(b)
    BY <2>3, ClientKinds, CloseOthers, NoWriteKeepsReads DEF GetAndReturn
  <2>4. CASE ExecPlay(b)
    <3>1. on[b] \in Macs
      BY <2>4, ClientKinds DEF ExecPlay, TypeOK
    <3>2. /\ pc'[b] # "exec"
          /\ \A d \in Clients \ {b} :
               pc'[d] = pc[d] /\ on'[d] = on[d] /\ seen'[d] = seen[d]
      BY <2>4, ClientKinds DEF ExecPlay, TypeOK
    <3> QED
      BY <2>4, <3>1, <3>2, ClientKinds, WriteKeepsReads DEF ExecPlay, WritePlay
  <2>5. CASE ExecStop(b)
    <3>1. on[b] \in Macs
      BY <2>5, ClientKinds DEF ExecStop, TypeOK
    <3>2. /\ pc'[b] # "exec"
          /\ \A d \in Clients \ {b} :
               pc'[d] = pc[d] /\ on'[d] = on[d] /\ seen'[d] = seen[d]
      BY <2>5, ClientKinds DEF ExecStop, TypeOK
    <3> QED
      BY <2>5, <3>1, <3>2, ClientKinds, WriteKeepsReads DEF ExecStop, WriteStop
  <2>6. CASE Aborted(b)
    BY <2>6, ClientKinds, CloseOthers, NoWriteKeepsReads DEF Aborted
  <2>7. CASE Renew(b)
    <3>1. \A d \in Clients : dirty[d] => dirty'[d]
      BY <2>7, TouchMonotone DEF Renew
    <3> QED
      BY <2>7, <3>1, ClientKinds, CloseOthers, NoWriteKeepsReads DEF Renew
  <2>8. CASE Emit(b)
    BY <2>8, ClientKinds, CloseOthers, NoWriteKeepsReads DEF Emit
  <2> QED
    BY <1>2, <2>1, <2>2, <2>3, <2>4, <2>5, <2>6, <2>7, <2>8 DEF BoltStep
<1>3. ASSUME NEW b \in MacTasks, ExecAnswerLost(b) PROVE ReadStillTrue'
  <2>1. on[b] \in Macs
    BY <1>3, ClientKinds DEF ExecAnswerLost, TypeOK
  <2>2. \E s : macCopy' = [macCopy EXCEPT ![on[b]] = s]
    BY <1>3 DEF ExecAnswerLost, WritePlay, WriteStop
  <2> QED
    BY <1>3, <2>1, <2>2, ClientKinds, CloseOthers, WriteKeepsReads
    DEF ExecAnswerLost
<1>4. ASSUME NEW t \in Threads, TriggerStep(t) PROVE ReadStillTrue'
  <2>1. ASSUME NEW m \in Macs, TriggerWatch(t, m) PROVE ReadStillTrue'
    BY <2>1, ClientKinds DEF TriggerWatch, ReadStillTrue, TypeOK
  <2>2. CASE TriggerGet(t)
    BY <2>2, ClientKinds DEF TriggerGet, ReadStillTrue, TypeOK
  <2>3. CASE TriggerExec(t)
    <3>1. on[t] \in Macs
      BY <2>3, ClientKinds DEF TriggerExec, TypeOK
    <3>2. /\ pc'[t] # "exec"
          /\ \A d \in Clients \ {t} :
               pc'[d] = pc[d] /\ on'[d] = on[d] /\ seen'[d] = seen[d]
      BY <2>3, ClientKinds, CloseOthers DEF TriggerExec, TypeOK
    <3> QED
      BY <2>3, <3>1, <3>2, ClientKinds, DelKeepsReads DEF TriggerExec
  <2>4. CASE Aborted(t)
    BY <2>4, ClientKinds, CloseOthers, NoWriteKeepsReads DEF Aborted
  <2>5. CASE DecrTotal(t)
    BY <2>5, ClientKinds DEF DecrTotal, ReadStillTrue, TypeOK
  <2>6. CASE DecrPartner(t)
    BY <2>6, ClientKinds, CloseOthers, NoWriteKeepsReads DEF DecrPartner
  <2> QED
    BY <1>4, <2>1, <2>2, <2>3, <2>4, <2>5, <2>6 DEF TriggerStep
<1>5. ASSUME NEW t \in Threads, TriggerAnswerLost(t) PROVE ReadStillTrue'
  <2>1. on[t] \in Macs
    BY <1>5, ClientKinds DEF TriggerAnswerLost, TypeOK
  <2> QED
    BY <1>5, <2>1, ClientKinds, CloseOthers, DelKeepsReads DEF TriggerAnswerLost
<1>6. ASSUME NEW c \in Clients, CallFails(c) PROVE ReadStillTrue'
  BY <1>6, CloseOthers, NoWriteKeepsReads DEF CallFails
<1>7. ASSUME NEW m \in Macs, Age(m) \/ Expire(m) \/ ExpireUnheard(m)
      PROVE  ReadStillTrue'
  BY <1>7 DEF Age, Expire, ExpireUnheard, ReadStillTrue
<1>8. CASE UNCHANGED vars
  BY <1>8 DEF vars, ReadStillTrue
<1> QED
  BY <1>1, <1>2, <1>3, <1>4, <1>5, <1>6, <1>7, <1>8 DEF Next

\* WATCH, GET, MULTI, EXEC as the bolt and the trigger use them never commit on
\* a session that has changed since it was read, under any faults.
THEOREM LockIsSound == Spec => []ReadStillTrue
<1>1. Init => ReadStillTrue
  BY DEF Init, ReadStillTrue
<1> QED
  BY <1>1, TypeCorrect, ReadStep, PTL DEF Spec

-----------------------------------------------------------------------------
(* The books.                                                              *)

\* A transaction that moves the session of m from what its client has read to
\* s, and books exactly that, keeps the books balanced.
LEMMA BookBalances ==
    ASSUME TypeOK, BooksBalance, NEW m \in Macs, NEW s \in Session \cup {None},
           macCopy' = [macCopy EXCEPT ![m] = s],
           Book(m, ChanOf(s), ChanOf(macCopy[m]))
    PROVE  BooksBalance'
<1> SUFFICES ASSUME "answer" \notin Faults, NEW n \in Macs, NEW c \in Channels
             PROVE  booked'[n][c] = IF ChanOf(macCopy'[n]) = c THEN 1 ELSE 0
  BY Zenon DEF BooksBalance
<1>1. booked[n][c] = IF ChanOf(macCopy[n]) = c THEN 1 ELSE 0
  BY DEF BooksBalance
<1>2. CASE n = m
  <2>1. macCopy'[n] = s
    BY <1>2 DEF TypeOK
  <2>2. booked'[n][c] = booked[n][c] + (IF c = ChanOf(s) THEN 1 ELSE 0)
                          - (IF c = ChanOf(macCopy[n]) THEN 1 ELSE 0)
    BY <1>2 DEF TypeOK, Book
  <2> QED
    BY <1>1, <2>1, <2>2
<1>3. CASE n # m
  BY <1>1, <1>3 DEF TypeOK, Book
<1> QED
  BY <1>2, <1>3

\* A committed transaction books what it writes: what its client read is, by
\* the lock, what is still there.
LEMMA BooksStep ==
    TypeOK /\ ReadStillTrue /\ BooksBalance /\ [Next]_vars => BooksBalance'
<1> SUFFICES ASSUME TypeOK, ReadStillTrue, BooksBalance, [Next]_vars
             PROVE  BooksBalance'
  OBVIOUS
<1>1. CASE UNCHANGED <<macCopy, booked>>
  BY <1>1 DEF BooksBalance
<1>2. CASE "answer" \in Faults
  BY <1>2 DEF BooksBalance
<1>3. ASSUME NEW b \in MacTasks, ExecPlay(b) PROVE BooksBalance'
  <2>1. b \in Clients /\ on[b] \in Macs /\ ev[b] \in Play
    BY <1>3, ClientKinds DEF ExecPlay, TypeOK
  <2> DEFINE s == [chan |-> ev[b].chan, partner |-> ev[b].partner]
  <2>2. s \in Session /\ ChanOf(s) = ev[b].chan
    BY <2>1, PlayFields, SessionFields
  <2>3. seen[b] = macCopy[on[b]]
    BY <1>3, <2>1 DEF ExecPlay, ReadStillTrue
  <2> QED
    BY <1>3, <2>1, <2>2, <2>3, BookBalances DEF ExecPlay, WritePlay
<1>4. ASSUME NEW b \in MacTasks, ExecStop(b) PROVE BooksBalance'
  <2>1. b \in Clients /\ on[b] \in Macs
    BY <1>4, ClientKinds DEF ExecStop, TypeOK
  <2>2. seen[b] = macCopy[on[b]]
    BY <1>4, <2>1 DEF ExecStop, ReadStillTrue
  <2>3. ChanOf(None) = None
    BY DEF ChanOf
  <2> QED
    BY <1>4, <2>1, <2>2, <2>3, BookBalances DEF ExecStop, WriteStop
<1>5. ASSUME NEW t \in Threads, TriggerExec(t) PROVE BooksBalance'
  <2>1. t \in Clients /\ on[t] \in Macs
    BY <1>5, ClientKinds DEF TriggerExec, TypeOK
  <2>2. seen[t] = macCopy[on[t]]
    BY <1>5, <2>1 DEF TriggerExec, ReadStillTrue
  <2>3. ChanOf(None) = None
    BY DEF ChanOf
  <2> QED
    BY <1>5, <2>1, <2>2, <2>3, BookBalances DEF TriggerExec, DelCopy
<1>6. ASSUME NEW b \in MacTasks, BoltStep(b) PROVE BooksBalance'
  BY <1>1, <1>3, <1>4, <1>6
  DEF BoltStep, GetForTransaction, GetForRenewal, GetAndReturn, Aborted, Renew,
      Emit
<1>7. ASSUME NEW t \in Threads, TriggerStep(t) PROVE BooksBalance'
  BY <1>1, <1>5, <1>7
  DEF TriggerStep, TriggerWatch, TriggerGet, Aborted, DecrTotal, DecrPartner
<1>8. CASE \/ \E b \in MacTasks, log \in Log : Watch(b, log)
           \/ \E c \in Clients : CallFails(c)
           \/ \E m \in Macs : Age(m) \/ Expire(m) \/ ExpireUnheard(m)
           \/ UNCHANGED vars
  BY <1>1, <1>8 DEF Watch, CallFails, Age, Expire, ExpireUnheard, vars
<1>9. CASE \/ \E b \in MacTasks : ExecAnswerLost(b)
           \/ \E t \in Threads : TriggerAnswerLost(t)
  BY <1>2, <1>9 DEF ExecAnswerLost, TriggerAnswerLost
<1> QED
  BY <1>6, <1>7, <1>8, <1>9 DEF Next

\* Whatever the bolts and the triggers interleave, each box is booked once on
\* the channel of its session and nowhere else, unless an EXEC answer is lost.
THEOREM BooksAreBalanced == Spec => []BooksBalance
<1>1. Init => BooksBalance
  BY SessionFields DEF Init, BooksBalance, ChanOf
<1> QED
  BY <1>1, TypeCorrect, LockIsSound, BooksStep, PTL DEF Spec

-----------------------------------------------------------------------------
(* Expired sessions.                                                       *)

\* ExpiredSessionCovered for one box.
Covered(m) ==
    macCopy[m] # None /\ macKey[m] = "absent" =>
        queued[m] > 0 \/ \E t \in Threads : WillRemove(t, m)

\* A box stays covered by a step that neither makes its session appear, nor its
\* mac key vanish, nor takes a notification or a remover away.
LEMMA CoverKept ==
    ASSUME TypeOK, NEW m \in Macs, Covered(m),
           macCopy'[m] # None => macCopy[m] # None,
           macKey'[m] = "absent" => macKey[m] = "absent",
           queued' = queued,
           \A t \in Threads : WillRemove(t, m) => WillRemove(t, m)'
    PROVE  Covered(m)'
BY DEF Covered, TypeOK

\* A box is covered when its session is gone or its mac key is there.
LEMMA CoverNotNeeded ==
    ASSUME NEW m \in Macs, macCopy'[m] = None \/ macKey'[m] # "absent"
    PROVE  Covered(m)'
BY DEF Covered

\* A client that is no remover of m and does not spoil those who watch m
\* disturbs no remover of m.
LEMMA RemoversStay ==
    ASSUME NEW m \in Macs, NEW c \in Clients,
           c \in Threads => ~WillRemove(c, m),
           \A d \in Clients \ {c} :
               /\ pc'[d] = pc[d] /\ on'[d] = on[d]
               /\ on[d] = m => dirty'[d] = dirty[d]
    PROVE  \A t \in Threads : WillRemove(t, m) => WillRemove(t, m)'
BY ClientKinds DEF WillRemove

\* Without failed calls and lost notifications, every step keeps every box
\* covered.
LEMMA CoverStep ==
    TypeOK /\ ExpiredSessionCovered /\ [Next]_vars => ExpiredSessionCovered'
<1> SUFFICES ASSUME TypeOK, [Next]_vars, Faults \cap {"call", "notify"} = {},
                    NEW m \in Macs, Covered(m)
             PROVE  Covered(m)'
  BY DEF ExpiredSessionCovered, Covered, WillRemove
<1>1. ASSUME NEW b \in MacTasks, NEW log \in Log, Watch(b, log)
      PROVE  Covered(m)'
  <2>1. \A t \in Threads : WillRemove(t, m) => WillRemove(t, m)'
    BY <1>1, ClientKinds, RemoversStay DEF Watch, TypeOK
  <2> QED
    BY <1>1, <2>1, CoverKept DEF Watch
<1>2. ASSUME NEW b \in MacTasks, BoltStep(b) \/ ExecAnswerLost(b)
      PROVE  Covered(m)'
  <2>1. CASE GetForTransaction(b) \/ GetForRenewal(b)
    <3>1. \A t \in Threads : WillRemove(t, m) => WillRemove(t, m)'
      BY <2>1, ClientKinds, RemoversStay
      DEF GetForTransaction, GetForRenewal, TypeOK
    <3> QED
      BY <2>1, <3>1, CoverKept DEF GetForTransaction, GetForRenewal
  <2>2. CASE GetAndReturn(b) \/ Aborted(b) \/ Emit(b)
    <3>1. \A t \in Threads : WillRemove(t, m) => WillRemove(t, m)'
      BY <2>2, ClientKinds, CloseOthers, RemoversStay
      DEF GetAndReturn, Aborted, Emit
    <3> QED
      BY <2>2, <3>1, CoverKept DEF GetAndReturn, Aborted, Emit
  <2>3. CASE ExecPlay(b) \/ ExecStop(b) \/ ExecAnswerLost(b)
    <3>1. on[b] \in Macs /\ b \in Clients
      BY <2>3, ClientKinds DEF ExecPlay, ExecStop, ExecAnswerLost, TypeOK
    <3>2. WritePlay(b) \/ WriteStop(b)
      BY <2>3 DEF ExecPlay, ExecStop, ExecAnswerLost
    <3>3. CASE on[b] = m
      BY <3>1, <3>2, <3>3, CoverNotNeeded DEF WritePlay, WriteStop, TypeOK
    <3>4. CASE on[b] # m
      <4>1. macCopy'[m] = macCopy[m] /\ macKey'[m] = macKey[m]
        BY <3>1, <3>2, <3>4 DEF WritePlay, WriteStop, TypeOK
      <4>2. \A d \in Clients \ {b} :
               /\ pc'[d] = pc[d] /\ on'[d] = on[d]
               /\ on[d] = m => dirty'[d] = dirty[d]
        BY <2>3, <3>1, <3>4, CloseOthers
        DEF ExecPlay, ExecStop, ExecAnswerLost, Touch, TypeOK
      <4>3. \A t \in Threads : WillRemove(t, m) => WillRemove(t, m)'
        BY <4>2, ClientKinds, RemoversStay
      <4> QED
        BY <2>3, <4>1, <4>3, CoverKept DEF ExecPlay, ExecStop, ExecAnswerLost
    <3> QED
      BY <3>3, <3>4
  <2>4. CASE Renew(b)
    <3>1. on[b] \in Macs /\ b \in Clients
      BY <2>4, ClientKinds DEF Renew, TypeOK
    <3>2. CASE macKey[on[b]] = "fresh" /\ on[b] = m
      <4>1. macKey'[m] # "absent"
        BY <2>4, <3>1, <3>2 DEF Renew, TypeOK
      <4> QED
        BY <4>1, CoverNotNeeded
    <3>3. CASE macKey[on[b]] = "absent" \/ on[b] # m
      <4>1. macCopy' = macCopy /\ macKey'[m] = macKey[m] /\ queued' = queued
        BY <2>4, <3>1, <3>3 DEF Renew, TypeOK
      <4>2. \A d \in Clients \ {b} :
               /\ pc'[d] = pc[d] /\ on'[d] = on[d]
               /\ on[d] = m => dirty'[d] = dirty[d]
        BY <2>4, <3>1, <3>3, CloseOthers DEF Renew, Touch, TypeOK
      <4>3. \A t \in Threads : WillRemove(t, m) => WillRemove(t, m)'
        BY <4>2, ClientKinds, RemoversStay
      <4> QED
        BY <4>1, <4>3, CoverKept
    <3> QED
      BY <2>4, <3>2, <3>3 DEF Renew
  <2> QED
    BY <1>2, <2>1, <2>2, <2>3, <2>4 DEF BoltStep
<1>3. ASSUME NEW t \in Threads, TriggerStep(t) \/ TriggerAnswerLost(t)
      PROVE  Covered(m)'
  <2>1. ASSUME NEW n \in Macs, TriggerWatch(t, n) PROVE Covered(m)'
    <3>1. t \in Clients /\ ~WillRemove(t, m)
      BY <2>1, ClientKinds DEF TriggerWatch, WillRemove
    <3>2. CASE n = m
      <4>1. WillRemove(t, m)'
        BY <2>1, <3>1, <3>2 DEF TriggerWatch, WillRemove, TypeOK
      <4> QED
        BY <4>1 DEF Covered
    <3>3. CASE n # m
      <4>1. queued'[m] = queued[m]
        BY <2>1, <3>3 DEF TriggerWatch, TypeOK
      <4>2. \A u \in Threads : WillRemove(u, m) => WillRemove(u, m)'
        BY <2>1, <3>1, ClientKinds, RemoversStay DEF TriggerWatch, TypeOK
      <4> QED
        BY <2>1, <4>1, <4>2 DEF TriggerWatch, Covered
    <3> QED
      BY <3>2, <3>3
  <2>2. CASE TriggerGet(t)
    <3>1. \A u \in Threads : WillRemove(u, m) => WillRemove(u, m)'
      BY <2>2, ClientKinds DEF TriggerGet, WillRemove, TypeOK
    <3> QED
      BY <2>2, <3>1, CoverKept DEF TriggerGet
  <2>3. CASE TriggerExec(t) \/ TriggerAnswerLost(t)
    <3>1. on[t] \in Macs /\ t \in Clients
      BY <2>3, ClientKinds DEF TriggerExec, TriggerAnswerLost, TypeOK
    <3>2. DelCopy(t) /\ UNCHANGED <<macKey, queued>>
      BY <2>3 DEF TriggerExec, TriggerAnswerLost
    <3>3. CASE on[t] = m
      BY <3>1, <3>2, <3>3, CoverNotNeeded DEF DelCopy, TypeOK
    <3>4. CASE on[t] # m
      <4>1. macCopy'[m] = macCopy[m]
        BY <3>1, <3>2, <3>4 DEF DelCopy, TypeOK
      <4>2. \A d \in Clients \ {t} : pc'[d] = pc[d] /\ on'[d] = on[d]
        BY <2>3, <3>1, CloseOthers DEF TriggerExec, TriggerAnswerLost, TypeOK
      <4>3. \A d \in Clients \ {t} : on[d] = m => dirty'[d] = dirty[d]
        BY <3>1, <3>2, <3>4 DEF DelCopy, Touch, TypeOK
      <4>4. \A u \in Threads : WillRemove(u, m) => WillRemove(u, m)'
        BY <3>1, <3>4, <4>2, <4>3, RemoversStay DEF WillRemove
      <4> QED
        BY <3>2, <4>1, <4>4, CoverKept
    <3> QED
      BY <3>3, <3>4
  <2>4. CASE Aborted(t) \/ DecrPartner(t)
    <3>1. \A u \in Threads : WillRemove(u, m) => WillRemove(u, m)'
      BY <2>4, ClientKinds, CloseOthers, RemoversStay
      DEF Aborted, DecrPartner, WillRemove
    <3> QED
      BY <2>4, <3>1, CoverKept DEF Aborted, DecrPartner
  <2>5. CASE DecrTotal(t)
    <3>1. \A u \in Threads : WillRemove(u, m) => WillRemove(u, m)'
      BY <2>5, ClientKinds DEF DecrTotal, WillRemove, TypeOK
    <3> QED
      BY <2>5, <3>1, CoverKept DEF DecrTotal
  <2> QED
    BY <1>3, <2>1, <2>2, <2>3, <2>4, <2>5 DEF TriggerStep
<1>4. ASSUME NEW c \in Clients, CallFails(c) PROVE Covered(m)'
  BY <1>4 DEF CallFails
<1>5. ASSUME NEW n \in Macs, Age(n) \/ Expire(n) \/ ExpireUnheard(n)
      PROVE  Covered(m)'
  <2>1. CASE Age(n)
    BY <2>1 DEF Age, Covered, WillRemove, TypeOK
  <2>2. CASE Expire(n)
    BY <2>2 DEF Expire, Covered, WillRemove, TypeOK
  <2>3. CASE ExpireUnheard(n)
    BY <2>3 DEF ExpireUnheard
  <2> QED
    BY <1>5, <2>1, <2>2, <2>3
<1>6. CASE UNCHANGED vars
  BY <1>6 DEF vars, Covered, WillRemove
<1> QED
  BY <1>1, <1>2, <1>3, <1>4, <1>5, <1>6 DEF Next

\* As long as notifications arrive and calls succeed, no expired session is
\* ever left to itself.
THEOREM ExpiredAreCovered == Spec => []ExpiredSessionCovered
<1>1. Init => ExpiredSessionCovered
  BY DEF Init, ExpiredSessionCovered
<1> QED
  BY <1>1, TypeCorrect, CoverStep, PTL DEF Spec

-----------------------------------------------------------------------------
(* Refinement.                                                             *)

\* A transaction that replaces the session its client read is a Move.
LEMMA BookIsMove ==
    ASSUME NEW m \in Macs, NEW s \in Session \cup {None},
           macCopy' = [macCopy EXCEPT ![m] = s],
           Book(m, ChanOf(s), ChanOf(macCopy[m]))
    PROVE  Register!Move(m, s)
BY DEF Book, Register!Move, Register!ChanOf, Register!OneIf, ChanOf

\* Every step moves one box in the register or changes nothing of it.
LEMMA AudienceStep ==
    ASSUME "answer" \notin Faults, TypeOK, ReadStillTrue, [Next]_vars
    PROVE  Register!Next \/ UNCHANGED <<macCopy, booked>>
<1> DEFINE Goal == Register!Next \/ UNCHANGED <<macCopy, booked>>
<1> SUFFICES Goal
  OBVIOUS
<1>0. ASSUME NEW m \in Macs, NEW s \in Session \cup {None}, Register!Move(m, s)
      PROVE  Goal
  BY <1>0 DEF Register!Next, Register!Session, Session
<1>1. ASSUME NEW b \in MacTasks, ExecPlay(b) PROVE Goal
  <2>1. b \in Clients /\ on[b] \in Macs /\ ev[b] \in Play
    BY <1>1, ClientKinds DEF ExecPlay, TypeOK
  <2> DEFINE s == [chan |-> ev[b].chan, partner |-> ev[b].partner]
  <2>2. s \in Session /\ ChanOf(s) = ev[b].chan
    BY <2>1, PlayFields, SessionFields
  <2>3. seen[b] = macCopy[on[b]]
    BY <1>1, <2>1 DEF ExecPlay, ReadStillTrue
  <2>4. Register!Move(on[b], s)
    BY <1>1, <2>1, <2>2, <2>3, BookIsMove DEF ExecPlay, WritePlay
  <2> QED
    BY <1>0, <2>1, <2>2, <2>4
<1>2. ASSUME NEW b \in MacTasks, ExecStop(b) PROVE Goal
  <2>1. b \in Clients /\ on[b] \in Macs
    BY <1>2, ClientKinds DEF ExecStop, TypeOK
  <2>2. seen[b] = macCopy[on[b]]
    BY <1>2, <2>1 DEF ExecStop, ReadStillTrue
  <2>3. Register!Move(on[b], None)
    BY <1>2, <2>1, <2>2, BookIsMove DEF ExecStop, WriteStop, ChanOf
  <2> QED
    BY <1>0, <2>1, <2>3
<1>3. ASSUME NEW t \in Threads, TriggerExec(t) PROVE Goal
  <2>1. t \in Clients /\ on[t] \in Macs
    BY <1>3, ClientKinds DEF TriggerExec, TypeOK
  <2>2. seen[t] = macCopy[on[t]]
    BY <1>3, <2>1 DEF TriggerExec, ReadStillTrue
  <2>3. Register!Move(on[t], None)
    BY <1>3, <2>1, <2>2, BookIsMove DEF TriggerExec, DelCopy, ChanOf
  <2> QED
    BY <1>0, <2>1, <2>3
<1>4. ASSUME NEW b \in MacTasks, BoltStep(b) PROVE Goal
  BY <1>1, <1>2, <1>4
  DEF BoltStep, GetForTransaction, GetForRenewal, GetAndReturn, Aborted, Renew,
      Emit
<1>5. ASSUME NEW t \in Threads, TriggerStep(t) PROVE Goal
  BY <1>3, <1>5
  DEF TriggerStep, TriggerWatch, TriggerGet, Aborted, DecrTotal, DecrPartner
<1>6. CASE \/ \E b \in MacTasks, log \in Log : Watch(b, log)
           \/ \E c \in Clients : CallFails(c)
           \/ \E m \in Macs : Age(m) \/ Expire(m) \/ ExpireUnheard(m)
           \/ UNCHANGED vars
  BY <1>6 DEF Watch, CallFails, Age, Expire, ExpireUnheard, vars
<1>7. CASE \/ \E b \in MacTasks : ExecAnswerLost(b)
           \/ \E t \in Threads : TriggerAnswerLost(t)
  BY <1>7 DEF ExecAnswerLost, TriggerAnswerLost
<1> QED
  BY <1>4, <1>5, <1>6, <1>7 DEF Next

\* Bolts and triggers together implement the register, as long as no EXEC
\* answer is lost: a committed transaction is a Move, all else stutters.
THEOREM ImplementsAudience ==
    ASSUME "answer" \notin Faults
    PROVE  Spec => AudienceRefined
<1>1. Init => Register!Init
  BY DEF Init, Register!Init
<1>2. TypeOK /\ ReadStillTrue /\ [Next]_vars
        => [Register!Next]_<<macCopy, booked>>
  BY AudienceStep
<1> QED
  BY <1>1, <1>2, TypeCorrect, LockIsSound, PTL
  DEF Spec, AudienceRefined, Register!Spec

=============================================================================
