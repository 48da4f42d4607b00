------------------------- MODULE RealtimeCountProofs -------------------------
(***************************************************************************)
(* The live counting topology as a whole, for any number of boxes, bolt    *)
(* tasks, trigger threads, counting tasks, channels and operators, and any *)
(* failures: it runs the sessions of MacSession, keeps its types, and its  *)
(* counters stay within the exposure of what they should show.             *)
(***************************************************************************)
EXTENDS RealtimeCount, MacSessionProofs, SumLemmas

-----------------------------------------------------------------------------
(* The sessions of the topology are those of MacSession.                   *)

\* A step of the topology is a step of the sessions, or leaves them alone.
LEMMA StepIsSessionStep == [RtNext]_rtVars => [Next]_vars
<1>. SUFFICES ASSUME [RtNext]_rtVars PROVE [Next]_vars
  OBVIOUS
<1>1. CASE SessionStep
  BY <1>1, ClientKinds DEF SessionStep, Next, BoltStep, TriggerStep
<1>2. ASSUME NEW b \in MacTasks, RtEmit(b) \/ RtExecAnswerLost(b)
      PROVE  [Next]_vars
  BY <1>2 DEF RtEmit, RtExecAnswerLost, Next, BoltStep
<1>3. ASSUME NEW t \in Threads,
             RtDecrTotal(t) \/ RtDecrPartner(t) \/ RtTriggerAnswerLost(t)
      PROVE  [Next]_vars
  BY <1>3 DEF RtDecrTotal, RtDecrPartner, RtTriggerAnswerLost, Next, TriggerStep
<1>4. ASSUME NEW u \in CountTuple, Deliver(u) \/ TupleFails(u)
      PROVE  [Next]_vars
  BY <1>4 DEF Deliver, TupleFails
<1>5. ASSUME NEW t \in CountTasks, FlushStep(t) \/ RtFlushFails(t) \/ RtWorkerDies(t)
      PROVE  [Next]_vars
  BY <1>5 DEF FlushStep, RtFlushFails, RtWorkerDies
<1>6. ASSUME NEW c \in Clients, RtCallFails(c)
      PROVE  [Next]_vars
  BY <1>6 DEF RtCallFails, Next
<1>7. CASE UNCHANGED rtVars
  BY <1>7 DEF rtVars
<1>. QED
  BY <1>1, <1>2, <1>3, <1>4, <1>5, <1>6, <1>7 DEF RtNext

\* Every behaviour of the topology is one of the sessions, whatever the
\* counting does: what is proved of MacSession holds here too.
THEOREM TopologyRunsSessions == RtSpec => Spec
<1>1. RtInit => Init
  BY DEF RtInit
<1>. QED
  BY <1>1, StepIsSessionStep, PTL DEF RtSpec, Spec

-----------------------------------------------------------------------------
(* Finiteness, keys and what a tuple does to a key.                        *)

\* There are finitely many sessions and tuples.
LEMMA RecordsFinite ==
    /\ IsFiniteSet(Session)
    /\ IsFiniteSet(CountTuple)
<1>1. IsFiniteSet(Channels \X Partners)
  BY FS_Product, RealtimeCountAssumption DEF RealtimeCountAssumption
<1>. DEFINE f == [q \in Channels \X Partners |-> [chan |-> q[1], partner |-> q[2]]]
<1>2. Session = {f[q] : q \in Channels \X Partners}
  <2>1. ASSUME NEW s \in Session PROVE s \in {f[q] : q \in Channels \X Partners}
    <3>1. <<s.chan, s.partner>> \in Channels \X Partners
          /\ s = f[<<s.chan, s.partner>>]
      BY DEF Session
    <3>. QED
      BY <3>1
  <2>2. \A q \in Channels \X Partners : f[q] \in Session
    BY DEF Session
  <2>. QED
    BY <2>1, <2>2
<1>3. IsFiniteSet(Session)
  <2>. HIDE DEF f
  <2>. QED
    BY <1>1, <1>2, ImageIsFinite
<1>. DEFINE V == Session \cup {None}
<1>4. IsFiniteSet(V)
  BY <1>3, FS_AddElement
<1>5. IsFiniteSet(V \X V)
  BY <1>4, FS_Product
<1>. DEFINE g == [q \in V \X V |-> [add |-> q[1], dec |-> q[2]]]
<1>6. CountTuple = {g[q] : q \in V \X V}
  <2>. HIDE DEF V
  <2>0. CountTuple = [add : V, dec : V]
    BY DEF CountTuple, V
  <2>1. ASSUME NEW u \in CountTuple PROVE u \in {g[q] : q \in V \X V}
    <3>1. <<u.add, u.dec>> \in V \X V /\ u = g[<<u.add, u.dec>>]
      BY <2>0
    <3>. QED
      BY <3>1
  <2>2. \A q \in V \X V : g[q] \in CountTuple
    BY <2>0
  <2>. QED
    BY <2>1, <2>2
<1>7. IsFiniteSet(CountTuple)
  <2>. HIDE DEF g, V
  <2>. QED
    BY <1>5, <1>6, ImageIsFinite
<1>. QED
  BY <1>3, <1>7

\* The two keys of a session are keys, of different kinds, and name its fields.
LEMMA KeyFacts ==
    /\ \A s \in Session : UC!KeysOf(s) = {UC!TotalKey(s.chan),
                                          UC!PartnerKey(s.partner, s.chan)}
    /\ UC!KeysOf(None) = {}
    /\ \A c \in Channels : UC!TotalKey(c) \in UC!TotalKeys
    /\ \A p \in Partners, c \in Channels : UC!PartnerKey(p, c) \in UC!PartnerKeys
    /\ UC!Keys = UC!TotalKeys \cup UC!PartnerKeys
    /\ \A k \in UC!TotalKeys : \A p, c : k # UC!PartnerKey(p, c)
    /\ \A c, d : UC!TotalKey(c) = UC!TotalKey(d) => c = d
    /\ \A c, p, d : UC!TotalKey(c) # UC!PartnerKey(p, d)
<1>1. None \notin Session
  BY SessionFields
<1>. QED
  BY <1>1 DEF UC!KeysOf, UC!TotalKey, UC!PartnerKey, UC!TotalKeys, UC!PartnerKeys, UC!Keys

\* There are finitely many counters.
LEMMA KeysFinite == IsFiniteSet(UC!Keys)
<1>. DEFINE f == [c \in Channels |-> UC!TotalKey(c)]
            g == [q \in Partners \X Channels |-> UC!PartnerKey(q[1], q[2])]
<1>1. UC!TotalKeys = {f[c] : c \in Channels}
  BY DEF UC!TotalKeys
<1>2. UC!PartnerKeys = {g[q] : q \in Partners \X Channels}
  <2>1. ASSUME NEW p \in Partners, NEW c \in Channels
        PROVE  UC!PartnerKey(p, c) \in {g[q] : q \in Partners \X Channels}
    <3>1. <<p, c>> \in Partners \X Channels /\ g[<<p, c>>] = UC!PartnerKey(p, c)
      OBVIOUS
    <3>. QED
      BY <3>1
  <2>2. ASSUME NEW q \in Partners \X Channels PROVE g[q] \in UC!PartnerKeys
    <3>1. q[1] \in Partners /\ q[2] \in Channels /\ g[q] = UC!PartnerKey(q[1], q[2])
      OBVIOUS
    <3>. QED
      BY <3>1 DEF UC!PartnerKeys
  <2>. HIDE DEF g
  <2>3. ASSUME NEW x \in UC!PartnerKeys
        PROVE  x \in {g[q] : q \in Partners \X Channels}
    <3>1. PICK p \in Partners, c \in Channels : x = UC!PartnerKey(p, c)
      BY DEF UC!PartnerKeys
    <3>. QED
      BY <2>1, <3>1
  <2>. QED
    BY <2>2, <2>3
<1>3. IsFiniteSet(Channels) /\ IsFiniteSet(Partners \X Channels)
  BY FS_Product, RealtimeCountAssumption DEF RealtimeCountAssumption
<1>4. IsFiniteSet(UC!TotalKeys) /\ IsFiniteSet(UC!PartnerKeys)
  <2>. HIDE DEF f, g
  <2>. QED
    BY <1>1, <1>2, <1>3, ImageIsFinite
<1>. QED
  BY <1>4, FS_Union DEF UC!Keys

\* A tuple moves a counter by at most one.
LEMMA DeltaFacts ==
    ASSUME NEW u, NEW k
    PROVE  /\ UC!Delta(u, k) \in {-1, 0, 1}
           /\ UC!Delta(u, k) = In(k, UC!KeysOf(u.add)) - In(k, UC!KeysOf(u.dec))
  BY DEF UC!Delta, In

-----------------------------------------------------------------------------
(* Types.                                                                  *)

\* A thread that debits holds the session it has removed.
DebtorHasSession ==
    \A t \in Threads : pc[t] \in {"decrTotal", "decrPartner"} => seen[t] \in Session

\* A box's session is under an operator the box reports itself under.
CopyIsOwn ==
    \A m \in Macs : macCopy[m] # None => macCopy[m].partner \in PartnersOf[m]

\* Every step keeps DebtorHasSession: a thread goes on to its debits only after
\* it has read a session.
LEMMA DebtorStep == TypeOK /\ DebtorHasSession /\ [Next]_vars => DebtorHasSession'
<1>. SUFFICES ASSUME TypeOK, DebtorHasSession, [Next]_vars, NEW t \in Threads,
                     pc'[t] \in {"decrTotal", "decrPartner"}
              PROVE  seen'[t] \in Session
  BY DEF DebtorHasSession
<1>. DEFINE Kept == pc'[t] = pc[t] /\ seen'[t] = seen[t]
<1>0. Kept => seen'[t] \in Session
  BY DEF DebtorHasSession
<1>1. ASSUME NEW b \in MacTasks, NEW log \in Log, Watch(b, log) PROVE Kept
  BY <1>1, ClientKinds DEF Watch, TypeOK
<1>2. ASSUME NEW b \in MacTasks, BoltStep(b) \/ ExecAnswerLost(b) PROVE Kept
  BY <1>2, ClientKinds, CloseOthers
     DEF BoltStep, GetForTransaction, GetForRenewal, GetAndReturn, ExecPlay,
         ExecStop, Aborted, Renew, Emit, ExecAnswerLost, TypeOK
<1>3. ASSUME NEW c \in Clients, Close(c) PROVE Kept
  BY <1>3, ClientKinds, CloseOthers
<1>4. ASSUME NEW d \in Threads, d # t, TriggerStep(d) \/ TriggerAnswerLost(d) PROVE Kept
  BY <1>4, ClientKinds, CloseOthers
     DEF TriggerStep, TriggerWatch, TriggerGet, TriggerExec, Aborted, DecrTotal,
         DecrPartner, TriggerAnswerLost, TypeOK
<1>5. CASE TriggerStep(t) \/ TriggerAnswerLost(t)
  <2>1. ASSUME NEW m \in Macs, TriggerWatch(t, m) PROVE FALSE
    BY <2>1, ClientKinds DEF TriggerWatch, TypeOK
  <2>2. ASSUME TriggerGet(t) PROVE FALSE
    BY <2>2, ClientKinds DEF TriggerGet, TypeOK
  <2>3. ASSUME Close(t) PROVE FALSE
    BY <2>3, ClientKinds, CloseOthers
  <2>4. ASSUME TriggerExec(t), ~Close(t) PROVE seen'[t] \in Session
    BY <2>4, ClientKinds DEF TriggerExec, TypeOK
  <2>5. ASSUME DecrTotal(t) PROVE seen'[t] \in Session
    BY <2>5, ClientKinds DEF DecrTotal, TypeOK, DebtorHasSession
  <2>. QED
    BY <1>5, <2>1, <2>2, <2>3, <2>4, <2>5
       DEF TriggerStep, Aborted, DecrPartner, TriggerAnswerLost
<1>6. ASSUME NEW m \in Macs, Age(m) \/ Expire(m) \/ ExpireUnheard(m) PROVE Kept
  BY <1>6 DEF Age, Expire, ExpireUnheard
<1>7. ASSUME NEW c \in Clients, CallFails(c) PROVE Kept
  BY <1>7, <1>3 DEF CallFails
<1>8. CASE UNCHANGED vars
  BY <1>8, <1>0 DEF vars
<1>. QED
  BY <1>0, <1>1, <1>2, <1>4, <1>5, <1>6, <1>7, <1>8 DEF Next

\* Every step keeps CopyIsOwn: a task writes the operator of its own event.
LEMMA OwnStep == TypeOK /\ CopyIsOwn /\ [Next]_vars => CopyIsOwn'
<1>. SUFFICES ASSUME TypeOK, CopyIsOwn, [Next]_vars, NEW m \in Macs, macCopy'[m] # None
              PROVE  macCopy'[m].partner \in PartnersOf[m]
  BY DEF CopyIsOwn
<1>. DEFINE Goal == macCopy'[m].partner \in PartnersOf[m]
<1>1. ASSUME macCopy' = macCopy PROVE Goal
  BY <1>1 DEF CopyIsOwn
<1>2. ASSUME NEW b \in MacTasks, pc[b] = "exec", WritePlay(b) PROVE Goal
  <2>1. b \in Clients /\ ev[b] \in Play /\ ev[b].mac = on[b] /\ on[b] \in Macs
    BY <1>2, ClientKinds DEF TypeOK
  <2>2. ev[b].partner \in PartnersOf[on[b]]
    BY <2>1 DEF Play
  <2>3. macCopy'[m] = IF m = on[b] THEN [chan |-> ev[b].chan, partner |-> ev[b].partner]
                      ELSE macCopy[m]
    BY <1>2 DEF WritePlay, TypeOK
  <2>. QED
    BY <2>2, <2>3 DEF CopyIsOwn
<1>3. ASSUME NEW x, macCopy' = [macCopy EXCEPT ![x] = None] PROVE Goal
  BY <1>3 DEF CopyIsOwn, TypeOK
<1>4. ASSUME NEW b \in MacTasks, BoltStep(b) \/ ExecAnswerLost(b) PROVE Goal
  BY <1>1, <1>2, <1>3, <1>4
     DEF BoltStep, GetForTransaction, GetForRenewal, GetAndReturn, ExecPlay,
         ExecStop, Aborted, Renew, Emit, ExecAnswerLost, WriteStop
<1>5. ASSUME NEW t \in Threads, TriggerStep(t) \/ TriggerAnswerLost(t) PROVE Goal
  BY <1>1, <1>3, <1>5
     DEF TriggerStep, TriggerWatch, TriggerGet, TriggerExec, Aborted, DecrTotal,
         DecrPartner, TriggerAnswerLost, DelCopy
<1>6. CASE \/ \E b \in MacTasks, log \in Log : Watch(b, log)
           \/ \E c \in Clients : CallFails(c)
           \/ \E x \in Macs : Age(x) \/ Expire(x) \/ ExpireUnheard(x)
           \/ UNCHANGED vars
  BY <1>1, <1>6 DEF Watch, CallFails, Age, Expire, ExpireUnheard, vars
<1>. QED
  BY <1>4, <1>5, <1>6 DEF Next

\* Largest bounds the magnitude of every element.
LEMMA LargestBounds ==
    ASSUME NEW S, IsFiniteSet(S), S \subseteq Int
    PROVE  /\ Largest(S) \in Nat
           /\ \A n \in S : Abs(n) <= Largest(S)
<1>. DEFINE f == [n \in S |-> Abs(n)]
            I == {f[n] : n \in S}
            A == {0} \cup {Abs(n) : n \in S}
<1>1. I = {Abs(n) : n \in S}
  OBVIOUS
<1>2. IsFiniteSet(I)
  <2>. HIDE DEF f
  <2>. QED
    BY ImageIsFinite
<1>3. A = I \cup {0}
  BY <1>1
<1>4. IsFiniteSet(A) /\ 0 \in A /\ A \subseteq Nat
  <2>1. \A n \in S : Abs(n) \in Nat
    BY DEF Abs
  <2>2. IsFiniteSet(I \cup {0})
    BY <1>2, FS_AddElement
  <2>. QED
    BY <1>3, <2>1, <2>2
<1>5. \E x \in A : \A y \in A : y <= x
  <2>. HIDE DEF A
  <2>1. A # {} /\ A \subseteq Int
    BY <1>4
  <2>. QED
    BY <1>4, <2>1, MaxExists
<1>6. Largest(S) \in A /\ \A y \in A : y <= Largest(S)
  <2>1. Largest(S) = CHOOSE x \in A : \A y \in A : x >= y
    BY DEF Largest, Max
  <2>2. \E x \in A : \A y \in A : x >= y
    BY <1>5, <1>4
  <2>. HIDE DEF A
  <2>3. Largest(S) \in A /\ \A y \in A : Largest(S) >= y
    BY <2>1, <2>2
  <2>. QED
    BY <2>3, <1>4
<1>. QED
  BY <1>4, <1>6

\* What a task holds for the keys is a finite set of integers.
LEMMA CacheImageFinite ==
    ASSUME RtTypeOK, NEW t \in CountTasks, NEW K \in SUBSET UC!Keys
    PROVE  /\ IsFiniteSet({cacheMap[t][k] : k \in K})
           /\ {cacheMap[t][k] : k \in K} \subseteq Int
           /\ IsFiniteSet({UC!Cached(t, k) : k \in UC!Keys})
           /\ {UC!Cached(t, k) : k \in UC!Keys} \subseteq Int
<1>1. IsFiniteSet(K) /\ IsFiniteSet(UC!Keys)
  BY KeysFinite, FS_Subset
<1>. DEFINE f == cacheMap[t]
            g == [k \in UC!Keys |-> UC!Cached(t, k)]
<1>2. IsFiniteSet({f[k] : k \in K})
  BY <1>1, ImageIsFinite
<1>3. IsFiniteSet({g[k] : k \in UC!Keys})
  <2>. HIDE DEF g
  <2>. QED
    BY <1>1, ImageIsFinite
<1>4. {g[k] : k \in UC!Keys} = {UC!Cached(t, k) : k \in UC!Keys}
  OBVIOUS
<1>5. \A k \in UC!Keys : cacheMap[t][k] \in Int /\ UC!Cached(t, k) \in Int
  BY DEF RtTypeOK, UC!Cached
<1>. QED
  BY <1>2, <1>3, <1>4, <1>5

\* The types of what RealtimeCount adds to the sessions.
CountTypes ==
    /\ cacheMap \in [CountTasks -> [UC!Keys -> Int]]
    /\ flushing \in [CountTasks -> BOOLEAN]
    /\ todo \in [CountTasks -> SUBSET UC!Keys]
    /\ count \in [UC!Keys -> Int]

\* Every operation of UserCount keeps its types.
LEMMA CountTypeSteps ==
    ASSUME CountTypes
    PROVE  /\ countVars' = countVars => CountTypes'
           /\ \A k \in UC!Keys : UC!Decr(k) => CountTypes'
           /\ \A t \in CountTasks, u \in CountTuple : UC!MainTain(t, u) => CountTypes'
           /\ \A t \in CountTasks :
                /\ UC!Tick(t) => CountTypes'
                /\ \A k \in UC!Keys : UC!IncrBy(t, k) => CountTypes'
                /\ UC!Clear(t) => CountTypes'
                /\ UC!FlushFails(t) => CountTypes'
                /\ UC!WorkerDies(t) => CountTypes'
<1>1. countVars' = countVars => CountTypes'
  BY DEF CountTypes, countVars
<1>2. \A k \in UC!Keys : UC!Decr(k) => CountTypes'
  BY DEF CountTypes, UC!Decr
<1>3. ASSUME NEW t \in CountTasks, NEW u \in CountTuple, UC!MainTain(t, u)
      PROVE  CountTypes'
  <2>1. \A k \in UC!Keys : UC!Delta(u, k) \in Int
    BY DeltaFacts
  <2>2. [k \in UC!Keys |-> cacheMap[t][k] + UC!Delta(u, k)] \in [UC!Keys -> Int]
    BY <2>1 DEF CountTypes
  <2>3. cacheMap' \in [CountTasks -> [UC!Keys -> Int]]
    BY <1>3, <2>2 DEF CountTypes, UC!MainTain
  <2>. QED
    BY <1>3, <2>3 DEF CountTypes, UC!MainTain
<1>4. ASSUME NEW t \in CountTasks
      PROVE  /\ UC!Tick(t) => CountTypes'
             /\ \A k \in UC!Keys : UC!IncrBy(t, k) => CountTypes'
             /\ UC!Clear(t) => CountTypes'
             /\ UC!FlushFails(t) => CountTypes'
             /\ UC!WorkerDies(t) => CountTypes'
  <2>1. UC!Tick(t) => CountTypes'
    BY DEF CountTypes, UC!Tick
  <2>2. ASSUME NEW k \in UC!Keys, UC!IncrBy(t, k) PROVE CountTypes'
    <3>1. count[k] + cacheMap[t][k] \in Int
      BY DEF CountTypes
    <3>. QED
      BY <2>2, <3>1 DEF CountTypes, UC!IncrBy
  <2>3. UC!Clear(t) => CountTypes'
    BY DEF CountTypes, UC!Clear
  <2>4. UC!FlushFails(t) => CountTypes'
    BY DEF CountTypes, UC!FlushFails
  <2>5. UC!WorkerDies(t) => CountTypes'
    BY DEF CountTypes, UC!WorkerDies
  <2>. QED
    BY <2>1, <2>2, <2>3, <2>4, <2>5
<1>. QED
  BY <1>1, <1>2, <1>3, <1>4

\* What a bolt task emits is a tuple.
LEMMA EmittedType ==
    ASSUME TypeOK, NEW b \in MacTasks, pc[b] = "emit"
    PROVE  Emitted(b) \in CountTuple
<1>1. ev[b] \in Play /\ seen[b] \in Session \cup {None}
  BY ClientKinds DEF TypeOK
<1>2. ev[b].chan \in Channels /\ ev[b].partner \in Partners
  BY <1>1, PlayFields
<1>. QED
  BY <1>1, <1>2, SessionFields DEF Emitted, CountTuple, Session

\* Every step keeps RtTypeOK.
LEMMA RtTypeStep == RtTypeOK /\ DebtorHasSession /\ [RtNext]_rtVars => RtTypeOK'
<1>. SUFFICES ASSUME RtTypeOK, DebtorHasSession, [RtNext]_rtVars PROVE RtTypeOK'
  OBVIOUS
<1>. DEFINE Rest == CountTypes' /\ inflight' \in [CountTuple -> Nat] /\ exposure' \in Nat
<1>1. TypeOK'
  BY StepIsSessionStep, TypeStep DEF RtTypeOK
<1>2. CountTypes /\ TypeOK /\ inflight \in [CountTuple -> Nat] /\ exposure \in Nat
  BY DEF RtTypeOK, CountTypes
<1>3. Rest => RtTypeOK'
  BY <1>1 DEF RtTypeOK, CountTypes
<1>4. ASSUME UNCHANGED <<countVars, inflight, exposure>> PROVE Rest
  BY <1>2, <1>4, CountTypeSteps
<1>5. ASSUME NEW b \in MacTasks, RtEmit(b) PROVE Rest
  <2>1. Emitted(b) \in CountTuple
    BY <1>2, <1>5, EmittedType DEF RtEmit, Emit
  <2>2. inflight' \in [CountTuple -> Nat]
    BY <1>2, <1>5, <2>1 DEF RtEmit, Put
  <2>. QED
    BY <1>2, <1>5, <2>2, CountTypeSteps DEF RtEmit
<1>6. ASSUME NEW t \in Threads, RtDecrTotal(t) \/ RtDecrPartner(t) PROVE Rest
  <2>1. seen[t] \in Session
    BY <1>6 DEF RtDecrTotal, DecrTotal, RtDecrPartner, DecrPartner, DebtorHasSession
  <2>2. UC!TotalKey(seen[t].chan) \in UC!Keys
        /\ UC!PartnerKey(seen[t].partner, seen[t].chan) \in UC!Keys
    BY <2>1, KeyFacts DEF Session
  <2>3. CountTypes'
    BY <1>2, <1>6, <2>2, CountTypeSteps DEF RtDecrTotal, RtDecrPartner
  <2>. QED
    BY <1>2, <1>6, <2>3 DEF RtDecrTotal, RtDecrPartner
<1>7. ASSUME NEW u \in CountTuple, Deliver(u) PROVE Rest
  <2>1. CountTaskOf[u] \in CountTasks
    BY RealtimeCountAssumption DEF RealtimeCountAssumption
  <2>2. CountTypes'
    BY <1>2, <1>7, <2>1, CountTypeSteps DEF Deliver
  <2>3. inflight' \in [CountTuple -> Nat]
    BY <1>2, <1>7 DEF Deliver, Remove
  <2>. QED
    BY <1>2, <1>7, <2>2, <2>3 DEF Deliver
<1>8. ASSUME NEW u \in CountTuple, TupleFails(u) PROVE Rest
  <2>1. CountTypes'
    BY <1>2, <1>8, CountTypeSteps DEF TupleFails
  <2>2. inflight' \in [CountTuple -> Nat]
    BY <1>2, <1>8 DEF TupleFails, Remove
  <2>. QED
    BY <1>2, <1>8, <2>1, <2>2 DEF TupleFails, Risk
<1>9. ASSUME NEW t \in CountTasks, FlushStep(t) PROVE Rest
  BY <1>2, <1>9, CountTypeSteps DEF FlushStep
<1>10. ASSUME NEW t \in CountTasks, RtFlushFails(t) \/ RtWorkerDies(t) PROVE Rest
  <2>1. CountTypes'
    BY <1>2, <1>10, CountTypeSteps DEF RtFlushFails, RtWorkerDies
  <2>2. /\ Largest({cacheMap[t][k] : k \in UC!Keys \ todo[t]}) \in Nat
        /\ Largest({UC!Cached(t, k) : k \in UC!Keys}) \in Nat
    BY LargestBounds, CacheImageFinite
  <2>3. exposure' \in Nat
    BY <1>2, <1>10, <2>2 DEF RtFlushFails, RtWorkerDies, Risk
  <2>. QED
    BY <1>2, <1>10, <2>1, <2>3 DEF RtFlushFails, RtWorkerDies
<1>11. ASSUME NEW c \in Clients, RtCallFails(c) PROVE Rest
  BY <1>2, <1>11, CountTypeSteps DEF RtCallFails, Risk
<1>12. ASSUME NEW b \in MacTasks, RtExecAnswerLost(b) PROVE Rest
  BY <1>2, <1>12, CountTypeSteps DEF RtExecAnswerLost, Risk
<1>13. ASSUME NEW t \in Threads, RtTriggerAnswerLost(t) PROVE Rest
  BY <1>2, <1>13, CountTypeSteps DEF RtTriggerAnswerLost, Risk
<1>14. CASE SessionStep \/ UNCHANGED rtVars
  <2>1. UNCHANGED <<countVars, inflight, exposure>>
    BY <1>14 DEF SessionStep, rtVars
  <2>. QED
    BY <1>3, <1>4, <2>1
<1>. HIDE DEF Rest
<1>. QED
  BY <1>3, <1>5, <1>6, <1>7, <1>8, <1>9, <1>10, <1>11, <1>12, <1>13, <1>14 DEF RtNext

-----------------------------------------------------------------------------
(* What each part of Drift does when one of its terms changes.             *)

\* The finite sets the sums run over.
LEMMA Finiteness ==
    /\ IsFiniteSet(CountTasks) /\ IsFiniteSet(CountTuple) /\ IsFiniteSet(MacTasks)
    /\ IsFiniteSet(Threads) /\ IsFiniteSet(Macs)
    /\ \A k : IsFiniteSet(Debtors(k)) /\ IsFiniteSet(Members(k))
<1>1. /\ IsFiniteSet(CountTasks) /\ IsFiniteSet(MacTasks)
      /\ IsFiniteSet(Threads) /\ IsFiniteSet(Macs)
  BY RealtimeCountAssumption DEF RealtimeCountAssumption
<1>2. ASSUME NEW k PROVE IsFiniteSet(Debtors(k)) /\ IsFiniteSet(Members(k))
  <2>1. Debtors(k) \in SUBSET Threads /\ Members(k) \in SUBSET Macs
    BY DEF Debtors, Members
  <2>. QED
    BY <1>1, <2>1, FS_Subset
<1>. QED
  BY <1>1, <1>2, RecordsFinite

\* A multiple of a delta is an integer, and zero times it is zero.
LEMMA Multiples ==
    ASSUME NEW n \in Int, NEW d \in {-1, 0, 1}
    PROVE  /\ n * d \in Int
           /\ n = 0 => n * d = 0
           /\ (n + 1) * d = n * d + d
           /\ (n - 1) * d = n * d - d
<1>1. CASE d = -1
  BY <1>1
<1>2. CASE d = 0
  BY <1>2
<1>3. CASE d = 1
  BY <1>3
<1>. QED
  BY <1>1, <1>2, <1>3

\* Tuples that are not in flight may be summed over as well.
LEMMA FlightIsWide ==
    ASSUME NEW k, NEW bag \in [CountTuple -> Nat]
    PROVE  SumFunction([u \in {u \in CountTuple : bag[u] > 0} |-> bag[u] * UC!Delta(u, k)])
             = SumFunction([u \in CountTuple |-> bag[u] * UC!Delta(u, k)])
<1>. DEFINE f == [u \in CountTuple |-> bag[u] * UC!Delta(u, k)]
            F == {u \in CountTuple : bag[u] > 0}
            fF == [u \in F |-> bag[u] * UC!Delta(u, k)]
<1>1. f \in [CountTuple -> Int]
  <2>1. \A u \in CountTuple : bag[u] * UC!Delta(u, k) \in Int
    BY DeltaFacts, Multiples
  <2>. QED
    BY <2>1
<1>2. \A u \in CountTuple \ F : f[u] = 0
  <2>1. \A u \in CountTuple \ F : bag[u] = 0
    OBVIOUS
  <2>. QED
    BY <2>1, DeltaFacts, Multiples
<1>3. F \in SUBSET CountTuple
  OBVIOUS
<1>4. SumFunction([u \in F |-> f[u]]) = SumFunction(f)
  <2>. HIDE DEF f, F
  <2>. QED
    BY <1>1, <1>2, <1>3, Finiteness, SumSupport
<1>5. [u \in F |-> f[u]] = fF
  OBVIOUS
<1>. QED
  BY <1>4, <1>5

\* The parts are integers, and Drift is their sum.
LEMMA DriftIs ==
    ASSUME RtTypeOK, NEW k \in UC!Keys
    PROVE  /\ count[k] \in Int /\ CacheSum(k) \in Int /\ FlightSum(k) \in Int
           /\ EmitSum(k) \in Int
           /\ Cardinality(Debtors(k)) \in Nat /\ Cardinality(Members(k)) \in Nat
           /\ Drift(k) = count[k] + (CacheSum(k) + FlightSum(k) + EmitSum(k)
                                       - Cardinality(Debtors(k)))
                                  - Cardinality(Members(k))
<1>1. count[k] \in Int
  BY DEF RtTypeOK
<1>2. CacheSum(k) \in Int
  <2>1. [t \in CountTasks |-> UC!Cached(t, k)] \in [CountTasks -> Int]
    BY DEF UC!Cached, RtTypeOK
  <2>. QED
    BY <2>1, Finiteness, SumIsInt DEF CacheSum
<1>3. FlightSum(k) \in Int
  <2>1. \A u \in CountTuple : inflight[u] * UC!Delta(u, k) \in Int
    BY DeltaFacts, Multiples DEF RtTypeOK
  <2>. DEFINE f == [u \in CountTuple |-> inflight[u] * UC!Delta(u, k)]
  <2>2. f \in [CountTuple -> Int]
    BY <2>1
  <2>3. IsFiniteSet(CountTuple)
    BY Finiteness
  <2>4. FlightSum(k) = SumFunction(f)
    BY FlightIsWide DEF RtTypeOK, FlightSum
  <2>. HIDE DEF f
  <2>. QED
    BY <2>2, <2>3, <2>4, SumIsInt
<1>4. EmitSum(k) \in Int
  <2>1. \A b \in MacTasks : Announced(b, k) \in Int
    BY DeltaFacts DEF Announced
  <2>2. [b \in MacTasks |-> Announced(b, k)] \in [MacTasks -> Int]
    BY <2>1
  <2>. QED
    BY <2>2, Finiteness, SumIsInt DEF EmitSum
<1>5. Cardinality(Debtors(k)) \in Nat /\ Cardinality(Members(k)) \in Nat
  BY Finiteness, FS_CardinalityType
<1>6. Drift(k) = count[k] + (CacheSum(k) + FlightSum(k) + EmitSum(k)
                               - Cardinality(Debtors(k)))
                          - Cardinality(Members(k))
  BY DEF Drift, Pending, Audience
<1>. QED
  BY <1>1, <1>2, <1>3, <1>4, <1>5, <1>6

\* One task's map changes.
LEMMA CacheMoves ==
    ASSUME RtTypeOK, RtTypeOK', NEW k \in UC!Keys, NEW t \in CountTasks,
           \A d \in CountTasks : d # t => UC!Cached(d, k)' = UC!Cached(d, k)
    PROVE  /\ UC!Cached(t, k) \in Int /\ UC!Cached(t, k)' \in Int
           /\ CacheSum(k)' = CacheSum(k) - UC!Cached(t, k) + UC!Cached(t, k)'
<1>. DEFINE f == [d \in CountTasks |-> UC!Cached(d, k)]
            g == [d \in CountTasks |-> UC!Cached(d, k)']
<1>1. \A d \in CountTasks : UC!Cached(d, k) \in Int /\ UC!Cached(d, k)' \in Int
  BY DEF UC!Cached, RtTypeOK
<1>2. f \in [CountTasks -> Int] /\ g \in [CountTasks -> Int]
  BY <1>1
<1>3. \A d \in CountTasks : d # t => g[d] = f[d]
  OBVIOUS
<1>4. SumFunction(g) = SumFunction(f) - f[t] + g[t]
  <2>. HIDE DEF f, g
  <2>. QED
    BY <1>2, <1>3, Finiteness, SumUpdate
<1>5. CacheSum(k) = SumFunction(f) /\ CacheSum(k)' = SumFunction(g)
  BY DEF CacheSum
<1>6. f[t] = UC!Cached(t, k) /\ g[t] = UC!Cached(t, k)'
  OBVIOUS
<1>. HIDE DEF f, g
<1>. QED
  BY <1>1, <1>4, <1>5, <1>6

\* A tuple enters or leaves a bag.
LEMMA BagMoves ==
    ASSUME NEW k, NEW old \in [CountTuple -> Nat], NEW new \in [CountTuple -> Nat],
           NEW u \in CountTuple, NEW d \in {-1, 1},
           new[u] = old[u] + d,
           \A v \in CountTuple : v # u => new[v] = old[v]
    PROVE  SumFunction([v \in CountTuple |-> new[v] * UC!Delta(v, k)])
             = SumFunction([v \in CountTuple |-> old[v] * UC!Delta(v, k)])
                 + (IF d = 1 THEN UC!Delta(u, k) ELSE -UC!Delta(u, k))
<1>. DEFINE f == [v \in CountTuple |-> old[v] * UC!Delta(v, k)]
            g == [v \in CountTuple |-> new[v] * UC!Delta(v, k)]
<1>1. f \in [CountTuple -> Int] /\ g \in [CountTuple -> Int]
  <2>1. \A v \in CountTuple : old[v] * UC!Delta(v, k) \in Int
                              /\ new[v] * UC!Delta(v, k) \in Int
    BY DeltaFacts, Multiples
  <2>. QED
    BY <2>1
<1>2. \A v \in CountTuple : v # u => g[v] = f[v]
  OBVIOUS
<1>3. IsFiniteSet(CountTuple)
  BY Finiteness
<1>4. SumFunction(g) = SumFunction(f) - f[u] + g[u]
  <2>. HIDE DEF f, g
  <2>. QED
    BY <1>1, <1>2, <1>3, SumUpdate
<1>5. SumFunction(f) \in Int
  <2>. HIDE DEF f
  <2>. QED
    BY <1>1, <1>3, SumIsInt
<1>6. f[u] = old[u] * UC!Delta(u, k) /\ g[u] = new[u] * UC!Delta(u, k)
  OBVIOUS
<1>7. f[u] \in Int /\ g[u] \in Int
  BY <1>1
<1>8. UC!Delta(u, k) \in {-1, 0, 1}
  BY DeltaFacts
<1>. HIDE DEF f, g
<1>9. g[u] - f[u] = (IF d = 1 THEN UC!Delta(u, k) ELSE -UC!Delta(u, k))
  BY <1>6, <1>7, <1>8, Multiples
<1>10. SumFunction(g) = SumFunction(f) + (IF d = 1 THEN UC!Delta(u, k)
                                          ELSE -UC!Delta(u, k))
  BY <1>4, <1>5, <1>7, <1>8, <1>9
<1>. QED
  BY <1>10 DEF f, g

\* A tuple is sent, delivered or dropped.
LEMMA FlightMoves ==
    ASSUME inflight \in [CountTuple -> Nat], inflight' \in [CountTuple -> Nat],
           NEW k, NEW u \in CountTuple, NEW d \in {-1, 1},
           inflight' = [inflight EXCEPT ![u] = inflight[u] + d]
    PROVE  FlightSum(k)' = FlightSum(k) + (IF d = 1 THEN UC!Delta(u, k)
                                           ELSE -UC!Delta(u, k))
<1>1. FlightSum(k) = SumFunction([v \in CountTuple |-> inflight[v] * UC!Delta(v, k)])
  BY FlightIsWide DEF FlightSum
<1>2. FlightSum(k)' = SumFunction([v \in CountTuple |-> inflight'[v] * UC!Delta(v, k)])
  BY FlightIsWide DEF FlightSum
<1>3. inflight'[u] = inflight[u] + d /\ \A v \in CountTuple : v # u => inflight'[v] = inflight[v]
  OBVIOUS
<1>4. SumFunction([v \in CountTuple |-> inflight'[v] * UC!Delta(v, k)])
        = SumFunction([v \in CountTuple |-> inflight[v] * UC!Delta(v, k)])
            + (IF d = 1 THEN UC!Delta(u, k) ELSE -UC!Delta(u, k))
  BY <1>3, BagMoves
<1>. QED
  BY <1>1, <1>2, <1>4

\* What client c still owes to counter k, or is about to announce for it.
Stake(c, k) == IF c \in MacTasks THEN Announced(c, k) ELSE 0 - In(c, Debtors(k))

\* The steps of a client: at most its own registers and one box change.
LEMMA ClientMoves ==
    ASSUME RtTypeOK, RtTypeOK', NEW k \in UC!Keys, NEW c \in Clients, NEW m,
           \A d \in Clients : d # c =>
              pc'[d] = pc[d] /\ ev'[d] = ev[d] /\ seen'[d] = seen[d],
           \A n \in Macs : n # m => macCopy'[n] = macCopy[n]
    PROVE  /\ Stake(c, k) \in {-1, 0, 1} /\ Stake(c, k)' \in {-1, 0, 1}
           /\ EmitSum(k)' \in Int /\ Cardinality(Debtors(k)') \in Nat
           /\ EmitSum(k)' - Cardinality(Debtors(k)')
                = EmitSum(k) - Cardinality(Debtors(k)) + Stake(c, k)' - Stake(c, k)
           /\ Cardinality(Members(k)')
                = Cardinality(Members(k)) + In(m, Members(k)') - In(m, Members(k))
<1>1. \A d \in Clients : d # c =>
         /\ Announced(d, k)' = Announced(d, k)
         /\ Owes(d, k)' <=> Owes(d, k)
  BY DEF Announced, Emitted, Owes
<1>2. Members(k)' \ {m} = Members(k) \ {m}
  BY DEF Members
<1>3. Cardinality(Members(k)')
        = Cardinality(Members(k)) + In(m, Members(k)') - In(m, Members(k))
  <2>1. IsFiniteSet(Members(k))
    BY Finiteness
  <2>2. /\ Cardinality(Members(k)) \in Nat /\ Cardinality(Members(k)') \in Nat
        /\ Cardinality(Members(k)')
             = Cardinality(Members(k)) - In(m, Members(k)) + In(m, Members(k)')
    BY <1>2, <2>1, CardinalityUpdate
  <2>. QED
    BY <2>2 DEF In
<1>4. Stake(c, k) \in {-1, 0, 1} /\ Stake(c, k)' \in {-1, 0, 1}
  <2>1. Announced(c, k) \in {-1, 0, 1} /\ Announced(c, k)' \in {-1, 0, 1}
    BY DeltaFacts DEF Announced
  <2>2. In(c, Debtors(k)) \in {0, 1} /\ In(c, Debtors(k)') \in {0, 1}
    BY DEF In
  <2>3. /\ Stake(c, k) = IF c \in MacTasks THEN Announced(c, k) ELSE 0 - In(c, Debtors(k))
        /\ Stake(c, k)' = IF c \in MacTasks THEN Announced(c, k)'
                          ELSE 0 - In(c, Debtors(k)')
    BY DEF Stake
  <2>. QED
    BY <2>1, <2>2, <2>3
<1>5. EmitSum(k) \in Int /\ Cardinality(Debtors(k)) \in Nat
      /\ EmitSum(k)' \in Int /\ Cardinality(Debtors(k)') \in Nat
  <2>1. EmitSum(k) \in Int /\ Cardinality(Debtors(k)) \in Nat
    BY DriftIs
  <2>2. \A b \in MacTasks : Announced(b, k)' \in Int
    BY DeltaFacts DEF Announced
  <2>3. [b \in MacTasks |-> Announced(b, k)'] \in [MacTasks -> Int]
    BY <2>2
  <2>4. IsFiniteSet(MacTasks) /\ IsFiniteSet(Threads)
    BY Finiteness
  <2>5. SumFunction([b \in MacTasks |-> Announced(b, k)']) \in Int
    BY <2>3, <2>4, SumIsInt
  <2>6. Debtors(k)' \in SUBSET Threads
    BY DEF Debtors
  <2>7. Cardinality(Debtors(k)') \in Nat
    BY <2>4, <2>6, FS_Subset, FS_CardinalityType
  <2>. QED
    BY <2>1, <2>5, <2>7 DEF EmitSum
<1>6. CASE c \in MacTasks
  <2>1. Debtors(k)' = Debtors(k)
    BY <1>1, <1>6, ClientKinds DEF Debtors
  <2>. DEFINE f == [b \in MacTasks |-> Announced(b, k)]
              g == [b \in MacTasks |-> Announced(b, k)']
  <2>2. f \in [MacTasks -> Int] /\ g \in [MacTasks -> Int]
    BY DeltaFacts DEF Announced
  <2>3. \A b \in MacTasks : b # c => g[b] = f[b]
    BY <1>1, ClientKinds
  <2>4. IsFiniteSet(MacTasks)
    BY Finiteness
  <2>5. SumFunction(g) = SumFunction(f) - f[c] + g[c]
    <3>. HIDE DEF f, g
    <3>. QED
      BY <1>6, <2>2, <2>3, <2>4, SumUpdate
  <2>6. EmitSum(k) = SumFunction(f) /\ EmitSum(k)' = SumFunction(g)
    BY DEF EmitSum
  <2>7. f[c] = Stake(c, k) /\ g[c] = Stake(c, k)'
    BY <1>6 DEF Stake
  <2>. HIDE DEF f, g
  <2>8. EmitSum(k)' = EmitSum(k) - Stake(c, k) + Stake(c, k)'
    BY <2>5, <2>6, <2>7
  <2>. QED
    BY <1>3, <1>4, <1>5, <2>1, <2>8
<1>7. CASE c \notin MacTasks
  <2>1. EmitSum(k)' = EmitSum(k)
    <3>1. \A b \in MacTasks : Announced(b, k)' = Announced(b, k)
      BY <1>1, <1>7, ClientKinds
    <3>2. [b \in MacTasks |-> Announced(b, k)'] = [b \in MacTasks |-> Announced(b, k)]
      BY <3>1
    <3>. QED
      BY <3>2 DEF EmitSum
  <2>2. Debtors(k)' \ {c} = Debtors(k) \ {c}
    BY <1>1, ClientKinds DEF Debtors
  <2>3. IsFiniteSet(Debtors(k))
    BY Finiteness
  <2>4. Cardinality(Debtors(k)')
          = Cardinality(Debtors(k)) - In(c, Debtors(k)) + In(c, Debtors(k)')
    BY <2>2, <2>3, CardinalityUpdate
  <2>5. Stake(c, k) = 0 - In(c, Debtors(k)) /\ Stake(c, k)' = 0 - In(c, Debtors(k)')
    BY <1>7 DEF Stake
  <2>6. In(c, Debtors(k)) \in Int /\ In(c, Debtors(k)') \in Int
    BY DEF In
  <2>. QED
    BY <1>3, <1>4, <1>5, <2>1, <2>4, <2>5, <2>6
<1>. QED
  BY <1>6, <1>7

\* Nothing that Drift looks at moves.
LEMMA DriftSame ==
    ASSUME NEW k, UNCHANGED <<pc, ev, seen, macCopy, inflight, count>>,
           \A t \in CountTasks : UC!Cached(t, k)' = UC!Cached(t, k)
    PROVE  Drift(k)' = Drift(k)
<1>1. [t \in CountTasks |-> UC!Cached(t, k)'] = [t \in CountTasks |-> UC!Cached(t, k)]
  OBVIOUS
<1>2. CacheSum(k)' = CacheSum(k)
  BY <1>1 DEF CacheSum
<1>3. /\ FlightSum(k)' = FlightSum(k) /\ EmitSum(k)' = EmitSum(k)
      /\ Debtors(k)' = Debtors(k) /\ Members(k)' = Members(k)
  BY DEF FlightSum, EmitSum, Announced, Emitted, Debtors, Owes, Members
<1>4. Drift(k) = count[k] + (CacheSum(k) + FlightSum(k) + EmitSum(k)
                               - Cardinality(Debtors(k)))
                          - Cardinality(Members(k))
  BY DEF Drift, Pending, Audience
<1>5. Drift(k)' = count'[k] + (CacheSum(k)' + FlightSum(k)' + EmitSum(k)'
                               - Cardinality(Debtors(k)'))
                          - Cardinality(Members(k)')
  BY DEF Drift, Pending, Audience
<1>. QED
  BY <1>2, <1>3, <1>4, <1>5

\* A client's step that leaves counters, maps and tuples alone.
LEMMA ClientDrift ==
    ASSUME RtTypeOK, RtTypeOK', NEW k \in UC!Keys, NEW c \in Clients, NEW m,
           \A d \in Clients : d # c =>
              pc'[d] = pc[d] /\ ev'[d] = ev[d] /\ seen'[d] = seen[d],
           \A n \in Macs : n # m => macCopy'[n] = macCopy[n],
           UNCHANGED <<countVars, inflight>>
    PROVE  /\ Drift(k) \in Int
           /\ Stake(c, k) \in {-1, 0, 1} /\ Stake(c, k)' \in {-1, 0, 1}
           /\ In(m, Members(k)) \in {0, 1} /\ In(m, Members(k)') \in {0, 1}
           /\ Drift(k)' = Drift(k) + (Stake(c, k)' - Stake(c, k))
                                   - (In(m, Members(k)') - In(m, Members(k)))
<1>1. CacheSum(k)' = CacheSum(k) /\ FlightSum(k)' = FlightSum(k) /\ count'[k] = count[k]
  BY DEF CacheSum, UC!Cached, FlightSum, countVars
<1>2. /\ count[k] \in Int /\ CacheSum(k) \in Int /\ FlightSum(k) \in Int
      /\ EmitSum(k) \in Int
      /\ Cardinality(Debtors(k)) \in Nat /\ Cardinality(Members(k)) \in Nat
      /\ Drift(k) = count[k] + (CacheSum(k) + FlightSum(k) + EmitSum(k)
                                  - Cardinality(Debtors(k)))
                             - Cardinality(Members(k))
  BY DriftIs
<1>3. Drift(k)' = count'[k] + (CacheSum(k)' + FlightSum(k)' + EmitSum(k)'
                                 - Cardinality(Debtors(k)'))
                            - Cardinality(Members(k)')
  BY DEF Drift, Pending, Audience
<1>4. /\ Stake(c, k) \in {-1, 0, 1} /\ Stake(c, k)' \in {-1, 0, 1}
      /\ EmitSum(k)' \in Int /\ Cardinality(Debtors(k)') \in Nat
      /\ EmitSum(k)' - Cardinality(Debtors(k)')
           = EmitSum(k) - Cardinality(Debtors(k)) + Stake(c, k)' - Stake(c, k)
      /\ Cardinality(Members(k)')
           = Cardinality(Members(k)) + In(m, Members(k)') - In(m, Members(k))
  BY ClientMoves
<1>5. In(m, Members(k)) \in {0, 1} /\ In(m, Members(k)') \in {0, 1}
  BY DEF In
<1>6. Drift(k)' = count[k] + (CacheSum(k) + FlightSum(k)
                                 + (EmitSum(k)' - Cardinality(Debtors(k)')))
                            - Cardinality(Members(k)')
  BY <1>1, <1>2, <1>3, <1>4
<1>. QED
  BY <1>2, <1>4, <1>5, <1>6

-----------------------------------------------------------------------------
(* Each step moves Drift by no more than it adds to the exposure.          *)

\* Every box reports itself under one operator.
OneOperator == \A m \in Macs : \A p, q \in PartnersOf[m] : p = q

\* The counters whose debits name the counter that was credited: all totals,
\* and all counters where a box never changes its operator.
Exact(k) == k \in UC!Keys /\ (k \in UC!TotalKeys \/ OneOperator)

\* The step moves the drift of k by no more than it adds to the exposure.
AtRisk(k) == Abs(Drift(k)' - Drift(k)) <= exposure' - exposure

\* A step that leaves Drift and exposure alone.
LEMMA SameIsSafe ==
    ASSUME NEW k, Drift(k) \in Int, Drift(k)' = Drift(k),
           exposure \in Nat, exposure' = exposure
    PROVE  AtRisk(k)
  BY DEF AtRisk, Abs

\* Giving a connection back changes one client's registers only.
LEMMA CloseRegisters ==
    ASSUME TypeOK, NEW c \in Clients, Close(c)
    PROVE  /\ pc'[c] = "idle"
           /\ \A d \in Clients : d # c =>
                pc'[d] = pc[d] /\ ev'[d] = ev[d] /\ seen'[d] = seen[d]
  BY DEF Close, TypeOK

\* A client that announces and owes nothing has no stake.
LEMMA NoStake ==
    ASSUME NEW c \in Clients, NEW k
    PROVE  /\ pc[c] \notin {"emit", "decrTotal", "decrPartner"} => Stake(c, k) = 0
           /\ pc'[c] \notin {"emit", "decrTotal", "decrPartner"} => Stake(c, k)' = 0
<1>1. ASSUME pc[c] \notin {"emit", "decrTotal", "decrPartner"}
      PROVE  Stake(c, k) = 0
  <2>1. Announced(c, k) = 0
    BY <1>1 DEF Announced
  <2>2. ~Owes(c, k)
    BY <1>1 DEF Owes
  <2>3. In(c, Debtors(k)) = 0
    BY <2>2 DEF In, Debtors
  <2>4. Stake(c, k) = IF c \in MacTasks THEN Announced(c, k)
                        ELSE 0 - In(c, Debtors(k))
    BY DEF Stake
  <2>. QED
    BY <2>1, <2>3, <2>4
<1>2. ASSUME pc'[c] \notin {"emit", "decrTotal", "decrPartner"}
      PROVE  Stake(c, k)' = 0
  <2>1. Announced(c, k)' = 0
    BY <1>2 DEF Announced
  <2>2. ~Owes(c, k)'
    BY <1>2 DEF Owes
  <2>3. In(c, Debtors(k)') = 0
    BY <2>2 DEF In, Debtors
  <2>4. Stake(c, k)' = IF c \in MacTasks THEN Announced(c, k)'
                        ELSE 0 - In(c, Debtors(k)')
    BY DEF Stake
  <2>. QED
    BY <2>1, <2>3, <2>4
<1>. QED
  BY <1>1, <1>2

\* A box is a member of the counters of its session.
LEMMA MemberIs ==
    ASSUME NEW k, NEW m \in Macs
    PROVE  /\ In(m, Members(k)) = In(k, UC!KeysOf(macCopy[m]))
           /\ In(m, Members(k)') = In(k, UC!KeysOf(macCopy'[m]))
<1>1. In(m, Members(k)) = In(k, UC!KeysOf(macCopy[m]))
  BY KeyFacts DEF In, Members
<1>2. In(m, Members(k)') = In(k, UC!KeysOf(macCopy'[m]))
  BY KeyFacts DEF In, Members
<1>. QED
  BY <1>1, <1>2

\* The partner of a debit does not matter to an exact counter.
LEMMA DebitIs ==
    ASSUME NEW k, Exact(k), NEW s \in Session, NEW p \in Partners,
           OneOperator => s.partner = p
    PROVE  In(k, UC!KeysOf([chan |-> s.chan, partner |-> p])) = In(k, UC!KeysOf(s))
<1>1. s.chan \in Channels /\ s.partner \in Partners
      /\ [chan |-> s.chan, partner |-> p] \in Session
  BY DEF Session
<1>2. UC!KeysOf([chan |-> s.chan, partner |-> p])
        = {UC!TotalKey(s.chan), UC!PartnerKey(p, s.chan)}
  BY <1>1, KeyFacts
<1>3. UC!KeysOf(s) = {UC!TotalKey(s.chan), UC!PartnerKey(s.partner, s.chan)}
  BY KeyFacts
<1>4. CASE OneOperator
  BY <1>2, <1>3, <1>4
<1>5. CASE k \in UC!TotalKeys
  BY <1>2, <1>3, <1>5, KeyFacts DEF In
<1>. QED
  BY <1>4, <1>5 DEF Exact

\* A client's step that changes no session and has no stake before or after.
LEMMA QuietDrift ==
    ASSUME RtTypeOK, RtTypeOK', NEW k \in UC!Keys, NEW c \in Clients,
           \A d \in Clients : d # c =>
              pc'[d] = pc[d] /\ ev'[d] = ev[d] /\ seen'[d] = seen[d],
           macCopy' = macCopy,
           pc[c] \notin {"emit", "decrTotal", "decrPartner"},
           pc'[c] \notin {"emit", "decrTotal", "decrPartner"},
           UNCHANGED <<countVars, inflight>>
    PROVE  Drift(k) \in Int /\ Drift(k)' = Drift(k)
<1>1. Stake(c, k) = 0 /\ Stake(c, k)' = 0
  BY NoStake
<1>2. In(None, Members(k)') = In(None, Members(k))
  BY DEF Members
<1>3. /\ Drift(k) \in Int
      /\ In(None, Members(k)) \in {0, 1}
      /\ Drift(k)' = Drift(k) + (Stake(c, k)' - Stake(c, k))
                              - (In(None, Members(k)') - In(None, Members(k)))
  BY ClientDrift
<1>. QED
  BY <1>1, <1>2, <1>3

\* A bolt task's EXEC: what it announces is what the box's session changed.
LEMMA ExecDrift ==
    ASSUME RtTypeOK, RtTypeOK', ReadStillTrue, CopyIsOwn, NEW k, Exact(k),
           NEW b \in MacTasks, ExecPlay(b) \/ ExecStop(b),
           UNCHANGED <<countVars, inflight>>
    PROVE  Drift(k) \in Int /\ Drift(k)' = Drift(k)
<1>1. b \in Clients /\ TypeOK /\ k \in UC!Keys
  BY ClientKinds DEF RtTypeOK, Exact
<1>2. pc[b] = "exec" /\ ~dirty[b] /\ pc' = [pc EXCEPT ![b] = "emit"]
      /\ ev' = ev /\ seen' = seen
  BY DEF ExecPlay, ExecStop
<1>3. PICK m \in Macs : m = on[b]
  BY <1>1, <1>2 DEF TypeOK
<1>4. ev[b] \in Play /\ ev[b].mac = m /\ seen[b] = macCopy[m]
      /\ seen[b] \in Session \cup {None}
  BY <1>1, <1>2, <1>3 DEF TypeOK, ReadStillTrue
<1>. DEFINE new == IF ev[b].pt \in {"0", "5"}
                     THEN [chan |-> ev[b].chan, partner |-> ev[b].partner] ELSE None
            old == IF seen[b] # None
                     THEN [chan |-> seen[b].chan, partner |-> ev[b].partner] ELSE None
<1>5. macCopy' = [macCopy EXCEPT ![m] = new]
  BY <1>3 DEF ExecPlay, ExecStop, WritePlay, WriteStop
<1>6. macCopy'[m] = new /\ \A n \in Macs : n # m => macCopy'[n] = macCopy[n]
  BY <1>1, <1>5 DEF TypeOK
<1>7. pc'[b] = "emit" /\ \A d \in Clients : d # b =>
         pc'[d] = pc[d] /\ ev'[d] = ev[d] /\ seen'[d] = seen[d]
  BY <1>1, <1>2 DEF TypeOK
<1>8. Emitted(b)' = [add |-> new, dec |-> old]
  BY <1>2 DEF Emitted
<1>9. Stake(b, k)' = In(k, UC!KeysOf(new)) - In(k, UC!KeysOf(old))
  <2>1. Stake(b, k)' = UC!Delta(Emitted(b)', k)
    BY <1>7 DEF Stake, Announced
  <2>. HIDE DEF new, old
  <2>. QED
    BY <1>8, <2>1, DeltaFacts
<1>10. In(k, UC!KeysOf(old)) = In(k, UC!KeysOf(seen[b]))
  <2>1. CASE seen[b] = None
    BY <2>1
  <2>2. CASE seen[b] # None
    <3>1. seen[b] \in Session /\ ev[b].partner \in Partners
          /\ ev[b].partner \in PartnersOf[m]
      BY <1>4, <2>2, PlayFields DEF Play
    <3>2. seen[b].partner \in PartnersOf[m]
      BY <1>4, <2>2 DEF CopyIsOwn
    <3>3. OneOperator => seen[b].partner = ev[b].partner
      BY <3>1, <3>2 DEF OneOperator
    <3>. QED
      BY <2>2, <3>1, <3>3, DebitIs
  <2>. QED
    BY <2>1, <2>2
<1>11. Stake(b, k) = 0
  BY <1>1, <1>2, NoStake
<1>12. In(m, Members(k)) = In(k, UC!KeysOf(seen[b]))
       /\ In(m, Members(k)') = In(k, UC!KeysOf(new))
  <2>. HIDE DEF new
  <2>. QED
    BY <1>4, <1>6, MemberIs
<1>13. /\ Drift(k) \in Int
       /\ In(m, Members(k)) \in {0, 1} /\ In(m, Members(k)') \in {0, 1}
       /\ Drift(k)' = Drift(k) + (Stake(b, k)' - Stake(b, k))
                               - (In(m, Members(k)') - In(m, Members(k)))
  BY <1>1, <1>6, <1>7, ClientDrift
<1>. HIDE DEF new, old
<1>. QED
  BY <1>9, <1>10, <1>11, <1>12, <1>13

\* A thread's EXEC: the session it removes is what it owes.
LEMMA TriggerDrift ==
    ASSUME RtTypeOK, RtTypeOK', ReadStillTrue, NEW k \in UC!Keys,
           NEW t \in Threads, TriggerExec(t),
           UNCHANGED <<countVars, inflight>>
    PROVE  Drift(k) \in Int /\ Drift(k)' = Drift(k)
<1>1. t \in Clients /\ TypeOK /\ t \notin MacTasks
  BY ClientKinds DEF RtTypeOK
<1>2. pc[t] = "exec" /\ ~dirty[t]
  BY DEF TriggerExec
<1>3. PICK m \in Macs : m = on[t]
  BY <1>1, <1>2 DEF TypeOK
<1>4. seen[t] = macCopy[m] /\ seen[t] \in Session \cup {None}
  BY <1>1, <1>2, <1>3 DEF TypeOK, ReadStillTrue
<1>5. macCopy'[m] = None /\ \A n \in Macs : n # m => macCopy'[n] = macCopy[n]
  BY <1>1, <1>3 DEF TriggerExec, DelCopy, TypeOK
<1>6. \A d \in Clients : d # t =>
         pc'[d] = pc[d] /\ ev'[d] = ev[d] /\ seen'[d] = seen[d]
  BY <1>1, CloseRegisters DEF TriggerExec, TypeOK
<1>7. Stake(t, k) = 0
  BY <1>1, <1>2, NoStake
<1>8. Stake(t, k)' = 0 - In(k, UC!KeysOf(seen[t]))
  <2>1. CASE seen[t] # None /\ pc' = [pc EXCEPT ![t] = "decrTotal"] /\ seen' = seen
    <3>1. pc'[t] = "decrTotal" /\ seen'[t] = seen[t]
      BY <1>1, <2>1 DEF TypeOK
    <3>2. Owes(t, k)' <=> k \in UC!KeysOf(seen[t])
      BY <3>1 DEF Owes
    <3>. QED
      BY <1>1, <3>2 DEF Stake, In, Debtors
  <2>2. CASE seen[t] = None /\ Close(t)
    <3>1. Stake(t, k)' = 0
      BY <1>1, <2>2, CloseRegisters, NoStake
    <3>2. In(k, UC!KeysOf(seen[t])) = 0
      BY <2>2, KeyFacts DEF In
    <3>. QED
      BY <3>1, <3>2
  <2>. QED
    BY <2>1, <2>2 DEF TriggerExec
<1>9. In(m, Members(k)) = In(k, UC!KeysOf(seen[t])) /\ In(m, Members(k)') = 0
  BY <1>4, <1>5, MemberIs, KeyFacts DEF In
<1>10. /\ Drift(k) \in Int
       /\ In(m, Members(k)) \in {0, 1} /\ In(m, Members(k)') \in {0, 1}
       /\ Drift(k)' = Drift(k) + (Stake(t, k)' - Stake(t, k))
                               - (In(m, Members(k)') - In(m, Members(k)))
  BY <1>1, <1>5, <1>6, ClientDrift
<1>. QED
  BY <1>7, <1>8, <1>9, <1>10

\* Drift as the sum of its parts, before and after a step.
LEMMA DriftForm ==
    ASSUME NEW k
    PROVE  /\ Drift(k) = count[k] + (CacheSum(k) + FlightSum(k) + EmitSum(k)
                                       - Cardinality(Debtors(k)))
                                  - Cardinality(Members(k))
           /\ Drift(k)' = count'[k] + (CacheSum(k)' + FlightSum(k)' + EmitSum(k)'
                                         - Cardinality(Debtors(k)'))
                                    - Cardinality(Members(k)')
  BY DEF Drift, Pending, Audience

\* Sending: what was announced is in flight.
LEMMA EmitDrift ==
    ASSUME RtTypeOK, RtTypeOK', NEW k \in UC!Keys, NEW b \in MacTasks, RtEmit(b)
    PROVE  Drift(k) \in Int /\ Drift(k)' = Drift(k)
<1>1. b \in Clients /\ TypeOK /\ pc[b] = "emit" /\ Close(b) /\ macCopy' = macCopy
  BY ClientKinds DEF RtTypeOK, RtEmit, Emit
<1>2. pc'[b] = "idle" /\ \A d \in Clients : d # b =>
         pc'[d] = pc[d] /\ ev'[d] = ev[d] /\ seen'[d] = seen[d]
  BY <1>1, CloseRegisters
<1>3. PICK u \in CountTuple : u = Emitted(b)
  BY <1>1, EmittedType
<1>4. UC!Delta(u, k) \in {-1, 0, 1}
  BY DeltaFacts
<1>5. Stake(b, k) = UC!Delta(u, k) /\ Stake(b, k)' = 0
  <2>1. Stake(b, k) = UC!Delta(u, k)
    BY <1>1, <1>3 DEF Stake, Announced
  <2>. QED
    BY <1>1, <1>2, <2>1, NoStake
<1>6. FlightSum(k)' = FlightSum(k) + UC!Delta(u, k)
  <2>1. /\ inflight \in [CountTuple -> Nat] /\ inflight' \in [CountTuple -> Nat]
        /\ inflight' = [inflight EXCEPT ![u] = inflight[u] + 1]
    BY <1>3 DEF RtTypeOK, RtEmit, Put
  <2>. QED
    BY <2>1, FlightMoves
<1>7. CacheSum(k)' = CacheSum(k) /\ count'[k] = count[k]
  BY DEF CacheSum, UC!Cached, RtEmit, countVars
<1>8. Members(k)' = Members(k)
  BY <1>1 DEF Members
<1>9. /\ EmitSum(k)' \in Int /\ Cardinality(Debtors(k)') \in Nat
      /\ EmitSum(k)' - Cardinality(Debtors(k)')
           = EmitSum(k) - Cardinality(Debtors(k)) + Stake(b, k)' - Stake(b, k)
  BY <1>1, <1>2, ClientMoves
<1>. QED
  BY <1>4, <1>5, <1>6, <1>7, <1>8, <1>9, DriftIs, DriftForm

\* A trigger thread's DECR.
LEMMA DebitDrift ==
    ASSUME RtTypeOK, RtTypeOK', DebtorHasSession, NEW k \in UC!Keys,
           NEW t \in Threads, RtDecrTotal(t) \/ RtDecrPartner(t)
    PROVE  Drift(k) \in Int /\ Drift(k)' = Drift(k)
<1>1. t \in Clients /\ t \notin MacTasks /\ TypeOK /\ macCopy' = macCopy
      /\ inflight' = inflight
  BY ClientKinds DEF RtTypeOK, RtDecrTotal, RtDecrPartner, DecrTotal, DecrPartner
<1>2. seen[t] \in Session
  BY DEF RtDecrTotal, RtDecrPartner, DecrTotal, DecrPartner, DebtorHasSession
<1>3. PICK tk, pk : tk = UC!TotalKey(seen[t].chan)
                    /\ pk = UC!PartnerKey(seen[t].partner, seen[t].chan)
  OBVIOUS
<1>4. /\ tk \in UC!Keys /\ pk \in UC!Keys /\ tk # pk
      /\ UC!KeysOf(seen[t]) = {tk, pk}
  BY <1>2, <1>3, KeyFacts DEF Session
<1>5. \A d \in Clients : d # t =>
         pc'[d] = pc[d] /\ ev'[d] = ev[d] /\ seen'[d] = seen[d]
  BY <1>1, CloseRegisters
     DEF RtDecrTotal, RtDecrPartner, DecrTotal, DecrPartner, TypeOK
<1>6. CacheSum(k)' = CacheSum(k) /\ FlightSum(k)' = FlightSum(k)
  BY <1>1 DEF CacheSum, UC!Cached, FlightSum, RtDecrTotal, RtDecrPartner, UC!Decr
<1>7. Members(k)' = Members(k)
  BY <1>1 DEF Members
<1>8. /\ Stake(t, k) \in {-1, 0, 1} /\ Stake(t, k)' \in {-1, 0, 1}
      /\ EmitSum(k)' \in Int /\ Cardinality(Debtors(k)') \in Nat
      /\ EmitSum(k)' - Cardinality(Debtors(k)')
           = EmitSum(k) - Cardinality(Debtors(k)) + Stake(t, k)' - Stake(t, k)
  BY <1>1, <1>5, ClientMoves
<1>9. count'[k] - count[k] = Stake(t, k) - Stake(t, k)'
  <2>0. count[k] \in Int
    BY DEF RtTypeOK
  <2>1. CASE RtDecrTotal(t)
    <3>1. pc[t] = "decrTotal" /\ pc'[t] = "decrPartner" /\ seen'[t] = seen[t]
      BY <1>1, <2>1 DEF RtDecrTotal, DecrTotal, TypeOK
    <3>2. (Owes(t, k) <=> k \in {tk, pk}) /\ (Owes(t, k)' <=> k = pk)
      BY <1>3, <1>4, <3>1 DEF Owes
    <3>3. /\ Stake(t, k) = 0 - (IF k \in {tk, pk} THEN 1 ELSE 0)
          /\ Stake(t, k)' = 0 - (IF k = pk THEN 1 ELSE 0)
      BY <1>1, <3>2 DEF Stake, In, Debtors
    <3>4. count'[k] = IF k = tk THEN count[k] - 1 ELSE count[k]
      BY <1>3, <2>1 DEF RtDecrTotal, UC!Decr, RtTypeOK
    <3>. QED
      BY <1>4, <2>0, <3>3, <3>4
  <2>2. CASE RtDecrPartner(t)
    <3>1. pc[t] = "decrPartner" /\ pc'[t] = "idle"
      BY <1>1, <2>2, CloseRegisters DEF RtDecrPartner, DecrPartner
    <3>2. (Owes(t, k) <=> k = pk) /\ ~Owes(t, k)'
      BY <1>3, <1>4, <3>1 DEF Owes
    <3>3. /\ Stake(t, k) = 0 - (IF k = pk THEN 1 ELSE 0)
          /\ Stake(t, k)' = 0 - 0
      BY <1>1, <3>2 DEF Stake, In, Debtors
    <3>4. count'[k] = IF k = pk THEN count[k] - 1 ELSE count[k]
      BY <1>3, <2>2 DEF RtDecrPartner, UC!Decr, RtTypeOK
    <3>. QED
      BY <2>0, <3>3, <3>4
  <2>. QED
    BY <2>1, <2>2
<1>10. count'[k] \in Int
  BY DEF RtTypeOK
<1>. QED
  BY <1>6, <1>7, <1>8, <1>9, <1>10, DriftIs, DriftForm

\* What DriftForm leaves of a step of the counting bolt.
LEMMA BoltDrift ==
    ASSUME RtTypeOK, RtTypeOK', NEW k \in UC!Keys, NEW t \in CountTasks,
           UNCHANGED vars,
           \A d \in CountTasks : d # t =>
              cacheMap'[d] = cacheMap[d] /\ flushing'[d] = flushing[d]
              /\ todo'[d] = todo[d]
    PROVE  /\ UC!Cached(t, k) \in Int /\ UC!Cached(t, k)' \in Int
           /\ count[k] \in Int /\ count'[k] \in Int
           /\ FlightSum(k) \in Int /\ Drift(k) \in Int
           /\ FlightSum(k)' \in Int =>
                Drift(k)' = Drift(k) + (count'[k] - count[k])
                              + (UC!Cached(t, k)' - UC!Cached(t, k))
                              + (FlightSum(k)' - FlightSum(k))
<1>1. \A d \in CountTasks : d # t => UC!Cached(d, k)' = UC!Cached(d, k)
  BY DEF UC!Cached
<1>2. /\ UC!Cached(t, k) \in Int /\ UC!Cached(t, k)' \in Int
      /\ CacheSum(k)' = CacheSum(k) - UC!Cached(t, k) + UC!Cached(t, k)'
  BY <1>1, CacheMoves
<1>3. EmitSum(k)' = EmitSum(k) /\ Debtors(k)' = Debtors(k) /\ Members(k)' = Members(k)
  BY DEF vars, EmitSum, Announced, Emitted, Debtors, Owes, Members
<1>4. count'[k] \in Int
  BY DEF RtTypeOK
<1>5. /\ count[k] \in Int /\ CacheSum(k) \in Int /\ FlightSum(k) \in Int
      /\ EmitSum(k) \in Int
      /\ Cardinality(Debtors(k)) \in Nat /\ Cardinality(Members(k)) \in Nat
  BY DriftIs
<1>. QED
  BY <1>2, <1>3, <1>4, <1>5, DriftForm

\* Delivery: what was in flight is in the task's map.
LEMMA DeliverDrift ==
    ASSUME RtTypeOK, RtTypeOK', NEW k \in UC!Keys, NEW u \in CountTuple, Deliver(u)
    PROVE  Drift(k) \in Int /\ Drift(k)' = Drift(k)
<1>1. PICK t \in CountTasks : t = CountTaskOf[u]
  BY RealtimeCountAssumption DEF RealtimeCountAssumption
<1>2. UC!MainTain(t, u) /\ UNCHANGED vars
  BY <1>1 DEF Deliver
<1>3. \A d \in CountTasks : d # t =>
        cacheMap'[d] = cacheMap[d] /\ flushing'[d] = flushing[d] /\ todo'[d] = todo[d]
  BY <1>2 DEF UC!MainTain, RtTypeOK
<1>4. UC!Delta(u, k) \in {-1, 0, 1}
  BY DeltaFacts
<1>5. UC!Cached(t, k)' = UC!Cached(t, k) + UC!Delta(u, k)
  <2>1. ~flushing[t] /\ ~flushing'[t] /\ cacheMap'[t][k] = cacheMap[t][k] + UC!Delta(u, k)
    BY <1>2 DEF UC!MainTain, RtTypeOK
  <2>. QED
    BY <2>1 DEF UC!Cached
<1>6. FlightSum(k)' = FlightSum(k) - UC!Delta(u, k)
  <2>1. /\ inflight \in [CountTuple -> Nat] /\ inflight' \in [CountTuple -> Nat]
        /\ inflight' = [inflight EXCEPT ![u] = inflight[u] - 1]
    BY DEF RtTypeOK, Deliver, Remove
  <2>2. inflight' = [inflight EXCEPT ![u] = inflight[u] + (-1)]
    BY <2>1
  <2>3. FlightSum(k)' = FlightSum(k) + (IF -1 = 1 THEN UC!Delta(u, k) ELSE -UC!Delta(u, k))
    BY <2>1, <2>2, FlightMoves
  <2>4. FlightSum(k) \in Int
    BY DriftIs
  <2>. QED
    BY <1>4, <2>3, <2>4
<1>7. count' = count
  BY <1>2 DEF UC!MainTain
<1>8. /\ UC!Cached(t, k) \in Int /\ count[k] \in Int /\ FlightSum(k) \in Int /\ Drift(k) \in Int
      /\ FlightSum(k)' \in Int =>
           Drift(k)' = Drift(k) + (count'[k] - count[k])
                         + (UC!Cached(t, k)' - UC!Cached(t, k))
                         + (FlightSum(k)' - FlightSum(k))
  BY <1>2, <1>3, BoltDrift
<1>. QED
  BY <1>4, <1>5, <1>6, <1>7, <1>8

\* A flush: what leaves the map is in the counter.
LEMMA FlushDrift ==
    ASSUME RtTypeOK, RtTypeOK', NEW k \in UC!Keys, NEW t \in CountTasks, FlushStep(t)
    PROVE  Drift(k) \in Int /\ Drift(k)' = Drift(k)
<1>1. UNCHANGED vars /\ FlightSum(k)' = FlightSum(k)
  BY DEF FlushStep, FlightSum
<1>2. \A d \in CountTasks : d # t =>
        cacheMap'[d] = cacheMap[d] /\ flushing'[d] = flushing[d] /\ todo'[d] = todo[d]
  BY DEF FlushStep, UC!Tick, UC!Clear, UC!IncrBy, RtTypeOK
<1>3. cacheMap[t][k] \in Int /\ count[k] \in Int
  BY DEF RtTypeOK
<1>4. count'[k] - count[k] = UC!Cached(t, k) - UC!Cached(t, k)'
  <2>1. CASE UC!Tick(t)
    <3>1. /\ ~flushing[t] /\ flushing'[t] /\ cacheMap'[t][k] = cacheMap[t][k]
          /\ (k \in todo'[t] <=> cacheMap[t][k] # 0) /\ count'[k] = count[k]
      BY <2>1 DEF UC!Tick, RtTypeOK
    <3>. QED
      BY <1>3, <3>1 DEF UC!Cached
  <2>2. ASSUME NEW x \in UC!Keys, UC!IncrBy(t, x)
        PROVE  count'[k] - count[k] = UC!Cached(t, k) - UC!Cached(t, k)'
    <3>1. /\ flushing[t] /\ flushing'[t] /\ x \in todo[t]
          /\ todo'[t] = todo[t] \ {x}
          /\ cacheMap'[t][k] = cacheMap[t][k]
          /\ count'[k] = IF k = x THEN count[k] + cacheMap[t][k] ELSE count[k]
      BY <2>2 DEF UC!IncrBy, RtTypeOK
    <3>. QED
      BY <1>3, <3>1 DEF UC!Cached
  <2>3. CASE UC!Clear(t)
    <3>1. /\ flushing[t] /\ todo[t] = {} /\ ~flushing'[t] /\ cacheMap'[t][k] = 0
          /\ count'[k] = count[k]
      BY <2>3 DEF UC!Clear, RtTypeOK
    <3>. QED
      BY <1>3, <3>1 DEF UC!Cached
  <2>. QED
    BY <2>1, <2>2, <2>3 DEF FlushStep
<1>5. /\ UC!Cached(t, k) \in Int /\ UC!Cached(t, k)' \in Int
      /\ count'[k] \in Int /\ FlightSum(k) \in Int /\ Drift(k) \in Int
      /\ FlightSum(k)' \in Int =>
           Drift(k)' = Drift(k) + (count'[k] - count[k])
                         + (UC!Cached(t, k)' - UC!Cached(t, k))
                         + (FlightSum(k)' - FlightSum(k))
  BY <1>1, <1>2, BoltDrift
<1>. QED
  BY <1>1, <1>3, <1>4, <1>5

\* An error in front of EXEC costs nothing, one of a debit that debit.
LEMMA CallFailsRisk ==
    ASSUME RtTypeOK, RtTypeOK', NEW k \in UC!Keys, NEW c \in Clients, RtCallFails(c)
    PROVE  AtRisk(k)
<1>1. /\ TypeOK /\ Close(c) /\ pc[c] # "emit" /\ macCopy' = macCopy
      /\ UNCHANGED <<countVars, inflight>>
  BY DEF RtTypeOK, RtCallFails, CallFails
<1>2. pc'[c] = "idle" /\ \A d \in Clients : d # c =>
         pc'[d] = pc[d] /\ ev'[d] = ev[d] /\ seen'[d] = seen[d]
  BY <1>1, CloseRegisters
<1>3. Stake(c, k)' = 0
  BY <1>2, NoStake
<1>4. Members(k)' = Members(k)
  BY <1>1 DEF Members
<1>5. /\ Drift(k) \in Int /\ Stake(c, k) \in {-1, 0, 1}
      /\ In(None, Members(k)) \in {0, 1}
      /\ Drift(k)' = Drift(k) + (Stake(c, k)' - Stake(c, k))
                              - (In(None, Members(k)') - In(None, Members(k)))
  BY <1>1, <1>2, ClientDrift
<1>6. Drift(k)' - Drift(k) \in {-1, 0, 1}
  BY <1>3, <1>4, <1>5
<1>7. exposure \in Nat
  BY DEF RtTypeOK
<1>8. CASE pc[c] \in {"decrTotal", "decrPartner"}
  <2>1. exposure' = exposure + 1
    BY <1>8 DEF RtCallFails, Risk
  <2>. QED
    BY <1>6, <1>7, <2>1 DEF AtRisk, Abs
<1>9. CASE pc[c] \notin {"decrTotal", "decrPartner"}
  <2>1. exposure' = exposure
    BY <1>7, <1>9 DEF RtCallFails, Risk
  <2>2. Stake(c, k) = 0
    BY <1>1, <1>9, NoStake
  <2>3. Drift(k)' - Drift(k) = 0
    BY <1>3, <1>4, <1>5, <2>2
  <2>. QED
    BY <1>7, <2>1, <2>3 DEF AtRisk, Abs
<1>. QED
  BY <1>8, <1>9

\* An EXEC whose answer is lost changes one session unannounced.
LEMMA AnswerLostRisk ==
    ASSUME RtTypeOK, RtTypeOK', NEW k \in UC!Keys, NEW c \in Clients,
           \/ c \in MacTasks /\ RtExecAnswerLost(c)
           \/ c \in Threads /\ RtTriggerAnswerLost(c)
    PROVE  AtRisk(k)
<1>1. /\ TypeOK /\ Close(c) /\ pc[c] = "exec" /\ Risk(1)
      /\ UNCHANGED <<countVars, inflight>>
  BY DEF RtTypeOK, RtExecAnswerLost, RtTriggerAnswerLost, ExecAnswerLost,
         TriggerAnswerLost
<1>2. PICK m \in Macs : m = on[c]
  BY <1>1 DEF TypeOK
<1>3. \A n \in Macs : n # m => macCopy'[n] = macCopy[n]
  BY <1>1, <1>2
     DEF RtExecAnswerLost, RtTriggerAnswerLost, ExecAnswerLost, TriggerAnswerLost,
         WritePlay, WriteStop, DelCopy, TypeOK
<1>4. pc'[c] = "idle" /\ \A d \in Clients : d # c =>
         pc'[d] = pc[d] /\ ev'[d] = ev[d] /\ seen'[d] = seen[d]
  BY <1>1, CloseRegisters
<1>5. Stake(c, k) = 0 /\ Stake(c, k)' = 0
  BY <1>1, <1>4, NoStake
<1>6. /\ Drift(k) \in Int
      /\ In(m, Members(k)) \in {0, 1} /\ In(m, Members(k)') \in {0, 1}
      /\ Drift(k)' = Drift(k) + (Stake(c, k)' - Stake(c, k))
                              - (In(m, Members(k)') - In(m, Members(k)))
  BY <1>1, <1>3, <1>4, ClientDrift
<1>7. Drift(k)' - Drift(k) \in {-1, 0, 1}
  BY <1>5, <1>6
<1>8. exposure \in Nat /\ exposure' = exposure + 1
  BY <1>1 DEF RtTypeOK, Risk
<1>. QED
  BY <1>7, <1>8 DEF AtRisk, Abs

\* A tuple that is dropped takes its delta with it.
LEMMA TupleFailsRisk ==
    ASSUME RtTypeOK, RtTypeOK', NEW k \in UC!Keys, NEW u \in CountTuple, TupleFails(u)
    PROVE  AtRisk(k)
<1>1. UC!Delta(u, k) \in {-1, 0, 1}
  BY DeltaFacts
<1>2. FlightSum(k)' = FlightSum(k) - UC!Delta(u, k)
  <2>1. /\ inflight \in [CountTuple -> Nat] /\ inflight' \in [CountTuple -> Nat]
        /\ inflight' = [inflight EXCEPT ![u] = inflight[u] - 1]
    BY DEF RtTypeOK, TupleFails, Remove
  <2>2. inflight' = [inflight EXCEPT ![u] = inflight[u] + (-1)]
    BY <2>1
  <2>3. FlightSum(k)' = FlightSum(k) + (IF -1 = 1 THEN UC!Delta(u, k) ELSE -UC!Delta(u, k))
    BY <2>1, <2>2, FlightMoves
  <2>4. FlightSum(k) \in Int
    BY DriftIs
  <2>. QED
    BY <1>1, <2>3, <2>4
<1>3. /\ CacheSum(k)' = CacheSum(k) /\ EmitSum(k)' = EmitSum(k)
      /\ Debtors(k)' = Debtors(k) /\ Members(k)' = Members(k) /\ count' = count
  BY DEF TupleFails, vars, countVars, CacheSum, UC!Cached, EmitSum, Announced, Emitted,
         Debtors, Owes, Members
<1>4. /\ count[k] \in Int /\ CacheSum(k) \in Int /\ FlightSum(k) \in Int
      /\ EmitSum(k) \in Int
      /\ Cardinality(Debtors(k)) \in Nat /\ Cardinality(Members(k)) \in Nat
  BY DriftIs
<1>5. Drift(k)' - Drift(k) \in {-1, 0, 1}
  BY <1>1, <1>2, <1>3, <1>4, DriftForm
<1>6. exposure \in Nat /\ exposure' = exposure + 1
  BY DEF RtTypeOK, TupleFails, Risk
<1>. QED
  BY <1>5, <1>6 DEF AtRisk, Abs

\* A flush that fails sends again what it had sent; a worker that dies
\* sends nothing of what it had.
LEMMA MapRisk ==
    ASSUME RtTypeOK, RtTypeOK', NEW k \in UC!Keys, NEW t \in CountTasks,
           RtFlushFails(t) \/ RtWorkerDies(t)
    PROVE  AtRisk(k)
<1>1. /\ UNCHANGED vars /\ FlightSum(k)' = FlightSum(k) /\ count' = count
  BY DEF RtFlushFails, RtWorkerDies, UC!FlushFails, UC!WorkerDies, FlightSum
<1>2. \A d \in CountTasks : d # t =>
        cacheMap'[d] = cacheMap[d] /\ flushing'[d] = flushing[d] /\ todo'[d] = todo[d]
  BY DEF RtFlushFails, RtWorkerDies, UC!FlushFails, UC!WorkerDies, RtTypeOK
<1>3. /\ UC!Cached(t, k) \in Int /\ UC!Cached(t, k)' \in Int
      /\ count[k] \in Int /\ FlightSum(k) \in Int /\ Drift(k) \in Int
      /\ FlightSum(k)' \in Int =>
           Drift(k)' = Drift(k) + (count'[k] - count[k])
                         + (UC!Cached(t, k)' - UC!Cached(t, k))
                         + (FlightSum(k)' - FlightSum(k))
  BY <1>1, <1>2, BoltDrift
<1>4. Drift(k)' - Drift(k) = UC!Cached(t, k)' - UC!Cached(t, k)
  BY <1>1, <1>3
<1>5. exposure \in Nat /\ cacheMap[t][k] \in Int
  BY DEF RtTypeOK
<1>6. CASE RtFlushFails(t)
  <2>. DEFINE Sent == {cacheMap[t][x] : x \in UC!Keys \ todo[t]}
  <2>1. /\ flushing[t] /\ ~flushing'[t] /\ cacheMap'[t][k] = cacheMap[t][k]
        /\ exposure' = exposure + Largest(Sent)
    BY <1>6 DEF RtFlushFails, UC!FlushFails, RtTypeOK, Risk
  <2>2. IsFiniteSet(Sent) /\ Sent \subseteq Int
    BY CacheImageFinite
  <2>3. k \notin todo[t] => cacheMap[t][k] \in Sent
    OBVIOUS
  <2>. HIDE DEF Sent
  <2>4. Largest(Sent) \in Nat /\ \A n \in Sent : Abs(n) <= Largest(Sent)
    BY <2>2, LargestBounds
  <2>5. UC!Cached(t, k)' - UC!Cached(t, k) = IF k \in todo[t] THEN 0 ELSE cacheMap[t][k]
    BY <1>5, <2>1 DEF UC!Cached
  <2>6. Abs(0) = 0
    BY DEF Abs
  <2>7. Abs(UC!Cached(t, k)' - UC!Cached(t, k)) <= Largest(Sent)
    BY <2>3, <2>4, <2>5, <2>6
  <2>. QED
    BY <1>4, <1>5, <2>1, <2>4, <2>7 DEF AtRisk
<1>7. CASE RtWorkerDies(t)
  <2>. DEFINE Held == {UC!Cached(t, x) : x \in UC!Keys}
  <2>1. /\ ~flushing'[t] /\ cacheMap'[t][k] = 0
        /\ exposure' = exposure + Largest(Held)
    BY <1>7 DEF RtWorkerDies, UC!WorkerDies, RtTypeOK, Risk
  <2>2. IsFiniteSet(Held) /\ Held \subseteq Int
    BY CacheImageFinite
  <2>3. UC!Cached(t, k) \in Held
    OBVIOUS
  <2>. HIDE DEF Held
  <2>4. Largest(Held) \in Nat /\ Abs(UC!Cached(t, k)) <= Largest(Held)
    BY <2>2, <2>3, LargestBounds
  <2>5. UC!Cached(t, k)' = 0
    BY <2>1 DEF UC!Cached
  <2>6. Abs(UC!Cached(t, k)' - UC!Cached(t, k)) = Abs(UC!Cached(t, k))
    BY <1>3, <2>5 DEF Abs
  <2>. QED
    BY <1>4, <1>5, <2>1, <2>4, <2>6 DEF AtRisk
<1>. QED
  BY <1>6, <1>7

\* The steps of SessionStep.
LEMMA SessionDrift ==
    ASSUME RtTypeOK, RtTypeOK', ReadStillTrue, CopyIsOwn, NEW k, Exact(k), SessionStep
    PROVE  Drift(k) \in Int /\ Drift(k)' = Drift(k)
<1>. DEFINE Goal == Drift(k) \in Int /\ Drift(k)' = Drift(k)
<1>0. k \in UC!Keys /\ TypeOK /\ UNCHANGED <<countVars, inflight>>
  BY DEF Exact, RtTypeOK, SessionStep
<1>1. ASSUME NEW b \in MacTasks, NEW log \in Log, Watch(b, log) PROVE Goal
  <2>1. /\ b \in Clients /\ macCopy' = macCopy
        /\ pc[b] = "idle" /\ pc'[b] = "get"
        /\ \A d \in Clients : d # b =>
             pc'[d] = pc[d] /\ ev'[d] = ev[d] /\ seen'[d] = seen[d]
    BY <1>0, <1>1, ClientKinds DEF Watch, TypeOK
  <2>. QED
    BY <1>0, <2>1, QuietDrift
<1>2. ASSUME NEW b \in MacTasks, GetForTransaction(b) \/ GetForRenewal(b) PROVE Goal
  <2>1. /\ b \in Clients /\ macCopy' = macCopy
        /\ pc[b] = "get" /\ pc'[b] \in {"exec", "renew"}
        /\ \A d \in Clients : d # b =>
             pc'[d] = pc[d] /\ ev'[d] = ev[d] /\ seen'[d] = seen[d]
    BY <1>0, <1>2, ClientKinds DEF GetForTransaction, GetForRenewal, TypeOK
  <2>. QED
    BY <1>0, <2>1, QuietDrift
<1>3. ASSUME NEW c \in Clients, GetAndReturn(c) \/ Aborted(c) \/ Renew(c) PROVE Goal
  <2>1. /\ macCopy' = macCopy /\ Close(c) /\ pc[c] \in {"get", "exec", "renew"}
    BY <1>0, <1>3 DEF GetAndReturn, Aborted, Renew
  <2>2. pc'[c] = "idle" /\ \A d \in Clients : d # c =>
          pc'[d] = pc[d] /\ ev'[d] = ev[d] /\ seen'[d] = seen[d]
    BY <1>0, <2>1, CloseRegisters
  <2>. QED
    BY <1>0, <2>1, <2>2, QuietDrift
<1>4. ASSUME NEW b \in MacTasks, ExecPlay(b) \/ ExecStop(b) PROVE Goal
  BY <1>0, <1>4, ExecDrift
<1>5. ASSUME NEW t \in Threads, TriggerGet(t) \/ \E m \in Macs : TriggerWatch(t, m)
      PROVE  Goal
  <2>1. /\ t \in Clients /\ macCopy' = macCopy
        /\ pc[t] \in {"idle", "get"} /\ pc'[t] \in {"exec", "get"}
        /\ \A d \in Clients : d # t =>
             pc'[d] = pc[d] /\ ev'[d] = ev[d] /\ seen'[d] = seen[d]
    BY <1>0, <1>5, ClientKinds DEF TriggerGet, TriggerWatch, TypeOK
  <2>. QED
    BY <1>0, <2>1, QuietDrift
<1>6. ASSUME NEW t \in Threads, TriggerExec(t) PROVE Goal
  BY <1>0, <1>6, TriggerDrift
<1>7. ASSUME NEW m \in Macs, Age(m) \/ Expire(m) \/ ExpireUnheard(m) PROVE Goal
  <2>1. UNCHANGED <<pc, ev, seen, macCopy, inflight, count>>
    BY <1>0, <1>7 DEF Age, Expire, ExpireUnheard, countVars
  <2>2. \A t \in CountTasks : UC!Cached(t, k)' = UC!Cached(t, k)
    BY <1>0 DEF UC!Cached, countVars
  <2>. QED
    BY <1>0, <2>1, <2>2, DriftSame, DriftIs
<1>. HIDE DEF Goal
<1>8. ASSUME NEW b \in MacTasks,
             \/ GetForTransaction(b) \/ GetForRenewal(b) \/ GetAndReturn(b)
             \/ ExecPlay(b) \/ ExecStop(b) \/ Aborted(b) \/ Renew(b)
      PROVE  Goal
  BY <1>2, <1>3, <1>4, <1>8, ClientKinds
<1>9. ASSUME NEW t \in Threads,
             \/ \E m \in Macs : TriggerWatch(t, m)
             \/ TriggerGet(t) \/ TriggerExec(t) \/ Aborted(t)
      PROVE  Goal
  BY <1>3, <1>5, <1>6, <1>9, ClientKinds
<1>10. Goal
  BY <1>1, <1>7, <1>8, <1>9 DEF SessionStep
<1>. QED
  BY <1>10 DEF Goal

\* Every step of the topology.
LEMMA RiskCoversDrift ==
    ASSUME RtTypeOK, RtTypeOK', DebtorHasSession, ReadStillTrue, CopyIsOwn,
           [RtNext]_rtVars, NEW k, Exact(k)
    PROVE  AtRisk(k)
<1>. k \in UC!Keys /\ exposure \in Nat
  BY DEF Exact, RtTypeOK
<1>1. CASE SessionStep
  BY <1>1, SessionDrift, SameIsSafe DEF SessionStep
<1>2. ASSUME NEW b \in MacTasks, RtEmit(b) PROVE AtRisk(k)
  BY <1>2, EmitDrift, SameIsSafe DEF RtEmit
<1>3. ASSUME NEW t \in Threads, RtDecrTotal(t) \/ RtDecrPartner(t) PROVE AtRisk(k)
  BY <1>3, DebitDrift, SameIsSafe DEF RtDecrTotal, RtDecrPartner
<1>4. ASSUME NEW u \in CountTuple, Deliver(u) PROVE AtRisk(k)
  BY <1>4, DeliverDrift, SameIsSafe DEF Deliver
<1>5. ASSUME NEW t \in CountTasks, FlushStep(t) PROVE AtRisk(k)
  BY <1>5, FlushDrift, SameIsSafe DEF FlushStep
<1>6. ASSUME NEW b \in MacTasks, RtExecAnswerLost(b) PROVE AtRisk(k)
  BY <1>6, AnswerLostRisk, ClientKinds
<1>7. ASSUME NEW t \in Threads, RtTriggerAnswerLost(t) PROVE AtRisk(k)
  BY <1>7, AnswerLostRisk, ClientKinds
<1>8. ASSUME NEW u \in CountTuple, TupleFails(u) PROVE AtRisk(k)
  BY <1>8, TupleFailsRisk
<1>9. ASSUME NEW t \in CountTasks, RtFlushFails(t) \/ RtWorkerDies(t) PROVE AtRisk(k)
  BY <1>9, MapRisk
<1>10. ASSUME NEW c \in Clients, RtCallFails(c) PROVE AtRisk(k)
  BY <1>10, CallFailsRisk
<1>11. CASE UNCHANGED rtVars
  <2>1. UNCHANGED <<pc, ev, seen, macCopy, inflight, count, exposure>>
    BY <1>11 DEF rtVars, vars, countVars
  <2>2. \A t \in CountTasks : UC!Cached(t, k)' = UC!Cached(t, k)
    BY <1>11 DEF rtVars, countVars, UC!Cached
  <2>. QED
    BY <2>1, <2>2, DriftSame, DriftIs, SameIsSafe
<1>. QED
  BY <1>1, <1>2, <1>3, <1>4, <1>5, <1>6, <1>7, <1>8, <1>9, <1>10, <1>11 DEF RtNext

-----------------------------------------------------------------------------
(* The accounting.                                                         *)

\* Every exact counter is within the exposure of what it should show.
Accounted == \A k : Exact(k) => Abs(Drift(k)) <= exposure

\* The inductive invariant: the accounting needs the types, that a client about
\* to commit still holds the session it read, that a debiting thread holds the
\* session it removed, and that a session's operator is one of its box.
RtInv == RtTypeOK /\ DebtorHasSession /\ ReadStillTrue /\ CopyIsOwn /\ Accounted

\* At the start every drift is zero.
LEMMA DriftInit == ASSUME RtInit, NEW k \in UC!Keys PROVE Drift(k) = 0
<1>1. [t \in CountTasks |-> UC!Cached(t, k)] = [t \in CountTasks |-> 0]
  BY DEF RtInit, UC!CountInit, UC!Cached
<1>2. [b \in MacTasks |-> Announced(b, k)] = [b \in MacTasks |-> 0]
  BY ClientKinds DEF RtInit, Init, Announced
<1>3. IsFiniteSet(CountTasks) /\ IsFiniteSet(MacTasks) /\ IsFiniteSet(CountTuple)
  BY Finiteness
<1>4. CacheSum(k) = 0
  <2>. DEFINE f == [t \in CountTasks |-> 0]
  <2>1. f \in [CountTasks -> Int] /\ \A t \in CountTasks : f[t] = 0
    OBVIOUS
  <2>2. CacheSum(k) = SumFunction(f)
    BY <1>1 DEF CacheSum
  <2>. HIDE DEF f
  <2>. QED
    BY <1>3, <2>1, <2>2, SumOfZeros
<1>5. EmitSum(k) = 0
  <2>. DEFINE f == [b \in MacTasks |-> 0]
  <2>1. f \in [MacTasks -> Int] /\ \A b \in MacTasks : f[b] = 0
    OBVIOUS
  <2>2. EmitSum(k) = SumFunction(f)
    BY <1>2 DEF EmitSum
  <2>. HIDE DEF f
  <2>. QED
    BY <1>3, <2>1, <2>2, SumOfZeros
<1>6. FlightSum(k) = 0
  <2>. DEFINE f == [u \in CountTuple |-> inflight[u] * UC!Delta(u, k)]
  <2>0. inflight \in [CountTuple -> Nat] /\ \A u \in CountTuple : inflight[u] = 0
    BY DEF RtInit
  <2>1. f \in [CountTuple -> Int] /\ \A u \in CountTuple : f[u] = 0
    <3>1. \A u \in CountTuple : inflight[u] * UC!Delta(u, k) = 0
      BY <2>0, DeltaFacts, Multiples
    <3>. QED
      BY <3>1
  <2>2. FlightSum(k) = SumFunction(f)
    BY <2>0, FlightIsWide DEF FlightSum
  <2>. HIDE DEF f
  <2>. QED
    BY <1>3, <2>1, <2>2, SumOfZeros
<1>7. Debtors(k) = {} /\ Members(k) = {}
  BY ClientKinds DEF RtInit, Init, Debtors, Owes, Members
<1>8. Cardinality({}) = 0
  BY FS_EmptySet
<1>9. count[k] = 0
  BY DEF RtInit, UC!CountInit
<1>. QED
  BY <1>4, <1>5, <1>6, <1>7, <1>8, <1>9, DriftForm

\* The types, with what a debiting thread needs, hold always.
LEMMA TypesHold == RtSpec => [](RtTypeOK /\ DebtorHasSession)
<1>1. RtInit => RtTypeOK /\ DebtorHasSession
  <2>1. Init => TypeOK
    BY MacSessionAssumption, ClientKinds DEF Init, TypeOK, MacSessionAssumption
  <2>2. RtInit => RtTypeOK
    BY <2>1 DEF RtInit, RtTypeOK, UC!CountInit
  <2>3. RtInit => DebtorHasSession
    BY ClientKinds DEF RtInit, Init, DebtorHasSession
  <2>. QED
    BY <2>2, <2>3
<1>2. RtTypeOK /\ DebtorHasSession /\ [RtNext]_rtVars => (RtTypeOK /\ DebtorHasSession)'
  BY RtTypeStep, DebtorStep, StepIsSessionStep DEF RtTypeOK
<1>. QED
  BY <1>1, <1>2, PTL DEF RtSpec

\* So Drift is an integer, always.
DriftTyped == \A k \in UC!Keys : Drift(k) \in Int

\* Drift is an integer always.
LEMMA DriftIsTyped == RtSpec => []DriftTyped
<1>1. RtTypeOK /\ DebtorHasSession => DriftTyped
  BY DriftIs DEF DriftTyped
<1>. QED
  BY <1>1, TypesHold, PTL

\* Every step keeps the accounting.
LEMMA AccountedStep ==
    ASSUME RtInv, RtTypeOK', DriftTyped', [RtNext]_rtVars
    PROVE  Accounted'
<1>. SUFFICES ASSUME NEW k, Exact(k) PROVE Abs(Drift(k)') <= exposure'
  BY DEF Accounted, Exact
<1>1. AtRisk(k)
  BY RiskCoversDrift DEF RtInv
<1>2. Abs(Drift(k)) <= exposure
  BY DEF RtInv, Accounted
<1>3. Drift(k) \in Int /\ Drift(k)' \in Int
  BY DriftIs DEF Exact, RtInv, DriftTyped
<1>4. exposure \in Nat /\ exposure' \in Nat
  BY DEF RtInv, RtTypeOK
<1>. QED
  BY <1>1, <1>2, <1>3, <1>4 DEF AtRisk, Abs

\* The inductive invariant holds always.
LEMMA RtInvHolds == RtSpec => []RtInv
<1>1. RtInit => RtInv
  <2>. SUFFICES ASSUME RtInit, RtTypeOK PROVE RtInv
    BY MacSessionAssumption, ClientKinds
       DEF RtInit, Init, TypeOK, RtTypeOK, UC!CountInit, MacSessionAssumption
  <2>1. Init /\ exposure = 0
    BY DEF RtInit
  <2>2. DebtorHasSession /\ ReadStillTrue /\ CopyIsOwn
    BY <2>1, ClientKinds DEF Init, DebtorHasSession, ReadStillTrue, CopyIsOwn
  <2>3. Accounted
    BY <2>1, DriftInit DEF Accounted, Exact, Abs
  <2>. QED
    BY <2>2, <2>3 DEF RtInv
<1>2. RtInv /\ DriftTyped' /\ [RtNext]_rtVars => RtInv'
  <2>. SUFFICES ASSUME RtInv, DriftTyped', [RtNext]_rtVars PROVE RtInv'
    OBVIOUS
  <2>1. [Next]_vars /\ TypeOK
    BY StepIsSessionStep DEF RtInv, RtTypeOK
  <2>2. RtTypeOK'
    BY RtTypeStep DEF RtInv
  <2>3. DebtorHasSession' /\ ReadStillTrue' /\ CopyIsOwn'
    BY <2>1, DebtorStep, ReadStep, OwnStep DEF RtInv
  <2>4. Accounted'
    BY <2>2, AccountedStep
  <2>. QED
    BY <2>2, <2>3, <2>4 DEF RtInv
<1>. QED
  BY <1>1, <1>2, DriftIsTyped, PTL DEF RtSpec

\* RtTypeOK: every register, map, tuple count and counter keeps its type, the
\* counters being any integers.
THEOREM RtTypeCorrect == RtSpec => []RtTypeOK
  BY TypesHold, PTL

\* TotalsAccounted: every total|channel counter and what is under way to it is
\* within the exposure of the sessions on the channel, with two writers that
\* never speak to each other and every failure of the model.
THEOREM TotalsAreAccounted == RtSpec => []TotalsAccounted
<1>1. RtInv => TotalsAccounted
  BY KeyFacts DEF RtInv, Accounted, Exact, TotalsAccounted
<1>. QED
  BY <1>1, RtInvHolds, PTL

\* PartnersAccounted: the same for every partner|partner|channel counter, as
\* long as no box reports itself under two operators: Mac2Redis debits the
\* operator of the event it handles, whatever mac|cp held.
THEOREM PartnersAreAccounted ==
    ASSUME OneOperator
    PROVE  RtSpec => []PartnersAccounted
<1>1. RtInv => PartnersAccounted
  BY KeyFacts DEF RtInv, Accounted, Exact, PartnersAccounted
<1>. QED
  BY <1>1, RtInvHolds, PTL

\* Step by step: no step moves the drift of an exact counter by more than it
\* adds to the exposure, so a step without a failure does not move it at all.
THEOREM OnlyFailuresDrift == RtSpec => [][\A k : Exact(k) => AtRisk(k)]_rtVars
<1>1. RtInv /\ RtInv' /\ [RtNext]_rtVars => \A k : Exact(k) => AtRisk(k)
  BY RiskCoversDrift DEF RtInv
<1>. QED
  BY <1>1, RtInvHolds, PTL DEF RtSpec

\* The topology as a whole implements the abstract audience under the condition
\* of the sessions alone: the counting takes nothing from it and adds nothing.
THEOREM TopologyImplementsAudience ==
    ASSUME "answer" \notin Faults
    PROVE  RtSpec => AudienceRefined
  BY TopologyRunsSessions, ImplementsAudience

\* No failure but an unheard notification, so nothing is at risk.
Undisturbed == Faults \subseteq {"notify"}

\* No step but a failure's adds to the exposure.
LEMMA NothingAtRisk ==
    ASSUME Undisturbed, exposure = 0, [RtNext]_rtVars
    PROVE  exposure' = 0
<1>. USE DEF Undisturbed
<1>1. CASE SessionStep
  BY <1>1 DEF SessionStep
<1>2. ASSUME NEW b \in MacTasks, RtEmit(b) \/ RtExecAnswerLost(b)
      PROVE  exposure' = 0
  BY <1>2 DEF RtEmit, RtExecAnswerLost, ExecAnswerLost
<1>3. ASSUME NEW t \in Threads,
             RtDecrTotal(t) \/ RtDecrPartner(t) \/ RtTriggerAnswerLost(t)
      PROVE  exposure' = 0
  BY <1>3 DEF RtDecrTotal, RtDecrPartner, RtTriggerAnswerLost, TriggerAnswerLost
<1>4. ASSUME NEW u \in CountTuple, Deliver(u) \/ TupleFails(u)
      PROVE  exposure' = 0
  BY <1>4 DEF Deliver, TupleFails
<1>5. ASSUME NEW t \in CountTasks, FlushStep(t) \/ RtFlushFails(t) \/ RtWorkerDies(t)
      PROVE  exposure' = 0
  BY <1>5 DEF FlushStep, RtFlushFails, RtWorkerDies
<1>6. ASSUME NEW c \in Clients, RtCallFails(c)
      PROVE  exposure' = 0
  BY <1>6 DEF RtCallFails, CallFails
<1>7. CASE UNCHANGED rtVars
  BY <1>7 DEF rtVars
<1>. QED
  BY <1>1, <1>2, <1>3, <1>4, <1>5, <1>6, <1>7 DEF RtNext

\* What the page shows: in a topology without failures, a counter to which
\* nothing is under way is the number of boxes whose mac|cp names its key,
\* however bolts, trigger threads and flushes were interleaved, and even when
\* expiries go unheard.
THEOREM PageShowsAudience ==
    ASSUME Undisturbed
    PROVE  RtSpec => [](\A k : Exact(k) /\ Pending(k) = 0 => count[k] = Audience(k))
<1>. DEFINE Shown == \A k : Exact(k) /\ Pending(k) = 0 => count[k] = Audience(k)
<1>1. RtInit => exposure = 0
  BY DEF RtInit
<1>2. exposure = 0 /\ [RtNext]_rtVars => (exposure = 0)'
  BY NothingAtRisk
<1>3. RtInv /\ exposure = 0 => Shown
  <2>. SUFFICES ASSUME RtInv, exposure = 0, NEW k, Exact(k), Pending(k) = 0
                PROVE  count[k] = Audience(k)
    OBVIOUS
  <2>1. Abs(Drift(k)) <= 0
    BY DEF RtInv, Accounted
  <2>2. Drift(k) \in Int
    BY DriftIs DEF Exact, RtInv
  <2>3. Drift(k) = 0
    BY <2>1, <2>2 DEF Abs
  <2>4. count[k] \in Int /\ Audience(k) \in Int
    BY DriftIs DEF Exact, RtInv, Audience
  <2>. QED
    BY <2>3, <2>4 DEF Drift
<1>. QED
  BY <1>1, <1>2, <1>3, RtInvHolds, PTL DEF RtSpec
=============================================================================
