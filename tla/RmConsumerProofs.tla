-------------------------- MODULE RmConsumerProofs --------------------------
(***************************************************************************)
(* The types and the accounting of RmConsumer, for any number of partners  *)
(* and messages, any capacity and pool, and any failures.                  *)
(***************************************************************************)
EXTENDS RmConsumer, FiniteSetTheorems, TLAPS

\* What main has not got round to is off.
Untouched ==
    /\ main = "consumer" => next <= Len(StartOrder)
    /\ \A i \in next .. Len(StartOrder) :
          /\ cpc[StartOrder[i]] = "off"
          /\ i = next => main \in {"consumer", "threw"}
                \/ \A k \in Kinds : tpc[<<StartOrder[i], k>>] = "off"
          /\ i > next => \A k \in Kinds : tpc[<<StartOrder[i], k>>] = "off"

Types == RmTypeOK /\ Untouched

LEMMA StartOrderType ==
    /\ Len(StartOrder) \in Nat
    /\ \A i \in 1 .. Len(StartOrder) : StartOrder[i] \in Partners
  BY RmConsumerAssumption

\* Sequences of messages stay such, and what is at their head is one.
LEMMA SeqTypes ==
    ASSUME NEW s \in Seq(Msgs)
    PROVE  /\ Len(s) \in Nat
           /\ \A m \in Msgs : Append(s, m) \in Seq(Msgs) /\ Len(Append(s, m)) = Len(s) + 1
           /\ s # <<>> => /\ Head(s) \in Msgs /\ Tail(s) \in Seq(Msgs)
                          /\ Len(Tail(s)) = Len(s) - 1
  OBVIOUS

LEMMA TypesInit == Init => Types
<1> SUFFICES ASSUME Init PROVE Types
  OBVIOUS
<1>1. RmTypeOK
  BY StartOrderType, RmConsumerAssumption DEF Init, Empty, RmTypeOK, Timers, Fates
<1>2. Untouched
  BY StartOrderType DEF Init, Empty, Untouched, Timers
<1> QED
  BY <1>1, <1>2 DEF Types

\* A step that leaves main alone and starts nothing.
LEMMA UntouchedStays ==
    ASSUME Types, UNCHANGED <<main, next>>,
           \A p \in Partners : cpc[p] = "off" => cpc'[p] = "off",
           \A t \in Timers : tpc[t] = "off" => tpc'[t] = "off"
    PROVE  Untouched'
<1>1. \A i \in next .. Len(StartOrder) :
         StartOrder[i] \in Partners /\ \A k \in Kinds : <<StartOrder[i], k>> \in Timers
  BY StartOrderType DEF Types, RmTypeOK, Timers
<1> QED
  BY <1>1 DEF Types, Untouched

LEMMA PublishTypes ==
    ASSUME Types, NEW m \in Msgs, Publish(m)
    PROVE  Types'
<1>1. broker' \in [Partners -> Seq(Msgs)]
  BY SeqTypes, RmConsumerAssumption DEF Types, RmTypeOK, Publish
<1>2. fate' \in [Msgs -> Fates]
  BY DEF Types, RmTypeOK, Publish, Fates
<1>3. Untouched'
  BY UntouchedStays DEF Publish, inMemory
<1> QED
  BY <1>1, <1>2, <1>3 DEF Types, RmTypeOK, Publish, inMemory

LEMMA MainTypes ==
    ASSUME Types, MainStep
    PROVE  Types'
<1> USE DEF Types, RmTypeOK
<1>s. Len(StartOrder) \in Nat /\ \A i \in 1 .. Len(StartOrder) : StartOrder[i] \in Partners
  BY StartOrderType
<1>d. \A i, j \in 1 .. Len(StartOrder) : i # j => StartOrder[i] # StartOrder[j]
  BY RmConsumerAssumption
<1>1. CASE StartTimers
  <2>1. next \in 1 .. Len(StartOrder) /\ Here \in Partners /\ Here = StartOrder[next]
    BY <1>1, <1>s DEF StartTimers, Here
  <2>2. \A k \in Kinds : tpc[<<Here, k>>] = "off"
    BY <1>1, <2>1, <1>s DEF StartTimers, Untouched
  <2>3. \A t \in Timers : t[1] = Here => tpc[t] = "off"
    BY <2>2 DEF Timers
  <2>4. /\ tpc' \in [Timers -> {"off", "idle", "get", "offer", "put"}]
        /\ \A t \in Timers : tpc'[t] = IF t[1] = Here THEN "idle" ELSE tpc[t]
    BY <1>1 DEF StartTimers
  <2>5. \A t \in Timers : fetched[t] # NoMsg <=> tpc'[t] \in {"offer", "put"}
    BY <2>3, <2>4
  <2>6. Untouched'
    <3>1. \A i \in next .. Len(StartOrder), k \in Kinds : <<StartOrder[i], k>> \in Timers
      BY <1>s DEF Timers
    <3>2. \A i \in next .. Len(StartOrder) : i > next => StartOrder[i] # Here
      BY <1>d, <2>1, <1>s
    <3> QED
      BY <1>1, <2>1, <2>4, <3>1, <3>2 DEF StartTimers, Untouched
  <2> QED
    BY <1>1, <2>4, <2>5, <2>6 DEF StartTimers
<1>2. CASE StartConsumer
  <2>1. next \in 1 .. Len(StartOrder) /\ Here \in Partners /\ Here = StartOrder[next]
    BY <1>2, <1>s DEF StartConsumer, Here, Untouched
  <2>2. cpc[Here] = "off"
    BY <2>1, <1>s DEF Untouched
  <2>3. PICK s \in {"poll", "queued"} : cpc' = [cpc EXCEPT ![Here] = s]
    BY <1>2 DEF StartConsumer
  <2>4. \A p \in Partners : cpc'[p] = IF p = Here THEN s ELSE cpc[p]
    BY <2>1, <2>3
  <2>5. \A p \in Partners : mac[p] = NoMsg <=> cpc'[p] \in {"off", "queued", "poll"}
    BY <2>2, <2>4
  <2>6. next' \in 1 .. Len(StartOrder) + 1 /\ next' = next + 1
    BY <1>2, <2>1, <1>s DEF StartConsumer
  <2>7. Untouched'
    <3>1. \A i \in next' .. Len(StartOrder) :
             /\ i \in next .. Len(StartOrder) /\ i > next
             /\ StartOrder[i] # Here /\ StartOrder[i] \in Partners
      BY <1>d, <2>1, <2>6, <1>s
    <3>2. main' = "timers" /\ UNCHANGED tpc
      BY <1>2 DEF StartConsumer
    <3> QED
      BY <2>4, <3>1, <3>2 DEF Untouched
  <2> QED
    BY <1>2, <2>3, <2>5, <2>6, <2>7 DEF StartConsumer
<1>3. CASE StartThrows
  BY <1>3 DEF StartThrows, Untouched
<1> QED
  BY <1>1, <1>2, <1>3 DEF MainStep

LEMMA TimerTypes ==
    ASSUME Types, NEW t \in Timers, TimerStep(t) \/ CountBreaks(t) \/ GetBreaks(t)
    PROVE  Types'
<1> USE DEF Types, RmTypeOK
<1>p. t[1] \in Partners
  BY DEF Timers
<1>b. broker[t[1]] \in Seq(Msgs) /\ queue[t[1]] \in Seq(Msgs)
  BY <1>p
<1>0. ASSUME UNCHANGED <<main, next, cpc>>, tpc[t] # "off",
             NEW s, tpc' = [tpc EXCEPT ![t] = s] \/ UNCHANGED tpc
      PROVE  Untouched'
  BY <1>0, UntouchedStays
<1>1. CASE Count(t)
  BY <1>1, <1>0, <1>b, SeqTypes DEF Count
<1>2. CASE Get(t)
  <2>1. /\ Head(broker[t[1]]) \in Msgs
        /\ broker' \in [Partners -> Seq(Msgs)]
        /\ left[t] - 1 \in Nat
    <3>1. /\ broker[t[1]] # <<>> /\ left[t] > 0 /\ left[t] \in Nat
          /\ broker' = [broker EXCEPT ![t[1]] = Tail(broker[t[1]])]
      BY <1>2 DEF Get
    <3>2. Head(broker[t[1]]) \in Msgs /\ Tail(broker[t[1]]) \in Seq(Msgs)
      BY <3>1, <1>b, SeqTypes
    <3> QED
      BY <3>1, <3>2, <1>p
  <2>2. Untouched'
    BY <1>2, <1>0 DEF Get
  <2>3. /\ tpc' = [tpc EXCEPT ![t] = "offer"]
        /\ fetched' = [fetched EXCEPT ![t] = Head(broker[t[1]])]
        /\ left' = [left EXCEPT ![t] = @ - 1]
        /\ UNCHANGED <<channelOpen, main, next, queue, cpc, mac, fate, crashes>>
    BY <1>2 DEF Get
  <2>4. \A u \in Timers : fetched'[u] # NoMsg <=> tpc'[u] \in {"offer", "put"}
    BY <2>1, <2>3, RmConsumerAssumption
  <2> QED
    BY <2>1, <2>2, <2>3, <2>4
<1>3. CASE GetEnds(t)
  BY <1>3, <1>0 DEF GetEnds
<1>4. CASE Offer(t)
  <2>1. fetched[t] \in Msgs /\ Len(queue[t[1]]) < Capacity
    BY <1>4, <1>b, SeqTypes, RmConsumerAssumption DEF Offer, Enqueue, Full
  <2>2. queue' = [queue EXCEPT ![t[1]] = Append(@, fetched[t])]
    BY <1>4 DEF Offer, Enqueue
  <2>3. /\ queue' \in [Partners -> Seq(Msgs)]
        /\ \A p \in Partners : Len(queue'[p]) <= Capacity
    <3>1. /\ Append(queue[t[1]], fetched[t]) \in Seq(Msgs)
          /\ Len(Append(queue[t[1]], fetched[t])) <= Capacity
      BY <2>1, <1>b, SeqTypes, RmConsumerAssumption
    <3> QED
      BY <2>2, <3>1, <1>p
  <2> QED
    BY <1>4, <1>0, <2>3 DEF Offer, Enqueue
<1>5. CASE OfferFails(t)
  BY <1>5, <1>0 DEF OfferFails
<1>6. CASE Put(t)
  <2>1. fetched[t] \in Msgs /\ Len(queue[t[1]]) < Capacity
    BY <1>6, <1>b, SeqTypes, RmConsumerAssumption DEF Put, Enqueue, Full
  <2>2. queue' = [queue EXCEPT ![t[1]] = Append(@, fetched[t])]
    BY <1>6 DEF Put, Enqueue
  <2>3. /\ queue' \in [Partners -> Seq(Msgs)]
        /\ \A p \in Partners : Len(queue'[p]) <= Capacity
    <3>1. /\ Append(queue[t[1]], fetched[t]) \in Seq(Msgs)
          /\ Len(Append(queue[t[1]], fetched[t])) <= Capacity
      BY <2>1, <1>b, SeqTypes, RmConsumerAssumption
    <3> QED
      BY <2>2, <3>1, <1>p
  <2> QED
    BY <1>6, <1>0, <2>3 DEF Put, Enqueue
<1>7. CASE CountBreaks(t)
  BY <1>7, <1>0 DEF CountBreaks, inMemory
<1>8. CASE GetBreaks(t)
  BY <1>8, <1>0, <1>b, SeqTypes DEF GetBreaks, inMemory, Fates
<1> QED
  BY <1>1, <1>2, <1>3, <1>4, <1>5, <1>6, <1>7, <1>8 DEF TimerStep

LEMMA ConsumerTypes ==
    ASSUME Types, NEW p \in Partners, ConsumerStep(p)
    PROVE  Types'
<1> USE DEF Types, RmTypeOK, Goto
<1>0. ASSUME UNCHANGED <<main, next, tpc>>, cpc[p] # "off",
             NEW s, cpc' = [cpc EXCEPT ![p] = s]
      PROVE  Untouched'
  BY <1>0, UntouchedStays
<1>1. CASE Poll(p)
  <2>1. queue[p] \in Seq(Msgs)
    OBVIOUS
  <2>2. /\ queue' \in [Partners -> Seq(Msgs)]
        /\ \A q \in Partners : Len(queue'[q]) <= Capacity
        /\ Head(queue[p]) \in Msgs
    BY <1>1, <2>1, SeqTypes, RmConsumerAssumption DEF Poll
  <2> QED
    BY <1>1, <1>0, <2>2, RmConsumerAssumption DEF Poll
<1>2. CASE Query(p)
  BY <1>2, <1>0 DEF Query
<1>3. CASE Store(p)
  BY <1>3, <1>0 DEF Store, Settle, Fates
<1>4. CASE StoreFails(p)
  BY <1>4, <1>0 DEF StoreFails, Settle, Fates
<1> QED
  BY <1>1, <1>2, <1>3, <1>4 DEF ConsumerStep

LEMMA ProcessTypes ==
    ASSUME Types, Crash \/ Restart
    PROVE  Types'
<1> USE DEF Types, RmTypeOK
<1>1. CASE Crash
  <2>1. Untouched'
    BY <1>1, StartOrderType DEF Crash, Untouched, Timers
  <2>2. fate' \in [Msgs -> Fates]
    BY <1>1 DEF Crash, Fates
  <2>3. /\ crashes' \in 0 .. MaxCrashes
        /\ next' \in 1 .. Len(StartOrder) + 1
        /\ main' = "down"
    BY <1>1, StartOrderType, RmConsumerAssumption DEF Crash
  <2>4. /\ UNCHANGED <<broker, channelOpen>>
        /\ tpc' = [u \in Timers |-> "off"] /\ left' = [u \in Timers |-> 0]
        /\ fetched' = [u \in Timers |-> NoMsg]
        /\ queue' = [q \in Partners |-> <<>>]
        /\ cpc' = [q \in Partners |-> "off"] /\ mac' = [q \in Partners |-> NoMsg]
    BY <1>1 DEF Crash
  <2> QED
    BY <2>1, <2>2, <2>3, <2>4, RmConsumerAssumption
<1>2. CASE Restart
  BY <1>2 DEF Restart, Untouched
<1> QED
  BY <1>1, <1>2

LEMMA TypesStep ==
    ASSUME Types, [Next]_vars
    PROVE  Types'
<1>1. CASE UNCHANGED vars
  BY <1>1 DEF vars, inMemory, Types, RmTypeOK, Untouched
<1> QED
  BY <1>1, PublishTypes, MainTypes, TimerTypes, ConsumerTypes, ProcessTypes DEF Next

\* The types hold in every reachable state.
THEOREM RmTypeCorrect == Spec => []RmTypeOK
<1>1. Spec => []Types
  BY TypesInit, TypesStep, PTL DEF Spec
<1>2. Types => RmTypeOK
  BY DEF Types
<1> QED
  BY <1>1, <1>2, PTL

-----------------------------------------------------------------------------
(* Every message is in one place.                                          *)

Has(s, m) == \E i \in 1 .. Len(s) : s[i] = m
Inj(s) == \A i, j \in 1 .. Len(s) : s[i] = s[j] => i = j

InBroker(m) == Has(broker[PartnerOf[m]], m)
InQueue(m) == Has(queue[PartnerOf[m]], m)
Fetched(m) == \E t \in Timers : fetched[t] = m
Taken(m) == mac[PartnerOf[m]] = m

\* Partners keep to their own messages.
Own ==
    /\ \A p \in Partners, m \in Msgs :
          Has(broker[p], m) \/ Has(queue[p], m) \/ mac[p] = m => PartnerOf[m] = p
    /\ \A t \in Timers : fetched[t] # NoMsg => PartnerOf[fetched[t]] = t[1]

\* Nothing is twice in one kind of place, nor in two kinds.
Once ==
    /\ \A p \in Partners : Inj(broker[p]) /\ Inj(queue[p])
    /\ \A t, u \in Timers : fetched[t] = fetched[u] /\ fetched[t] # NoMsg => t = u
    /\ \A m \in Msgs :
          /\ InBroker(m) => ~InQueue(m) /\ ~Fetched(m) /\ ~Taken(m)
          /\ InQueue(m) => ~Fetched(m) /\ ~Taken(m)
          /\ Fetched(m) => ~Taken(m)
          /\ fate[m] = "open" <=> InBroker(m) \/ InQueue(m) \/ Fetched(m) \/ Taken(m)

LEMMA OneOrNone ==
    ASSUME NEW S, \A x, y \in S : x = y
    PROVE  Cardinality(S) = IF S = {} THEN 0 ELSE 1
<1>1. CASE S = {}
  BY <1>1, FS_EmptySet
<1>2. CASE S # {}
  <2>1. PICK x \in S : S = {x}
    BY <1>2
  <2> QED
    BY <1>2, <2>1, FS_Singleton
<1> QED
  BY <1>1, <1>2

LEMMA OnceIsEnough == Types /\ Own /\ Once => EachMessageOnce
<1> SUFFICES ASSUME Types, Own, Once, NEW m \in Msgs
             PROVE  Places(m) = IF fate[m] = "open" THEN 1 ELSE 0
  BY DEF EachMessageOnce
<1> DEFINE p == PartnerOf[m]
           B == {i \in 1 .. Len(broker[p]) : broker[p][i] = m}
           Q == {i \in 1 .. Len(queue[p]) : queue[p][i] = m}
           F == {t \in Timers : fetched[t] = m}
           M == {q \in Partners : mac[q] = m}
<1>p. p \in Partners /\ m # NoMsg
  BY RmConsumerAssumption
<1>1. /\ Cardinality(B) = IF B = {} THEN 0 ELSE 1
      /\ B = {} <=> ~InBroker(m)
  <2>1. \A i, j \in B : i = j
    BY <1>p DEF Once, Inj
  <2> QED
    BY <2>1, OneOrNone DEF InBroker, Has
<1>2. /\ Cardinality(Q) = IF Q = {} THEN 0 ELSE 1
      /\ Q = {} <=> ~InQueue(m)
  <2>1. \A i, j \in Q : i = j
    BY <1>p DEF Once, Inj
  <2> QED
    BY <2>1, OneOrNone DEF InQueue, Has
<1>3. /\ Cardinality(F) = IF F = {} THEN 0 ELSE 1
      /\ F = {} <=> ~Fetched(m)
  <2>1. \A t, u \in F : t = u
    BY <1>p DEF Once
  <2> QED
    BY <2>1, OneOrNone DEF Fetched
<1>4. /\ Cardinality(M) = IF M = {} THEN 0 ELSE 1
      /\ M = {} <=> ~Taken(m)
  <2>1. \A q, r \in M : q = r
    BY DEF Own
  <2> QED
    BY <1>p, <2>1, OneOrNone DEF Taken, Own
<1>5. Places(m) = Cardinality(B) + Cardinality(Q) + Cardinality(F) + Cardinality(M)
  BY DEF Places
<1> HIDE DEF B, Q, F, M
<1> QED
  BY <1>1, <1>2, <1>3, <1>4, <1>5 DEF Once

LEMMA AtTheEnd ==
    ASSUME NEW s \in Seq(Msgs), NEW m \in Msgs
    PROVE  /\ \A n : Has(Append(s, m), n) <=> Has(s, n) \/ n = m
           /\ Inj(s) /\ ~Has(s, m) => Inj(Append(s, m))
<1>1. /\ Len(Append(s, m)) = Len(s) + 1 /\ Len(s) \in Nat
      /\ Append(s, m)[Len(s) + 1] = m
      /\ \A i \in 1 .. Len(s) : Append(s, m)[i] = s[i]
  OBVIOUS
<1>2. 1 .. Len(s) + 1 = (1 .. Len(s)) \cup {Len(s) + 1}
  BY <1>1
<1> QED
  BY <1>1, <1>2 DEF Has, Inj

LEMMA AtTheHead ==
    ASSUME NEW s \in Seq(Msgs), s # <<>>
    PROVE  /\ \A n : Has(s, n) <=> Has(Tail(s), n) \/ n = Head(s)
           /\ Inj(s) => Inj(Tail(s)) /\ ~Has(Tail(s), Head(s))
<1>1. /\ Len(s) \in Nat \ {0} /\ Len(Tail(s)) = Len(s) - 1 /\ Head(s) = s[1]
      /\ \A i \in 1 .. Len(s) - 1 : Tail(s)[i] = s[i + 1]
  OBVIOUS
<1>2. \A i \in 1 .. Len(s) - 1 : i + 1 \in 1 .. Len(s) /\ i + 1 # 1
  BY <1>1
<1>3. \A j \in 1 .. Len(s) : j = 1 \/ (j - 1 \in 1 .. Len(s) - 1 /\ (j - 1) + 1 = j)
  BY <1>1
<1>4. ASSUME NEW n PROVE Has(s, n) <=> Has(Tail(s), n) \/ n = Head(s)
  <2>1. ASSUME NEW j \in 1 .. Len(s), s[j] = n PROVE Has(Tail(s), n) \/ n = Head(s)
    BY <2>1, <1>1, <1>3 DEF Has
  <2>2. ASSUME NEW i \in 1 .. Len(s) - 1, Tail(s)[i] = n PROVE Has(s, n)
    BY <2>2, <1>1, <1>2 DEF Has
  <2>3. Has(s, Head(s))
    BY <1>1 DEF Has
  <2> QED
    BY <1>1, <2>1, <2>2, <2>3 DEF Has
<1>5. ASSUME Inj(s) PROVE Inj(Tail(s)) /\ ~Has(Tail(s), Head(s))
  <2>1. ASSUME NEW i \in 1 .. Len(s) - 1, NEW j \in 1 .. Len(s) - 1,
               Tail(s)[i] = Tail(s)[j]
        PROVE  i = j
    <3>1. s[i + 1] = s[j + 1]
      BY <1>1, <2>1
    <3>2. i + 1 = j + 1
      BY <1>2, <1>5, <3>1 DEF Inj
    <3> QED
      BY <3>2
  <2>2. ASSUME NEW i \in 1 .. Len(s) - 1, Tail(s)[i] = Head(s) PROVE FALSE
    BY <1>1, <1>2, <1>5, <2>2 DEF Inj
  <2> QED
    BY <1>1, <2>1, <2>2 DEF Inj, Has
<1> QED
  BY <1>4, <1>5

LEMMA OnceInit == Init => Own /\ Once
<1> SUFFICES ASSUME Init PROVE Own /\ Once
  OBVIOUS
<1>1. \A m : ~Has(<<>>, m)
  BY DEF Has
<1>2. Inj(<<>>)
  BY DEF Inj
<1> QED
  BY <1>1, <1>2, RmConsumerAssumption DEF Init, Empty, Own, Once, InBroker, InQueue, Fetched,
     Taken

\* Message m is taken from RabbitMQ.
LEMMA LeavesBroker ==
    ASSUME Types, Own, Once, NEW p \in Partners, broker[p] # <<>>,
           NEW m, m = Head(broker[p]),
           broker' = [broker EXCEPT ![p] = Tail(@)], UNCHANGED queue
    PROVE  /\ m \in Msgs /\ PartnerOf[m] = p
           /\ InBroker(m) /\ ~InBroker(m)'
           /\ \A q \in Partners : Inj(broker'[q])
           /\ \A q \in Partners, n \in Msgs : Has(broker'[q], n) => Has(broker[q], n)
           /\ \A n \in Msgs \ {m} : InBroker(n)' <=> InBroker(n)
           /\ \A n \in Msgs : InQueue(n)' <=> InQueue(n)
<1>1. broker[p] \in Seq(Msgs) /\ broker \in [Partners -> Seq(Msgs)]
  BY DEF Types, RmTypeOK
<1>2. m \in Msgs
  BY <1>1, SeqTypes
<1>3. /\ \A n : Has(broker[p], n) <=> Has(Tail(broker[p]), n) \/ n = m
      /\ Inj(Tail(broker[p])) /\ ~Has(Tail(broker[p]), m)
  BY <1>1, AtTheHead DEF Once
<1>4. \A q \in Partners : broker'[q] = IF q = p THEN Tail(broker[p]) ELSE broker[q]
  BY <1>1
<1>5. PartnerOf[m] = p
  BY <1>2, <1>3 DEF Own
<1>6. \A n \in Msgs : PartnerOf[n] \in Partners
  BY RmConsumerAssumption
<1>7. ~Has(broker'[p], m) /\ Has(broker[p], m)
  BY <1>3, <1>4
<1>8. \A q \in Partners, n \in Msgs : n # m => (Has(broker'[q], n) <=> Has(broker[q], n))
  BY <1>3, <1>4
<1>9. \A q \in Partners : Inj(broker'[q])
  BY <1>3, <1>4 DEF Once
<1>10. \A q \in Partners, n \in Msgs : Has(broker'[q], n) => Has(broker[q], n)
  BY <1>3, <1>4
<1> QED
  BY <1>2, <1>5, <1>6, <1>7, <1>8, <1>9, <1>10 DEF InBroker, InQueue

\* Message m is taken from the queue in memory.
LEMMA LeavesQueue ==
    ASSUME Types, Own, Once, NEW p \in Partners, queue[p] # <<>>,
           NEW m, m = Head(queue[p]),
           queue' = [queue EXCEPT ![p] = Tail(@)], UNCHANGED broker
    PROVE  /\ m \in Msgs /\ PartnerOf[m] = p
           /\ InQueue(m) /\ ~InQueue(m)'
           /\ \A q \in Partners : Inj(queue'[q])
           /\ \A q \in Partners, n \in Msgs : Has(queue'[q], n) => Has(queue[q], n)
           /\ \A n \in Msgs \ {m} : InQueue(n)' <=> InQueue(n)
           /\ \A n \in Msgs : InBroker(n)' <=> InBroker(n)
<1>1. queue[p] \in Seq(Msgs) /\ queue \in [Partners -> Seq(Msgs)]
  BY DEF Types, RmTypeOK
<1>2. m \in Msgs
  BY <1>1, SeqTypes
<1>3. /\ \A n : Has(queue[p], n) <=> Has(Tail(queue[p]), n) \/ n = m
      /\ Inj(Tail(queue[p])) /\ ~Has(Tail(queue[p]), m)
  BY <1>1, AtTheHead DEF Once
<1>4. \A q \in Partners : queue'[q] = IF q = p THEN Tail(queue[p]) ELSE queue[q]
  BY <1>1
<1>5. PartnerOf[m] = p
  BY <1>2, <1>3 DEF Own
<1>6. \A n \in Msgs : PartnerOf[n] \in Partners
  BY RmConsumerAssumption
<1>7. ~Has(queue'[p], m) /\ Has(queue[p], m)
  BY <1>3, <1>4
<1>8. \A q \in Partners, n \in Msgs : n # m => (Has(queue'[q], n) <=> Has(queue[q], n))
  BY <1>3, <1>4
<1>9. \A q \in Partners : Inj(queue'[q])
  BY <1>3, <1>4 DEF Once
<1>10. \A q \in Partners, n \in Msgs : Has(queue'[q], n) => Has(queue[q], n)
  BY <1>3, <1>4
<1> QED
  BY <1>2, <1>5, <1>6, <1>7, <1>8, <1>9, <1>10 DEF InBroker, InQueue

\* Steps that move no message.
LEMMA OnceStays ==
    ASSUME Own, Once, UNCHANGED <<broker, queue, fetched, mac, fate>>
    PROVE  Own' /\ Once'
  BY DEF Own, Once, InBroker, InQueue, Fetched, Taken

LEMMA PublishOnce ==
    ASSUME Types, Own, Once, NEW m \in Msgs, Publish(m)
    PROVE  Own' /\ Once'
<1> DEFINE p == PartnerOf[m]
<1>1. p \in Partners /\ broker[p] \in Seq(Msgs) /\ \A n \in Msgs : PartnerOf[n] \in Partners
  BY RmConsumerAssumption DEF Types, RmTypeOK
<1>2. /\ UNCHANGED <<queue, fetched, mac>>
      /\ \A q \in Partners : broker'[q] = IF q = p THEN Append(broker[p], m) ELSE broker[q]
      /\ \A n \in Msgs : fate'[n] = IF n = m THEN "open" ELSE fate[n]
  BY DEF Publish, inMemory, Types, RmTypeOK
<1>3. ~InBroker(m) /\ ~InQueue(m) /\ ~Fetched(m) /\ ~Taken(m)
  BY DEF Publish, Once
<1>4. /\ \A n : Has(broker'[p], n) <=> Has(broker[p], n) \/ n = m
      /\ Inj(broker'[p])
  BY <1>1, <1>2, <1>3, AtTheEnd DEF Once, InBroker
<1>5. Own'
  BY <1>2, <1>4 DEF Own
<1>6. \A n \in Msgs : /\ InBroker(n)' <=> InBroker(n) \/ n = m
                      /\ InQueue(n)' <=> InQueue(n)
                      /\ Fetched(n)' <=> Fetched(n)
                      /\ Taken(n)' <=> Taken(n)
  BY <1>1, <1>2, <1>4 DEF InBroker, InQueue, Fetched, Taken
<1>7. /\ \A q \in Partners : Inj(broker'[q]) /\ Inj(queue'[q])
      /\ \A t, u \in Timers : fetched'[t] = fetched'[u] /\ fetched'[t] # NoMsg => t = u
  BY <1>2, <1>4 DEF Once
<1>8. \A n \in Msgs :
          /\ InBroker(n)' => ~InQueue(n)' /\ ~Fetched(n)' /\ ~Taken(n)'
          /\ InQueue(n)' => ~Fetched(n)' /\ ~Taken(n)'
          /\ Fetched(n)' => ~Taken(n)'
          /\ fate'[n] = "open" <=> InBroker(n)' \/ InQueue(n)' \/ Fetched(n)' \/ Taken(n)'
  BY <1>2, <1>3, <1>6 DEF Once
<1> QED
  BY <1>5, <1>7, <1>8 DEF Once

LEMMA GetOnce ==
    ASSUME Types, Own, Once, NEW t \in Timers, Get(t) \/ GetBreaks(t)
    PROVE  Own' /\ Once'
<1>p. t[1] \in Partners /\ fetched[t] = NoMsg /\ fetched \in [Timers -> Msgs \cup {NoMsg}]
  BY DEF Timers, Get, GetBreaks, Types, RmTypeOK
<1>1. PICK m : m = Head(broker[t[1]])
  OBVIOUS
<1>2. broker[t[1]] # <<>> /\ broker' = [broker EXCEPT ![t[1]] = Tail(@)]
      /\ UNCHANGED <<queue, mac>>
  BY DEF Get, GetBreaks, inMemory
<1>3. /\ m \in Msgs /\ PartnerOf[m] = t[1] /\ m # NoMsg
      /\ InBroker(m) /\ ~InBroker(m)'
      /\ \A q \in Partners : Inj(broker'[q])
      /\ \A q \in Partners, n \in Msgs : Has(broker'[q], n) => Has(broker[q], n)
      /\ \A n \in Msgs \ {m} : InBroker(n)' <=> InBroker(n)
      /\ \A n \in Msgs : InQueue(n)' <=> InQueue(n)
  BY <1>p, <1>1, <1>2, LeavesBroker, RmConsumerAssumption
<1>4. \A n \in Msgs : Taken(n)' <=> Taken(n)
  BY <1>2 DEF Taken
<1>5. ~InQueue(m) /\ ~Fetched(m) /\ ~Taken(m) /\ fate[m] = "open"
  BY <1>3 DEF Once
<1>6. CASE Get(t)
  <2>1. UNCHANGED fate /\ \A u \in Timers : fetched'[u] = IF u = t THEN m ELSE fetched[u]
    BY <1>p, <1>1, <1>6 DEF Get
  <2>2. Own'
    BY <1>2, <1>3, <2>1 DEF Own
  <2>3. \A n \in Msgs : Fetched(n)' <=> Fetched(n) \/ n = m
    BY <1>p, <2>1, RmConsumerAssumption DEF Fetched
  <2>4. \A u, v \in Timers : fetched'[u] = fetched'[v] /\ fetched'[u] # NoMsg => u = v
    BY <1>5, <2>1 DEF Once, Fetched
  <2> QED
    BY <1>2, <1>3, <1>4, <1>5, <2>1, <2>2, <2>3, <2>4 DEF Once
<1>7. CASE GetBreaks(t)
  <2>1. UNCHANGED fetched /\ \A n \in Msgs : fate'[n] = IF n = m THEN "lost" ELSE fate[n]
    BY <1>1, <1>7 DEF GetBreaks, inMemory, Types, RmTypeOK
  <2>2. Own'
    BY <1>2, <1>3, <2>1 DEF Own
  <2>3. \A n \in Msgs : Fetched(n)' <=> Fetched(n)
    BY <2>1 DEF Fetched
  <2>4. \A u, v \in Timers : fetched'[u] = fetched'[v] /\ fetched'[u] # NoMsg => u = v
    BY <2>1 DEF Once
  <2> QED
    BY <1>2, <1>3, <1>4, <1>5, <2>1, <2>2, <2>3, <2>4 DEF Once
<1> QED
  BY <1>6, <1>7

LEMMA EnqueueOnce ==
    ASSUME Types, Own, Once, NEW t \in Timers, NEW s, tpc[t] \in {"offer", "put"},
           Enqueue(t, s), UNCHANGED <<broker, mac, fate>>
    PROVE  Own' /\ Once'
<1>1. PICK m : m = fetched[t]
  OBVIOUS
<1>2. /\ t[1] \in Partners /\ m \in Msgs /\ m # NoMsg /\ PartnerOf[m] = t[1]
      /\ queue[t[1]] \in Seq(Msgs) /\ \A n \in Msgs : PartnerOf[n] \in Partners
  BY <1>1, RmConsumerAssumption DEF Timers, Types, RmTypeOK, Own
<1>3. /\ \A q \in Partners :
            queue'[q] = IF q = t[1] THEN Append(queue[t[1]], m) ELSE queue[q]
      /\ \A u \in Timers : fetched'[u] = IF u = t THEN NoMsg ELSE fetched[u]
  BY <1>1, <1>2 DEF Enqueue, Types, RmTypeOK
<1>4. Fetched(m)
  BY <1>1 DEF Fetched
<1>5. ~InBroker(m) /\ ~InQueue(m) /\ ~Taken(m) /\ fate[m] = "open"
  BY <1>2, <1>4 DEF Once
<1>6. /\ \A n : Has(queue'[t[1]], n) <=> Has(queue[t[1]], n) \/ n = m
      /\ Inj(queue'[t[1]])
  BY <1>2, <1>3, <1>5, AtTheEnd DEF Once, InQueue
<1>7. Own'
  BY <1>2, <1>3, <1>6 DEF Own
<1>8. \A n \in Msgs : /\ InBroker(n)' <=> InBroker(n)
                      /\ InQueue(n)' <=> InQueue(n) \/ n = m
                      /\ Taken(n)' <=> Taken(n)
  BY <1>2, <1>3, <1>6 DEF InBroker, InQueue, Taken
<1>9. \A n \in Msgs : Fetched(n)' <=> Fetched(n) /\ n # m
  <2>1. \A u \in Timers : fetched[u] = m => u = t
    BY <1>1, <1>2 DEF Once
  <2> QED
    BY <1>1, <1>3, <2>1, RmConsumerAssumption DEF Fetched
<1>10. /\ \A q \in Partners : Inj(broker'[q]) /\ Inj(queue'[q])
       /\ \A u, v \in Timers : fetched'[u] = fetched'[v] /\ fetched'[u] # NoMsg => u = v
  BY <1>3, <1>6 DEF Once
<1> QED
  BY <1>5, <1>7, <1>8, <1>9, <1>10 DEF Once

LEMMA ConsumerOnce ==
    ASSUME Types, Own, Once, NEW p \in Partners, ConsumerStep(p)
    PROVE  Own' /\ Once'
<1>t. /\ mac \in [Partners -> Msgs \cup {NoMsg}] /\ fate \in [Msgs -> Fates]
      /\ \A n \in Msgs : PartnerOf[n] \in Partners /\ n # NoMsg
  BY RmConsumerAssumption DEF Types, RmTypeOK
<1>1. CASE Poll(p)
  <2>1. PICK m : m = Head(queue[p])
    OBVIOUS
  <2>2. /\ queue[p] # <<>> /\ queue' = [queue EXCEPT ![p] = Tail(@)]
        /\ UNCHANGED <<broker, fetched, fate>>
        /\ mac[p] = NoMsg
        /\ \A q \in Partners : mac'[q] = IF q = p THEN m ELSE mac[q]
    BY <1>1, <1>t, <2>1 DEF Poll, Types, RmTypeOK
  <2>3. /\ m \in Msgs /\ PartnerOf[m] = p
        /\ InQueue(m) /\ ~InQueue(m)'
        /\ \A q \in Partners : Inj(queue'[q])
        /\ \A q \in Partners, n \in Msgs : Has(queue'[q], n) => Has(queue[q], n)
        /\ \A n \in Msgs \ {m} : InQueue(n)' <=> InQueue(n)
        /\ \A n \in Msgs : InBroker(n)' <=> InBroker(n)
    BY <2>1, <2>2, LeavesQueue
  <2>4. ~InBroker(m) /\ ~Fetched(m) /\ ~Taken(m) /\ fate[m] = "open"
    BY <2>3 DEF Once
  <2>5. \A n \in Msgs : (Fetched(n)' <=> Fetched(n)) /\ (Taken(n)' <=> Taken(n) \/ n = m)
    BY <1>t, <2>2, <2>3 DEF Fetched, Taken
  <2>6. Own'
    BY <2>2, <2>3 DEF Own
  <2> QED
    BY <2>2, <2>3, <2>4, <2>5, <2>6 DEF Once
<1>2. CASE Query(p)
  BY <1>2, OnceStays DEF Query
<1>3. CASE Store(p) \/ StoreFails(p)
  <2>h. PICK how \in {"recorded", "dropped"} : Settle(p, how)
    BY <1>3 DEF Store, StoreFails
  <2>1. PICK m : m = mac[p] /\ Settle(p, how)
    BY <2>h
  <2>2. m \in Msgs /\ PartnerOf[m] = p
    BY <1>3, <1>t, <2>1 DEF Store, StoreFails, Types, RmTypeOK, Own
  <2>3. /\ UNCHANGED <<broker, queue, fetched>>
        /\ \A n \in Msgs : fate'[n] = IF n = m THEN how ELSE fate[n]
        /\ \A q \in Partners : mac'[q] = IF q = p THEN NoMsg ELSE mac[q]
    BY <1>t, <2>1, <2>2 DEF Settle
  <2>4. Taken(m)
    BY <2>1, <2>2 DEF Taken
  <2>5. ~InBroker(m) /\ ~InQueue(m) /\ ~Fetched(m)
    BY <2>2, <2>4 DEF Once
  <2>6. \A n \in Msgs : /\ InBroker(n)' <=> InBroker(n)
                        /\ InQueue(n)' <=> InQueue(n)
                        /\ Fetched(n)' <=> Fetched(n)
                        /\ Taken(n)' <=> Taken(n) /\ n # m
    BY <1>t, <2>1, <2>2, <2>3 DEF InBroker, InQueue, Fetched, Taken
  <2>7. Own'
    BY <1>t, <2>3 DEF Own
  <2> QED
    BY <2>3, <2>5, <2>6, <2>7 DEF Once
<1> QED
  BY <1>1, <1>2, <1>3 DEF ConsumerStep

LEMMA CrashOnce ==
    ASSUME Types, Own, Once, Crash
    PROVE  Own' /\ Once'
<1>t. \A n \in Msgs : PartnerOf[n] \in Partners /\ n # NoMsg
  BY RmConsumerAssumption
<1>1. /\ UNCHANGED broker
      /\ \A u \in Timers : fetched'[u] = NoMsg
      /\ \A q \in Partners : queue'[q] = <<>> /\ mac'[q] = NoMsg
      /\ \A n \in Msgs : fate'[n] = IF n \in InMemory(PartnerOf[n]) THEN "lost" ELSE fate[n]
  BY DEF Crash
<1>2. ASSUME NEW n \in Msgs
      PROVE  n \in InMemory(PartnerOf[n]) <=> InQueue(n) \/ Fetched(n) \/ Taken(n)
  <2>1. Fetched(n) <=> \E k \in Kinds : fetched[<<PartnerOf[n], k>>] = n
    <3>1. ASSUME NEW u \in Timers, fetched[u] = n
          PROVE  \E k \in Kinds : fetched[<<PartnerOf[n], k>>] = n
      <4>1. u[1] = PartnerOf[n] /\ u[2] \in Kinds /\ u = <<u[1], u[2]>>
        BY <1>t, <3>1 DEF Own, Timers
      <4> QED
        BY <3>1, <4>1
    <3>2. \A k \in Kinds : <<PartnerOf[n], k>> \in Timers
      BY <1>t DEF Timers
    <3> QED
      BY <3>1, <3>2 DEF Fetched
  <2>2. n \in Queued(PartnerOf[n]) <=> InQueue(n)
    BY DEF Queued, InQueue, Has
  <2>3. n \in InHand(PartnerOf[n]) <=> Fetched(n) \/ Taken(n)
    BY <1>t, <2>1 DEF InHand, Taken
  <2> QED
    BY <2>2, <2>3 DEF InMemory
<1>3. (\A n : ~Has(<<>>, n)) /\ Inj(<<>>)
  BY DEF Has, Inj
<1>4. \A n \in Msgs : /\ InBroker(n)' <=> InBroker(n)
                      /\ ~InQueue(n)' /\ ~Fetched(n)' /\ ~Taken(n)'
  BY <1>t, <1>1, <1>3 DEF InBroker, InQueue, Fetched, Taken
<1>5. Own'
  BY <1>t, <1>1, <1>3 DEF Own
<1> QED
  BY <1>1, <1>2, <1>3, <1>4, <1>5 DEF Once

LEMMA OnceStep ==
    ASSUME Types, Own, Once, [Next]_vars
    PROVE  Own' /\ Once'
<1>1. CASE MainStep \/ Restart \/ UNCHANGED vars
  BY <1>1, OnceStays DEF MainStep, StartTimers, StartConsumer, StartThrows, Restart, vars,
     inMemory
<1>2. ASSUME NEW t \in Timers, TimerStep(t) \/ CountBreaks(t) \/ GetBreaks(t)
      PROVE  Own' /\ Once'
  <2>1. CASE Count(t) \/ CountBreaks(t) \/ GetEnds(t) \/ OfferFails(t)
    BY <2>1, OnceStays DEF Count, CountBreaks, GetEnds, OfferFails, inMemory
  <2>2. CASE Offer(t) \/ Put(t)
    BY <2>2, EnqueueOnce DEF Offer, Put
  <2> QED
    BY <1>2, <2>1, <2>2, GetOnce DEF TimerStep
<1> QED
  BY <1>1, <1>2, PublishOnce, ConsumerOnce, CrashOnce DEF Next

\* A message on its way is in one place, a settled one in none, whoever hands it on,
\* breaks or dies.
THEOREM MessagesAreCounted == Spec => []EachMessageOnce
<1>1. Spec => [](Types /\ Own /\ Once)
  BY TypesInit, TypesStep, OnceInit, OnceStep, PTL DEF Spec
<1> QED
  BY <1>1, OnceIsEnough, PTL

=============================================================================
