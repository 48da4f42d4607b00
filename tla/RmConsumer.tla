----------------------------- MODULE RmConsumer -----------------------------
(***************************************************************************)
(* userinfo-consumer-mysql: boxes without an account wait as RabbitMQ      *)
(* messages until their data is copied from MySQL to Cassandra.            *)
(*                                                                         *)
(* main walks through the partners ZooKeeper names. For each of them it    *)
(* starts two timers, which move messages from the partner's RabbitMQ      *)
(* queue to a bounded queue in memory (one when enough have come together, *)
(* one every ten minutes), and submits one consumer, which never ends, to  *)
(* a pool of threads. All timers share one channel, and a message is gone  *)
(* from RabbitMQ as soon as it is fetched.                                 *)
(*                                                                         *)
(* RabbitMQ, MySQL and Cassandra are external.                             *)
(***************************************************************************)
EXTENDS Integers, Sequences, FiniteSets

CONSTANTS
    Partners,
    StartOrder,     \* getCanUsePartnerList: the partners flagged "true"
    Implemented,    \* the partners SynFactory has an implementation for
    Msgs,           \* messages; a box may send several
    PartnerOf,      \* the routing key of a message
    HasRow,         \* the messages whose box MySQL has a row of
    Capacity,       \* of the LinkedBlockingQueue
    LimitNum,       \* LIMIT_NUM
    PoolSize,       \* of the executor
    NoMsg,          \* nothing in hand
    Faults,         \* the kinds of failure that may happen
    MaxCrashes      \* bound: deaths of the process

ASSUME RmConsumerAssumption ==
    /\ StartOrder \in Seq(Partners)
    /\ \A i, j \in 1 .. Len(StartOrder) : i # j => StartOrder[i] # StartOrder[j]
    /\ Implemented \subseteq Partners
    /\ PartnerOf \in [Msgs -> Partners]
    /\ HasRow \subseteq Msgs
    /\ NoMsg \notin Msgs
    /\ Capacity \in Nat \ {0} /\ LimitNum \in Nat /\ PoolSize \in Nat \ {0}
    /\ Faults \subseteq {"mysql", "cassandra", "channel", "crash"}
    /\ MaxCrashes \in Nat

VARIABLES
    broker,       \* RabbitMQ: the queue of each partner
    channelOpen,  \* is the shared channel usable?
    main, next,   \* what main does, and the partner it is at
    tpc, left,    \* each timer's task: what it does, fetches still to make
    fetched,      \* the message it has in hand
    queue,        \* the partner's bounded queue
    cpc, mac,     \* each consumer: what it does, the message in hand
    fate,         \* what has become of each message
    crashes

Kinds == {"time", "num"}
Timers == Partners \X Kinds

inMemory == <<main, next, tpc, left, fetched, queue, cpc, mac>>
vars == <<broker, channelOpen, inMemory, fate, crashes>>

\* "open" messages are on their way; of a "recorded" one Cassandra has the user
\* data or a not_found row, of a "dropped" one only the log tells; "lost" ones were
\* in the memory of a process that died, or on a connection that broke.
Fates == {"unsent", "open", "recorded", "dropped", "lost"}

RmTypeOK ==
    /\ broker \in [Partners -> Seq(Msgs)] /\ channelOpen \in BOOLEAN
    /\ main \in {"timers", "consumer", "threw", "down"}
    /\ next \in 1 .. Len(StartOrder) + 1
    /\ tpc \in [Timers -> {"off", "idle", "get", "offer", "put"}]
    /\ left \in [Timers -> Nat]
    /\ fetched \in [Timers -> Msgs \cup {NoMsg}]
    /\ \A t \in Timers : fetched[t] # NoMsg <=> tpc[t] \in {"offer", "put"}
    /\ queue \in [Partners -> Seq(Msgs)]
    /\ \A p \in Partners : Len(queue[p]) <= Capacity
    /\ cpc \in [Partners -> {"off", "queued", "poll", "query", "store",
                             "note"}]
    /\ mac \in [Partners -> Msgs \cup {NoMsg}]
    /\ \A p \in Partners : mac[p] = NoMsg <=> cpc[p] \in {"off", "queued", "poll"}
    /\ fate \in [Msgs -> Fates]
    /\ crashes \in 0 .. MaxCrashes

\* A process that has not started anything.
Empty ==
    /\ main = "timers" /\ next = 1
    /\ tpc = [t \in Timers |-> "off"] /\ left = [t \in Timers |-> 0]
    /\ fetched = [t \in Timers |-> NoMsg]
    /\ queue = [p \in Partners |-> <<>>]
    /\ cpc = [p \in Partners |-> "off"] /\ mac = [p \in Partners |-> NoMsg]

Init ==
    /\ broker = [p \in Partners |-> <<>>] /\ channelOpen = TRUE
    /\ Empty
    /\ fate = [m \in Msgs |-> "unsent"]
    /\ crashes = 0

\* userinfo-maintain publishes a box.
Publish(m) ==
    /\ fate[m] = "unsent"
    /\ broker' = [broker EXCEPT ![PartnerOf[m]] = Append(@, m)]
    /\ fate' = [fate EXCEPT ![m] = "open"]
    /\ UNCHANGED <<channelOpen, inMemory, crashes>>

-----------------------------------------------------------------------------
(* main.                                                                   *)

Here == StartOrder[next]
Running == {p \in Partners : cpc[p] \notin {"off", "queued"}}

\* The two timers of a partner are scheduled; after the last partner main ends,
\* and what it has started goes on.
StartTimers ==
    /\ main = "timers"
    /\ next <= Len(StartOrder)
    /\ tpc' = [t \in Timers |-> IF t[1] = Here THEN "idle" ELSE tpc[t]]
    /\ main' = "consumer"
    /\ UNCHANGED <<broker, channelOpen, next, left, fetched, queue, cpc, mac, fate,
                   crashes>>

\* submit: consumers never end, so one that finds no free thread waits for ever.
StartConsumer ==
    /\ main = "consumer"
    /\ Here \in Implemented
    /\ cpc' = [cpc EXCEPT ![Here] =
                 IF Cardinality(Running) < PoolSize THEN "poll" ELSE "queued"]
    /\ next' = next + 1
    /\ main' = "timers"
    /\ UNCHANGED <<broker, channelOpen, tpc, left, fetched, queue, mac, fate, crashes>>

\* getSynInstance throws: main ends, what it has started goes on.
StartThrows ==
    /\ main = "consumer"
    /\ Here \notin Implemented
    /\ main' = "threw"
    /\ UNCHANGED <<broker, channelOpen, next, tpc, left, fetched, queue, cpc, mac,
                   fate, crashes>>

-----------------------------------------------------------------------------
(* TimeConditionTask and NumConditionTask.                                 *)

Enough(t) == Len(broker[t[1]]) > (IF t[2] = "num" THEN LimitNum ELSE 0)

\* run: messageCount; with too few messages the run is over.
Count(t) ==
    /\ tpc[t] = "idle" /\ channelOpen
    /\ Enough(t)
    /\ tpc' = [tpc EXCEPT ![t] = "get"]
    /\ left' = [left EXCEPT ![t] = Len(broker[t[1]])]
    /\ UNCHANGED <<broker, channelOpen, main, next, fetched, queue, cpc, mac, fate,
                   crashes>>

\* messageCount of a queue that does not exist closes the channel of all timers,
\* and a broken connection is not made again.
CountBreaks(t) ==
    /\ "channel" \in Faults
    /\ tpc[t] = "idle" /\ channelOpen
    /\ channelOpen' = FALSE
    /\ UNCHANGED <<broker, inMemory, fate, crashes>>

\* basicGet with autoAck.
Get(t) ==
    /\ tpc[t] = "get" /\ channelOpen
    /\ left[t] > 0 /\ broker[t[1]] # <<>>
    /\ fetched' = [fetched EXCEPT ![t] = Head(broker[t[1]])]
    /\ broker' = [broker EXCEPT ![t[1]] = Tail(@)]
    /\ left' = [left EXCEPT ![t] = @ - 1]
    /\ tpc' = [tpc EXCEPT ![t] = "offer"]
    /\ UNCHANGED <<channelOpen, main, next, queue, cpc, mac, fate, crashes>>

\* num messages fetched, or the other timer has fetched the rest, or the
\* channel is closed (the exception is logged).
GetEnds(t) ==
    /\ tpc[t] = "get"
    /\ left[t] = 0 \/ broker[t[1]] = <<>> \/ ~channelOpen
    /\ tpc' = [tpc EXCEPT ![t] = "idle"]
    /\ left' = [left EXCEPT ![t] = 0]
    /\ UNCHANGED <<broker, channelOpen, main, next, fetched, queue, cpc, mac, fate,
                   crashes>>

\* The connection breaks under basicGet, after RabbitMQ has let go of the message.
GetBreaks(t) ==
    /\ "channel" \in Faults
    /\ tpc[t] = "get" /\ channelOpen
    /\ left[t] > 0 /\ broker[t[1]] # <<>>
    /\ broker' = [broker EXCEPT ![t[1]] = Tail(@)]
    /\ fate' = [fate EXCEPT ![Head(broker[t[1]])] = "lost"]
    /\ channelOpen' = FALSE
    /\ UNCHANGED <<inMemory, crashes>>

\* Mutant: one message too many.
FullTooLate(p) == Len(queue[p]) > Capacity

Full(p) == Len(queue[p]) >= Capacity

Enqueue(t, after) ==
    /\ ~Full(t[1])
    /\ queue' = [queue EXCEPT ![t[1]] = Append(@, fetched[t])]
    /\ fetched' = [fetched EXCEPT ![t] = NoMsg]
    /\ tpc' = [tpc EXCEPT ![t] = after]

Offer(t) ==
    /\ tpc[t] = "offer"
    /\ Enqueue(t, "get")
    /\ UNCHANGED <<broker, channelOpen, main, next, left, cpc, mac, fate, crashes>>

\* Mutant: the message that does not fit is forgotten.
OfferForgets(t) ==
    /\ tpc[t] = "offer"
    /\ Full(t[1])
    /\ tpc' = [tpc EXCEPT ![t] = "idle"]
    /\ left' = [left EXCEPT ![t] = 0]
    /\ fetched' = [fetched EXCEPT ![t] = NoMsg]
    /\ UNCHANGED <<broker, channelOpen, main, next, queue, cpc, mac, fate, crashes>>

OfferFails(t) ==
    /\ tpc[t] = "offer"
    /\ Full(t[1])
    /\ tpc' = [tpc EXCEPT ![t] = "put"]
    /\ UNCHANGED <<broker, channelOpen, main, next, left, fetched, queue, cpc, mac,
                   fate, crashes>>

\* put blocks until there is room; then the run is over.
Put(t) ==
    /\ tpc[t] = "put"
    /\ Enqueue(t, "idle")
    /\ left' = [left EXCEPT ![t] = 0]
    /\ UNCHANGED <<broker, channelOpen, main, next, cpc, mac, fate, crashes>>

-----------------------------------------------------------------------------
(* QueueConsumer.                                                          *)

Goto(p, where) == cpc' = [cpc EXCEPT ![p] = where]

Poll(p) ==
    /\ cpc[p] = "poll"
    /\ queue[p] # <<>>
    /\ mac' = [mac EXCEPT ![p] = Head(queue[p])]
    /\ queue' = [queue EXCEPT ![p] = Tail(@)]
    /\ Goto(p, "query")
    /\ UNCHANGED <<broker, channelOpen, main, next, tpc, left, fetched, fate, crashes>>

\* getFromMysql swallows its exceptions. It returns a row, which may have holes
\* where it failed half-way, or null when there is no row or it failed at once.
Query(p) ==
    /\ cpc[p] = "query"
    /\ \/ mac[p] \in HasRow /\ Goto(p, "store")
       \/ (mac[p] \notin HasRow \/ "mysql" \in Faults) /\ Goto(p, "note")
    /\ UNCHANGED <<broker, channelOpen, main, next, tpc, left, fetched, queue, mac,
                   fate, crashes>>

Settle(p, what) ==
    /\ fate' = [fate EXCEPT ![mac[p]] = what]
    /\ mac' = [mac EXCEPT ![p] = NoMsg]
    /\ Goto(p, "poll")
    /\ UNCHANGED <<broker, channelOpen, main, next, tpc, left, fetched, queue, crashes>>

\* upToCassandra, and the insert into not_found_from_mysql.
Store(p) ==
    /\ cpc[p] \in {"store", "note"}
    /\ Settle(p, "recorded")


\* The asynchronous update fails, or the insert throws: a log line.
StoreFails(p) ==
    /\ "cassandra" \in Faults
    /\ cpc[p] \in {"store", "note"}
    /\ Settle(p, "dropped")

-----------------------------------------------------------------------------
(* The process.                                                            *)

Queued(p) == {queue[p][i] : i \in 1 .. Len(queue[p])}
InHand(p) == ({fetched[<<p, k>>] : k \in Kinds} \cup {mac[p]}) \ {NoMsg}
InMemory(p) == Queued(p) \cup InHand(p)

Crash ==
    /\ "crash" \in Faults
    /\ main # "down" /\ crashes < MaxCrashes
    /\ crashes' = crashes + 1
    /\ fate' = [m \in Msgs |-> IF m \in InMemory(PartnerOf[m]) THEN "lost" ELSE fate[m]]
    /\ main' = "down" /\ next' = 1
    /\ tpc' = [t \in Timers |-> "off"] /\ left' = [t \in Timers |-> 0]
    /\ fetched' = [t \in Timers |-> NoMsg]
    /\ queue' = [p \in Partners |-> <<>>]
    /\ cpc' = [p \in Partners |-> "off"] /\ mac' = [p \in Partners |-> NoMsg]
    /\ UNCHANGED <<broker, channelOpen>>

Restart ==
    /\ main = "down"
    /\ main' = "timers"
    /\ channelOpen' = TRUE
    /\ UNCHANGED <<broker, next, tpc, left, fetched, queue, cpc, mac, fate, crashes>>

-----------------------------------------------------------------------------
MainStep == StartTimers \/ StartConsumer \/ StartThrows

TimerStep(t) ==
    \/ Count(t) \/ Get(t) \/ GetEnds(t)
    \/ Offer(t) \/ OfferFails(t) \/ Put(t)

ConsumerStep(p) == Poll(p) \/ Query(p) \/ Store(p) \/ StoreFails(p)

Next ==
    \/ \E m \in Msgs : Publish(m)
    \/ MainStep
    \/ \E t \in Timers : TimerStep(t) \/ CountBreaks(t) \/ GetBreaks(t)
    \/ \E p \in Partners : ConsumerStep(p)
    \/ Crash \/ Restart

Spec == Init /\ [][Next]_vars

\* Threads run, and a dead process is started again.
FairSpec ==
    /\ Spec
    /\ WF_vars(MainStep) /\ WF_vars(Restart)
    /\ \A t \in Timers : WF_vars(TimerStep(t))
    /\ \A p \in Partners : WF_vars(ConsumerStep(p))

-----------------------------------------------------------------------------
(* Properties.                                                             *)

\* The places a message may be in.
Places(m) ==
    LET p == PartnerOf[m]
        In(s) == {i \in 1 .. Len(s) : s[i] = m}
    IN  Cardinality(In(broker[p])) + Cardinality(In(queue[p]))
          + Cardinality({t \in Timers : fetched[t] = m})
          + Cardinality({q \in Partners : mac[q] = m})

\* Two timers and a consumer hand a message on without a transaction, fetched
\* messages are not in RabbitMQ any more, and nothing is written down before the
\* end: still a message on its way is in one place, and a settled one in none.
EachMessageOnce ==
    \A m \in Msgs : Places(m) = IF fate[m] = "open" THEN 1 ELSE 0

\* The partners main gets round to before one throws, for whom there is a thread.
Served ==
    {StartOrder[i] : i \in {j \in 1 .. Len(StartOrder) :
        /\ j <= PoolSize
        /\ \A h \in 1 .. j : StartOrder[h] \in Implemented}}


=============================================================================
