----------------------------- MODULE UserCount -----------------------------
(***************************************************************************)
(* The UserCount bolt and the Redis instance that holds the counters.      *)
(*                                                                         *)
(* Each task adds the tuples it receives up in its cacheMap and, at every  *)
(* tick tuple, sends one INCRBY per entry and then clears the map. A task  *)
(* is single-threaded, so it takes no tuple during the flush; other tasks  *)
(* and the triggers write the same counters between two of its INCRBYs.    *)
(***************************************************************************)
EXTENDS Integers, FiniteSets

CONSTANTS
    CountTasks,   \* tasks of the UserCount bolt
    Channels,
    Partners,
    None          \* the null ADD or DEC

VARIABLES
    cacheMap,     \* per task: what each key has gained since the last flush
    flushing,     \* per task: is SecondsToRedis running?
    todo,         \* per task: entries the running flush has still to send
    count         \* the counters in Redis

Session == [chan : Channels, partner : Partners]

\* "total|channel" and "partner|partner|channel".
TotalKey(chan) == <<"total", chan>>
PartnerKey(partner, chan) == <<"partner", partner, chan>>

TotalKeys == {TotalKey(c) : c \in Channels}
PartnerKeys == {PartnerKey(p, c) : p \in Partners, c \in Channels}
Keys == TotalKeys \cup PartnerKeys

\* The two keys a channel|partner value addresses.
KeysOf(s) ==
    IF s = None THEN {} ELSE {TotalKey(s.chan), PartnerKey(s.partner, s.chan)}

\* What one (ADD, DEC) tuple does to key k.
Delta(tuple, k) ==
    (IF k \in KeysOf(tuple.add) THEN 1 ELSE 0)
      - (IF k \in KeysOf(tuple.dec) THEN 1 ELSE 0)

CountInit ==
    /\ cacheMap = [t \in CountTasks |-> [k \in Keys |-> 0]]
    /\ flushing = [t \in CountTasks |-> FALSE]
    /\ todo = [t \in CountTasks |-> {}]
    /\ count = [k \in Keys |-> 0]

\* A tuple: CacheInMapAdd for the keys of ADD, CacheInMapDec for those of DEC.
\* A key that is not in the map counts from zero.
MainTain(t, tuple) ==
    /\ ~flushing[t]
    /\ cacheMap' = [cacheMap EXCEPT ![t] =
                      [k \in Keys |-> cacheMap[t][k] + Delta(tuple, k)]]
    /\ UNCHANGED <<flushing, todo, count>>

\* A tick: SecondsToRedis starts over the entries of a non-empty map.
Tick(t) ==
    /\ ~flushing[t]
    /\ \E k \in Keys : cacheMap[t][k] # 0
    /\ flushing' = [flushing EXCEPT ![t] = TRUE]
    /\ todo' = [todo EXCEPT ![t] = {k \in Keys : cacheMap[t][k] # 0}]
    /\ UNCHANGED <<cacheMap, count>>

\* Mutant: SET instead of INCRBY.
SetBy(t, k) ==
    /\ flushing[t]
    /\ k \in todo[t]
    /\ count' = [count EXCEPT ![k] = cacheMap[t][k]]
    /\ todo' = [todo EXCEPT ![t] = todo[t] \ {k}]
    /\ UNCHANGED <<cacheMap, flushing>>

\* One incrBy of the loop, in the map's arbitrary order.
IncrBy(t, k) ==
    /\ flushing[t]
    /\ k \in todo[t]
    /\ count' = [count EXCEPT ![k] = count[k] + cacheMap[t][k]]
    /\ todo' = [todo EXCEPT ![t] = todo[t] \ {k}]
    /\ UNCHANGED <<cacheMap, flushing>>

\* cacheMap.clear() after the last INCRBY.
Clear(t) ==
    /\ flushing[t]
    /\ todo[t] = {}
    /\ cacheMap' = [cacheMap EXCEPT ![t] = [k \in Keys |-> 0]]
    /\ flushing' = [flushing EXCEPT ![t] = FALSE]
    /\ UNCHANGED <<todo, count>>

\* An INCRBY throws, before or after Redis has applied it: execute() catches,
\* fails the tick tuple and keeps the map as it is, the entries already sent
\* included.
FlushFails(t) ==
    /\ flushing[t]
    /\ flushing' = [flushing EXCEPT ![t] = FALSE]
    /\ todo' = [todo EXCEPT ![t] = {}]
    /\ UNCHANGED <<cacheMap, count>>

\* The worker process dies: the map was only in memory.
WorkerDies(t) ==
    /\ cacheMap' = [cacheMap EXCEPT ![t] = [k \in Keys |-> 0]]
    /\ flushing' = [flushing EXCEPT ![t] = FALSE]
    /\ todo' = [todo EXCEPT ![t] = {}]
    /\ UNCHANGED count

\* A DECR of a trigger thread.
Decr(k) ==
    /\ count' = [count EXCEPT ![k] = count[k] - 1]
    /\ UNCHANGED <<cacheMap, flushing, todo>>

\* What task t will still add to k, if nothing fails.
Cached(t, k) ==
    IF flushing[t] /\ k \notin todo[t] THEN 0 ELSE cacheMap[t][k]

=============================================================================
