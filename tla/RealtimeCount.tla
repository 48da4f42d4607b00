--------------------------- MODULE RealtimeCount ---------------------------
(***************************************************************************)
(* The live counting topology as a whole: sessions in the Redis shards     *)
(* (MacSession), USER_COUNT tuples in flight, the counting bolt and the    *)
(* counters the page shows (UserCount).                                    *)
(***************************************************************************)
EXTENDS MacSession, FiniteSetsExt

CONSTANTS
    CountTasks,    \* tasks of the UserCount bolt
    CountTaskOf,   \* fieldsGrouping("ADD", "DEC"): the task of a tuple
    MaxExposure    \* bound: units of count failures may put at risk

VARIABLES cacheMap, flushing, todo, count,
    inflight,      \* USER_COUNT tuples on their way, a bag
    exposure       \* units of count put at risk by failures so far

UC == INSTANCE UserCount

countVars == <<cacheMap, flushing, todo, count>>

\* An (ADD, DEC) tuple of the USER_COUNT stream.
CountTuple == [add : Session \cup {None}, dec : Session \cup {None}]

ASSUME RealtimeCountAssumption ==
    /\ IsFiniteSet(Macs) /\ IsFiniteSet(MacTasks) /\ IsFiniteSet(Threads)
    /\ IsFiniteSet(Channels) /\ IsFiniteSet(Partners) /\ IsFiniteSet(CountTasks)
    /\ CountTaskOf \in [CountTuple -> CountTasks]
    /\ MaxExposure \in Nat

rtVars == <<vars, countVars, inflight, exposure>>

RtTypeOK ==
    /\ TypeOK
    /\ cacheMap \in [CountTasks -> [UC!Keys -> Int]]
    /\ flushing \in [CountTasks -> BOOLEAN]
    /\ todo \in [CountTasks -> SUBSET UC!Keys]
    /\ count \in [UC!Keys -> Int]
    /\ inflight \in [CountTuple -> Nat]
    /\ exposure \in Nat

RtInit ==
    /\ Init
    /\ UC!CountInit
    /\ inflight = [u \in CountTuple |-> 0]
    /\ exposure = 0

\* The tuple Emit sends. DEC names the channel mac|cp held, but the partner of
\* the event that is being handled.
Emitted(b) ==
    [add |-> IF ev[b].pt \in {"0", "5"}
               THEN [chan |-> ev[b].chan, partner |-> ev[b].partner] ELSE None,
     dec |-> IF seen[b] # None
               THEN [chan |-> seen[b].chan, partner |-> ev[b].partner] ELSE None]

Put(u) == inflight' = [inflight EXCEPT ![u] = inflight[u] + 1]
Remove(u) == inflight[u] > 0 /\ inflight' = [inflight EXCEPT ![u] = inflight[u] - 1]

\* Failures happen while less than MaxExposure units of count are at risk.
Risk(n) ==
    /\ exposure + n <= MaxExposure
    /\ exposure' = exposure + n

-----------------------------------------------------------------------------
\* Steps that touch neither tuples nor counters.
SessionStep ==
    /\ \/ \E b \in MacTasks, log \in Log : Watch(b, log)
       \/ \E b \in MacTasks :
            \/ GetForTransaction(b) \/ GetForRenewal(b) \/ GetAndReturn(b)
            \/ ExecPlay(b) \/ ExecStop(b) \/ Aborted(b) \/ Renew(b)
       \/ \E t \in Threads :
            \/ \E m \in Macs : TriggerWatch(t, m)
            \/ TriggerGet(t) \/ TriggerExec(t) \/ Aborted(t)
       \/ \E m \in Macs : Age(m) \/ Expire(m) \/ ExpireUnheard(m)
    /\ UNCHANGED <<countVars, inflight, exposure>>

RtEmit(b) ==
    /\ Emit(b)
    /\ Put(Emitted(b))
    /\ UNCHANGED <<countVars, exposure>>

RtDecrTotal(t) ==
    /\ DecrTotal(t)
    /\ UC!Decr(UC!TotalKey(seen[t].chan))
    /\ UNCHANGED <<inflight, exposure>>

\* Mutant: comp.decr(partnerKey) is missing.
RtDecrTotalOnly(t) ==
    /\ DecrPartner(t)
    /\ UNCHANGED <<countVars, inflight, exposure>>

RtDecrPartner(t) ==
    /\ DecrPartner(t)
    /\ UC!Decr(UC!PartnerKey(seen[t].partner, seen[t].chan))
    /\ UNCHANGED <<inflight, exposure>>

Deliver(u) ==
    /\ Remove(u)
    /\ UC!MainTain(CountTaskOf[u], u)
    /\ UNCHANGED <<vars, exposure>>

FlushStep(t) ==
    /\ \/ UC!Tick(t) \/ UC!Clear(t) \/ \E k \in UC!Keys : UC!IncrBy(t, k)
    /\ UNCHANGED <<vars, inflight, exposure>>

-----------------------------------------------------------------------------
(* Failures, each with the units of count it puts at risk.                 *)

RtCallFails(c) ==
    /\ CallFails(c)
    /\ Risk(IF pc[c] \in {"decrTotal", "decrPartner"} THEN 1 ELSE 0)
    /\ UNCHANGED <<countVars, inflight>>

RtExecAnswerLost(b) ==
    /\ ExecAnswerLost(b)
    /\ Risk(1)
    /\ UNCHANGED <<countVars, inflight>>

RtTriggerAnswerLost(t) ==
    /\ TriggerAnswerLost(t)
    /\ Risk(1)
    /\ UNCHANGED <<countVars, inflight>>

\* getInstance() throws: the tuple is failed and its content dropped.
TupleFails(u) ==
    /\ "tuple" \in Faults
    /\ Remove(u)
    /\ Risk(1)
    /\ UNCHANGED <<vars, countVars>>

Abs(n) == IF n < 0 THEN -n ELSE n

Largest(S) == Max({0} \cup {Abs(n) : n \in S})

RtFlushFails(t) ==
    /\ "flush" \in Faults
    /\ UC!FlushFails(t)
    /\ Risk(Largest({cacheMap[t][k] : k \in UC!Keys \ todo[t]}))
    /\ UNCHANGED <<vars, inflight>>

RtWorkerDies(t) ==
    /\ "worker" \in Faults
    /\ UC!WorkerDies(t)
    /\ Risk(Largest({UC!Cached(t, k) : k \in UC!Keys}))
    /\ UNCHANGED <<vars, inflight>>

RtNext ==
    \/ SessionStep
    \/ \E b \in MacTasks : RtEmit(b) \/ RtExecAnswerLost(b)
    \/ \E t \in Threads : RtDecrTotal(t) \/ RtDecrPartner(t)
                            \/ RtTriggerAnswerLost(t)
    \/ \E u \in CountTuple : Deliver(u) \/ TupleFails(u)
    \/ \E t \in CountTasks : FlushStep(t) \/ RtFlushFails(t) \/ RtWorkerDies(t)
    \/ \E c \in Clients : RtCallFails(c)

RtSpec == RtInit /\ [][RtNext]_rtVars

-----------------------------------------------------------------------------
(* Accounting.                                                             *)

\* The boxes a counter should count.
Members(k) == {m \in Macs : macCopy[m] # None /\ k \in UC!KeysOf(macCopy[m])}

Audience(k) == Cardinality(Members(k))

\* What the counting tasks have for counter k and have not sent.
CacheSum(k) == SumFunction([t \in CountTasks |-> UC!Cached(t, k)])

\* What the tuples in flight will add to it.
FlightSum(k) ==
    SumFunction([u \in {u \in CountTuple : inflight[u] > 0} |->
                   inflight[u] * UC!Delta(u, k)])

\* What a bolt task has decided and not yet emitted.
Announced(b, k) == IF pc[b] = "emit" THEN UC!Delta(Emitted(b), k) ELSE 0

EmitSum(k) == SumFunction([b \in MacTasks |-> Announced(b, k)])

\* The trigger threads that will still debit it.
Owes(t, k) ==
    \/ pc[t] = "decrTotal" /\ k \in UC!KeysOf(seen[t])
    \/ pc[t] = "decrPartner" /\ k = UC!PartnerKey(seen[t].partner, seen[t].chan)

Debtors(k) == {t \in Threads : Owes(t, k)}

\* Everything decided for counter k that Redis has not been told yet.
Pending(k) == CacheSum(k) + FlightSum(k) + EmitSum(k) - Cardinality(Debtors(k))

Drift(k) == count[k] + Pending(k) - Audience(k)

\* Every total|channel counter, plus what is still under way to it, differs
\* from the number of sessions on the channel by no more than the failures so
\* far have put at risk; without failures it is exact. The debits come from two
\* writers (UserCount and TriggerTask) that never speak to each other.
TotalsAccounted == \A k \in UC!TotalKeys : Abs(Drift(k)) <= exposure

\* The same for every partner|partner|channel counter.
PartnersAccounted == \A k \in UC!PartnerKeys : Abs(Drift(k)) <= exposure

RtFairness ==
    /\ WF_rtVars(SessionStep /\ received' = received)
    /\ \A b \in MacTasks : WF_rtVars(RtEmit(b))
    /\ \A t \in Threads : WF_rtVars(RtDecrTotal(t) \/ RtDecrPartner(t))
    /\ \A u \in CountTuple : SF_rtVars(Deliver(u))
    /\ \A t \in CountTasks : WF_rtVars(FlushStep(t))

RtFairSpec == RtSpec /\ RtFairness

\* Without failures, once events stop the page shows zero everywhere and keeps
\* showing it: sessions expire, triggers debit, caches are flushed, and what
\* all of them wrote cancels out.
AudienceDrains == <>[](\A k \in UC!Keys : count[k] = 0)

=============================================================================
