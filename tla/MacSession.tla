----------------------------- MODULE MacSession -----------------------------
(***************************************************************************)
(* Who is watching what, as the live topology keeps it in one Redis shard. *)
(*                                                                         *)
(* A set-top box (a "mac") has two keys: mac, which expires after          *)
(* TIME_TTL, and mac|cp, which holds channel|partner and never expires.    *)
(* Two kinds of clients change them under WATCH / MULTI / EXEC:            *)
(*   - a Mac2Redis bolt task, for every play event of its boxes;           *)
(*   - a TriggerTask thread, for every key-expired notification.           *)
(* The transaction decides which counters go up and down; the counters     *)
(* themselves are in UserCount and RealtimeCount.                          *)
(*                                                                         *)
(* Redis is external. It is the 3.2 release the README starts: a write to  *)
(* an existing or new key spoils the transactions watching it, the removal *)
(* of an expired key does not; and every command on a key whose time is up *)
(* finds it removed, and the removal published, before it does anything.   *)
(***************************************************************************)
EXTENDS Integers, FiniteSets

CONSTANTS
    Macs,          \* the boxes
    Channels,      \* channel codes
    Partners,      \* operators that own boxes
    PartnersOf,    \* the operators a box reports itself under
    Ans,           \* programme (album) names
    VideoTypes,    \* the vt values upstream may send
    PlayTypes,     \* the pt values upstream may send
    MacTasks,      \* tasks of the Mac2Redis bolt
    MacTaskOf,     \* fieldsGrouping("mac"): the task that serves a box
    Threads,       \* threads of the trigger's executor
    None,          \* an absent key, or an unused field
    Faults,        \* the kinds of failure that may happen
    MaxEvents      \* bound: play events consumed

\* pt "3" stands for every value the switch does not name.
ASSUME MacSessionAssumption ==
    /\ PlayTypes \subseteq {"0", "1", "2", "3", "5"}
    /\ MacTaskOf \in [Macs -> MacTasks]
    /\ MacTasks \cap Threads = {}
    /\ PartnersOf \in [Macs -> SUBSET Partners]
    /\ Faults \subseteq {"call", "answer", "notify", "tuple", "flush", "worker"}
    /\ MaxEvents \in Nat
    /\ None \notin Macs \cup Channels
    /\ None \notin [chan : Channels, partner : Partners]
    /\ None \notin [mac : Macs, pt : PlayTypes, chan : Channels,
                    partner : Partners, an : Ans, vt : VideoTypes]

VARIABLES
    macKey,    \* key mac: "absent", "fresh", or "stale" when its TTL has run
    macCopy,   \* key mac|cp: channel|partner, or None
    pc,        \* what each Redis client does next
    on,        \* the box whose two keys the client watches
    ev,        \* the play event a bolt task is handling
    seen,      \* what the client's GET mac|cp answered
    dirty,     \* has another client written a watched key?
    queued,    \* expired notifications not yet taken by a thread
    booked,    \* net count decided so far, per box and channel
    received   \* play events consumed

vars == <<macKey, macCopy, pc, on, ev, seen, dirty, queued, booked, received>>

Clients == MacTasks \cup Threads

Session == [chan : Channels, partner : Partners]

Play == {p \in [mac : Macs, pt : PlayTypes, chan : Channels,
                 partner : Partners, an : Ans, vt : VideoTypes] :
           p.partner \in PartnersOf[p.mac]}

\* A cleaned log line of topic log-clean-5; legal says that the six fields the
\* decoder fills are neither null, "null" nor blank.
Log == [type : {"LIVOD", "other"}, version : {"V1_0", "V2_0", "other"},
        legal : BOOLEAN, play : Play]

TypeOK ==
    /\ macKey \in [Macs -> {"absent", "fresh", "stale"}]
    /\ macCopy \in [Macs -> Session \cup {None}]
    /\ pc \in [Clients -> {"idle", "get", "exec", "renew", "emit",
                           "decrTotal", "decrPartner"}]
    /\ on \in [Clients -> Macs \cup {None}]
    /\ ev \in [Clients -> Play \cup {None}]
    /\ seen \in [Clients -> Session \cup {None}]
    /\ dirty \in [Clients -> BOOLEAN]
    /\ queued \in [Macs -> Nat]
    /\ booked \in [Macs -> [Channels -> Int]]
    /\ received \in 0 .. MaxEvents
    /\ \A b \in MacTasks : pc[b] \in {"idle", "get", "exec", "renew", "emit"}
    /\ \A t \in Threads :
         pc[t] \in {"idle", "get", "exec", "decrTotal", "decrPartner"}
    /\ \A c \in Clients : pc[c] # "idle" => on[c] \in Macs
    /\ \A b \in MacTasks : pc[b] # "idle" => ev[b] \in Play /\ ev[b].mac = on[b]

Init ==
    /\ macKey = [m \in Macs |-> "absent"]
    /\ macCopy = [m \in Macs |-> None]
    /\ pc = [c \in Clients |-> "idle"]
    /\ on = [c \in Clients |-> None]
    /\ ev = [c \in Clients |-> None]
    /\ seen = [c \in Clients |-> None]
    /\ dirty = [c \in Clients |-> FALSE]
    /\ queued = [m \in Macs |-> 0]
    /\ booked = [m \in Macs |-> [c \in Channels |-> 0]]
    /\ received = 0

-----------------------------------------------------------------------------
(* Redis: watched keys, and the decision a committed transaction takes.    *)

\* A write of client c to the keys of m spoils every other watcher of m.
Touch(c, m) ==
    dirty' = [d \in Clients |-> dirty[d] \/ (d # c /\ on[d] = m)]

\* The client is done: jedis.close() gives the connection back, unwatched.
Close(c) ==
    /\ pc' = [pc EXCEPT ![c] = "idle"]
    /\ on' = [on EXCEPT ![c] = None]
    /\ ev' = [ev EXCEPT ![c] = None]
    /\ seen' = [seen EXCEPT ![c] = None]

\* The values ADD and DEC, as far as the total counters are concerned.
Book(m, add, dec) ==
    booked' = [booked EXCEPT ![m] = [c \in Channels |->
                 booked[m][c] + (IF c = add THEN 1 ELSE 0)
                              - (IF c = dec THEN 1 ELSE 0)]]

ChanOf(s) == IF s = None THEN None ELSE s.chan

-----------------------------------------------------------------------------
(* FilterAll and Mac2Redis.                                                *)

\* FilterAll emits live play logs of the two known pingback versions whose
\* fields are all legal; it acks and drops everything else.
FilterAll(log) ==
    /\ log.type = "LIVOD"
    /\ log.version \in {"V1_0", "V2_0"}
    /\ log.legal

\* execute: the task of the box takes the event and watches the two keys.
Watch(b, log) ==
    LET play == log.play IN
    /\ pc[b] = "idle"
    /\ FilterAll(log)
    /\ MacTaskOf[play.mac] = b
    /\ received < MaxEvents
    /\ received' = received + 1
    /\ pc' = [pc EXCEPT ![b] = "get"]
    /\ on' = [on EXCEPT ![b] = play.mac]
    /\ ev' = [ev EXCEPT ![b] = play]
    /\ dirty' = [dirty EXCEPT ![b] = FALSE]
    /\ UNCHANGED <<macKey, macCopy, seen, queued, booked>>

\* The branches that go on to a transaction: a start; a stop of a recorded
\* box; a heartbeat of an unrecorded one.
NeedsTransaction(b) ==
    \/ ev[b].pt = "0"
    \/ ev[b].pt \in {"1", "2"} /\ macCopy[on[b]] # None
    \/ ev[b].pt = "5" /\ macCopy[on[b]] = None

GetForTransaction(b) ==
    /\ pc[b] = "get"
    /\ NeedsTransaction(b)
    /\ seen' = [seen EXCEPT ![b] = macCopy[on[b]]]
    /\ pc' = [pc EXCEPT ![b] = "exec"]
    /\ UNCHANGED <<macKey, macCopy, on, ev, dirty, queued, booked, received>>

\* A heartbeat of a recorded box goes on to EXPIRE.
GetForRenewal(b) ==
    /\ pc[b] = "get"
    /\ ev[b].pt = "5"
    /\ macCopy[on[b]] # None
    /\ pc' = [pc EXCEPT ![b] = "renew"]
    /\ UNCHANGED <<macKey, macCopy, on, ev, seen, dirty, queued, booked, received>>

\* A stop of an unrecorded box and an unknown pt return, and are acked.
GetAndReturn(b) ==
    /\ pc[b] = "get"
    /\ ~NeedsTransaction(b)
    /\ ~(ev[b].pt = "5" /\ macCopy[on[b]] # None)
    /\ Close(b)
    /\ UNCHANGED <<macKey, macCopy, dirty, queued, booked, received>>

\* A stale key goes through Expire before a command may touch it.
Settled(m) == macKey[m] # "stale"

\* Mutant: only SET mac|cp.
WritePlayWithoutTtl(b) ==
    /\ ev[b].pt \in {"0", "5"}
    /\ Settled(on[b])
    /\ macCopy' = [macCopy EXCEPT ![on[b]] =
                     [chan |-> ev[b].chan, partner |-> ev[b].partner]]
    /\ UNCHANGED macKey

\* SET mac; EXPIRE mac; SET mac|cp.
WritePlay(b) ==
    /\ ev[b].pt \in {"0", "5"}
    /\ Settled(on[b])
    /\ macKey' = [macKey EXCEPT ![on[b]] = "fresh"]
    /\ macCopy' = [macCopy EXCEPT ![on[b]] =
                     [chan |-> ev[b].chan, partner |-> ev[b].partner]]

\* DEL mac|cp; DEL mac.
WriteStop(b) ==
    /\ ev[b].pt \in {"1", "2"}
    /\ Settled(on[b])
    /\ macKey' = [macKey EXCEPT ![on[b]] = "absent"]
    /\ macCopy' = [macCopy EXCEPT ![on[b]] = None]

\* EXEC of a start or an opening heartbeat: +1 here, -1 where the box was.
ExecPlay(b) ==
    /\ pc[b] = "exec"
    /\ ~dirty[b]
    /\ WritePlay(b)
    /\ Touch(b, on[b])
    /\ Book(on[b], ev[b].chan, ChanOf(seen[b]))
    /\ pc' = [pc EXCEPT ![b] = "emit"]
    /\ UNCHANGED <<on, ev, seen, queued, received>>

\* EXEC of a stop: -1 where the box was.
ExecStop(b) ==
    /\ pc[b] = "exec"
    /\ ~dirty[b]
    /\ WriteStop(b)
    /\ Touch(b, on[b])
    /\ Book(on[b], None, ChanOf(seen[b]))
    /\ pc' = [pc EXCEPT ![b] = "emit"]
    /\ UNCHANGED <<on, ev, seen, queued, received>>

\* Mutant: the answer of EXEC is not looked at.
AbortedUnnoticed(c) ==
    /\ pc[c] = "exec"
    /\ dirty[c]
    /\ Book(on[c], IF c \in MacTasks THEN ev[c].chan ELSE None, ChanOf(seen[c]))
    /\ Close(c)
    /\ UNCHANGED <<macKey, macCopy, dirty, queued, received>>

\* Mutant: the client watches and commits again without reading again.
AbortedRetriesBlindly(c) ==
    /\ pc[c] = "exec"
    /\ dirty[c]
    /\ dirty' = [dirty EXCEPT ![c] = FALSE]
    /\ UNCHANGED <<macKey, macCopy, pc, on, ev, seen, queued, booked, received>>

\* EXEC of a spoiled transaction: it answers nil, the client logs and returns.
Aborted(c) ==
    /\ pc[c] = "exec"
    /\ dirty[c]
    /\ Close(c)
    /\ UNCHANGED <<macKey, macCopy, dirty, queued, booked, received>>

\* EXPIRE mac: gives a present key its full TTL, does nothing to a missing one.
Renew(b) ==
    /\ pc[b] = "renew"
    /\ Close(b)
    /\ \/ /\ macKey[on[b]] = "fresh"
          /\ macKey' = [macKey EXCEPT ![on[b]] = "fresh"]
          /\ Touch(b, on[b])
       \/ /\ macKey[on[b]] = "absent"
          /\ UNCHANGED <<macKey, dirty>>
    /\ UNCHANGED <<macCopy, queued, booked, received>>

\* The tuples for USER_COUNT and AN_RECORD leave and the event is acked.
Emit(b) ==
    /\ pc[b] = "emit"
    /\ Close(b)
    /\ UNCHANGED <<macKey, macCopy, dirty, queued, booked, received>>

-----------------------------------------------------------------------------
(* Redis expiry and TriggerTask.                                           *)

\* TIME_TTL goes by without a renewal.
Age(m) ==
    /\ macKey[m] = "fresh"
    /\ macKey' = [macKey EXCEPT ![m] = "stale"]
    /\ UNCHANGED <<macCopy, pc, on, ev, seen, dirty, queued, booked, received>>

\* Redis removes the key and publishes __keyevent@0__:expired; onPMessage
\* submits a TriggerTask.
Expire(m) ==
    /\ macKey[m] = "stale"
    /\ macKey' = [macKey EXCEPT ![m] = "absent"]
    /\ queued' = [queued EXCEPT ![m] = queued[m] + 1]
    /\ UNCHANGED <<macCopy, pc, on, ev, seen, dirty, booked, received>>

\* Mutant: a task is submitted without a notification.
TriggerWatchUnasked(t, m) ==
    /\ pc[t] = "idle"
    /\ queued' = [queued EXCEPT ![m] = queued[m] - 1]
    /\ pc' = [pc EXCEPT ![t] = "get"]
    /\ on' = [on EXCEPT ![t] = m]
    /\ dirty' = [dirty EXCEPT ![t] = FALSE]
    /\ UNCHANGED <<macKey, macCopy, ev, seen, booked, received>>

\* run: the thread takes the next notification and watches the two keys.
TriggerWatch(t, m) ==
    /\ pc[t] = "idle"
    /\ queued[m] > 0
    /\ queued' = [queued EXCEPT ![m] = queued[m] - 1]
    /\ pc' = [pc EXCEPT ![t] = "get"]
    /\ on' = [on EXCEPT ![t] = m]
    /\ dirty' = [dirty EXCEPT ![t] = FALSE]
    /\ UNCHANGED <<macKey, macCopy, ev, seen, booked, received>>

TriggerGet(t) ==
    /\ pc[t] = "get"
    /\ seen' = [seen EXCEPT ![t] = macCopy[on[t]]]
    /\ pc' = [pc EXCEPT ![t] = "exec"]
    /\ UNCHANGED <<macKey, macCopy, on, ev, dirty, queued, booked, received>>

\* MULTI; DEL mac|cp; EXEC. Deleting a missing key writes nothing.
DelCopy(t) ==
    /\ macCopy' = [macCopy EXCEPT ![on[t]] = None]
    /\ IF macCopy[on[t]] # None THEN Touch(t, on[t]) ELSE UNCHANGED dirty

\* The thread goes on to the counters when it had read a session.
TriggerExec(t) ==
    /\ pc[t] = "exec"
    /\ ~dirty[t]
    /\ DelCopy(t)
    /\ Book(on[t], None, ChanOf(seen[t]))
    /\ \/ /\ seen[t] # None
          /\ pc' = [pc EXCEPT ![t] = "decrTotal"]
          /\ UNCHANGED <<on, ev, seen>>
       \/ /\ seen[t] = None
          /\ Close(t)
    /\ UNCHANGED <<macKey, queued, received>>

\* comp.decr(totalKey)
DecrTotal(t) ==
    /\ pc[t] = "decrTotal"
    /\ pc' = [pc EXCEPT ![t] = "decrPartner"]
    /\ UNCHANGED <<macKey, macCopy, on, ev, seen, dirty, queued, booked, received>>

\* comp.decr(partnerKey)
DecrPartner(t) ==
    /\ pc[t] = "decrPartner"
    /\ Close(t)
    /\ UNCHANGED <<macKey, macCopy, dirty, queued, booked, received>>

-----------------------------------------------------------------------------
(* Failures.                                                               *)

\* A Redis call of execute() or run() throws before EXEC has run; the bolt
\* fails the tuple, which the spout replays as a later event, the trigger only
\* logs.
CallFails(c) ==
    /\ "call" \in Faults
    /\ pc[c] \notin {"idle", "emit"}
    /\ Close(c)
    /\ UNCHANGED <<macKey, macCopy, dirty, queued, booked, received>>

\* EXEC runs but its answer is lost (socket timeout): the keys change, nothing
\* is decided for the counters, and the tuple is failed.
ExecAnswerLost(b) ==
    /\ "answer" \in Faults
    /\ pc[b] = "exec"
    /\ ~dirty[b]
    /\ WritePlay(b) \/ WriteStop(b)
    /\ Touch(b, on[b])
    /\ Close(b)
    /\ UNCHANGED <<queued, booked, received>>

\* The same for the trigger: the session is gone, nothing is debited.
TriggerAnswerLost(t) ==
    /\ "answer" \in Faults
    /\ pc[t] = "exec"
    /\ ~dirty[t]
    /\ DelCopy(t)
    /\ Close(t)
    /\ UNCHANGED <<macKey, queued, booked, received>>

\* Nobody is subscribed when the key expires: Redis does not keep the message.
ExpireUnheard(m) ==
    /\ "notify" \in Faults
    /\ macKey[m] = "stale"
    /\ macKey' = [macKey EXCEPT ![m] = "absent"]
    /\ UNCHANGED <<macCopy, pc, on, ev, seen, dirty, queued, booked, received>>

-----------------------------------------------------------------------------
BoltStep(b) ==
    \/ GetForTransaction(b) \/ GetForRenewal(b) \/ GetAndReturn(b)
    \/ ExecPlay(b) \/ ExecStop(b) \/ Aborted(b) \/ Renew(b) \/ Emit(b)

TriggerStep(t) ==
    \/ \E m \in Macs : TriggerWatch(t, m)
    \/ TriggerGet(t) \/ TriggerExec(t) \/ Aborted(t)
    \/ DecrTotal(t) \/ DecrPartner(t)

Next ==
    \/ \E b \in MacTasks, log \in Log : Watch(b, log)
    \/ \E b \in MacTasks : BoltStep(b) \/ ExecAnswerLost(b)
    \/ \E t \in Threads : TriggerStep(t) \/ TriggerAnswerLost(t)
    \/ \E c \in Clients : CallFails(c)
    \/ \E m \in Macs : Age(m) \/ Expire(m) \/ ExpireUnheard(m)

Spec == Init /\ [][Next]_vars

\* Bolt tasks and executor threads keep running, time passes and Redis gets
\* round to expiring keys; upstream owes nothing.
Fairness ==
    /\ \A b \in MacTasks : WF_vars(BoltStep(b))
    /\ \A t \in Threads : WF_vars(TriggerStep(t))
    /\ \A m \in Macs : WF_vars(Age(m)) /\ WF_vars(Expire(m))

FairSpec == Spec /\ Fairness

-----------------------------------------------------------------------------
(* Properties.                                                             *)

\* The optimistic lock works: a client about to commit an unspoiled
\* transaction still holds the session it read, whatever the other clients
\* and the expiry of mac have done since (WATCH in checkMacAndHandle and run).
ReadStillTrue ==
    \A c \in Clients :
        pc[c] = "exec" /\ ~dirty[c] => seen[c] = macCopy[on[c]]

\* As long as no EXEC answer is lost, the counts decided for a box add up to
\* exactly one on the channel mac|cp names and to zero on every other: no start
\* is credited twice, no departure is debited twice or on the wrong channel,
\* although the bolt and the trigger race for the same box, calls fail before
\* EXEC, and notifications are lost.
BooksBalance ==
    "answer" \notin Faults =>
        \A m \in Macs, c \in Channels :
            booked[m][c] = IF ChanOf(macCopy[m]) = c THEN 1 ELSE 0

Register == INSTANCE Audience WITH where <- macCopy, credit <- booked

\* As long as no EXEC answer is lost, each box behaves like a register whose
\* count moves with its value in one step, whoever wins the race for its keys:
\* the bolt of the next event, the trigger of the last session, or neither.
AudienceRefined == Register!Spec

\* A thread that will still remove the session of m.
WillRemove(t, m) ==
    on[t] = m /\ pc[t] \in {"get", "exec"} /\ ~dirty[t]

\* While notifications arrive and the trigger's calls succeed, a session that
\* outlives its mac key is always about to be cleaned up: nothing would ever
\* renew or expire it otherwise, since EXPIRE does nothing to a missing key and
\* mac|cp has no TTL.
ExpiredSessionCovered ==
    Faults \cap {"call", "notify"} = {} =>
        \A m \in Macs :
            macCopy[m] # None /\ macKey[m] = "absent" =>
                queued[m] > 0 \/ \E t \in Threads : WillRemove(t, m)

\* Under the fairness of FairSpec and reliable notifications, once events stop
\* every box leaves: its session is removed for good.
SilentBoxesLeave == <>[](\A m \in Macs : macCopy[m] = None)

=============================================================================
