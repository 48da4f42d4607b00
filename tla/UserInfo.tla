------------------------------ MODULE UserInfo ------------------------------
(***************************************************************************)
(* userinfo-maintain and userinfo-app-version: two Storm topologies that   *)
(* keep the row user_info of a box.                                        *)
(*                                                                         *)
(* userinfo-maintain follows the openings of boxes. Its first bolt emits   *)
(* unanchored tuples, so that nothing after it is ever repeated. An        *)
(* opening goes four ways: first_open and the version are written if a     *)
(* count has found none, last_open always, and a box without an account    *)
(* is reported to RabbitMQ. Counting and writing are asynchronous, and     *)
(* tuples are shuffled over tasks: nothing keeps two openings of a box     *)
(* apart.                                                                  *)
(*                                                                         *)
(* userinfo-app-version follows upgrades. It reads the version, and if it  *)
(* is another one writes it and adds it to the box's history. Its tuples   *)
(* are anchored: what fails or takes too long is done again, which does    *)
(* not stop what is under way.                                             *)
(*                                                                         *)
(* Cassandra is external, taken to answer with the last write; so are      *)
(* Storm, RabbitMQ and its consumer (RmConsumer). One version column and   *)
(* its history stand for those of the three kinds of application.          *)
(***************************************************************************)
EXTENDS Naturals, Sequences, FiniteSets

CONSTANTS
    Boxes, Versions, None,
    MaxEvents,      \* bound: log lines
    MaxLoad,        \* bound: the same, with those about openings counted twice
    MaxAttempts,    \* bound: how often a log line of an upgrade is emitted
    Faults          \* the kinds of failure that may happen

ASSUME UserInfoAssumption ==
    /\ None \notin Versions
    /\ MaxEvents \in Nat /\ MaxLoad \in Nat /\ MaxAttempts \in Nat \ {0}
    /\ Faults \subseteq {"lose", "fail", "again"}

VARIABLES
    log,        \* the log lines so far, in order; a line's number is its logTime
    way,        \* what the four ways of each opening are at
    attempt,    \* what the attempts at each upgrade are at
    firstOpen, lastOpen, version, history,   \* columns of user_info, 0 and None if null
    account,    \* the boxes with a main_account_id
    asked,      \* the boxes RabbitMQ has been told of
    acked,      \* history: the upgrades that were acked
    crowded     \* history: the boxes of which two log lines were handled at a time

row == <<firstOpen, lastOpen, version, history, account, asked>>
doing == <<way, attempt>>
vars == <<log, doing, row, acked, crowded>>

Ways == {"fopen", "appv", "last", "main"}
Attempts == 1 .. MaxAttempts
Event == 1 .. MaxEvents
Line == [kind : {"open", "upgrade"}, box : Boxes, version : Versions]

Events(kind, b) == {e \in 1 .. Len(log) : log[e].kind = kind /\ log[e].box = b}
Openings(b) == Events("open", b)
Upgrades(b) == Events("upgrade", b)
Occurred == 1 .. Len(log)

UnderWay == {"read", "write"}
State == {"none", "done", "lost"} \cup UnderWay

UiTypeOK ==
    /\ log \in Seq(Line) /\ Len(log) <= MaxEvents
    /\ way \in [Event -> [Ways -> State]]
    /\ attempt \in [Event -> [Attempts -> State]]
    /\ \A e \in Event :
          /\ e \in Occurred /\ log[e].kind = "open" <=> \A w \in Ways : way[e][w] # "none"
          /\ e \in Occurred /\ log[e].kind = "upgrade" <=> attempt[e][1] # "none"
    /\ firstOpen \in [Boxes -> 0 .. MaxEvents]
    /\ lastOpen \in [Boxes -> 0 .. MaxEvents]
    /\ \A b \in Boxes :
          /\ firstOpen[b] \in Openings(b) \cup {0}
          /\ lastOpen[b] \in Openings(b) \cup {0}
    /\ version \in [Boxes -> Versions \cup {None}]
    /\ history \in [Boxes -> SUBSET Versions]
    /\ \A b \in Boxes : history[b] # {} => version[b] # None
    /\ account \subseteq asked /\ asked \subseteq Boxes
    /\ acked \subseteq {e \in Occurred : log[e].kind = "upgrade"}
    /\ crowded \subseteq Boxes

Init ==
    /\ log = <<>>
    /\ way = [e \in Event |-> [w \in Ways |-> "none"]]
    /\ attempt = [e \in Event |-> [a \in Attempts |-> "none"]]
    /\ firstOpen = [b \in Boxes |-> 0] /\ lastOpen = [b \in Boxes |-> 0]
    /\ version = [b \in Boxes |-> None] /\ history = [b \in Boxes |-> {}]
    /\ account = {} /\ asked = {}
    /\ acked = {} /\ crowded = {}

\* Is a log line of box b being handled?
Busy(b) ==
    \E e \in Occurred :
        /\ log[e].box = b
        /\ \/ \E w \in Ways : way[e][w] \in UnderWay
           \/ \E a \in Attempts : attempt[e][a] \in UnderWay

-----------------------------------------------------------------------------
(* Log lines.                                                              *)

\* Line l comes from Kafka.
Arrive(l) ==
    /\ Len(log) < MaxEvents
    /\ log' = Append(log, l)
    /\ Len(log') + Cardinality({e \in 1 .. Len(log') : log'[e].kind = "open"}) <= MaxLoad
    /\ crowded' = IF Busy(l.box) THEN crowded \cup {l.box} ELSE crowded
    /\ UNCHANGED <<row, acked>>

\* TopFilter, Distinguish and UpdateUinfo: a line with action 1.
Open(b, v) ==
    /\ Arrive([kind |-> "open", box |-> b, version |-> v])
    /\ way' = [way EXCEPT ![Len(log) + 1] =
                  [w \in Ways |-> IF w = "last" THEN "write" ELSE "read"]]
    /\ UNCHANGED attempt

\* A line about a successful upgrade.
Upgrade(b, v) ==
    /\ Arrive([kind |-> "upgrade", box |-> b, version |-> v])
    /\ attempt' = [attempt EXCEPT ![Len(log) + 1][1] = "read"]
    /\ UNCHANGED way

-----------------------------------------------------------------------------
(* userinfo-maintain.                                                      *)

\* Way w of line e goes on to where.
Along(e, w, where) ==
    /\ way' = [way EXCEPT ![e][w] = where]
    /\ UNCHANGED <<log, attempt, acked, crowded>>

\* Mutant: first_open is written without a look.
FOpenNotAsked(e) ==
    /\ way[e]["fopen"] = "read"
    /\ Along(e, "fopen", "write")
    /\ UNCHANGED row

\* select count(first_open): emitted to the update if there is none.
FOpenIsNull(e) ==
    /\ way[e]["fopen"] = "read"
    /\ Along(e, "fopen", IF firstOpen[log[e].box] = 0 THEN "write" ELSE "done")
    /\ UNCHANGED row

FOpenUpdate(e) ==
    /\ way[e]["fopen"] = "write"
    /\ firstOpen' = [firstOpen EXCEPT ![log[e].box] = e]
    /\ Along(e, "fopen", "done")
    /\ UNCHANGED <<lastOpen, version, history, account, asked>>

AppVersionIsNull(e) ==
    /\ way[e]["appv"] = "read"
    /\ Along(e, "appv", IF version[log[e].box] = None THEN "write" ELSE "done")
    /\ UNCHANGED row

AppVersionUpdate(e) ==
    /\ way[e]["appv"] = "write"
    /\ version' = [version EXCEPT ![log[e].box] = log[e].version]
    /\ Along(e, "appv", "done")
    /\ UNCHANGED <<firstOpen, lastOpen, history, account, asked>>

NoJudgeUpdate(e) ==
    /\ way[e]["last"] = "write"
    /\ lastOpen' = [lastOpen EXCEPT ![log[e].box] = e]
    /\ Along(e, "last", "done")
    /\ UNCHANGED <<firstOpen, version, history, account, asked>>

\* main_isnull, and RabbitMQ_Bolt for a partner that is listed and has a queue.
MainIsNull(e) ==
    /\ way[e]["main"] = "read"
    /\ asked' = IF log[e].box \in account THEN asked ELSE asked \cup {log[e].box}
    /\ Along(e, "main", "done")
    /\ UNCHANGED <<firstOpen, lastOpen, version, history, account>>

\* A call fails or a worker dies. fail() of such a tuple reaches no spout.
Lose(e, w) ==
    /\ "lose" \in Faults
    /\ way[e][w] \in UnderWay
    /\ Along(e, w, "lost")
    /\ UNCHANGED row

\* The consumer finds the account of a box it was asked for.
Account(b) ==
    /\ b \in asked \ account
    /\ account' = account \cup {b}
    /\ UNCHANGED <<log, doing, firstOpen, lastOpen, version, history, asked, acked,
                   crowded>>

-----------------------------------------------------------------------------
(* userinfo-app-version.                                                   *)

\* Attempt a at line e ends as told.
Ends(e, a, how) == attempt' = [attempt EXCEPT ![e][a] = how]

\* The spout waits for the last attempt; the answers to others it ignores.
Current(e, a) == \A n \in Attempts : n > a => attempt[e][n] = "none"

Answered(e, a) == acked' = IF Current(e, a) THEN acked \cup {e} ELSE acked

\* Mutant: a version is written only if there is none.
AppVersionIsBlank(e, a) ==
    /\ attempt[e][a] = "read"
    /\ IF version[log[e].box] # None
       THEN Ends(e, a, "done") /\ Answered(e, a)
       ELSE Ends(e, a, "write") /\ UNCHANGED acked
    /\ UNCHANGED <<log, way, row, crowded>>

\* The version is read; if it is this one already, there is nothing to do.
AppVersionIsChanged(e, a) ==
    /\ attempt[e][a] = "read"
    /\ IF version[log[e].box] = log[e].version
       THEN Ends(e, a, "done") /\ Answered(e, a)
       ELSE Ends(e, a, "write") /\ UNCHANGED acked
    /\ UNCHANGED <<log, way, row, crowded>>

\* Mutant: only the history is written.
HistoryUpdate(b, v) ==
    /\ history' = [history EXCEPT ![b] = @ \cup {v}]
    /\ UNCHANGED version

\* One statement for both columns.
VersionUpdate(b, v) ==
    /\ version' = [version EXCEPT ![b] = v]
    /\ history' = [history EXCEPT ![b] = @ \cup {v}]

UpdateVersion(e, a) ==
    /\ attempt[e][a] = "write"
    /\ VersionUpdate(log[e].box, log[e].version)
    /\ Ends(e, a, "done")
    /\ Answered(e, a)
    /\ UNCHANGED <<log, way, firstOpen, lastOpen, account, asked, crowded>>

\* The spout emits line e again; other lines of its box may have come since.
Replay(e, a) ==
    /\ a < MaxAttempts /\ Current(e, a)
    /\ crowded' = IF \E f \in Occurred : f > e /\ log[f].box = log[e].box
                  THEN crowded \cup {log[e].box} ELSE crowded

\* Mutant: a failing attempt is acked, as in RabbitMQ_Bolt.
FailsAndAcks(e, a) ==
    /\ "fail" \in Faults
    /\ attempt[e][a] \in UnderWay
    /\ Ends(e, a, "lost")
    /\ Answered(e, a)
    /\ UNCHANGED <<log, way, row, crowded>>

\* A call fails; whether a failing update was applied, nobody knows.
Fails(e, a) ==
    /\ "fail" \in Faults
    /\ attempt[e][a] \in UnderWay
    /\ Replay(e, a)
    /\ attempt' = [attempt EXCEPT ![e] = [@ EXCEPT ![a] = "lost", ![a + 1] = "read"]]
    /\ \/ UNCHANGED <<version, history>>
       \/ attempt[e][a] = "write" /\ VersionUpdate(log[e].box, log[e].version)
    /\ UNCHANGED <<log, way, firstOpen, lastOpen, account, asked, acked>>

\* An attempt that is not waited for any more fails.
FailsLate(e, a) ==
    /\ "fail" \in Faults
    /\ attempt[e][a] \in UnderWay /\ ~Current(e, a)
    /\ Ends(e, a, "lost")
    /\ UNCHANGED <<log, way, row, acked, crowded>>

\* The time for the line is over, or the spout starts at an offset further back.
Again(e, a) ==
    /\ "again" \in Faults
    /\ attempt[e][a] \in UnderWay \cup {"done"}
    /\ Replay(e, a)
    /\ Ends(e, a + 1, "read")
    /\ UNCHANGED <<log, way, row, acked>>

-----------------------------------------------------------------------------
OpeningStep(e) ==
    \/ FOpenIsNull(e) \/ FOpenUpdate(e) \/ AppVersionIsNull(e) \/ AppVersionUpdate(e)
    \/ NoJudgeUpdate(e) \/ MainIsNull(e)

AttemptStep(e, a) == AppVersionIsChanged(e, a) \/ UpdateVersion(e, a)

Next ==
    \/ \E b \in Boxes, v \in Versions : Open(b, v) \/ Upgrade(b, v)
    \/ \E e \in Event : OpeningStep(e) \/ \E w \in Ways : Lose(e, w)
    \/ \E e \in Event, a \in Attempts :
         AttemptStep(e, a) \/ Fails(e, a) \/ FailsLate(e, a) \/ Again(e, a)
    \/ \E b \in Boxes : Account(b)

Spec == Init /\ [][Next]_vars

-----------------------------------------------------------------------------
(* Properties.                                                             *)

\* As long as the lines of a box come one after the other, first_open is that of the
\* first opening that was not lost, although it is decided by a count and written
\* by another bolt later.
FirstOpenIsFirst ==
    \A b \in Boxes \ crowded :
        firstOpen[b] # 0 =>
            \A e \in Openings(b) : way[e]["fopen"] = "done" => firstOpen[b] <= e

\* And a box at rest has the version of its last upgrade: neither replays of it
\* nor an opening that reports an older version undo it.
LatestVersion ==
    \A b \in Boxes \ crowded :
        ~Busy(b) => \A e \in Upgrades(b) :
            (\A f \in Upgrades(b) : f <= e) => version[b] = log[e].version

\* Whatever overlaps, fails, comes late or is done twice: the version of an acked
\* upgrade is in the history of its box, or an opening has reported it.
UpgradesKept ==
    \A e \in acked :
        \/ log[e].version \in history[log[e].box]
        \/ \E o \in Openings(log[e].box) : log[o].version = log[e].version

=============================================================================
