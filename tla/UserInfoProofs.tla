--------------------------- MODULE UserInfoProofs ---------------------------
(***************************************************************************)
(* The invariants of UserInfo, for any number of boxes, versions, log      *)
(* lines and attempts, and any failures.                                   *)
(*                                                                         *)
(* The properties about boxes whose lines come one after the other rest    *)
(* on OneAtATime: of such a box only the last line is being worked on.     *)
(***************************************************************************)
EXTENDS UserInfo, SequenceTheorems, TLAPS

LinesOK == log \in Seq(Line) /\ Len(log) <= MaxEvents

\* The ways and attempts in use are those of openings and upgrades.
StatesOK ==
    /\ way \in [Event -> [Ways -> State]]
    /\ attempt \in [Event -> [Attempts -> State]]
    /\ \A e \in Event, w \in Ways :
          way[e][w] # "none" <=> e \in Occurred /\ log[e].kind = "open"
    /\ \A e \in Event, a \in Attempts :
          attempt[e][a] # "none" => e \in Occurred /\ log[e].kind = "upgrade"
    /\ \A e \in Occurred : log[e].kind = "upgrade" => attempt[e][1] # "none"

RowOK ==
    /\ firstOpen \in [Boxes -> 0 .. MaxEvents]
    /\ lastOpen \in [Boxes -> 0 .. MaxEvents]
    /\ \A b \in Boxes : /\ firstOpen[b] \in Openings(b) \cup {0}
                        /\ lastOpen[b] \in Openings(b) \cup {0}
    /\ version \in [Boxes -> Versions \cup {None}]
    /\ history \in [Boxes -> SUBSET Versions]
    /\ \A b \in Boxes : history[b] # {} => version[b] # None
    /\ account \subseteq asked /\ asked \subseteq Boxes
    /\ acked \subseteq {e \in Occurred : log[e].kind = "upgrade"}
    /\ crowded \subseteq Boxes

Types == LinesOK /\ StatesOK /\ RowOK

LEMMA Typed == Types => UiTypeOK
<1> SUFFICES ASSUME Types PROVE UiTypeOK
  OBVIOUS
<1> USE DEF Types, LinesOK, StatesOK, RowOK
<1>1. ASSUME NEW e \in Event
      PROVE  /\ e \in Occurred /\ log[e].kind = "open" <=> \A w \in Ways : way[e][w] # "none"
             /\ e \in Occurred /\ log[e].kind = "upgrade" <=> attempt[e][1] # "none"
  <2>1. "fopen" \in Ways /\ 1 \in Attempts
    BY UserInfoAssumption DEF Ways, Attempts
  <2> QED
    BY <2>1
<1> QED
  BY <1>1 DEF UiTypeOK

LEMMA TypesInit == Init => Types
<1> SUFFICES ASSUME Init PROVE Types
  OBVIOUS
<1>1. LinesOK
  BY UserInfoAssumption DEF Init, LinesOK
<1>2. StatesOK
  BY DEF Init, StatesOK, State, Occurred
<1>3. RowOK
  BY UserInfoAssumption DEF Init, RowOK
<1> QED
  BY <1>1, <1>2, <1>3 DEF Types

-----------------------------------------------------------------------------
(* What a step leaves alone.                                               *)

\* What is known of the lines when one more has come.
LEMMA Arrives ==
    ASSUME LinesOK, NEW l \in Line, Arrive(l)
    PROVE  /\ LinesOK'
           /\ Len(log) + 1 \in Event \ Occurred
           /\ Occurred' = Occurred \cup {Len(log) + 1}
           /\ Occurred \subseteq Event
           /\ \A i \in Occurred : log'[i] = log[i]
           /\ log'[Len(log) + 1] = l
<1> USE DEF LinesOK, Arrive, Occurred, Event
<1>1. Len(log) \in Nat /\ Len(log) < MaxEvents /\ MaxEvents \in Nat
  BY UserInfoAssumption
<1>2. /\ log' \in Seq(Line) /\ Len(log') = Len(log) + 1
      /\ \A i \in 1 .. Len(log) : log'[i] = log[i]
      /\ log'[Len(log) + 1] = l
  BY AppendProperties
<1> QED
  BY <1>1, <1>2

LEMMA LineType ==
    ASSUME LinesOK, NEW e \in Occurred
    PROVE  /\ e \in Event
           /\ log[e].box \in Boxes /\ log[e].version \in Versions
           /\ log[e].kind \in {"open", "upgrade"}
<1>1. log[e] \in Line /\ e \in Event
  BY UserInfoAssumption, ElementOfSeq DEF LinesOK, Occurred, Event
<1> QED
  BY <1>1 DEF Line

\* Lines stay what they are.
LEMMA LinesStay ==
    ASSUME UNCHANGED log
    PROVE  /\ Occurred' = Occurred
           /\ \A b : Openings(b)' = Openings(b) /\ Upgrades(b)' = Upgrades(b)
           /\ LinesOK => LinesOK'
  BY DEF Occurred, Openings, Upgrades, Events, LinesOK

\* A line that is being worked on.
Working(e) ==
    \/ \E w \in Ways : way[e][w] \in UnderWay
    \/ \E a \in Attempts : attempt[e][a] \in UnderWay

\* No line of the box of e has come after it, or the box is crowded now.
NoneAfter(e) ==
    \A f \in Occurred : f > e /\ log[f].box = log[e].box => log[e].box \in crowded'

StepOf(e) ==
    \/ OpeningStep(e) \/ \E w \in Ways : Lose(e, w)
    \/ \E a \in Attempts :
         AttemptStep(e, a) \/ Fails(e, a) \/ FailsLate(e, a) \/ Again(e, a)

Effect(e) ==
    /\ UNCHANGED log
    /\ e \in Occurred
    /\ \A f \in Event \ {e} : way'[f] = way[f] /\ attempt'[f] = attempt[f]
    /\ crowded \subseteq crowded'
    /\ Working(e) \/ NoneAfter(e)

\* A way of an opening goes on.
LEMMA WayEffect ==
    ASSUME Types, NEW e \in Event, NEW w \in Ways, NEW s \in State \ {"none"},
           way[e][w] \in UnderWay, Along(e, w, s)
    PROVE  Effect(e) /\ StatesOK'
<1> USE DEF Types, StatesOK, Along
<1>1. e \in Occurred /\ log[e].kind = "open"
  BY DEF UnderWay
<1>2. /\ UNCHANGED <<log, attempt, acked, crowded>> /\ Occurred' = Occurred
      /\ way' = [way EXCEPT ![e][w] = s]
  BY DEF Occurred
<1>3. way' \in [Event -> [Ways -> State]]
  BY <1>2
<1>4. \A f \in Event \ {e} : way'[f] = way[f]
  BY <1>2
<1>5. \A v \in Ways : way'[e][v] = IF v = w THEN s ELSE way[e][v]
  BY <1>2
<1>6. \A f \in Event, v \in Ways : way'[f][v] # "none" <=> way[f][v] # "none"
  BY <1>1, <1>4, <1>5
<1> QED
  BY <1>1, <1>2, <1>3, <1>4, <1>6 DEF Effect, Working

\* An attempt at an upgrade goes on.
LEMMA AttemptEffect ==
    ASSUME Types, NEW e \in Event, NEW a \in Attempts, NEW s \in State \ {"none"},
           attempt[e][a] \in UnderWay, Ends(e, a, s), UNCHANGED <<log, way, crowded>>
    PROVE  Effect(e) /\ StatesOK'
<1> USE DEF Types, StatesOK, Ends
<1>1. e \in Occurred /\ log[e].kind = "upgrade"
  BY DEF UnderWay
<1>2. Occurred' = Occurred /\ attempt' = [attempt EXCEPT ![e][a] = s]
  BY DEF Occurred
<1>3. attempt' \in [Event -> [Attempts -> State]]
  BY <1>2
<1>4. \A f \in Event \ {e} : attempt'[f] = attempt[f]
  BY <1>2
<1>5. \A n \in Attempts : attempt'[e][n] = IF n = a THEN s ELSE attempt[e][n]
  BY <1>2
<1>6. 1 \in Attempts /\ Occurred \subseteq Event
  BY UserInfoAssumption DEF Attempts, LinesOK, Occurred, Event
<1> QED
  BY <1>1, <1>2, <1>3, <1>4, <1>5, <1>6 DEF Effect, Working

\* A line is emitted again.
LEMMA ReplayEffect ==
    ASSUME Types, NEW e \in Event, NEW a \in Attempts, NEW s \in State \ {"none"},
           attempt[e][a] \in UnderWay \cup {"done"}, Replay(e, a),
           attempt' = [attempt EXCEPT ![e] = [@ EXCEPT ![a] = s, ![a + 1] = "read"]],
           UNCHANGED <<log, way>>
    PROVE  Effect(e) /\ StatesOK' /\ crowded' \subseteq Boxes
<1> USE DEF Types, StatesOK
<1>1. e \in Occurred /\ log[e].kind = "upgrade"
  BY DEF UnderWay
<1>2. Occurred' = Occurred /\ a + 1 \in Attempts
  BY UserInfoAssumption DEF Occurred, Replay, Attempts
<1>3. attempt' \in [Event -> [Attempts -> State]]
  BY <1>2 DEF State, UnderWay
<1>4. \A f \in Event \ {e} : attempt'[f] = attempt[f]
  OBVIOUS
<1>5. \A n \in Attempts :
        attempt'[e][n] = IF n = a + 1 THEN "read" ELSE IF n = a THEN s ELSE attempt[e][n]
  BY <1>2
<1>6. 1 \in Attempts /\ Occurred \subseteq Event
  BY UserInfoAssumption DEF Attempts, LinesOK, Occurred, Event
<1>7. log[e].box \in Boxes
  BY <1>1, LineType
<1>8. NoneAfter(e) /\ crowded \subseteq crowded' /\ crowded' \subseteq Boxes
  BY <1>7 DEF Replay, NoneAfter, RowOK
<1> QED
  BY <1>1, <1>2, <1>3, <1>4, <1>5, <1>6, <1>8 DEF Effect

-----------------------------------------------------------------------------
(* Types.                                                                  *)

LEMMA OpenTypes ==
    ASSUME Types, NEW b \in Boxes, NEW v \in Versions, Open(b, v) \/ Upgrade(b, v)
    PROVE  StatesOK' /\ RowOK'
<1> DEFINE n == Len(log) + 1
<1>1. PICK k \in {"open", "upgrade"} :
         /\ Arrive([kind |-> k, box |-> b, version |-> v])
         /\ k = "open" => Open(b, v)
         /\ k = "upgrade" => Upgrade(b, v)
  BY DEF Open, Upgrade
<1>2. [kind |-> k, box |-> b, version |-> v] \in Line
  BY DEF Line
<1>3. /\ n \in Event \ Occurred /\ Occurred' = Occurred \cup {n}
      /\ Occurred \subseteq Event
      /\ \A i \in Occurred : log'[i] = log[i]
      /\ log'[n].kind = k
  BY <1>1, <1>2, Arrives DEF Types
<1>4. RowOK'
  <2>1. /\ crowded' \subseteq Boxes
        /\ UNCHANGED <<firstOpen, lastOpen, version, history, account, asked, acked>>
    BY <1>1 DEF Arrive, row, Types, RowOK
  <2>2. \A c \in Boxes : Openings(c) \subseteq Openings(c)'
    BY <1>3 DEF Openings, Events, Occurred
  <2> QED
    BY <1>3, <2>1, <2>2 DEF Types, RowOK
<1>5. StatesOK'
  <2>1. 1 \in Attempts /\ \A e \in Event \ {n} :
          e \in Occurred' <=> e \in Occurred
    BY <1>3, UserInfoAssumption DEF Attempts
  <2>2. /\ \A w \in Ways : way[n][w] = "none"
        /\ \A a \in Attempts : attempt[n][a] = "none"
    BY <1>3 DEF Types, StatesOK
  <2>a. /\ \A e \in Event, w \in Ways :
              way[e][w] # "none" <=> e \in Occurred /\ log[e].kind = "open"
        /\ \A e \in Event, a \in Attempts :
              attempt[e][a] # "none" => e \in Occurred /\ log[e].kind = "upgrade"
        /\ \A e \in Occurred : log[e].kind = "upgrade" => attempt[e][1] # "none"
        /\ way \in [Event -> [Ways -> State]] /\ attempt \in [Event -> [Attempts -> State]]
    BY DEF Types, StatesOK
  <2>b. \A e \in Event \ {n} :
           /\ e \in Occurred' <=> e \in Occurred
           /\ e \in Occurred => log'[e] = log[e]
    BY <1>3
  <2>c. n \in Occurred' /\ n \in Event /\ log'[n].kind = k
    BY <1>3
  <2>s. SUFFICES
          /\ way' \in [Event -> [Ways -> State]] /\ attempt' \in [Event -> [Attempts -> State]]
          /\ \A e \in Event, w \in Ways :
               way'[e][w] # "none" <=> e \in Occurred' /\ log'[e].kind = "open"
          /\ \A e \in Event, a \in Attempts :
               attempt'[e][a] # "none" => e \in Occurred' /\ log'[e].kind = "upgrade"
          /\ \A e \in Event : e \in Occurred' /\ log'[e].kind = "upgrade" => attempt'[e][1] # "none"
    BY <1>3 DEF StatesOK
  <2> HIDE DEF n
  <2>3. CASE k = "open"
    <3>1. /\ way' = [way EXCEPT ![n] = [w \in Ways |-> IF w = "last" THEN "write"
                                                                    ELSE "read"]]
          /\ attempt' = attempt
      BY <1>1, <2>3 DEF Open, n
    <3>2. /\ \A e \in Event \ {n} : way'[e] = way[e]
          /\ \A w \in Ways : way'[n][w] \in UnderWay /\ way'[n][w] # "none"
          /\ way' \in [Event -> [Ways -> State]]
      <4>1. [w \in Ways |-> IF w = "last" THEN "write" ELSE "read"] \in [Ways -> State]
        BY DEF State, UnderWay
      <4>2. way \in [Event -> [Ways -> State]] /\ n \in Event
        BY <1>3 DEF Types, StatesOK
      <4> QED
        BY <3>1, <4>1, <4>2 DEF UnderWay
    <3>3. \A e \in Event, w \in Ways :
             way'[e][w] # "none" <=> e \in Occurred' /\ log'[e].kind = "open"
      BY <2>2, <2>3, <2>a, <2>b, <2>c, <3>1, <3>2
    <3>4. \A e \in Event, a \in Attempts :
             attempt'[e][a] # "none" => e \in Occurred' /\ log'[e].kind = "upgrade"
      BY <2>2, <2>3, <2>a, <2>b, <2>c, <3>1, <3>2
    <3>5. \A e \in Event : e \in Occurred' /\ log'[e].kind = "upgrade" => attempt'[e][1] # "none"
      BY <2>1, <2>2, <2>3, <2>a, <2>b, <2>c, <3>1, <3>2
    <3> QED
      BY <2>a, <3>1, <3>2, <3>3, <3>4, <3>5
  <2>4. CASE k = "upgrade"
    <3>1. attempt' = [attempt EXCEPT ![n][1] = "read"] /\ way' = way
      BY <1>1, <2>4 DEF Upgrade, n
    <3>2. /\ \A e \in Event \ {n} : attempt'[e] = attempt[e]
          /\ attempt'[n][1] = "read"
          /\ attempt' \in [Event -> [Attempts -> State]]
      <4>1. attempt \in [Event -> [Attempts -> State]] /\ n \in Event /\ "read" \in State
        BY <1>3 DEF Types, StatesOK, State, UnderWay
      <4> QED
        BY <2>1, <3>1, <4>1
    <3>3. \A e \in Event, w \in Ways :
             way'[e][w] # "none" <=> e \in Occurred' /\ log'[e].kind = "open"
      BY <2>2, <2>4, <2>a, <2>b, <2>c, <3>1, <3>2
    <3>4. \A e \in Event, a \in Attempts :
             attempt'[e][a] # "none" => e \in Occurred' /\ log'[e].kind = "upgrade"
      BY <2>2, <2>4, <2>a, <2>b, <2>c, <3>1, <3>2
    <3>5. \A e \in Event : e \in Occurred' /\ log'[e].kind = "upgrade" => attempt'[e][1] # "none"
      BY <2>1, <2>2, <2>4, <2>a, <2>b, <2>c, <3>1, <3>2
    <3> QED
      BY <2>a, <3>1, <3>2, <3>3, <3>4, <3>5
  <2> QED
    BY <2>3, <2>4
<1> QED
  BY <1>4, <1>5

\* The types, and what a step about one line leaves alone.
LEMMA OneTypes ==
    ASSUME Types, NEW e \in Event, StepOf(e)
    PROVE  Types' /\ Effect(e)
<1> USE DEF row, doing
<1>s. {"done", "write", "lost"} \subseteq State \ {"none"} /\ "read" \in UnderWay
      /\ "write" \in UnderWay
  BY DEF State, UnderWay
<1>b. e \in Occurred => log[e].box \in Boxes /\ log[e].version \in Versions
  BY LineType DEF Types
<1>o. \A w \in Ways : way[e][w] \in UnderWay => e \in Occurred /\ log[e].kind = "open"
  BY DEF Types, StatesOK, UnderWay
<1>u. \A a \in Attempts : attempt[e][a] \in UnderWay =>
        e \in Occurred /\ log[e].kind = "upgrade"
  BY DEF Types, StatesOK, UnderWay
<1>w. {"fopen", "appv", "last", "main"} = Ways
  BY DEF Ways
<1>l. ASSUME Effect(e), StatesOK', RowOK' PROVE Types' /\ Effect(e)
  <2>1. UNCHANGED log
    BY <1>l DEF Effect
  <2> QED
    BY <1>l, <2>1, LinesStay DEF Types
<1>r. ASSUME UNCHANGED <<log, row>>,
             \/ acked' = acked
             \/ acked' \subseteq acked \cup {e} /\ e \in Occurred /\ log[e].kind = "upgrade",
             crowded' \subseteq Boxes
      PROVE  RowOK'
  BY <1>r, LinesStay DEF Types, RowOK
<1>a. ASSUME NEW a \in Attempts, attempt[e][a] \in UnderWay
      PROVE  Answered(e, a) => acked' \subseteq acked \cup {e}
  BY DEF Answered
<1>c. crowded \subseteq Boxes
  BY DEF Types, RowOK
<1>1. CASE FOpenIsNull(e)
  <2>1. PICK s \in {"done", "write"} : Along(e, "fopen", s)
    BY <1>1 DEF FOpenIsNull, Along
  <2> QED
    BY <1>1, <2>1, <1>s, <1>w, <1>c, <1>l, <1>r, WayEffect DEF FOpenIsNull, Along
<1>2. CASE FOpenUpdate(e)
  <2>1. Effect(e) /\ StatesOK'
    BY <1>2, <1>s, <1>w, WayEffect DEF FOpenUpdate
  <2>2. e \in Openings(log[e].box) /\ log[e].box \in Boxes
    BY <1>2, <1>s, <1>w, <1>o, <1>b DEF FOpenUpdate, Openings, Events, Occurred
  <2>3. RowOK'
    BY <1>2, <2>2, LinesStay DEF FOpenUpdate, Along, Types, RowOK, Event
  <2> QED
    BY <2>1, <2>3, <1>l
<1>3. CASE AppVersionIsNull(e)
  <2>1. PICK s \in {"done", "write"} : Along(e, "appv", s)
    BY <1>3 DEF AppVersionIsNull, Along
  <2> QED
    BY <1>3, <2>1, <1>s, <1>w, <1>c, <1>l, <1>r, WayEffect DEF AppVersionIsNull, Along
<1>4. CASE AppVersionUpdate(e)
  <2>1. Effect(e) /\ StatesOK'
    BY <1>4, <1>s, <1>w, WayEffect DEF AppVersionUpdate
  <2>2. log[e].box \in Boxes /\ log[e].version \in Versions
    BY <1>4, <1>s, <1>w, <1>o, <1>b DEF AppVersionUpdate
  <2>3. RowOK'
    BY <1>4, <2>2, LinesStay, UserInfoAssumption DEF AppVersionUpdate, Along, Types, RowOK
  <2> QED
    BY <2>1, <2>3, <1>l
<1>5. CASE NoJudgeUpdate(e)
  <2>1. Effect(e) /\ StatesOK'
    BY <1>5, <1>s, <1>w, WayEffect DEF NoJudgeUpdate
  <2>2. e \in Openings(log[e].box) /\ log[e].box \in Boxes
    BY <1>5, <1>s, <1>w, <1>o, <1>b DEF NoJudgeUpdate, Openings, Events, Occurred
  <2>3. RowOK'
    BY <1>5, <2>2, LinesStay DEF NoJudgeUpdate, Along, Types, RowOK, Event
  <2> QED
    BY <2>1, <2>3, <1>l
<1>6. CASE MainIsNull(e)
  <2>1. Effect(e) /\ StatesOK'
    BY <1>6, <1>s, <1>w, WayEffect DEF MainIsNull
  <2>2. log[e].box \in Boxes
    <3>1. "main" \in Ways /\ way[e]["main"] \in UnderWay
      BY <1>6, <1>s, <1>w DEF MainIsNull
    <3> QED
      BY <3>1, <1>o, <1>b
  <2>3. RowOK'
    BY <1>6, <2>2, LinesStay DEF MainIsNull, Along, Types, RowOK
  <2> QED
    BY <2>1, <2>3, <1>l
<1>7. ASSUME NEW w \in Ways, Lose(e, w) PROVE Types' /\ Effect(e)
  BY <1>7, <1>s, <1>c, <1>l, <1>r, WayEffect DEF Lose, Along
<1>8. ASSUME NEW a \in Attempts, AppVersionIsChanged(e, a) PROVE Types' /\ Effect(e)
  <2>1. PICK s \in {"done", "write"} : Ends(e, a, s)
    BY <1>8 DEF AppVersionIsChanged
  <2>2. Effect(e) /\ StatesOK'
    BY <1>8, <2>1, <1>s, AttemptEffect DEF AppVersionIsChanged
  <2>3. RowOK'
    BY <1>8, <1>s, <1>u, <1>a, <1>c, <1>r DEF AppVersionIsChanged
  <2> QED
    BY <2>2, <2>3, <1>l
<1>v. ASSUME UNCHANGED <<log, firstOpen, lastOpen, account, asked>>, crowded' \subseteq Boxes,
             acked' \subseteq acked \cup {e}, e \in Occurred /\ log[e].kind = "upgrade",
             VersionUpdate(log[e].box, log[e].version)
      PROVE  RowOK'
  BY <1>v, <1>b, LinesStay, UserInfoAssumption DEF Types, RowOK, VersionUpdate
<1>9. ASSUME NEW a \in Attempts, UpdateVersion(e, a) PROVE Types' /\ Effect(e)
  <2>2. Effect(e) /\ StatesOK'
    BY <1>9, <1>s, AttemptEffect DEF UpdateVersion
  <2>3. RowOK'
    BY <1>9, <1>s, <1>u, <1>a, <1>c, <1>v DEF UpdateVersion
  <2> QED
    BY <2>2, <2>3, <1>l
<1>10. ASSUME NEW a \in Attempts, Fails(e, a) PROVE Types' /\ Effect(e)
  <2>2. Effect(e) /\ StatesOK' /\ crowded' \subseteq Boxes
    BY <1>10, <1>s, ReplayEffect DEF Fails
  <2>3. RowOK'
    <3>1. CASE UNCHANGED <<version, history>>
      BY <1>10, <3>1, <2>2, <1>r DEF Fails
    <3>2. CASE VersionUpdate(log[e].box, log[e].version)
      BY <1>10, <3>2, <2>2, <1>u, <1>v DEF Fails
    <3> QED
      BY <1>10, <3>1, <3>2 DEF Fails
  <2> QED
    BY <2>2, <2>3, <1>l
<1>11. ASSUME NEW a \in Attempts, FailsLate(e, a) PROVE Types' /\ Effect(e)
  <2>2. Effect(e) /\ StatesOK'
    BY <1>11, <1>s, AttemptEffect DEF FailsLate
  <2> QED
    BY <1>11, <2>2, <1>l, <1>c, <1>r DEF FailsLate
<1>12. ASSUME NEW a \in Attempts, Again(e, a) PROVE Types' /\ Effect(e)
  <2>1. attempt[e][a] \in State \ {"none"}
    BY <1>12 DEF Again, Types, StatesOK, State, UnderWay
  <2>2. attempt' = [attempt EXCEPT ![e] = [@ EXCEPT ![a] = attempt[e][a], ![a + 1] = "read"]]
    BY <1>12 DEF Again, Ends, Types, StatesOK, Replay, Attempts
  <2>3. Effect(e) /\ StatesOK' /\ crowded' \subseteq Boxes
    BY <1>12, <2>1, <2>2, ReplayEffect DEF Again
  <2> QED
    BY <1>12, <2>3, <1>l, <1>r DEF Again
<1> QED
  BY <1>1, <1>2, <1>3, <1>4, <1>5, <1>6, <1>7, <1>8, <1>9, <1>10, <1>11, <1>12
  DEF StepOf, OpeningStep, AttemptStep

\* Next, as the steps of lines that have come, lines that come, and accounts.
LEMMA Steps ==
    ASSUME [Next]_vars
    PROVE  \/ \E b \in Boxes, v \in Versions : Open(b, v) \/ Upgrade(b, v)
           \/ \E e \in Event : StepOf(e)
           \/ \E b \in Boxes : Account(b)
           \/ UNCHANGED vars
  BY DEF Next, StepOf

LEMMA TypesStep == Types /\ [Next]_vars => Types'
<1> SUFFICES ASSUME Types, [Next]_vars PROVE Types'
  OBVIOUS
<1>1. ASSUME NEW b \in Boxes, NEW v \in Versions, Open(b, v) \/ Upgrade(b, v)
      PROVE  Types'
  <2>1. LinesOK'
    BY <1>1, Arrives DEF Open, Upgrade, Types, Line
  <2> QED
    BY <1>1, <2>1, OpenTypes DEF Types
<1>2. ASSUME NEW b \in Boxes, Account(b) PROVE Types'
  BY <1>2, LinesStay DEF Account, Types, StatesOK, RowOK, doing
<1>3. CASE UNCHANGED vars
  BY <1>3, LinesStay DEF vars, doing, row, Types, StatesOK, RowOK
<1> QED
  BY <1>1, <1>2, <1>3, OneTypes, Steps

\* UserInfo is type correct: among others, the dates in a row are those of openings
\* of its box, and a history never stands beside a null version.
THEOREM UiTypeCorrect == Spec => []UiTypeOK
<1>1. Spec => []Types
  BY TypesInit, TypesStep, PTL DEF Spec
<1> QED
  BY <1>1, Typed, PTL

-----------------------------------------------------------------------------
(* One line of a box at a time.                                            *)

OneAtATime ==
    \A e, f \in Occurred :
        e < f /\ log[e].box = log[f].box /\ log[e].box \notin crowded => ~Working(e)

LEMMA OneInit == Init => OneAtATime
  BY DEF Init, OneAtATime, Occurred

LEMMA OneStep ==
    ASSUME Types, OneAtATime, [Next]_vars
    PROVE  OneAtATime'
<1>t. Types' /\ Occurred \subseteq Event
  BY TypesStep, LineType DEF Types
<1>1. ASSUME NEW b \in Boxes, NEW v \in Versions, Open(b, v) \/ Upgrade(b, v)
      PROVE  OneAtATime'
  <2> DEFINE n == Len(log) + 1
  <2>1. PICK k \in {"open", "upgrade"} :
           /\ Arrive([kind |-> k, box |-> b, version |-> v])
           /\ k = "open" => Open(b, v)
           /\ k = "upgrade" => Upgrade(b, v)
    BY <1>1 DEF Open, Upgrade
  <2>2. [kind |-> k, box |-> b, version |-> v] \in Line
    BY DEF Line
  <2>3. /\ n \in Event \ Occurred /\ Occurred' = Occurred \cup {n}
        /\ \A i \in Occurred : log'[i] = log[i] /\ i < n
        /\ log'[n].box = b
    BY <2>1, <2>2, Arrives DEF Types, Occurred
  <2>4. \A e \in Occurred : Working(e)' <=> Working(e)
    <3>1. \A e \in Occurred : way'[e] = way[e] /\ attempt'[e] = attempt[e]
      BY <1>t, <2>1, <2>3 DEF Open, Upgrade, Types, StatesOK
    <3> QED
      BY <3>1 DEF Working
  <2>5. /\ crowded \subseteq crowded'
        /\ \A e \in Occurred : log[e].box = b /\ b \notin crowded' => ~Working(e)
    BY <2>1 DEF Arrive, Busy, Working
  <2>6. \A e, f \in Occurred' : e < f => e \in Occurred /\ (f \in Occurred \/ f = n)
    BY <2>3 DEF Occurred
  <2> HIDE DEF n
  <2> QED
    BY <2>3, <2>4, <2>5, <2>6 DEF OneAtATime
<1>2. ASSUME NEW e \in Event, StepOf(e) PROVE OneAtATime'
  <2>1. Effect(e)
    BY <1>2, OneTypes
  <2>2. /\ UNCHANGED log /\ Occurred' = Occurred /\ crowded \subseteq crowded'
        /\ \A f \in Event \ {e} : Working(f)' <=> Working(f)
    BY <2>1, LinesStay DEF Effect, Working
  <2>3. ASSUME NEW f \in Occurred, e < f, log[e].box = log[f].box, log[e].box \notin crowded'
        PROVE  FALSE
    <3>1. Working(e)
      BY <2>1, <2>3, <1>t DEF Effect, NoneAfter, Event, Occurred
    <3> QED
      BY <2>1, <2>2, <2>3, <3>1 DEF OneAtATime, Effect
  <2> QED
    BY <1>t, <2>2, <2>3 DEF OneAtATime
<1>3. ASSUME NEW b \in Boxes, Account(b) PROVE OneAtATime'
  BY <1>3, LinesStay DEF Account, doing, OneAtATime, Working
<1>4. CASE UNCHANGED vars
  BY <1>4, LinesStay DEF vars, doing, OneAtATime, Working
<1> QED
  BY <1>1, <1>2, <1>3, <1>4, Steps

\* So of two lines of a box that are being worked on, or one of which is and has come
\* before the other, the box is crowded.
LEMMA OneWorks ==
    ASSUME Types, OneAtATime, NEW e \in Occurred, NEW f \in Occurred,
           log[e].box = log[f].box, log[e].box \notin crowded, Working(e)
    PROVE  /\ f <= e
           /\ Working(f) => e = f
  BY DEF OneAtATime, Occurred

-----------------------------------------------------------------------------
(* first_open.                                                             *)

\* first_open is null until the first opening is done, and about to be written only
\* while it is null.
FirstInv ==
    /\ \A e \in Occurred :
         /\ way[e]["fopen"] = "done" => firstOpen[log[e].box] # 0
         /\ way[e]["fopen"] = "write" /\ log[e].box \notin crowded =>
              firstOpen[log[e].box] = 0
    /\ FirstOpenIsFirst

LEMMA FirstInit == Init => FirstInv
  BY DEF Init, FirstInv, FirstOpenIsFirst, Occurred

\* Steps that leave the counting of first_open alone.
LEMMA FirstStays ==
    ASSUME FirstInv, Types, UNCHANGED <<log, firstOpen>>, crowded \subseteq crowded',
           \A f \in Occurred : \/ way'[f]["fopen"] = way[f]["fopen"]
                               \/ way'[f]["fopen"] \in {"read", "lost"}
    PROVE  FirstInv'
<1>1. Occurred' = Occurred /\ \A b \in Boxes : Openings(b)' = Openings(b)
  BY LinesStay
<1>2. \A b \in Boxes : Openings(b) \subseteq Occurred
  BY DEF Openings, Events, Occurred
<1> QED
  BY <1>1, <1>2 DEF FirstInv, FirstOpenIsFirst

LEMMA FirstStep ==
    ASSUME Types, OneAtATime, FirstInv, [Next]_vars
    PROVE  FirstInv'
<1>t. Types' /\ Occurred \subseteq Event
  BY TypesStep, LineType DEF Types
<1>w. way \in [Event -> [Ways -> State]] /\ {"fopen", "appv", "last", "main"} = Ways
  BY DEF Types, StatesOK, Ways
<1>o. \A b \in Boxes : Openings(b) \subseteq Occurred
  BY DEF Openings, Events, Occurred
<1>1. ASSUME NEW b \in Boxes, NEW v \in Versions, Open(b, v) \/ Upgrade(b, v)
      PROVE  FirstInv'
  <2> DEFINE n == Len(log) + 1
  <2>1. PICK k \in {"open", "upgrade"} :
           /\ Arrive([kind |-> k, box |-> b, version |-> v])
           /\ k = "open" => Open(b, v)
           /\ k = "upgrade" => Upgrade(b, v)
    BY <1>1 DEF Open, Upgrade
  <2>2. [kind |-> k, box |-> b, version |-> v] \in Line
    BY DEF Line
  <2>3. /\ n \in Event \ Occurred /\ Occurred' = Occurred \cup {n}
        /\ \A i \in Occurred : log'[i] = log[i]
    BY <2>1, <2>2, Arrives DEF Types
  <2>4. UNCHANGED firstOpen /\ crowded \subseteq crowded'
    BY <2>1 DEF Arrive, row
  <2>5. /\ \A e \in Occurred : way'[e] = way[e]
        /\ way'[n]["fopen"] \notin {"done", "write"}
    <3>1. way[n]["fopen"] = "none"
      BY <2>3, <1>w DEF Types, StatesOK
    <3> QED
      BY <2>1, <2>3, <1>w, <1>t, <3>1 DEF Open, Upgrade
  <2>6. \A c \in Boxes : Openings(c)' \subseteq Openings(c) \cup {n}
    BY <2>3 DEF Openings, Events, Occurred
  <2> HIDE DEF n
  <2> QED
    BY <2>3, <2>4, <2>5, <2>6, <1>o DEF FirstInv, FirstOpenIsFirst
<1>2. ASSUME NEW e \in Event, StepOf(e) PROVE FirstInv'
  <2>1. Effect(e)
    BY <1>2, OneTypes
  <2>2. e \in Occurred /\ UNCHANGED log /\ Occurred' = Occurred /\ crowded \subseteq crowded'
        /\ \A b \in Boxes : Openings(b)' = Openings(b)
    BY <2>1, LinesStay DEF Effect
  <2>b. log[e].box \in Boxes
    BY <2>2, LineType DEF Types
  <2>3. ASSUME UNCHANGED firstOpen, way'[e]["fopen"] = way[e]["fopen"]
                                      \/ way'[e]["fopen"] \in {"read", "lost"}
        PROVE  FirstInv'
    BY <2>1, <2>2, <2>3, <1>t, FirstStays DEF Effect
  <2>4. ASSUME NEW w \in Ways, NEW s \in State, way' = [way EXCEPT ![e][w] = s],
               UNCHANGED firstOpen, w # "fopen" \/ s = "lost"
        PROVE  FirstInv'
    BY <2>3, <2>4, <1>w
  <2>5. CASE FOpenIsNull(e)
    <3>1. Working(e) /\ way[e]["fopen"] = "read"
      BY <2>5, <1>w DEF FOpenIsNull, Working, UnderWay
    <3>2. /\ UNCHANGED firstOpen
          /\ way' = [way EXCEPT ![e]["fopen"] =
                       IF firstOpen[log[e].box] = 0 THEN "write" ELSE "done"]
          /\ crowded' = crowded
      BY <2>5 DEF FOpenIsNull, Along, row
    <3>3. /\ \A f \in Event \ {e} : way'[f] = way[f]
          /\ way'[e]["fopen"] = IF firstOpen[log[e].box] = 0 THEN "write" ELSE "done"
      BY <3>2, <1>w
    <3>4. ASSUME firstOpen[log[e].box] # 0, log[e].box \notin crowded
          PROVE  firstOpen[log[e].box] <= e
      <4>1. firstOpen[log[e].box] \in Openings(log[e].box)
        BY <3>4, <2>b DEF Types, RowOK
      <4>2. firstOpen[log[e].box] \in Occurred /\ log[firstOpen[log[e].box]].box = log[e].box
        BY <4>1 DEF Openings, Events, Occurred
      <4> QED
        BY <3>1, <3>4, <4>2, <2>2, OneWorks
    <3>5. \A f \in Occurred :
            /\ way'[f]["fopen"] = "done" => firstOpen[log[f].box] # 0
            /\ way'[f]["fopen"] = "write" /\ log[f].box \notin crowded =>
                 firstOpen[log[f].box] = 0
      BY <3>3, <1>t DEF FirstInv
    <3>6. ASSUME NEW b \in Boxes \ crowded, firstOpen[b] # 0, NEW f \in Openings(b),
                 way'[f]["fopen"] = "done"
          PROVE  firstOpen[b] <= f
      <4>1. log[f].box = b
        BY DEF Openings, Events
      <4> QED
        BY <3>3, <3>4, <3>6, <4>1, <1>o, <1>t DEF FirstInv, FirstOpenIsFirst
    <3> QED
      BY <2>2, <3>2, <3>5, <3>6 DEF FirstInv, FirstOpenIsFirst
  <2>6. CASE FOpenUpdate(e)
    <3>1. Working(e) /\ way[e]["fopen"] = "write"
      BY <2>6, <1>w DEF FOpenUpdate, Working, UnderWay
    <3>2. /\ firstOpen' = [firstOpen EXCEPT ![log[e].box] = e]
          /\ way' = [way EXCEPT ![e]["fopen"] = "done"]
          /\ crowded' = crowded
      BY <2>6 DEF FOpenUpdate, Along
    <3>3. /\ \A f \in Event \ {e} : way'[f] = way[f]
          /\ way'[e]["fopen"] = "done"
          /\ firstOpen'[log[e].box] = e /\ e # 0 /\ e <= e
          /\ \A b \in Boxes \ {log[e].box} : firstOpen'[b] = firstOpen[b]
      BY <3>2, <1>w, <2>b, UserInfoAssumption DEF Types, RowOK, Event
    <3>4. ASSUME log[e].box \notin crowded
          PROVE  \A f \in Occurred \ {e} : log[f].box = log[e].box =>
                    way[f]["fopen"] \notin {"done", "write"}
      <4>1. firstOpen[log[e].box] = 0
        BY <3>1, <3>4, <2>2 DEF FirstInv
      <4>2. \A f \in Occurred : log[f].box = log[e].box => way[f]["fopen"] # "done"
        BY <4>1 DEF FirstInv
      <4>3. ASSUME NEW f \in Occurred \ {e}, log[f].box = log[e].box,
                   way[f]["fopen"] = "write"
            PROVE  FALSE
        <5>1. Working(f)
          BY <4>3, <1>w DEF Working, UnderWay
        <5> QED
          BY <3>1, <3>4, <4>3, <5>1, <2>2, OneWorks
      <4> QED
        BY <4>2, <4>3
    <3>b. \A f \in Occurred : log[f].box \in Boxes
      BY LineType DEF Types
    <3>5. ASSUME NEW f \in Occurred
          PROVE  /\ way'[f]["fopen"] = "done" => firstOpen'[log[f].box] # 0
                 /\ way'[f]["fopen"] = "write" /\ log[f].box \notin crowded =>
                      firstOpen'[log[f].box] = 0
      BY <3>3, <3>4, <3>b, <1>t DEF FirstInv
    <3>6. ASSUME NEW b \in Boxes \ crowded, firstOpen'[b] # 0, NEW f \in Openings(b),
                 way'[f]["fopen"] = "done"
          PROVE  firstOpen'[b] <= f
      <4>1. log[f].box = b /\ f \in Occurred
        BY <1>o DEF Openings, Events
      <4> QED
        BY <3>3, <3>4, <3>6, <4>1, <1>t DEF FirstInv, FirstOpenIsFirst
    <3> QED
      BY <2>2, <3>2, <3>5, <3>6 DEF FirstInv, FirstOpenIsFirst
  <2>7. CASE AppVersionIsNull(e) \/ AppVersionUpdate(e)
    <3>1. way'[e]["fopen"] = way[e]["fopen"] /\ UNCHANGED firstOpen
      BY <2>7, <1>w DEF AppVersionIsNull, AppVersionUpdate, Along, row
    <3> QED
      BY <3>1, <2>3
  <2>8. CASE NoJudgeUpdate(e) \/ MainIsNull(e)
    <3>1. way'[e]["fopen"] = way[e]["fopen"] /\ UNCHANGED firstOpen
      BY <2>8, <1>w DEF NoJudgeUpdate, MainIsNull, Along
    <3> QED
      BY <3>1, <2>3
  <2>9. ASSUME NEW w \in Ways, Lose(e, w) PROVE FirstInv'
    BY <2>9, <2>4 DEF Lose, Along, row, State
  <2>10. ASSUME NEW a \in Attempts, AttemptStep(e, a) \/ Fails(e, a) \/ FailsLate(e, a)
                                      \/ Again(e, a)
         PROVE  FirstInv'
    BY <2>10, <2>3 DEF AttemptStep, AppVersionIsChanged, UpdateVersion, Fails, FailsLate,
       Again, row
  <2> QED
    BY <1>2, <2>5, <2>6, <2>7, <2>8, <2>9, <2>10 DEF StepOf, OpeningStep
<1>3. ASSUME NEW b \in Boxes, Account(b) PROVE FirstInv'
  BY <1>3, FirstStays DEF Account, doing
<1>4. CASE UNCHANGED vars
  BY <1>4, FirstStays DEF vars, doing, row
<1> QED
  BY <1>1, <1>2, <1>3, <1>4, Steps

\* While the lines of a box do not overlap, its first_open is that of the first
\* opening that was not lost.
THEOREM FirstOpensAreFirst == Spec => []FirstOpenIsFirst
<1>1. Spec => [](Types /\ OneAtATime /\ FirstInv)
  BY TypesInit, TypesStep, OneInit, OneStep, FirstInit, FirstStep, PTL DEF Spec
<1>2. FirstInv => FirstOpenIsFirst
  BY DEF FirstInv
<1> QED
  BY <1>1, <1>2, PTL

-----------------------------------------------------------------------------
(* Histories.                                                              *)

\* The versions of box b that are in its history or that an opening has reported.
Known(b) == history[b] \cup {log[o].version : o \in Openings(b)}

KeptInv ==
    /\ \A b \in Boxes : version[b] # None => version[b] \in Known(b)
    /\ \A e \in acked : log[e].version \in Known(log[e].box)

LEMMA Kept == KeptInv => UpgradesKept
  BY DEF KeptInv, UpgradesKept, Known

LEMMA KeptInit == Init => KeptInv
  BY DEF Init, KeptInv

\* Histories and openings only grow, so that what is known stays known.
LEMMA StaysKnown ==
    ASSUME Types, [Next]_vars, NEW b \in Boxes
    PROVE  Known(b) \subseteq Known(b)'
<1>h. history \in [Boxes -> SUBSET Versions]
  BY DEF Types, RowOK
<1>0. ASSUME history[b] \subseteq history'[b],
             \A o \in Openings(b) : o \in Openings(b)' /\ log'[o] = log[o]
      PROVE  Known(b) \subseteq Known(b)'
  BY <1>0 DEF Known
<1>1. ASSUME NEW c \in Boxes, NEW u \in Versions, Open(c, u) \/ Upgrade(c, u)
      PROVE  Known(b) \subseteq Known(b)'
  <2>1. PICK l \in Line : Arrive(l)
    BY <1>1 DEF Open, Upgrade, Line
  <2>2. \A o \in Openings(b) : o \in Openings(b)' /\ log'[o] = log[o]
    BY <2>1, Arrives DEF Types, Openings, Events, Occurred
  <2> QED
    BY <2>1, <2>2, <1>0 DEF Arrive, row
<1>2. ASSUME NEW e \in Event, StepOf(e) PROVE Known(b) \subseteq Known(b)'
  <2>1. UNCHANGED log
    BY <1>2, OneTypes DEF Effect
  <2>2. \A o \in Openings(b) : o \in Openings(b)' /\ log'[o] = log[o]
    BY <2>1, LinesStay
  <2>3. UNCHANGED history \/ VersionUpdate(log[e].box, log[e].version)
    BY <1>2 DEF StepOf, OpeningStep, FOpenIsNull, FOpenUpdate, AppVersionIsNull,
       AppVersionUpdate, NoJudgeUpdate, MainIsNull, Lose, AttemptStep,
       AppVersionIsChanged, UpdateVersion, Fails, FailsLate, Again, row
  <2>4. history[b] \subseteq history'[b]
    BY <2>3, <1>h DEF VersionUpdate
  <2> QED
    BY <2>2, <2>4, <1>0
<1>3. ASSUME NEW c \in Boxes, Account(c) PROVE Known(b) \subseteq Known(b)'
  BY <1>3, <1>0, LinesStay DEF Account
<1>4. CASE UNCHANGED vars
  BY <1>4, <1>0, LinesStay DEF vars, row
<1> QED
  BY <1>1, <1>2, <1>3, <1>4, Steps

LEMMA KeptStep ==
    ASSUME Types, KeptInv, [Next]_vars
    PROVE  KeptInv'
<1>t. Types' /\ Occurred \subseteq Event
  BY TypesStep, LineType DEF Types
<1>k. /\ \A b \in Boxes : Known(b) \subseteq Known(b)'
      /\ \A e \in acked : e \in Occurred /\ log[e].box \in Boxes
  BY StaysKnown, LineType DEF Types, RowOK
\* A step that leaves version alone and acks nothing.
<1>0. ASSUME UNCHANGED <<version, acked>>, \A e \in Occurred : log'[e] = log[e]
      PROVE  KeptInv'
  BY <1>0, <1>k DEF KeptInv
<1>1. ASSUME NEW c \in Boxes, NEW u \in Versions, Open(c, u) \/ Upgrade(c, u)
      PROVE  KeptInv'
  <2>1. PICK l \in Line : Arrive(l)
    BY <1>1 DEF Open, Upgrade, Line
  <2>2. \A e \in Occurred : log'[e] = log[e]
    BY <2>1, Arrives DEF Types
  <2> QED
    BY <2>1, <2>2, <1>0 DEF Arrive, row
<1>2. ASSUME NEW e \in Event, StepOf(e) PROVE KeptInv'
  <2>1. UNCHANGED log /\ e \in Occurred
    BY <1>2, OneTypes DEF Effect
  <2>b. log[e].box \in Boxes /\ log[e].version \in Versions
    BY <2>1, LineType DEF Types
  <2>v. version \in [Boxes -> Versions \cup {None}] /\ history \in [Boxes -> SUBSET Versions]
    BY DEF Types, RowOK
  \* A step that writes or acks what is known then.
  <2>2. ASSUME \A b \in Boxes \ {log[e].box} : version'[b] = version[b],
               version'[log[e].box] \in {version[log[e].box], log[e].version},
               acked' \subseteq acked \cup {e},
               log[e].version \in Known(log[e].box)'
        PROVE  KeptInv'
    BY <2>1, <2>2, <2>b, <1>k DEF KeptInv
  <2>3. ASSUME VersionUpdate(log[e].box, log[e].version), acked' \subseteq acked \cup {e}
        PROVE  KeptInv'
    <3>1. log[e].version \in history'[log[e].box]
      BY <2>3, <2>b, <2>v DEF VersionUpdate
    <3> QED
      BY <2>1, <2>2, <2>3, <2>b, <2>v, <3>1 DEF VersionUpdate, Known
  <2>4. CASE FOpenIsNull(e) \/ FOpenUpdate(e) \/ AppVersionIsNull(e) \/ NoJudgeUpdate(e)
               \/ MainIsNull(e)
    BY <2>4, <2>1, <1>0 DEF FOpenIsNull, FOpenUpdate, AppVersionIsNull, NoJudgeUpdate,
       MainIsNull, Along, row
  <2>5. CASE AppVersionUpdate(e)
    <3>1. e \in Openings(log[e].box)
      BY <2>5, <2>1 DEF AppVersionUpdate, Types, StatesOK, Openings, Events, Occurred, Ways
    <3>2. log[e].version \in Known(log[e].box)'
      BY <3>1, <2>1, LinesStay DEF Known
    <3> QED
      BY <2>5, <2>2, <2>b, <2>v, <3>2 DEF AppVersionUpdate, Along
  <2>6. ASSUME NEW w \in Ways, Lose(e, w) PROVE KeptInv'
    BY <2>6, <2>1, <1>0 DEF Lose, Along, row
  <2>7. ASSUME NEW a \in Attempts, AppVersionIsChanged(e, a) PROVE KeptInv'
    <3>1. CASE version[log[e].box] = log[e].version
      <4>1. version[log[e].box] # None
        BY <3>1, <2>b, UserInfoAssumption
      <4>2. version[log[e].box] \in Known(log[e].box)
        BY <4>1, <2>b DEF KeptInv
      <4>3. log[e].version \in Known(log[e].box)'
        BY <3>1, <4>2, <2>1, <2>b, <1>k
      <4> QED
        BY <2>7, <3>1, <4>3, <2>2 DEF AppVersionIsChanged, Answered, row
    <3>2. CASE version[log[e].box] # log[e].version
      BY <2>7, <3>2, <2>1, <1>0 DEF AppVersionIsChanged, row
    <3> QED
      BY <3>1, <3>2
  <2>8. ASSUME NEW a \in Attempts, UpdateVersion(e, a) PROVE KeptInv'
    BY <2>8, <2>3 DEF UpdateVersion, Answered
  <2>9. ASSUME NEW a \in Attempts, Fails(e, a) PROVE KeptInv'
    <3>1. CASE VersionUpdate(log[e].box, log[e].version)
      BY <2>9, <3>1, <2>3 DEF Fails
    <3>2. CASE UNCHANGED <<version, history>>
      BY <2>9, <3>2, <2>1, <1>0 DEF Fails
    <3> QED
      BY <2>9, <3>1, <3>2 DEF Fails
  <2>10. ASSUME NEW a \in Attempts, FailsLate(e, a) \/ Again(e, a) PROVE KeptInv'
    BY <2>10, <2>1, <1>0 DEF FailsLate, Again, row
  <2> QED
    BY <1>2, <2>4, <2>5, <2>6, <2>7, <2>8, <2>9, <2>10 DEF StepOf, OpeningStep, AttemptStep
<1>3. ASSUME NEW b \in Boxes, Account(b) PROVE KeptInv'
  BY <1>3, <1>0 DEF Account
<1>4. CASE UNCHANGED vars
  BY <1>4, <1>0 DEF vars, row
<1> QED
  BY <1>1, <1>2, <1>3, <1>4, Steps

\* No acked upgrade is forgotten, whatever overlaps, fails or is done twice.
THEOREM UpgradesAreKept == Spec => []UpgradesKept
<1>1. Spec => [](Types /\ KeptInv)
  BY TypesInit, TypesStep, KeptInit, KeptStep, PTL DEF Spec
<1> QED
  BY <1>1, Kept, PTL

-----------------------------------------------------------------------------
(* The version of a box at rest.                                           *)

\* Every upgrade has a last attempt, which is under way or was the end of it.
AttemptsInv ==
    \A e \in Occurred : log[e].kind = "upgrade" =>
        \E a \in Attempts : Current(e, a) /\ attempt[e][a] \in UnderWay \cup {"done"}

\* e is the last upgrade of its box.
Last(e) ==
    /\ e \in Occurred /\ log[e].kind = "upgrade"
    /\ \A f \in Upgrades(log[e].box) : f <= e

\* An opening is about to write its version only while there is none, and what an
\* attempt has done stays.
VersionInv ==
    /\ \A e \in Occurred : way[e]["appv"] = "write" /\ log[e].box \notin crowded =>
          version[log[e].box] = None
    /\ \A e \in Occurred : Last(e) /\ log[e].box \notin crowded =>
          \A a \in Attempts : attempt[e][a] = "done" => version[log[e].box] = log[e].version

LEMMA AtRest == Types /\ AttemptsInv /\ VersionInv => LatestVersion
<1> SUFFICES ASSUME Types, AttemptsInv, VersionInv, NEW b \in Boxes \ crowded, ~Busy(b),
                    NEW e \in Upgrades(b), \A f \in Upgrades(b) : f <= e
             PROVE  version[b] = log[e].version
  BY DEF LatestVersion
<1>1. Last(e) /\ log[e].box = b
  BY DEF Last, Upgrades, Events, Occurred
<1>2. PICK a \in Attempts : attempt[e][a] \in UnderWay \cup {"done"}
  BY <1>1 DEF AttemptsInv, Last
<1>3. attempt[e][a] = "done"
  BY <1>1, <1>2 DEF Busy, Last
<1> QED
  BY <1>1, <1>3 DEF VersionInv, Last

LEMMA VersionInit == Init => AttemptsInv /\ VersionInv
  BY DEF Init, AttemptsInv, VersionInv, Occurred

\* What an attempt that goes on leaves of the attempts at its line.
LEMMA AttemptGoesOn ==
    ASSUME Types, NEW e \in Event, NEW a \in Attempts, NEW s \in State, Ends(e, a, s)
    PROVE  /\ \A n \in Attempts : attempt'[e][n] = IF n = a THEN s ELSE attempt[e][n]
           /\ \A f \in Event \ {e} : attempt'[f] = attempt[f]
  BY DEF Types, StatesOK, Ends

\* What an attempt that fails and is repeated leaves of them.
LEMMA AttemptRepeated ==
    ASSUME Types, NEW e \in Event, NEW a \in Attempts, Fails(e, a)
    PROVE  /\ a + 1 \in Attempts
           /\ \A n \in Attempts :
                attempt'[e][n] = IF n = a + 1 THEN "read"
                                 ELSE IF n = a THEN "lost" ELSE attempt[e][n]
<1>1. a + 1 \in Attempts
  BY UserInfoAssumption DEF Fails, Replay, Attempts
<1>2. attempt' = [attempt EXCEPT ![e] = [@ EXCEPT ![a] = "lost", ![a + 1] = "read"]]
  BY DEF Fails
<1> QED
  BY <1>1, <1>2 DEF Types, StatesOK

LEMMA AttemptsStep ==
    ASSUME Types, AttemptsInv, [Next]_vars
    PROVE  AttemptsInv'
<1>t. Types' /\ Occurred \subseteq Event
  BY TypesStep, LineType DEF Types
<1>1. ASSUME NEW b \in Boxes, NEW v \in Versions, Open(b, v) \/ Upgrade(b, v)
      PROVE  AttemptsInv'
  <2> DEFINE n == Len(log) + 1
  <2>1. PICK k \in {"open", "upgrade"} :
           /\ Arrive([kind |-> k, box |-> b, version |-> v])
           /\ k = "open" => Open(b, v)
           /\ k = "upgrade" => Upgrade(b, v)
    BY <1>1 DEF Open, Upgrade
  <2>2. [kind |-> k, box |-> b, version |-> v] \in Line
    BY DEF Line
  <2>3. /\ n \in Event \ Occurred /\ Occurred' = Occurred \cup {n}
        /\ \A i \in Occurred : log'[i] = log[i]
        /\ log'[n].kind = k
    BY <2>1, <2>2, Arrives DEF Types
  <2>4. \A e \in Occurred : attempt'[e] = attempt[e]
    BY <1>t, <2>1, <2>3 DEF Open, Upgrade, Types, StatesOK
  <2>5. ASSUME k = "upgrade"
        PROVE  /\ 1 \in Attempts /\ attempt'[n][1] = "read"
               /\ \A a \in Attempts : a > 1 => attempt'[n][a] = "none"
    <3>1. 1 \in Attempts /\ \A a \in Attempts : attempt[n][a] = "none"
      BY <2>3, UserInfoAssumption DEF Types, StatesOK, Attempts
    <3>2. attempt' = [attempt EXCEPT ![n][1] = "read"]
      BY <2>1, <2>5 DEF Upgrade
    <3>3. /\ attempt'[n][1] = "read"
          /\ \A a \in Attempts : a # 1 => attempt'[n][a] = "none"
      BY <3>1, <3>2, <2>3 DEF Types, StatesOK
    <3> QED
      BY <3>1, <3>3 DEF Attempts
  <2> HIDE DEF n
  <2> SUFFICES ASSUME NEW e \in Occurred', log'[e].kind = "upgrade"
               PROVE  \E a \in Attempts : /\ Current(e, a)'
                                          /\ attempt'[e][a] \in UnderWay \cup {"done"}
    BY DEF AttemptsInv
  <2>6. CASE e \in Occurred
    BY <2>3, <2>4, <2>6 DEF AttemptsInv, Current
  <2>7. CASE e = n
    BY <2>3, <2>5, <2>7 DEF Current, UnderWay
  <2> QED
    BY <2>3, <2>6, <2>7
<1>2. ASSUME NEW e \in Event, StepOf(e) PROVE AttemptsInv'
  <2>1. UNCHANGED log /\ Occurred' = Occurred
        /\ \A f \in Event \ {e} : attempt'[f] = attempt[f]
    BY <1>2, OneTypes, LinesStay DEF Effect
  <2>2. ASSUME log[e].kind = "upgrade" =>
                 \E a \in Attempts : Current(e, a)' /\ attempt'[e][a] \in UnderWay \cup {"done"}
        PROVE  AttemptsInv'
    BY <1>t, <2>1, <2>2 DEF AttemptsInv, Current
  <2>3. CASE UNCHANGED attempt
    BY <2>1, <2>3 DEF AttemptsInv, Current
  <2>o. e \in Occurred
    BY <1>2, OneTypes DEF Effect
  \* The attempt that goes on may be the last one.
  <2>4. ASSUME NEW a \in Attempts, NEW s \in UnderWay \cup {"done"},
               attempt[e][a] \in UnderWay, Ends(e, a, s)
        PROVE  AttemptsInv'
    <3>1. \A n \in Attempts : attempt'[e][n] = IF n = a THEN s ELSE attempt[e][n]
      BY <2>4, AttemptGoesOn DEF State
    <3>2. SUFFICES ASSUME log[e].kind = "upgrade"
                   PROVE  \E m \in Attempts : Current(e, m)'
                             /\ attempt'[e][m] \in UnderWay \cup {"done"}
      BY <2>2
    <3>3. PICK m \in Attempts : Current(e, m) /\ attempt[e][m] \in UnderWay \cup {"done"}
      BY <2>o, <3>2 DEF AttemptsInv
    <3>4. ~(a > m)
      BY <2>4, <3>3 DEF Current, UnderWay
    <3> QED
      BY <2>4, <3>1, <3>3, <3>4 DEF Current
  <2>5. ASSUME NEW a \in Attempts, Fails(e, a) PROVE AttemptsInv'
    <3>1. /\ a + 1 \in Attempts
          /\ \A n \in Attempts :
                attempt'[e][n] = IF n = a + 1 THEN "read"
                                 ELSE IF n = a THEN "lost" ELSE attempt[e][n]
      BY <2>5, AttemptRepeated
    <3>2. Current(e, a)
      BY <2>5 DEF Fails, Replay
    <3>3. \A n \in Attempts : n > a + 1 => n > a /\ n # a /\ n # a + 1
      BY DEF Attempts
    <3>4. Current(e, a + 1)' /\ attempt'[e][a + 1] = "read"
      BY <3>1, <3>2, <3>3 DEF Current
    <3> QED
      BY <2>2, <3>1, <3>4 DEF UnderWay
  <2>6. ASSUME NEW a \in Attempts, FailsLate(e, a) PROVE AttemptsInv'
    <3>1. \A n \in Attempts : attempt'[e][n] = IF n = a THEN "lost" ELSE attempt[e][n]
      BY <2>6, AttemptGoesOn DEF FailsLate, State
    <3>2. SUFFICES ASSUME log[e].kind = "upgrade"
                   PROVE  \E m \in Attempts : Current(e, m)'
                             /\ attempt'[e][m] \in UnderWay \cup {"done"}
      BY <2>2
    <3>3. PICK m \in Attempts : Current(e, m) /\ attempt[e][m] \in UnderWay \cup {"done"}
      BY <2>o, <3>2 DEF AttemptsInv
    <3>4. ~(a > m) /\ a # m
      BY <2>6, <3>3 DEF FailsLate, Current, UnderWay
    <3> QED
      BY <3>1, <3>3, <3>4 DEF Current
  <2>7. ASSUME NEW a \in Attempts, Again(e, a) PROVE AttemptsInv'
    <3>1. a + 1 \in Attempts /\ Current(e, a)
      BY <2>7, UserInfoAssumption DEF Again, Replay, Attempts
    <3>2. \A n \in Attempts : attempt'[e][n] = IF n = a + 1 THEN "read" ELSE attempt[e][n]
      BY <2>7, <3>1, AttemptGoesOn DEF Again, State, UnderWay
    <3>3. \A n \in Attempts : n > a + 1 => n > a /\ n # a + 1
      BY DEF Attempts
    <3>4. Current(e, a + 1)' /\ attempt'[e][a + 1] = "read"
      BY <3>1, <3>2, <3>3 DEF Current
    <3> QED
      BY <2>2, <3>1, <3>4 DEF UnderWay
  <2>8. ASSUME NEW a \in Attempts, AttemptStep(e, a) PROVE AttemptsInv'
    <3>1. PICK s \in {"done", "write"} : Ends(e, a, s)
      BY <2>8 DEF AttemptStep, AppVersionIsChanged, UpdateVersion
    <3>2. attempt[e][a] \in UnderWay
      BY <2>8 DEF AttemptStep, AppVersionIsChanged, UpdateVersion, UnderWay
    <3> QED
      BY <3>1, <3>2, <2>4 DEF UnderWay
  <2> QED
    BY <1>2, <2>3, <2>5, <2>6, <2>7, <2>8 DEF StepOf, OpeningStep, FOpenIsNull, FOpenUpdate,
       AppVersionIsNull, AppVersionUpdate, NoJudgeUpdate, MainIsNull, Lose, Along
<1>3. ASSUME NEW b \in Boxes, Account(b) PROVE AttemptsInv'
  BY <1>3, LinesStay DEF Account, doing, AttemptsInv, Current
<1>4. CASE UNCHANGED vars
  BY <1>4, LinesStay DEF vars, doing, AttemptsInv, Current
<1> QED
  BY <1>1, <1>2, <1>3, <1>4, Steps

\* Steps that leave the version alone, let no opening be about to write it and finish
\* no attempt.
LEMMA VersionStays ==
    ASSUME VersionInv, Types, UNCHANGED <<log, version>>, crowded \subseteq crowded',
           \A f \in Occurred :
              /\ way'[f]["appv"] = "write" => way[f]["appv"] = "write"
              /\ \A a \in Attempts : attempt'[f][a] = "done" => attempt[f][a] = "done"
    PROVE  VersionInv'
<1>1. Occurred' = Occurred /\ \A b \in Boxes : Upgrades(b)' = Upgrades(b)
  BY LinesStay
<1>2. \A e \in Occurred : log[e].box \in Boxes /\ (Last(e)' => Last(e))
  BY <1>1, LineType DEF Types, Last
<1> QED
  BY <1>1, <1>2 DEF VersionInv

\* An upgrade under way writes its version, which makes it that of its box.
LEMMA VersionWritten ==
    ASSUME VersionInv, Types, OneAtATime, UNCHANGED <<log, way>>, crowded \subseteq crowded',
           NEW e \in Occurred, log[e].kind = "upgrade", Working(e),
           version' = [version EXCEPT ![log[e].box] = log[e].version],
           \A f \in Occurred \ {e} : attempt'[f] = attempt[f]
    PROVE  VersionInv'
<1>1. Occurred' = Occurred /\ \A b \in Boxes : Upgrades(b)' = Upgrades(b)
  BY LinesStay
<1>2. \A f \in Occurred : /\ log[f].box \in Boxes /\ f \in Event
                          /\ Last(f)' <=> Last(f)
  BY <1>1, LineType DEF Types, Last
<1>3. /\ version'[log[e].box] = log[e].version
      /\ \A b \in Boxes \ {log[e].box} : version'[b] = version[b]
  BY <1>2 DEF Types, RowOK
<1>4. ASSUME NEW f \in Occurred, log[f].box = log[e].box, log[f].box \notin crowded,
             way[f]["appv"] = "write"
      PROVE  FALSE
  <2>1. Working(f)
    BY <1>4 DEF Working, UnderWay, Ways
  <2>2. e = f
    BY <1>4, <2>1, OneWorks
  <2>3. log[f].kind = "open"
    BY <1>2, <1>4 DEF Types, StatesOK, Ways
  <2> QED
    BY <2>2, <2>3
<1>5. ASSUME NEW f \in Occurred \ {e}, Last(f), log[f].box = log[e].box,
             log[f].box \notin crowded
      PROVE  FALSE
  <2>1. e <= f
    BY <1>5 DEF Last, Upgrades, Events, Occurred
  <2>2. f <= e
    BY <1>5, OneWorks
  <2> QED
    BY <2>1, <2>2 DEF Occurred
<1>6. ASSUME NEW f \in Occurred, way'[f]["appv"] = "write", log[f].box \notin crowded'
      PROVE  version'[log[f].box] = None
  BY <1>2, <1>3, <1>4, <1>6 DEF VersionInv
<1>7. ASSUME NEW f \in Occurred, Last(f)', log[f].box \notin crowded', NEW a \in Attempts,
             attempt'[f][a] = "done"
      PROVE  version'[log[f].box] = log[f].version
  BY <1>2, <1>3, <1>5, <1>7 DEF VersionInv
<1> QED
  BY <1>1, <1>6, <1>7 DEF VersionInv

LEMMA VersionStep ==
    ASSUME Types, OneAtATime, VersionInv, [Next]_vars
    PROVE  VersionInv'
<1>t. Types' /\ Occurred \subseteq Event
  BY TypesStep, LineType DEF Types
<1>w. /\ way \in [Event -> [Ways -> State]] /\ {"fopen", "appv", "last", "main"} = Ways
      /\ attempt \in [Event -> [Attempts -> State]]
  BY DEF Types, StatesOK, Ways
<1>1. ASSUME NEW b \in Boxes, NEW v \in Versions, Open(b, v) \/ Upgrade(b, v)
      PROVE  VersionInv'
  <2> DEFINE n == Len(log) + 1
  <2>1. PICK k \in {"open", "upgrade"} :
           /\ Arrive([kind |-> k, box |-> b, version |-> v])
           /\ k = "open" => Open(b, v)
           /\ k = "upgrade" => Upgrade(b, v)
    BY <1>1 DEF Open, Upgrade
  <2>2. [kind |-> k, box |-> b, version |-> v] \in Line
    BY DEF Line
  <2>3. /\ n \in Event \ Occurred /\ Occurred' = Occurred \cup {n}
        /\ \A i \in Occurred : log'[i] = log[i]
    BY <2>1, <2>2, Arrives DEF Types
  <2>4. UNCHANGED version /\ crowded \subseteq crowded'
    BY <2>1 DEF Arrive, row
  <2>5. /\ \A e \in Occurred : way'[e] = way[e] /\ attempt'[e] = attempt[e]
        /\ way'[n]["appv"] # "write"
        /\ \A a \in Attempts : attempt'[n][a] # "done"
    <3>1. way[n]["appv"] = "none" /\ \A a \in Attempts : attempt[n][a] = "none"
      BY <2>3, <1>w DEF Types, StatesOK
    <3>2. \A e \in Occurred : e \in Event /\ e # n
      BY <2>3, <1>t
    <3>3. CASE Open(b, v)
      BY <3>1, <3>2, <3>3, <2>3, <1>w DEF Open
    <3>4. CASE Upgrade(b, v)
      BY <3>1, <3>2, <3>4, <2>3, <1>w DEF Upgrade
    <3> QED
      BY <1>1, <3>3, <3>4
  <2>6. ASSUME NEW e \in Occurred, Last(e)' PROVE Last(e)
    <3>1. \A c : Upgrades(c) \subseteq Upgrades(c)'
      BY <2>3 DEF Upgrades, Events, Occurred
    <3> QED
      BY <2>3, <2>6, <3>1 DEF Last
  <2>7. ASSUME NEW e \in Occurred', way'[e]["appv"] = "write", log'[e].box \notin crowded'
        PROVE  version'[log'[e].box] = None
    <3>1. e \in Occurred
      BY <2>3, <2>5, <2>7
    <3> QED
      BY <3>1, <2>3, <2>4, <2>5, <2>7 DEF VersionInv
  <2>8. ASSUME NEW e \in Occurred', Last(e)', log'[e].box \notin crowded',
               NEW a \in Attempts, attempt'[e][a] = "done"
        PROVE  version'[log'[e].box] = log'[e].version
    <3>1. e \in Occurred
      BY <2>3, <2>5, <2>8
    <3>2. Last(e)
      BY <3>1, <2>6, <2>8
    <3> QED
      BY <3>1, <3>2, <2>3, <2>4, <2>5, <2>8 DEF VersionInv
  <2> QED
    BY <2>7, <2>8 DEF VersionInv
<1>2. ASSUME NEW e \in Event, StepOf(e) PROVE VersionInv'
  <2>1. Effect(e)
    BY <1>2, OneTypes
  <2>2. /\ e \in Occurred /\ UNCHANGED log /\ Occurred' = Occurred
        /\ crowded \subseteq crowded'
        /\ \A f \in Occurred \ {e} : way'[f] = way[f] /\ attempt'[f] = attempt[f]
        /\ \A b \in Boxes : Upgrades(b)' = Upgrades(b)
    BY <2>1, <1>t, LinesStay DEF Effect
  <2>b. \A f \in Occurred : /\ log[f].box \in Boxes /\ log[f].version \in Versions
                            /\ Last(f)' <=> Last(f)
    BY <2>2, LineType DEF Types, Last
  <2>3. ASSUME UNCHANGED version, way'[e]["appv"] = "write" => way[e]["appv"] = "write",
               \A a \in Attempts : attempt'[e][a] = "done" => attempt[e][a] = "done"
        PROVE  VersionInv'
    BY <2>2, <2>3, VersionStays
  <2>4. ASSUME NEW w \in Ways, NEW s \in State, way' = [way EXCEPT ![e][w] = s],
               UNCHANGED <<version, attempt>>, w # "appv" \/ s # "write"
        PROVE  VersionInv'
    BY <2>3, <2>4, <1>w
  <2>5. CASE FOpenIsNull(e) \/ FOpenUpdate(e)
    <3>1. PICK s \in State : Along(e, "fopen", s) /\ UNCHANGED version
      BY <2>5 DEF FOpenIsNull, FOpenUpdate, row, State, UnderWay
    <3> QED
      BY <3>1, <2>4, <1>w DEF Along
  <2>6. CASE NoJudgeUpdate(e) \/ MainIsNull(e)
    <3>1. PICK w \in {"last", "main"} : Along(e, w, "done") /\ UNCHANGED version
      BY <2>6 DEF NoJudgeUpdate, MainIsNull
    <3> QED
      BY <3>1, <2>4, <1>w DEF Along, State
  <2>7. CASE AppVersionIsNull(e)
    <3>1. CASE version[log[e].box] = None
      <4>1. way' = [way EXCEPT ![e]["appv"] = "write"] /\ UNCHANGED <<version, attempt>>
        BY <2>7, <3>1 DEF AppVersionIsNull, Along, row
      <4>2. ASSUME NEW f \in Occurred, way'[f]["appv"] = "write", log[f].box \notin crowded'
            PROVE  version[log[f].box] = None
        BY <3>1, <4>2, <2>2 DEF VersionInv
      <4> QED
        BY <4>1, <4>2, <2>2, <2>b DEF VersionInv
    <3>2. CASE version[log[e].box] # None
      BY <2>7, <3>2, <2>4, <1>w DEF AppVersionIsNull, Along, row, State
    <3> QED
      BY <3>1, <3>2
  <2>8. CASE AppVersionUpdate(e)
    <3>1. /\ way[e]["appv"] = "write" /\ UNCHANGED <<attempt, crowded>>
          /\ way' = [way EXCEPT ![e]["appv"] = "done"]
          /\ version' = [version EXCEPT ![log[e].box] = log[e].version]
      BY <2>8 DEF AppVersionUpdate, Along
    <3>2. /\ way'[e]["appv"] = "done" /\ Working(e)
          /\ \A b \in Boxes \ {log[e].box} : version'[b] = version[b]
      BY <3>1, <2>2, <2>b, <1>t, <1>w DEF Types, RowOK, Working, UnderWay
    <3>3. ASSUME NEW f \in Occurred, log[f].box = log[e].box, log[f].box \notin crowded,
                 way'[f]["appv"] = "write"
          PROVE  FALSE
      <4>1. f # e
        BY <3>2, <3>3
      <4>2. Working(f)
        BY <4>1, <2>2, <3>3, <1>w DEF Working, UnderWay
      <4> QED
        BY <3>2, <3>3, <4>1, <4>2, <2>2, OneWorks
    <3>4. ASSUME NEW f \in Occurred, Last(f), log[f].box = log[e].box,
                 log[f].box \notin crowded, NEW a \in Attempts, attempt[f][a] = "done"
          PROVE  FALSE
      BY <3>1, <3>4, <2>2, <2>b, UserInfoAssumption DEF VersionInv
    <3>5. ASSUME NEW f \in Occurred, way'[f]["appv"] = "write", log[f].box \notin crowded
          PROVE  version'[log[f].box] = None
      <4>1. log[f].box # log[e].box /\ f # e
        BY <3>3, <3>5
      <4> QED
        BY <4>1, <3>2, <3>5, <2>2, <2>b DEF VersionInv
    <3>6. ASSUME NEW f \in Occurred, Last(f), log[f].box \notin crowded,
                 NEW a \in Attempts, attempt[f][a] = "done"
          PROVE  version'[log[f].box] = log[f].version
      <4>1. log[f].box # log[e].box
        BY <3>4, <3>6
      <4> QED
        BY <4>1, <3>2, <3>6, <2>b DEF VersionInv
    <3> QED
      BY <3>1, <3>5, <3>6, <2>2, <2>b DEF VersionInv
  <2>9. ASSUME NEW w \in Ways, Lose(e, w) PROVE VersionInv'
    BY <2>9, <2>4 DEF Lose, Along, row, State
  <2>10. ASSUME NEW a \in Attempts, AppVersionIsChanged(e, a) PROVE VersionInv'
    <3>1. UNCHANGED <<way, version, crowded>>
      BY <2>10 DEF AppVersionIsChanged, row
    <3>2. CASE version[log[e].box] = log[e].version
      BY <3>1, <3>2, <2>2, <2>b DEF VersionInv
    <3>3. CASE version[log[e].box] # log[e].version
      <4>1. \A n \in Attempts : attempt'[e][n] = IF n = a THEN "write" ELSE attempt[e][n]
        BY <2>10, <3>3, AttemptGoesOn DEF AppVersionIsChanged, State, UnderWay
      <4> QED
        BY <3>1, <4>1, <2>3
    <3> QED
      BY <3>2, <3>3
  <2>11. ASSUME NEW a \in Attempts, UpdateVersion(e, a) \/ Fails(e, a),
                VersionUpdate(log[e].box, log[e].version)
         PROVE  VersionInv'
    <3>1. UNCHANGED way /\ attempt[e][a] \in UnderWay
      BY <2>11 DEF UpdateVersion, Fails, UnderWay
    <3>2. Working(e) /\ log[e].kind = "upgrade"
      BY <3>1 DEF Working, UnderWay, Types, StatesOK
    <3> QED
      BY <2>11, <3>1, <3>2, <2>2, VersionWritten DEF VersionUpdate
  <2>12. ASSUME NEW a \in Attempts, Fails(e, a), UNCHANGED version PROVE VersionInv'
    <3>1. \A n \in Attempts :
             attempt'[e][n] = IF n = a + 1 THEN "read"
                              ELSE IF n = a THEN "lost" ELSE attempt[e][n]
      BY <2>12, AttemptRepeated
    <3>2. UNCHANGED way
      BY <2>12 DEF Fails
    <3>3. \A n \in Attempts : attempt'[e][n] = "done" => attempt[e][n] = "done"
      BY <3>1
    <3> QED
      BY <2>12, <3>2, <3>3, <2>3
  <2>13. ASSUME NEW a \in Attempts, FailsLate(e, a) PROVE VersionInv'
    <3>1. \A n \in Attempts : attempt'[e][n] = IF n = a THEN "lost" ELSE attempt[e][n]
      BY <2>13, AttemptGoesOn DEF FailsLate, State
    <3> QED
      BY <2>13, <3>1, <2>3 DEF FailsLate, row
  <2>14. ASSUME NEW a \in Attempts, Again(e, a) PROVE VersionInv'
    <3>1. a + 1 \in Attempts
      BY <2>14, UserInfoAssumption DEF Again, Replay, Attempts
    <3>2. \A n \in Attempts : attempt'[e][n] = IF n = a + 1 THEN "read" ELSE attempt[e][n]
      BY <2>14, <3>1, AttemptGoesOn DEF Again, State, UnderWay
    <3> QED
      BY <2>14, <3>2, <2>3 DEF Again, row
  <2>15. ASSUME NEW a \in Attempts, AttemptStep(e, a) \/ Fails(e, a) PROVE VersionInv'
    BY <2>15, <2>10, <2>11, <2>12 DEF AttemptStep, UpdateVersion, Fails
  <2> QED
    BY <1>2, <2>5, <2>6, <2>7, <2>8, <2>9, <2>13, <2>14, <2>15 DEF StepOf, OpeningStep
<1>3. ASSUME NEW b \in Boxes, Account(b) PROVE VersionInv'
  BY <1>3, VersionStays DEF Account, doing
<1>4. CASE UNCHANGED vars
  BY <1>4, VersionStays DEF vars, doing, row
<1> QED
  BY <1>1, <1>2, <1>3, <1>4, Steps

\* While the lines of a box do not overlap, a box at rest has the version of its last
\* upgrade, however often upgrades failed or were repeated.
THEOREM LatestVersions == Spec => []LatestVersion
<1>1. Spec => [](Types /\ OneAtATime /\ AttemptsInv /\ VersionInv)
  BY TypesInit, TypesStep, OneInit, OneStep, VersionInit, AttemptsStep, VersionStep, PTL
     DEF Spec
<1> QED
  BY <1>1, AtRest, PTL

=============================================================================
