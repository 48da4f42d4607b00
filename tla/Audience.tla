------------------------------ MODULE Audience ------------------------------
(***************************************************************************)
(* What the live topology promises of one box: it has at most one session, *)
(* and the count moves with the session, in one step. Neither Redis keys   *)
(* nor transactions nor the race of the bolt with the trigger show.        *)
(***************************************************************************)
EXTENDS Integers

CONSTANTS Macs, Channels, Partners, None

VARIABLES
    where,     \* box -> the session it is in, or None
    credit     \* box -> channel -> what it contributes to the count

Session == [chan : Channels, partner : Partners]

ChanOf(s) == IF s = None THEN None ELSE s.chan
OneIf(p) == IF p THEN 1 ELSE 0

Init ==
    /\ where = [m \in Macs |-> None]
    /\ credit = [m \in Macs |-> [c \in Channels |-> 0]]

\* Box m goes over to session s, or leaves when s is None.
Move(m, s) ==
    /\ where' = [where EXCEPT ![m] = s]
    /\ credit' = [credit EXCEPT ![m] = [c \in Channels |->
                    credit[m][c] + OneIf(c = ChanOf(s)) - OneIf(c = ChanOf(where[m]))]]

Next == \E m \in Macs, s \in Session \cup {None} : Move(m, s)

Spec == Init /\ [][Next]_<<where, credit>>

=============================================================================
