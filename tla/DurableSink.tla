---------------------------- MODULE DurableSink ----------------------------
(***************************************************************************)
(* What the HDFS bolt promises Storm: a tuple gets one answer, which does  *)
(* not change, it is acked only when its record is stored, and a stored    *)
(* record stays. A process that goes away leaves tuples without an answer. *)
(***************************************************************************)
CONSTANT Tuples

VARIABLES
    stored,                 \* tuples whose records HDFS keeps
    acked, failed, lost     \* tuples settled so far, in one way each

Settled == acked \cup failed \cup lost

Init == stored = {} /\ acked = {} /\ failed = {} /\ lost = {}

Store(S) ==
    /\ stored' = stored \cup S
    /\ UNCHANGED <<acked, failed, lost>>

Ack(S) ==
    /\ S \subseteq stored \ Settled
    /\ acked' = acked \cup S
    /\ UNCHANGED <<stored, failed, lost>>

Fail(S) ==
    /\ S \cap Settled = {}
    /\ failed' = failed \cup S
    /\ UNCHANGED <<stored, acked, lost>>

\* A clean shutdown stores what it does not answer any more.
Lose(S, T) ==
    /\ S \cap Settled = {}
    /\ lost' = lost \cup S
    /\ stored' = stored \cup T
    /\ UNCHANGED <<acked, failed>>

Next ==
    \E S \in SUBSET Tuples :
        Store(S) \/ Ack(S) \/ Fail(S) \/ \E T \in SUBSET Tuples : Lose(S, T)

Spec == Init /\ [][Next]_<<stored, acked, failed, lost>>

=============================================================================
