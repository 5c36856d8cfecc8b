--------------------------- MODULE MCAudioStreams ---------------------------
(* One stream of each kind: two that share a count, one with the other.    *)
EXTENDS AudioStreams

(* Bound: two of the three are in use, every pair of them.                 *)
Unused(s) == obj[s] = Fresh /\ call[s] = "idle" /\ ~ret[s]
TwoInUse == \E s \in Streams : Unused(s)
=============================================================================
