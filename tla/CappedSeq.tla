------------------------------ MODULE CappedSeq ------------------------------
(* Lists that keep only their newest entries: the read cursor of a mailbox,  *)
(* the read set of the relay.                                                *)
EXTENDS Naturals, Sequences

Elems(s) == {s[i] : i \in DOMAIN s}

\* The last n elements of s, Array.prototype.slice(-n) for a positive n.
LastN(s, n) == SubSeq(s, IF Len(s) > n THEN Len(s) - n + 1 ELSE 1, Len(s))
=============================================================================
