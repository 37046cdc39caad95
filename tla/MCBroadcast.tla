----------------------------- MODULE MCBroadcast -----------------------------
(* Constants for the small instances of Broadcast.                         *)
EXTENDS Broadcast, TLC

CONSTANTS e1, e2, e3

AllOrSome == {Event, {e1, e3} \cap Event}

Everything == {Event}

(* Filter is the same set with e1 and e3 exchanged.                        *)
Symmetry == Permutations(Sub) \cup Permutations({e1, e3})
=============================================================================
