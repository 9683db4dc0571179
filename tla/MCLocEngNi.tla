----------------------------- MODULE MCLocEngNi -----------------------------
(* Small instances of LocEngNi for TLC: ordinary and emergency requests.   *)
EXTENDS LocEngNi, TLC

CONSTANTS n1, n2, e1

Emergencies == {e1}
Everything  == {n1, n2, e1}

\* Ordinary requests are alike.
Alike == Permutations({n1, n2})
=============================================================================
