----------------------------- MODULE MCProactor -----------------------------
(* Proactor for TLC: two handles as model values.                          *)
EXTENDS Proactor, TLC

CONSTANTS h1, h2

MCHandles == {h1, h2}

HandleSymmetry == Permutations(MCHandles)

====
