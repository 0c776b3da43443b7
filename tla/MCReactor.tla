----------------------------- MODULE MCReactor -----------------------------
(***************************************************************************)
(* Model-checking instance of Reactor: handles and descriptors are model  *)
(* values; the numeric bounds are given in the .cfg files.  Two handles    *)
(* are enough for every interaction of the core: one handle is dispatched  *)
(* or primed while the other is queued or registered.                      *)
(***************************************************************************)
EXTENDS Reactor, TLC

CONSTANTS h1, h2, fd1

MCHandles == {h1, h2}

(* Handles are interchangeable: every property quantifies over all.        *)
HandleSymmetry == Permutations(MCHandles)

====
