------------------------------ MODULE MCSelect ------------------------------
(* Two handles of the select backend, for TLC.                            *)
EXTENDS Select, TLC

CONSTANTS h1, h2

MCHandles == {h1, h2}

(* react_MIN and react_MOUT, in the order of the loops over modes.       *)
MCModeSeq == <<"in", "out">>

HandleSymmetry == Permutations(MCHandles)

====
