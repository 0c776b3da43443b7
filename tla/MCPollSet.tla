----------------------------- MODULE MCPollSet -----------------------------
(* PollSet for TLC: two handles, model values for the handles.            *)
EXTENDS PollSet, TLC

CONSTANTS h1, h2

MCHandles == {h1, h2}

HandleSymmetry == Permutations(MCHandles)

====
