---------------------------- MODULE MCWinHandles ----------------------------
(* WinHandles for TLC: two user handles and one socket, whose usage has   *)
(* its own internal handle and WSAEVENT.                                  *)
EXTENDS WinHandles, TLC

CONSTANTS r1, r2, r3, s1, href1, h1, h2, w1, b1, b2, b3

MCUsers == {r1, r2, r3}
MCSockets == {s1}
MCHRef == [s \in {s1} |-> href1]
MCUserHdls == {h1, h2}
MCWsaHdl == [s \in {s1} |-> w1]

(* Every HANDLE in a bucket of its own, and all three in one bucket.       *)
HashApart == (h1 :> b1) @@ (h2 :> b2) @@ (w1 :> b3)
HashShared == (h1 :> b1) @@ (h2 :> b1) @@ (w1 :> b1)

UserSymmetry == Permutations(MCUsers)
====
