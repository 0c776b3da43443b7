------------------------------- MODULE FindFd -------------------------------
(***************************************************************************)
(* react_findfd (src/src/obj/fdextract.c): the next descriptor after *pos  *)
(* that is set in an fd_set, below nfds.  The select backend scans its     *)
(* result sets with                                                        *)
(*     for (int fd = -1; react_findfd(set, nfds, &fd); ) notify(fd);       *)
(* (hunt_fd_events and hunt_bad_fds in yield.c, and select.c).  There are  *)
(* two builds of the function: the portable loop, and a word-at-a-time     *)
(* loop over fds_bits for glibc.  An fd_set is the set of its members;     *)
(* fds_bits[i] holds the descriptors i*NFDBITS .. i*NFDBITS+NFDBITS-1.     *)
(***************************************************************************)
EXTENDS Integers, FiniteSets

CONSTANTS
  FdSetSize,   \* FD_SETSIZE
  NFDBITS,     \* the bits of an fd_mask
  FastPath     \* whether the glibc word-at-a-time branch is compiled

ASSUME NFDBITS \in Nat \ {0} /\ FdSetSize % NFDBITS = 0

FdRange == 0 .. FdSetSize - 1

(* The result of a call: the return value and the final *pos.             *)
Result(found, pos) == [found |-> found, pos |-> pos]

(* The portable branch: while (++*pos < nfds) if (FD_ISSET(...)) ...      *)
RECURSIVE Portable(_, _, _)
Portable(fds, nfds, pos) ==
  IF pos + 1 >= nfds THEN Result(FALSE, pos + 1)
  ELSE IF pos + 1 \in fds THEN Result(TRUE, pos + 1)
  ELSE Portable(fds, nfds, pos + 1)

(* ffsl(fds_bits[i] & (-1 << shift)) - 1: the least bit of word i at or   *)
(* above shift, or -1 if there is none.                                   *)
FirstBit(fds, i, shift) ==
  LET bits == {b \in shift .. NFDBITS - 1 : i * NFDBITS + b \in fds}
  IN  IF bits = {} THEN -1 ELSE CHOOSE b \in bits : \A c \in bits : b <= c

(* The loop of the glibc branch over words i .. lim-1, with *pos already  *)
(* incremented to p.                                                      *)
RECURSIVE FastLoop(_, _, _, _, _)
FastLoop(fds, nfds, p, i, lim) ==
  IF i >= lim THEN Result(FALSE, p)
  ELSE LET b == FirstBit(fds, i, p % NFDBITS)
       IN  IF b < 0 THEN FastLoop(fds, nfds, p, i + 1, lim)
           ELSE IF b + i * NFDBITS >= nfds THEN Result(FALSE, p)
           ELSE Result(TRUE, b + i * NFDBITS)

(* The glibc branch: lim = ceil(nfds / NFDBITS) words; the loop starts at *)
(* word (++*pos + NFDBITS - 1) / NFDBITS.                                 *)
Fast(fds, nfds, pos) ==
  LET p == pos + 1
  IN  FastLoop(fds, nfds, p, (p + NFDBITS - 1) \div NFDBITS,
               (nfds + NFDBITS - 1) \div NFDBITS)

react_findfd(fds, nfds, pos) ==
  IF FastPath THEN Fast(fds, nfds, pos) ELSE Portable(fds, nfds, pos)

(***************************************************************************)
(* The scanning loop of hunt_fd_events, for one mode: the set returned by  *)
(* select() and core->fdsum.nfds are fixed; each descriptor found is      *)
(* notified (its act is called).                                          *)
(***************************************************************************)
VARIABLES fds, nfds, fd, notified, pc

vars == <<fds, nfds, fd, notified, pc>>

Init ==
  /\ fds \in SUBSET FdRange
  /\ nfds \in 0 .. FdSetSize
  /\ fd = -1 /\ notified = {} /\ pc = "scan"

(* One test of the for loop: react_findfd, then the body or the exit.     *)
Find ==
  /\ pc = "scan"
  /\ LET res == react_findfd(fds, nfds, fd)
     IN  /\ fd' = res.pos
         /\ IF res.found
            THEN notified' = notified \cup {res.pos} /\ pc' = "scan"
            ELSE notified' = notified /\ pc' = "done"
  /\ UNCHANGED <<fds, nfds>>

(* The scan stops when the loop ends.                                     *)
Next == Find

Spec == Init /\ [][Next]_vars

TypeOK ==
  /\ fds \subseteq FdRange /\ nfds \in 0 .. FdSetSize
  /\ fd \in -1 .. FdSetSize /\ notified \subseteq FdRange
  /\ pc \in {"scan", "done"}

(* When the scan of hunt_fd_events ends, every descriptor that select()   *)
(* reported, and only those, has had its handle notified.                 *)
ScanNotifiesAll ==
  pc = "done" => notified = {x \in fds : x < nfds}

====
