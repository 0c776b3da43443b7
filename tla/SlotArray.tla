----------------------------- MODULE SlotArray -----------------------------
(***************************************************************************)
(* The growable slot allocator of src/src/obj/array.c: core->sysbuf, an    *)
(* array of system elements (struct pollfd or HANDLE) of capacity cap, of  *)
(* which size are in use.  The free slots form a closed doubly-linked      *)
(* list through ref_base[i].next/prev, entered at free; a slot in use has  *)
(* next = prev = ARRAY_LIMIT.  lim is a sloppy bound of the used slots     *)
(* that callers pass to the system call.                                   *)
(*                                                                         *)
(* The functions are operators on a sysbuf record; react_arralloc and      *)
(* react_arrensure return a record with the result and the new sysbuf.     *)
(* The backends (PollSet) hold a sysbuf in a variable and call them.       *)
(***************************************************************************)
EXTENDS Integers, FiniteSets

CONSTANTS
  Limit,      \* ARRAY_LIMIT: the capacity never exceeds it
  Null        \* ARRAY_NULL: the value of an unused system element

ASSUME Limit \in Nat /\ Limit >= 4

Slots == 0 .. Limit - 1

(* ref_base[i].next = ref_base[i].prev = ARRAY_LIMIT marks slot i used.    *)
InUse == Limit

(* The zero-initialised sysbuf of a new core: nothing allocated.           *)
EmptyBuf ==
  [cap |-> 0, size |-> 0, lim |-> 0, free |-> 0,
   next |-> [i \in Slots |-> InUse], prev |-> [i \in Slots |-> InUse],
   base |-> [i \in Slots |-> Null]]

IsFree(s, i) == i < s.cap /\ s.next[i] # InUse

(* Mutant of react_arralloc: lim raised one too far.                       *)
react_arralloc_lim_past(s) ==
  IF s.size = s.cap THEN [idx |-> -1, buf |-> s]
  ELSE
    LET r == s.free
        t == IF s.prev[r] = r THEN s
             ELSE [s EXCEPT !.free = s.next[r], !.next[s.prev[r]] = s.next[r],
                            !.prev[s.next[r]] = s.prev[r]]
    IN  [idx |-> r,
         buf |-> [t EXCEPT !.next[r] = InUse, !.prev[r] = InUse,
                           !.size = @ + 1,
                           !.lim = IF r >= @ THEN r + 2 ELSE @]]

(* react_arralloc: -1 when full; otherwise take the free entry, unlink it  *)
(* (unless it is the last free one), mark it used, and raise lim past it.  *)
react_arralloc(s) ==
  IF s.size = s.cap THEN [idx |-> -1, buf |-> s]
  ELSE
    LET r == s.free
        p == s.prev[r]
        n == s.next[r]
        t == IF p = r THEN s
             ELSE [s EXCEPT !.free = n, !.next[p] = n, !.prev[n] = p]
    IN  [idx |-> r,
         buf |-> [t EXCEPT !.next[r] = InUse, !.prev[r] = InUse,
                           !.size = @ + 1,
                           !.lim = IF r >= @ THEN r + 1 ELSE @]]

(* Mutant: the freed slot is linked in, but prev of its successor is not   *)
(* updated.                                                                *)
react_arrfree_half_link(s, i) ==
  IF s.size = s.cap
  THEN [s EXCEPT !.prev[i] = i, !.next[i] = i, !.free = i,
                 !.base[i] = Null, !.size = @ - 1]
  ELSE LET before == s.free
           after  == s.next[before]
       IN  [s EXCEPT !.next[before] = i,
                     !.next[i] = after, !.prev[i] = before,
                     !.free = IF i < s.free THEN i ELSE s.free,
                     !.base[i] = Null, !.size = @ - 1]

(* Mutant: the freed slot is linked in, but an earlier freed slot does    *)
(* not become the head, so the next allocation may land above it.         *)
react_arrfree_keep_head(s, i) ==
  IF s.size = s.cap
  THEN [s EXCEPT !.prev[i] = i, !.next[i] = i, !.free = i,
                 !.base[i] = Null, !.size = @ - 1]
  ELSE LET before == s.free
           after  == s.next[before]
       IN  [s EXCEPT !.next[before] = i, !.prev[after] = i,
                     !.next[i] = after, !.prev[i] = before,
                     !.base[i] = Null, !.size = @ - 1]

(* react_arrfree: link slot i after the free entry (or make it the only    *)
(* free one), prefer it if it is earlier, blank the element.  lim is left  *)
(* to the caller.                                                          *)
react_arrfree(s, i) ==
  IF s.size = s.cap
  THEN [s EXCEPT !.prev[i] = i, !.next[i] = i, !.free = i,
                 !.base[i] = Null, !.size = @ - 1]
  ELSE LET before == s.free
           after  == s.next[before]
       IN  [s EXCEPT !.next[before] = i, !.prev[after] = i,
                     !.next[i] = after, !.prev[i] = before,
                     !.free = IF i < s.free THEN i ELSE s.free,
                     !.base[i] = Null, !.size = @ - 1]

(* The capacity loop of react_arrensure: grow by 3 + ncap/2 until the      *)
(* target is reached, stopping at ARRAY_LIMIT.                             *)
RECURSIVE GrowCap(_, _)
GrowCap(ncap, target) ==
  IF ncap >= target THEN ncap
  ELSE LET inc == 3 + ncap \div 2
       IN  IF ncap > Limit - inc THEN Limit ELSE GrowCap(ncap + inc, target)

(* react_arrensure: nothing to do if n slots are free; ECOREBUSY if the    *)
(* target exceeds ARRAY_LIMIT; otherwise grow, link the new slots in as a  *)
(* run between the free entry and its successor (or as the whole list),   *)
(* and blank them (the init callback of every caller sets ARRAY_NULL).     *)
react_arrensure(s, n) ==
  LET rem    == s.cap - s.size
      target == s.cap + (n - rem)
  IN
  IF n = 0 \/ rem >= n THEN [ok |-> TRUE, buf |-> s]
  ELSE IF target > Limit THEN [ok |-> FALSE, buf |-> s]
  ELSE
    LET ncap   == GrowCap(s.cap, target)
        none   == s.size = s.cap
        before == IF none THEN ncap - 1 ELSE s.free
        after  == IF none THEN s.cap ELSE s.next[s.free]
        new    == s.cap .. ncap - 1
        nxt    == [i \in Slots |-> IF i \in new
                                   THEN IF i = ncap - 1 THEN after ELSE i + 1
                                   ELSE s.next[i]]
        prv    == [i \in Slots |-> IF i \in new
                                   THEN IF i = s.cap THEN before ELSE i - 1
                                   ELSE s.prev[i]]
    IN  [ok |-> TRUE,
         buf |-> [s EXCEPT !.next = [nxt EXCEPT ![before] = s.cap],
                           !.prev = [prv EXCEPT ![after] = ncap - 1],
                           !.base = [i \in Slots |-> IF i \in new THEN Null
                                                     ELSE @[i]],
                           !.free = IF none THEN s.cap ELSE @,
                           !.cap = ncap]]

(***************************************************************************)
(* Properties of a sysbuf, used here and by the backends.                  *)
(***************************************************************************)

(* The free slots, following next from free: the slots met in cap steps.  *)
RECURSIVE Walk(_, _, _)
Walk(s, i, k) == IF k = 0 THEN {} ELSE {i} \cup Walk(s, s.next[i], k - 1)

FreeSlots(s) == {i \in 0 .. s.cap - 1 : IsFree(s, i)}

(* The free list is a closed doubly-linked list through exactly the free  *)
(* slots, entered at free, and size counts the others.                     *)
FreeListOK(s) ==
  /\ s.size = s.cap - Cardinality(FreeSlots(s))
  /\ s.size < s.cap =>
       /\ IsFree(s, s.free)
       /\ Walk(s, s.free, s.cap) = FreeSlots(s)
       /\ \A i \in FreeSlots(s) : IsFree(s, s.next[i]) /\ s.prev[s.next[i]] = i

====
