------------------------------ MODULE PollSet ------------------------------
(***************************************************************************)
(* The poll backend (src/src/obj/poll.c, wait_on_poll in yield.c) over the *)
(* slot allocator of array.c (module SlotArray): handles primed on arrays  *)
(* of struct pollfd, the system buffer of pollfd entries passed to poll(), *)
(* the per-fd record of watched events (core->pollrec), the per-handle     *)
(* chain of slots (data.polls.tabpos, ref.next), fatal events that disable *)
(* a slot without freeing it, and trim_array.                              *)
(*                                                                         *)
(* The priority queues are those of module Reactor; here the queue is the *)
(* set of queued handles and dispatch takes any of them.  Every handle has *)
(* a procedure (react_direct), so react_queue always queues.               *)
(*                                                                         *)
(* A failed assertion of the C code does not stop the model (the library   *)
(* built with NDEBUG goes on); its name is added to core.fault.            *)
(***************************************************************************)
EXTENDS Integers, Sequences, FiniteSets, SequencesExt

CONSTANTS
  Handles,        \* the event handles of the core
  NoHandle,       \* ref.ev of a slot that never had an owner (NULL)
  NFds,           \* file descriptors 0 .. NFds-1
  Evs,            \* the requestable events (POLLIN, POLLOUT, ...)
  Masks,          \* the non-empty event masks callers request
  MaxEntries,     \* the longest struct pollfd array passed to prime
  Limit,          \* ARRAY_LIMIT
  FatalEvents,    \* whether poll() may report POLLERR/POLLHUP/POLLNVAL
  RepeatedFds,    \* whether one array may name the same fd twice
  AllocFails      \* whether realloc may fail (ENOMEM) in react_prime_polls

ASSUME NoHandle \notin Handles /\ MaxEntries \in Nat \ {0}
ASSUME Masks \subseteq (SUBSET Evs) \ {{}}
ASSUME AllocFails \in BOOLEAN

Fds == 0 .. NFds - 1

(* INT_MAX, the largest descriptor, at the width of the model.           *)
IntMax == NFds - 1

(* The allocator; ARRAY_NULL of the poll backend is a pollfd with fd -1.  *)
SA == INSTANCE SlotArray WITH Null <- -1

NoSlot == -1    \* (index_type) -1, the end of a handle's chain

Slots == SA!Slots

(* An entry of the user's struct pollfd array: fd (negative: disabled)   *)
(* and requested events.                                                  *)
Entry == [fd : Fds \cup {-1}, evs : Masks]

(* The arrays a caller may pass: 1 .. MaxEntries entries.                 *)
Arrays ==
  {es \in UNION {[1 .. n -> Entry] : n \in 1 .. MaxEntries} :
     RepeatedFds \/ \A j, k \in DOMAIN es :
                      j # k /\ es[j].fd >= 0 => es[j].fd # es[k].fd}

Faults == {"arralloc_lim", "arrfree_lim", "alloc_pos", "add_monitor"}

VARIABLE core

vars == <<core>>

(* ref_base[i].user for the poll backend.                                  *)
RefType == [ev : Handles \cup {NoHandle}, fd : Fds \cup {-1},
            evs : SUBSET Evs, next : Slots \cup {NoSlot}]

NullRef == [ev |-> NoHandle, fd |-> -1, evs |-> {}, next |-> NoSlot]

InitCore ==
  [buf |-> SA!EmptyBuf,
   ref |-> [i \in Slots |-> NullRef],
   pollrec |-> [f \in Fds |-> {}],
   recsize |-> 0,
   tabpos |-> [r \in Handles |-> NoSlot],
   defuse |-> [r \in Handles |-> "none"],
   queued |-> {},
   fault |-> {}]

InUse(c, i) == i < c.buf.cap /\ ~SA!IsFree(c.buf, i)

(* Mutant: trim_array does not look at the fd of the last slot.          *)
trim_array_unchecked(c) ==
  IF c.buf.lim > 0 THEN [c EXCEPT !.buf.lim = @ - 1] ELSE c

(* trim_array: drop lim by one if the last slot below it has fd < 0.     *)
trim_array(c) ==
  IF c.buf.lim > 0 /\ c.buf.base[c.buf.lim - 1] < 0
  THEN [c EXCEPT !.buf.lim = @ - 1] ELSE c

(* react_arrfree with its closing assertion size <= lim.                  *)
ArrFree(c, i) ==
  LET b == SA!react_arrfree(c.buf, i)
  IN  [c EXCEPT !.buf = b,
                !.fault = IF b.size <= b.lim THEN @ ELSE @ \cup {"arrfree_lim"}]

(* The loop of defuse_polls from slot i along the chain: blank the slot,  *)
(* free it, clear its events from pollrec.                                 *)
RECURSIVE FreeChain(_, _)
FreeChain(c, i) ==
  IF i = NoSlot THEN c
  ELSE LET ref == c.ref[i]
           c1  == ArrFree([c EXCEPT !.buf.base[i] = -1], i)
       IN  FreeChain([c1 EXCEPT !.pollrec[ref.fd] = @ \ ref.evs], ref.next)

(* defuse_polls: free the whole chain, then trim_array once.              *)
defuse_polls(c, r) == trim_array(FreeChain(c, c.tabpos[r]))

(* react_defuse: the registered defuse function, then none.               *)
react_defuse(c, r) ==
  IF c.defuse[r] = "polls"
  THEN [defuse_polls(c, r) EXCEPT !.defuse[r] = "none"]
  ELSE c

(* react_cancel: defuse, then dequeue.                                    *)
react_cancel(c, r) == [react_defuse(c, r) EXCEPT !.queued = @ \ {r}]

(* check_monitor(core, fd, evs) < 0: a requested event already in         *)
(* pollrec; a descriptor at or beyond pollrec.size has no record and so    *)
(* never conflicts.                                                        *)
check_monitor(c, e) ==
  e.fd < c.recsize /\ e.evs \cap c.pollrec[e.fd] # {}

(* Mutant: only the first entry of the array is checked.                   *)
Conflict_first_only(c, es) == es[1].fd >= 0 /\ check_monitor(c, es[1])

(* The first loop of react_prime_polls: check_monitor over the valid      *)
(* entries.                                                                *)
Conflict(c, es) == \E k \in DOMAIN es : es[k].fd >= 0 /\ check_monitor(c, es[k])

Valid(es) == {k \in DOMAIN es : es[k].fd >= 0}

(* maxfd of react_prime_polls: the largest valid descriptor.             *)
MaxFd(es) == Max({es[k].fd : k \in Valid(es)})

(* Mutant: the loop of ensure_pollrecs stops when nsize reaches maxfd.    *)
RECURSIVE GrowPollrecs_short(_, _, _)
GrowPollrecs_short(nsize, maxfd, intmax) ==
  IF maxfd <= nsize THEN nsize
  ELSE LET inc == 2 + nsize \div 2
       IN  IF nsize > intmax - inc + 1 THEN intmax + 1
           ELSE GrowPollrecs_short(nsize + inc, maxfd, intmax)

(* Mutant: the loop of ensure_pollrecs without its overflow check.        *)
RECURSIVE GrowPollrecs_uncapped(_, _, _)
GrowPollrecs_uncapped(nsize, maxfd, intmax) ==
  IF maxfd < nsize THEN nsize
  ELSE GrowPollrecs_uncapped(nsize + 2 + nsize \div 2, maxfd, intmax)

(* The size ensure_pollrecs gives pollrec for maxfd, starting from nsize: *)
(* grow by 2 + nsize/2 while maxfd >= nsize, but stop at INT_MAX + 1 when *)
(* the next step would pass it.                                            *)
RECURSIVE GrowPollrecs(_, _, _)
GrowPollrecs(nsize, maxfd, intmax) ==
  IF maxfd < nsize THEN nsize
  ELSE LET inc == 2 + nsize \div 2
       IN  IF nsize > intmax - inc + 1 THEN intmax + 1
           ELSE GrowPollrecs(nsize + inc, maxfd, intmax)

(* ensure_pollrecs: grow pollrec, new records empty (pollrec of a model   *)
(* descriptor beyond size is kept empty, so only size changes).           *)
ensure_pollrecs(c, maxfd) == [c EXCEPT !.recsize = GrowPollrecs(@, maxfd, IntMax)]

(* Mutant: the slot is not pushed on the handle's chain.                   *)
AllocEntry_unlinked(r, c, e) ==
    IF e.fd < 0 THEN c
    ELSE LET a == SA!react_arralloc(c.buf)
         IN  IF a.idx = -1 THEN [c EXCEPT !.fault = @ \cup {"alloc_pos"}]
             ELSE [c EXCEPT !.buf = [a.buf EXCEPT !.base[a.idx] = e.fd],
                            !.ref[a.idx] = [ev |-> r, fd |-> e.fd, evs |-> e.evs,
                                            next |-> NoSlot],
                            !.tabpos[r] = a.idx,
                            !.pollrec[e.fd] = @ \cup e.evs]

(* One pass of the copy loop of react_prime_polls for entry e: allocate a *)
(* slot (asserting success), fill it, push it on the handle's chain, and  *)
(* add_monitor (asserting no overlap).                                    *)
AllocEntry(r, c, e) ==
    IF e.fd < 0 THEN c
    ELSE LET a   == SA!react_arralloc(c.buf)
             pos == a.idx
             b   == a.buf
             f1  == c.fault \cup
                      (IF b.size <= b.lim THEN {} ELSE {"arralloc_lim"}) \cup
                      (IF e.evs \cap c.pollrec[e.fd] = {} THEN {}
                       ELSE {"add_monitor"})
         IN  IF pos = -1 THEN [c EXCEPT !.fault = @ \cup {"alloc_pos"}]
             ELSE [c EXCEPT !.buf = [b EXCEPT !.base[pos] = e.fd],
                            !.ref[pos] = [ev |-> r, fd |-> e.fd, evs |-> e.evs,
                                          next |-> c.tabpos[r]],
                            !.tabpos[r] = pos,
                            !.pollrec[e.fd] = @ \cup e.evs,
                            !.fault = f1]

(* react_prime_polls: cancel, check every valid entry, EINVAL if none,    *)
(* grow pollrec past maxfd, ensure room for all, copy them in, and        *)
(* register defuse_polls/on_polls.                                        *)
react_prime_polls(c0, r, es) ==
  LET c == react_cancel(c0, r)
      n == Cardinality(Valid(es))
  IN  IF Conflict(c, es) THEN [rc |-> "EEVENTINUSE", core |-> c]
      ELSE IF n = 0 THEN [rc |-> "EINVAL", core |-> c]
      ELSE LET c2 == ensure_pollrecs(c, MaxFd(es))
               e  == SA!react_arrensure(c2.buf, n)
           IN  IF ~e.ok THEN [rc |-> "ECOREBUSY", core |-> c2]
               ELSE LET c1 == FoldLeft(LAMBDA x, y : AllocEntry(r, x, y),
                                       [c2 EXCEPT !.buf = e.buf, !.tabpos[r] = NoSlot], es)
                    IN  [rc |-> "ok", core |-> [c1 EXCEPT !.defuse[r] = "polls"]]

(* The cores react_prime_polls leaves when it returns ENOMEM: the realloc *)
(* of ensure_pollrecs, made when pollrec must grow, fails; or, after it,  *)
(* one of those of react_arrensure, made when the array must grow.  A     *)
(* failed realloc changes no size (react_arrensure keeps whichever new    *)
(* block it got, unused).                                                 *)
NoMem(c0, r, es) ==
  LET c  == react_cancel(c0, r)
      n  == Cardinality(Valid(es))
      c2 == ensure_pollrecs(c, MaxFd(es))
      e  == SA!react_arrensure(c2.buf, n)
  IN  IF Conflict(c, es) \/ n = 0 THEN {}
      ELSE (IF c2.recsize # c.recsize THEN {c} ELSE {}) \cup
           (IF e.ok /\ e.buf.cap # c2.buf.cap THEN {c2} ELSE {})

(* The scan of wait_on_poll after poll() reported the slots in R ready,   *)
(* those in F with a fatal event: on_polls for each, in index order; a    *)
(* fatal event sets the slot's fd to -1 but keeps it allocated; the owner *)
(* is queued.                                                              *)
on_polls(c, R, F) ==
  [c EXCEPT !.buf.base = [i \in Slots |-> IF i \in F THEN -1 ELSE @[i]],
            !.queued = @ \cup {c.ref[i].ev : i \in R}]

(***************************************************************************)
(* The specification.                                                      *)
(***************************************************************************)

Init == core = InitCore

(* The user calls react_prime_polls on handle r with array es (the result  *)
(* code is not kept: every failure leaves the handle cancelled).           *)
Prime(r, es) == core' = react_prime_polls(core, r, es).core

(* The same call when a realloc it makes fails (ENOMEM).  The call makes  *)
(* one only while the array is below ARRAY_LIMIT or pollrec misses an fd  *)
(* of es; NoMem is computed only then.                                     *)
PrimeNoMem(r, es) ==
  /\ AllocFails
  /\ core.buf.cap < Limit \/ \E k \in Valid(es) : es[k].fd >= core.recsize
  /\ \E k \in NoMem(core, r, es) : core' = k

(* The user calls react_cancel (react_close is the same for the backend). *)
Cancel(r) == core' = react_cancel(core, r)

(* The slots poll() looks at: below lim, with fd >= 0.                    *)
Watched(c) == {i \in 0 .. c.buf.lim - 1 : c.buf.base[i] >= 0}

(* react_yield calls poll() and it reports the slots R ready, those in F  *)
(* with a fatal event; the scan calls on_polls for each.                  *)
Poll ==
  \E R \in (SUBSET Watched(core)) \ {{}} :
    \E F \in (IF FatalEvents THEN SUBSET R ELSE {{}}) :
      core' = on_polls(core, R, F)

(* The drain loop of react_yield takes queued handle r: dequeue, then     *)
(* react_defuse, then the user's procedure (which does not act here).     *)
Dispatch(r) ==
  /\ r \in core.queued
  /\ core' = react_defuse([core EXCEPT !.queued = @ \ {r}], r)

Next ==
  \/ \E r \in Handles, es \in Arrays : Prime(r, es)
  \/ \E r \in Handles, es \in Arrays : PrimeNoMem(r, es)
  \/ \E r \in Handles : Cancel(r)
  \/ Poll
  \/ \E r \in Handles : Dispatch(r)

(* The application keeps calling react_yield, whose drain loop empties    *)
(* the queue on every call (module Reactor, YieldReturns).                *)
Fairness == \A r \in Handles : WF_vars(Dispatch(r))

Spec == Init /\ [][Next]_vars /\ Fairness

(* What the code never reads again: ref of a free slot (init_array is not *)
(* called on reuse; react_prime_polls overwrites it) and tabpos of a      *)
(* handle not primed (reset before the copy loop).  States that differ    *)
(* only there behave alike, so TLC may identify them.                     *)
View ==
  [core EXCEPT
     !.ref = [i \in Slots |-> IF InUse(core, i) THEN @[i] ELSE NullRef],
     !.tabpos = [r \in Handles |-> IF core.defuse[r] = "polls" THEN @[r]
                                                               ELSE NoSlot]]

(***************************************************************************)
(* Properties.                                                             *)
(***************************************************************************)

UsedSlots(c) == {i \in 0 .. c.buf.cap - 1 : InUse(c, i)}

(* The slots on the chain from i, following ref.next (at most Limit).     *)
RECURSIVE Chain(_, _, _)
Chain(c, i, k) ==
  IF i = NoSlot \/ k = 0 THEN {} ELSE {i} \cup Chain(c, c.ref[i].next, k - 1)

(* The type of the core.                                                  *)
TypeOK ==
  /\ core.buf.cap \in 0 .. Limit /\ core.buf.size \in 0 .. core.buf.cap
  /\ core.buf.lim \in 0 .. Limit /\ core.buf.free \in Slots
  /\ core.buf.next \in [Slots -> Slots \cup {SA!InUse}]
  /\ core.buf.prev \in [Slots -> Slots \cup {SA!InUse}]
  /\ core.buf.base \in [Slots -> Fds \cup {-1}]
  /\ core.ref \in [Slots -> RefType]
  /\ core.pollrec \in [Fds -> SUBSET Evs]
  /\ core.recsize \in 0 .. IntMax + 1
  /\ core.tabpos \in [Handles -> Slots \cup {NoSlot}]
  /\ core.defuse \in [Handles -> {"none", "polls"}]
  /\ core.queued \subseteq Handles
  /\ core.fault \subseteq Faults

(* react_arralloc, react_arrfree and react_arrensure, as called by the    *)
(* poll backend, keep the free slots a closed doubly-linked list entered  *)
(* at free, with size counting the rest.                                  *)
FreeListWellFormed == SA!FreeListOK(core.buf)

(* poll() is given every slot still being watched: each allocated slot    *)
(* whose fd is not negative lies below lim, though trim_array lowers lim  *)
(* after fatal events and cancellations.                                  *)
LiveBelowLim == \A i \in UsedSlots(core) : core.buf.base[i] >= 0 => i < core.buf.lim

(* The allocated slots are exactly those on the chains of primed handles: *)
(* defuse_polls, walking the chain from tabpos, frees every slot the      *)
(* handle holds, so on_polls never queues a handle that is not primed.    *)
ChainIntegrity ==
  /\ \A r \in Handles : core.defuse[r] = "polls" =>
        Chain(core, core.tabpos[r], Limit) =
          {i \in UsedSlots(core) : core.ref[i].ev = r}
  /\ \A i \in UsedSlots(core) : core.defuse[core.ref[i].ev] = "polls"

(* react_prime_polls refuses (EEVENTINUSE) an event that another handle   *)
(* is waiting for: pollrec is the union of the events of the allocated    *)
(* slots of each fd, fatal ones included, and two handles never wait for  *)
(* the same event of the same fd.                                          *)
MonitorExclusive ==
  /\ \A f \in Fds :
       core.pollrec[f] =
         UNION {core.ref[i].evs : i \in {j \in UsedSlots(core) : core.ref[j].fd = f}}
  /\ \A i, j \in UsedSlots(core) :
       core.ref[i].fd = core.ref[j].fd /\ core.ref[i].ev # core.ref[j].ev =>
         core.ref[i].evs \cap core.ref[j].evs = {}

(* check_monitor skips a descriptor at or beyond pollrec.size, so every  *)
(* descriptor a slot watches must have its record inside pollrec, which   *)
(* ensure_pollrecs grows past maxfd before add_monitor writes it and      *)
(* which nothing shrinks before the core is closed; otherwise a second    *)
(* handle could prime an event the first already waits for.              *)
PollrecCovers == \A i \in UsedSlots(core) : core.ref[i].fd < core.recsize

(* ensure_pollrecs, for every INT_MAX up to 3, from the current size of  *)
(* pollrec and from every size up to INT_MAX + 1, and for every maxfd up  *)
(* to INT_MAX, ends with size > maxfd (its closing assertion) and size <= *)
(* INT_MAX + 1 (its overflow check), and leaves a size that already       *)
(* exceeds maxfd alone (no realloc).                                      *)
EnsurePollrecsPost ==
  \A w \in 1 .. 3 : \A s \in {core.recsize} \cup 0 .. w + 1 : \A m \in 0 .. w :
    LET n == GrowPollrecs(s, m, w)
    IN  m < n /\ n <= w + 1 /\ (m < s => n = s)

(* The assertions size <= lim at the end of react_arralloc and           *)
(* react_arrfree never fail.                                              *)
LimAssertionsHold == core.fault \cap {"arralloc_lim", "arrfree_lim"} = {}

(* The assertion of add_monitor, that no requested event is already      *)
(* watched, never fails in react_prime_polls.                             *)
MonitorAssertionHolds == "add_monitor" \notin core.fault

====
