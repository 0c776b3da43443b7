----------------------------- MODULE WinHandles -----------------------------
(***************************************************************************)
(* The Windows backend (src/src/obj/winhandle.c, wait_on_windows in        *)
(* yield.c) over the slot allocator of array.c (module SlotArray).         *)
(*                                                                         *)
(*  - The system buffer holds the HANDLEs passed to                        *)
(*    (Msg)WaitForMultipleObjectsEx; a free slot holds unused_handle.      *)
(*  - winhandle_hash: buckets of the HANDLEs in use, by hash_handle, so    *)
(*    that a HANDLE is primed at most once (EEVENTINUSE).                  *)
(*  - WSA usages: one record per socket shared by every handle primed on   *)
(*    it with react_prime_winsock.  The record owns an internal event      *)
(*    handle (href), primed on the record's WSAEVENT, whose act is         *)
(*    on_winsock (react_swapact); on_winsock queues the users whose        *)
(*    network events occurred.                                             *)
(*  - msg_ev and apc_ev: at most one handle each waits for window          *)
(*    messages and for APCs.                                               *)
(*                                                                         *)
(* The queue is the set of queued user handles, as in PollSet; every user  *)
(* handle has a procedure, an href has none (react_direct(href, 0, ws)),   *)
(* so it is never queued.  NDEBUG is never defined, so a failed assert    *)
(* aborts the program: its name is added to core.fault and no step        *)
(* follows.                                                                *)
(***************************************************************************)
EXTENDS Integers, Sequences, FiniteSets, SequencesExt

CONSTANTS
  Users,       \* the event handles of the application
  Sockets,     \* the sockets primed with react_prime_winsock
  HRef,        \* HRef[s]: the internal event handle of the usage of s
  UserHdls,    \* the HANDLEs the application primes on
  WsaHdl,      \* WsaHdl[s]: the WSAEVENT of the usage of s
  Unused,      \* core->unused_handle (GetCurrentThread())
  Buckets,     \* the buckets of winhandle_hash
  Hash,        \* Hash[h]: hash_handle(h) % 19, as a bucket
  NetEvs,      \* the WSA network events (FD_READ, FD_WRITE, ...)
  None,        \* NULL
  Limit,       \* ARRAY_LIMIT (MAXIMUM_WAIT_OBJECTS - 1)
  WsaFails     \* malloc, WSACreateEvent, react_open and WSAEventSelect
               \* may fail in react_prime_winsock

Hrefs == {HRef[s] : s \in Sockets}
Regs  == Users \cup Hrefs
Hdls  == UserHdls \cup {WsaHdl[s] : s \in Sockets}

ASSUME /\ Users \cap Hrefs = {} /\ UserHdls \cap {WsaHdl[s] : s \in Sockets} = {}
       /\ Hash \in [Hdls -> Buckets] /\ None \notin Regs \cup Sockets
       /\ WsaFails \in BOOLEAN

SA == INSTANCE SlotArray WITH Null <- Unused

NoSlot == -1    \* (index_type) -1
Slots  == SA!Slots

Faults == {"cleanup_users_mode", "cleanup_unused_mode", "cleanup_usage_left",
           "wsausage_null"}

(* Whether a fallible Windows call succeeds.                              *)
Outcomes(fallible) == IF fallible THEN BOOLEAN ELSE {TRUE}

(* How make_wsausage ends: it succeeds, malloc fails ("nomem"), or        *)
(* WSACreateEvent or react_open fails ("fail").                           *)
MadeOutcomes == IF WsaFails THEN {"ok", "nomem", "fail"} ELSE {"ok"}

(* The event on which the socket.c wrappers prime: react_prime_sock with  *)
(* react_MIN, FD_READ | FD_ACCEPT | FD_CLOSE on Windows.                   *)
SockInEvs == {"read"}

(* The socket whose usage owns internal handle r.                          *)
SockOf(r) == CHOOSE s \in Sockets : HRef[s] = r

VARIABLE core

vars == <<core>>

(* A WSA usage record (struct wsausage) and one that does not exist.      *)
NoUsage == [exists |-> FALSE, mode |-> {}, busy |-> {}, users |-> {}, inuse |-> 0]

InitCore ==
  [buf    |-> SA!EmptyBuf,
   ev     |-> [i \in Slots |-> None],           \* ref_base[i].user.ev
   bucket |-> [b \in Buckets |-> <<>>],         \* winhandle_hash
   defuse |-> [r \in Regs |-> "none"],
   tabpos |-> [r \in Regs |-> NoSlot],          \* data.winhandle.tabpos
   hdl    |-> [r \in Regs |-> Unused],          \* data.winhandle.hdl
   usage  |-> [r \in Users |-> None],           \* data.winsock.usage
   mode   |-> [r \in Users |-> {}],             \* data.winsock.mode
   act    |-> [r \in Users |-> "queue"],        \* r->act: react_queue or a wrapper's
   ws     |-> [s \in Sockets |-> NoUsage],      \* core->wsausage
   msg_ev |-> None, apc_ev |-> None,
   queued |-> {},
   closed |-> FALSE,                            \* react_closecore has run
   fault  |-> {}]

InUse(c, i) == i < c.buf.cap /\ ~SA!IsFree(c.buf, i)

UsedSlots(c) == {i \in 0 .. c.buf.cap - 1 : InUse(c, i)}

(* react_queue: only handles with a procedure (the users) are queued.      *)
react_queue(c, r) == IF r \in Users THEN [c EXCEPT !.queued = @ \cup {r}] ELSE c

(* check_and_add_unique_handle (with ensure_cap, whose realloc is not     *)
(* modelled to fail): EEVENTINUSE if h is in its bucket, else append it.  *)
check_and_add_unique_handle(c, h) ==
  IF \E i \in DOMAIN c.bucket[Hash[h]] : c.bucket[Hash[h]][i] = h
  THEN [ok |-> FALSE, core |-> c]
  ELSE [ok |-> TRUE, core |-> [c EXCEPT !.bucket[Hash[h]] = Append(@, h)]]

(* Mutant: the bucket is not shortened.                                    *)
remove_handle_keeps_size(c, h) == c

(* remove_handle: at the first position i holding h,                     *)
(*     bkt->base[--bkt->size] = bkt->base[i];                              *)
(* the last element is overwritten by h and the bucket shortened by one.   *)
remove_handle(c, h) ==
  LET b   == c.bucket[Hash[h]]
      pos == {i \in DOMAIN b : b[i] = h}
  IN  IF pos = {} THEN c
      ELSE LET i == Min(pos)
           IN  [c EXCEPT !.bucket[Hash[h]] = SubSeq([b EXCEPT ![Len(b)] = b[i]],
                                                     1, Len(b) - 1)]

(* trim_array: drop lim by one if the last slot below it is unused.        *)
trim_array(c) ==
  IF c.buf.lim > 0 /\ c.buf.base[c.buf.lim - 1] = Unused
  THEN [c EXCEPT !.buf.lim = @ - 1] ELSE c

(* Blank slot pos, free it, trim: the tail of defuse_handle and on_handle. *)
ReleaseSlot(c, pos) ==
  trim_array([c EXCEPT !.buf = SA!react_arrfree([@ EXCEPT !.base[pos] = Unused], pos)])

(* Mutant: the slot of a handle that has not fired is not released.        *)
defuse_handle_keeps_slot(c, r) == remove_handle(c, c.hdl[r])

(* defuse_handle: unmark the HANDLE, and release the slot unless on_handle *)
(* already did (tabpos -1).  tabpos itself is left as it is.               *)
defuse_handle(c, r) ==
  LET c1 == remove_handle(c, c.hdl[r])
  IN  IF c.tabpos[r] # NoSlot THEN ReleaseSlot(c1, c.tabpos[r]) ELSE c1

(* Mutant: the fired handle keeps its slot number.                        *)
on_handle_keeps_tabpos(c, r) == react_queue(ReleaseSlot(c, c.tabpos[r]), r)

(* on_handle: release the slot, mark the handle fired (tabpos -1), queue. *)
on_handle(c, r) ==
  react_queue([ReleaseSlot(c, c.tabpos[r]) EXCEPT !.tabpos[r] = NoSlot], r)

(* react_prime_winhandle after its react_cancel: make room for one slot   *)
(* (init_array blanks new slots), mark h in use, allocate a slot, store h *)
(* and the handle there, register defuse_handle/on_handle.                 *)
prime_winhandle(c, r, h) ==
  LET e == SA!react_arrensure(c.buf, 1)
      u == check_and_add_unique_handle([c EXCEPT !.buf = e.buf], h)
      a == SA!react_arralloc(u.core.buf)
  IN  IF ~e.ok THEN [rc |-> "ECOREBUSY", core |-> c]
      ELSE IF ~u.ok THEN [rc |-> "EEVENTINUSE", core |-> u.core]
      ELSE [rc |-> "ok",
            core |-> [u.core EXCEPT !.buf = [a.buf EXCEPT !.base[a.idx] = h],
                                    !.ev[a.idx] = r,
                                    !.tabpos[r] = a.idx, !.hdl[r] = h,
                                    !.defuse[r] = "handle"]]

(* Mutant: the record is freed without closing its internal handle.      *)
cleanup_wsausage_keeps_href(c, s) ==
  LET w == c.ws[s]
  IN  IF w.inuse > 0 \/ w.users # {}
      THEN IF w.mode = {} THEN [c EXCEPT !.fault = @ \cup {"cleanup_users_mode"}] ELSE c
      ELSE [c EXCEPT !.ws[s] = NoUsage]

(* cleanup_wsausage: while in use or with users, re-select the remaining  *)
(* events (asserting some remain); otherwise (asserting none remain)      *)
(* react_close the internal handle, whose defuse_handle unmarks the       *)
(* WSAEVENT and releases its slot, and free the record.                   *)
cleanup_wsausage(c, s) ==
  LET w == c.ws[s]
      h == HRef[s]
  IN
  IF w.inuse > 0 \/ w.users # {}
  THEN IF w.mode = {} THEN [c EXCEPT !.fault = @ \cup {"cleanup_users_mode"}] ELSE c
  ELSE LET c1 == IF w.mode = {} THEN c
                 ELSE [c EXCEPT !.fault = @ \cup {"cleanup_unused_mode"}]
           c2 == IF c1.defuse[h] = "handle" THEN defuse_handle(c1, h) ELSE c1
       IN  [c2 EXCEPT !.defuse[h] = "none", !.ws[s] = NoUsage]

(* Mutant: the busy events of the leaving user are kept.                   *)
defuse_socket_keeps_busy(c, r) ==
  LET s == c.usage[r]
  IN  cleanup_wsausage([c EXCEPT !.ws[s].users = @ \ {r},
                                 !.ws[s].mode = @ \ c.mode[r]], s)

(* defuse_socket: leave the usage's users, drop the handle's events from  *)
(* mode and busyMode, and offer the usage a chance to go.                  *)
defuse_socket(c, r) ==
  LET s == c.usage[r]
  IN  cleanup_wsausage([c EXCEPT !.ws[s].users = @ \ {r},
                                 !.ws[s].mode = @ \ c.mode[r],
                                 !.ws[s].busy = @ \ c.mode[r]], s)

(* react_defuse: clear r->defuse, then call the function it held.          *)
react_defuse(c0, r) ==
  LET c == [c0 EXCEPT !.defuse[r] = "none"]
  IN  CASE c0.defuse[r] = "handle" -> defuse_handle(c, r)
        [] c0.defuse[r] = "socket" -> defuse_socket(c, r)
        [] c0.defuse[r] = "msg"    -> [c EXCEPT !.msg_ev = None]
        [] c0.defuse[r] = "apc"    -> [c EXCEPT !.apc_ev = None]
        [] OTHER -> c

(* react_cancel: defuse, then dequeue.                                    *)
react_cancel(c, r) == [react_defuse(c, r) EXCEPT !.queued = @ \ {r}]

(* prime_wsausage, sel whether WSAEventSelect succeeds: EINVAL if not;    *)
(* nothing more if the internal handle is primed with a slot; otherwise    *)
(* react_prime_winhandle on the WSAEVENT, whose act is then swapped for    *)
(* on_winsock.                                                            *)
prime_wsausage(c, s, sel) ==
  LET h == HRef[s]
  IN  IF ~sel THEN [rc |-> "EINVAL", core |-> c]
      ELSE IF c.defuse[h] # "none" /\ c.tabpos[h] # NoSlot THEN [rc |-> "ok", core |-> c]
      ELSE prime_winhandle(react_cancel(c, h), h, WsaHdl[s])

(* make_wsausage when it succeeds: a record with no users and a new       *)
(* internal handle (react_open).                                          *)
make_wsausage(c, s) ==
  [c EXCEPT !.ws[s] = [NoUsage EXCEPT !.exists = TRUE],
            !.defuse[HRef[s]] = "none", !.tabpos[HRef[s]] = NoSlot]

(* make_wsausage when it fails.  If WSACreateEvent or react_open fails,   *)
(* the failure path closes what was made and frees the record: nothing    *)
(* changes.  If malloc fails, it jumps there with ws NULL and assert(ws)   *)
(* aborts.                                                                 *)
NotMade(c, made) ==
  [rc |-> "ENOMEM",
   core |-> IF made = "nomem" THEN [c EXCEPT !.fault = @ \cup {"wsausage_null"}] ELSE c]

(* Mutant: the usage's inuse count is not restored after the cancel.    *)
react_prime_winsock_keeps_inuse(c0, r, s, m, made, sel) ==
  LET reuse == c0.defuse[r] = "socket" /\ c0.usage[r] = s
      c1 == IF reuse THEN [c0 EXCEPT !.ws[s].inuse = @ + 1] ELSE c0
      c2 == react_cancel(c1, r)
      c3 == c2
      c4 == IF c3.ws[s].exists THEN c3 ELSE make_wsausage(c3, s)
      c5 == [c4 EXCEPT !.ws[s].mode = @ \cup m, !.ws[s].busy = @ \cup m,
                       !.ws[s].users = @ \cup {r},
                       !.usage[r] = s, !.mode[r] = m, !.defuse[r] = "socket",
                       !.act[r] = "queue"]
      p  == prime_wsausage(c5, s, sel)
  IN  IF m = {} THEN [rc |-> "EINVAL", core |-> c3]
      ELSE IF ~c3.ws[s].exists /\ made # "ok" THEN NotMade(c3, made)
      ELSE IF c4.ws[s].busy \cap m # {} THEN [rc |-> "EEVENTINUSE", core |-> c4]
      ELSE IF p.rc = "ok" THEN p
      ELSE [rc |-> p.rc, core |-> react_cancel(p.core, r)]

(* react_prime_winsock: cancel (holding the usage with inuse if r is      *)
(* re-primed on the same socket), EINVAL for no events, find or make the  *)
(* usage (made: whether make_wsausage succeeds), EEVENTINUSE if an event  *)
(* is busy, join the users, prime the usage (sel: whether WSAEventSelect  *)
(* succeeds), and cancel again if that fails.                              *)
react_prime_winsock(c0, r, s, m, made, sel) ==
  LET reuse == c0.defuse[r] = "socket" /\ c0.usage[r] = s
      c1 == IF reuse THEN [c0 EXCEPT !.ws[s].inuse = @ + 1] ELSE c0
      c2 == react_cancel(c1, r)
      c3 == IF reuse THEN [c2 EXCEPT !.ws[s].inuse = @ - 1] ELSE c2
      c4 == IF c3.ws[s].exists THEN c3 ELSE make_wsausage(c3, s)
      c5 == [c4 EXCEPT !.ws[s].mode = @ \cup m, !.ws[s].busy = @ \cup m,
                       !.ws[s].users = @ \cup {r},
                       !.usage[r] = s, !.mode[r] = m, !.defuse[r] = "socket",
                       !.act[r] = "queue"]
      p  == prime_wsausage(c5, s, sel)
  IN  IF m = {} THEN [rc |-> "EINVAL", core |-> c3]
      ELSE IF ~c3.ws[s].exists /\ made # "ok" THEN NotMade(c3, made)
      ELSE IF c4.ws[s].busy \cap m # {} THEN [rc |-> "EEVENTINUSE", core |-> c4]
      ELSE IF p.rc = "ok" THEN p
      ELSE [rc |-> p.rc, core |-> react_cancel(p.core, r)]

(* react_trigger: queue, then defuse.                                      *)
react_trigger(c, r) == react_defuse(react_queue(c, r), r)

(* The act of user r: react_queue, or the act a socket.c wrapper swapped  *)
(* in (on_recv, on_send, ...): the saved react_queue, the call, then      *)
(* react_trigger.                                                         *)
UserAct(c, r) == IF c.act[r] = "io" THEN react_trigger(c, r) ELSE react_queue(c, r)

(* on_winsock, with E the network events WSAEnumNetworkEvents reports:    *)
(* with inuse set, call the act of every user whose events intersect E    *)
(* (a wrapper's trigger runs defuse_socket inside the loop); clear inuse, *)
(* drop E from mode, and re-prime the usage if events remain (asserting   *)
(* that succeeds).  dllist_next reads the next user from the one just     *)
(* unlinked, so every matched user is visited; whether an act empties     *)
(* mode does not depend on the order.                                     *)
on_winsock(c, s, E) ==
  LET U  == {r \in c.ws[s].users : c.mode[r] \cap E # {}}
      c1 == FoldSet(LAMBDA r, x : UserAct(x, r), [c EXCEPT !.ws[s].inuse = 1], U)
      c2 == [c1 EXCEPT !.ws[s].mode = @ \ E, !.ws[s].inuse = 0]
  IN  IF c2.ws[s].mode # {} THEN prime_wsausage(c2, s, TRUE).core ELSE c2

(* react_prime_winmsg and react_prime_winapc: cancel, EEVENTINUSE if the  *)
(* core already has one, else become it (act react_queue).                *)
prime_winmsg(c0, r) ==
  LET c == react_cancel(c0, r)
  IN  IF c.msg_ev # None THEN c ELSE [c EXCEPT !.msg_ev = r, !.defuse[r] = "msg"]

prime_winapc(c0, r) ==
  LET c == react_cancel(c0, r)
  IN  IF c.apc_ev # None THEN c ELSE [c EXCEPT !.apc_ev = r, !.defuse[r] = "apc"]

(* The act of the handle in slot i, read when the scan reaches it.         *)
Fire(E, c, i) ==
  IF c.ev[i] \in Hrefs THEN on_winsock(c, SockOf(c.ev[i]), E[SockOf(c.ev[i])])
  ELSE on_handle(c, c.ev[i])

(* The end of wait_on_windows: the message and APC handles' act            *)
(* (react_queue) if detected, then the act of every slot found signalled,  *)
(* in index order.                                                         *)
wait_on_windows(c, F, md, ad, E) ==
  LET c1 == IF md THEN react_queue(c, c.msg_ev) ELSE c
      c2 == IF ad THEN react_queue(c1, c1.apc_ev) ELSE c1
  IN  FoldLeft(LAMBDA x, i : Fire(E, x, i), c2, SetToSortSeq(F, <))

(* The members of the core: the users and the internal handle of every    *)
(* WSA usage (make_wsausage opens it, cleanup_wsausage closes it).         *)
Members(c) == Users \cup {HRef[s] : s \in {x \in Sockets : c.ws[x].exists}}

(* react_cleanupwsausages: every usage left (asserting it has no users    *)
(* and is not in use) is cleaned up.                                      *)
react_cleanupwsausages(c) ==
  LET Left == {s \in Sockets : c.ws[s].exists}
      c1 == IF \E s \in Left : c.ws[s].inuse # 0 \/ c.ws[s].users # {}
            THEN [c EXCEPT !.fault = @ \cup {"cleanup_usage_left"}] ELSE c
  IN  FoldSet(LAMBDA s, x : cleanup_wsausage(x, s), c1, Left)

(* react_closecore on Windows: react_cancel every member in the order of  *)
(* the members list, skipping an internal handle that a user's cancel has *)
(* already closed (dllist_next reads the list as it is then); then        *)
(* react_cleanupwsausages.  Freeing the buffers leaves nothing to wait on. *)
react_closecore(c, order) ==
  LET visit(x, r) == IF r \in Hrefs /\ ~x.ws[SockOf(r)].exists THEN x
                     ELSE react_cancel(x, r)
  IN  [react_cleanupwsausages(FoldLeft(visit, c, order)) EXCEPT !.closed = TRUE]

(***************************************************************************)
(* The specification.                                                      *)
(***************************************************************************)

Init == core = InitCore

(* The program runs until an assert fails; abort() ends it.              *)
Running == core.fault = {}

(* The core after a step whose result is c: c, or, if an assert of the   *)
(* step failed, the core before it with the failed asserts.               *)
Step(c) == core' = IF c.fault = {} THEN c ELSE [core EXCEPT !.fault = c.fault]

(* The application primes user handle r on HANDLE h, on events m of       *)
(* socket s, on window messages or on APCs, or cancels it; the result     *)
(* code is not kept (every failure leaves r cancelled).                    *)
PrimeHandle(r, h) == Step(prime_winhandle(react_cancel(core, r), r, h).core)

PrimeSocket(r, s, m) ==
  \E made \in MadeOutcomes, sel \in Outcomes(WsaFails) :
    Step(react_prime_winsock(core, r, s, m, made, sel).core)

(* A socket.c wrapper (react_prime_recv, react_prime_send, ...):          *)
(* react_prime_sock(r, s, react_MIN), then, if that succeeded, swap in    *)
(* the wrapper's act.                                                      *)
PrimeSockIO(r, s) ==
  \E made \in MadeOutcomes, sel \in Outcomes(WsaFails) :
    LET p == react_prime_winsock(core, r, s, SockInEvs, made, sel)
    IN  Step(IF p.rc = "ok" THEN [p.core EXCEPT !.act[r] = "io"] ELSE p.core)

PrimeMsg(r) == Step(prime_winmsg(core, r))

PrimeApc(r) == Step(prime_winapc(core, r))

Cancel(r) == Step(react_cancel(core, r))

(* react_closecore, with the members in the order they were opened.       *)
CloseCore ==
  \E order \in SetToSeqs(Members(core)) : Step(react_closecore(core, order))

(* After react_closecore nothing more happens to the core.                 *)
Closed == core.closed /\ UNCHANGED core

(* After an abort nothing more happens either.                            *)
Aborted == ~Running /\ UNCHANGED core

(* The slots the wait passes: below lim; those not in use hold            *)
(* unused_handle, which is never signalled.                               *)
Watched(c) == {i \in 0 .. c.buf.lim - 1 : InUse(c, i)}

(* A slot whose HANDLE may be signalled: a user's HANDLE, or a WSAEVENT   *)
(* whose usage still waits for events (on_winsock asserts that only       *)
(* selected events are reported).                                         *)
Signallable(c) ==
  {i \in Watched(c) : c.ev[i] \in Users \/ c.ws[SockOf(c.ev[i])].mode # {}}

(* The wait fails (WAIT_FAILED, react_yield returns an error and nothing  *)
(* fires) if the array holds a HANDLE twice.                               *)
Duplicated(c) == \E i, j \in UsedSlots(c) : i # j /\ c.buf.base[i] = c.buf.base[j]

(* react_yield's wait_on_windows returns with the slots F signalled, and  *)
(* a message (md) or APC (ad) if watched; E[s] is what                     *)
(* WSAEnumNetworkEvents reports for socket s.                             *)
Wait ==
  /\ ~Duplicated(core)
  /\ \E F \in SUBSET Signallable(core),
        md \in IF core.msg_ev # None /\ core.msg_ev \notin core.queued
               THEN BOOLEAN ELSE {FALSE},
        ad \in IF core.apc_ev # None /\ core.apc_ev \notin core.queued
               THEN BOOLEAN ELSE {FALSE} :
       /\ F # {} \/ md \/ ad
       /\ \E E \in [Sockets -> SUBSET NetEvs] :
            /\ \A s \in Sockets :
                 IF \E i \in F : core.ev[i] = HRef[s]
                 THEN E[s] # {} /\ E[s] \subseteq core.ws[s].mode
                 ELSE E[s] = {}
            /\ Step(wait_on_windows(core, F, md, ad, E))

(* The drain loop of react_yield takes queued handle r: dequeue, then     *)
(* react_defuse, then the user's procedure.                               *)
Dispatch(r) ==
  /\ r \in core.queued
  /\ Step(react_defuse([core EXCEPT !.queued = @ \ {r}], r))

Next ==
  \/ /\ ~core.closed /\ Running
     /\ \/ \E r \in Users, h \in UserHdls : PrimeHandle(r, h)
        \/ \E r \in Users, s \in Sockets, m \in SUBSET NetEvs : PrimeSocket(r, s, m)
        \/ \E r \in Users, s \in Sockets : PrimeSockIO(r, s)
        \/ \E r \in Users : Dispatch(r) \/ PrimeMsg(r) \/ PrimeApc(r) \/ Cancel(r)
        \/ Wait
        \/ CloseCore
  \/ Closed
  \/ Aborted

Spec == Init /\ [][Next]_vars

(* What the code never reads again: ev of a free slot, tabpos and hdl of  *)
(* a handle not primed on a HANDLE, usage and mode of one not primed on a *)
(* socket, and act of one not primed on a socket (every prime sets it).   *)
View ==
  [core EXCEPT
     !.ev = [i \in Slots |-> IF InUse(core, i) THEN @[i] ELSE None],
     !.tabpos = [r \in Regs |-> IF core.defuse[r] = "handle" THEN @[r] ELSE NoSlot],
     !.hdl = [r \in Regs |-> IF core.defuse[r] = "handle" THEN @[r] ELSE Unused],
     !.usage = [r \in Users |-> IF core.defuse[r] = "socket" THEN @[r] ELSE None],
     !.mode = [r \in Users |-> IF core.defuse[r] = "socket" THEN @[r] ELSE {}],
     !.act = [r \in Users |-> IF core.defuse[r] = "socket" THEN @[r] ELSE "queue"]]

(***************************************************************************)
(* Properties.                                                             *)
(***************************************************************************)

(* The type of the core.                                                  *)
TypeOK ==
  /\ core.buf.cap \in 0 .. Limit /\ core.buf.size \in 0 .. core.buf.cap
  /\ core.buf.lim \in 0 .. Limit /\ core.buf.base \in [Slots -> Hdls \cup {Unused}]
  /\ core.ev \in [Slots -> Regs \cup {None}]
  /\ core.bucket \in [Buckets -> Seq(Hdls)]
  /\ core.defuse \in [Regs -> {"none", "handle", "socket", "msg", "apc"}]
  /\ core.tabpos \in [Regs -> Slots \cup {NoSlot}]
  /\ core.hdl \in [Regs -> Hdls \cup {Unused}]
  /\ core.usage \in [Users -> Sockets \cup {None}]
  /\ core.mode \in [Users -> SUBSET NetEvs]
  /\ core.act \in [Users -> {"queue", "io"}]
  /\ \A s \in Sockets : core.ws[s].inuse = 0
  /\ core.msg_ev \in Users \cup {None} /\ core.apc_ev \in Users \cup {None}
  /\ core.queued \subseteq Users /\ core.fault \subseteq Faults
  /\ core.closed \in BOOLEAN

(* The HANDLEs primed with react_prime_winhandle (by users and by the     *)
(* internal handles of WSA usages).                                       *)
Primed(c) == {r \in Regs : c.defuse[r] = "handle"}

(* winhandle_hash holds each HANDLE in use exactly once, in its bucket:   *)
(* check_and_add_unique_handle adds it, defuse_handle's remove_handle     *)
(* takes it out, and nothing else does.                                   *)
BucketsExact ==
  \A b \in Buckets :
    /\ IsInjective(core.bucket[b])
    /\ ToSet(core.bucket[b]) = {core.hdl[r] : r \in {x \in Primed(core) : Hash[core.hdl[x]] = b}}

(* No HANDLE is in two slots, so the wait never fails for a duplicate.    *)
NoDuplicateWait == ~Duplicated(core)

(* The slots in use are exactly those of handles primed on a HANDLE that  *)
(* have not fired; each lies below lim and holds its handle's HANDLE; a   *)
(* user handle that has fired (on_handle) is queued until dispatched.     *)
HandleRegistration ==
  /\ \A i \in UsedSlots(core) :
       /\ core.ev[i] \in Primed(core) /\ core.tabpos[core.ev[i]] = i
       /\ core.buf.base[i] = core.hdl[core.ev[i]] /\ i < core.buf.lim
  /\ \A r \in Primed(core) :
       IF core.tabpos[r] = NoSlot THEN r \in core.queued
       ELSE InUse(core, core.tabpos[r]) /\ core.ev[core.tabpos[r]] = r

(* A WSA usage is the record of exactly the handles primed on its socket: *)
(* busyMode is the union of their events, which are disjoint (EEVENTINUSE),*)
(* mode holds the events not yet reported, and a user with a reported      *)
(* event is queued; while the usage exists its internal handle is primed  *)
(* on the WSAEVENT, so a reported event reaches on_winsock.               *)
UsageIntegrity ==
  \A s \in Sockets :
    LET w == core.ws[s]
        U == {r \in Users : core.defuse[r] = "socket" /\ core.usage[r] = s}
    IN  /\ w.users = U
        /\ w.busy = UNION {core.mode[r] : r \in U}
        /\ \A r1, r2 \in U : r1 # r2 => core.mode[r1] \cap core.mode[r2] = {}
        /\ w.mode \subseteq w.busy
        /\ \A r \in U : core.mode[r] \ w.mode # {} => r \in core.queued
        /\ w.exists <=> HRef[s] \in Primed(core)
        /\ w.exists => core.hdl[HRef[s]] = WsaHdl[s] /\ core.tabpos[HRef[s]] # NoSlot

(* react_closecore cancels every member, users and the internal handles  *)
(* of WSA usages alike, in the order they were opened: the cancel of the   *)
(* last user of a usage closes its internal handle in the middle of the   *)
(* loop, and an internal handle cancelled before its users leaves its     *)
(* usage to them.  Afterwards nothing is left to wait on: no slot in use, *)
(* no HANDLE in winhandle_hash, no usage, no message or APC handle,       *)
(* nothing primed or queued, and react_cleanupwsausages found no usage    *)
(* still held.                                                            *)
ClosedReleasesAll ==
  /\ "cleanup_usage_left" \notin core.fault
  /\ core.closed =>
       /\ UsedSlots(core) = {}
       /\ \A b \in Buckets : core.bucket[b] = <<>>
       /\ \A s \in Sockets : ~core.ws[s].exists
       /\ core.msg_ev = None /\ core.apc_ev = None
       /\ \A r \in Regs : core.defuse[r] = "none"
       /\ core.queued = {}

(* No assert of the backend fails, so the program never aborts: among     *)
(* them cleanup_wsausage's assert(ws->mode != 0) while the usage has       *)
(* users or is in use, which a wrapper's trigger inside on_winsock's loop  *)
(* reaches, and make_wsausage's assert(ws) after malloc fails.            *)
AssertionsHold == core.fault = {}

====
