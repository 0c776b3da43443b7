------------------------------ MODULE Proactor ------------------------------
(***************************************************************************)
(* The proactor wrappers of the poll backend (src/src/obj/fd.c,           *)
(* socket.c) over the poll set of module PollSet, and the scan of         *)
(* wait_on_poll (yield.c) that calls each ready slot's act in index order. *)
(*                                                                         *)
(* A wrapper primes the handle on one descriptor through react_prime_poll *)
(* and swaps its own act in front of on_poll/on_polls; when the slot is   *)
(* reported ready, the act performs the call and triggers the handle.     *)
(* The splice wrappers run a two-step chain (write side, then read side)  *)
(* or watch both sides through react_prime_polls and re-prime one side    *)
(* from inside the scan.  The scan itself is modelled entry by entry:     *)
(* poll()'s return value counts the reported slots, lim is re-read on     *)
(* every pass, and an act may free and reallocate slots before the loop   *)
(* reaches them.                                                           *)
(*                                                                         *)
(* Each call of poll() may find any readiness on each descriptor, fatal   *)
(* events included.  What the I/O call transfers is not modelled: its     *)
(* result goes to the caller's output locations, which nothing here       *)
(* reads.  pending, the requests primed and not yet delivered to the      *)
(* caller, is a history variable for the properties.                      *)
(***************************************************************************)
EXTENDS Integers, Sequences, FiniteSets, SequencesExt

CONSTANTS
  Handles,     \* the event handles of the core
  NoHandle,    \* ref.ev of a slot that never had an owner
  NFds,        \* file descriptors 0 .. NFds-1
  Limit,       \* ARRAY_LIMIT
  Ops,         \* the priming calls the application makes
  FatalEvs     \* the fatal events poll() may report: a subset of {"hup", "err"}

(* The wrappers that perform one call on one descriptor.                  *)
IOWrappers == {"read", "readv", "write", "writev", "recv", "recvfrom",
               "recvmsg", "send", "sendto", "sendmsg", "accept", "accept4"}

(* The priming calls that are requests: the caller waits for the trigger. *)
Requests == IOWrappers \cup {"splice_writefirst", "splice_dual", "fds"}

ASSUME Ops \subseteq Requests \cup {"fd"}
ASSUME FatalEvs \subseteq {"hup", "err"}

(* What the act chain of a handle does on an event: on_polls alone        *)
(* (react_prime_polls), on_poll (react_prime_fd), a single call and      *)
(* trigger (on_read, on_recv, ..., on_spliceread), the first step of the  *)
(* write-first splice, the two-sided splice, on_fds (react_prime_fds).    *)
Acts == {"polls", "fd", "io", "splicewrite", "spliceread", "dual", "fds"}

VARIABLES core, pending

vars == <<core, pending>>

PS == INSTANCE PollSet WITH Evs <- {"in", "out"}, Masks <- {{"in"}, {"out"}},
                            MaxEntries <- 2, FatalEvents <- FatalEvs # {},
                            RepeatedFds <- FALSE, AllocFails <- FALSE

Fds == PS!Fds
Slots == PS!Slots
RevEvs == {"in", "out"} \cup FatalEvs

(* The caller's fd_sets of react_prime_fds (exc is not modelled).         *)
FdsModes == {"in", "out"}

(* PollSet's core with the proactor's part of struct react_reg (act,      *)
(* proact.sub: the descriptors, splice.polls[0..1].revents or the         *)
(* revents of react_prime_fds's array as urev[r][1] and urev[r][2];      *)
(* proact.fds: the descriptors of that array in order, the modes whose   *)
(* set was NULL, the caller's result sets) and the revents of the system buffer (rev).           *)
InitCore ==
  PS!InitCore @@
    [act  |-> [r \in Handles |-> "polls"],
     fin  |-> [r \in Handles |-> 0],
     fout |-> [r \in Handles |-> 0],
     urev |-> [r \in Handles |-> <<{}, {}>>],
     fdsent  |-> [r \in Handles |-> <<>>],
     fdsnull |-> [r \in Handles |-> {}],
     fdsres  |-> [r \in Handles |-> [m \in FdsModes |-> {}]],
     rev  |-> [i \in Slots |-> {}]]

(* The result p of a priming call, with act a installed if it succeeded   *)
(* (react_swapact after a zero return code).                              *)
SwapActIfOk(p, r, a) == IF p.rc = "ok" THEN [p EXCEPT !.core.act[r] = a] ELSE p

(* react_prime_polls on the user's array es; the act becomes on_polls.    *)
react_prime_polls(c, r, es) == SwapActIfOk(PS!react_prime_polls(c, r, es), r, "polls")

(* react_prime_poll via react_prime_fd(MIN or MOUT): cancel, prime the    *)
(* singleton (OUT_EVENTS' error bits are never recorded), swap on_poll in. *)
react_prime_poll(c, r, f, m) ==
  SwapActIfOk(react_prime_polls(PS!react_cancel(c, r), r, <<[fd |-> f, evs |-> {m}]>>),
              r, "fd")

(* The shape of every single-call wrapper: react_prime_fdin/fdout or      *)
(* react_prime_sock on fd in mode m, return on failure, swap the on_<op>  *)
(* act in, store the call's arguments.                                     *)
prime_io(c, r, f, m) == SwapActIfOk(react_prime_poll(c, r, f, m), r, "io")

(* The mode each wrapper of fd.c primes in: react_prime_readv and         *)
(* react_prime_read call react_prime_fdin, react_prime_writev              *)
(* react_prime_fdout, and react_prime_write react_prime_fdin too          *)
(* (fd.c:149).                                                             *)
FdArm == [readv |-> "in", writev |-> "out", read |-> "in", write |-> "in"]

(* socket.c: every wrapper calls react_prime_sock(MIN), the sending ones  *)
(* (send, sendto, sendmsg) included.                                      *)
RecvArm == [recv |-> "in", recvfrom |-> "in"]
SendArm == [send |-> "in", sendto |-> "in", sendmsg |-> "in"]
RecvmsgAcceptArm == [recvmsg |-> "in", accept |-> "in", accept4 |-> "in"]

ArmOf == FdArm @@ RecvArm @@ SendArm @@ RecvmsgAcceptArm

(* The priming calls that are react_prime_fd in one mode on a POSIX      *)
(* build (react_IMPL_FILE_FD, react_IMPL_STDFILE_FD, react_IMPL_SOCK_FD, *)
(* react_IMPL_PIPE_FD): file.c's file, stdfile and stdin primers (stdin   *)
(* is stdfilein on stdin), pipe.c's pipein and pipeout, socket.c's sockin *)
(* and sockout, fd.c's fdin and fdout.  The exc variants (react_MEXC =   *)
(* react_MINPRI) are not modelled.                                        *)
FileArm == [filein |-> "in", fileout |-> "out", stdfilein |-> "in",
            stdfileout |-> "out", stdin |-> "in"]
PipeArm == [pipein |-> "in", pipeout |-> "out"]
SockArm == [sockin |-> "in", sockout |-> "out"]
FdPrimers == FileArm @@ PipeArm @@ SockArm @@ [fdin |-> "in", fdout |-> "out"]

(* react_prime_<w> on descriptor f.                                        *)
Wrapper(w, c, r, f) == prime_io(c, r, f, ArmOf[w])

(* react_prime_splice_writefirst: wait for output on fd_out first.        *)
WriteFirstPrimed(p, r, fi, fo) ==
  IF p.rc # "ok" THEN p
  ELSE [p EXCEPT !.core.act[r] = "splicewrite", !.core.fin[r] = fi,
                 !.core.fout[r] = fo]

react_prime_splice_writefirst(c, r, fi, fo) ==
  WriteFirstPrimed(react_prime_poll(c, r, fo, "out"), r, fi, fo)

(* The two entries of splice.polls: input on fd_in, output on fd_out.     *)
SplicePolls(c, r) ==
  <<[fd |-> c.fin[r], evs |-> {"in"}], [fd |-> c.fout[r], evs |-> {"out"}]>>

(* react_prime_splice_dual: both entries through react_prime_polls, which *)
(* zeroes their revents; swap on_splicedualready in.                      *)
react_prime_splice_dual(c, r, fi, fo) ==
  SwapActIfOk(PS!react_prime_polls([c EXCEPT !.fin[r] = fi, !.fout[r] = fo,
                                             !.urev[r] = <<{}, {}>>],
                                    r, <<[fd |-> fi, evs |-> {"in"}],
                                         [fd |-> fo, evs |-> {"out"}]>>),
              r, "dual")

(* react_prime_fds with nfds covering every descriptor: one entry per     *)
(* descriptor in any set, in ascending order, with IN_EVENTS and/or       *)
(* OUT_EVENTS (the error bits of OUT_EVENTS are never recorded).          *)
FdsEntries(p) ==
  LET s == SetToSortSeq({f \in Fds : \E m \in FdsModes : f \in p.sets[m]}, <)
  IN  [k \in DOMAIN s |-> [fd |-> s[k], evs |-> {m \in FdsModes : s[k] \in p.sets[m]}]]

(* react_prime_polls on the entries; on success swap on_fds in, record    *)
(* the caller's sets as the result sets and FD_ZERO them.                 *)
FdsPrimed(q, r, es, p) ==
  IF q.rc # "ok" THEN q
  ELSE [q EXCEPT !.core.act[r] = "fds",
                 !.core.fdsent[r] = [k \in DOMAIN es |-> es[k].fd],
                 !.core.fdsnull[r] = p.nul,
                 !.core.fdsres[r] = [m \in FdsModes |-> {}],
                 !.core.urev[r] = <<{}, {}>>]

react_prime_fds(c, r, p) ==
  FdsPrimed(PS!react_prime_polls(c, r, FdsEntries(p)), r, FdsEntries(p), p)

SpliceWrapper(w, c, r, fi, fo) ==
  IF w = "splice_writefirst" THEN react_prime_splice_writefirst(c, r, fi, fo)
  ELSE react_prime_splice_dual(c, r, fi, fo)

(***************************************************************************)
(* The acts, called by the scan for slot i (core->sysbuf.idx).            *)
(***************************************************************************)

(* Which entry of splice.polls slot i stands for: ref->offset counts from *)
(* the array react_prime_polls was given, which is polls[1] alone when    *)
(* on_splicedualready re-primes the output side.                          *)
Offset(c, i) ==
  LET r == c.ref[i].ev
  IN  IF c.act[r] = "fds"
      THEN CHOOSE k \in DOMAIN c.fdsent[r] : c.fdsent[r][k] = c.ref[i].fd
      ELSE IF c.act[r] = "dual" /\ c.ref[i].evs = {"out"} THEN 2 ELSE 1

(* on_polls: nothing if the slot is disabled; OR the events into the      *)
(* user's entry (kept for splice.polls and react_prime_fds's array, the   *)
(* arrays an act reads),                                                   *)
(* disable the slot on a fatal event (it stays allocated), queue.         *)
on_polls(c, i) ==
  LET r   == c.ref[i].ev
      evs == c.rev[i]
  IN  IF c.buf.base[i] < 0 THEN c
      ELSE [c EXCEPT
              !.urev[r] = IF c.act[r] \in {"dual", "fds"}
                          THEN [@ EXCEPT ![Offset(c, i)] = @ \cup evs] ELSE @,
              !.buf.base[i] = IF evs \cap FatalEvs # {} THEN -1 ELSE @,
              !.queued = @ \cup {r}]

(* Mutant: the act cancels the handle instead of queuing it.             *)
react_trigger_cancels(c, r) == PS!react_cancel(c, r)

(* react_trigger: react_queue, then react_defuse.                         *)
react_trigger(c, r) == PS!react_defuse([c EXCEPT !.queued = @ \cup {r}], r)

(* on_read, on_readv, on_write, on_writev, on_recv, ..., on_accept,       *)
(* on_spliceread: the saved act (on_poll, then on_polls), the call, its   *)
(* result into the caller's locations, react_trigger.                     *)
on_io(c, i) == react_trigger(on_polls(c, i), c.ref[i].ev)

(* on_splicewrite: the saved act, then react_prime_fdin on fd_in; on      *)
(* failure set *en and *rc = -2 and return, otherwise swap on_spliceread  *)
(* in.                                                                     *)
on_splicewrite(c, i) ==
  SwapActIfOk(react_prime_poll(on_polls(c, i), c.ref[i].ev,
                               c.fin[c.ref[i].ev], "in"),
              c.ref[i].ev, "spliceread").core

(* The re-prime of on_splicedualready on entry k of splice.polls alone:   *)
(* trigger with rc -2 or -3 on failure; on success the entry's revents    *)
(* are zeroed and on_splicedualready is swapped in again.                 *)
DualReprimed(p, r, k) ==
  IF p.rc # "ok" THEN react_trigger(p.core, r)
  ELSE [p.core EXCEPT !.urev[r][k] = {}]

DualReprime(c, r, k) ==
  DualReprimed(PS!react_prime_polls(c, r, <<SplicePolls(c, r)[k]>>), r, k)

(* on_splicedualready: the saved act, then: POLLHUP or POLLERR on the     *)
(* input, or POLLERR on the output, ends the request; input and output    *)
(* both recorded: splice and trigger; input alone: watch the output;      *)
(* otherwise assert(write_okay) and watch the input.                      *)
DualReady(c, r) ==
  LET u == c.urev[r]
  IN  IF \/ u[1] \cap {"hup", "err"} # {} \/ "err" \in u[2]
         \/ "in" \in u[1] /\ "out" \in u[2]
      THEN react_trigger(c, r)
      ELSE DualReprime([c EXCEPT !.fault = @ \cup
                          (IF "in" \in u[1] \/ "out" \in u[2] THEN {}
                           ELSE {"dual_write_okay"})],
                       r, IF "in" \in u[1] THEN 2 ELSE 1)

on_splicedualready(c, i) == DualReady(on_polls(c, i), c.ref[i].ev)

(* The events of a result set: IN_EVENTS and OUT_EVENTS.                  *)
ModeEvents == [in |-> {"in"}, out |-> {"out", "hup", "err"}]

(* Mutant: on_fds tests the in set against OUT_EVENTS and the out set     *)
(* against IN_EVENTS.                                                       *)
on_fds_swapped(c, i) ==
  LET c1 == on_polls(c, i)
      r  == c.ref[i].ev
      u  == c1.urev[r][Offset(c, i)]
  IN  IF c1.buf.base[i] < 0 THEN c1
      ELSE [c1 EXCEPT !.fdsres[r] =
              [m \in FdsModes |->
                 IF m \notin c1.fdsnull[r] /\
                    u \cap ModeEvents[IF m = "in" THEN "out" ELSE "in"] # {}
                 THEN @[m] \cup {c1.buf.base[i]} ELSE @[m]]]

(* on_fds: the saved act (on_polls) first; then, if the slot's fd is not  *)
(* negative, set fd in each non-NULL result set whose events are among    *)
(* the revents recorded in the user's entry.                              *)
on_fds(c, i) ==
  LET c1 == on_polls(c, i)
      r  == c.ref[i].ev
      u  == c1.urev[r][Offset(c, i)]
  IN  IF c1.buf.base[i] < 0 THEN c1
      ELSE [c1 EXCEPT !.fdsres[r] =
              [m \in FdsModes |->
                 IF m \notin c1.fdsnull[r] /\ u \cap ModeEvents[m] # {}
                 THEN @[m] \cup {c1.buf.base[i]} ELSE @[m]]]

(* The call through p->act for the owner of slot i.                       *)
Act(c, i) ==
  LET a == c.act[c.ref[i].ev]
  IN  CASE a \in {"polls", "fd"}        -> on_polls(c, i)
        [] a \in {"io", "spliceread"}   -> on_io(c, i)
        [] a = "splicewrite"            -> on_splicewrite(c, i)
        [] a = "dual"                   -> on_splicedualready(c, i)
        [] a = "fds"                    -> on_fds(c, i)

(***************************************************************************)
(* wait_on_poll after poll() returned n > 0.                              *)
(***************************************************************************)

(* What identifies the entry of slot i: owner, descriptor, events.        *)
Key(c, i) == <<c.ref[i].ev, c.ref[i].fd, c.ref[i].evs>>

(* The revents poll() wrote for slot i, and the entry it wrote them for.  *)
Fresh(s, i) == i < s.lim0 /\ Key(s.c, i) = s.seen[i]

(* One pass of the loop: the condition i < lim && rc > 0 (lim re-read),   *)
(* skip a slot with fd < 0 or no revents, else rc--, idx = i, act.  A     *)
(* slot acted on with revents poll() did not write for its entry is       *)
(* recorded as "stale_revents".                                           *)
ScanStep(s, i) ==
  IF ~s.on THEN s
  ELSE IF ~(i < s.c.buf.lim /\ s.rc > 0) THEN [s EXCEPT !.on = FALSE]
  ELSE IF s.c.buf.base[i] < 0 \/ s.c.rev[i] = {} THEN s
  ELSE [s EXCEPT !.rc = @ - 1,
                 !.c = Act([s.c EXCEPT !.fault = @ \cup
                              (IF Fresh(s, i) THEN {} ELSE {"stale_revents"})],
                           i)]

(* assert(rc == 0) after the loop.                                          *)
ScanEnd(s) == [s.c EXCEPT !.fault = @ \cup (IF s.rc = 0 THEN {} ELSE {"scan_rc"})]

(* The loop over slots 0 .. Limit-1, then assert(rc == 0).                *)
wait_on_poll_scan(c, n) ==
  LET s0 == [c |-> c, rc |-> n, on |-> TRUE, lim0 |-> c.buf.lim,
             seen |-> [i \in Slots |-> Key(c, i)]]
  IN  ScanEnd(FoldLeft(ScanStep, s0, [k \in 1 .. Limit |-> k - 1]))

(* What poll() reports for a watched slot when its descriptor has the     *)
(* readiness rd: the requested events, and the fatal ones whether         *)
(* requested or not.                                                       *)
Reported(c, i, rd) == rd[c.buf.base[i]] \cap (c.ref[i].evs \cup FatalEvs)

(* The readiness of each descriptor that can change what poll() writes:  *)
(* events some slot watches on it (pollrec, MonitorExclusive) and the      *)
(* fatal ones, which poll() reports unrequested; Reported drops the rest.  *)
Readiness(c) ==
  {rd \in [Fds -> SUBSET RevEvs] :
     \A f \in Fds : rd[f] \subseteq c.pollrec[f] \cup FatalEvs}

(***************************************************************************)
(* The specification.                                                      *)
(***************************************************************************)

Init ==
  /\ core = InitCore
  /\ pending = {}

(* core.fault holds the assertions that failed in the step that led to   *)
(* the state: each step starts from Core, the state with none.           *)
Core == [core EXCEPT !.fault = {}]

(* A priming call on r: every one cancels r first, so an earlier request  *)
(* is abandoned; the new one is pending if the call succeeded.            *)
Primed(p, r, isreq) ==
  /\ core' = p.core
  /\ pending' = IF isreq /\ p.rc = "ok" THEN pending \cup {r} ELSE pending \ {r}

PrimeFd(r, f, m) ==
  /\ "fd" \in Ops
  /\ Primed(react_prime_poll(Core, r, f, m), r, FALSE)

PrimeIO(r, w, f) ==
  /\ w \in Ops
  /\ Primed(Wrapper(w, Core, r, f), r, TRUE)

PrimeSplice(r, w, fi, fo) ==
  /\ w \in Ops
  /\ fi # fo
  /\ Primed(SpliceWrapper(w, Core, r, fi, fo), r, TRUE)

(* The caller's sets for react_prime_fds: NULL (nul) or a set of at most *)
(* one descriptor, with at least one descriptor in all (count == 0 fails  *)
(* with EINVAL before the cancel, and leaves the handle as it was).       *)
CallerFds ==
  {p \in [nul : SUBSET FdsModes, sets : [FdsModes -> {{}} \cup {{f} : f \in Fds}]] :
     /\ \A m \in p.nul : p.sets[m] = {}
     /\ \E m \in FdsModes : p.sets[m] # {}}

PrimeFds(r, p) ==
  /\ "fds" \in Ops
  /\ Primed(react_prime_fds(Core, r, p), r, TRUE)

(* react_cancel (react_close is the same for the backend).                *)
Cancel(r) ==
  /\ core' = PS!react_cancel(Core, r)
  /\ pending' = pending \ {r}

(* react_yield calls poll() while the descriptors have readiness rd: it   *)
(* writes revents for the slots below lim and returns how many are        *)
(* non-zero; if none, it blocks (no step).  The scan follows in the same  *)
(* step.                                                                   *)
Poll ==
  \E rd \in Readiness(core) :
    LET lim == core.buf.lim
        rev == [i \in Slots |-> IF i >= lim THEN core.rev[i]
                                ELSE IF core.buf.base[i] < 0 THEN {}
                                ELSE Reported(core, i, rd)]
        n   == Cardinality({i \in 0 .. lim - 1 : rev[i] # {}})
    IN  /\ n > 0
        /\ core' = wait_on_poll_scan([Core EXCEPT !.rev = rev], n)
        /\ UNCHANGED pending

(* The drain loop of react_yield takes queued r: dequeue, react_defuse,   *)
(* then the user's procedure, which sees the request's result.            *)
Dispatch(r) ==
  /\ r \in core.queued
  /\ core' = PS!react_defuse([Core EXCEPT !.queued = @ \ {r}], r)
  /\ pending' = pending \ {r}

Next ==
  \/ \E r \in Handles, f \in Fds, m \in Range(FdPrimers) : PrimeFd(r, f, m)
  \/ \E r \in Handles, w \in IOWrappers, f \in Fds : PrimeIO(r, w, f)
  \/ \E r \in Handles, w \in {"splice_writefirst", "splice_dual"}, fi, fo \in Fds :
       PrimeSplice(r, w, fi, fo)
  \/ \E r \in Handles, p \in CallerFds : PrimeFds(r, p)
  \/ \E r \in Handles : Dispatch(r)
  \/ \E r \in Handles : Cancel(r)
  \/ Poll

(* The application's main loop keeps calling react_yield, whose drain     *)
(* loop empties the queue (module Reactor, YieldReturns).                 *)
Fairness == \A r \in Handles : WF_vars(Dispatch(r))

Spec == Init /\ [][Next]_vars /\ Fairness

(* What the code never reads again: PollSet's View, the proactor fields of *)
(* a handle neither primed nor pending, splice.polls of a handle that is  *)
(* not splicing on both sides, and revents of slots below lim, which the  *)
(* next poll() rewrites before the scan reads them.  Of the revents at or *)
(* above lim only whether they are empty is kept: the scan reads them    *)
(* only after lim has grown during the scan, which FreshRevents records   *)
(* before the act runs.                                                    *)
Dead(r) == core.defuse[r] = "none" /\ r \notin pending

View ==
  <<[PS!View EXCEPT
       !.act  = [r \in Handles |-> IF Dead(r) THEN "polls" ELSE @[r]],
       !.fin  = [r \in Handles |-> IF Dead(r) \/ core.act[r] \in {"io", "fd", "polls"}
                                   THEN 0 ELSE @[r]],
       !.fout = [r \in Handles |-> IF Dead(r) \/ core.act[r] \in {"io", "fd", "polls"}
                                   THEN 0 ELSE @[r]],
       !.urev = [r \in Handles |-> IF Dead(r) \/ core.act[r] \notin {"dual", "fds"}
                                   THEN <<{}, {}>> ELSE @[r]],
       !.fdsent  = [r \in Handles |-> IF Dead(r) \/ core.act[r] # "fds"
                                      THEN <<>> ELSE @[r]],
       !.fdsnull = [r \in Handles |-> IF Dead(r) \/ core.act[r] # "fds"
                                      THEN {} ELSE @[r]],
       !.fdsres  = [r \in Handles |-> IF Dead(r) \/ core.act[r] # "fds"
                                      THEN [m \in FdsModes |-> {}] ELSE @[r]],
       !.rev  = [i \in Slots |-> IF i < core.buf.lim \/ @[i] = {} THEN {} ELSE RevEvs]],
    pending>>

(***************************************************************************)
(* Properties.                                                             *)
(***************************************************************************)

Faults == PS!Faults \cup {"scan_rc", "stale_revents", "dual_write_okay"}

(* The type of the proactor's state.                                       *)
TypeOK ==
  /\ core.buf.lim \in 0 .. Limit /\ core.buf.base \in [Slots -> Fds \cup {-1}]
  /\ core.defuse \in [Handles -> {"none", "polls"}]
  /\ core.act \in [Handles -> Acts]
  /\ core.fin \in [Handles -> Fds] /\ core.fout \in [Handles -> Fds]
  /\ core.urev \in [Handles -> [1 .. 2 -> SUBSET RevEvs]]
  /\ core.rev \in [Slots -> SUBSET RevEvs]
  /\ \A r \in Handles : /\ core.fdsent[r] \in Seq(Fds) /\ core.fdsnull[r] \subseteq FdsModes
                       /\ core.fdsres[r] \in [FdsModes -> SUBSET Fds]
  /\ core.queued \subseteq Handles /\ core.fault \subseteq Faults
  /\ pending \subseteq Handles

(* The slots of every primed handle are exactly its chain, also when an  *)
(* act re-primes its handle in the middle of the scan (on_splicewrite,   *)
(* on_splicedualready) or triggers it (react_trigger's defuse).          *)
ChainIntegrity == PS!ChainIntegrity

(* pollrec stays the union of the events of the allocated slots, and no  *)
(* two handles wait for one event of one descriptor, across the acts'    *)
(* re-primes and triggers.                                                *)
MonitorExclusive == PS!MonitorExclusive

(* A request the caller is waiting for is always held by the library: the *)
(* handle is primed (its act will run) or queued (its procedure will).    *)
(* No early return of an act drops it.                                    *)
RequestHeld == \A r \in pending : core.defuse[r] = "polls" \/ r \in core.queued

(* The scan of wait_on_poll calls an act only with revents that poll()    *)
(* wrote for that very entry: a slot freed and reallocated by an act      *)
(* during the scan is never one the loop has still to reach, nor one      *)
(* beyond the lim poll() was given.                                        *)
FreshRevents == "stale_revents" \notin core.fault

(* assert(rc == 0) after the scan of wait_on_poll: every slot poll()      *)
(* counted was visited.                                                   *)
ScanCountHolds == "scan_rc" \notin core.fault

(* on_fds tells the caller of react_prime_fds only what it asked for and  *)
(* poll() reported: while the handle is still primed, a descriptor in its *)
(* result set for mode m is one of its entries watched in mode m, and the *)
(* revents recorded in that entry of the user's array hold an event of    *)
(* that mode.  This holds across hangups (on_polls disabling the slot),   *)
(* reports added to a handle already queued, and re-primes that reuse the *)
(* handle's array.                                                         *)
FdsReportsRequested ==
  \A r \in Handles : core.act[r] = "fds" /\ core.defuse[r] = "polls" =>
    \A m \in FdsModes : \A f \in core.fdsres[r][m] :
      \E i \in PS!UsedSlots(core) :
        /\ core.ref[i].ev = r /\ core.ref[i].fd = f /\ m \in core.ref[i].evs
        /\ core.urev[r][Offset(core, i)] \cap ModeEvents[m] # {}

(* assert(write_okay) in on_splicedualready: when the input is not ready, *)
(* the output is.                                                          *)
WriteOkayHolds == "dual_write_okay" \notin core.fault

====
