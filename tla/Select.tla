------------------------------- MODULE Select -------------------------------
(***************************************************************************)
(* The select backend (src/src/obj/select.c and the wait_on_select path   *)
(* of yield.c, built when KEEP_3FDSETS: DISABLE_POLL, or no poll()).      *)
(* The core keeps one fd_set per mode (fdsum.in_set), the number of bits  *)
(* set in them (fdsum.count, a size_t), the bound nfds handed to         *)
(* select(), and fdmap, which maps a descriptor and a mode to the handle  *)
(* watching it.  react_prime_fd watches one descriptor in one mode and    *)
(* fires through react_trigger; react_prime_fds watches the members of up *)
(* to three caller sets and fires through on_fds.  Every loop over an     *)
(* fd_set is the for loop over react_findfd, taken from module FindFd.   *)
(***************************************************************************)
EXTENDS Integers, Sequences, FiniteSets, SequencesExt

CONSTANTS
  Handles,     \* the event handles of the core
  NoHandle,    \* a null entry of fdmap
  FdSetSize,   \* FD_SETSIZE: descriptors 0 .. FdSetSize-1
  NFDBITS,     \* the bits of an fd_mask
  FastPath,    \* whether react_findfd is the glibc word-at-a-time branch
  ModeSeq,     \* the modes react_MIN, react_MOUT, react_MEXC in loop order
  SizeMod,     \* 2^w for the size_t fdsum.count
  Ops          \* the priming calls the application makes: "fd", "fds"

ASSUME Ops \subseteq {"fd", "fds"}

FF == INSTANCE FindFd WITH fds <- {}, nfds <- 0, fd <- -1, notified <- {},
                           pc <- "done"

Fds == 0 .. FdSetSize - 1
Modes == ToSet(ModeSeq)

VARIABLES core

vars == <<core>>

(* The descriptors react_findfd yields in turn from pos = -1, below nfds. *)
RECURSIVE FindFrom(_, _, _)
FindFrom(set, nfds, pos) ==
  LET res == FF!react_findfd(set, nfds, pos)
  IN  IF res.found THEN <<res.pos>> \o FindFrom(set, nfds, res.pos) ELSE <<>>

FindAll(set, nfds) == FindFrom(set, nfds, -1)

(* The loop for (m = 0; m < react_M_MAX; m++) for (fd = -1;               *)
(* react_findfd(sets[m], nfds, &fd); ) Body(c, fd, m), in that order.     *)
ForEachFd(Body(_, _, _), c0, sets, nfds) ==
  FoldLeft(LAMBDA c, m : FoldLeft(LAMBDA d, f : Body(d, f, m), c,
                                  FindAll(sets[m], nfds)),
           c0, ModeSeq)

NoSets == [m \in Modes |-> {}]

(* react_opencoref's zeroed fdsum and fdmap, and handles as react_open    *)
(* leaves them: no defuse, not queued.                                     *)
InitCore ==
  [mapsize |-> 0,
   fdmap   |-> [f \in Fds |-> [m \in Modes |-> NoHandle]],
   in_set  |-> NoSets,
   count   |-> 0,
   nfds    |-> 0,
   defuse  |-> [r \in Handles |-> "none"],
   act     |-> [r \in Handles |-> "trigger"],
   dfd     |-> [r \in Handles |-> 0],
   dmode   |-> [r \in Handles |-> Head(ModeSeq)],
   fdsin   |-> [r \in Handles |-> NoSets],
   lim     |-> [r \in Handles |-> 0],
   queued  |-> {},
   fault   |-> {}]

(* An assertion of the code: if it fails, name is added to core.fault.    *)
(* NDEBUG is never defined, so a failed assert aborts the program.        *)
Check(c, ok, name) == IF ok THEN c ELSE [c EXCEPT !.fault = @ \cup {name}]

(* change_fdcount on the size_t count.                                     *)
change_fdcount(c, amount) == [c EXCEPT !.count = (@ + amount) % SizeMod]

(* detect_event_in_use.                                                    *)
detect_event_in_use(c, f, m) == f < c.mapsize /\ c.fdmap[f][m] # NoHandle

(* The growth loop of ensure_fd_index: nsize += 2; nsize *= nsize / 2,    *)
(* capped at FD_SETSIZE, until it covers req.                             *)
RECURSIVE GrowMap(_, _)
GrowMap(nsize, req) ==
  IF nsize >= req THEN nsize
  ELSE LET n2 == (nsize + 2) * ((nsize + 2) \div 2)
       IN  GrowMap(IF n2 >= FdSetSize THEN FdSetSize ELSE n2, req)

(* ensure_fd_index (realloc is not modelled to fail).                     *)
ensure_fd_index(c, f) ==
  IF f < c.mapsize THEN c
  ELSE [c EXCEPT !.mapsize = GrowMap(@, f + 1)]

(* The loop body of defuse_fds for descriptor f in mode m of handle r.   *)
ClearFd(r, c, f, m) ==
  LET c1 == Check(c, c.count > 0, "count_positive")
      c2 == Check(change_fdcount([c1 EXCEPT !.in_set[m] = @ \ {f}], -1),
                  c.fdmap[f][m] = r, "fdmap_owner")
  IN  [c2 EXCEPT !.fdmap[f][m] = NoHandle]

defuse_fds(c, r) ==
  ForEachFd(LAMBDA d, f, m : ClearFd(r, d, f, m), c, c.fdsin[r], c.lim[r])

(* defuse_fd.                                                             *)
defuse_fd(c, r) ==
  LET f == c.dfd[r]
      m == c.dmode[r]
      c1 == Check(Check(Check(c, c.count > 0, "count_positive"),
                        f \in c.in_set[m], "in_set_member"),
                  c.fdmap[f][m] = r, "fdmap_owner")
  IN  [change_fdcount(c1, -1) EXCEPT !.in_set[m] = @ \ {f},
                                     !.fdmap[f][m] = NoHandle]

(* react_defuse: clear r->defuse, then call what it was.                  *)
react_defuse(c, r) ==
  LET c1 == [c EXCEPT !.defuse[r] = "none"]
  IN  CASE c.defuse[r] = "fd"  -> defuse_fd(c1, r)
        [] c.defuse[r] = "fds" -> defuse_fds(c1, r)
        [] OTHER               -> c

react_cancel(c, r) == [react_defuse(c, r) EXCEPT !.queued = @ \ {r}]

react_trigger(c, r) == react_defuse([c EXCEPT !.queued = @ \cup {r}], r)

(* on_fds for the descriptor and mode in fdsum.fd and fdsum.mode.         *)
on_fds(c, r, f, m) ==
  LET c1 == Check(Check(c, c.count > 0, "count_positive"),
                  f \in c.in_set[m], "in_set_member")
  IN  [change_fdcount(c1, -1) EXCEPT !.in_set[m] = @ \ {f},
                                     !.queued = @ \cup {r}]

(* react_prime_fd, after its react_cancel, for a valid fd and mode.      *)
PrimeFdOn(c, r, f, m) ==
  IF detect_event_in_use(c, f, m) THEN c
  ELSE LET c1 == Check([ensure_fd_index(c, f) EXCEPT !.fdmap[f][m] = r],
                       f \notin c.in_set[m], "in_set_clear")
       IN  [change_fdcount(c1, 1) EXCEPT
              !.in_set[m] = @ \cup {f},
              !.nfds = IF f >= @ THEN f + 1 ELSE @,
              !.dfd[r] = f, !.dmode[r] = m,
              !.defuse[r] = "fd", !.act[r] = "trigger"]

react_prime_fd(c, r, f, m) == PrimeFdOn(react_cancel(c, r), r, f, m)

(* The body of the second loop of react_prime_fds: watch f in mode m.     *)
RegisterFd(r, c, f, m) ==
  [Check(change_fdcount([c EXCEPT !.in_set[m] = @ \cup {f}], 1),
         c.fdmap[f][m] = NoHandle, "fdmap_clear")
     EXCEPT !.fdmap[f][m] = r]

(* The second loop of react_prime_fds: in[m] = *p[m]; out[m] = p[m];      *)
(* FD_ZERO(out[m]), which empties the caller's set p[m]; then the loop    *)
(* over p[m].                                                              *)
MergeSets(c, r, p, nfds) ==
  LET user == [m \in Modes |-> {}]
  IN  ForEachFd(LAMBDA d, f, m : RegisterFd(r, d, f, m),
                [c EXCEPT !.fdsin[r] = p], user, nfds)

(* react_prime_fds, after its react_cancel: refuse a watched event, or no *)
(* descriptor at all; then grow fdmap, merge, raise nfds.                 *)
PrimeFdsOn(c, r, p, nfds) ==
  LET found   == UNION {{<<f, m>> : f \in ToSet(FindAll(p[m], nfds))} : m \in Modes}
      highest == IF found = {} THEN -1
                 ELSE CHOOSE f \in {x[1] : x \in found} : \A y \in found : y[1] <= f
  IN  IF \E x \in found : detect_event_in_use(c, x[1], x[2]) THEN c
      ELSE IF highest < 0 THEN c
      ELSE [MergeSets(ensure_fd_index(c, highest), r, p, nfds) EXCEPT
              !.nfds = IF highest >= @ THEN highest + 1 ELSE @,
              !.lim[r] = nfds, !.defuse[r] = "fds", !.act[r] = "on_fds"]

react_prime_fds(c, r, p, nfds) == PrimeFdsOn(react_cancel(c, r), r, p, nfds)

(* The call through r->act for the handle fdmap names for f in mode m;   *)
(* assert(r != NULL) first.                                               *)
Notify(c, f, m) ==
  LET r == c.fdmap[f][m]
  IN  IF r = NoHandle THEN Check(c, FALSE, "hunt_null")
      ELSE IF c.act[r] = "trigger" THEN react_trigger(c, r)
      ELSE on_fds(c, r, f, m)

(* copy_fd_sets: the sets to pass, and nfds lowered by one if nfds-1 is  *)
(* in no set.                                                              *)
copy_fd_sets(c) ==
  IF c.nfds > 0 /\ \A m \in Modes : c.nfds - 1 \notin c.in_set[m]
  THEN [c EXCEPT !.nfds = @ - 1] ELSE c

(* hunt_fd_events over the sets select() returned.                       *)
hunt_fd_events(c, out) == ForEachFd(Notify, c, out, c.nfds)

(* hunt_bad_fds: a fresh copy of in_set, and the act of every member that *)
(* fcntl(F_GETFD) finds closed.                                          *)
hunt_bad_fds(c, bad) ==
  ForEachFd(LAMBDA d, f, m : IF f \in bad THEN Notify(d, f, m) ELSE d,
            c, c.in_set, c.nfds)

(***************************************************************************)
(* The specification.  There are no timers and no signal handle, so       *)
(* wait_on_select returns WOULDBLOCK (no step) when count is 0, and       *)
(* select() blocks until a watched descriptor is ready or closed.        *)
(***************************************************************************)

Init == core = InitCore

(* The program runs until an assert fails (core.fault # {}): abort()     *)
(* ends it, so no later step is taken.                                    *)
Running == core.fault = {}

(* The core after a step whose result is c: c itself, or, if an assert    *)
(* of the step failed, the core before it with the failed asserts; the   *)
(* process has ended and its state does not matter.                       *)
Step(c) == core' = IF c.fault = {} THEN c ELSE [core EXCEPT !.fault = c.fault]

(* The caller's sets: at most one descriptor per mode.                    *)
CallerSets == [Modes -> {{}} \cup {{f} : f \in Fds}]

PrimeFd(r, f, m) ==
  /\ "fd" \in Ops
  /\ Step(react_prime_fd(core, r, f, m))

PrimeFds(r, p) ==
  /\ "fds" \in Ops
  /\ Step(react_prime_fds(core, r, p, FdSetSize))

Cancel(r) == Step(react_cancel(core, r))

(* wait_on_select: count != 0, copy_fd_sets, select() returns rc > 0 with *)
(* the ready members of the copied sets below nfds, hunt_fd_events.      *)
Wait ==
  /\ core.count # 0
  /\ LET c == copy_fd_sets(core)
     IN  \E out \in [Modes -> SUBSET Fds] :
           /\ \A m \in Modes : out[m] \subseteq {f \in c.in_set[m] : f < c.nfds}
           /\ \E m \in Modes : out[m] # {}
           /\ Step(hunt_fd_events(c, out))

(* select() fails with EBADF because the application closed watched      *)
(* descriptors bad: hunt_bad_fds.                                         *)
WaitBadFd ==
  /\ core.count # 0
  /\ LET c == copy_fd_sets(core)
     IN  \E bad \in SUBSET Fds \ {{}} :
           /\ \E m \in Modes : bad \cap c.in_set[m] \cap 0 .. c.nfds - 1 # {}
           /\ Step(hunt_bad_fds(c, bad))

(* The drain loop of react_yield takes queued r: dequeue, react_defuse.  *)
Dispatch(r) ==
  /\ r \in core.queued
  /\ Step(react_defuse([core EXCEPT !.queued = @ \ {r}], r))

Next ==
  /\ Running
  /\ \/ \E r \in Handles, f \in Fds, m \in Modes : PrimeFd(r, f, m)
     \/ \E r \in Handles, p \in CallerSets : PrimeFds(r, p)
     \/ \E r \in Handles : Dispatch(r)
     \/ \E r \in Handles : Cancel(r)
     \/ Wait
     \/ WaitBadFd

Spec == Init /\ [][Next]_vars

(***************************************************************************)
(* Properties.                                                             *)
(***************************************************************************)

Faults == {"count_positive", "in_set_member", "fdmap_owner", "in_set_clear",
           "fdmap_clear", "hunt_null"}

TypeOK ==
  /\ core.mapsize \in 0 .. FdSetSize
  /\ core.fdmap \in [Fds -> [Modes -> Handles \cup {NoHandle}]]
  /\ core.in_set \in [Modes -> SUBSET Fds]
  /\ core.count \in 0 .. SizeMod - 1
  /\ core.nfds \in 0 .. FdSetSize
  /\ core.defuse \in [Handles -> {"none", "fd", "fds"}]
  /\ core.act \in [Handles -> {"trigger", "on_fds"}]
  /\ core.queued \subseteq Handles
  /\ core.fault \subseteq Faults

(* The asserts of defuse_fds, defuse_fd, on_fds, react_prime_fd,          *)
(* react_prime_fds and the act lookup state what the code takes for       *)
(* granted: a descriptor being released was counted and is owned by the    *)
(* handle releasing it.  No sequence of priming, cancelling, waiting and   *)
(* dispatching makes one fail and abort the program.                       *)
AssertionsHold == core.fault = {}

====
