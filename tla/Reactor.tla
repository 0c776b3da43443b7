------------------------------ MODULE Reactor ------------------------------
(***************************************************************************)
(* The event-handle state machine and the dispatch loop of the react core *)
(* (src/src/obj/portable.c, core.c, idle.c, primetime.c, prime.c,          *)
(* signals.c, poll.c and yield.c, poll backend).                           *)
(*                                                                         *)
(* The variable core mirrors struct react_corestr together with the fields *)
(* of every struct react_reg that belongs to it.  Each C function that     *)
(* changes that state is an operator from a core to a core, named after   *)
(* the function, so that a C function that calls another is the nesting   *)
(* of the two operators.  The locals of react_yield (p, sp, found) and the *)
(* position of its loops are the variables pc, yp, ysp and found.          *)
(*                                                                         *)
(* Data is abstracted: a continuation is only "set or not" (proc), a      *)
(* descriptor condition is a model value of Fds watched by one handle, a   *)
(* moment is a member of 0..MaxTime.  Memory allocation does not fail.    *)
(***************************************************************************)
EXTENDS Naturals, Sequences, FiniteSets, SequencesExt

CONSTANTS
  Handles,      \* the event handles that may be opened (model values)
  Fds,          \* descriptors a handle may be primed on (model values)
  NoHandle,     \* a null struct react_reg pointer
  MaxPrios,     \* react_MAXPRIOS
  MaxSubprios,  \* react_MAXSUBPRIOS
  MaxTime,      \* the last moment of the clock that is modelled
  MaxContSteps, \* calls a single continuation makes before returning
  ContinuationMayTrigger,    \* may a continuation call react_trigger?
  IdlePrimeOnlyWhenUnprimed, \* is react_prime_idle called only on idle handles?
  ConnectCalls               \* does the application call react_prime_connect?

ASSUME /\ NoHandle \notin Handles
       /\ MaxPrios \in Nat \ {0} /\ MaxSubprios \in Nat \ {0}
       /\ MaxTime \in Nat /\ MaxContSteps \in Nat
       /\ ContinuationMayTrigger \in BOOLEAN
       /\ IdlePrimeOnlyWhenUnprimed \in BOOLEAN
       /\ ConnectCalls \in BOOLEAN

Prios    == 0 .. MaxPrios - 1
Subprios == 0 .. MaxSubprios - 1
Times    == 0 .. MaxTime

(* The cancellation callback installed in r->defuse: none (null), the idle *)
(* list's defuse, defuse_time, defuse_polls or defuse_intr.                *)
DefuseKinds == {"none", "idle", "timer", "fd", "intr"}

VARIABLES
  core,   \* struct react_corestr and the handles that are its members
  pc,     \* where the program is: in user code or in a react_yield loop
  yp,     \* react_yield's p
  ysp,    \* react_yield's sp
  found,  \* react_yield's found
  steps,  \* calls made so far by the running continuation
  rc,     \* the result of the last react_yield
  now     \* the current moment

vars == <<core, pc, yp, ysp, found, steps, rc, now>>

PCs == {"user", "timers", "idlers", "level", "sub", "cont", "closed"}
RCs == {"none", "ok", "wouldblock", "eintr"}

CoreType ==
  [ members : SUBSET Handles,
    proc    : [Handles -> BOOLEAN],
    prio    : [Handles -> Prios],
    subprio : [Handles -> Subprios],
    queued  : [Handles -> BOOLEAN],
    defuse  : [Handles -> DefuseKinds],
    when    : [Handles -> Times],
    queues  : [Prios -> [Subprios -> Seq(Handles)]],
    size    : 0 .. MaxPrios,
    subsize : [Prios -> 0 .. MaxSubprios],
    top     : 0 .. MaxPrios,
    idlers  : Seq(Handles),
    timed   : SUBSET Handles,
    watch   : [Fds -> Handles \cup {NoHandle}],
    dead    : SUBSET Fds,
    conn    : SUBSET Fds,
    sig_ev  : Handles \cup {NoHandle} ]

(***************************************************************************)
(* State transformers, one per C function.                                 *)
(***************************************************************************)

(* ensure_queues: EDOM beyond the fixed limits; otherwise initialise the   *)
(* major levels up to prio and the subqueues up to subprio.  If top was    *)
(* at the end (all done) it is moved to the new end.                       *)
EnsureQueuesOk(c, p, sp) == p < MaxPrios /\ sp < MaxSubprios

(* Mutant: one subqueue too many is initialised.                          *)
ensure_queues_overgrows(c, p, sp) ==
  LET nsize == IF c.size <= p THEN p + 1 ELSE c.size
  IN [c EXCEPT !.size = nsize,
               !.top = IF c.top = c.size THEN nsize ELSE c.top,
               !.subsize[p] = IF @ <= sp THEN sp + 2 ELSE @]

(* Mutant: top is moved to the new end even when work is pending.         *)
ensure_queues_moves_top(c, p, sp) ==
  LET nsize == IF c.size <= p THEN p + 1 ELSE c.size
  IN [c EXCEPT !.size = nsize,
               !.top = nsize,
               !.subsize[p] = IF @ <= sp THEN sp + 1 ELSE @]

ensure_queues(c, p, sp) ==
  LET nsize == IF c.size <= p THEN p + 1 ELSE c.size
  IN [c EXCEPT !.size = nsize,
               !.top = IF c.top = c.size THEN nsize ELSE c.top,
               !.subsize[p] = IF @ <= sp THEN sp + 1 ELSE @]

(* react_queue: only handles with a continuation, and not twice; lower     *)
(* top to the handle's level, append to its subqueue.                      *)
react_queue(c, r) ==
  IF ~c.proc[r] \/ c.queued[r] THEN c
  ELSE [c EXCEPT !.top = IF c.prio[r] < @ THEN c.prio[r] ELSE @,
                 !.queues[c.prio[r]][c.subprio[r]] = Append(@, r),
                 !.queued[r] = TRUE]

(* react_dequeue: unlink from the subqueue of the current priorities.      *)
react_dequeue(c, r) ==
  IF ~c.queued[r] THEN c
  ELSE [c EXCEPT !.queues[c.prio[r]][c.subprio[r]] = Remove(@, r),
                 !.queued[r] = FALSE]

(* The defuse callbacks: idle.c defuse, defuse_time, defuse_polls (every   *)
(* slot of the handle is freed and its pollrec bits cleared; the fatal     *)
(* mark goes with the slot) and defuse_intr.                               *)
(* idle.c defuse: unlink from the idle list.                               *)
defuse_idle(c, r) == [c EXCEPT !.idlers = Remove(@, r)]

(* Mutant: defuse_time leaves the handle in the heap.                      *)
defuse_time_keeps_heap(c, r) == c

(* defuse_time: bheap_remove.                                              *)
defuse_time(c, r) == [c EXCEPT !.timed = @ \ {r}]

(* defuse_polls: every slot of the handle is freed (fd = -1, arrfree) and  *)
(* its pollrec bits are cleared; trim_array is abstracted with the slots.  *)
defuse_polls(c, r) ==
  LET mine == {f \in Fds : c.watch[f] = r}
  IN  [c EXCEPT !.watch = [f \in Fds |-> IF f \in mine THEN NoHandle
                                         ELSE @[f]],
                !.dead  = @ \ mine, !.conn = @ \ mine]

(* defuse_intr: sig_ev = NULL.                                             *)
defuse_intr(c, r) == [c EXCEPT !.sig_ev = NoHandle]

(* The call f(r) of react_defuse: the callback that r->defuse held.        *)
CallDefuse(c, r) ==
  CASE c.defuse[r] = "idle"  -> defuse_idle(c, r)
    [] c.defuse[r] = "timer" -> defuse_time(c, r)
    [] c.defuse[r] = "fd"    -> defuse_polls(c, r)
    [] c.defuse[r] = "intr"  -> defuse_intr(c, r)
    [] OTHER                 -> c

(* react_defuse: clear r->defuse, then call what it held (no callback      *)
(* reads r->defuse).  Sub-events are not modelled: react_ensuresub is      *)
(* used only by the proactor wrappers.                                     *)
react_defuse(c, r) ==
  [CallDefuse(c, r) EXCEPT !.defuse[r] = "none"]

(* react_cancel: defuse, then dequeue.                                     *)
react_cancel(c, r) == react_dequeue(react_defuse(c, r), r)

(* react_isprimed: a defuse function is set; react_isactive: primed or    *)
(* queued.                                                                *)
react_isprimed(c, r) == c.defuse[r] # "none"
react_isactive(c, r) == react_isprimed(c, r) \/ c.queued[r]

(* react_trigger: queue, then defuse.                                      *)
react_trigger(c, r) == react_defuse(react_queue(c, r), r)

(* react_open: ensure_queues(core, 0, 0), then a zero-initialised handle   *)
(* appended to the members.                                                *)
react_open(c, r) ==
  [ensure_queues(c, 0, 0) EXCEPT
     !.members = @ \cup {r}, !.proc[r] = FALSE, !.prio[r] = 0,
     !.subprio[r] = 0, !.queued[r] = FALSE, !.defuse[r] = "none",
     !.when[r] = 0]

(* react_close: cancel, then unlink from the members and free.             *)
react_close(c, r) == [react_cancel(c, r) EXCEPT !.members = @ \ {r}]

(* react_direct: ignored while queued.                                     *)
react_direct(c, r, hasProc) ==
  IF c.queued[r] THEN c ELSE [c EXCEPT !.proc[r] = hasProc]

(* react_setprios: EBADSTATE while queued (being primed is allowed);       *)
(* EDOM from ensure_queues; otherwise store the priorities.                *)
(* Mutant: the priorities of a queued handle may be changed.               *)
react_setprios_while_queued(c, r, p, sp) ==
  IF ~EnsureQueuesOk(c, p, sp) THEN c
  ELSE [ensure_queues(c, p, sp) EXCEPT !.prio[r] = p, !.subprio[r] = sp]

react_setprios(c, r, p, sp) ==
  IF c.queued[r] \/ ~EnsureQueuesOk(c, p, sp) THEN c
  ELSE [ensure_queues(c, p, sp) EXCEPT !.prio[r] = p, !.subprio[r] = sp]

(* react_prime_idle: no react_cancel; install the idle defuse, act =       *)
(* react_trigger, append to the idle list.                                 *)
react_prime_idle(c, r) ==
  [c EXCEPT !.defuse[r] = "idle", !.idlers = Append(@, r)]

(* react_prime with react_CIDLE: cancel, then react_prime_idle.            *)
react_prime(c, r) == react_prime_idle(react_cancel(c, r), r)

(* prime_systime: cancel, record the moment, insert into the heap,         *)
(* act = react_trigger, defuse = defuse_time.                              *)
(* Mutant: the previous condition is not cancelled.                        *)
prime_systime_no_cancel(c, r, t) ==
  [c EXCEPT !.when[r] = t, !.timed = @ \cup {r}, !.defuse[r] = "timer"]

prime_systime(c, r, t) ==
  [react_cancel(c, r) EXCEPT !.when[r] = t, !.timed = @ \cup {r},
                             !.defuse[r] = "timer"]

(* react_prime_fd -> react_prime_poll -> react_prime_polls: cancel;        *)
(* check_monitor fails with EEVENTINUSE if the descriptor is watched       *)
(* (the handle stays cancelled); else allocate a slot, record it in        *)
(* pollrec, act = on_poll, defuse = defuse_polls.                          *)
react_prime_fd(c, r, f) ==
  LET d == react_cancel(c, r)
  IN  IF d.watch[f] # NoHandle THEN d
      ELSE [d EXCEPT !.watch[f] = r, !.defuse[r] = "fd"]

(* react_prime_intr: cancel; EEVENTINUSE if another handle has sig_ev;     *)
(* else sig_ev = r, act = react_queue, defuse = defuse_intr.               *)
react_prime_intr(c, r) ==
  LET d == react_cancel(c, r)
  IN  IF d.sig_ev # NoHandle THEN d
      ELSE [d EXCEPT !.sig_ev = r, !.defuse[r] = "intr"]

(* on_polls for a ready slot of descriptor f: a fatal event marks the slot *)
(* unused (fd = -1) but keeps it and its pollrec bits; the handle is       *)
(* queued and stays primed.                                                *)
on_polls(c, f, fatal) ==
  react_queue([c EXCEPT !.dead = IF fatal THEN @ \cup {f} ELSE @],
              c.watch[f])

(* socket.c on_connect: the saved act (on_poll, which calls on_polls),     *)
(* then connect() into the caller's locations, then react_trigger: the     *)
(* slot is freed at detection, not at dispatch.                            *)
on_connect(c, f, fatal) == react_trigger(on_polls(c, f, fatal), c.watch[f])

(* The call of p->act from wait_on_poll for slot f: on_connect if the    *)
(* slot's handle was primed by react_prime_connect, else on_poll.          *)
CallAct(c, f, fatal) ==
  IF f \in c.conn THEN on_connect(c, f, fatal) ELSE on_polls(c, f, fatal)

(* react_prime_connect on a non-blocking socket f.  connect() completing   *)
(* or failing at once sets the caller's rc/en and calls react_prime_idle,  *)
(* with no cancel; EINPROGRESS primes react_prime_sock(MOUT), that is      *)
(* react_prime_fd, and on success swaps on_connect in.  A failing          *)
(* ioctlsocket only sets the caller's rc/en.                               *)
react_prime_connect(c, r, f, inprogress) ==
  IF ~inprogress THEN react_prime_idle(c, r)
  ELSE LET d == react_prime_fd(c, r, f)
       IN  IF d.defuse[r] = "fd" THEN [d EXCEPT !.conn = @ \cup {f}] ELSE d

(* react_closecore: cancel every member, free the queues, detach all.      *)
react_closecore(c) ==
  LET d == FoldSet(LAMBDA r, acc : react_cancel(acc, r), c, c.members)
  IN  [d EXCEPT !.members = {}]

(***************************************************************************)
(* Derived state read by detect_events and wait_on_poll.                   *)
(***************************************************************************)

(* The first timer: bheap_peek returns one of the earliest moments.       *)
FirstTimers(c) ==
  {r \in c.timed : \A g \in c.timed : c.when[r] <= c.when[g]}

(* Work is pending: queued handles above top, or idlers.                   *)
TimeoutZero(c) == c.top < c.size \/ c.idlers # <<>>

(* sysbuf.size: slots allocated, including those marked fd = -1.          *)
SlotsInUse(c) == {f \in Fds : c.watch[f] # NoHandle}

(* Slots that poll() watches (fd >= 0).                                    *)
LiveFds(c) == SlotsInUse(c) \ c.dead

(* wait_on_poll returns WOULDBLOCK: no slots, NULL timeout, no sig_ev.     *)
(* Mutant: timers are not counted as pending work.                         *)
WouldBlock_ignores_timers(c) ==
  /\ SlotsInUse(c) = {}
  /\ ~TimeoutZero(c)
  /\ c.sig_ev = NoHandle

WouldBlock(c) ==
  /\ SlotsInUse(c) = {}
  /\ ~TimeoutZero(c) /\ c.timed = {}
  /\ c.sig_ev = NoHandle

(***************************************************************************)
(* Initial state: a core fresh from react_opencoref, no handle open.       *)
(***************************************************************************)
InitCore ==
  [ members |-> {},
    proc    |-> [r \in Handles |-> FALSE],
    prio    |-> [r \in Handles |-> 0],
    subprio |-> [r \in Handles |-> 0],
    queued  |-> [r \in Handles |-> FALSE],
    defuse  |-> [r \in Handles |-> "none"],
    when    |-> [r \in Handles |-> 0],
    queues  |-> [p \in Prios |-> [sp \in Subprios |-> <<>>]],
    size    |-> 0,
    subsize |-> [p \in Prios |-> 0],
    top     |-> 0,
    idlers  |-> <<>>,
    timed   |-> {},
    watch   |-> [f \in Fds |-> NoHandle],
    dead    |-> {},
    conn    |-> {},
    sig_ev  |-> NoHandle ]

Init ==
  /\ core = InitCore
  /\ pc = "user" /\ yp = 0 /\ ysp = 0 /\ found = FALSE
  /\ steps = 0 /\ rc = "none" /\ now = 0

(***************************************************************************)
(* Calls of the API, made by the user between calls of react_yield or by  *)
(* a continuation that react_yield is running.                             *)
(***************************************************************************)
Caller == \/ pc = "user"
          \/ pc = "cont" /\ steps < MaxContSteps

(* Apply the call d to the core; count it against the continuation.        *)
Call(d) ==
  /\ Caller
  /\ core' = d
  /\ steps' = IF pc = "cont" THEN steps + 1 ELSE steps
  /\ UNCHANGED <<pc, yp, ysp, found, rc, now>>

Open(r)     == r \notin core.members /\ Call(react_open(core, r))
Close(r)    == r \in core.members /\ Call(react_close(core, r))
Direct(r)   == r \in core.members /\
                 \E b \in BOOLEAN : Call(react_direct(core, r, b))
SetPrios(r) == r \in core.members /\
                 \E p \in 0 .. MaxPrios, sp \in 0 .. MaxSubprios :
                   Call(react_setprios(core, r, p, sp))
PrimeIdle(r) == r \in core.members /\ Call(react_prime(core, r))
(* react_prime_idle called directly (C++ IdleCondition, testreact.c,       *)
(* react_prime_connect).  Priming a handle twice on the idle list would    *)
(* link it twice, so the direct call is always made on an unprimed handle  *)
(* when IdlePrimeOnlyWhenUnprimed holds, and otherwise also on a handle in *)
(* the timer heap.  Not on a handle holding a slot or sig_ev: what its     *)
(* stale act does there depends on sysbuf.idx and is not modelled.         *)
IdleDirectOk(r) ==
  IF IdlePrimeOnlyWhenUnprimed THEN core.defuse[r] = "none"
  ELSE core.defuse[r] \in {"none", "timer"}

PrimeIdleDirect(r) ==
  /\ r \in core.members
  /\ IdleDirectOk(r)
  /\ Call(react_prime_idle(core, r))

(* react_prime_connect: the immediate outcome under the same condition as  *)
(* a direct react_prime_idle.                                              *)
PrimeConnect(r) ==
  /\ ConnectCalls /\ r \in core.members
  /\ \E f \in Fds, inprogress \in BOOLEAN :
       /\ ~inprogress => IdleDirectOk(r)
       /\ Call(react_prime_connect(core, r, f, inprogress))
PrimeTime(r) == r \in core.members /\
                  \E t \in Times : Call(prime_systime(core, r, t))
PrimeFd(r)   == r \in core.members /\
                  \E f \in Fds : Call(react_prime_fd(core, r, f))
PrimeIntr(r) == r \in core.members /\ Call(react_prime_intr(core, r))
Cancel(r)    == r \in core.members /\ Call(react_cancel(core, r))
Trigger(r)   == /\ r \in core.members
                /\ pc = "user" \/ ContinuationMayTrigger
                /\ Call(react_trigger(core, r))

(* react_closecore, from user code only.                                   *)
CloseCore ==
  /\ pc = "user"
  /\ core' = react_closecore(core)
  /\ pc' = "closed"
  /\ UNCHANGED <<yp, ysp, found, steps, rc, now>>

(***************************************************************************)
(* react_yield.  detect_events and wait_on_poll are one step: they end in *)
(* the blocking poll(), after which the act of every ready slot runs.     *)
(***************************************************************************)

(* react_yield's locals are dead once it returns.                          *)
ResetLocals == yp' = 0 /\ ysp' = 0 /\ found' = FALSE

(* wait_on_poll returns WOULDBLOCK; detect_events fails with EAGAIN.       *)
YieldWouldBlock ==
  /\ pc = "user" /\ WouldBlock(core)
  /\ rc' = "wouldblock"
  /\ UNCHANGED <<core, pc, yp, ysp, found, steps, now>>

(* poll() returns ready slots R (F of them with a fatal event) at moment t *)
(* and the act of each runs, in slot order.  An indefinite wait returns   *)
(* only with a ready slot; a wait until the first timer that sees nothing  *)
(* returns at or after that timer's moment.                                *)
YieldPoll ==
  /\ pc = "user" /\ ~WouldBlock(core)
  /\ \E R \in SUBSET LiveFds(core), F \in SUBSET Fds, t \in now .. MaxTime :
       /\ F \subseteq R
       /\ ~TimeoutZero(core) /\ core.timed = {} => R # {}
       /\ ~TimeoutZero(core) /\ R = {} =>
            \A r \in FirstTimers(core) : core.when[r] <= t
       /\ now' = t
       /\ \E order \in SetToSeqs(R) :
            core' = FoldLeft(LAMBDA c, f : CallAct(c, f, f \in F),
                             core, order)
  /\ pc' = "timers"
  /\ UNCHANGED <<yp, ysp, found, steps, rc>>

(* poll() fails with EINTR and sig_ev is set: act (react_queue) on it.     *)
YieldSignal ==
  /\ pc = "user" /\ ~WouldBlock(core) /\ core.sig_ev # NoHandle
  /\ core' = react_queue(core, core.sig_ev)
  /\ now' \in now .. MaxTime
  /\ pc' = "timers"
  /\ UNCHANGED <<yp, ysp, found, steps, rc>>

(* poll() fails with EINTR and no handle takes interrupts: PROBLEM.        *)
YieldInterrupted ==
  /\ pc = "user" /\ ~WouldBlock(core) /\ core.sig_ev = NoHandle
  /\ rc' = "eintr"
  /\ now' \in now .. MaxTime
  /\ UNCHANGED <<core, pc, yp, ysp, found, steps>>

(* The timer loop: while the heap's first handle is due, call its act     *)
(* (react_trigger, installed by prime_systime and react_prime_idle).       *)
FireTimer ==
  /\ pc = "timers"
  /\ \E r \in FirstTimers(core) :
       /\ core.when[r] <= now
       /\ core' = react_trigger(core, r)
  /\ UNCHANGED <<pc, yp, ysp, found, steps, rc, now>>

TimersDone ==
  /\ pc = "timers"
  /\ \A r \in FirstTimers(core) : core.when[r] > now
  /\ pc' = "idlers"
  /\ UNCHANGED <<core, yp, ysp, found, steps, rc, now>>

(* The idle loop: while the list is non-empty, call the first one's act    *)
(* (react_trigger).                                                        *)
FireIdler ==
  /\ pc = "idlers" /\ core.idlers # <<>>
  /\ core' = react_trigger(core, Head(core.idlers))
  /\ UNCHANGED <<pc, yp, ysp, found, steps, rc, now>>

(* The drain loop starts: p = top, found = false.                          *)
IdlersDone ==
  /\ pc = "idlers" /\ core.idlers = <<>>
  /\ pc' = "level" /\ yp' = core.top /\ found' = FALSE
  /\ UNCHANGED <<core, ysp, steps, rc, now>>

(* The loop condition p < size fails: top = size, return 0.               *)
DrainDone ==
  /\ pc = "level" /\ yp >= core.size
  /\ core' = [core EXCEPT !.top = core.size]
  /\ pc' = "user" /\ rc' = "ok"
  /\ ResetLocals
  /\ UNCHANGED <<steps, now>>

(* found: a non-empty subqueue at level p sets top = p and returns.        *)
ScanFound ==
  /\ pc = "level" /\ yp < core.size /\ found
  /\ \E sp \in 0 .. core.subsize[yp] - 1 : core.queues[yp][sp] # <<>>
  /\ core' = [core EXCEPT !.top = yp]
  /\ pc' = "user" /\ rc' = "ok"
  /\ ResetLocals
  /\ UNCHANGED <<steps, now>>

(* found, level p empty: top = ++p.                                        *)
ScanEmpty ==
  /\ pc = "level" /\ yp < core.size /\ found
  /\ \A sp \in 0 .. core.subsize[yp] - 1 : core.queues[yp][sp] = <<>>
  /\ core' = [core EXCEPT !.top = yp + 1]
  /\ yp' = yp + 1
  /\ UNCHANGED <<pc, ysp, found, steps, rc, now>>

(* not found: drain the subqueues of level p, sp = 0 first.                *)
EnterLevel ==
  /\ pc = "level" /\ yp < core.size /\ ~found
  /\ pc' = "sub" /\ ysp' = 0
  /\ UNCHANGED <<core, yp, found, steps, rc, now>>

(* sp reaches the level's subqueue count: top = ++p.                       *)
NextLevel ==
  /\ pc = "sub" /\ ysp >= core.subsize[yp]
  /\ core' = [core EXCEPT !.top = yp + 1]
  /\ yp' = yp + 1 /\ pc' = "level"
  /\ UNCHANGED <<ysp, found, steps, rc, now>>

NextSub ==
  /\ pc = "sub" /\ ysp < core.subsize[yp]
  /\ core.queues[yp][ysp] = <<>>
  /\ ysp' = ysp + 1
  /\ UNCHANGED <<core, pc, yp, found, steps, rc, now>>

(* The first handle of the subqueue: unlink it, clear queued, defuse it,   *)
(* call its continuation; found = true.                                    *)
Dispatch ==
  /\ pc = "sub" /\ ysp < core.subsize[yp]
  /\ core.queues[yp][ysp] # <<>>
  /\ LET r == Head(core.queues[yp][ysp])
     IN  core' = react_defuse([core EXCEPT !.queues[yp][ysp] = Tail(@),
                                           !.queued[r] = FALSE], r)
  /\ pc' = "cont" /\ steps' = 0 /\ found' = TRUE
  /\ UNCHANGED <<yp, ysp, rc, now>>

(* The continuation returns to the loop over the same subqueue.            *)
ContReturn ==
  /\ pc = "cont"
  /\ pc' = "sub" /\ steps' = 0
  /\ UNCHANGED <<core, yp, ysp, found, rc, now>>

(* After react_closecore nothing more happens to the core.                 *)
Closed ==
  /\ pc = "closed"
  /\ UNCHANGED vars

Yield ==
  \/ YieldWouldBlock \/ YieldPoll \/ YieldSignal \/ YieldInterrupted
  \/ FireTimer \/ TimersDone \/ FireIdler \/ IdlersDone
  \/ DrainDone \/ ScanFound \/ ScanEmpty \/ EnterLevel
  \/ NextLevel \/ NextSub \/ Dispatch \/ ContReturn

Api ==
  \E r \in Handles :
    \/ Open(r) \/ Close(r) \/ Direct(r) \/ SetPrios(r)
    \/ PrimeIdle(r) \/ PrimeIdleDirect(r) \/ PrimeTime(r) \/ PrimeFd(r)
    \/ PrimeIntr(r) \/ Cancel(r) \/ Trigger(r) \/ PrimeConnect(r)

Next == Api \/ Yield \/ CloseCore \/ Closed

(* The main loops (testreact.c, echod.c) call react_yield again after     *)
(* every return; a blocking poll() returns once a descriptor is ready or   *)
(* the timeout passes; the loops of react_yield run to completion.  No     *)
(* fairness on signals: nothing makes one arrive.                          *)
Fairness ==
  /\ WF_vars(YieldPoll)
  /\ WF_vars(FireTimer) /\ WF_vars(TimersDone)
  /\ WF_vars(FireIdler) /\ WF_vars(IdlersDone)
  /\ WF_vars(DrainDone) /\ WF_vars(ScanFound) /\ WF_vars(ScanEmpty)
  /\ WF_vars(EnterLevel) /\ WF_vars(NextLevel) /\ WF_vars(NextSub)
  /\ WF_vars(Dispatch) /\ WF_vars(ContReturn)

Spec == Init /\ [][Next]_vars /\ Fairness

(***************************************************************************)
(* Properties.                                                             *)
(***************************************************************************)

Occurrences(r, s) == Cardinality({i \in DOMAIN s : s[i] = r})

(* Every variable has the type that the C declarations give it.            *)
TypeOK ==
  /\ core \in CoreType
  /\ pc \in PCs /\ rc \in RCs /\ now \in Times
  /\ yp \in 0 .. MaxPrios /\ ysp \in 0 .. MaxSubprios
  /\ found \in BOOLEAN /\ steps \in 0 .. MaxContSteps

(* r->queued agrees with the queues (react_queue, react_dequeue,           *)
(* react_setprios, react_direct and the drain loop): a queued handle is in *)
(* exactly one subqueue, the one of its current priorities, which          *)
(* ensure_queues has initialised, and it has a continuation for the drain  *)
(* loop to call; an unqueued handle is in none.                            *)
QueueIntegrity ==
  \A r \in Handles :
    /\ \A p \in Prios, sp \in Subprios :
         Occurrences(r, core.queues[p][sp]) =
           IF core.queued[r] /\ p = core.prio[r] /\ sp = core.subprio[r]
           THEN 1 ELSE 0
    /\ core.queued[r] =>
         /\ core.proc[r]
         /\ core.prio[r] < core.size
         /\ core.subprio[r] < core.subsize[core.prio[r]]

(* Each handle is registered in exactly the container its r->defuse        *)
(* removes it from (the idle list once, the timer heap, one poll slot, or  *)
(* sig_ev), so the defuse of every prime, cancel, trigger and close leaves *)
(* no stale entry; and a closed handle is not react_isactive.            *)
RegistrationIntegrity ==
  \A r \in Handles :
    /\ Occurrences(r, core.idlers) = IF core.defuse[r] = "idle" THEN 1 ELSE 0
    /\ r \in core.timed <=> core.defuse[r] = "timer"
    /\ Cardinality({f \in Fds : core.watch[f] = r}) =
         IF core.defuse[r] = "fd" THEN 1 ELSE 0
    /\ core.sig_ev = r <=> core.defuse[r] = "intr"
    /\ r \notin core.members => ~react_isactive(core, r)

(* react_yield calls continuations in priority order: when it dispatches  *)
(* from subqueue (p, sp), no handle is queued at a more urgent level, nor  *)
(* at an earlier subqueue of level p (top is a lower bound of the queued   *)
(* levels, maintained by react_queue, ensure_queues and the drain loop).   *)
DispatchInPriorityOrder ==
  [][Dispatch =>
       \A g \in Handles :
         core.queued[g] =>
           \/ core.prio[g] > yp
           \/ core.prio[g] = yp /\ core.subprio[g] >= ysp]_vars

(* Every call of react_yield returns: the timer, idle and drain loops end. *)
YieldReturns == pc \in {"timers", "idlers", "level", "sub", "cont"} ~> pc = "user"

(* A primed timer whose moment has come is eventually fired by the timer  *)
(* loop of react_yield, unless the user cancels or re-primes it first,     *)
(* given a main loop that keeps calling react_yield: detect_events must    *)
(* neither report would-block nor wait forever while a timer is in the     *)
(* heap.                                                                   *)
DueTimerFires ==
  \A r \in Handles, t \in Times :
    core.defuse[r] = "timer" /\ core.when[r] = t /\ t <= now
      ~> core.defuse[r] # "timer" \/ core.when[r] # t

(* react_yield fails with EAGAIN only when nothing is queued (spec.md      *)
(* section 4.2: would-block means nothing primed, queued or timed).        *)
NoSpuriousWouldBlock ==
  [][YieldWouldBlock => \A r \in Handles : ~core.queued[r]]_vars

====
