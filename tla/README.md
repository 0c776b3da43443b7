# TLA+ models of the `react` event reactor

This directory holds TLA+ models of the C event reactor in `src/src/obj`.
TLC checks them. Each module is written from the C source. The comments
name the function and the lines that each definition translates.
`PROJECT.json` lists the components, the runs, the mutants, the map from
definitions to source lines, the findings and the hazards.

## 1. Inventory

### Components and their state

| Component | Source | State it keeps | Operations |
|---|---|---|---|
| Event handle | `portable.c`, `common.h` (`struct react_reg`) | `proc` (continuation), `act` (detection callback), `defuse` (cancellation callback), `prio`/`subprio`, `queued`, `subev`, the condition payload | `react_open`, `react_close`, `react_direct`, `react_setprios`, `react_queue`, `react_dequeue`, `react_defuse`, `react_trigger`, `react_cancel`, `react_swapact`, `react_ensuresub` |
| Core and dispatch | `core.c`, `portable.c` (`ensure_queues`), `yield.c` (`detect_events`, `react_yield`) | `queues.{size,alloc,top,base}`, a matrix of FIFO lists; `members`; `idlers`; `timed` | `react_opencoref`, `react_closecore`, `react_yield` |
| Idle list | `idle.c` | `core->idlers` (FIFO list) | `react_prime_idle`, its `defuse` |
| Timer heap | `primetime.c`, `time.c` | `core->timed` (binary heap keyed by `when`) | `prime_systime` and the `react_prime_{stdtime,timeval,timespec,winfiletime}` wrappers; `defuse_time` |
| Time representation | `time.c`, `mytime.h`, `features.h` | none; `moment_type`/`delay_type` per backend | `react_systime_{cmp,diff,zero,now}` |
| Slot allocator | `array.c`, `array.h` | `sysbuf.{cap,size,lim,free}`, a circular free list in `ref_base[i].{next,prev}` | `react_arralloc`, `react_arrfree`, `react_arrensure` |
| Poll backend | `poll.c`, `yield.c:wait_on_poll` | `sysbuf` (the `struct pollfd` array), `pollrec` (events watched per fd) | `react_prime_polls`, `react_prime_poll`, `react_prime_fd`, `react_prime_fds`, `defuse_polls`, `on_polls`, `trim_array`, `wait_on_poll` |
| Select backend | `select.c`, `fdextract.c`, `yield.c:wait_on_select` | `fdsum` (three `fd_set`s, `nfds`, `count`), `fdmap` (fd × mode → handle) | `react_prime_fd`, `react_prime_fds`, `defuse_fd(s)`, `on_fds`, `copy_fd_sets`, `hunt_fd_events`, `hunt_bad_fds`, `react_findfd` |
| Windows backend | `winhandle.c`, `yield.c:wait_on_windows` | `sysbuf` of `HANDLE`s, `winhandle_hash` buckets, WSA usages, `msg_ev`, `apc_ev` | `react_prime_winhandle`, `react_prime_winsock`, `react_prime_winmsg`, `react_prime_winapc`, `wait_on_windows` |
| Interrupt handle | `signals.c` | `core->sig_ev`, `core->sigmask` | `react_prime_intr`, `defuse_intr`, `react_sigmask` |
| Proactor wrappers | `fd.c`, `socket.c`, `pipe.c`, `file.c` | `r->proact` (saved `act`, output pointers) | `react_prime_{read,write,readv,writev,splice_*}`, `react_prime_{recv,send,accept,connect,...}` |
| RISC OS backend | `riscos.c`, `modmain.c`, `yield.c:wait_on_riscos` | WIMP event tables, a bitmap trie of message handlers, pollwords | not modelled (see §5) |
| Bindings, demos, tests | `cpp*.cc`, `react/*.hh`, `echod.c`, `proxy.c`, `testreact.c`, `speed.c`, `debug.c` | none of their own | not modelled |

### How the components interact

A handle is opened in a core and directed at a continuation (`proc`).
Priming installs `act` and `defuse` and registers the handle in one
container: the idle list, the timer heap, or the backend's descriptor
tables. Each `react_prime_*` except `react_prime_idle` first calls
`react_cancel`.

One call of `react_yield` does four things in order:
1. `detect_events` computes the wait. The wait is zero if `top < size` or
   the idle list is non-empty. Otherwise it is the time to the first timer.
   With no timer it is infinite. The backend then blocks. It calls `act`
   for every ready descriptor. For poll and select, `act` only queues the
   handle.
2. It fires every due timer, in heap order.
3. It fires every idle handle. Here `act` is `react_trigger`, which queues
   the handle and defuses it.
4. It drains the highest non-empty major level starting at `top`. Each
   dequeued handle is defused and its continuation is called. The loop
   then only scans forward to set `top` for the next call.

Continuations run inside step 4. They can call any API function,
including `react_trigger` on other handles. The backends share the slot
allocator. Handles refer to slots by index, and the backend finds the
owner through `ref_base[i].user.ev`.

### What is hard

* Re-entrancy: continuations and proactor `act`s call back into the core
  while `react_yield` is part-way through a loop. The loop keeps `p`, `sp`,
  `found` and `core->queues.top` in locals and fields that the callbacks
  also change.
* The `top` cursor has to bound the non-empty levels from below. The wait
  is computed from it, and so is the `EAGAIN` ("nothing to do") result.
* Conditions are freed lazily. A poll handle that saw a fatal event keeps
  its slot, with `fd = -1`, until it is dispatched.
* The slot allocator's `lim` is a sloppy bound that several callers keep.
* Time: each backend uses its own units, with conversions, clamping and
  truncation.
* Windows waits in batches with zero-timeout re-polls. It uses a hash
  table for duplicate detection.

### Properties that make each component correct

* Handle/core: a handle is queued iff it is in exactly one subqueue, the
  one for its current priorities. A queued handle has a continuation. The
  idle list, the heap and the descriptor table each hold exactly the
  handles whose `defuse` is theirs. A closed handle is in no container.
  `react_yield` reports `EAGAIN` only when nothing is queued. A queued
  handle is not left below `top`. A due timer eventually fires.
* Slot allocator: the free list is a circular doubly-linked list of
  exactly the free slots. `size <= lim <= cap` holds, and every slot at or
  above `lim` is free. `alloc` returns a free slot. `ensure(n)` leaves
  `n` slots free.
* Poll backend: `pollrec` records exactly the events of live entries.
  Every live entry is below `lim`. The ready-count scan ends with `rc == 0`.
* Select backend: `react_findfd` returns the least set fd above `pos`.
  `fdmap` and `in_set` agree.
* Windows: the handle hash holds exactly the `HANDLE`s of primed handles.
* Time: the computed delay reaches the first deadline and does not
  overshoot it by more than the unit.

## 2. Plan

Modules, in the order they are built (the most important behaviour first):

1. `Reactor` (done in this sitting). The handle state machine and the core:
   queues, `top`, `ensure_queues`, idle list, timer heap, and an abstract
   descriptor condition with the poll backend's `act` (queue, stay primed).
   It also covers the four phases of `react_yield`, `react_closecore`, and
   `react_prime_connect` with its `on_connect`.
   `MCReactor` instantiates it for TLC.
2. `SlotArray` (done): `array.c` as operators on a `sysbuf` record, with
   the free-list and `lim` predicates.
3. `PollSet` (done): composes `SlotArray` with the poll backend (`poll.c`,
   `wait_on_poll`). It adds fatal events, `trim_array` and multi-entry
   handles. The `rc` count of the scan is left to `Proactor`, the only
   code that can upset it.
4. `FindFd` (done): `react_findfd` as a pure operator (both branches),
   inside the scan loop of `hunt_fd_events`.
5. `SysTime` (done): `react_systime_diff/cmp` for each format, against a
   reference delay. This includes the µs/ms mismatch of `TIMEFMT_TIMEVALPOLL`,
   the priming wrappers of `primetime.c`, and the clock reads of
   `react_systime_now`.
6. `WinHandles` (done): the `winhandle_hash` buckets,
   `react_prime_winhandle`, the WSA usages of `react_prime_winsock`,
   messages and APCs, the outcome of `wait_on_windows`, and the teardown
   of `react_closecore` with `react_cleanupwsausages`.
7. `Proactor` (done): `react_swapact` chains, the one-call wrappers of
   `fd.c` and `socket.c`, and both splice state machines, over `PollSet`,
   inside the scan of `wait_on_poll`.
8. `Select` (done): the select backend (`select.c`, `wait_on_select`)
   with every `fd_set` loop taken from `FindFd`.
9. An abstract `Dispatch` specification (FIFO per (prio, subprio), one
   level per call), with `Reactor` shown to refine it where the code
   allows.

## 3. The `Reactor` module

`Reactor.tla` models `struct react_corestr` and the fields of its handles
as a single record variable, `core`. Each C function that changes them is
an operator from a core to a core, with the same name as the function. A
C function that calls another is modelled by nesting the two operators:

* `react_cancel` is `react_dequeue(react_defuse(c, r), r)`.
* `react_trigger` is `react_defuse(react_queue(c, r), r)`.
* `prime_systime` starts from `react_cancel(c, r)`.

| State in C | In `core` |
|---|---|
| `core->members` | `members` |
| `r->proc != NULL`, `r->prio`, `r->subprio`, `r->queued` | `proc`, `prio`, `subprio`, `queued` |
| `r->defuse` (null, idle `defuse`, `defuse_time`, `defuse_polls`, `defuse_intr`) | `defuse` ∈ {none, idle, timer, fd, intr} |
| `r->data.systime.when` | `when` |
| `queues.base[p].base[sp]`, `queues.size`, `queues.base[p].size`, `queues.top` | `queues`, `size`, `subsize`, `top` |
| `core->idlers`, `core->timed` | `idlers` (sequence), `timed` (set; `bheap_peek` is any least moment) |
| poll slot and `pollrec` bits of a descriptor; `fd = -1` after a fatal event | `watch[f]`, `dead` |
| `core->sig_ev` | `sig_ev` |
| `r->act` of a slot's handle: `on_connect` swapped in by `react_prime_connect`, else `on_poll` | `f \in conn` (`CallAct` runs `on_connect` or `on_polls`) |

Each action is one API call or one step of `react_yield`. An API call is
made by the user between yields (`pc = "user"`), or by the continuation
that the drain loop is running (`pc = "cont"`, at most `MaxContSteps`
calls). The steps of `react_yield` are:

* `YieldWouldBlock`, `YieldPoll`, `YieldSignal`, `YieldInterrupted`: the
  outcomes of `detect_events` and `wait_on_poll`. The ready slots are
  handled in a nondeterministic slot order. A fatal event disables a slot.
* `FireTimer` and `TimersDone`: the timer loop.
* `FireIdler` and `IdlersDone`: the idle loop.
* `DrainDone`, `ScanFound`, `ScanEmpty`, `EnterLevel`, `NextLevel`,
  `NextSub`, `Dispatch`, `ContReturn`: the drain loop, with its `p`, `sp`
  and `found` as `yp`, `ysp` and `found`.

`CloseCore` is `react_closecore`. After it, nothing more happens.

`PrimeConnect` is `react_prime_connect` (`socket.c`) after the call to
`connect()`. Whether the connection completed at once or is in progress
is a nondeterministic input. A completed or failed connection goes to
`react_prime_idle`, which does not cancel first. One in progress is
`react_prime_fd` for output, and then `on_connect` is swapped in. When
`poll()` reports the slot, `on_connect` runs the saved act (`on_polls`)
and then `react_trigger`.

`react_prime_idle` is called directly (`PrimeIdleDirect`, and the
immediate path of `PrimeConnect`) only when `IdleDirectOk` holds. That
rules out a handle that holds a poll slot or `sig_ev`. Under such a
handle, the idle list shares `r` with the slot's stale `act`, and what
that act then does depends on the contents of `sysbuf`, which `Reactor`
abstracts. The timer case is kept, and `IdlePrimeOnlyWhenUnprimed`
decides it.

`react_isprimed` and `react_isactive` (`portable.c`) are predicates, used
in `RegistrationIntegrity`.

The model has three switches. Passing runs must leave out two known
misuses, which violation runs must show. The third keeps the violation
runs small:

* `ConnectCalls`: whether `react_prime_connect` is called. It is on in
  reactor_safety and reactor_live, and off in the two violation runs,
  whose traces do not need it.

* `ContinuationMayTrigger`: whether continuations may call
  `react_trigger`.
* `IdlePrimeOnlyWhenUnprimed`: whether `react_prime_idle` is only called
  directly on an unprimed handle.

### What is abstracted

* A continuation is only "set or not".
* A descriptor is a model value, watched by one handle in one mode.
* Moments are `0..MaxTime`.
* Allocation never fails (no `ENOMEM`).
* The slot allocator, `trim_array` and multi-descriptor handles are
  modelled in `PollSet` (§3b).
* Sub-events (`subev`) are used only by the proactor wrappers.
* The dead locals of `react_yield` are reset when it returns.

## 3b. The `SlotArray` and `PollSet` modules

`SlotArray.tla` has no variables. Its operators translate `array.c` line
by line on a record `[cap, size, lim, free, next, prev, base]`:

* `react_arralloc(s)` returns `[idx, buf]`.
* `react_arrfree(s, i)` returns the new record.
* `react_arrensure(s, n)` returns `[ok, buf]`. Its capacity loop is the
  recursive `GrowCap`.

A used slot has `next = prev = Limit`, which is `ARRAY_LIMIT`. The
predicates `FreeListOK` and `LimOK` state the comments of `common.h` on
`free` and `lim`.

`PollSet.tla` instances `SlotArray` with `Null <- -1`, because the
`ARRAY_NULL` of the poll backend is a `pollfd` with `fd = -1`. Its
variable `core` holds:

| State in C | In `core` |
|---|---|
| `core->sysbuf` (`base[i].fd`, `ref_base[i].{next,prev}`, `cap/size/lim/free`) | `buf` |
| `ref_base[i].user` (`ev`, `fd`, `origevs`, `next`) | `ref[i]` (`ev`, `fd`, `evs`, `next`) |
| `core->pollrec.base[fd]` | `pollrec[fd]` (a set of events) |
| `core->pollrec.size` | `recsize` |
| `r->data.polls.tabpos`, `r->defuse` | `tabpos[r]`, `defuse[r]` |
| `r->queued` | `r \in queued` |

Actions:

* `Prime(r, es)` is `react_prime_polls`, a cancel followed by the
  `check_monitor` loop, then `EINVAL`, `ensure_pollrecs`,
  `react_arrensure`, and the copy loop (`AllocEntry`, folded over the
  array in order). `check_monitor` finds no conflict for a descriptor at
  or beyond `recsize`, as the C code does. `ensure_pollrecs` grows
  `recsize` with the recursive `GrowPollrecs`: by `2 + nsize/2` while
  `maxfd >= nsize`, stopping at `INT_MAX + 1`. `INT_MAX` is scaled to the
  model as `IntMax = NFds - 1`, the largest descriptor. The records a
  growth adds are zero, and `pollrec` of a model descriptor beyond
  `recsize` is always empty, so only `recsize` changes.
* `PrimeNoMem(r, es)` is the same call when a `realloc` fails, under the
  constant `AllocFails`. Either the `realloc` of `ensure_pollrecs` fails,
  or, after `pollrec` has grown, one of the two in `react_arrensure`. It
  is taken only when the code makes that `realloc`. `react_arrensure`
  keeps whichever new block it did get and changes no size and no link,
  so the call returns `ENOMEM` with the handle cancelled. `Proactor`
  instances `PollSet` with `AllocFails <- FALSE`.
* `Cancel(r)` is `react_cancel`.
* `Poll` is a `poll()` that reports some watched slots below `lim`, some
  of them with fatal events; `on_polls` runs for each of them.
* `Dispatch(r)` is the drain loop taking a queued handle: it dequeues the
  handle, then calls `react_defuse`, that is `defuse_polls` and
  `trim_array`.

Failed C assertions are added to `core.fault`, and the model goes on, as
a build with `NDEBUG` would.

The cfgs use a `VIEW` that hides what the code never reads again: the
`ref` of a free slot, and the `tabpos` of a handle that is not primed.

## 3c. The `FindFd` module

`FindFd.tla` treats an `fd_set` as the set of its members. Word `i` of
`fds_bits` holds the descriptors `i*NFDBITS .. i*NFDBITS+NFDBITS-1`.

* `Portable` is the `while (++*pos < nfds)` loop.
* `Fast` and `FastLoop` are the glibc branch: the start word, the
  `mask <<= *pos % NFDBITS`, `ffsl` as `FirstBit`, and the `r >= nfds`
  exit.

The state machine is the caller's loop,
`for (fd = -1; react_findfd(set, nfds, &fd); ) notify`. The
initial states range over every set and every `nfds`. `NFDBITS = 2`
stands for 64: the start word and the mask depend only on `pos` modulo
the width. `Select` instantiates it for every loop over an `fd_set`.
Its check (kept as a setting of the constants, §4) compares the glibc branch with what the scan
loop must do (notify every set descriptor below `nfds`).

## 3d. The `SysTime` module

`SysTime.tla` models the time formats of `time.c`. A moment is a record
`[sec, sub]`, where `sub` is in the format's sub-second unit: ns for
`struct timespec`, µs for `struct timeval`, and 100 ns for `FILETIME`
(whose `QuadPart` is `sec * 10^7 + sub`).

* `react_systime_cmp` compares pairs field by field, and `FILETIME` by
  `QuadPart`.
* `react_systime_diff` comes in three forms:
  * `diff_pair`, for the struct formats: subtract, borrow a second, and
    treat a negative result as overdue;
  * `diff_timevalpoll`: `(a.sec - b.sec) * 1000000 + (a.usec - b.usec)`,
    capped at `INT_MAX`;
  * `diff_windows`: the 100 ns difference divided by 10000, capped at
    `~(DWORD) 0`.
* `react_prime_stdtime`, `react_prime_timeval`, `react_prime_timespec`
  and `react_prime_winfiletime` (`primetime.c`) convert the caller's
  `time_t`, `struct timeval`, `struct timespec` or `FILETIME` to the
  build's moment. Each call goes directly to `prime_systime`, or
  through another wrapper. For example, a timespec in a timeval build
  becomes `tv_usec = tv_nsec / 1000`, and a timeval on Windows becomes
  `(11644473600 + tv_sec) * 10^7 + tv_usec * 10`. The constant
  `Epoch1601` stands for 11644473600, the seconds from 1601 to 1970.
  On Windows, `react_prime_stdtime` multiplies with `Int32x32To64`,
  which first casts the `time_t` to a 32-bit `LONG`. `ToLong` models
  that cast, with `LONG`'s largest value as the constant `LongMax`
  (2^31 - 1 in the run).
* `react_systime_now` reads the clock the build uses (`Clocks`):
  `timespec_get`, `clock_gettime` or `gettimeofday` for the timespec
  format, `gettimeofday` for the timeval formats, and
  `GetSystemTimeAsFileTime` on Windows. The `gettimeofday` fallback of a
  timespec build scales `tv_usec` by 1000, which truncates the moment to
  whole microseconds. `timespec_get` returns `TIME_UTC` (1) on success
  and 0 on failure, while the other clocks return 0 and -1.
* The state machine has three steps:
  * `PrimeTimer`, a wrapper storing the first timer's moment;
  * `ReadClock`, the `react_systime_now` call of `detect_events`, which
    stops (`pc = "failed"`) when the result is negative
    (`yield.c:829`). The true time is the constant-per-behaviour `real`.
    When `ClockFails` is set, each clock but Windows' may fail.
  * `ComputeTimeout`, the step of `detect_events` that turns the first
    timer's moment into the delay of the system call. `WaitLength`,
  `WaitInfinite` and `Granule` model what the call makes of that delay:
  * `poll()` reads an int as milliseconds;
  * the Windows wait functions read a DWORD as milliseconds, and
    `0xFFFFFFFF` as `INFINITE`.

TLC's integers have 32 bits. So `INT_MAX` and `~(DWORD) 0` are model
constants, small enough that moments one second apart reach their caps.

## 3e. The `WinHandles` module

`WinHandles.tla` models the Windows backend (`winhandle.c`) and the
outcome of `wait_on_windows` (`yield.c`), over `SlotArray`. The core is
one record, as in `PollSet`.

| State in C | In `core` |
|---|---|
| `sysbuf.base[i]` (the `HANDLE` array), `ref_base[i].user.ev` | `buf` (a `SlotArray` buffer, `Null` = `unused_handle`), `ev[i]` |
| `winhandle_hash[19]` | `bucket[b]` (a sequence), `Hash[h]` the bucket of `h` |
| `r->defuse` (`defuse_handle`, `defuse_socket`, `defuse_winmsg`, `defuse_winapc`) | `defuse[r]` ∈ {none, handle, socket, msg, apc} |
| `r->data.winhandle.{tabpos,hdl}` | `tabpos[r]`, `hdl[r]` |
| `r->data.winsock.{usage,mode}` | `usage[r]`, `mode[r]` |
| `struct wsausage` of socket `s` (`mode`, `busyMode`, `users`, `inuse`; `href`, `wsae`) | `ws[s]` (`mode`, `busy`, `users`, `inuse`, `exists`); `HRef[s]`, `WsaHdl[s]` constants |
| `core->msg_ev`, `core->apc_ev`, `r->queued` | `msg_ev`, `apc_ev`, `queued` |

The handles are the application's user handles and the internal handle
`href` of each socket's usage. An `href` has no procedure, so
`react_queue` never queues it. Its `act` is swapped for `on_winsock`,
so its slot stays allocated while the usage lives. Each operator is one C
function: `check_and_add_unique_handle`, `remove_handle` (with the copy
of line 140 as written), `trim_array`, `defuse_handle`, `on_handle`,
`prime_winhandle`, `cleanup_wsausage`, `defuse_socket`, `react_defuse`,
`react_cancel`, `prime_wsausage`, `make_wsausage` (with
`ensure_wsausage`), `react_prime_winsock`, `on_winsock`, `prime_winmsg`
and `prime_winapc`. The actions are:

* the API calls: `PrimeHandle`, `PrimeSocket` (with any set of events,
  the empty one included), `PrimeMsg`, `PrimeApc` and `Cancel`;
* `PrimeSockIO`, a `socket.c` wrapper such as `react_prime_recv` on
  Windows: `react_prime_sock` primes the socket for `react_MIN`
  (`FD_READ|FD_ACCEPT|FD_CLOSE`, the model's `read`, `SockInEvs`) and
  `react_swapact` puts in an act that makes the call and ends in
  `react_trigger`. `act[r]` records which act a user has (`queue` for
  `react_prime_winsock` called directly, `io` for a wrapper), and
  `on_winsock` runs it for each user it reports (`UserAct`);
* one `Wait`;
* `Dispatch`, the drain loop's dequeue and `react_defuse`;
* `CloseCore`, which is `react_closecore`.

`CloseCore` cancels the members (`Members`: the users and the `href` of
each existing usage) in any order, since the members list is in the
order of opening. It skips an `href` that an earlier user's cancel has
already closed: `react_close` unlinks it, so `dllist_next` never reaches
it. `CloseCore` then calls `react_cleanupwsausages`, which adds
`cleanup_usage_left` to `fault` if a usage is still in use or has users.
After `CloseCore`, nothing more happens (`Closed`).

`Wait` is one return of `wait_on_windows` with `JUSTFINE`. It chooses the
set `F` of slots found signalled, and whether the message and the APC
were seen (only if they were watched, i.e. not queued). The batching
loop's zero-timeout re-polls can find any subset of the signalled slots,
so every subset is allowed. The message and APC acts run first, then the
act of each slot in `F` in index order, each reading the slot's handle
when it gets there. The wait fails (`PROBLEM`, nothing fires) when a
`HANDLE` is in two slots. That case is excluded from `Wait` and checked
by `NoDuplicateWait`.

The network is abstracted as follows. A `WSAEVENT` can be signalled only
while its usage still waits for events (`mode` non-empty). What
`WSAEnumNetworkEvents` reports is then a non-empty subset of `mode`,
which is what `on_winsock` asserts. User `HANDLE`s can be signalled at any
time. The abandoned and failed statuses only change what is written to
the user's status word, so they are not modelled.

The constant `WsaFails` is the fault model. When it is `TRUE`,
`PrimeSocket` chooses whether `make_wsausage` succeeds (`made`) and
whether `WSAEventSelect` succeeds in `prime_wsausage` (`sel`).
`make_wsausage` can fail in `malloc`, `WSACreateEvent` or `react_open`
(`MadeOutcomes`). A failed `WSACreateEvent` or `react_open` jumps to the
failure label, which undoes the earlier steps, so the core is as the
cancel left it and `react_prime_winsock` returns `ENOMEM`. A failed
`malloc` jumps to the same label with `ws` null, and `assert(ws)`
(`winhandle.c:496`) aborts the program (`NotMade`).
When `WSAEventSelect` fails, `prime_wsausage` returns `EINVAL`, and
`react_prime_winsock` cancels the handle it has just linked into the
usage. The other calls of `WSAEventSelect`, in `on_winsock`'s re-prime
and in `cleanup_wsausage`, are wrapped in `assert(rc == 0)` by the code,
so the model takes them to succeed.

`NDEBUG` is defined nowhere in the repository, so a failed C assertion
(in `make_wsausage` or `cleanup_wsausage`) aborts the program. `Step`
records it in `core.fault`, `Running` (no fault) guards every action, and
an aborted program only stutters (`Aborted`), as a closed core does.
`AssertionsHold` states that no assertion fails; no run checks it,
because it fails (see the settings in §4).

## 3f. The `Proactor` module

`Proactor.tla` instances `PollSet` (with its `SlotArray`) and adds the
proactor's part of each handle and of the scan. `core` extends
PollSet's record with:

| State in C | In `core` |
|---|---|
| `r->act` and the saved `r->data.polls.act` / `r->proact.act` chain | `act[r]`: which chain runs (`polls`, `fd`, `io`, `splicewrite`, `spliceread`, `dual`, `fds`) |
| `r->proact.sub.splice.fd_in`, `fd_out` | `fin[r]`, `fout[r]` |
| `r->proact.sub.splice.polls[0..1].revents` | `urev[r][1..2]` |
| the `revents` of `react_prime_fds`'s array (in `react_ensuremem`) | `urev[r][1..2]` |
| `r->data.polls.proact.fds.out[]`, and the descriptors of the array | `fdsres[r]`, `fdsnull[r]` (the modes passed `NULL`), `fdsent[r]` |
| `core->sysbuf.base[i].revents` | `rev[i]` |

The history variable `pending` holds the handles with a request primed
and not yet delivered.

Actions:

* `PrimeFd` is `react_prime_fd`. It calls `react_prime_poll`, which
  cancels, primes the singleton through `react_prime_polls`, and swaps
  `on_poll` in (`SwapActIfOk` is `react_swapact` after a zero return).
* `PrimeIO(r, w, f)` is a wrapper `w` of `fd.c` or `socket.c`. It primes
  on the readiness the code asks for (the tables `FdArm`, `RecvArm`,
  `SendArm`, `RecvmsgAcceptArm`), then swaps the wrapper's act in.
* The wrappers that only wait for readiness (`react_prime_file*`,
  `pipe*`, `sock*`, `fdin`, `fdout`, `stdin`) are `react_prime_fd` on the
  mode in the table `FdPrimers`, so `PrimeFd` covers them.
* `PrimeSplice` is `react_prime_splice_writefirst` or
  `react_prime_splice_dual`.
* `PrimeFds(r, p)` is the poll backend's `react_prime_fds`. It builds
  one entry per descriptor in any set, in ascending order, with
  `IN_EVENTS` and/or `OUT_EVENTS` (`FdsEntries`). It primes them through
  `react_prime_polls`, then swaps `on_fds` in and zeroes the caller's
  sets. `on_fds` runs `on_polls` first. If the slot is still enabled,
  it sets the descriptor in each non-`NULL` set whose events were
  reported.
* `Cancel(r)` is `react_cancel`.
* `Dispatch(r)` is the drain loop taking r.
* `Poll` is a `ppoll()` that reports, for each watched slot below `lim`,
  the requested events its descriptor has, then the whole scan
  (`wait_on_poll_scan`). The scan is a fold over the slot indices with
  the code's condition `i < lim && rc > 0`, where `lim` is re-read. It
  calls `Act` for each slot with revents, and then checks
  `assert(rc == 0)`.

The acts are `on_polls` (OR the events into the user's entry, disable the
slot on a fatal event, queue), `on_io` (the saved act, then
`react_trigger`), `on_splicewrite` (re-prime on `fd_in` for input; on
failure it returns with no trigger) and `on_splicedualready` (`DualReady`:
end the request on a hangup or error, splice when both sides are
recorded, otherwise re-prime the missing side alone with
`react_prime_polls` on one entry of `splice.polls`) and `on_fds`. The result of the
system call is data and is left out.

Readiness is chosen at each `Poll` and not kept (`Readiness`: for each
descriptor, any of the events some slot asks for, plus any of the fatal
events `poll()` reports unasked): it is what the kernel reports, and nothing in the code remembers it except the revents. The
`VIEW` keeps only whether the revents at or above `lim` are empty. The
scan reads them only after an act has allocated there, and
`FreshRevents` records that case before the act runs.

## 3g. The `Select` module

`Select.tla` models the select backend: `select.c` and the
`wait_on_select` path of `yield.c`. The build uses it with
`DISABLE_POLL`, or where there is no `poll()`. The state is one record,
`core`:

* `in_set`, `count` and `nfds` are `fdsum`. `count` is a `size_t`,
  kept modulo `SizeMod`.
* `fdmap` and `mapsize` are `fdmap`. `mapsize` grows as the loop of
  `ensure_fd_index` grows it.
* `defuse`, `act`, `dfd`/`dmode`, `fdsin` and `lim` are each handle's
  `r->defuse`, `r->act`, `data.fd` and `data.fds`.
* `queued` is the set of queued handles.
* `fault` holds the `assert`s that failed. `NDEBUG` is never defined,
  so a failed `assert` aborts the program. A step whose `assert` fails
  records it in `fault` (`Step`), and no step follows (`Running`).

Every loop `for (fd = -1; react_findfd(set, nfds, &fd); )` is `ForEachFd`.
It folds over the descriptors that `FindFd`'s `react_findfd` yields, so
`FastPath` selects the branch of `react_findfd` that the loops use.

The actions and what they model:

* `PrimeFd` and `PrimeFds` are `react_prime_fd` and `react_prime_fds`,
  each starting with its `react_cancel`. In `react_prime_fds`, the
  `FD_ZERO(out[m])` of line 259 zeroes the caller's set `p[m]`, so the
  loop after it reads an empty set (`MergeSets`).
* `Cancel` is `react_cancel`. `Dispatch` is the drain loop of
  `react_yield`: dequeue, then `react_defuse`.
* `Wait` is `wait_on_select` when `select()` reports ready descriptors:
  `copy_fd_sets`, then `hunt_fd_events`.
* `WaitBadFd` is the `EBADF` path: `hunt_bad_fds` on a set of closed
  descriptors.

There is no timer and no signal handle, so `count == 0` means
`WOULDBLOCK`, and the model takes no step. The caller sets hold at most
one descriptor per mode, and `nfds` is `FD_SETSIZE`.

## 4. Runs

| Run | cfg | Expect | Properties | Bounds |
|---|---|---|---|---|
| reactor_safety | `MCReactor.cfg` | pass | `TypeOK`, `RegistrationIntegrity`, `QueueIntegrity`, `DispatchInPriorityOrder` | 2 handles, 1 descriptor, 2×2 levels, time 0 (a primed timer is due at the next `react_yield`) |
| reactor_live | `MCReactorLive.cfg` | pass | `YieldReturns`, `DueTimerFires` | 2 handles, 1 descriptor, 1×1 level, time 0..1, `react_prime_connect` |
| reactor_stranded | `MCReactorStranded.cfg` | violation | `NoSpuriousWouldBlock` | no descriptor, 2×2 levels, time 0, continuations may trigger |
| reactor_idle_on_timer | `MCReactorIdleOnTimer.cfg` | violation | `YieldReturns` | as reactor_live, `react_prime_idle` on any non-idle handle |
| pollset_bookkeeping | `MCPollSet.cfg` | pass | `TypeOK`, `FreeListWellFormed`, `LiveBelowLim`, `ChainIntegrity`, `MonitorExclusive`, `PollrecCovers`, `EnsurePollrecsPost` | 2 handles, fds 0..1, events in/out, arrays of 1..2 entries, `ARRAY_LIMIT` 4, fatal events, failing `realloc`; `ensure_pollrecs` alone for every `INT_MAX` up to 3 |
| select_fds_count | `SelectFdsCount.cfg` | violation | `AssertionsHold` | 2 handles (symmetric), `FD_SETSIZE` 2, modes in/out, portable `react_findfd` |
| winhandles_bookkeeping | `WinHandles.cfg` | pass | `TypeOK`, `BucketsExact`, `NoDuplicateWait`, `HandleRegistration`, `UsageIntegrity`, `ClosedReleasesAll` | 3 user handles, 2 `HANDLE`s, 1 socket with events read/write, `ARRAY_LIMIT` 2, each `HANDLE` in its own bucket, direct and wrapper (`PrimeSockIO`) socket users, making a usage and `WSAEventSelect` may fail (`WsaFails`) |
| winhandles_bucket_collision | `WinHandlesCollision.cfg` | violation | `NoDuplicateWait` | as above, all `HANDLE`s in one bucket |
| systime_reference | `SysTime.cfg` | pass | `TypeOK`, `CmpMatchesReference`, `TimeoutMatchesTimer`, `PrimeMatchesRequest` | every clock of each build, clocks that do not fail, timespec and timeval builds, requests through `stdtime`, `timeval` and `timespec`, seconds 0..1, sub-second parts at both ends and at ms boundaries |
| proactor_safety | `Proactor.cfg` | pass | `TypeOK`, `ChainIntegrity`, `MonitorExclusive`, `FreshRevents` | 2 handles, fds 0..1, `ARRAY_LIMIT` 4, `react_prime_fd`, all twelve one-call wrappers, `splice_dual`, no fatal events |
| proactor_fds | `ProactorFds.cfg` | pass | `FdsReportsRequested` | 2 handles, fds 0..1, `ARRAY_LIMIT` 3, `react_prime_fds` only, each set NULL or at most one descriptor, hangups |
| proactor_dual_rc | `ProactorDualRc.cfg` | violation | `ScanCountHolds` | 2 handles, fds 0..1, `splice_dual` only |

Further checks are kept as settings of the constants, not as runs:

* `MCPollSetFatalLim.cfg`, with `LimAssertionsHold`: `trim_array`
  (`poll.c:158`) tests `fd < 0`, which is also true of a slot that a
  fatal event disabled but that is still allocated. Take h1 on slot 0
  and h2 on slot 1, with a hangup on slot 1. When h1 re-primes, `lim`
  drops to 1, and the allocation of slot 0 fails `assert(size <= lim)`
  (`array.c:98`). With `NDEBUG` the disabled slot is harmless, since
  `poll()` ignores it. This is a hazard in `PROJECT.json`.
* `ProactorFds.cfg` with `FdsWakeReports` (a woken `react_prime_fds`
  handle reports at least one descriptor). It fails in two steps: h1 primes `react_prime_fds` on fd 0, and `poll()`
  reports `POLLHUP`. `on_fds` (`poll.c:348`) first calls the saved act,
  `on_polls`, which sets the slot's fd to -1. `on_fds` then reads
  `fd < 0` and returns before it sets any bit. h1 is woken with both
  result sets empty, so its caller is never told which descriptor hung
  up. Even past that return, `IN_EVENTS` is `POLLIN` alone, so a
  descriptor watched only for input would not be reported.

* `FindFdFast.cfg` (`FastPath = TRUE`, `FdSetSize = 6`, `NFDBITS = 2`):
  `ScanNotifiesAll` fails in two steps. The glibc branch of
  `react_findfd` (`fdextract.c:41`) starts at the word after the one
  that holds `pos`, so with descriptors 0 and 1 both set, the scan
  notifies only 0. With the select backend on glibc (`DISABLE_POLL`
  with `_GNU_SOURCE`), `hunt_fd_events`, `hunt_bad_fds` and
  `defuse_fds` skip descriptors. This is a hazard in `PROJECT.json`.

* `RepeatedFds = TRUE` in `MCPollSet.cfg`, with `MonitorAssertionHolds`:
  an array that names one descriptor and event twice passes
  `check_monitor` and fails the assertion of `add_monitor`
  (`poll.c:121`).
* `SysTimeClockFails.cfg` (`ClockFails = TRUE`), with `ClockReadsReal`
  (`detect_events` computes only from a clock read that succeeded;
  `systime_reference`, where clocks do not fail, no longer checks it).
  It fails in three steps. When `timespec_get` fails, it returns 0, and
  `react_systime_now` passes that on (`time.c:151`). `detect_events`
  tests `< 0` (`yield.c:829`), so it goes on with the moment
  uninitialised, and any delay can follow. This is a hazard in
  `PROJECT.json`.
* `Formats = {"windows"}` in `SysTime.cfg`, with `TimeoutMatchesTimer`:
  a timer further away than the `~(DWORD) 0` cap gets the delay
  `0xFFFFFFFF` (`time.c:81`), which the wait functions read as
  `INFINITE`.
* `Formats = {"windows"}` and `LongMax = 0` in `SysTime.cfg`, with
  `PrimeMatchesRequest`: it fails in one step. With `LONG` scaled down
  to {-1, 0}, a `time_t` of 1 becomes -1, and the timer is primed for a
  moment in 1601, so it is due at once (`primetime.c:54`). In C, any
  time after January 2038 is truncated in this way.
* `Formats = {"timevalpoll"}` in `SysTime.cfg`, with
  `TimeoutMatchesTimer`: the delay handed to `poll()` is in microseconds
  (`time.c:251`), which `poll()` reads as milliseconds. A timer 1 ms
  away makes `poll()` wait one second.
* `Ops = {"read", "splice_writefirst"}` in `Proactor.cfg`, with
  `RequestHeld` (a request primed and not yet delivered stays
  registered or queued; `proactor_safety` leaves `splice_writefirst`
  out of `Ops` and does not check it): h1 reads fd 0, h2 splices fd 0 to fd 1 writing first,
  and fd 1 becomes writable. `on_splicewrite` cannot re-prime on fd 0
  (`EEVENTINUSE`), stores -2 and returns without `react_trigger`
  (`fd.c:182-187`). h2 is left neither primed nor queued, and its caller
  is never told.
* `Ops = {"splice_dual"}` and `FatalEvs = {"hup"}` in `Proactor.cfg`,
  with `WriteOkayHolds`: a hangup on `fd_out` alone wakes the dual
  splice without `POLLOUT`, and `assert(write_okay)` (`fd.c:296`)
  aborts.
* `WinHandles.cfg` with `AssertionsHold`: it fails in two steps. h1
  reads s1 through a wrapper (`PrimeSockIO`, the only user), and s1
  becomes readable. `on_winsock` sets `inuse` and runs h1's act, whose
  `react_trigger` defuses h1; `defuse_socket` empties `mode`, and
  `cleanup_wsausage` fails `assert(ws->mode != 0)` (`winhandle.c:300`)
  with `inuse` set. So on Windows, reading a socket through any
  `socket.c` wrapper aborts the program on the first event when no other
  handle waits on that socket. Re-priming the only user on the same
  socket fails the same assertion. This is a hazard in `PROJECT.json`.

### Why these bounds are enough

Two handles cover every interaction between two handles:

* one is dispatched while the other is queued;
* one is primed on the descriptor that the other watches;
* one holds `sig_ev`.

Two major levels with two subqueues give a queued handle a more urgent
level and an earlier subqueue to be stranded in. One descriptor covers
`EEVENTINUSE` and fatal events. In reactor_live, moments `0..1`
separate a due timer from one that is not yet due. reactor_safety keeps
time at 0, so a primed timer is due at the next `react_yield`. Priming,
cancelling and closing a handle in the heap still happen there, and
they are what registration depends on.

In `PollSet`, two handles with arrays of up to two entries allocate up
to four slots. That is the whole buffer at `ARRAY_LIMIT = 4`:

* `react_arrensure` grows from 0 to 3, then to 4.
* It grows with no free slot and with free slots.
* Freeing happens both in a full buffer and in a partly used one.

Two descriptors and two events allow two handles to share a descriptor
with disjoint events, which is where a fatal slot sits next to a live
one.

In `WinHandles`, three user handles and `ARRAY_LIMIT = 2` let the array
fill up: two user `HANDLE`s take both slots, and a third handle priming
on the socket makes `prime_wsausage` fail with `ECOREBUSY`. That is the
error path of `react_prime_winsock` that cancels what it has just added.
Two `HANDLE`s are enough for a collision in a bucket. With three handles,
two users can share the socket with disjoint events while the third is
primed elsewhere. Two network events give disjoint modes, a partial
report, and a report of both at once.

In `Proactor`, two handles over two descriptors let one handle wait for
input on a descriptor while the other splices from it, so a re-prime in
an act meets `EEVENTINUSE`. A dual splice takes two slots, and the other
handle one or two, so acts allocate and free slots during the scan, up
to the whole buffer of `ARRAY_LIMIT = 4`. Fatal events are left out of
proactor_safety because they multiply its state space about elevenfold;
PollSet checks them with the same slot operators.
In proactor_fds, each caller set of `react_prime_fds` is `NULL`, empty,
or one descriptor. With two descriptors that still gives arrays of one
and two entries, a descriptor in both sets, and `NULL` beside a non-`NULL`
set. Larger sets only add entries the same loops handle. The run keeps
`react_prime_fds` on its own: mixed with the other wrappers, the state
space passes ten minutes of TLC time.

In `Select`, one handle priming with `react_prime_fds` and then
cancelling is enough to reach the defect. Two handles (symmetric) let
the asserts meet another handle's registrations.

Symmetry over the handles is used only in the safety runs.

### Fairness

The main loops in `testreact.c` and `echod.c` call `react_yield` again
after every return. So `YieldPoll` is weakly fair: a `poll()` with slots
or a timer returns. The steps of the timer, idle and drain loops are also
weakly fair, because the code runs them to completion without blocking.
There is no fairness on signals (`YieldSignal`) or on API calls.
In `PollSet` and `Proactor`, `Dispatch(r)` is weakly fair for the same
reason. The drain
loop of every `react_yield` empties the queue (`YieldReturns` in
`Reactor`).

### What the runs show

* **reactor_safety.** Every prime, cancel, trigger, close, detection
  (including fatal events and signals) and `react_closecore` leaves each
  handle registered exactly where its `defuse` removes it. Closed handles
  are referenced by nothing. `queued` agrees with the subqueues.
  `react_yield` calls continuations in (major, minor, FIFO) order,
  provided that continuations do not trigger.
* **reactor_live.** Every `react_yield` returns. Every due timer fires,
  unless it is re-primed or cancelled first.
* **reactor_stranded.** This is a finding. A continuation triggers a
  handle of a more urgent level, or of a subqueue of the current level
  that has already been passed. `react_queue` lowers `top`, but the loop
  then overwrites it with `++p` (`yield.c:896`). `react_yield` ends with
  `top == size` while that handle is still queued, and the next call
  fails with `EAGAIN`. A caller that stops on `EAGAIN`, as the demo
  loops do, then never runs that handle. This contradicts spec.md §4.2.
* **reactor_idle_on_timer.** This is a finding. `react_prime_idle`
  (`idle.c:34`) does not cancel first. On a timer-primed handle, the
  heap entry survives with the idle `defuse`. Once the handle is closed,
  the timer loop calls `react_trigger` on it forever (in C, on freed
  memory).

* **pollset_bookkeeping.** The free list stays closed and exact. Every
  slot that `poll()` must see lies below `lim`. Each handle's chain holds
  exactly its slots. `pollrec` is the union of the events of the
  allocated slots, and two handles never wait for the same event of a
  descriptor. `pollrec`, grown by `ensure_pollrecs`, covers every
  descriptor a slot watches, so `check_monitor` never skips a descriptor
  that is in use (`PollrecCovers`). `EnsurePollrecsPost` checks the
  growth loop alone, for every `INT_MAX` from 1 to 3, every starting size
  up to `INT_MAX + 1` and every `maxfd` up to `INT_MAX`. The loop ends
  with a size above `maxfd` (its closing assertion) and never above
  `INT_MAX + 1`. It leaves alone a size that already covers `maxfd`. In
  the model run itself `INT_MAX` is 1, so the overflow cap is reached
  only in this separate check.
* **select_fds_count.** This is a finding. `react_prime_fds` copies
  each caller set into `data.fds.in[m]`, then sets `out[m] = p[m]` and
  does `FD_ZERO(out[m])` (`select.c:259`). That empties the caller's set
  before the loop that registers its members reads it. Nothing is
  watched, `count` stays 0, and the handle never fires. The trace has
  two steps:
  1. h1 calls `react_prime_fds` with fd 0 in its input set.
  2. h1 is cancelled, or re-primed, which cancels first.

  `defuse_fds` walks the copy, finds fd 0, and
  `assert(core->fdsum.count > 0)` (`select.c:186`) fails, so the program
  aborts. `AssertionsHold` says that no `assert` of the backend fails.
  Without the abort, `count` would wrap to `SIZE_MAX`; with it, the first
  cancel of such a handle ends the program. The same defuse after an
  `on_fds` would decrement `count` a second time (`select.c:186`).
  Because the registration is empty, the model cannot reach that case.

* **systime_reference.** A timer primed through any wrapper is due no
  later than the instant the caller asked for, and less than one unit of
  the build's moments before it. The `windows` and
  `timevalpoll` formats were also checked for this property alone, and
  pass it. For `struct timespec` and `struct timeval`,
  `react_systime_cmp` orders moments as time does. The delay that
  `detect_events` passes to `ppoll`, `pselect` or `select` is exactly
  the time to the first timer, and zero for an overdue one.

* **proactor_safety.** The acts that re-prime and trigger inside the
  scan of `wait_on_poll` keep PollSet's bookkeeping. Each handle's chain
  holds exactly its slots, and no two handles wait for one event. No act reads revents that `poll()` wrote for another entry:
  `react_arrfree` makes the lowest freed slot the next one allocated, so
  a slot allocated during the scan lies below a slot being scanned.
* **proactor_fds.** When `on_fds` has woken a handle of the poll
  backend's `react_prime_fds`, every descriptor in its result sets was
  asked for in that mode and reported by `poll()` in a slot of that
  handle with an event of that mode (`FdsReportsRequested`): no
  descriptor is reported in the wrong set or from another handle's
  slot. This holds across re-primes, cancels, `EEVENTINUSE` conflicts
  between the two handles, slots reused between polls, and hangups.
  `ARRAY_LIMIT` 3 lets one handle hold two slots while the other holds
  one, so slots are reused across handles. The converse, that a woken handle reports a descriptor at
  all, fails on a hangup (see the settings above).
* **proactor_dual_rc.** This is a finding. When `poll()` reports both
  slots of a dual splice, `on_polls` runs the act for the first slot with
  only that slot's `revents` recorded (`poll.c:195-199`). The act sees
  input ready and output not, and re-primes for output alone
  (`fd.c:278`). That re-prime cancels first, so `defuse_polls` frees both
  slots; the new output slot takes slot 0 back and `trim_array` lowers
  `lim` to 1. The scan stops before slot 1, `rc` ends at 1, and
  `assert(rc == 0)` (`yield.c:128`) aborts the process. Assertions are on in the default build, and on Linux the
  default backend is `ppoll`.

* **winhandles_bookkeeping.** With every `HANDLE` in its own bucket, each
  bucket holds exactly the `HANDLE`s primed on, once each. Each used slot
  holds the `HANDLE` of the handle whose `tabpos` names it, below `lim`,
  and no `HANDLE` is watched twice. A handle that fired is queued. Each
  socket's usage exists exactly while its `href` is primed on its
  `WSAEVENT`. Its users are the handles primed on the socket, and
  `busyMode` is the disjoint union of their events. Its `mode` holds the
  events not yet reported, and a user whose events were reported is
  queued. All of this holds through re-priming on the same socket, failed
  primes, and the acts of a wait. `react_closecore`, cancelling the members
  in any order, leaves no slot, bucket entry, usage, message or APC
  handle, primed handle or queued handle behind. `react_cleanupwsausages`
  never finds a usage still held. All of this also holds when making a
  usage or `WSAEventSelect` fails during `react_prime_winsock`, and with
  users that read the socket through a wrapper, in every state before
  a failed assertion ends the program.
* **winhandles_bucket_collision.** This is a finding. `remove_handle`
  (`winhandle.c:140`) writes `base[--size] = base[i]`, but its comment
  says the last handle overwrites the removed one. Prime r1 on h1 and r2
  on h2 (same bucket), then re-prime r1 on h2. The cancel of r1 leaves
  the bucket as `[h1]`, so h2 passes `check_and_add_unique_handle` and
  takes a second slot. `WaitForMultipleObjectsEx` rejects an array with
  a duplicate, so every later `react_yield` fails. Re-priming on h1 would
  also be refused with `EEVENTINUSE`, although nothing uses it.

Two more disagreements in `winhandle.c` are recorded as hazards in
`PROJECT.json`, with the invariant that shows each one:

* `cleanup_wsausage` asserts `mode != 0` while the usage has users or is
  in use (`winhandle.c:300`). Re-priming the only user of a socket on
  that socket fails the assertion.
* `react_prime_winsock` with no events, on the socket the handle is
  already primed on, returns `EINVAL` and leaves the usage without users
  and unfreed (`winhandle.c:559`).

## 5. Not modelled

* **RISC OS backend** (`riscos.c`, `modmain.c`). It is tied to the WIMP
  and SWI interfaces.
* **C++ bindings, demos and tests.** They are clients of the C API.
  spec.md §1 puts the binding veneers and the demonstration, echo and
  proxy programs out of scope, as external collaborators.
* **Debugging output** (`debug.c`, and the `debug_str` printing).
* **The `exc` wrappers** (`react_prime_fdexc`, `sockexc`, `fileexc` and
  so on). They prime on `react_EXC`, which the poll backend maps to
  `POLLPRI`. The model's events are in and out only.
* **A stale `act` after a direct `react_prime_idle`.** On a handle that
  holds a poll slot, the slot keeps its `act` while the handle is idle.
  `Reactor` excludes that case (`IdleDirectOk`), as described in §3.
* **In the select backend:**
  * timeouts and the signal handle (`Reactor` models them);
  * `select()` errors other than `EBADF`;
  * `report_fd_sets`;
  * `EINVAL` for a descriptor outside `FD_SETSIZE` or a bad mode.
* **The direction of write wrappers.** `react_prime_write` (`fd.c:152`)
  waits for input, and `react_prime_send`, `sendto` and `sendmsg` wait
  with `react_MIN` (`socket.c:192`, `224`, `255`), while spec.md §4.6
  says a write waits until the descriptor is writable. `Proactor` keeps
  these arms as the code has them. No property tells them apart, because
  the result of the call is data.
* **Stale `POLLIN` in the dual splice.** When only the input is ready,
  `on_splicedualready` releases the input slot and keeps the stored
  `POLLIN` (`fd.c:278`). Another reader may consume the data first. The
  model has no reader consuming data, so this is not checked.
* **Freeing the Windows hash.** `react_closecore` frees the buckets of
  `winhandle_hash`, which the model leaves out since memory is not
  modelled. Note that `core.c:164` passes `&core->winhandle_hash[i].base`,
  the address of a field inside the core, to `free`, where the field's
  value is meant. This is undefined behaviour on every Windows close.
* **Windows failures and timing.** `WsaFails` models the failures in
  `react_prime_winsock`. Not modelled: `react_prime_connect` on Windows
  (the other `socket.c` wrappers are `PrimeSockIO`), the `WSAEventSelect` calls that the
  code asserts succeed (in `on_winsock` and `cleanup_wsausage`), timeouts
  and `SleepEx`.
* **Allocation failure** (`ENOMEM` from `realloc`). It is modelled in
  `react_prime_polls` (`PollSet`) and in `make_wsausage` (`WinHandles`).
  It is not modelled in `Reactor` (the queues and the timer heap), in
  `Proactor`, or when the Windows wait array and hash buckets grow.
* **Sub-events and `react_ensuremem`.** No file of the library calls
  `react_ensuresub`, so `subev` is always `NULL`. `react_ensuremem` only
  holds the buffer that `react_prime_fds` fills with pollfds.
