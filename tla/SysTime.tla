------------------------------ MODULE SysTime ------------------------------
(***************************************************************************)
(* The time formats of src/src/obj/time.c and the step of detect_events    *)
(* (yield.c) that turns the moment of the first timer into the timeout of  *)
(* the system call.  A moment is [sec, sub]: seconds and the sub-second    *)
(* part in the format's unit (ns for struct timespec, us for struct        *)
(* timeval, 100 ns for FILETIME, whose QuadPart is sec * 10^7 + sub).      *)
(*                                                                         *)
(*   format        delay_type       system call                           *)
(*   timespec      struct timespec  ppoll / pselect                       *)
(*   timeval       struct timeval   select                                *)
(*   timevalpoll   int              poll (milliseconds)                   *)
(*   windows       DWORD            WaitForMultipleObjectsEx (ms,         *)
(*                                  INFINITE = ~(DWORD) 0)                 *)
(*                                                                         *)
(* TLC's integers have 32 bits: INT_MAX and ~(DWORD) 0 are constants of   *)
(* the model, smaller than in C, so that their caps are reached with      *)
(* moments a few seconds apart.                                           *)
(***************************************************************************)
EXTENDS Integers

CONSTANTS
  Formats,    \* the formats checked
  MaxSec,     \* moments have seconds 0 .. MaxSec
  IntMax,     \* INT_MAX
  DwordMax,   \* ~(DWORD) 0, which is also INFINITE
  Epoch1601,  \* 11644473600, the seconds from 1601 to 1970 (FILETIME's epoch)
  LongMax,    \* the largest LONG, 2^31 - 1 (Windows' LONG has 32 bits)
  ClockFails  \* may the system's clock call fail?

(* The seconds of a moment: Unix time for the struct formats, and from     *)
(* 1601 for FILETIME, as the clocks of react_systime_now count them.      *)
Secs == 0 .. MaxSec
SecsOf(f) == IF f = "windows" THEN Epoch1601 .. Epoch1601 + MaxSec ELSE Secs

(* Sub-second units per second, and the sub-second values of the moments: *)
(* both ends, and both sides of a millisecond boundary.                   *)
PerSec(f) == CASE f = "timespec" -> 1000000000
             [] f \in {"timeval", "timevalpoll"} -> 1000000
             [] f = "windows" -> 10000000

Subs(f) == CASE f = "timespec" -> {0, 1, 999999, 1000000, 999999999}
           [] f \in {"timeval", "timevalpoll"} -> {0, 1, 999, 1000, 999999}
           [] f = "windows" -> {0, 1, 9999, 10000, 9999999}

Moments(f) == [sec : SecsOf(f), sub : Subs(f)]

QuadPart(m) == m.sec * 10000000 + m.sub

(* react_systime_cmp.                                                     *)
cmp_pair(a, b) ==
  IF a.sec # b.sec THEN IF a.sec < b.sec THEN -1 ELSE 1
  ELSE IF a.sub # b.sub THEN IF a.sub < b.sub THEN -1 ELSE 1 ELSE 0

cmp_windows(a, b) ==
  IF QuadPart(b) < QuadPart(a) THEN 1
  ELSE IF QuadPart(b) > QuadPart(a) THEN -1 ELSE 0

(* Mutant: the timespec comparison ignores nanoseconds.                   *)
react_systime_cmp_secs_only(f, a, b) ==
  IF f = "windows" THEN cmp_windows(a, b)
  ELSE IF a.sec # b.sec THEN IF a.sec < b.sec THEN -1 ELSE 1 ELSE 0

react_systime_cmp(f, a, b) ==
  IF f = "windows" THEN cmp_windows(a, b) ELSE cmp_pair(a, b)

(* react_systime_diff for struct timespec and struct timeval: subtract,   *)
(* borrow a second, and report an overdue moment as 1 with zero delay.    *)
(* Mutants: the borrow does not decrement the seconds; the sub-second     *)
(* part is left negative.                                                 *)
diff_pair_no_decrement(a, b, per) ==
  LET s == a.sec - b.sec
      u == a.sub - b.sub
      n == IF u < 0 THEN [sec |-> s, sub |-> u + per] ELSE [sec |-> s, sub |-> u]
  IN  IF n.sec < 0 THEN [rc |-> 1, r |-> [sec |-> 0, sub |-> 0]]
      ELSE [rc |-> 0, r |-> n]

diff_pair_unnormalised(a, b, per) ==
  LET s == a.sec - b.sec
      u == a.sub - b.sub
  IN  IF s < 0 \/ (s = 0 /\ u < 0) THEN [rc |-> 1, r |-> [sec |-> 0, sub |-> 0]]
      ELSE [rc |-> 0, r |-> [sec |-> s, sub |-> u]]

diff_pair(a, b, per) ==
  LET s == a.sec - b.sec
      u == a.sub - b.sub
      n == IF u < 0 THEN [sec |-> s - 1, sub |-> u + per] ELSE [sec |-> s, sub |-> u]
  IN  IF n.sec < 0 THEN [rc |-> 1, r |-> [sec |-> 0, sub |-> 0]]
      ELSE [rc |-> 0, r |-> n]

(* react_systime_diff for TIMEFMT_TIMEVALPOLL: the difference in          *)
(* microseconds, capped at INT_MAX.                                       *)
diff_timevalpoll(a, b) ==
  LET delay == (a.sec - b.sec) * 1000000 + (a.sub - b.sub)
  IN  IF delay < 0 THEN [rc |-> 1, r |-> 0]
      ELSE [rc |-> 0, r |-> IF delay > IntMax THEN IntMax ELSE delay]

(* react_systime_diff for FILETIME: the difference in 100 ns units,       *)
(* divided down to milliseconds, capped at ~(DWORD) 0.                    *)
diff_windows(a, b) ==
  IF QuadPart(a) < QuadPart(b) THEN [rc |-> 1, r |-> 0]
  ELSE LET d == (QuadPart(a) - QuadPart(b)) \div 10000
       IN  [rc |-> 0, r |-> IF d > DwordMax THEN DwordMax ELSE d]

react_systime_diff(f, a, b) ==
  CASE f \in {"timespec", "timeval"} -> diff_pair(a, b, PerSec(f))
    [] f = "timevalpoll" -> diff_timevalpoll(a, b)
    [] f = "windows" -> diff_windows(a, b)

(* react_systime_zero.                                                    *)
Zero(f) == IF f \in {"timespec", "timeval"} THEN [sec |-> 0, sub |-> 0] ELSE 0

(***************************************************************************)
(* The timer wrappers of primetime.c.  A request is [sec, sub] in the      *)
(* caller's type: time_t (sub 0), struct timeval (us), struct timespec     *)
(* (ns), FILETIME (100 ns from 1601).  Each wrapper converts it to the     *)
(* build's moment, directly or through another wrapper, and               *)
(* prime_systime stores the result as r->data.systime.when.               *)
(***************************************************************************)
Apis(f) == {"stdtime", "timeval", "timespec"} \cup
           (IF f = "windows" THEN {"winfiletime"} ELSE {})

ApiPerSec(a) == CASE a = "stdtime" -> 1
                  [] a = "timeval" -> 1000000
                  [] a = "timespec" -> 1000000000
                  [] a = "winfiletime" -> 10000000

Requests(a) == [sec : IF a = "winfiletime" THEN SecsOf("windows") ELSE Secs,
                sub : IF a = "stdtime" THEN {0} ELSE Subs(IF a = "winfiletime"
                                                         THEN "windows" ELSE a)]

(* The cast (LONG) x of Int32x32To64, for x >= 0: x less 2^32 until it   *)
(* fits (written so that no value passes TLC's integers).                *)
RECURSIVE ToLong(_)
ToLong(x) == IF x <= LongMax THEN x ELSE ToLong(x - LongMax - 1 - LongMax - 1)

(* react_prime_stdtime: Int32x32To64 of *arg and 10^7, plus 116444736000000000, on *)
(* Windows, else tv_sec = *arg with a zero sub-second part.               *)
react_prime_stdtime(f, q) ==
  IF f = "windows" THEN [sec |-> ToLong(q.sec) + Epoch1601, sub |-> 0]
  ELSE [sec |-> q.sec, sub |-> 0]

(* react_prime_timeval: on Windows ((11644473600 + tv_sec) * 10^7 +       *)
(* tv_usec * 10); with timespec moments tv_nsec = tv_usec * 1000.         *)
react_prime_timeval(f, q) ==
  CASE f = "windows" -> [sec |-> q.sec + Epoch1601, sub |-> q.sub * 10]
    [] f = "timespec" -> [sec |-> q.sec, sub |-> q.sub * 1000]
    [] OTHER -> q

(* Mutant: the timeval build divides tv_nsec by 100 for tv_usec.          *)
react_prime_timespec_div100(f, q) ==
  CASE f = "windows" -> [sec |-> q.sec + Epoch1601, sub |-> q.sub \div 100]
    [] f \in {"timeval", "timevalpoll"} ->
         react_prime_timeval(f, [sec |-> q.sec, sub |-> q.sub \div 100])
    [] OTHER -> q

(* react_prime_timespec: on Windows tv_nsec / 100 is added; with timeval  *)
(* moments tv_usec = tv_nsec / 1000, through react_prime_timeval.         *)
react_prime_timespec(f, q) ==
  CASE f = "windows" -> [sec |-> q.sec + Epoch1601, sub |-> q.sub \div 100]
    [] f \in {"timeval", "timevalpoll"} ->
         react_prime_timeval(f, [sec |-> q.sec, sub |-> q.sub \div 1000])
    [] OTHER -> q

PrimedMoment(f, a, q) ==
  CASE a = "stdtime" -> react_prime_stdtime(f, q)
    [] a = "timeval" -> react_prime_timeval(f, q)
    [] a = "timespec" -> react_prime_timespec(f, q)
    [] a = "winfiletime" -> q

(***************************************************************************)
(* react_systime_now.  The build picks the clock: timespec_get (C11),     *)
(* clock_gettime (POSIX) or gettimeofday scaled to ns for struct timespec, *)
(* gettimeofday for struct timeval, GetSystemTimeAsFileTime for FILETIME. *)
(* The result is [rc, m]: the return code and the moment stored, for the  *)
(* true time t.  timespec_get returns TIME_UTC (1) on success and 0 on    *)
(* failure, leaving the moment unset: any moment; the POSIX calls return  *)
(* -1 on failure; GetSystemTimeAsFileTime cannot fail.                    *)
(***************************************************************************)
Clocks(f) == CASE f = "timespec" -> {"timespec_get", "clock_gettime", "gettimeofday"}
               [] f \in {"timeval", "timevalpoll"} -> {"gettimeofday"}
               [] f = "windows" -> {"filetime"}

Fails(c) == ClockFails /\ c # "filetime"

(* Mutant: the gettimeofday fallback scales tv_usec by 100.               *)
react_systime_now_usec100(f, c, t) ==
  IF f = "timespec" /\ c = "gettimeofday"
  THEN {[rc |-> 0, m |-> [sec |-> t.sec, sub |-> (t.sub \div 1000) * 100]]}
  ELSE {[rc |-> IF c = "timespec_get" THEN 1 ELSE 0, m |-> t]}

react_systime_now(f, c, t) ==
  LET ok == IF f = "timespec" /\ c = "gettimeofday"
            THEN [rc |-> 0, m |-> [sec |-> t.sec, sub |-> (t.sub \div 1000) * 1000]]
            ELSE [rc |-> IF c = "timespec_get" THEN 1 ELSE 0, m |-> t]
  IN  {ok} \cup
      IF ~Fails(c) THEN {}
      ELSE IF c = "timespec_get" THEN {[rc |-> 0, m |-> u] : u \in Moments(f)}
      ELSE {[rc |-> -1, m |-> t]}

(***************************************************************************)
(* detect_events with a timer in the heap and nothing queued or idle:      *)
(* read the clock, take the difference to the first timer's moment, and   *)
(* use zero if it is overdue.  real is the true time when the clock is   *)
(* read, clock the call the build uses.                                   *)
(***************************************************************************)
VARIABLES fmt, clock, api, req, when, real, now, timeout, pc

vars == <<fmt, clock, api, req, when, real, now, timeout, pc>>

Init ==
  /\ fmt \in Formats /\ clock \in Clocks(fmt) /\ real \in Moments(fmt)
  /\ now = [sec |-> 0, sub |-> 0]
  /\ api = "stdtime" /\ req = [sec |-> 0, sub |-> 0]
  /\ when = [sec |-> 0, sub |-> 0]
  /\ timeout = Zero(fmt) /\ pc = "prime"

(* A react_prime_* call on a handle of an empty heap: the timer is the    *)
(* first, and its moment is what the wrapper stored.                      *)
PrimeTimer ==
  /\ pc = "prime"
  /\ \E a \in Apis(fmt) : \E q \in Requests(a) :
       /\ api' = a /\ req' = q
       /\ when' = PrimedMoment(fmt, a, q)
  /\ pc' = "clock"
  /\ UNCHANGED <<fmt, clock, real, now, timeout>>

(* react_systime_now(&now) < 0: detect_events, and react_yield, fail.     *)
ReadClock ==
  /\ pc = "clock"
  /\ \E o \in react_systime_now(fmt, clock, real) :
       /\ now' = o.m
       /\ pc' = IF o.rc < 0 THEN "failed" ELSE "diff"
  /\ UNCHANGED <<fmt, clock, api, req, when, real, timeout>>

ComputeTimeout ==
  /\ pc = "diff"
  /\ LET d == react_systime_diff(fmt, when, now)
     IN  timeout' = IF d.rc # 0 THEN Zero(fmt) ELSE d.r
  /\ pc' = "wait"
  /\ UNCHANGED <<fmt, clock, api, req, when, real, now>>

Next == PrimeTimer \/ ReadClock \/ ComputeTimeout

Spec == Init /\ [][Next]_vars

(***************************************************************************)
(* What the system call makes of the timeout, in the format's sub-second  *)
(* unit: its length, whether it is infinite, and its granularity.         *)
(***************************************************************************)
WaitLength(f, t) ==
  CASE f \in {"timespec", "timeval"} -> t.sec * PerSec(f) + t.sub
    [] f = "timevalpoll" -> t * 1000
    [] f = "windows" -> t * 10000

WaitInfinite(f, t) == f = "windows" /\ t = DwordMax

Granule(f) == CASE f = "timespec" -> 1
              [] f = "timeval" -> 1
              [] f = "timevalpoll" -> 1000
              [] f = "windows" -> 10000

(* The longest finite wait an int or DWORD delay can express; the struct  *)
(* delays have no cap within the moments checked.                         *)
AtCap(f, w) == CASE f = "timevalpoll" -> w >= IntMax * 1000
               [] f = "windows" -> w >= (DwordMax - 1) * 10000
               [] OTHER -> FALSE

(* The time from now to the timer, in the format's sub-second unit.       *)
TrueDelay == (when.sec - now.sec) * PerSec(fmt) + (when.sub - now.sub)

TypeOK ==
  /\ fmt \in Formats /\ clock \in Clocks(fmt)
  /\ pc \in {"prime", "clock", "diff", "failed", "wait"}
  /\ real \in Moments(fmt)
  /\ api \in Apis(fmt) \cup {"stdtime"} /\ req \in [sec : Nat, sub : Nat]
  /\ when \in [sec : Nat, sub : 0 .. PerSec(fmt) - 1]
  /\ now \in [sec : Nat, sub : 0 .. PerSec(fmt) - 1]
  /\ IF fmt \in {"timespec", "timeval"}
     THEN timeout \in [sec : Nat, sub : 0 .. PerSec(fmt) - 1]
     ELSE timeout \in Nat

(* An instant in ns from 1970, for seconds counted from 1970 + off.       *)
Ns(sec, off, sub, per) == (sec - off) * 1000000000 + sub * (1000000000 \div per)

(* A timer primed through any wrapper becomes due no later than the       *)
(* instant the caller asked for, and less than one unit of the build's    *)
(* moments before it: the conversions in primetime.c keep the seconds,    *)
(* move to the epoch of FILETIME, and scale the sub-second part, rounding *)
(* down only what the build's type cannot hold.                           *)
PrimeMatchesRequest ==
  pc # "prime" =>
    LET r == Ns(req.sec, IF api = "winfiletime" THEN Epoch1601 ELSE 0,
                req.sub, ApiPerSec(api))
        w == Ns(when.sec, IF fmt = "windows" THEN Epoch1601 ELSE 0,
                when.sub, PerSec(fmt))
    IN  w <= r /\ w > r - 1000000000 \div PerSec(fmt)

(* react_systime_cmp, which orders the timer heap and decides in the      *)
(* timer loop of react_yield whether a timer is due, agrees with the      *)
(* order of the moments in time.                                          *)
CmpMatchesReference ==
  pc \in {"diff", "wait"} =>
    LET c == react_systime_cmp(fmt, when, now)
    IN  (c < 0 <=> TrueDelay < 0) /\ (c = 0 <=> TrueDelay = 0)

(* The timeout detect_events gives the system call ends the wait at the   *)
(* timer's moment, or less than one unit of the call earlier, or at the   *)
(* longest finite wait the call takes; an overdue timer gives no wait.    *)
TimeoutMatchesTimer ==
  pc = "wait" =>
    /\ ~WaitInfinite(fmt, timeout)
    /\ LET w == WaitLength(fmt, timeout)
       IN  IF TrueDelay <= 0 THEN w = 0
           ELSE /\ w <= TrueDelay
                /\ w > TrueDelay - Granule(fmt) \/ AtCap(fmt, w)

(* The moment detect_events takes the timer's delay from is the time at  *)
(* which react_systime_now read the clock, truncated to the build's unit *)
(* at most: a clock call that failed makes react_yield fail rather than  *)
(* go on with the moment it did not set.                                  *)
ClockReadsReal ==
  pc \in {"diff", "wait"} =>
    LET off == IF fmt = "windows" THEN Epoch1601 ELSE 0
        n == Ns(now.sec, off, now.sub, PerSec(fmt))
        t == Ns(real.sec, off, real.sub, PerSec(fmt))
    IN  n <= t /\ n > t - 1000

====
