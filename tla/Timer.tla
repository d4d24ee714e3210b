-------------------------------- MODULE Timer --------------------------------
(***************************************************************************)
(* The time-stamp-counter timer of src/src/timer.c: its module state      *)
(* (timer_initialized, TSTART/TSTOP, cpuClock, baseline, sleepbase), one   *)
(* caller-owned TimerData, and the exported operations.                    *)
(*                                                                         *)
(* uint64_t and unsigned long arithmetic is kept modulo 2^U.  The          *)
(* calibrations (getCpuSpeed, init_sleep) measure the machine; their       *)
(* results are drawn from the small sets Clocks, Baselines, SleepBases.    *)
(* Time is the TSC register tsc, which only moves forward.                 *)
(***************************************************************************)
EXTENDS Integers

CONSTANTS
  U,          \* width of uint64_t / unsigned long in the model
  Clocks,     \* values getCpuSpeed can measure for cpuClock (> 0)
  Baselines,  \* values getCpuSpeed can measure for baseline (start/stop overhead)
  SleepBases, \* values init_sleep can calibrate, in microseconds
  Usecs,      \* arguments a caller passes to timer_sleep
  TscStart,   \* the TSC when the process starts
  MaxTsc      \* bound on the TSC in the model

Mod == 2^U
\* The value (uint64_t) of +inf, which init_sleep computes when cpuClock is
\* 0 (cvttsd2si yields the "integer indefinite" 2^63 on x86-64).
Indefinite == 2^(U - 1)
EINTR == 4
EINVAL == 22
UsecPerSec == 1000000

ASSUME /\ U \in Nat /\ U > 20
       /\ Clocks \subseteq Nat \ {0} /\ Baselines \subseteq Nat \ {0}
       /\ SleepBases \subseteq 1 .. UsecPerSec
       /\ TscStart \in Nat /\ MaxTsc \in Nat /\ TscStart <= MaxTsc

VARIABLES
  initialized, \* timer_initialized
  tsOps,       \* TSTART and TSTOP are set (timer_init sets both, finalize clears both)
  cpuClock,    \* cpuClock
  baseline,    \* baseline
  sleepbase,   \* sleepbase
  tsc,         \* the time-stamp counter
  data,        \* the caller's TimerData: [start, stop]
  query,       \* last timer_printCycles: the data it saw and the cycles it returned
  slept        \* last timer_sleep: argument, interruption, microseconds slept, status

vars == <<initialized, tsOps, cpuClock, baseline, sleepbase, tsc, data, query, slept>>

NoQuery == [start |-> 0, stop |-> 0, cycles |-> 0]
NoSleep == [usec |-> 0, intr |-> FALSE, done |-> 0, status |-> 0]

-----------------------------------------------------------------------------

\* A variant of the clamp that only tests for equal start and stop.
UnclampedCycles(d) ==
  IF d.start = d.stop THEN 0 ELSE (d.stop - d.start - baseline) % Mod

\* _timer_printCycles (and the cycle count of _timer_print): the elapsed
\* cycles less the measurement overhead, clamped to 0 when the overhead
\* exceeds them or start and stop are equal.  The subtractions are uint64_t.
ClampedCycles(d) ==
  IF (d.stop - baseline) % Mod < d.start \/ d.start = d.stop
  THEN 0
  ELSE (d.stop - d.start - baseline) % Mod

\* timer_printCycles: 0 when the module is not initialised.
PrintCycles(d) == IF initialized = 1 THEN ClampedCycles(d) ELSE 0

\* getCpuSpeed: the minimum of ten back-to-back start/stop pairs becomes
\* baseline, and the TSC ticks over two 500 ms sleeps give the clock.
GetCpuSpeed == [clock : Clocks, baseline : Baselines]

\* timer_init: install the TSC readers, calibrate cpuClock and baseline
\* (getCpuSpeed) if cpuClock is 0, and mark the module initialised.
TimerInit ==
  /\ initialized = 0
  /\ tsOps' = TRUE
  /\ IF cpuClock = 0
     THEN \E cal \in GetCpuSpeed :
            cpuClock' = cal.clock /\ baseline' = cal.baseline
     ELSE UNCHANGED <<cpuClock, baseline>>
  /\ initialized' = 1
  /\ UNCHANGED <<sleepbase, tsc, data, query, slept>>

\* timer_finalize: reset the calibration and readers; sleepbase is kept.
TimerFinalize ==
  /\ initialized = 1
  /\ initialized' = 0 /\ tsOps' = FALSE /\ cpuClock' = 0 /\ baseline' = 0
  /\ UNCHANGED <<sleepbase, tsc, data, query, slept>>

\* timer_start / timer_stop: take the TSC into the TimerData; both return
\* without effect on an uninitialised module.
TimerStart ==
  /\ data' = IF initialized = 1 /\ tsOps THEN [data EXCEPT !.start = tsc] ELSE data
  /\ UNCHANGED <<initialized, tsOps, cpuClock, baseline, sleepbase, tsc, query, slept>>

TimerStop ==
  /\ data' = IF initialized = 1 /\ tsOps THEN [data EXCEPT !.stop = tsc] ELSE data
  /\ UNCHANGED <<initialized, tsOps, cpuClock, baseline, sleepbase, tsc, query, slept>>

\* timer_reset
TimerReset ==
  /\ data' = [start |-> 0, stop |-> 0]
  /\ UNCHANGED <<initialized, tsOps, cpuClock, baseline, sleepbase, tsc, query, slept>>

TimerPrintCycles ==
  /\ query' = [start |-> data.start, stop |-> data.stop, cycles |-> PrintCycles(data)]
  /\ UNCHANGED <<initialized, tsOps, cpuClock, baseline, sleepbase, tsc, data, slept>>

\* init_sleep: the longest of ten 1 ns clock_nanosleep calls plus 2 us.
\* With the module initialised that is a calibrated value; without it
\* TSTART is NULL, the TimerData is never written and cpuClock is 0, so the
\* measured duration is x/0: +inf (sleepbase becomes Indefinite) or NaN
\* (the comparison fails and sleepbase stays 0).
InitSleep ==
  IF initialized = 1 THEN SleepBases ELSE {0, Indefinite}

\* Microseconds a request of d us may have slept before a signal: at its
\* start or just before its end (the points between behave alike).
InterruptPoints(d) == {0, d - 1}

\* A variant with the subtraction's operands swapped.
SleepLeftSwapped(secs, done) == done - secs

\* The return value of sleep(): the seconds not slept.
SleepLeft(secs, done) == secs - done

\* timer_sleep(usec): whole seconds through sleep(), shorter requests
\* through clock_nanosleep for usec - sleepbase microseconds.  tv_nsec
\* outside 0 .. 999999999 makes clock_nanosleep fail with EINVAL without
\* sleeping.  clock_nanosleep returns the error number itself, so an
\* interruption returns EINTR; the -1 / errno test never holds.  An
\* interrupted sleep() returns the seconds left.
TimerSleep(usec) ==
  \E base \in (IF sleepbase = 0 THEN InitSleep ELSE {sleepbase}), intr \in BOOLEAN :
    LET diff == (usec - base) % Mod
        secs == usec \div UsecPerSec
    IN
    /\ sleepbase' = base
    /\ IF usec >= UsecPerSec
       THEN \E done \in (IF intr THEN 0 .. secs - 1 ELSE {secs}) :
              slept' = [usec |-> usec, intr |-> intr, done |-> done * UsecPerSec,
                        status |-> SleepLeft(secs, done)]
       ELSE IF diff >= UsecPerSec
       THEN slept' = [usec |-> usec, intr |-> FALSE, done |-> 0, status |-> EINVAL]
       ELSE \E done \in (IF intr THEN InterruptPoints(diff) ELSE {diff}) :
              slept' = [usec |-> usec, intr |-> intr /\ diff > 0, done |-> done,
                        status |-> IF intr /\ diff > 0 THEN EINTR ELSE 0]
    /\ UNCHANGED <<initialized, tsOps, cpuClock, baseline, tsc, data, query>>

\* Time passes.
Tick ==
  /\ tsc < MaxTsc
  /\ tsc' = tsc + 1
  /\ UNCHANGED <<initialized, tsOps, cpuClock, baseline, sleepbase, data, query, slept>>

Init ==
  /\ initialized = 0
  /\ tsOps = FALSE
  /\ cpuClock = 0
  /\ baseline = 0
  /\ sleepbase = 0
  /\ tsc = TscStart
  /\ data = [start |-> 0, stop |-> 0]
  /\ query = NoQuery
  /\ slept = NoSleep

Next ==
  \/ TimerInit
  \/ TimerFinalize
  \/ TimerStart
  \/ TimerStop
  \/ TimerReset
  \/ TimerPrintCycles
  \/ \E u \in Usecs : TimerSleep(u)
  \/ Tick

Spec == Init /\ [][Next]_vars

-----------------------------------------------------------------------------
(* Properties.                                                             *)

TypeOK ==
  /\ initialized \in {0, 1}
  /\ tsOps \in BOOLEAN
  /\ cpuClock \in Clocks \cup {0}
  /\ baseline \in Baselines \cup {0}
  /\ sleepbase \in SleepBases \cup {0, Indefinite}
  /\ tsc \in TscStart .. MaxTsc
  /\ data \in [start : 0 .. MaxTsc, stop : 0 .. MaxTsc]
  /\ query \in [start : 0 .. MaxTsc, stop : 0 .. MaxTsc, cycles : 0 .. Mod - 1]
  /\ slept \in [usec : Usecs \cup {0}, intr : BOOLEAN, done : Nat, status : Nat]

(* timer_printCycles never reports more cycles than elapsed between the    *)
(* start and stop it is given, however close together they were taken,     *)
(* whatever the calibrated overhead, and across finalize and re-init.      *)
ElapsedCyclesBounded ==
  query.start <= query.stop => query.cycles <= query.stop - query.start

(* A timer_sleep(usec) below one second that was not interrupted, on a    *)
(* calibrated timer, returns 0 having slept: the calibrated overhead is   *)
(* subtracted, never turned into an invalid request.  (luawid.c waits for *)
(* a child with timer_sleep(10).)                                          *)
SleepHonoursRequest ==
  slept.usec \in 1 .. UsecPerSec - 1 /\ ~slept.intr /\ sleepbase \in SleepBases =>
    slept.status = 0

(* The EINTR branch of timer_sleep: an interrupted clock_nanosleep makes   *)
(* timer_sleep return the microseconds still to sleep.                     *)
SleepReportsRemaining ==
  slept.usec \in 1 .. UsecPerSec - 1 /\ slept.intr =>
    slept.status = (slept.usec - sleepbase) - slept.done

(* The sleep overhead is only ever calibrated with an initialised timer,   *)
(* like every other exported function of timer.c requires.                 *)
SleepCalibratedAfterInit == sleepbase \in SleepBases \cup {0}


(* timer_sleep(usec) below one second keeps its contract: on a calibrated *)
(* timer an uninterrupted sleep returns 0 (SleepHonoursRequest), an        *)
(* interrupted one returns the time still to sleep (SleepReportsRemaining), *)
(* and the overhead it subtracts was calibrated on an initialised timer    *)
(* (SleepCalibratedAfterInit).                                              *)
SleepContract ==
  SleepHonoursRequest /\ SleepReportsRemaining /\ SleepCalibratedAfterInit

=============================================================================
