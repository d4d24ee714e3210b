---------------------------- MODULE LuaSubsystems ----------------------------
(***************************************************************************)
(* The lazy initialisation of the likwid libraries by the Lua bindings     *)
(* (src/src/luawid.c): the static *_isInitialized flags, the pointers the  *)
(* bindings cache into the libraries' data (cpuinfo, cputopo, numainfo,    *)
(* affinity, power, configfile), and the init, get and finalize calls each *)
(* binding makes.                                                          *)
(*                                                                         *)
(* The libraries themselves (topology_init, numa_init, ...) are outside    *)
(* src/.  Each is abstracted to whether it is initialised and a generation *)
(* number that every successful init increments: a pointer fetched with   *)
(* get_*() holds the generation it was fetched in, and is usable only     *)
(* while that generation is the library's live one.  A Lua script calls   *)
(* the bindings in any order; each binding is one action, because the     *)
(* interpreter runs one binding to completion before the next.           *)
(***************************************************************************)
EXTENDS Integers

CONSTANTS
  MaxGen,            \* bound on successful inits of each library
  NumaInitResults,   \* values numa_init() may return
  ConfigInitResults, \* values init_configuration() may return
  PowerInitResults,  \* values power_init(0) may return (power_hasRAPL)
  PerfmonInitResults, \* values perfmon_init() may return
  StartThreadCounts   \* thread counts a script passes to startProgram

ASSUME MaxGen \in Nat \ {0}

\* The libraries with a flag and a finalize function, and the timer, whose
\* flag luawid keeps but which it never finalizes.
Libs == {"topology", "numa", "affinity", "power", "config", "perfmon"}
Flags == Libs \cup {"timer"}

\* The cached pointers and the library whose data each points into.
Owner == [cpuinfo |-> "topology", cputopo |-> "topology", numainfo |-> "numa",
          affinity |-> "affinity", power |-> "power", configfile |-> "config"]
Ptrs == DOMAIN Owner

\* The library calls a binding makes, and the library data it reads
\* directly (cpuid_topology, topology's global), with their library.
LibCall == [perfmon |-> "perfmon", affinity_pinProcess |-> "affinity",
            cpuid_topology |-> "topology"]

NULL == 0
\* What get_*() hands out while its library is not initialised (NULL or
\* its unfilled static data: the library is outside src/, and neither may
\* be dereferenced).
Dead == -1

VARIABLES
  isInitialized, \* isInitialized[f]: the static f_isInitialized of luawid.c
  libUp,         \* libUp[l]: library l is initialised (library state)
  gen,           \* gen[l]: successful inits of library l so far
  ptr,           \* ptr[p]: the cached pointer p (NULL, Dead or a generation)
  used,          \* what the last binding dereferenced or called ("timer")
  calls          \* init and finalize calls the last binding made

vars == <<isInitialized, libUp, gen, ptr, used, calls>>

-----------------------------------------------------------------------------
(* A binding runs several of the blocks below in sequence.  Each block is   *)
(* an operator from a state record s to the next one, so a binding is the  *)
(* composition of the blocks it runs, in the code's order.                 *)

Cur == [flag |-> isInitialized, up |-> libUp, gen |-> gen, ptr |-> ptr,
        calls |-> {}]

\* l_init() returning r, r = 0 being success.
LibInit(s, l, r) ==
  [s EXCEPT !.up[l] = (r = 0),
            !.gen[l] = IF r = 0 THEN @ + 1 ELSE @,
            !.calls = @ \cup {<<"init", l>>}]

\* l_finalize().
LibFinalize(s, l) ==
  [s EXCEPT !.up[l] = FALSE, !.calls = @ \cup {<<"fini", l>>}]

SetFlag(s, f, v) == [s EXCEPT !.flag[f] = v]

\* p = get_*(): the live generation of p's library, or Dead.
Fetch(s, p) ==
  [s EXCEPT !.ptr[p] = IF s.up[Owner[p]] THEN s.gen[Owner[p]] ELSE Dead]

\* Fetch every pointer of ps, in any order (they are independent).
FetchAll(s, ps) ==
  [s EXCEPT !.ptr = [p \in Ptrs |->
     IF p \in ps
     THEN IF s.up[Owner[p]] THEN s.gen[Owner[p]] ELSE Dead
     ELSE s.ptr[p]]]

\* if ((f_isInitialized) && (p == NULL)) p = get_*();  for each p of ps.
Refetch(s, f, ps) ==
  FetchAll(s, {p \in ps : s.flag[f] = 1 /\ s.ptr[p] = NULL})

\* A put binding that counts its flag down (f_isInitialized--) without
\* testing it first.
PutLibCountDown(s, l, ps) ==
  [LibFinalize(SetFlag(s, l, s.flag[l] - 1), l) EXCEPT
     !.ptr = [p \in Ptrs |-> IF p \in ps THEN NULL ELSE s.ptr[p]]]

PutLib(s, l, ps) ==
  IF s.flag[l] = 1
  THEN [LibFinalize(SetFlag(s, l, 0), l) EXCEPT
          !.ptr = [p \in Ptrs |-> IF p \in ps THEN NULL ELSE s.ptr[p]]]
  ELSE s

\* The topology block: if not initialised, topology_init() and fetch ps;
\* then refetch those of ps that are NULL.
EnsureTopology(s, ps) ==
  LET s1 == IF s.flag.topology = 0
            THEN FetchAll(SetFlag(LibInit(s, "topology", 0), "topology", 1), ps)
            ELSE s
  IN  Refetch(s1, "topology", ps)

\* The numa block of lua_likwid_init: numa_init()'s result r is ignored.
EnsureNumaUnchecked(s, r) ==
  LET s1 == IF s.flag.numa = 0
            THEN Fetch(SetFlag(LibInit(s, "numa", r), "numa", 1), "numainfo")
            ELSE s
  IN  Refetch(s1, "numa", {"numainfo"})

\* The numa block of the other bindings: the flag is set only if numa_init()
\* returned 0.
EnsureNumaChecked(s, r) ==
  LET s1 == IF s.flag.numa = 0
            THEN IF r = 0
                 THEN Fetch(SetFlag(LibInit(s, "numa", r), "numa", 1), "numainfo")
                 ELSE LibInit(s, "numa", r)
            ELSE s
  IN  Refetch(s1, "numa", {"numainfo"})

\* The affinity block: affinity_init() returns nothing.
EnsureAffinity(s) ==
  LET s1 == IF s.flag.affinity = 0
            THEN Fetch(SetFlag(LibInit(s, "affinity", 0), "affinity", 1), "affinity")
            ELSE s
  IN  Refetch(s1, "affinity", {"affinity"})

\* A binding ends in state s having dereferenced or called u.  Inits past
\* the generation bound are not explored.
Commit(s, u) ==
  /\ \A l \in Libs : s.gen[l] <= MaxGen
  /\ isInitialized' = s.flag
  /\ libUp' = s.up
  /\ gen' = s.gen
  /\ ptr' = s.ptr
  /\ calls' = s.calls
  /\ used' = u

-----------------------------------------------------------------------------
(* The bindings.                                                           *)

Init ==
  /\ isInitialized = [f \in Flags |-> 0]
  /\ libUp = [l \in Libs |-> FALSE]
  /\ gen = [l \in Libs |-> 0]
  /\ ptr = [p \in Ptrs |-> NULL]
  /\ used = {}
  /\ calls = {}

\* lua_likwid_getConfiguration: on a failed init_configuration() it returns
\* a table of defaults without touching configfile.
GetConfiguration(r) ==
  IF isInitialized.config = 0 /\ r # 0
  THEN Commit(LibInit(Cur, "config", r), {})
  ELSE LET s1 == IF isInitialized.config = 0
                 THEN Fetch(SetFlag(LibInit(Cur, "config", r), "config", 1),
                            "configfile")
                 ELSE Cur
       IN  Commit(Refetch(s1, "config", {"configfile"}), {"configfile"})

\* lua_likwid_putConfiguration
PutConfiguration == Commit(PutLib(Cur, "config", {"configfile"}), {})

\* lua_likwid_init: topology, numa (result ignored), then perfmon_init; a
\* failed perfmon_init raises a Lua error after the first two are set up.
LikwidInit(rn, rp) ==
  LET s2 == EnsureNumaUnchecked(EnsureTopology(Cur, {"cpuinfo", "cputopo"}), rn)
      s3 == IF s2.flag.perfmon = 1 THEN s2
            ELSE IF rp = 0
                 THEN SetFlag(SetFlag(LibInit(s2, "perfmon", 0), "perfmon", 1),
                              "timer", 1)
                 ELSE LibInit(s2, "perfmon", rp)
  IN  Commit(s3, {})

\* The perfmon bindings (addEventSet ... getNumberOfThreads) return nothing
\* while perfmon is not initialised and call into it otherwise.
PerfmonBinding ==
  Commit(Cur, IF isInitialized.perfmon = 0 THEN {} ELSE {"perfmon"})

\* lua_likwid_finalize: perfmon, affinity, numa, topology, configuration.
Finalize ==
  Commit(PutLib(PutLib(PutLib(PutLib(PutLib(Cur, "perfmon", {}),
           "affinity", {"affinity"}), "numa", {"numainfo"}),
           "topology", {"cpuinfo", "cputopo"}), "config", {"configfile"}), {})

\* lua_likwid_getCpuInfo
GetCpuInfo == Commit(EnsureTopology(Cur, {"cpuinfo"}), {"cpuinfo"})

\* lua_likwid_getCpuTopology: a failed numa_init() is tolerated.
GetCpuTopology(r) ==
  Commit(EnsureNumaChecked(EnsureTopology(Cur, {"cputopo"}), r), {"cputopo"})

\* lua_likwid_putTopology
PutTopology == Commit(PutLib(Cur, "topology", {"cpuinfo", "cputopo"}), {})

\* lua_likwid_getEventsAndCounters: the rest reads perfmon's tables.
GetEventsAndCounters == Commit(EnsureTopology(Cur, {"cpuinfo"}), {})

\* lua_likwid_getNumaInfo: a failed numa_init() returns an empty table.
GetNumaInfo(r) ==
  LET s1 == EnsureTopology(Cur, {"cpuinfo", "cputopo"})
  IN  IF s1.flag.numa = 0 /\ r # 0
      THEN Commit(LibInit(s1, "numa", r), {})
      ELSE Commit(EnsureAffinity(EnsureNumaChecked(s1, r)), {"numainfo"})

\* lua_likwid_putNumaInfo
PutNumaInfo == Commit(PutLib(Cur, "numa", {"numainfo"}), {})

\* lua_likwid_getAffinityInfo: a failed numa_init() is tolerated.
GetAffinityInfo(r) ==
  Commit(EnsureAffinity(EnsureNumaChecked(
           EnsureTopology(Cur, {"cpuinfo", "cputopo"}), r)), {"affinity"})

\* lua_likwid_putAffinityInfo
PutAffinityInfo == Commit(PutLib(Cur, "affinity", {"affinity"}), {})

\* lua_likwid_getPowerInfo: without RAPL (power_init(0) = 0) it returns
\* nothing; power is not refetched when NULL.
GetPowerInfo(hasRAPL) ==
  LET s1 == EnsureTopology(Cur, {"cpuinfo", "cputopo"})
  IN  IF s1.flag.power = 1
      THEN Commit(s1, {"power"})
      ELSE IF hasRAPL # 0
           THEN Commit(Fetch(SetFlag(LibInit(s1, "power", 0), "power", 1),
                             "power"), {"power"})
           ELSE Commit(LibInit(s1, "power", -1), {})

\* lua_likwid_putPowerInfo
PutPowerInfo == Commit(PutLib(Cur, "power", {"power"}), {})

\* lua_likwid_getCpuClock, startClock, stopClock, getClockCycles, getClock:
\* timer_init() once, then a timer call.
ClockBinding == Commit(SetFlag(Cur, "timer", 1), {"timer"})

\* lua_sleep: timer_sleep() without the timer_isInitialized check.
LuaSleep == Commit(Cur, {"timer"})

\* lua_likwid_pinProcess: an affinity block without the refetch of a NULL
\* pointer, then affinity_pinProcess().
PinProcess ==
  LET s1 == IF isInitialized.affinity = 0
            THEN Fetch(SetFlag(LibInit(Cur, "affinity", 0), "affinity", 1), "affinity")
            ELSE Cur
  IN  Commit(s1, {"affinity_pinProcess"})

\* lua_likwid_startProgram: with no thread count (nrThreads <= 0) the CPU
\* list is read from cpuid_topology, with no topology block before it; the
\* forked child then calls timer_sleep().  The fork, exec and signal
\* handling are those of the LuaProgram module.
StartProgram(nrThreads) ==
  Commit(Cur, IF nrThreads <= 0 THEN {"cpuid_topology", "timer"} ELSE {"timer"})

Next ==
  \/ \E r \in ConfigInitResults : GetConfiguration(r)
  \/ PutConfiguration
  \/ \E rn \in NumaInitResults, rp \in PerfmonInitResults : LikwidInit(rn, rp)
  \/ PerfmonBinding
  \/ Finalize
  \/ GetCpuInfo
  \/ \E r \in NumaInitResults : GetCpuTopology(r)
  \/ PutTopology
  \/ GetEventsAndCounters
  \/ \E r \in NumaInitResults : GetNumaInfo(r)
  \/ PutNumaInfo
  \/ \E r \in NumaInitResults : GetAffinityInfo(r)
  \/ PutAffinityInfo
  \/ \E r \in PowerInitResults : GetPowerInfo(r)
  \/ PutPowerInfo
  \/ ClockBinding
  \/ LuaSleep
  \/ PinProcess
  \/ \E t \in StartThreadCounts : StartProgram(t)

\* The script calls bindings in any order and may stop at any time: no
\* fairness.
Spec == Init /\ [][Next]_vars

-----------------------------------------------------------------------------

TypeOK ==
  /\ isInitialized \in [Flags -> {0, 1}]
  /\ libUp \in [Libs -> BOOLEAN]
  /\ gen \in [Libs -> 0 .. MaxGen]
  /\ ptr \in [Ptrs -> {NULL, Dead} \cup 1 .. MaxGen]
  /\ used \subseteq Ptrs \cup DOMAIN LibCall \cup {"timer"}
  /\ calls \subseteq {"init", "fini"} \X Libs

\* A cached pointer is usable when it points into the data of the live
\* initialisation of its library; a library call when its library is up.
Live(x) ==
  IF x \in DOMAIN LibCall THEN libUp[LibCall[x]]
  ELSE /\ ptr[x] \notin {NULL, Dead}
       /\ libUp[Owner[x]]
       /\ ptr[x] = gen[Owner[x]]

InitFinalizePaired ==
  [][\A c \in calls' : IF c[1] = "init" THEN ~libUp[c[2]] ELSE libUp[c[2]]]_vars

\* A timer call from a binding happens after luawid has initialised the
\* timer (timer_isInitialized = 1), as the clock bindings ensure.
TimerInitialisedWhenUsed == "timer" \in used => isInitialized.timer = 1

====
