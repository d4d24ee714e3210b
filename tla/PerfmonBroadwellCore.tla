------------------------ MODULE PerfmonBroadwellCore ------------------------
(***************************************************************************)
(* The per-CPU ("core") half of the Broadwell event-set lifecycle in       *)
(* src/src/includes/perfmon_broadwell.h: fixed-function and programmable  *)
(* counters (FIXED, PMC), the offcore-response filter registers, the      *)
(* currentConfig write cache, the global enable and overflow-status       *)
(* registers, and the per-thread counter records that setup, start, read, *)
(* stop and finalize maintain.                                             *)
(*                                                                         *)
(* Register values are kept as the integers the code writes (computed     *)
(* with Bitwise), except the global enable and status registers, which    *)
(* are kept as the set of register indices whose bit is set: the code     *)
(* maps index i to bit i - perf_num_fixed_ctr (PMC) or i + 32 (FIXED) in  *)
(* both registers alike, a bijection the properties never need to see.    *)
(* Counter registers are W bits wide instead of 48.                        *)
(*                                                                         *)
(* The generic perfmon layer that calls these functions is not under src/ *)
(* and is modelled from the spec: it drives each thread through           *)
(* UNCONFIGURED -> CONFIGURED -> ARMED -> STOPPED (spec section 4.4), and  *)
(* zeroes the overflow counts of the group it starts.                      *)
(***************************************************************************)
EXTENDS Integers, FiniteSets, FiniteSetsExt, Bitwise

CONSTANTS
  CPUs,        \* logical CPUs, one measuring thread pinned to each
  Tiles,       \* tile (core) ids
  Sockets,     \* socket ids
  TileOf,      \* affinity_thread2tile_lookup
  SocketOf,    \* affinity_core2node_lookup
  FixedIdx,    \* RegisterIndex values of FIXED counters
  PmcIdx,      \* RegisterIndex values of PMC counters
  Groups,      \* event sets: Groups[g] is a function index -> PerfmonEvent
  W,           \* counter register width in bits
  MaxTicks,    \* bound on hardware events counted per measurement window
  NoCpu        \* the value -1 of an unowned lock

Idx == FixedIdx \cup PmcIdx
GroupIds == DOMAIN Groups
InGroup(g) == DOMAIN Groups[g]
Slots == UNION {{<<g, i>> : i \in InGroup(g)} : g \in GroupIds}
Wrap == 2^W

\* Event ids with an offcore-response filter register (0xB7, 0xBB).
OffcoreEvent == [r \in {0, 1} |-> IF r = 0 THEN 183 ELSE 187]

ASSUME /\ FixedIdx \cap PmcIdx = {}
       /\ \A g \in GroupIds : InGroup(g) \subseteq Idx /\ InGroup(g) \cap Idx # {}
       /\ NoCpu \notin CPUs
       /\ W \in Nat \ {0} /\ MaxTicks \in Nat

VARIABLES
  tileLock,      \* tile_lock[tile]: owning CPU or NoCpu
  socketLock,    \* socket_lock[socket]: owning CPU or NoCpu
  currentConfig, \* currentConfig[cpu][index]: last value the code believes it wrote
  pmcCfg,        \* PMC control registers (counter_map[index].configRegister)
  fixedCtrl,     \* MSR_PERF_FIXED_CTR_CTRL, one 4-bit field per fixed counter
  offcore,       \* MSR_OFFCORE_RESP0 / MSR_OFFCORE_RESP1
  globalCtrl,    \* MSR_PERF_GLOBAL_CTRL as the set of enabled indices
  ovfStatus,     \* MSR_PERF_GLOBAL_STATUS as the set of overflowed indices
  ctr,           \* counter registers
  tc,            \* threadCounter[thread] of every event-set entry
  phase,         \* lifecycle state the generic layer keeps per thread
  active,        \* group the generic layer last set up on the thread
  truth,         \* ghost: events the entry's counter counted while armed
  sample         \* ghost: value of truth at the entry's last read or stop

vars == <<tileLock, socketLock, currentConfig, pmcCfg, fixedCtrl, offcore,
          globalCtrl, ovfStatus, ctr, tc, phase, active, truth, sample>>

Phases == {"UNINIT", "UNCONFIGURED", "CONFIGURED", "ARMED", "STOPPED"}
ThreadCounter == [init : BOOLEAN, counterData : 0 .. Wrap - 1, overflows : Nat]

-----------------------------------------------------------------------------
(* Event encoder: the control-register values bdw_*_setup compute.        *)

BitOr(a, b) == a | b
HasBit(v, n) == (v \div 2^n) % 2 = 1

\* Option bits of a PMC control register (bdw_pmc_setup option switch).
PmcOptionBits(o) ==
  CASE o.type = "EDGE"         -> 2^18
    [] o.type = "COUNT_KERNEL" -> 2^17
    [] o.type = "INVERT"       -> 2^23
    [] o.type = "ANYTHREAD"    -> 2^21
    [] o.type = "THRESHOLD"    -> (o.value % 256) * 2^24
    [] o.type = "IN_TRANS"       -> 2^32
    [] o.type = "IN_TRANS_ABORT" -> 2^33
    [] OTHER                   -> 0

PmcFlags(ev) ==
  LET base == BitOr(2^22 + 2^16, ev.umask * 2^8 + ev.eventId)
      cfg  == IF ev.cfgBits # 0 /\ ev.eventId \notin {183, 187}
              THEN BitOr(base, (ev.cmask * 2^8 + ev.cfgBits) * 2^16)
              ELSE base
  IN FoldSet(LAMBDA o, acc : BitOr(PmcOptionBits(o), acc), cfg, ev.options)

\* Value written to the offcore-response register of event 0xB7 / 0xBB.
OffcoreFlags(ev) ==
  LET match(o) == CASE o.type = "MATCH0" -> o.value & 36863
                    [] o.type = "MATCH1" -> o.value * 2^16
                    [] OTHER             -> 0
  IN IF ev.cfgBits # 255 /\ ev.cmask # 255
     THEN BitOr(2^ev.cfgBits, 2^ev.cmask)
     ELSE FoldSet(LAMBDA o, acc : BitOr(match(o), acc), 0, ev.options)

\* The 4-bit field of fixed counter i in MSR_PERF_FIXED_CTR_CTRL.
FixedFlags(i, ev) ==
  LET bit(o) == CASE o.type = "COUNT_KERNEL" -> 2^(4 * i)
                  [] o.type = "ANYTHREAD"    -> 2^(2 + 4 * i)
                  [] OTHER                   -> 0
  IN FoldSet(LAMBDA o, acc : BitOr(bit(o), acc), 2^(1 + 4 * i), ev.options)

FixedField(v, i) == ((v \div 2^(4 * i)) % 16) * 2^(4 * i)

Flags(g, i) ==
  IF i \in PmcIdx THEN PmcFlags(Groups[g][i]) ELSE FixedFlags(i, Groups[g][i])

\* A counter increments when its global enable bit and its local enable
\* bits (bit 22 of a PMC control register, the OS/USR bits of a fixed
\* counter's field) are set.
Counting(c, i) ==
  /\ i \in globalCtrl[c]
  /\ IF i \in PmcIdx THEN HasBit(pmcCfg[c][i], 22)
                     ELSE (fixedCtrl[c] \div 2^(4 * i)) % 4 # 0

-----------------------------------------------------------------------------
(* Ownership election.                                                     *)

\* lock_acquire: the first CPU to ask for a domain owns it for good.
LockAcquire(lock, d, c) ==
  IF lock[d] = NoCpu THEN [lock EXCEPT ![d] = c] ELSE lock

HaveTileLock(c) == tileLock[TileOf[c]] = c

-----------------------------------------------------------------------------
(* Sampling a counter: the read loop of stop and read.                     *)

CountsOverflow(c, s, i) ==
  /\ ctr[c][i] < tc[c][s].counterData
  /\ i \in ovfStatus[c]

\* The status bit is cleared whenever the raw value went down.
ClearsStatus(c, s, i) == ctr[c][i] < tc[c][s].counterData

\* The entries of group g that the read loop visits (init = TRUE).
ArmedIdx(c, g) == {i \in InGroup(g) : tc[c][<<g, i>>].init}

\* A variant of the record update that stores the accumulated value
\* (raw value plus the counted wraps) as counterData.
SampledAccumulated(c, g, i) ==
  LET s == <<g, i>>
      ovf == tc[c][s].overflows + (IF CountsOverflow(c, s, i) THEN 1 ELSE 0)
  IN [tc[c][s] EXCEPT !.overflows = ovf, !.counterData = ctr[c][i] + ovf * Wrap]

\* threadCounter of entry <<g, i>> after the loop read it: overflows
\* incremented on a confirmed wrap, counterData set to the raw value.
Sampled(c, g, i) ==
  LET s == <<g, i>>
  IN [tc[c][s] EXCEPT !.overflows = @ + (IF CountsOverflow(c, s, i) THEN 1 ELSE 0),
                      !.counterData = ctr[c][i]]

SampleCounters(c, g, keepInit) ==
  LET armed == ArmedIdx(c, g)
  IN /\ tc' = [tc EXCEPT ![c] =
           [s \in Slots |->
              IF s[1] = g /\ s[2] \in armed
              THEN [Sampled(c, g, s[2]) EXCEPT !.init = keepInit /\ @]
              ELSE IF s[1] = g THEN [tc[c][s] EXCEPT !.init = keepInit /\ @]
              ELSE tc[c][s]]]
     /\ ovfStatus' = [ovfStatus EXCEPT ![c] =
           @ \ {i \in armed : ClearsStatus(c, <<g, i>>, i)}]
     /\ sample' = [sample EXCEPT ![c] =
           [s \in Slots |-> IF s[1] = g /\ s[2] \in armed THEN truth[c][s] ELSE @[s]]]

-----------------------------------------------------------------------------
(* Operations.                                                             *)

\* perfmon_init_broadwell: elect tile and socket owners.
InitThread(c) ==
  /\ phase[c] = "UNINIT"
  /\ tileLock' = LockAcquire(tileLock, TileOf[c], c)
  /\ socketLock' = LockAcquire(socketLock, SocketOf[c], c)
  /\ phase' = [phase EXCEPT ![c] = "UNCONFIGURED"]
  /\ UNCHANGED <<currentConfig, pmcCfg, fixedCtrl, offcore, globalCtrl,
                 ovfStatus, ctr, tc, active, truth, sample>>

\* perfmon_setupCounterThread_broadwell with bdw_pmc_setup and
\* bdw_fixed_setup: freeze, clear all overflow bits, then per entry write
\* the filter and, if it differs from the cache, the control value.
\* bdw_fixed_setup returns 0 for an entry whose value the cache already
\* holds, and MSR_PERF_FIXED_CTR_CTRL is written with the OR of the rest.
Setup(c, g) ==
  LET changed == {i \in InGroup(g) : Flags(g, i) # currentConfig[c][i]}
      fixedFlags == FoldSet(LAMBDA i, acc : BitOr(Flags(g, i), acc), 0,
                            changed \cap FixedIdx)
      offcoreOf(r) == {i \in InGroup(g) \cap PmcIdx :
                          Groups[g][i].eventId = OffcoreEvent[r]}
  IN
  /\ phase[c] \in {"UNCONFIGURED", "CONFIGURED", "STOPPED"}
  /\ globalCtrl' = [globalCtrl EXCEPT ![c] = {}]
  /\ ovfStatus' = [ovfStatus EXCEPT ![c] = {}]
  /\ offcore' = [offcore EXCEPT ![c] =
        [r \in {0, 1} |-> IF offcoreOf(r) = {} THEN @[r]
                          ELSE OffcoreFlags(Groups[g][CHOOSE i \in offcoreOf(r) : TRUE])]]
  /\ pmcCfg' = [pmcCfg EXCEPT ![c] =
        [i \in PmcIdx |-> IF i \in changed THEN Flags(g, i) ELSE @[i]]]
  /\ fixedCtrl' = [fixedCtrl EXCEPT ![c] = IF fixedFlags > 0 THEN fixedFlags ELSE @]
  /\ currentConfig' = [currentConfig EXCEPT ![c] =
        [i \in Idx |-> IF i \in InGroup(g) THEN Flags(g, i) ELSE @[i]]]
  /\ tc' = [tc EXCEPT ![c] =
        [s \in Slots |-> IF s[1] = g THEN [@[s] EXCEPT !.init = TRUE] ELSE @[s]]]
  /\ phase' = [phase EXCEPT ![c] = "CONFIGURED"]
  /\ active' = [active EXCEPT ![c] = g]
  /\ UNCHANGED <<tileLock, socketLock, ctr, truth, sample>>

\* perfmon_startCountersThread_broadwell: zero every armed counter and its
\* record, clear the armed counters' overflow bits and enable exactly them.
\* The generic layer zeroes the overflow counts of the group beforehand.
Start(c) ==
  LET g == active[c]
      armed == ArmedIdx(c, g)
  IN
  /\ phase[c] = "CONFIGURED"
  /\ ctr' = [ctr EXCEPT ![c] = [i \in Idx |-> IF i \in armed THEN 0 ELSE @[i]]]
  /\ tc' = [tc EXCEPT ![c] =
        [s \in Slots |->
           IF s[1] # g THEN @[s]
           ELSE IF s[2] \in armed
                THEN [@[s] EXCEPT !.counterData = 0, !.overflows = 0]
                ELSE [@[s] EXCEPT !.overflows = 0]]]
  /\ ovfStatus' = [ovfStatus EXCEPT ![c] = @ \ armed]
  /\ globalCtrl' = [globalCtrl EXCEPT ![c] = armed]
  /\ truth' = [truth EXCEPT ![c] = [s \in Slots |-> IF s[1] = g THEN 0 ELSE @[s]]]
  /\ sample' = [sample EXCEPT ![c] = [s \in Slots |-> IF s[1] = g THEN 0 ELSE @[s]]]
  /\ phase' = [phase EXCEPT ![c] = "ARMED"]
  /\ UNCHANGED <<tileLock, socketLock, currentConfig, pmcCfg, fixedCtrl,
                 offcore, active>>

\* perfmon_readCountersThread_broadwell: save MSR_PERF_GLOBAL_CTRL, freeze,
\* sample every armed entry, restore the saved enable bits.
Read(c) ==
  /\ phase[c] = "ARMED"
  /\ SampleCounters(c, active[c], TRUE)
  /\ UNCHANGED <<tileLock, socketLock, currentConfig, pmcCfg, fixedCtrl,
                 offcore, globalCtrl, ctr, phase, active, truth>>

\* A variant of stop that samples without first freezing the counters.
StopNoFreeze(c) ==
  /\ phase[c] = "ARMED"
  /\ SampleCounters(c, active[c], FALSE)
  /\ phase' = [phase EXCEPT ![c] = "STOPPED"]
  /\ UNCHANGED <<tileLock, socketLock, currentConfig, pmcCfg, fixedCtrl,
                 offcore, globalCtrl, ctr, active, truth>>

\* perfmon_stopCountersThread_broadwell: freeze, sample every armed entry,
\* and mark every entry of the set not initialised.
Stop(c) ==
  /\ phase[c] = "ARMED"
  /\ globalCtrl' = [globalCtrl EXCEPT ![c] = {}]
  /\ SampleCounters(c, active[c], FALSE)
  /\ phase' = [phase EXCEPT ![c] = "STOPPED"]
  /\ UNCHANGED <<tileLock, socketLock, currentConfig, pmcCfg, fixedCtrl,
                 offcore, ctr, active, truth>>

\* perfmon_finalizeCountersThread_broadwell: zero every entry's control
\* register (for a FIXED entry that is MSR_PERF_FIXED_CTR_CTRL), clear the
\* offcore filter only on the tile owner, clear the set's overflow bits and
\* the global enable register.  currentConfig is left as it was.
Finalize(c) ==
  LET g == active[c]
      clearsFilter(r) ==
        HaveTileLock(c) /\ \E i \in InGroup(g) \cap PmcIdx :
                               Groups[g][i].eventId = OffcoreEvent[r]
  IN
  /\ phase[c] # "UNINIT"
  /\ g \in GroupIds
  /\ pmcCfg' = [pmcCfg EXCEPT ![c] = [i \in PmcIdx |-> IF i \in InGroup(g) THEN 0 ELSE @[i]]]
  /\ fixedCtrl' = [fixedCtrl EXCEPT ![c] = IF InGroup(g) \cap FixedIdx # {} THEN 0 ELSE @]
  /\ offcore' = [offcore EXCEPT ![c] = [r \in {0, 1} |-> IF clearsFilter(r) THEN 0 ELSE @[r]]]
  /\ tc' = [tc EXCEPT ![c] =
        [s \in Slots |-> IF s[1] = g THEN [@[s] EXCEPT !.init = FALSE] ELSE @[s]]]
  /\ ovfStatus' = [ovfStatus EXCEPT ![c] = @ \ InGroup(g)]
  /\ globalCtrl' = [globalCtrl EXCEPT ![c] = {}]
  /\ phase' = [phase EXCEPT ![c] = "UNCONFIGURED"]
  /\ UNCHANGED <<tileLock, socketLock, currentConfig, ctr, active, truth, sample>>

\* Events the armed entries of CPU c counted since start (model bound).
WindowTicks(c) ==
  IF phase[c] = "ARMED"
  THEN MapThenSumSet(LAMBDA i : truth[c][<<active[c], i>>], ArmedIdx(c, active[c]))
  ELSE 0

\* The PMU counts one event on an enabled counter; a carry out of the W-bit
\* register sets the counter's overflow status bit.
Tick(c, i) ==
  LET armedSlots == IF phase[c] = "ARMED" /\ i \in ArmedIdx(c, active[c])
                    THEN {<<active[c], i>>} ELSE {}
  IN
  /\ Counting(c, i)
  /\ armedSlots # {} => WindowTicks(c) < MaxTicks
  /\ ctr' = [ctr EXCEPT ![c][i] = (@ + 1) % Wrap]
  /\ ovfStatus' = [ovfStatus EXCEPT ![c] = IF ctr[c][i] + 1 = Wrap THEN @ \cup {i} ELSE @]
  /\ truth' = [truth EXCEPT ![c] = [s \in Slots |-> IF s \in armedSlots THEN @[s] + 1 ELSE @[s]]]
  /\ UNCHANGED <<tileLock, socketLock, currentConfig, pmcCfg, fixedCtrl, offcore,
                 globalCtrl, tc, phase, active, sample>>

-----------------------------------------------------------------------------

Init ==
  /\ tileLock = [t \in Tiles |-> NoCpu]
  /\ socketLock = [s \in Sockets |-> NoCpu]
  /\ currentConfig = [c \in CPUs |-> [i \in Idx |-> 0]]
  /\ pmcCfg = [c \in CPUs |-> [i \in PmcIdx |-> 0]]
  /\ fixedCtrl = [c \in CPUs |-> 0]
  /\ offcore = [c \in CPUs |-> [r \in {0, 1} |-> 0]]
  /\ globalCtrl = [c \in CPUs |-> {}]
  /\ ovfStatus = [c \in CPUs |-> {}]
  /\ ctr = [c \in CPUs |-> [i \in Idx |-> 0]]
  /\ tc = [c \in CPUs |-> [s \in Slots |-> [init |-> FALSE, counterData |-> 0, overflows |-> 0]]]
  /\ phase = [c \in CPUs |-> "UNINIT"]
  /\ active = [c \in CPUs |-> 0]
  /\ truth = [c \in CPUs |-> [s \in Slots |-> 0]]
  /\ sample = [c \in CPUs |-> [s \in Slots |-> 0]]

Next ==
  \E c \in CPUs :
    \/ InitThread(c)
    \/ \E g \in GroupIds : Setup(c, g)
    \/ Start(c)
    \/ Read(c)
    \/ Stop(c)
    \/ Finalize(c)
    \/ \E i \in Idx : Tick(c, i)

Spec == Init /\ [][Next]_vars

-----------------------------------------------------------------------------
(* Properties.                                                             *)

TypeOK ==
  /\ tileLock \in [Tiles -> CPUs \cup {NoCpu}]
  /\ socketLock \in [Sockets -> CPUs \cup {NoCpu}]
  /\ currentConfig \in [CPUs -> [Idx -> Nat]]
  /\ pmcCfg \in [CPUs -> [PmcIdx -> Nat]]
  /\ fixedCtrl \in [CPUs -> Nat]
  /\ offcore \in [CPUs -> [{0, 1} -> Nat]]
  /\ globalCtrl \in [CPUs -> SUBSET Idx]
  /\ ovfStatus \in [CPUs -> SUBSET Idx]
  /\ ctr \in [CPUs -> [Idx -> 0 .. Wrap - 1]]
  /\ tc \in [CPUs -> [Slots -> ThreadCounter]]
  /\ phase \in [CPUs -> Phases]
  /\ active \in [CPUs -> GroupIds \cup {0}]
  /\ truth \in [CPUs -> [Slots -> 0 .. MaxTicks]]
  /\ sample \in [CPUs -> [Slots -> 0 .. MaxTicks]]

\* The logical count the generic layer reports for an entry:
\* counterData + overflows * 2^regWidth (startData is 0 for PMC and FIXED).
Logical(c, s) == tc[c][s].counterData + tc[c][s].overflows * Wrap

(* A hardware counter only advances inside a measurement window: setup,   *)
(* stop and finalize freeze MSR_PERF_GLOBAL_CTRL, start enables exactly    *)
(* the armed entries and read restores what it saved, so no event is      *)
(* counted on a CPU that is not ARMED or by a counter outside the set.    *)
CountsOnlyWhileArmed ==
  \A c \in CPUs, i \in Idx :
    Counting(c, i) =>
      /\ phase[c] = "ARMED"
      /\ i \in ArmedIdx(c, active[c])

ExactAccounting ==
  \A c \in CPUs, s \in Slots : Logical(c, s) = sample[c][s]

(* Every counter of the event set that setup armed and start enabled is   *)
(* counting: its control bits were written by setup.                       *)
ArmedCountersCount ==
  \A c \in CPUs :
    phase[c] = "ARMED" => \A i \in ArmedIdx(c, active[c]) : Counting(c, i)

(* Spec section 3: currentConfig[cpu][index] always reflects the last      *)
(* value physically written to the PMC control register.                   *)
PmcCacheMatchesRegister ==
  \A c \in CPUs, i \in PmcIdx : currentConfig[c][i] = pmcCfg[c][i]

(* Spec 4.4: finalize clears every filter register setup armed, so a      *)
(* finalized CPU has no offcore-response filter left set.                  *)
FinalizeClearsFilters ==
  \A c \in CPUs :
    phase[c] = "UNCONFIGURED" /\ active[c] \in GroupIds => offcore[c] = [r \in {0, 1} |-> 0]

=============================================================================
