----------------------- MODULE PerfmonBroadwellUncore -----------------------
(***************************************************************************)
(* The socket-shared ("uncore") half of the Broadwell event-set lifecycle *)
(* in src/src/includes/perfmon_broadwell.h, for the CPUs of one socket:   *)
(* the socket-owner election, the box setup functions (bdw_*box_setup),   *)
(* the uncore freeze / unfreeze / reset macros, bdw_uncore_read with its  *)
(* global-then-local overflow check, the RAPL (POWER) counters, and the   *)
(* uncore parts of setup, start, read, stop and finalize.                  *)
(*                                                                         *)
(* The event set is the sequence EvSet of register indices in event order *)
(* (the order of the code's loops).  Hardware registers of the socket are  *)
(* single variables; per-thread state (currentConfig, threadCounter) is   *)
(* indexed by CPU.  Counter registers are W bits wide.                     *)
(***************************************************************************)
EXTENDS Integers, Sequences, FiniteSets, FiniteSetsExt, Bitwise

CONSTANTS
  CPUs,       \* the logical CPUs of the socket, one measuring thread each
  EvSet,      \* the event set: a sequence of distinct register indices
  Kind,       \* Kind[i]: the RegisterType of index i ("CBOX", "MBOX", "POWER", ...)
  BoxOf,      \* BoxOf[i]: the box (status register) index i belongs to
  GlobalOfs,  \* GlobalOfs[b]: box_map[...].ovflOffset, -1 when the box has none
  LocalOfs,   \* LocalOfs[i]: the box_offset bdw_uncore_read tests for i
  Events,     \* Events[i]: the PerfmonEvent configured on index i
  W,          \* counter register width in bits
  MaxTicks,   \* bound on events counted per measurement window
  NoCpu       \* the value -1 of an unowned lock

Idx == {EvSet[p] : p \in DOMAIN EvSet}
Boxes == {BoxOf[i] : i \in Idx}
Wrap == 2^W

\* Setup functions that write a PCI box twice, the second time with the
\* enable bit 22 (bdw_bbox_setup, bdw_mbox_setup, bdw_ibox_setup,
\* bdw_pbox_setup); the cache holds the second value.
PciKinds == {"BBOX", "MBOX", "IBOX", "PBOX"}
\* Types at or above UNCORE in the RegisterType enumeration.
UncoreKinds == PciKinds \cup {"UBOX", "UBOXFIX", "CBOX", "WBOX", "WBOX0FIX", "MBOXFIX"}
\* Types bdw_uncore_read is called for (WBOX0FIX has no case in stop/read).
ReadKinds == UncoreKinds \ {"WBOX0FIX"}
\* Filter registers of a box: CBOX FILTER0/1, WBOX filter, BBOX opcode /
\* address-match registers.
FilterRegs == {"f0", "f1", "f2"}

ASSUME /\ EvSet \in Seq(Nat) /\ Len(EvSet) = Cardinality(Idx)
       /\ \A i \in Idx : Kind[i] \in UncoreKinds \cup {"POWER"}
       /\ NoCpu \notin CPUs
       /\ W \in Nat \ {0} /\ MaxTicks \in Nat

VARIABLES
  socketLock,    \* socket_lock[socket]: owning CPU or NoCpu
  currentConfig, \* currentConfig[cpu][index]
  uncCfg,        \* box control registers (counter_map[index].configRegister)
  filter,        \* box filter registers
  frozen,        \* freeze state of MSR_UNC_V3_U_PMON_GLOBAL_CTL
  ctr,           \* counter registers (RAPL energy status for POWER)
  boxStatus,     \* box_map[type].statusRegister as a set of set bits
  globalStatus,  \* MSR_UNC_V3_U_PMON_GLOBAL_STATUS as the set of boxes flagged
  tc,            \* threadCounter[thread] of every event-set entry
  phase,         \* lifecycle state the generic layer keeps per thread
  truth,         \* ghost: events counted since the owner's start
  sample         \* ghost: value of truth at the entry's last read or stop

vars == <<socketLock, currentConfig, uncCfg, filter, frozen, ctr, boxStatus,
          globalStatus, tc, phase, truth, sample>>

\* Value of the ghost sample before the first read or stop after start.
NoSample == -1

Phases == {"UNINIT", "UNCONFIGURED", "CONFIGURED", "ARMED", "STOPPED"}

-----------------------------------------------------------------------------
(* Encoders of the box setup functions.                                    *)

BitOr(a, b) == a | b
HasBit(v, n) == (v \div 2^n) % 2 = 1
\* extractBitField(value, width, offset)
Field(v, width, offset) == (v \div 2^offset) % 2^width
OrAll(S) == FoldSet(BitOr, 0, S)

\* Option bits common to the box control registers; THRESHOLD is masked to
\* 5 bits by bdw_ubox_setup and bdw_wbox_setup, to 8 bits elsewhere.
OptionBits(k, o) ==
  CASE o.type = "EDGE"      /\ k # "MBOXFIX" -> 2^18
    [] o.type = "INVERT"                     -> 2^23
    [] o.type = "THRESHOLD" /\ k \in {"UBOX", "WBOX"} -> (o.value % 32) * 2^24
    [] o.type = "THRESHOLD" /\ k \notin {"MBOXFIX"}   -> (o.value % 256) * 2^24
    [] o.type = "TID"       /\ k = "CBOX"    -> 2^19
    [] o.type = "OCCUPANCY" /\ k = "WBOX"    -> (o.value % 4) * 2^14
    [] o.type = "OCCUPANCY_EDGE"   /\ k = "WBOX" -> 2^31
    [] o.type = "OCCUPANCY_INVERT" /\ k = "WBOX" -> 2^30
    [] OTHER -> 0

\* The control value each setup function leaves in the register and cache.
BaseFlags(k, ev) ==
  CASE k = "UBOX"    -> BitOr(2^22 + 2^20, ev.umask * 2^8 + ev.eventId)
    [] k = "UBOXFIX" -> 2^22 + 2^20
    [] k = "CBOX"    -> BitOr(2^22, ev.umask * 2^8 + ev.eventId)
    [] k = "WBOX"    -> IF ev.umask = 255 THEN 2^21
                        ELSE BitOr(2^22 + 2^20, BitOr(ev.eventId,
                               IF ev.umask \in 1 .. 3 THEN ev.umask * 2^14 ELSE 0))
    [] k = "MBOXFIX" -> 2^22 + 2^20
    [] k \in PciKinds -> BitOr(2^22 + 2^20, ev.umask * 2^8 + ev.eventId)

UncoreFlags(i) ==
  LET k == Kind[i]
      ev == Events[i]
  IN IF k = "UBOXFIX" THEN BaseFlags(k, ev)
     ELSE BitOr(BaseFlags(k, ev), OrAll({OptionBits(k, o) : o \in ev.options}))

\* Filter registers bdw_cbox_setup, bdw_wbox_setup and bdw_bbox_setup
\* write for index i, including the 0x34 state_all read-modify-write.
FilterOf(i) ==
  LET ev == Events[i]
      opts(t) == {o \in ev.options : o.type = t}
      f0 == OrAll({Field(o.value, 6, 0) * 2^17 : o \in opts("STATE")}
                  \cup {Field(o.value, 6, 0) : o \in opts("TID")})
      stateAll == ev.eventId = 52 /\ opts("STATE") = {}
      f1 == OrAll({3 * 2^27 + Field(o.value, 5, 0) * 2^20 : o \in opts("OPCODE")}
                  \cup {Field(o.value, 16, 0) : o \in opts("NID")}
                  \cup {Field(o.value, 2, 0) * 2^30 : o \in opts("MATCH0")})
  IN CASE Kind[i] = "CBOX" ->
            [f0 |-> IF stateAll THEN BitOr(f0, 31 * 2^17) ELSE f0, f1 |-> f1, f2 |-> 0]
       [] Kind[i] = "WBOX" ->
            [f0 |-> OrAll({Field(o.value, 32, 0) : o \in opts("OCCUPANCY_FILTER")}), f1 |-> 0, f2 |-> 0]
       [] Kind[i] = "BBOX" ->
            [f0 |-> OrAll({o.value % 64 : o \in opts("OPCODE")}),
             f1 |-> OrAll({Field(o.value, 26, 6) * 64 : o \in opts("MATCH0")}),
             f2 |-> OrAll({Field(o.value, 14, 32) : o \in opts("MATCH0")})]

HasFilter(i) == Kind[i] \in {"CBOX", "WBOX", "BBOX"}

-----------------------------------------------------------------------------
(* Ownership and counting.                                                 *)

LockAcquire(lock, c) == IF lock = NoCpu THEN c ELSE lock

\* A variant of haveLock that asks whether the socket has any owner.
HaveLockAnyOwner(c) == socketLock # NoCpu

\* haveLock: socket_lock[affinity_core2node_lookup[cpu_id]] == cpu_id
HaveLock(c) == socketLock = c

\* A box counter counts while the uncore is unfrozen and its control
\* register has the enable bit 22; the RAPL energy counters never stop.
Counting(i) ==
  IF Kind[i] = "POWER" THEN TRUE ELSE ~frozen /\ HasBit(uncCfg[i], 22)

\* The owner's armed entries, whose events the ghost counts.
Armed(i) == socketLock \in CPUs /\ phase[socketLock] = "ARMED" /\ tc[socketLock][i].init

HasUncore == \E i \in Idx : Kind[i] \in UncoreKinds

\* Events the owner's armed entries counted since its start (model bound).
WindowTicks == MapThenSumSet(LAMBDA i : truth[i], {i \in Idx : Armed(i)})

-----------------------------------------------------------------------------
(* The read loop of stop and read.                                         *)

\* The POWER case: an overflow is inferred from the raw value alone.
PowerOverflowLe(cur, raw) == raw <= cur
PowerOverflow(cur, raw) == raw < cur

\* A variant of the loop body that stores the POWER reading plus the
\* counted wraps as counterData.
SampleEntryAccumulated(c, i, st, clear) ==
  LET rec == st.tc[i]
      raw == st.ctr[i]
      ovf == rec.overflows + (IF PowerOverflow(rec.counterData, raw) THEN 1 ELSE 0)
  IN IF HaveLock(c) /\ Kind[i] = "POWER"
     THEN [st EXCEPT !.tc[i] = [rec EXCEPT !.overflows = ovf, !.counterData = raw + ovf * Wrap]]
     ELSE [st EXCEPT !.tc[i].counterData = 0]

\* One iteration of the loop for entry i: st holds the thread's records
\* and the registers the loop changes.  bdw_uncore_read stores the raw
\* value through cur_result, and the loop then overwrites counterData with
\* counter_result, which only the PMC, FIXED, POWER and THERMAL cases set.
SampleEntry(c, i, st, clear) ==
  LET rec == st.tc[i]
      raw == st.ctr[i]
      b == BoxOf[i]
      dec == raw < rec.counterData
      global == GlobalOfs[b] # -1
      testLocal == dec /\ (~global \/ b \in st.gs)
      counted == testLocal /\ LocalOfs[i] \in st.bs[b]
  IN
  CASE HaveLock(c) /\ Kind[i] \in ReadKinds ->
         [st EXCEPT !.tc[i] = [rec EXCEPT !.overflows = @ + (IF counted THEN 1 ELSE 0),
                                          !.counterData = 0],
                    !.gs = IF dec /\ global THEN @ \ {b} ELSE @,
                    !.bs[b] = IF counted THEN @ \ {LocalOfs[i]} ELSE @,
                    !.ctr[i] = IF clear THEN 0 ELSE @]
    [] HaveLock(c) /\ Kind[i] = "POWER" ->
         [st EXCEPT !.tc[i] = [rec EXCEPT !.overflows =
                                   @ + (IF PowerOverflow(rec.counterData, raw) THEN 1 ELSE 0),
                                          !.counterData = raw]]
    [] OTHER -> [st EXCEPT !.tc[i].counterData = 0]

RECURSIVE SampleFrom(_, _, _, _)
SampleFrom(c, p, st, clear) ==
  IF p > Len(EvSet) THEN st
  ELSE LET i == EvSet[p]
       IN SampleFrom(c, p + 1,
                     IF st.tc[i].init THEN SampleEntry(c, i, st, clear) ELSE st,
                     clear)

\* The whole loop; stop passes FREEZE_FLAG_CLEAR_CTR and then marks every
\* entry not initialised, read passes 0.
SampleCounters(c, stop) ==
  LET st == SampleFrom(c, 1, [tc |-> tc[c], ctr |-> ctr, bs |-> boxStatus,
                              gs |-> globalStatus], stop)
  IN /\ tc' = [tc EXCEPT ![c] =
                 [i \in Idx |-> [st.tc[i] EXCEPT !.init = ~stop /\ @]]]
     /\ ctr' = st.ctr
     /\ boxStatus' = st.bs
     /\ globalStatus' = st.gs
     /\ sample' = [sample EXCEPT ![c] =
                     [i \in Idx |-> IF tc[c][i].init THEN truth[i] ELSE @[i]]]

-----------------------------------------------------------------------------
(* Operations.                                                             *)

\* perfmon_init_broadwell: elect the socket owner.
InitThread(c) ==
  /\ phase[c] = "UNINIT"
  /\ socketLock' = LockAcquire(socketLock, c)
  /\ phase' = [phase EXCEPT ![c] = "UNCONFIGURED"]
  /\ UNCHANGED <<currentConfig, uncCfg, filter, frozen, ctr, boxStatus,
                 globalStatus, tc, truth, sample>>

\* perfmon_setupCounterThread_broadwell, uncore part: the owner freezes
\* the uncore, writes every box's filters and, where it differs from the
\* cache, its control value (UBOXFIX unconditionally); every entry is
\* marked init on every thread.
Setup(c) ==
  LET own == HaveLock(c)
      writes == {i \in Idx : Kind[i] \in UncoreKinds \ {"WBOX0FIX"} /\
                   (Kind[i] = "UBOXFIX" \/ UncoreFlags(i) # currentConfig[c][i])}
      cached == {i \in writes : Kind[i] # "UBOXFIX"}
      lastFilter(b) == {EvSet[p] : p \in {q \in DOMAIN EvSet :
                          BoxOf[EvSet[q]] = b /\ HasFilter(EvSet[q]) /\
                          \A r \in q + 1 .. Len(EvSet) :
                             ~(BoxOf[EvSet[r]] = b /\ HasFilter(EvSet[r]))}}
  IN
  /\ phase[c] \in {"UNCONFIGURED", "CONFIGURED", "STOPPED"}
  /\ frozen' = (IF own /\ HasUncore THEN TRUE ELSE frozen)
  /\ uncCfg' = IF own THEN [i \in Idx |-> IF i \in writes THEN UncoreFlags(i) ELSE uncCfg[i]]
               ELSE uncCfg
  /\ currentConfig' = IF own THEN [currentConfig EXCEPT ![c] =
                          [i \in Idx |-> IF i \in cached THEN UncoreFlags(i) ELSE @[i]]]
                      ELSE currentConfig
  /\ filter' = IF own THEN [b \in Boxes |-> IF lastFilter(b) = {} THEN filter[b]
                                        ELSE FilterOf(CHOOSE i \in lastFilter(b) : TRUE)]
               ELSE filter
  /\ tc' = [tc EXCEPT ![c] = [i \in Idx |-> [@[i] EXCEPT !.init = TRUE]]]
  /\ phase' = [phase EXCEPT ![c] = "CONFIGURED"]
  /\ UNCHANGED <<socketLock, ctr, boxStatus, globalStatus, truth, sample>>

\* perfmon_startCountersThread_broadwell, uncore part: zero the records of
\* the init entries, let the owner take the start value of POWER and
\* WBOX0FIX entries, then BDW_UNFREEZE_UNCORE_AND_RESET_CTR: the owner
\* zeroes every box counter of the set (init or not) and unfreezes.  The
\* generic layer zeroes the overflow counts beforehand.
Start(c) ==
  LET own == HaveLock(c)
      reset == {i \in Idx : Kind[i] \in UncoreKinds \ {"WBOX0FIX"}}
      startOf(i) == IF own /\ Kind[i] \in {"POWER", "WBOX0FIX"} THEN ctr[i] ELSE 0
  IN
  /\ phase[c] = "CONFIGURED"
  /\ tc' = [tc EXCEPT ![c] =
        [i \in Idx |-> IF @[i].init
                       THEN [@[i] EXCEPT !.startData = startOf(i), !.counterData = 0,
                                         !.overflows = 0]
                       ELSE [@[i] EXCEPT !.overflows = 0]]]
  /\ ctr' = IF own /\ HasUncore THEN [i \in Idx |-> IF i \in reset THEN 0 ELSE ctr[i]]
            ELSE ctr
  /\ frozen' = (IF own /\ HasUncore THEN FALSE ELSE frozen)
  /\ truth' = IF own THEN [i \in Idx |-> 0] ELSE truth
  /\ sample' = [sample EXCEPT ![c] = [i \in Idx |-> NoSample]]
  /\ phase' = [phase EXCEPT ![c] = "ARMED"]
  /\ UNCHANGED <<socketLock, currentConfig, uncCfg, filter, boxStatus, globalStatus>>

\* perfmon_readCountersThread_broadwell, uncore part: the owner freezes,
\* every init entry is sampled, the owner unfreezes.
Read(c) ==
  /\ phase[c] = "ARMED"
  /\ SampleCounters(c, FALSE)
  /\ frozen' = (IF HaveLock(c) /\ HasUncore THEN FALSE ELSE frozen)
  /\ UNCHANGED <<socketLock, currentConfig, uncCfg, filter, phase, truth>>

\* A variant of stop that samples without freezing the uncore.
StopNoFreeze(c) ==
  /\ phase[c] = "ARMED"
  /\ SampleCounters(c, TRUE)
  /\ phase' = [phase EXCEPT ![c] = "STOPPED"]
  /\ UNCHANGED <<socketLock, currentConfig, uncCfg, filter, frozen, truth>>

\* perfmon_stopCountersThread_broadwell, uncore part: the owner freezes,
\* every init entry is sampled and its box counter cleared, and every
\* entry is marked not initialised.
Stop(c) ==
  /\ phase[c] = "ARMED"
  /\ SampleCounters(c, TRUE)
  /\ frozen' = (IF HaveLock(c) /\ HasUncore THEN TRUE ELSE frozen)
  /\ phase' = [phase EXCEPT ![c] = "STOPPED"]
  /\ UNCHANGED <<socketLock, currentConfig, uncCfg, filter, truth>>

\* perfmon_finalizeCountersThread_broadwell, uncore part: the owner zeroes
\* the control register of every box entry; the writes of 0 to the
\* write-1-to-clear global status and to the global control register
\* change nothing; currentConfig and the filters are left as they are.
Finalize(c) ==
  LET own == HaveLock(c)
      cleared == {i \in Idx : Kind[i] \in UncoreKinds \ {"WBOX0FIX"}}
  IN
  /\ phase[c] \notin {"UNINIT", "UNCONFIGURED"}
  /\ uncCfg' = IF own THEN [i \in Idx |-> IF i \in cleared THEN 0 ELSE uncCfg[i]]
               ELSE uncCfg
  /\ tc' = [tc EXCEPT ![c] = [i \in Idx |-> [@[i] EXCEPT !.init = FALSE]]]
  /\ phase' = [phase EXCEPT ![c] = "UNCONFIGURED"]
  /\ UNCHANGED <<socketLock, currentConfig, filter, frozen, ctr, boxStatus,
                 globalStatus, truth, sample>>

\* The uncore counts one event on counter i; a carry out of a box counter
\* sets its bit in the box status register and, for boxes with a global
\* offset, the box's bit in the global status register.
Tick(i) ==
  LET b == BoxOf[i]
      wraps == ctr[i] + 1 = Wrap /\ Kind[i] # "POWER"
  IN
  /\ Counting(i)
  /\ Armed(i) => WindowTicks < MaxTicks
  /\ ctr' = [ctr EXCEPT ![i] = (@ + 1) % Wrap]
  /\ boxStatus' = IF wraps THEN [boxStatus EXCEPT ![b] = @ \cup {LocalOfs[i]}] ELSE boxStatus
  /\ globalStatus' = IF wraps /\ GlobalOfs[b] # -1 THEN globalStatus \cup {b} ELSE globalStatus
  /\ truth' = IF Armed(i) THEN [truth EXCEPT ![i] = @ + 1] ELSE truth
  /\ UNCHANGED <<socketLock, currentConfig, uncCfg, filter, frozen, tc, phase,
                 sample>>

-----------------------------------------------------------------------------

ThreadCounter0 == [init |-> FALSE, startData |-> 0, counterData |-> 0, overflows |-> 0]

Init ==
  /\ socketLock = NoCpu
  /\ currentConfig = [c \in CPUs |-> [i \in Idx |-> 0]]
  /\ uncCfg = [i \in Idx |-> 0]
  /\ filter = [b \in Boxes |-> [r \in FilterRegs |-> 0]]
  /\ frozen = FALSE
  /\ ctr = [i \in Idx |-> 0]
  /\ boxStatus = [b \in Boxes |-> {}]
  /\ globalStatus = {}
  /\ tc = [c \in CPUs |-> [i \in Idx |-> ThreadCounter0]]
  /\ phase = [c \in CPUs |-> "UNINIT"]
  /\ truth = [i \in Idx |-> 0]
  /\ sample = [c \in CPUs |-> [i \in Idx |-> NoSample]]

Next ==
  \/ \E c \in CPUs :
       \/ InitThread(c)
       \/ Setup(c)
       \/ Start(c)
       \/ Read(c)
       \/ Stop(c)
       \/ Finalize(c)
  \/ \E i \in Idx : Tick(i)

Spec == Init /\ [][Next]_vars

-----------------------------------------------------------------------------
(* Properties.                                                             *)

TypeOK ==
  /\ socketLock \in CPUs \cup {NoCpu}
  /\ currentConfig \in [CPUs -> [Idx -> Nat]]
  /\ uncCfg \in [Idx -> Nat]
  /\ filter \in [Boxes -> [FilterRegs -> Nat]]
  /\ frozen \in BOOLEAN
  /\ ctr \in [Idx -> 0 .. Wrap - 1]
  /\ boxStatus \in [Boxes -> SUBSET Nat]
  /\ globalStatus \subseteq Boxes
  /\ tc \in [CPUs -> [Idx -> [init : BOOLEAN, startData : 0 .. Wrap - 1,
                               counterData : 0 .. Wrap - 1, overflows : Nat]]]
  /\ phase \in [CPUs -> Phases]
  /\ truth \in [Idx -> 0 .. MaxTicks]
  /\ sample \in [CPUs -> [Idx -> {NoSample} \cup 0 .. MaxTicks]]

\* The value the generic layer reports for an entry of thread c:
\* counterData - startData + overflows * 2^regWidth.
Logical(c, i) ==
  tc[c][i].counterData - tc[c][i].startData + tc[c][i].overflows * Wrap

\* Entries of the owner sampled since its start.
OwnerSampled == IF socketLock \in CPUs
                THEN {i \in Idx : sample[socketLock][i] # NoSample} ELSE {}

\* The socket owner is measuring before and after a step.
OwnerArmedAcross ==
  socketLock \in CPUs /\ phase[socketLock] = "ARMED" /\ phase'[socketLock] = "ARMED"

(* Spec 4.2 and 8: once the socket owner has started its measurement, no  *)
(* step of any CPU (the other threads' setup, start, read, stop and       *)
(* finalize, in whatever order they initialise and run) changes the box   *)
(* control registers, the filters or the freeze state until the owner     *)
(* stops: the haveLock tests keep every other thread off the shared       *)
(* uncore registers.                                                       *)
OwnerMeasurementUndisturbed ==
  [][OwnerArmedAcross => UNCHANGED <<uncCfg, filter, frozen>>]_vars

(* Spec 1(c): while the socket owner's measurement runs, every box        *)
(* counter of its event set is enabled and the uncore unfrozen, so every  *)
(* box counts.                                                             *)
OwnerBoxesCount ==
  socketLock \in CPUs /\ phase[socketLock] = "ARMED" =>
    \A i \in Idx : Kind[i] \in UncoreKinds \ {"WBOX0FIX"} => Counting(i)

(* The freeze discipline of the BDW_FREEZE_UNCORE / UNFREEZE macros: a box *)
(* counter only advances while the socket owner's measurement is running  *)
(* (between its start and its stop), whatever the other threads do.       *)
UncoreCountsOnlyWhileOwnerArmed ==
  \A i \in Idx :
    Kind[i] # "POWER" /\ Counting(i) =>
      socketLock \in CPUs /\ phase[socketLock] = "ARMED"

(* The POWER accounting of stop and read never over-reports: the energy   *)
(* the owner reports for a RAPL counter falls short of the energy counted *)
(* since start by whole register wraps only.                              *)
PowerAccountingSound ==
  \A i \in OwnerSampled :
    Kind[i] = "POWER" =>
      /\ (Logical(socketLock, i) - sample[socketLock][i]) % Wrap = 0
      /\ Logical(socketLock, i) <= sample[socketLock][i]

(* Spec 1(c) and 4.4: the value the owner reports for a box counter after *)
(* a read or stop is the number of events the box counted since start.     *)
UncoreExactAccounting ==
  \A i \in OwnerSampled :
    Kind[i] \in ReadKinds => Logical(socketLock, i) = sample[socketLock][i]

(* Spec 1(c): overflow of the RAPL energy counters is accumulated          *)
(* correctly, so the energy reported equals the energy counted since start. *)
PowerExactAccounting ==
  \A i \in OwnerSampled :
    Kind[i] = "POWER" => Logical(socketLock, i) = sample[socketLock][i]

=============================================================================
