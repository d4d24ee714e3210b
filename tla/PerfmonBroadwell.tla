--------------------------- MODULE PerfmonBroadwell ---------------------------
(***************************************************************************)
(* The whole Broadwell event-set lifecycle of perfmon_broadwell.h on the   *)
(* CPUs of one socket: each of perfmon_setupCounterThread_broadwell,      *)
(* perfmon_startCountersThread_broadwell, ..._read..., ..._stop... and     *)
(* ..._finalize... runs one loop over the whole event set, so one call     *)
(* takes a step of the core half (PerfmonBroadwellCore) and of the uncore *)
(* half (PerfmonBroadwellUncore) together.  The event set of group g is   *)
(* the core events Groups[g] followed by the uncore events EvSet.          *)
(*                                                                         *)
(* The halves share what the code shares: the lifecycle state of each     *)
(* thread and the socket lock.  currentConfig, ctr and threadCounter are   *)
(* single arrays in the code indexed by disjoint register indices, and    *)
(* each half keeps its own part of them.                                   *)
(***************************************************************************)
EXTENDS Integers, FiniteSets

CONSTANTS
  CPUs, Tiles, Sockets, TileOf, SocketOf, FixedIdx, PmcIdx, Groups,
  EvSet, Kind, BoxOf, GlobalOfs, LocalOfs, Events,
  W, MaxTicks, NoCpu

\* The CPUs are those of one socket: the uncore half models one socket.
ASSUME Cardinality(Sockets) = 1 /\ \A c \in CPUs : SocketOf[c] \in Sockets

TheSocket == CHOOSE s \in Sockets : TRUE

VARIABLES
  tileLock, socketLock, phase, active,
  coreConfig, pmcCfg, fixedCtrl, offcore, globalCtrl, ovfStatus,
  coreCtr, coreTc, coreTruth, coreSample,
  uncConfig, uncCfg, filter, frozen, uncCtr, boxStatus, globalStatus,
  uncTc, uncTruth, uncSample

coreVars == <<tileLock, active, coreConfig, pmcCfg, fixedCtrl, offcore,
              globalCtrl, ovfStatus, coreCtr, coreTc, coreTruth, coreSample>>
uncVars == <<uncConfig, uncCfg, filter, frozen, uncCtr, boxStatus,
             globalStatus, uncTc, uncTruth, uncSample>>
vars == <<socketLock, phase, coreVars, uncVars>>

Core == INSTANCE PerfmonBroadwellCore
          WITH currentConfig <- coreConfig, ctr <- coreCtr, tc <- coreTc,
               truth <- coreTruth, sample <- coreSample

Uncore == INSTANCE PerfmonBroadwellUncore
            WITH socketLock <- socketLock[TheSocket],
                 currentConfig <- uncConfig, ctr <- uncCtr, tc <- uncTc,
                 truth <- uncTruth, sample <- uncSample

-----------------------------------------------------------------------------
(* One call of the generic layer runs both halves of the loop.            *)

\* perfmon_init_broadwell: the tile and socket locks are taken together.
InitThread(c) == Core!InitThread(c) /\ Uncore!InitThread(c)

\* perfmon_setupCounterThread_broadwell over the event set of group g.
Setup(c, g) == Core!Setup(c, g) /\ Uncore!Setup(c)

\* perfmon_startCountersThread_broadwell.
Start(c) == Core!Start(c) /\ Uncore!Start(c)

\* perfmon_readCountersThread_broadwell.
Read(c) == Core!Read(c) /\ Uncore!Read(c)

\* perfmon_stopCountersThread_broadwell.
Stop(c) == Core!Stop(c) /\ Uncore!Stop(c)

\* perfmon_finalizeCountersThread_broadwell.
Finalize(c) == Core!Finalize(c) /\ Uncore!Finalize(c)

\* The PMU of CPU c counts an event on a core counter.
CoreTick(c, i) == Core!Tick(c, i) /\ UNCHANGED uncVars

\* The uncore counts an event on a box or RAPL counter.  (The lock is
\* named first: the uncore half sees only its socket's entry of it.)
UncoreTick(i) == UNCHANGED <<socketLock, coreVars>> /\ Uncore!Tick(i)

Init == Core!Init /\ Uncore!Init

Next ==
  \/ \E c \in CPUs :
       \/ InitThread(c)
       \/ \E g \in Core!GroupIds : Setup(c, g)
       \/ Start(c)
       \/ Read(c)
       \/ Stop(c)
       \/ Finalize(c)
       \/ \E i \in Core!Idx : CoreTick(c, i)
  \/ \E i \in Uncore!Idx : UncoreTick(i)

Spec == Init /\ [][Next]_vars

-----------------------------------------------------------------------------
(* Properties.                                                             *)

TypeOK == Core!TypeOK /\ Uncore!TypeOK

(* What the event set reports is what the counters counted (spec 1(c), 3, *)
(* 4.4): every core counter that setup armed and start enabled counts,     *)
(* the currentConfig cache of a PMC always holds the value its control     *)
(* register has, and the value the socket owner reports for a box counter *)
(* after a read or stop is the number of events the box counted.           *)
CountersFaithful ==
  /\ Core!ArmedCountersCount
  /\ Core!PmcCacheMatchesRegister
  /\ Uncore!UncoreExactAccounting

=============================================================================
