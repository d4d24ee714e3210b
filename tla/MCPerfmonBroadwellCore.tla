----------------------- MODULE MCPerfmonBroadwellCore -----------------------
(***************************************************************************)
(* Model values for PerfmonBroadwellCore: two fixed counters (indices 0    *)
(* and 1, FIXC0/FIXC1) and one programmable counter (index 3, PMC0), and   *)
(* two event sets that share FIXC0 and PMC0 so that switching between them *)
(* exercises the currentConfig cache.                                      *)
(***************************************************************************)
EXTENDS PerfmonBroadwellCore, TLC

CONSTANTS c1, c2, t1, s1

Ev(id, umask, cfgBits, cmask, opts) ==
  [eventId |-> id, umask |-> umask, cfgBits |-> cfgBits, cmask |-> cmask, options |-> opts]

\* INSTR_RETIRED_ANY on a fixed counter, user mode only.
FixUser == Ev(0, 0, 0, 0, {})
\* Fixed counter counting user and kernel mode.
FixKernel == Ev(0, 0, 0, 0, {[type |-> "COUNT_KERNEL", value |-> 0]})
\* The spec's scenario event: eventId 0x2E, umask 0x41, no options.
LlcMisses == Ev(46, 65, 0, 0, {})
\* An offcore-response event (0xB7) whose filter bits are 16 and 26.
Offcore0 == Ev(183, 1, 16, 26, {[type |-> "EDGE", value |-> 0]})

\* Group 1 measures FIXC0 and PMC0; group 2 adds FIXC1 and an offcore event.
MC_Groups == << (0 :> FixUser) @@ (3 :> LlcMisses),
                (0 :> FixUser) @@ (1 :> FixKernel) @@ (3 :> Offcore0) >>

MC_FixedIdx == {0, 1}
MC_PmcIdx == {3}
MC_OneCpu == {c1}
MC_TwoCpus == {c1, c2}
MC_TileOf == [c \in {c1, c2} |-> t1]
MC_SocketOf == [c \in {c1, c2} |-> s1]

=============================================================================
