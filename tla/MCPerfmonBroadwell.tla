------------------------- MODULE MCPerfmonBroadwell -------------------------
(***************************************************************************)
(* Model values for PerfmonBroadwell: one CPU, which owns its tile and    *)
(* socket, measuring the two core event sets of MCPerfmonBroadwellCore    *)
(* (they share FIXC0 and PMC0) together with the uncore events of          *)
(* MCPerfmonBroadwellUncore (a CBOX counter and a RAPL energy counter).    *)
(***************************************************************************)
EXTENDS PerfmonBroadwell, TLC

CONSTANTS c1, t1, s1

CoreEv(id, umask, cfgBits, cmask, opts) ==
  [eventId |-> id, umask |-> umask, cfgBits |-> cfgBits, cmask |-> cmask, options |-> opts]
UncEv(id, umask, opts) == [eventId |-> id, umask |-> umask, options |-> opts]

\* Group 1: INSTR_RETIRED_ANY (user) on FIXC0 and 0x2E/0x41 on PMC0.
\* Group 2: the same FIXC0 event, FIXC1 with kernel mode, and an offcore
\* response event (0xB7) on PMC0.
MC_Groups ==
  << (0 :> CoreEv(0, 0, 0, 0, {})) @@ (3 :> CoreEv(46, 65, 0, 0, {})),
     (0 :> CoreEv(0, 0, 0, 0, {}))
       @@ (1 :> CoreEv(0, 0, 0, 0, {[type |-> "COUNT_KERNEL", value |-> 0]}))
       @@ (3 :> CoreEv(183, 1, 16, 26, {[type |-> "EDGE", value |-> 0]})) >>

MC_FixedIdx == {0, 1}
MC_PmcIdx == {3}
MC_CPUs == {c1}
MC_TileOf == [c \in MC_CPUs |-> t1]
MC_SocketOf == [c \in MC_CPUs |-> s1]

\* LLC_LOOKUP (0x34) on a CBOX counter and PWR_PKG_ENERGY on RAPL.
MC_EvSet == <<10, 12>>
MC_Kind == (10 :> "CBOX") @@ (12 :> "POWER")
MC_BoxOf == (10 :> 1) @@ (12 :> 3)
MC_GlobalOfs == (1 :> 3) @@ (3 :> -1)
MC_LocalOfs == (10 :> 0) @@ (12 :> 0)
MC_Events == (10 :> UncEv(52, 3, {})) @@ (12 :> UncEv(2, 0, {}))

=============================================================================
