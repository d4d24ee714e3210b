---------------------- MODULE MCPerfmonBroadwellUncore ----------------------
(***************************************************************************)
(* Model values for PerfmonBroadwellUncore: two CPUs of one socket and an *)
(* event set of a CBOX counter (box 1, with a global overflow offset) and  *)
(* a RAPL package-energy counter (box 3).                                  *)
(***************************************************************************)
EXTENDS PerfmonBroadwellUncore, TLC

CONSTANTS c1, c2

Ev(id, umask, opts) == [eventId |-> id, umask |-> umask, options |-> opts]

\* LLC_LOOKUP (0x34): no STATE option, so setup sets the state_all filter bits.
LlcLookup == Ev(52, 3, {})
\* PWR_PKG_ENERGY.
PkgEnergy == Ev(2, 0, {})

MC_EvSet == <<10, 12>>
MC_Kind == (10 :> "CBOX") @@ (12 :> "POWER")
MC_BoxOf == (10 :> 1) @@ (12 :> 3)
MC_GlobalOfs == (1 :> 3) @@ (3 :> -1)
MC_LocalOfs == (10 :> 0) @@ (12 :> 0)
MC_Events == (10 :> LlcLookup) @@ (12 :> PkgEnergy)
MC_CPUs == {c1, c2}

=============================================================================
