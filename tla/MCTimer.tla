------------------------------- MODULE MCTimer -------------------------------
(***************************************************************************)
(* Model values for Timer: a 30-bit uint64_t, a 3-cycle start/stop         *)
(* overhead, a 55 us sleep overhead (clock_nanosleep of 1 ns takes about   *)
(* 50 us on Linux), and the sleep lengths luawid.c and likwid scripts use. *)
(***************************************************************************)
EXTENDS Timer

MC_Usecs == {10, 100, 1000000}

=============================================================================
