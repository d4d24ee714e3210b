---------------------------- MODULE MCTopologyHwloc ----------------------------
(***************************************************************************)
(* hwloc 1.x trees for TopologyHwloc.  Every machine has a socket with a   *)
(* shared L2 and a private L1 per core, and is built from sockets, cores   *)
(* per socket and threads per core, with the hardware threads numbered     *)
(* core after core ("compact") or sibling after sibling ("scatter", as     *)
(* Linux numbers SMT siblings on Intel).  Cores are numbered per socket,   *)
(* as hwloc reports them.  Further trees: CPU 1 offline, so os indices     *)
(* have a gap; no core objects; no socket objects (only a NUMA node); and  *)
(* no inclusiveness info on the caches, as outside the x86 backend.        *)
(***************************************************************************)
EXTENDS TopologyHwloc

PU(os) == [type |-> "PU", os |-> os, attr |-> "none", kids |-> <<>>]
Core(os, kids) == [type |-> "CORE", os |-> os, attr |-> "none", kids |-> kids]
Cache(level, size, incl, kids) ==
  [type |-> "CACHE", os |-> -1, kids |-> kids,
   attr |-> [ctype |-> IF level = 1 THEN "DATA" ELSE "UNIFIED", level |-> level,
             size |-> size, assoc |-> 8, line |-> 64, incl |-> incl]]
Socket(os, kids) ==
  [type |-> "SOCKET", os |-> os, kids |-> kids,
   attr |-> [model |-> 61, family |-> 6, stepping |-> 4, vendor |-> "GenuineIntel"]]
NumaNode(os, kids) == [type |-> "NODE", os |-> os, attr |-> "none", kids |-> kids]
Machine(kids) == [type |-> "MACHINE", os |-> 0, attr |-> "none", kids |-> kids]

\* A machine of S sockets, C cores per socket and T threads per core.
Build(S, C, T, numbering, incl) ==
  LET os(s, c, t) == IF numbering = "compact" THEN (s * C + c) * T + t
                     ELSE t * (S * C) + s * C + c
  IN Machine([ks \in 1 .. S |->
       Socket(ks - 1, <<Cache(2, 262144, incl[2],
         [kc \in 1 .. C |-> Cache(1, 32768, incl[1],
            <<Core(kc - 1, [kt \in 1 .. T |-> PU(os(ks - 1, kc - 1, kt - 1))])>>)])>>)])

Incl == [l \in 1 .. 2 |-> IF l = 1 THEN "false" ELSE "true"]

MC_GoodTrees ==
  {Build(S, C, T, nb, Incl) : S \in {1, 2}, C \in {1, 2}, T \in {1, 2},
                               nb \in {"compact", "scatter"}}

OfflineCpu ==
  Machine(<<Socket(0, <<Cache(2, 262144, "true",
    <<Cache(1, 32768, "false", <<Core(0, <<PU(0)>>)>>),
      Cache(1, 32768, "false", <<Core(2, <<PU(2)>>)>>)>>)>>)>>)
NoCores ==
  Machine(<<Socket(0, <<Cache(2, 262144, "true",
    <<Cache(1, 32768, "false", <<PU(0), PU(1)>>)>>)>>)>>)
NoSockets ==
  Machine(<<NumaNode(0, <<Cache(2, 262144, "true",
    <<Cache(1, 32768, "false", <<Core(0, <<PU(0), PU(1)>>)>>)>>)>>)>>)
NoInclusiveness == Build(1, 2, 1, "compact", [l \in 1 .. 2 |-> "none"])

MC_Trees == MC_GoodTrees \cup {OfflineCpu, NoCores, NoSockets, NoInclusiveness}

=============================================================================
