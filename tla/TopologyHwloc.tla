----------------------------- MODULE TopologyHwloc -----------------------------
(***************************************************************************)
(* The hwloc backend of the topology module (src/src/topology_hwloc.c):   *)
(* hwloc_init_cpuInfo, hwloc_init_nodeTopology and hwloc_init_cacheTopology*)
(* read the hwloc object tree into cpuid_info and cpuid_topology.         *)
(*                                                                         *)
(* An hwloc object is a record [type, os, attr, kids]: its type, its       *)
(* os_index, its attributes (socket info strings, or cache attributes) and *)
(* its children in order.  An object of the tree is named by its path of  *)
(* child positions from the root, so obj->parent is Front(path), its depth *)
(* is Len(path), and hwloc's logical order at one depth (get_obj_by_type,  *)
(* get_obj_by_depth, next_cousin) is the left-to-right order of the tree.  *)
(* The three functions are called in this order by topology.c, which is   *)
(* not under src/.  The loop of the node topology is one step per hardware *)
(* thread and the loop of the cache topology one step per depth.          *)
(***************************************************************************)
EXTENDS Integers, Sequences, SequencesExt, FiniteSets

CONSTANTS Trees  \* the hwloc topologies of the machines considered

Null == <<0>>   \* a NULL hwloc_obj_t (child positions start at 1)

\* The object at path p of tree t.
RECURSIVE Obj(_, _)
Obj(t, p) == IF p = <<>> THEN t ELSE Obj(t.kids[Head(p)], Tail(p))

\* All paths of t in depth-first, left-to-right order.
RECURSIVE Dfs(_)
Dfs(t) ==
  <<<<>>>> \o FlattenSeq([j \in 1 .. Len(t.kids) |->
                 LET sub == Dfs(t.kids[j]) IN [k \in 1 .. Len(sub) |-> <<j>> \o sub[k]]])

\* hwloc_get_obj_by_type / hwloc_get_nbobjs_by_type: the objects of a type
\* in logical order.
OfType(t, type) == SelectSeq(Dfs(t), LAMBDA p : Obj(t, p).type = type)
NbObjs(t, type) == Len(OfType(t, type))

\* hwloc_get_obj_by_depth in logical order, hwloc_topology_get_depth, and
\* hwloc_get_depth_type (one type per depth).
AtDepth(t, d) == SelectSeq(Dfs(t), LAMBDA p : Len(p) = d)
TopoDepth(t) == Max({Len(p) : p \in ToSet(Dfs(t))}) + 1
DepthType(t, d) == Obj(t, AtDepth(t, d)[1]).type

\* Walk obj = obj->parent from p until an object of the type is found.
RECURSIVE UpTo(_, _, _)
UpTo(t, p, type) ==
  IF Obj(t, p).type = type THEN p
  ELSE IF p = <<>> THEN Null
  ELSE UpTo(t, Front(p), type)

-----------------------------------------------------------------------------

\* A variant of the count that does not descend below the children.
RecordObjsDirect(obj, type) ==
  Len(SelectSeq(obj.kids, LAMBDA k : k.type = type))

\* likwid_hwloc_record_objs_of_type_below_obj with no list to record in:
\* the objects of the type among the children, and below each child.
RECURSIVE RecordObjsBelow(_, _)
RecordObjsBelow(obj, type) ==
  IF obj.kids = <<>> THEN 0
  ELSE FoldLeft(LAMBDA count, k : count + (IF k.type = type THEN 1 ELSE 0)
                                        + RecordObjsBelow(k, type),
                0, obj.kids)

\* atoi of the info string of that name, 0 when the object has none
\* (hwloc_obj_get_info_by_name returns NULL).
InfoValue(info, name) == IF name \in DOMAIN info THEN info[name] ELSE 0

NoThread == [apicId |-> -1, threadId |-> -1, coreId |-> -1, packageId |-> -1, inCpuSet |-> 0]

\* A variant of the thread entry that stops at the core.
ThreadEntryNoPackage(t, p, socket_type) ==
  LET core == UpTo(t, p, "CORE")
  IN [apicId |-> Obj(t, p).os, threadId |-> Last(p) - 1,
      coreId |-> IF core = Null THEN 0 ELSE Obj(t, core).os,
      packageId |-> 0, inCpuSet |-> 1]

\* The hwThreadPool entry the loop body writes for the PU at path p: its
\* os_index and sibling_rank, and the os_index of the enclosing core and
\* socket (or NUMA node), 0 where the walk up reaches the root.
ThreadEntry(t, p, socket_type) ==
  LET core == UpTo(t, p, "CORE")
      pkg == IF core = Null THEN Null ELSE UpTo(t, core, socket_type)
  IN [apicId |-> Obj(t, p).os, threadId |-> Last(p) - 1,
      coreId |-> IF core = Null THEN 0 ELSE Obj(t, core).os,
      packageId |-> IF pkg = Null THEN 0 ELSE Obj(t, pkg).os,
      inCpuSet |-> 1]

CacheTypeOf(ctype) ==
  CASE ctype = "DATA" -> "DATACACHE"
    [] ctype = "INSTRUCTION" -> "INSTRUCTIONCACHE"
    [] ctype = "UNIFIED" -> "UNIFIEDCACHE"
    [] OTHER -> "NOCACHE"

\* The CacheLevel fields read from the first cache object obj at a depth.
CacheEntry(obj) ==
  LET a == obj.attr
  IN [type |-> CacheTypeOf(a.ctype), associativity |-> a.assoc, level |-> a.level,
      lineSize |-> a.line, size |-> a.size,
      sets |-> IF a.assoc * a.line # 0 THEN a.size \div (a.assoc * a.line) ELSE 0,
      threads |-> RecordObjsBelow(obj, "PU"), inclusive |-> -1]

\* A cachePool entry as malloc leaves it; -1 marks a field not written.
Unwritten ==
  [type |-> "uninitialized", associativity |-> -1, level |-> -1, lineSize |-> -1,
   size |-> -1, sets |-> -1, threads |-> -1, inclusive |-> -1]

-----------------------------------------------------------------------------

VARIABLES
  tree,           \* the hwloc topology loaded
  stage,          \* "cpuinfo", "node", "nodeloop", "cache", "cacheloop", "done", "crash"
  cpuid_info,     \* model, family, stepping, isIntel
  numHWThreads,   \* cpuid_topology.numHWThreads
  pool,           \* hwThreadPool, indexed 0 .. numHWThreads - 1
  stray,          \* ghost: indices written outside hwThreadPool
  socket_type,    \* "SOCKET", or "NODE" when hwloc has no sockets
  i,              \* loop index of hwloc_init_nodeTopology
  cachePool,      \* cachePool, indexed 0 .. maxNumLevels - 1
  maxNumLevels,
  d,              \* loop depth of hwloc_init_cacheTopology
  id,             \* next cachePool entry
  numCacheLevels  \* cpuid_topology.numCacheLevels

vars == <<tree, stage, cpuid_info, numHWThreads, pool, stray, socket_type, i,
          cachePool, maxNumLevels, d, id, numCacheLevels>>

\* hwloc_init_cpuInfo: the CPU identification from the info strings of the
\* first socket and the number of PUs; without a socket it returns early.
InitCpuInfo ==
  LET sockets == OfType(tree, "SOCKET")
      inf == Obj(tree, sockets[1]).attr
  IN
  /\ stage = "cpuinfo"
  /\ IF sockets = <<>>
     THEN /\ cpuid_info' = [model |-> 0, family |-> 0, stepping |-> 0, isIntel |-> 0]
          /\ UNCHANGED numHWThreads
     ELSE /\ cpuid_info' = [model |-> InfoValue(inf, "model"),
                            family |-> InfoValue(inf, "family"),
                            stepping |-> InfoValue(inf, "stepping"),
                            isIntel |-> IF "vendor" \in DOMAIN inf /\ inf.vendor = "GenuineIntel"
                                        THEN 1 ELSE 0]
          /\ numHWThreads' = NbObjs(tree, "PU")
  /\ stage' = "node"
  /\ UNCHANGED <<tree, pool, stray, socket_type, i, cachePool, maxNumLevels, d, id,
                 numCacheLevels>>

\* hwloc_init_nodeTopology up to its loop: the pool with every entry unset,
\* the socket type, and maxNumLogicalProcs / maxNumCores.  With no core
\* objects that integer division by zero is undefined: the build traps, or
\* drops the unused quotient and goes on.
InitNodeTopology ==
  /\ stage = "node"
  /\ pool' = [j \in 0 .. numHWThreads - 1 |-> NoThread]
  /\ socket_type' = IF NbObjs(tree, "SOCKET") = 0 THEN "NODE" ELSE "SOCKET"
  /\ i' = 0
  /\ stage' \in IF NbObjs(tree, "CORE") = 0 THEN {"crash", "nodeloop"} ELSE {"nodeloop"}
  /\ UNCHANGED <<tree, cpuid_info, numHWThreads, stray, cachePool, maxNumLevels, d, id,
                 numCacheLevels>>

\* The loop body for hardware thread i: the entry is written at the PU's
\* os_index, which is not checked against the pool's size; a missing PU
\* object is skipped.
NodeBody ==
  LET pus == OfType(tree, "PU")
      p == pus[i + 1]
      idx == Obj(tree, p).os
  IN
  /\ IF i + 1 > Len(pus)
     THEN UNCHANGED <<pool, stray>>
     ELSE IF idx \in DOMAIN pool
     THEN pool' = [pool EXCEPT ![idx] = ThreadEntry(tree, p, socket_type)] /\ UNCHANGED stray
     ELSE stray' = stray \cup {idx} /\ UNCHANGED pool
  /\ i' = i + 1
  /\ UNCHANGED <<tree, stage, cpuid_info, numHWThreads, socket_type, cachePool,
                 maxNumLevels, d, id, numCacheLevels>>

\* A variant of the loop that runs one iteration too many.
NodeStepPastEnd ==
  /\ stage = "nodeloop"
  /\ i <= numHWThreads
  /\ NodeBody

\* One iteration: for (i = 0; i < numHWThreads; i++).
NodeStep ==
  /\ stage = "nodeloop"
  /\ i < numHWThreads
  /\ NodeBody

\* cpuid_topology.threadPool = hwThreadPool.
NodeDone ==
  /\ stage = "nodeloop"
  /\ i = numHWThreads
  /\ stage' = "cache"
  /\ UNCHANGED <<tree, cpuid_info, numHWThreads, pool, stray, socket_type, i, cachePool,
                 maxNumLevels, d, id, numCacheLevels>>

\* hwloc_init_cacheTopology up to its loop: one entry per cache depth, and
\* the walk starts at the deepest level.
InitCacheTopology ==
  LET depth == TopoDepth(tree)
      levels == Cardinality({k \in 0 .. depth - 1 : DepthType(tree, k) = "CACHE"})
  IN
  /\ stage = "cache"
  /\ maxNumLevels' = levels
  /\ cachePool' = [j \in 0 .. levels - 1 |-> Unwritten]
  /\ d' = depth - 1
  /\ id' = 0
  /\ stage' = "cacheloop"
  /\ UNCHANGED <<tree, cpuid_info, numHWThreads, pool, stray, socket_type, i,
                 numCacheLevels>>

\* One iteration for depth d: a depth without caches is skipped; else the
\* first cache there is read, and its inclusiveness is looked up along its
\* cousins.  If none has it the loop breaks, with the entry written but for
\* its inclusive field, and the function sets numCacheLevels.
CacheStep ==
  LET level == AtDepth(tree, d)
      obj == Obj(tree, level[1])
      withInfo == SelectInSeq(level, LAMBDA q : Obj(tree, q).attr.incl # "none")
      entry == CacheEntry(obj)
  IN
  /\ stage = "cacheloop"
  /\ d >= 0
  /\ IF DepthType(tree, d) # "CACHE"
     THEN d' = d - 1 /\ UNCHANGED <<cachePool, id, stage, numCacheLevels>>
     ELSE IF withInfo = 0
     THEN /\ cachePool' = [cachePool EXCEPT ![id] = entry]
          /\ numCacheLevels' = maxNumLevels
          /\ stage' = "done"
          /\ UNCHANGED <<d, id>>
     ELSE /\ cachePool' = [cachePool EXCEPT ![id] =
                 [entry EXCEPT !.inclusive = IF Obj(tree, level[withInfo]).attr.incl = "true"
                                            THEN 1 ELSE 0]]
          /\ id' = id + 1
          /\ d' = d - 1
          /\ UNCHANGED <<stage, numCacheLevels>>
  /\ UNCHANGED <<tree, cpuid_info, numHWThreads, pool, stray, socket_type, i, maxNumLevels>>

\* The loop ends: cpuid_topology.numCacheLevels = maxNumLevels.
CacheDone ==
  /\ stage = "cacheloop"
  /\ d < 0
  /\ numCacheLevels' = maxNumLevels
  /\ stage' = "done"
  /\ UNCHANGED <<tree, cpuid_info, numHWThreads, pool, stray, socket_type, i, cachePool,
                 maxNumLevels, d, id>>

Init ==
  /\ tree \in Trees
  /\ stage = "cpuinfo"
  /\ cpuid_info = [model |-> 0, family |-> 0, stepping |-> 0, isIntel |-> 0]
  /\ numHWThreads = 0
  /\ pool = <<>>
  /\ stray = {}
  /\ socket_type = "SOCKET"
  /\ i = 0
  /\ cachePool = <<>>
  /\ maxNumLevels = 0
  /\ d = 0
  /\ id = 0
  /\ numCacheLevels = 0

Next ==
  \/ InitCpuInfo
  \/ InitNodeTopology
  \/ NodeStep
  \/ NodeDone
  \/ InitCacheTopology
  \/ CacheStep
  \/ CacheDone

Spec == Init /\ [][Next]_vars

-----------------------------------------------------------------------------
(* Properties.                                                             *)

TypeOK ==
  /\ tree \in Trees
  /\ stage \in {"cpuinfo", "node", "nodeloop", "cache", "cacheloop", "done", "crash"}
  /\ cpuid_info \in [model : Nat, family : Nat, stepping : Nat, isIntel : {0, 1}]
  /\ numHWThreads \in Nat
  /\ DOMAIN pool = 0 .. numHWThreads - 1 \/ pool = <<>>
  /\ socket_type \in {"SOCKET", "NODE"}
  /\ i \in 0 .. numHWThreads
  /\ DOMAIN cachePool = 0 .. maxNumLevels - 1 \/ cachePool = <<>>
  /\ id \in 0 .. maxNumLevels
  /\ numCacheLevels \in 0 .. maxNumLevels

PUs == ToSet(OfType(tree, "PU"))
PoolBuilt == stage \in {"cache", "cacheloop", "done"}

(* After hwloc_init_nodeTopology every hardware thread of the tree has its *)
(* entry in hwThreadPool under its os_index, and two entries name the same *)
(* (coreId, packageId) exactly when their threads are in the same core:   *)
(* the pair identifies a core even though hwloc numbers cores per socket. *)
ThreadsIdentifyCores ==
  PoolBuilt =>
    /\ \A p \in PUs : Obj(tree, p).os \in DOMAIN pool
                        /\ pool[Obj(tree, p).os].apicId = Obj(tree, p).os
    /\ \A p, q \in PUs :
         LET a == pool[Obj(tree, p).os]
             b == pool[Obj(tree, q).os]
         IN (a.coreId = b.coreId /\ a.packageId = b.packageId)
              <=> UpTo(tree, p, "CORE") = UpTo(tree, q, "CORE")

\* The hardware threads below a cache object, by the tree's paths.
PUsBelow(c) == {p \in PUs : Len(p) > Len(c) /\ SubSeq(p, 1, Len(c)) = c}

(* hwloc_init_cacheTopology lists the cache levels from the bottom: entry *)
(* j describes level j + 1, and its thread count is the number of          *)
(* hardware threads that share one cache of that level.                    *)
CacheLevelsBottomUp ==
  stage = "done" =>
    \A j \in 0 .. numCacheLevels - 1 :
      LET cs == SelectSeq(Dfs(tree), LAMBDA c : Obj(tree, c).type = "CACHE"
                                                /\ Obj(tree, c).attr.level = j + 1)
      IN /\ cachePool[j].level = j + 1
         /\ cachePool[j].threads = Cardinality(PUsBelow(cs[1]))

(* hwloc_init_nodeTopology writes only inside hwThreadPool: every PU's     *)
(* os_index is below numHWThreads.                                         *)
NoStrayWrite == stray = {}

(* numHWThreads counts the hardware threads of every machine, with or     *)
(* without socket objects in its hwloc tree.                               *)
ThreadCountMatches == stage # "cpuinfo" => numHWThreads = Cardinality(PUs)

(* Every cachePool entry counted in numCacheLevels is filled in, its       *)
(* inclusiveness included.                                                  *)
CacheLevelsComplete ==
  stage = "done" =>
    \A j \in 0 .. numCacheLevels - 1 :
      cachePool[j].type # "uninitialized" /\ cachePool[j].inclusive \in {0, 1}

(* Reading the topology never stops the process.                           *)
NoCrash == stage # "crash"


(* hwloc_init_cpuInfo, hwloc_init_nodeTopology and hwloc_init_cacheTopology *)
(* read every hwloc tree, including machines with an offline CPU or        *)
(* without socket, core or inclusiveness information, into tables that     *)
(* describe it: nothing is written outside hwThreadPool (NoStrayWrite), all *)
(* hardware threads are counted (ThreadCountMatches), every counted cache  *)
(* level is filled in (CacheLevelsComplete), and nothing crashes (NoCrash). *)
TopologyDescribesMachine ==
  NoStrayWrite /\ ThreadCountMatches /\ CacheLevelsComplete /\ NoCrash

====
