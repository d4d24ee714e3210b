--------------------------- MODULE MCWorkgroupParser ---------------------------
(***************************************************************************)
(* Inputs for WorkgroupParser: workgroup strings over the domain "S" with  *)
(* sizes in every unit and some malformed ones, no thread count, a valid   *)
(* and an invalid one, and stream lists that are valid, too short,         *)
(* repeat an index, or give a negative, out-of-range or non-numeric        *)
(* index or offset.                                                        *)
(***************************************************************************)
EXTENDS WorkgroupParser

SizeToks == {<<"1", "k", "B">>, <<"2", "M", "B">>, <<"8", "B">>,
             <<"1", "6", "B">>, <<"k", "B">>}
ThreadToks == {<<>>, <<"2">>, <<"-", "1">>}
Workgroups == {<<"S", ":">> \o sz \o (IF t = <<>> THEN <<>> ELSE <<":">> \o t) :
                 sz \in SizeToks, t \in ThreadToks}
StreamParts ==
  { <<>>,
    <<"0", ":", "S">>,
    <<"0", ":", "S", ",", "1", ":", "S">>,
    <<"1", ":", "S", ",", "0", ":", "S", ":", "2">>,
    <<"0", ":", "S", ",", "0", ":", "S">>,
    <<"-", "1", ":", "S", ",", "0", ":", "S">>,
    <<"0", ":", "S", ":", "-", "2", ",", "1", ":", "S">>,
    <<"5", ":", "S">>,
    <<"0", ":", "S", ":", "k">>,
    <<"0", ",", "1", ":", "S">> }

MC_Inputs ==
  {[str |-> w \o (IF sp = <<>> THEN <<>> ELSE <<"-">> \o sp), n |-> k, type |-> ty] :
     w \in Workgroups, sp \in StreamParts, k \in {1, 2}, ty \in {"SINGLE", "DOUBLE"}}

=============================================================================
