---------------------------- MODULE WorkgroupParser ----------------------------
(***************************************************************************)
(* The workgroup parser of likwid-bench (src/bench/src/strUtil.c):        *)
(* bstr_to_workgroup splits "<domain>:<size>[:<threads>[:<chunk>:<stride>]]*)
(* [-<index>:<domain>[:<offset>],...]" into the Workgroup that the        *)
(* benchmark threads use: its size in elements, its thread count, and one *)
(* domain and offset per stream.                                           *)
(*                                                                         *)
(* Strings are sequences of one-character strings, and bsplit, bmidstr and *)
(* strtoul are modelled by what they do to them.  The loop of             *)
(* parse_streams is one step per stream, so that a run shows which stream  *)
(* it reached.  cpustr_to_cpulist and get_cpuTopology lie outside the     *)
(* source: the first succeeds or fails, the second gives TopoThreads.     *)
(***************************************************************************)
EXTENDS Integers, Sequences, SequencesExt

CONSTANTS
  Inputs,      \* set of [str : a string, n : numberOfStreams, type : "SINGLE" | "DOUBLE"]
  TopoThreads  \* activeHWThreads of the CPU topology

EINVAL == 22

DigitVal == [d \in {"0", "1", "2", "3", "4", "5", "6", "7", "8", "9"} |->
               CHOOSE v \in 0 .. 9 : <<"0", "1", "2", "3", "4", "5", "6", "7", "8", "9">>[v + 1] = d]
IsDigit(c) == c \in DOMAIN DigitVal

\* bsplit: the pieces between the separators, empty pieces included.
BSplit(s, sep) ==
  FoldLeft(LAMBDA acc, c : IF c = sep THEN Append(acc, <<>>)
                           ELSE [acc EXCEPT ![Len(acc)] = Append(@, c)],
           <<<<>>>>, s)

\* bmidstr(s, left, len), with left and len clipped to the string.
BMidStr(s, left, len) ==
  LET l == IF left < 0 THEN 0 ELSE left
      k == IF left < 0 THEN len + left ELSE len
      m == IF k > Len(s) - l THEN Len(s) - l ELSE k
  IN IF m <= 0 THEN <<>> ELSE SubSeq(s, l + 1, l + m)

\* The decimal digits at the front of s, as a number (strtoul's loop).
RECURSIVE DigitsValue(_, _)
DigitsValue(s, acc) ==
  IF s # <<>> /\ IsDigit(Head(s)) THEN DigitsValue(Tail(s), acc * 10 + DigitVal[Head(s)])
  ELSE acc

\* Number of digits at the front of s.
DigitRun(s) == SelectInSeq(s \o <<"x">>, LAMBDA c : ~IsDigit(c)) - 1

\* strtoul(str, &endptr, 10) on a token of fewer than ten digits: an
\* optional sign, then the digits; val is the value the (int) cast of
\* str2int turns it into (a leading '-' negates in unsigned arithmetic,
\* which the cast turns back into the negative value), and noDigits says
\* that endptr was left at str.  errno stays 0 below 2^32, so the ERANGE
\* test of str2int cannot fire on these tokens.
Strtoul(s) ==
  LET neg == s # <<>> /\ Head(s) = "-"
      body == IF s # <<>> /\ Head(s) \in {"-", "+"} THEN Tail(s) ELSE s
  IN  [val |-> (IF neg THEN -1 ELSE 1) * DigitsValue(body, 0),
       noDigits |-> DigitRun(body) = 0]

\* A variant of str2int without the endptr == str test.
StrToIntNoDigitCheck(s) == Strtoul(s).val

\* str2int: -EINVAL when strtoul found no digit, else (int) val.  Trailing
\* characters are ignored.
StrToInt(s) == IF Strtoul(s).noDigits THEN -EINVAL ELSE Strtoul(s).val

Bytes(type) == IF type = "SINGLE" THEN 4 ELSE 8

\* A variant of the unit table that reads kB as 1024 bytes.
UnitFactorKibi(u) ==
  CASE u \in {<<"k", "B">>, <<"K", "B">>} -> 1024
    [] u = <<"M", "B">> -> 1000000
    [] u = <<"G", "B">> -> 1000000000
    [] u = <<"B">>      -> 1
    [] OTHER            -> 0

\* The units bstr_to_doubleSize compares its two-character suffix with.
UnitFactor(u) ==
  CASE u \in {<<"k", "B">>, <<"K", "B">>} -> 1000
    [] u = <<"M", "B">> -> 1000000
    [] u = <<"G", "B">> -> 1000000000
    [] u = <<"B">>      -> 1
    [] OTHER            -> 0

\* bstr_to_doubleSize: the last two characters are the unit, the rest the
\* number; the size in elements of the data type, 0 on any error.
BstrToDoubleSize(s, type) ==
  LET unit == BMidStr(s, Len(s) - 2, 2)
      sizeStr == BMidStr(s, 0, Len(s) - 2)
      v == StrToInt(sizeStr)
  IN IF sizeStr = <<>> \/ v < 0 THEN 0
     ELSE (v * UnitFactor(unit)) \div Bytes(type)

\* parse_workgroup: the domain, thread count and size of the workgroup
\* part, or ok = FALSE.  cpuOk is the outcome of cpustr_to_cpulist.
ParseWorkgroup(s, type, cpuOk) ==
  LET tok == BSplit(s, ":")
      q == Len(tok)
      threads == IF q = 2 THEN TopoThreads ELSE StrToInt(tok[3])
      size == BstrToDoubleSize(tok[2], type)
  IN IF q \notin {2, 3, 5} \/ threads < 0 \/ size = 0 \/ ~cpuOk
     THEN [ok |-> FALSE, size |-> 0, threads |-> 0, domain |-> <<>>]
     ELSE [ok |-> TRUE, size |-> size, threads |-> threads, domain |-> tok[1]]

-----------------------------------------------------------------------------

VARIABLES
  input,   \* the arguments of bstr_to_workgroup
  pc,      \* "call", "streams" (in parse_streams), "finish", "done", "crash"
  group,   \* the Workgroup: size, numberOfThreads, streams written, streams freed
  stoks,   \* the stream definitions split at ','
  i,       \* loop index of parse_streams
  ret      \* value bstr_to_workgroup returns

vars == <<input, pc, group, stoks, i, ret>>

NoGroup == [size |-> 0, threads |-> 0, streams |-> <<>>, freed |-> FALSE]

\* A stream entry written at index idx (any int: the array is not checked).
SetStream(streams, idx, v) ==
  [j \in DOMAIN streams \cup {idx} |-> IF j = idx THEN v ELSE streams[j]]

\* bstr_to_workgroup up to parse_streams: split at '-', parse the
\* workgroup part; with no stream part every stream gets the workgroup's
\* domain and the call completes.
Call ==
  LET parts == BSplit(input.str, "-")
  IN
  /\ pc = "call"
  /\ \E cpuOk \in BOOLEAN :
       LET wg == ParseWorkgroup(parts[1], input.type, cpuOk)
       IN
       IF Len(parts) \notin {1, 2} \/ ~wg.ok
       THEN pc' = "done" /\ ret' = 1 /\ UNCHANGED <<group, stoks, i>>
       ELSE IF Len(parts) = 1
       THEN /\ group' = [size |-> wg.size \div input.n, threads |-> wg.threads,
                         streams |-> [j \in 0 .. input.n - 1 |-> [domain |-> wg.domain, offset |-> 0]],
                         freed |-> FALSE]
            /\ pc' = "done" /\ ret' = 0 /\ UNCHANGED <<stoks, i>>
       ELSE /\ group' = [NoGroup EXCEPT !.size = wg.size, !.threads = wg.threads]
            /\ stoks' = BSplit(parts[2], ",")
            /\ i' = 0
            /\ pc' = "streams"
            /\ UNCHANGED ret
  /\ UNCHANGED input

\* The body of the parse_streams loop for stream i.  Reading past the
\* token list is undefined (a NULL entry is dereferenced).
StreamBody ==
  LET sub == BSplit(stoks[i + 1], ":")
      idx == StrToInt(sub[1])
      off == IF Len(sub) = 3 THEN StrToInt(sub[3]) ELSE 0
      fail == pc' = "finish" /\ group' = [group EXCEPT !.freed = TRUE] /\ UNCHANGED i
  IN
  IF i + 1 > Len(stoks)
  THEN pc' = "crash" /\ UNCHANGED <<group, i>>
  ELSE IF Len(sub) < 2 \/ (idx < 0 /\ idx >= input.n)
  THEN fail
  ELSE IF off < 0
  THEN pc' = "finish" /\ group' = [group EXCEPT !.freed = TRUE,
                !.streams = SetStream(@, idx, [domain |-> sub[2], offset |-> off])]
                      /\ UNCHANGED i
  ELSE /\ group' = [group EXCEPT !.streams = SetStream(@, idx, [domain |-> sub[2], offset |-> off])]
       /\ i' = i + 1
       /\ UNCHANGED pc

\* A variant of the loop that runs one iteration too many.
ParseStreamPastEnd ==
  /\ pc = "streams"
  /\ i <= input.n
  /\ StreamBody
  /\ UNCHANGED <<input, stoks, ret>>

\* One iteration of the parse_streams loop: for (i = 0; i < n; i++).
ParseStream ==
  /\ pc = "streams"
  /\ i < input.n
  /\ StreamBody
  /\ UNCHANGED <<input, stoks, ret>>

\* parse_streams returns 0 after the last stream.
StreamsDone ==
  /\ pc = "streams"
  /\ i = input.n
  /\ pc' = "finish"
  /\ UNCHANGED <<input, group, stoks, i, ret>>

\* The end of bstr_to_workgroup: the result of parse_streams is not
\* looked at; the size is divided among the streams and 0 returned.
Finish ==
  /\ pc = "finish"
  /\ group' = [group EXCEPT !.size = @ \div input.n]
  /\ ret' = 0
  /\ pc' = "done"
  /\ UNCHANGED <<input, stoks, i>>

Init ==
  /\ input \in Inputs
  /\ pc = "call"
  /\ group = NoGroup
  /\ stoks = <<>>
  /\ i = 0
  /\ ret = 0

Next == Call \/ ParseStream \/ StreamsDone \/ Finish

Spec == Init /\ [][Next]_vars

-----------------------------------------------------------------------------
(* Reference definitions and properties.                                   *)

TypeOK ==
  /\ input \in Inputs
  /\ pc \in {"call", "streams", "finish", "done", "crash"}
  /\ group.size \in Nat /\ group.threads \in Int /\ group.freed \in BOOLEAN
  /\ DOMAIN group.streams \subseteq Int
  /\ i \in 0 .. input.n
  /\ ret \in {0, 1}

\* The value of a string of decimal digits, most significant first.
RECURSIVE RefDecimal(_)
RefDecimal(s) == IF s = <<>> THEN 0 ELSE RefDecimal(Front(s)) * 10 + DigitVal[Last(s)]

\* The integer a token denotes: an optional sign and at least one digit,
\* then anything; otherwise the error code -EINVAL.
RefInt(s) ==
  LET signed == s # <<>> /\ Head(s) \in {"-", "+"}
      body == IF signed THEN Tail(s) ELSE s
      k == CHOOSE m \in 0 .. Len(body) :
             /\ \A j \in 1 .. m : IsDigit(body[j])
             /\ (m = Len(body) \/ ~IsDigit(body[m + 1]))
  IN IF k = 0 THEN -EINVAL
     ELSE (IF signed /\ Head(s) = "-" THEN -1 ELSE 1) * RefDecimal(SubSeq(body, 1, k))

\* The size token of a workgroup string, and the intended size in
\* elements of a token made of digits and one of the units.
SizeToken(str) ==
  LET w == BSplit(BSplit(str, "-")[1], ":") IN IF Len(w) >= 2 THEN w[2] ELSE <<>>
Units == {<<"k", "B">>, <<"K", "B">>, <<"M", "B">>, <<"G", "B">>, <<"B">>}
RefUnit(tok) ==
  LET ends == {u \in Units : Len(u) <= Len(tok) /\ IsSuffix(u, tok)}
  IN IF ends = {} THEN <<>> ELSE CHOOSE u \in ends : \A v \in ends : Len(v) <= Len(u)
WellFormedSize(tok) ==
  /\ RefUnit(tok) # <<>>
  /\ LET d == SubSeq(tok, 1, Len(tok) - Len(RefUnit(tok)))
     IN d # <<>> /\ \A j \in 1 .. Len(d) : IsDigit(d[j])
RefSize(tok, type) ==
  LET u == RefUnit(tok)
      mult == CASE u = <<"B">> -> 1 [] u \in {<<"k", "B">>, <<"K", "B">>} -> 1000
                [] u = <<"M", "B">> -> 1000000 [] OTHER -> 1000000000
  IN (RefDecimal(SubSeq(tok, 1, Len(tok) - Len(u))) * mult) \div Bytes(type)

(* str2int, the conversion every index, offset, thread count and size of *)
(* the parser goes through, yields the signed decimal value of each token *)
(* that starts with one, whatever follows it, and a negative error code   *)
(* for every other token.                                                  *)
StrToIntMatchesDecimal ==
  \A s \in BoundedSeq({"-", "0", "1", "2", "k"}, 3) :
    StrToInt(s) = RefInt(s)

(* A workgroup whose size is given in kB, KB, MB or GB and that parses     *)
(* gets that size converted to elements of the data type and divided      *)
(* evenly among the streams.                                               *)
SizeMatchesReference ==
  LET tok == SizeToken(input.str)
  IN pc = "done" /\ ret = 0 /\ WellFormedSize(tok) /\ RefUnit(tok) # <<"B">> =>
       group.size = RefSize(tok, input.type) \div input.n

(* The usage text of likwid-bench gives the size as <size>[kB|MB|GB|B]:   *)
(* a workgroup with a size in bytes is read as that size.                  *)
ByteUnitAccepted ==
  LET tok == SizeToken(input.str)
  IN pc = "done" /\ WellFormedSize(tok) =>
       BstrToDoubleSize(tok, input.type) = RefSize(tok, input.type)

(* parse_streams writes only the streams it allocated: every stream index *)
(* it stores is below numberOfStreams and not negative.                    *)
StreamIndicesInRange ==
  DOMAIN group.streams \subseteq 0 .. input.n - 1

(* bstr_to_workgroup reports success only with a stream array that is     *)
(* allocated and has a domain for each of its streams.                     *)
SuccessfulParseHasStreams ==
  pc = "done" /\ ret = 0 => ~group.freed /\ DOMAIN group.streams = 0 .. input.n - 1

(* parse_streams never reads a stream definition the string does not      *)
(* contain: it warns when there are fewer than the test needs.            *)
NoCrash == pc # "crash"

(* The stream array of the workgroup matches its numberOfStreams: no      *)
(* index outside 0 .. numberOfStreams-1 is ever written, parse_streams    *)
(* reads no more stream definitions than the string holds, and a          *)
(* successful bstr_to_workgroup leaves the array allocated with every     *)
(* index present.                                                          *)
StreamsMatchCount == StreamIndicesInRange /\ NoCrash /\ SuccessfulParseHasStreams

=============================================================================
