----------------------------- MODULE AflLayout ------------------------------
(***************************************************************************)
(* How a generated target gets its parameters out of the fuzzer's bytes:   *)
(* the body of the afl closure (api_sequence.rs, _afl_closure_body), the   *)
(* lengths it is computed from (fuzzable_type.rs) and the helper functions *)
(* that are emitted with it (afl_util.rs).                                 *)
(*                                                                         *)
(* A FuzzableType is <<"u16">>, <<"RefStr">>, <<"RefSlice", "u16">> or     *)
(* <<"Tuple", <<ft, ..., ft>>>>; an _AflHelpers value is a FuzzableType    *)
(* too, with <<"NoHelper">> for what has none.  Bytes are numbered from 0. *)
(*                                                                         *)
(* A definition whose comment begins with "Fault" is a faulty variant of   *)
(* the definition after it.                                                *)
(***************************************************************************)
EXTENDS Sequences, Integers, FiniteSets, Bags, SequencesExt, FiniteSetsExt

CONSTANTS
    Targets,    \* the fuzzable_params of the sequences that are emitted
    MaxData     \* a bound on data.len()

ASSUME MaxDataAssumption == MaxData \in Nat

VARIABLES
    pc,                  \* "helpers", "check", "params", "call" or "return"
    fuzzable_params,
    helpers_left,        \* members of the FxHashSet not yet iterated
    contains_slice_flag,
    helper_functions,    \* the bag of functions emitted
    data_len,            \* data.len() of the run
    data_addr,           \* data.as_ptr(), modulo the widest alignment
    param_index,         \* the next parameter, from 1
    fixed_start_index,
    dynamic_param_index,
    reads                \* the bytes each helper call is given, in order

vars == <<pc, fuzzable_params, helpers_left, contains_slice_flag,
          helper_functions, data_len, data_addr, param_index,
          fixed_start_index, dynamic_param_index, reads>>

-----------------------------------------------------------------------------
(* Lengths (fuzzable_type.rs)                                              *)

PrimitiveLength ==
    [p \in {"i8", "u8", "bool"} |-> 1] @@
    [p \in {"i16", "u16"} |-> 2] @@
    [p \in {"i32", "u32", "char", "f32"} |-> 4] @@
    [p \in {"i64", "u64", "f64", "usize", "isize"} |-> 8] @@
    [p \in {"i128", "u128"} |-> 16]

SumOver(s, op(_)) == FoldSeq(LAMBDA x, acc : acc + op(x), 0, s)

RECURSIVE is_fixed_length(_)
is_fixed_length(ft) ==
    CASE ft[1] = "Tuple" -> \A j \in DOMAIN ft[2] : is_fixed_length(ft[2][j])
      [] OTHER -> ft[1] \notin {"RefSlice", "RefStr"}

RECURSIVE min_length(_)
min_length(ft) ==
    CASE ft[1] = "Tuple" -> SumOver(ft[2], min_length)
      [] ft[1] = "RefSlice" -> min_length(Tail(ft))
      [] ft[1] = "RefStr" -> 1
      [] OTHER -> IF ft[1] \in DOMAIN PrimitiveLength
                  THEN PrimitiveLength[ft[1]] ELSE 0

\* Fault: a parameter of dynamic length takes bytes of the fixed part too.
FixedPartIsMinimum(ft) == min_length(ft)

RECURSIVE fixed_part_length(_)
fixed_part_length(ft) ==
    CASE is_fixed_length(ft) -> min_length(ft)
      [] ft[1] = "Tuple" -> SumOver(ft[2], fixed_part_length)
      [] OTHER -> 0

RECURSIVE dynamic_length_param_number(_)
dynamic_length_param_number(ft) ==
    CASE is_fixed_length(ft) -> 0
      [] ft[1] = "Tuple" -> SumOver(ft[2], dynamic_length_param_number)
      [] OTHER -> 1

\* The sums over the parameters of the sequence.
is_fuzzables_fixed_length ==
    \A j \in DOMAIN fuzzable_params : is_fixed_length(fuzzable_params[j])
fuzzables_min_length == SumOver(fuzzable_params, min_length)
fuzzable_fixed_part_length == SumOver(fuzzable_params, fixed_part_length)
total_dynamic_params == SumOver(fuzzable_params, dynamic_length_param_number)

-----------------------------------------------------------------------------
(* Helper functions (afl_util.rs)                                          *)

\* The primitives a value can be built for: not str.
Readable == DOMAIN PrimitiveLength

RECURSIVE new_from_fuzzable(_)
new_from_fuzzable(ft) ==
    CASE ft[1] = "Tuple" ->
           <<"Tuple", [j \in DOMAIN ft[2] |-> new_from_fuzzable(ft[2][j])]>>
      [] ft[1] = "RefSlice" -> <<"RefSlice">> \o new_from_fuzzable(Tail(ft))
      [] ft[1] = "RefStr" -> ft
      [] OTHER -> IF ft[1] \in Readable THEN ft ELSE <<"NoHelper">>

\* The helper that the emitted text of a helper calls, and the distance of
\* the two halves it reads.  A helper that is not here indexes data itself.
BodyCalls ==
    [u16 |-> <<"u8", 1>>,   i16 |-> <<"i8", 1>>,
     u32 |-> <<"u16", 2>>,  i32 |-> <<"i16", 2>>,
     u64 |-> <<"u32", 4>>,  i64 |-> <<"i32", 4>>,
     u128 |-> <<"u64", 8>>, i128 |-> <<"i64", 8>>,
     usize |-> <<"u64", 0>>, isize |-> <<"i64", 0>>,
     char |-> <<"u32", 0>>, bool |-> <<"u8", 0>>]

\* The bytes that helper h reads when it is called for an index.
RECURSIVE BytesRead(_, _)
BytesRead(h, index) ==
    CASE h \in DOMAIN BodyCalls ->
           BytesRead(BodyCalls[h][1], index)
             \cup BytesRead(BodyCalls[h][1], index + BodyCalls[h][2])
      [] h = "f32" -> index .. index + 3
      [] h = "f64" -> index .. index + 7
      [] OTHER -> {index}


\* The generator's own table of which helper needs which.
DependsOn ==
    [bool |-> "u8", u16 |-> "u8", i16 |-> "i8", u32 |-> "u16", i32 |-> "i16",
     u64 |-> "u32", i64 |-> "i32", u128 |-> "u64", i128 |-> "i64",
     usize |-> "u64", isize |-> "i64", char |-> "u32"]

RECURSIVE get_all_dependent_afl_helpers(_)
get_all_dependent_afl_helpers(h) ==
    IF h[1] = "Tuple"
    THEN UNION {get_all_dependent_afl_helpers(h[2][j]) : j \in DOMAIN h[2]}
    ELSE {h} \cup (IF h[1] \in DOMAIN DependsOn
                   THEN get_all_dependent_afl_helpers(<<DependsOn[h[1]]>>)
                   ELSE {})

get_all_dependent_afl_helpers_of_sequence(params) ==
    UNION {get_all_dependent_afl_helpers(new_from_fuzzable(params[j])) :
             j \in DOMAIN params}

\* The name of the function that is emitted: _to_slice is generic.
FunctionOf(h) == IF h[1] = "RefSlice" THEN "slice"
                 ELSE IF h[1] = "RefStr" THEN "str" ELSE h[1]

-----------------------------------------------------------------------------
(* _to_slice reinterprets its bytes as values of the element type T with   *)
(* align_to::<T>() and returns the middle part only: the bytes before the  *)
(* first address that is aligned for T, and those after the last whole T,  *)
(* are dropped.                                                            *)

\* align_of::<T>() of an element, which is a primitive or a tuple of them.
RECURSIVE align_of(_)
align_of(ft) ==
    IF ft[1] = "Tuple"
    THEN Max({1} \cup {align_of(ft[2][j]) : j \in DOMAIN ft[2]})
    ELSE Min({PrimitiveLength[ft[1]], 8})

\* The distance from n to the next multiple of a.
Padding(n, a) == (-n) % a

\* size_of::<T>(): the fields of a tuple are laid out without gaps and padded
\* at the end.
RECURSIVE size_of(_)
size_of(ft) ==
    IF ft[1] = "Tuple"
    THEN LET fields == SumOver(ft[2], size_of)
         IN fields + Padding(fields, align_of(ft))
    ELSE PrimitiveLength[ft[1]]

\* The element types of the slices in a parameter.
RECURSIVE SliceElements(_)
SliceElements(ft) ==
    CASE ft[1] = "Tuple" ->
           UNION {SliceElements(ft[2][j]) : j \in DOMAIN ft[2]}
      [] ft[1] = "RefSlice" -> {Tail(ft)}
      [] OTHER -> {}

\* Alignments are powers of two, so the address of data only matters modulo
\* the widest of the target.
widest_align ==
    Max({1} \cup {align_of(elem) :
          elem \in UNION {SliceElements(fuzzable_params[j]) :
                            j \in DOMAIN fuzzable_params}})

\* The bytes of data[start..end] that make up the slice.
to_slice(elem, start, end) ==
    LET size  == size_of(elem)
        first == start + Padding(data_addr + start, align_of(elem))
    IN IF size = 0 \/ first > end THEN {}
       ELSE first .. first + ((end - first) \div size) * size - 1

-----------------------------------------------------------------------------
(* The reads of one parameter (_generate_param_initial_rhs).  dyn is the   *)
(* run-time value of dynamic_length.                                       *)

\* A helper is given some bytes; its value is made of them or, for a slice,
\* of some of them.
ReadPart(h, bytes, value) ==
    [helper |-> FunctionOf(h), type |-> h, bytes |-> bytes, value |-> value]
Read(h, bytes) == ReadPart(h, bytes, bytes)

\* Fault: the last one takes no more than the others.
EqualShares(start, j, dyn) == start + (j + 1) * dyn

\* Where dynamic parameter j ends: the last one takes the rest.
latter_index(start, j, dyn) ==
    IF j = total_dynamic_params - 1 THEN data_len ELSE start + (j + 1) * dyn

RECURSIVE generate_param_initial_rhs(_, _, _, _)
generate_param_initial_rhs(ft, fixed, j, dyn) ==
    LET h == new_from_fuzzable(ft)
        part == fuzzable_fixed_part_length
        start == part + j * dyn
        end == latter_index(part, j, dyn)
        Then(acc, t) ==
          [reads |-> acc.reads
                       \o generate_param_initial_rhs(t, acc.fixed, acc.j, dyn),
           fixed |-> acc.fixed + fixed_part_length(t),
           j     |-> acc.j + dynamic_length_param_number(t)]
    IN CASE h[1] = "Tuple" ->
              FoldLeft(Then, [reads |-> <<>>, fixed |-> fixed, j |-> j],
                       ft[2]).reads
         [] h[1] = "RefStr" -> <<Read(h, start .. end - 1)>>
         [] h[1] = "RefSlice" ->
              <<ReadPart(h, start .. end - 1, to_slice(Tail(h), start, end))>>
         [] h[1] = "NoHelper" -> <<Read(h, {})>>
         [] OTHER -> <<Read(h, BytesRead(h[1], fixed))>>

-----------------------------------------------------------------------------
Init ==
    /\ pc = "helpers"
    /\ fuzzable_params \in Targets
    /\ helpers_left =
         get_all_dependent_afl_helpers_of_sequence(fuzzable_params)
    /\ contains_slice_flag = FALSE
    /\ helper_functions = EmptyBag
    /\ data_len = 0
    /\ data_addr = 0
    /\ param_index = 1
    /\ fixed_start_index = 0
    /\ dynamic_param_index = 0
    /\ reads = <<>>

\* _get_afl_helpers_functions_of_sequence: both branches of the code push the
\* function.
emit_helper ==
    /\ pc = "helpers"
    /\ \E h \in helpers_left :
         /\ helpers_left' = helpers_left \ {h}
         /\ contains_slice_flag' = (contains_slice_flag \/ h[1] = "RefSlice")
         /\ helper_functions' = helper_functions (+) SetToBag({FunctionOf(h)})
    /\ UNCHANGED <<pc, fuzzable_params, data_len, data_addr, param_index,
                   fixed_start_index, dynamic_param_index, reads>>

\* The file is complete; the target runs on some bytes.
run_target ==
    /\ pc = "helpers"
    /\ helpers_left = {}
    /\ pc' = "check"
    /\ data_len' \in 0 .. MaxData
    /\ data_addr' \in 0 .. widest_align - 1
    /\ UNCHANGED <<fuzzable_params, helpers_left, contains_slice_flag,
                   helper_functions, param_index, fixed_start_index,
                   dynamic_param_index, reads>>

\* Fault: one byte too few is let through.
RejectedTooLate == IF is_fuzzables_fixed_length
                   THEN data_len # fuzzables_min_length
                   ELSE data_len + 1 < fuzzables_min_length

\* if data.len() {op} {min_len} {return;}
Rejected == IF is_fuzzables_fixed_length
            THEN data_len # fuzzables_min_length
            ELSE data_len < fuzzables_min_length

check_length ==
    /\ pc = "check"
    /\ pc' = IF Rejected THEN "return" ELSE "params"
    /\ UNCHANGED <<fuzzable_params, helpers_left, contains_slice_flag,
                   helper_functions, data_len, data_addr, param_index,
                   fixed_start_index, dynamic_param_index, reads>>

\* The definition of dynamic_length is emitted only when it is used.
dynamic_length ==
    IF is_fuzzables_fixed_length THEN 0
    ELSE (data_len - fuzzable_fixed_part_length) \div total_dynamic_params

ReadsOf(ft) == generate_param_initial_rhs(ft, fixed_start_index,
                                          dynamic_param_index, dynamic_length)

read_param ==
    /\ pc = "params"
    /\ param_index \in DOMAIN fuzzable_params
    /\ LET ft == fuzzable_params[param_index] IN
       /\ reads' = reads \o ReadsOf(ft)
       /\ fixed_start_index' = fixed_start_index + fixed_part_length(ft)
       /\ dynamic_param_index' =
            dynamic_param_index + dynamic_length_param_number(ft)
    /\ param_index' = param_index + 1
    /\ UNCHANGED <<pc, fuzzable_params, helpers_left, contains_slice_flag,
                   helper_functions, data_len, data_addr>>

\* _to_char and _to_str end the process when the bytes are no char or no
\* UTF-8.
invalid_value ==
    /\ pc = "params"
    /\ param_index \in DOMAIN fuzzable_params
    /\ LET now == ReadsOf(fuzzable_params[param_index])
       IN \E j \in DOMAIN now : now[j].helper \in {"char", "str"}
    /\ pc' = "return"
    /\ UNCHANGED <<fuzzable_params, helpers_left, contains_slice_flag,
                   helper_functions, data_len, data_addr, param_index,
                   fixed_start_index, dynamic_param_index, reads>>

call_test_function ==
    /\ pc = "params"
    /\ param_index \notin DOMAIN fuzzable_params
    /\ pc' = "call"
    /\ UNCHANGED <<fuzzable_params, helpers_left, contains_slice_flag,
                   helper_functions, data_len, data_addr, param_index,
                   fixed_start_index, dynamic_param_index, reads>>

Terminated == pc \in {"call", "return"} /\ UNCHANGED vars

Next == \/ emit_helper \/ run_target \/ check_length \/ read_param
        \/ invalid_value \/ call_test_function \/ Terminated

Spec == Init /\ [][Next]_vars

-----------------------------------------------------------------------------
(* Properties                                                              *)

BytesOf(j) == reads[j].bytes

\* A target that gets as far as the call has handed out every byte of data,
\* each to one helper, and none outside: the length test, the prefix sums of
\* the fixed lengths, the division and the bodies of the helpers agree.
ReadsPartitionData ==
    /\ \A j \in DOMAIN reads : BytesOf(j) \subseteq 0 .. data_len - 1
    /\ \A i, j \in DOMAIN reads : i # j => BytesOf(i) \cap BytesOf(j) = {}
    /\ pc = "call" =>
         UNION {BytesOf(j) : j \in DOMAIN reads} = 0 .. data_len - 1

\* What _to_slice may drop of its bytes.
Slack(r) ==
    IF r.helper # "slice" THEN 0
    ELSE LET elem == Tail(r.type)
         IN IF size_of(elem) = 0 THEN Cardinality(r.bytes)
            ELSE align_of(elem) - 1 + size_of(elem) - 1

\* Of the bytes that the fuzzer supplies, those that reach no argument are at
\* the ends of slices of wider elements: fewer than one alignment and one
\* element for each such slice, wherever data happens to lie in memory.
OnlySliceEndsAreLost ==
    pc = "call" =>
      Cardinality(0 .. data_len - 1 \ UNION {reads[j].value : j \in DOMAIN reads})
        <= SumOver(reads, Slack)

\* The helpers a helper's emitted text calls, itself included.
RECURSIVE Calls(_)
Calls(f) == {f} \cup IF f \in DOMAIN BodyCalls THEN Calls(BodyCalls[f][1])
                     ELSE {}

SliceTypes == {reads[j].type : j \in {j \in DOMAIN reads :
                                         reads[j].helper = "slice"}}


DynamicReads == {j \in DOMAIN reads : reads[j].helper \in {"slice", "str"}}

\* The sum of the minimum lengths that data is tested against is enough for an
\* even split of the dynamic part, if the parameters of dynamic length need
\* equally many bytes: each helper is given as many as its minimum.
EvenSplitIsEnough ==
    /\ pc = "call"
    /\ \A i, j \in DynamicReads :
          min_length(reads[i].type) = min_length(reads[j].type)
    => \A j \in DOMAIN reads :
          Cardinality(BytesOf(j)) >= min_length(reads[j].type)
=============================================================================
