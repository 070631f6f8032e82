---------------------------- MODULE ApiSequence -----------------------------
(***************************************************************************)
(* The data of one fuzz target: a list of API calls with where each of     *)
(* their arguments comes from (api_sequence.rs).  Only the operators that  *)
(* need no knowledge of the API graph are here.                            *)
(*                                                                         *)
(* Positions are 1-based.  An argument is the return value of an earlier   *)
(* call ("return", index = position of that call) or a value read from the *)
(* fuzzer's bytes ("fuzzable", index = slot in fuzzable_params).           *)
(***************************************************************************)
EXTENDS Sequences, Integers

ParamKinds == {"fuzzable", "return"}

Param(kind, index, ct) == [kind |-> kind, index |-> index, call_type |-> ct]

ApiCall(f) == [func |-> f, params |-> <<>>]

NewSequence ==
    [functions            |-> <<>>,
     fuzzable_params      |-> <<>>,
     using_traits         |-> <<>>,
     unsafe_tag           |-> FALSE,
     moved                |-> {},
     fuzzable_mut_tag     |-> {},
     function_mut_tag     |-> {},
     covered_dependencies |-> {}]

\* The index the next fuzzable parameter gets.
NextSlot(s) == Len(s.fuzzable_params) + 1

has_no_fuzzables(s) == s.fuzzable_params = <<>>

last_api_func_index(s) == s.functions[Len(s.functions)].func

\* The positions of s whose result is an argument of the call at position c.
ReturnsUsedBy(s, c) ==
    {s.functions[c].params[k].index :
       k \in {j \in DOMAIN s.functions[c].params :
                s.functions[c].params[j].kind = "return"}}

\* Fault: the tags of the other sequence are not renumbered.
Unshifted(S, n) == S
\* Fault: the tags are renumbered in the wrong direction.
ShiftDown(S, n) == {x - n : x \in S}

Shift(S, n) == {x + n : x \in S}

\* Fault: slots are renumbered by the number of calls.
ShiftByCalls(call, nf, nz) ==
    [call EXCEPT !.params =
        [k \in DOMAIN call.params |-> [call.params[k] EXCEPT !.index = @ + nf]]]

\* Fault: slots are not renumbered.
ShiftReturnsOnly(call, nf, nz) ==
    [call EXCEPT !.params =
        [k \in DOMAIN call.params |->
            [call.params[k] EXCEPT !.index =
                @ + (IF call.params[k].kind = "fuzzable" THEN 0 ELSE nf)]]]

\* A call of the other sequence, renumbered behind nf calls and nz slots.
ShiftCall(call, nf, nz) ==
    [call EXCEPT !.params =
        [k \in DOMAIN call.params |->
            [call.params[k] EXCEPT !.index =
                @ + (IF call.params[k].kind = "fuzzable" THEN nz ELSE nf)]]]

\* _merge_another_sequence.  The other sequence's covered dependencies are
\* not taken over.
MergeAnother(self, other) ==
    LET nf == Len(self.functions)
        nz == Len(self.fuzzable_params)
    IN [functions |->
            self.functions \o
            [c \in DOMAIN other.functions |->
                ShiftCall(other.functions[c], nf, nz)],
        fuzzable_params  |-> self.fuzzable_params \o other.fuzzable_params,
        using_traits     |-> self.using_traits \o other.using_traits,
        unsafe_tag       |-> self.unsafe_tag \/ other.unsafe_tag,
        moved            |-> self.moved \cup Shift(other.moved, nf),
        fuzzable_mut_tag |-> self.fuzzable_mut_tag
                               \cup Shift(other.fuzzable_mut_tag, nz),
        function_mut_tag |-> self.function_mut_tag
                               \cup Shift(other.function_mut_tag, nf),
        covered_dependencies |-> self.covered_dependencies]
=============================================================================
