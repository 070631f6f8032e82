------------------------------ MODULE ApiGraph ------------------------------
(***************************************************************************)
(* The generator's core (api_graph.rs): the functions of a crate are       *)
(* collected and filtered, the dependency graph between them is built, and *)
(* call sequences are generated by a breadth-first search that is followed *)
(* by a backward search for the functions it did not reach                 *)
(* (default_generate_sequences).                                           *)
(*                                                                         *)
(* The code is sequential.  What is not determined by the input crate is   *)
(* the order in which the backward search takes the members of a HashSet.  *)
(*                                                                         *)
(* What the code decides by looking at types is given by the constant      *)
(* operators below, so that the results hold for every such decision;      *)
(* module ApiUtil translates the decisions the code makes.                 *)
(*                                                                         *)
(* A definition whose comment begins with "Fault" is a faulty variant of   *)
(* the definition after it; PROJECT.json says which property notices it.   *)
(***************************************************************************)
EXTENDS ApiSequence, FiniteSets

CONSTANTS
    Types,          \* clean::Type
    NoOutput,       \* the None of ApiFunction.output
    Traits,         \* full paths of traits
    NoTrait,        \* the None of ApiFunction._trait_full_path
    Names,          \* full names of functions
    Crates,         \* the API lists a run is started on
    MaxLen,         \* max_len of bfs
    StopAtEnd,      \* stop_at_end_function of bfs
    FastModes       \* the values of fast_mode a run is started with

CONSTANTS
    NotCompatible,         \* CallType::_NotCompatible
    NoFuzzableType,        \* FuzzableType::NoFuzzable
    SameType(_, _),        \* _same_type of an output and an input type
    IsFuzzable(_),         \* is_fuzzable_type
    FuzzableTypeOf(_),     \* what is read from the bytes for a parameter
    FuzzableCallOf(_),     \* how that value is passed
    IsMultiDynamic(_),     \* _is_multiple_dynamic_length of a FuzzableType
    MoveCondition(_, _),   \* _move_condition
    MutableBorrow(_, _),   \* _is_mutable_borrow_occurs
    ImmutableBorrow(_, _), \* _is_immutable_borrow_occurs
    NeedMutTag(_),         \* _need_mut_tag
    UnsafeCall(_),         \* unsafe_call_type()._is_unsafe()
    IsEndType(_),          \* _is_end_type
    IsGenericType(_),      \* _is_generic_type
    IsMutBorrowType(_),    \* a &mut or *mut type
    PreludeFunction(_),    \* the function or its trait is of a prelude type
    InvisibleFunction(_)   \* the function or its trait is in a private mod

ApiFunctions == [full_name : Names, inputs : Seq(Types),
                 output : Types \cup {NoOutput},
                 unsafe : BOOLEAN, trait : Traits \cup {NoTrait}]

ASSUME CratesAssumption == Crates \subseteq Seq(ApiFunctions)
ASSUME MaxLenAssumption == MaxLen \in Nat
ASSUME ModeAssumption == StopAtEnd \in BOOLEAN /\ FastModes \subseteq BOOLEAN
ASSUME NoOutputAssumption == NoOutput \notin Types

VARIABLES
    pc,                     \* where the driver is
    items,                  \* functions of the crate not yet added
    api_functions,
    generic_functions,
    unsupported,            \* functions_with_unsupported_fuzzable_types
    api_dependencies,
    fast_mode,              \* of bfs
    api_sequences,
    api_functions_visited,
    \* is_fun_satisfied
    caller,                 \* who asked: "bfs" or "cover"
    new_sequence,
    api_call,
    moved_indexes,
    multi_mut,
    immutable_borrow,
    \* bfs
    len,
    tmp_sequences,          \* positions in api_sequences
    next_fun,
    \* _try_to_cover_unvisited_nodes
    unvisited_nodes,
    rounds_left,
    candidates,             \* positions in api_sequences
    todo,                   \* members of unvisited_nodes not yet iterated
    covered,                \* covered_node_this_iteration
    dependents,             \* dependent_sequence_indexes, by parameter
    to_merge,               \* parameters whose sequence is not merged yet
    algorithm_error         \* "Should not go to here" has been printed

graphVars  == <<api_functions, generic_functions, unsupported>>
resultVars == <<api_sequences, api_functions_visited>>
satVars    == <<caller, new_sequence, api_call, moved_indexes, multi_mut,
                immutable_borrow>>
bfsVars    == <<len, tmp_sequences, next_fun>>
roundVars  == <<unvisited_nodes, rounds_left, candidates, todo, covered>>
mergeVars  == <<dependents, to_merge>>
coverVars  == <<roundVars, mergeVars, algorithm_error>>
vars == <<pc, items, graphVars, api_dependencies, fast_mode, resultVars,
          satVars, bfsVars, coverVars>>

-----------------------------------------------------------------------------
(* ApiFunction (api_function.rs)                                           *)

contains_mut_borrow(fn) ==
    \E k \in DOMAIN fn.inputs : IsMutBorrowType(fn.inputs[k])

is_end_function(fn) ==
    /\ ~contains_mut_borrow(fn)
    /\ fn.output = NoOutput \/ IsEndType(fn.output)

is_start_function(fn) == \A k \in DOMAIN fn.inputs : IsEndType(fn.inputs[k])

is_generic_function(fn) ==
    \/ \E k \in DOMAIN fn.inputs : IsGenericType(fn.inputs[k])
    \/ fn.output # NoOutput /\ IsGenericType(fn.output)

\* Fault: types that cannot be read at all are let through.
ContainsMultiDynamicType(fn) ==
    \E k \in DOMAIN fn.inputs :
        IsFuzzable(fn.inputs[k]) /\ IsMultiDynamic(FuzzableTypeOf(fn.inputs[k]))

contains_unsupported_fuzzable_type(fn) ==
    \E k \in DOMAIN fn.inputs :
        /\ IsFuzzable(fn.inputs[k])
        /\ \/ FuzzableTypeOf(fn.inputs[k]) = NoFuzzableType
           \/ IsMultiDynamic(FuzzableTypeOf(fn.inputs[k]))
           \/ FuzzableCallOf(fn.inputs[k]) = NotCompatible

-----------------------------------------------------------------------------
(* The dependency graph                                                    *)

Funs == DOMAIN api_functions
InputsOf(f) == api_functions[f].inputs

Dependency(o, i, k) ==
    [output_fun |-> o, input_fun |-> i, input_param_index |-> k,
     call_type |-> SameType(api_functions[o].output, InputsOf(i)[k])]

\* Every edge find_all_dependencies pushes; an edge is determined by its two
\* functions and the parameter, so that its index in the vector is left out.
AllDependencies ==
    {Dependency(e[1], e[2], e[3]) :
       e \in {e \in Funs \X Funs \X UNION {DOMAIN InputsOf(j) : j \in Funs} :
                /\ ~is_end_function(api_functions[e[1]])
                /\ api_functions[e[1]].output # NoOutput
                /\ ~is_start_function(api_functions[e[2]])
                /\ e[3] \in DOMAIN InputsOf(e[2])
                /\ SameType(api_functions[e[1]].output, InputsOf(e[2])[e[3]])
                     # NotCompatible}}

\* Fault: the parameter is not compared.
CheckFunctionsOnly(o, i, k) ==
    \E d \in api_dependencies : d.output_fun = o /\ d.input_fun = i

check_dependency(o, i, k) ==
    \E d \in api_dependencies :
        d.output_fun = o /\ d.input_fun = i /\ d.input_param_index = k

is_sequence_ended(s) ==
    /\ s.functions # <<>>
    /\ is_end_function(api_functions[last_api_func_index(s)])

\* _dead_code: no later call uses the result at c, nor a result that the
\* call at c changed through a mutable borrow.
IsDead(s, c) ==
    /\ \A u \in DOMAIN s.functions : c \notin ReturnsUsedBy(s, u)
    /\ \A k \in DOMAIN s.functions[c].params :
          LET p == s.functions[c].params[k] IN
          ~ /\ p.kind = "return"
            /\ MutableBorrow(InputsOf(s.functions[c].func)[k], p.call_type)
            /\ \E u \in DOMAIN s.functions :
                  u > c /\ p.index \in ReturnsUsedBy(s, u)

\* Fault: the last call counts as dead code too.
ContainsDeadCode(s) == \E c \in 1 .. Len(s.functions) : IsDead(s, c)

contains_dead_code_except_last_one(s) ==
    \E c \in 1 .. Len(s.functions) - 1 : IsDead(s, c)

-----------------------------------------------------------------------------
Init ==
    /\ pc = "collect"
    /\ items \in Crates
    /\ api_functions = <<>>
    /\ generic_functions = <<>>
    /\ unsupported = {}
    /\ api_dependencies = {}
    /\ fast_mode \in FastModes
    /\ api_sequences = <<>>
    /\ api_functions_visited = <<>>
    /\ caller = "bfs"
    /\ new_sequence = NewSequence
    /\ api_call = ApiCall(1)
    /\ moved_indexes = {}
    /\ multi_mut = {}
    /\ immutable_borrow = {}
    /\ len = 0
    /\ tmp_sequences = {}
    /\ next_fun = 1
    /\ unvisited_nodes = {}
    /\ rounds_left = 0
    /\ candidates = {}
    /\ todo = {}
    /\ covered = {}
    /\ dependents = <<>>
    /\ to_merge = {}
    /\ algorithm_error = FALSE

\* One API of the crate reaches the graph (analyse_clean_krate, impl_util).
add_api_function ==
    /\ pc = "collect"
    /\ items # <<>>
    /\ items' = Tail(items)
    /\ LET fn == Head(items) IN
       IF is_generic_function(fn)
       THEN /\ generic_functions' = Append(generic_functions, fn)
            /\ UNCHANGED <<api_functions, unsupported>>
       ELSE IF contains_unsupported_fuzzable_type(fn)
       THEN /\ unsupported' = unsupported \cup {fn.full_name}
            /\ UNCHANGED <<api_functions, generic_functions>>
       ELSE /\ api_functions' = Append(api_functions, fn)
            /\ UNCHANGED <<generic_functions, unsupported>>
    /\ UNCHANGED <<pc, api_dependencies, fast_mode, resultVars, satVars,
                   bfsVars, coverVars>>

\* filter_functions drains api_functions and puts back what is neither of
\* another crate's type nor in a private module; the two filters keep the
\* order, so that one pass with both tests gives the same vector.
filter_start ==
    /\ pc = "collect"
    /\ items = <<>>
    /\ pc' = "filter"
    /\ items' = api_functions
    /\ api_functions' = <<>>
    /\ UNCHANGED <<generic_functions, unsupported, api_dependencies, fast_mode,
                   resultVars, satVars, bfsVars, coverVars>>

filter_function ==
    /\ pc = "filter"
    /\ items # <<>>
    /\ items' = Tail(items)
    /\ api_functions' =
         IF PreludeFunction(Head(items)) \/ InvisibleFunction(Head(items))
         THEN api_functions ELSE Append(api_functions, Head(items))
    /\ UNCHANGED <<pc, generic_functions, unsupported, api_dependencies,
                   fast_mode, resultVars, satVars, bfsVars, coverVars>>

find_all_dependencies ==
    /\ pc = "filter"
    /\ items = <<>>
    /\ pc' = "bfs"
    /\ api_dependencies' = AllDependencies
    /\ UNCHANGED <<items, graphVars, fast_mode, resultVars, satVars, bfsVars,
                   coverVars>>

-----------------------------------------------------------------------------
(* is_fun_satisfied: can function f be called after sequence s?  One step  *)
(* enters it, one step treats each parameter, one step appends the call.   *)
(* The parameter being treated is the one after those already in api_call. *)

Satisfy(s, f, who) ==
    /\ pc' = "param"
    /\ caller' = who
    /\ api_call' = ApiCall(f)
    /\ new_sequence' =
         [s EXCEPT !.unsafe_tag = @ \/ api_functions[f].unsafe,
                   !.using_traits = IF api_functions[f].trait = NoTrait THEN @
                                    ELSE Append(@, api_functions[f].trait)]
    /\ moved_indexes' = {}
    /\ multi_mut' = {}
    /\ immutable_borrow' = {}

CurrentParam == Len(api_call.params) + 1

\* Fault: the last parameter is forgotten.
MoreParamsButLast == CurrentParam + 1 \in DOMAIN InputsOf(api_call.func)

MoreParams   == CurrentParam \in DOMAIN InputsOf(api_call.func)
CurrentType  == InputsOf(api_call.func)[CurrentParam]

EdgeFrom(r) ==
    Dependency(new_sequence.functions[r].func, api_call.func, CurrentParam)
CallTypeFrom(r) == EdgeFrom(r).call_type

\* Fault: what earlier calls moved is forgotten.
AvailableIfMoved(r) ==
    /\ r \notin moved_indexes
    /\ check_dependency(new_sequence.functions[r].func, api_call.func,
                        CurrentParam)

\* The return value of the call at r exists still and has the right type.
Available(r) ==
    /\ r \notin new_sequence.moved \cup moved_indexes
    /\ check_dependency(new_sequence.functions[r].func, api_call.func,
                        CurrentParam)

\* Fault: only moves are tested for a conflict.
ConflictOfMovesOnly(r) ==
    /\ MoveCondition(CurrentType, CallTypeFrom(r))
    /\ r \in multi_mut \cup immutable_borrow

\* Taking it would clash with what an earlier parameter of the call took.
\* (The three checks of the code fail on exactly these cases: an input type
\* cannot be both a mutable and an immutable borrow.)
Conflict(r) ==
    \/ /\ \/ MoveCondition(CurrentType, CallTypeFrom(r))
          \/ MutableBorrow(CurrentType, CallTypeFrom(r))
       /\ r \in multi_mut \cup immutable_borrow
    \/ /\ ImmutableBorrow(CurrentType, CallTypeFrom(r))
       /\ r \in multi_mut

Fits(r) == Available(r) /\ ~Conflict(r)

\* Fault: the mut tag is forgotten.
WithReturnUntagged(r, ct) ==
    [new_sequence EXCEPT
       !.covered_dependencies =
           @ \cup {EdgeFrom(q) : q \in {q \in 1 .. r : Available(q)}},
       !.unsafe_tag = @ \/ UnsafeCall(ct)]

\* new_sequence once a parameter takes the result of the call at r.  The
\* edges to the available results that were refused before r count as
\* covered too: _add_dependency comes before the checks.
WithReturn(r, ct) ==
    [new_sequence EXCEPT
       !.covered_dependencies =
           @ \cup {EdgeFrom(q) : q \in {q \in 1 .. r : Available(q)}},
       !.function_mut_tag = IF NeedMutTag(ct) THEN @ \cup {r} ELSE @,
       !.unsafe_tag = @ \/ UnsafeCall(ct)]

\* The first return value that fits is taken.
TakeReturn(r) ==
    /\ Fits(r)
    /\ \A q \in 1 .. r - 1 : ~Fits(q)
    /\ LET ct == CallTypeFrom(r) IN
       /\ moved_indexes' =
            IF MoveCondition(CurrentType, ct)
            THEN moved_indexes \cup {r} ELSE moved_indexes
       /\ multi_mut' =
            IF MutableBorrow(CurrentType, ct)
            THEN multi_mut \cup {r} ELSE multi_mut
       /\ immutable_borrow' =
            IF ImmutableBorrow(CurrentType, ct)
            THEN immutable_borrow \cup {r} ELSE immutable_borrow
       /\ new_sequence' = WithReturn(r, ct)
       /\ api_call' =
            [api_call EXCEPT !.params = Append(@, Param("return", r, ct))]
    /\ UNCHANGED <<pc, items, graphVars, api_dependencies, fast_mode,
                   resultVars, caller, bfsVars, coverVars>>

return_param ==
    /\ pc = "param"
    /\ MoreParams
    /\ ~IsFuzzable(CurrentType)
    /\ \E r \in DOMAIN new_sequence.functions : TakeReturn(r)

fuzzable_param ==
    /\ pc = "param"
    /\ MoreParams
    /\ IsFuzzable(CurrentType)
    /\ FuzzableTypeOf(CurrentType) # NoFuzzableType
    /\ LET slot == NextSlot(new_sequence)
           ct   == FuzzableCallOf(CurrentType)
       IN /\ new_sequence' =
               [new_sequence EXCEPT
                  !.fuzzable_params = Append(@, FuzzableTypeOf(CurrentType)),
                  !.fuzzable_mut_tag =
                      IF NeedMutTag(ct) THEN @ \cup {slot} ELSE @]
          /\ api_call' =
               [api_call EXCEPT !.params = Append(@, Param("fuzzable", slot, ct))]
    /\ UNCHANGED <<pc, items, graphVars, api_dependencies, fast_mode,
                   resultVars, caller, moved_indexes, multi_mut,
                   immutable_borrow, bfsVars, coverVars>>

\* return None from the middle of the parameters.
refuse_param ==
    /\ pc = "param"
    /\ MoreParams
    /\ IF IsFuzzable(CurrentType)
       THEN FuzzableTypeOf(CurrentType) = NoFuzzableType
       ELSE \A r \in DOMAIN new_sequence.functions : ~Fits(r)
    /\ pc' = "none"
    /\ UNCHANGED <<items, graphVars, api_dependencies, fast_mode, resultVars,
                   satVars, bfsVars, coverVars>>

\* The call is appended.  A function without parameters returns before the
\* test for values with several dynamic dimensions.
add_fn ==
    /\ pc = "param"
    /\ ~MoreParams
    /\ new_sequence' =
         [new_sequence EXCEPT !.functions = Append(@, api_call),
                              !.moved = @ \cup moved_indexes]
    /\ pc' = IF /\ InputsOf(api_call.func) # <<>>
                /\ \E z \in DOMAIN new_sequence.fuzzable_params :
                       IsMultiDynamic(new_sequence.fuzzable_params[z])
             THEN "none" ELSE "some"
    /\ UNCHANGED <<items, graphVars, api_dependencies, fast_mode, resultVars,
                   caller, api_call, moved_indexes, multi_mut,
                   immutable_borrow, bfsVars, coverVars>>

\* Fault: the function is not marked.
PushUnmarked ==
    /\ api_sequences' = Append(api_sequences, new_sequence)
    /\ UNCHANGED api_functions_visited

\* Both callers keep an accepted sequence and mark its function visited.
PushNewSequence ==
    /\ api_sequences' = Append(api_sequences, new_sequence)
    /\ api_functions_visited' =
         [api_functions_visited EXCEPT ![api_call.func] = TRUE]

-----------------------------------------------------------------------------
(* bfs(MaxLen, StopAtEnd, fast_mode)                                       *)

bfs_start ==
    /\ pc = "bfs"
    /\ api_functions_visited' = [f \in Funs |-> FALSE]
    /\ len' = 0
    /\ IF MaxLen < 1
       THEN api_sequences' = <<>> /\ pc' = "cover"
       ELSE api_sequences' = <<NewSequence>> /\ pc' = "level"
    /\ UNCHANGED <<items, graphVars, api_dependencies, fast_mode, satVars,
                   tmp_sequences, next_fun, coverVars>>

\* Fault: end functions do not stop a sequence.
ToExtendPastEnd(n) == Len(api_sequences[n].functions) = len

\* Fault: shorter sequences are extended again.
ToExtendAgain(n) ==
    /\ Len(api_sequences[n].functions) <= len
    /\ ~(StopAtEnd /\ is_sequence_ended(api_sequences[n]))

ToExtend(n) ==
    /\ Len(api_sequences[n].functions) = len
    /\ ~(StopAtEnd /\ is_sequence_ended(api_sequences[n]))

\* The sequences of length len.
bfs_level ==
    /\ pc = "level"
    /\ len < MaxLen
    /\ tmp_sequences' = {n \in DOMAIN api_sequences : ToExtend(n)}
    /\ next_fun' = 1
    /\ pc' = "extend"
    /\ UNCHANGED <<items, graphVars, api_dependencies, fast_mode, resultVars,
                   satVars, len, coverVars>>

\* The sequences are taken in the order they were generated.
FirstOf(n) == \A m \in tmp_sequences : n <= m

\* Fault: fast mode is ignored.
NeverSkip(f) == FALSE

SkipFun(f) == fast_mode /\ api_functions_visited[f]

bfs_try ==
    /\ pc = "extend"
    /\ next_fun \in Funs
    /\ ~SkipFun(next_fun)
    /\ next_fun' = next_fun + 1
    /\ \E n \in tmp_sequences :
          FirstOf(n) /\ Satisfy(api_sequences[n], next_fun, "bfs")
    /\ UNCHANGED <<items, graphVars, api_dependencies, fast_mode, resultVars,
                   len, tmp_sequences, coverVars>>

bfs_skip ==
    /\ pc = "extend"
    /\ tmp_sequences # {}
    /\ next_fun \in Funs
    /\ SkipFun(next_fun)
    /\ next_fun' = next_fun + 1
    /\ UNCHANGED <<pc, items, graphVars, api_dependencies, fast_mode,
                   resultVars, satVars, len, tmp_sequences, coverVars>>

bfs_return ==
    /\ pc \in {"some", "none"}
    /\ caller = "bfs"
    /\ pc' = "extend"
    /\ IF pc = "some" THEN PushNewSequence ELSE UNCHANGED resultVars
    /\ UNCHANGED <<items, graphVars, api_dependencies, fast_mode, satVars,
                   bfsVars, coverVars>>

bfs_next_sequence ==
    /\ pc = "extend"
    /\ next_fun \notin Funs
    /\ \E n \in tmp_sequences :
          FirstOf(n) /\ tmp_sequences' = tmp_sequences \ {n}
    /\ next_fun' = 1
    /\ UNCHANGED <<pc, items, graphVars, api_dependencies, fast_mode,
                   resultVars, satVars, len, coverVars>>

bfs_next_level ==
    /\ pc = "extend"
    /\ tmp_sequences = {}
    /\ len' = len + 1
    /\ pc' = "level"
    /\ UNCHANGED <<items, graphVars, api_dependencies, fast_mode, resultVars,
                   satVars, tmp_sequences, next_fun, coverVars>>

\* Without StopAtEnd the process exits at the end of bfs.
bfs_end ==
    /\ pc = "level"
    /\ len >= MaxLen
    /\ pc' = IF StopAtEnd THEN "cover" ELSE "done"
    /\ UNCHANGED <<items, graphVars, api_dependencies, fast_mode, resultVars,
                   satVars, bfsVars, coverVars>>

-----------------------------------------------------------------------------
(* _try_to_cover_unvisited_nodes                                           *)

Needed(f) == {k \in DOMAIN InputsOf(f) : ~IsFuzzable(InputsOf(f)[k])}

\* _choose_candidate_sequence_for_merge
choose_candidate_sequence_for_merge ==
    {n \in DOMAIN api_sequences :
       LET s == api_sequences[n] IN
       /\ ~is_sequence_ended(s)
       /\ s.functions # <<>>
       /\ ~contains_dead_code_except_last_one(s)}

\* The candidates whose last result can be parameter k of f.
Suppliers(f, k) ==
    {n \in candidates :
       check_dependency(last_api_func_index(api_sequences[n]), f, k)}

\* The first supplier with fuzzable parameters, else the last supplier.
ChosenSupplier(f, k) ==
    LET S == Suppliers(f, k)
        F == {n \in S : ~has_no_fuzzables(api_sequences[n])}
    IN IF F # {} THEN CHOOSE n \in F : \A m \in F : n <= m
                 ELSE CHOOSE n \in S : \A m \in S : m <= n

CanBeCovered(f) == \A k \in Needed(f) : Suppliers(f, k) # {}

\* Fault: one round too few.
OneRoundLess(S) == IF S = {} THEN 0 ELSE Cardinality(S) - 1

\* Each round but the last takes at least one node off unvisited_nodes.
RoundLimit(S) == Cardinality(S)

cover_start ==
    /\ pc = "cover"
    /\ unvisited_nodes' = {f \in Funs : ~api_functions_visited[f]}
    /\ rounds_left' = RoundLimit(unvisited_nodes')
    /\ pc' = "round"
    /\ UNCHANGED <<items, graphVars, api_dependencies, fast_mode, resultVars,
                   satVars, bfsVars, candidates, todo, covered, mergeVars,
                   algorithm_error>>

cover_round ==
    /\ pc = "round"
    /\ rounds_left > 0
    /\ rounds_left' = rounds_left - 1
    /\ covered' = {}
    /\ candidates' = choose_candidate_sequence_for_merge
    /\ todo' = unvisited_nodes
    /\ pc' = "node"
    /\ UNCHANGED <<items, graphVars, api_dependencies, fast_mode, resultVars,
                   satVars, bfsVars, unvisited_nodes, mergeVars,
                   algorithm_error>>

\* Fault: a node without suppliers is put back, to be tried again this round.
PutBack(f) ==
    /\ pc = "node"
    /\ ~CanBeCovered(f)
    /\ UNCHANGED vars

\* The members of unvisited_nodes come in the order of a HashSet.
cover_skip(f) ==
    /\ pc = "node"
    /\ ~CanBeCovered(f)
    /\ todo' = todo \ {f}
    /\ UNCHANGED <<pc, items, graphVars, api_dependencies, fast_mode,
                   resultVars, satVars, bfsVars, unvisited_nodes, rounds_left,
                   candidates, covered, mergeVars, algorithm_error>>

cover_node(f) ==
    /\ pc = "node"
    /\ CanBeCovered(f)
    /\ todo' = todo \ {f}
    /\ dependents' = [k \in Needed(f) |-> ChosenSupplier(f, k)]
    /\ to_merge' = Needed(f)
    /\ new_sequence' = NewSequence
    /\ api_call' = ApiCall(f)
    /\ pc' = "merge"
    /\ UNCHANGED <<items, graphVars, api_dependencies, fast_mode, resultVars,
                   caller, moved_indexes, multi_mut, immutable_borrow,
                   bfsVars, unvisited_nodes, rounds_left, candidates, covered,
                   algorithm_error>>

\* _merge_sequences: the first sequence is cloned, the others are merged
\* into it in the order of the parameters.
merge_sequences ==
    /\ pc = "merge"
    /\ \E k \in to_merge :
         /\ \A j \in to_merge : k <= j
         /\ to_merge' = to_merge \ {k}
         /\ new_sequence' =
              LET s == api_sequences[dependents[k]] IN
              IF to_merge = DOMAIN dependents THEN s
              ELSE MergeAnother(new_sequence, s)
    /\ UNCHANGED <<pc, items, graphVars, api_dependencies, fast_mode,
                   resultVars, caller, api_call, moved_indexes, multi_mut,
                   immutable_borrow, bfsVars, roundVars, dependents,
                   algorithm_error>>

cover_try ==
    /\ pc = "merge"
    /\ to_merge = {}
    /\ Satisfy(new_sequence, api_call.func, "cover")
    /\ UNCHANGED <<items, graphVars, api_dependencies, fast_mode, resultVars,
                   bfsVars, coverVars>>

\* None is the case the code calls an algorithm error.
cover_return ==
    /\ pc \in {"some", "none"}
    /\ caller = "cover"
    /\ pc' = "node"
    /\ IF pc = "some"
       THEN /\ PushNewSequence
            /\ covered' = covered \cup {api_call.func}
            /\ UNCHANGED algorithm_error
       ELSE /\ algorithm_error' = TRUE
            /\ UNCHANGED <<resultVars, covered>>
    /\ UNCHANGED <<items, graphVars, api_dependencies, fast_mode, satVars,
                   bfsVars, unvisited_nodes, rounds_left, candidates, todo,
                   mergeVars>>

\* A round without progress ends the search.
cover_end_round ==
    /\ pc = "node"
    /\ todo = {}
    /\ IF covered = {}
       THEN pc' = "done" /\ UNCHANGED unvisited_nodes
       ELSE pc' = "round" /\ unvisited_nodes' = unvisited_nodes \ covered
    /\ UNCHANGED <<items, graphVars, api_dependencies, fast_mode, resultVars,
                   satVars, bfsVars, rounds_left, candidates, todo, covered,
                   mergeVars, algorithm_error>>

cover_end ==
    /\ pc = "round"
    /\ rounds_left = 0
    /\ pc' = "done"
    /\ UNCHANGED <<items, graphVars, api_dependencies, fast_mode, resultVars,
                   satVars, bfsVars, coverVars>>

-----------------------------------------------------------------------------
Collect == \/ add_api_function \/ filter_start \/ filter_function
           \/ find_all_dependencies

IsFunSatisfied == return_param \/ fuzzable_param \/ refuse_param \/ add_fn

Bfs == \/ bfs_start \/ bfs_level \/ bfs_try \/ bfs_skip \/ bfs_return
       \/ bfs_next_sequence \/ bfs_next_level \/ bfs_end

Cover == \/ cover_start \/ cover_round
         \/ \E f \in todo : cover_skip(f) \/ cover_node(f)
         \/ merge_sequences \/ cover_try \/ cover_return
         \/ cover_end_round \/ cover_end

\* The traversal has returned; nothing happens any more.
Terminated == pc = "done" /\ UNCHANGED vars

Next == Collect \/ IsFunSatisfied \/ Bfs \/ Cover \/ Terminated

Spec == Init /\ [][Next]_vars

\* The code is one thread that keeps running until it has returned.
FairSpec == Spec /\ WF_vars(Next)
=============================================================================
