--------------------------- MODULE ApiGraphProps ----------------------------
(***************************************************************************)
(* What ApiGraph must guarantee: the properties that the runs check and    *)
(* the ApiGraph*Proofs modules prove, and the inductive invariants the     *)
(* proofs need.                                                            *)
(***************************************************************************)
EXTENDS ApiGraph

-----------------------------------------------------------------------------
(* Types                                                                   *)

CallTypes == {SameType(o, i) : o \in Types, i \in Types}
               \cup {FuzzableCallOf(t) : t \in Types}
FuzzableTypes == {FuzzableTypeOf(t) : t \in Types}

Params == [kind : ParamKinds, index : Nat, call_type : CallTypes]
ApiCalls == [func : Nat, params : Seq(Params)]
ApiDependencies == [output_fun : Nat, input_fun : Nat,
                    input_param_index : Nat, call_type : CallTypes]
ApiSequences ==
    [functions : Seq(ApiCalls), fuzzable_params : Seq(FuzzableTypes),
     using_traits : Seq(Traits), unsafe_tag : BOOLEAN,
     moved : SUBSET Nat, fuzzable_mut_tag : SUBSET Nat,
     function_mut_tag : SUBSET Nat,
     covered_dependencies : SUBSET ApiDependencies]

\* Who calls is_fun_satisfied: the searches of this module's specification, and
\* the traversals of RandomWalk and DeepBfs.
DefaultCallers == {"bfs", "cover"}
Callers == DefaultCallers \cup {"walk", "deep"}

\* The shape of the variables of ApiGraph, its locals included, whichever
\* traversal runs.
TypeOK ==
    /\ pc \in {"collect", "filter", "bfs", "level", "extend", "param", "some",
               "none", "cover", "round", "node", "merge", "walk", "choose",
               "write", "done"}
    /\ items \in Seq(ApiFunctions)
    /\ api_functions \in Seq(ApiFunctions)
    /\ generic_functions \in Seq(ApiFunctions)
    /\ unsupported \subseteq Names
    /\ api_dependencies \subseteq ApiDependencies
    /\ fast_mode \in BOOLEAN
    /\ api_sequences \in Seq(ApiSequences)
    /\ api_functions_visited \in Seq(BOOLEAN)
    /\ caller \in Callers
    /\ new_sequence \in ApiSequences
    /\ api_call \in ApiCalls
    /\ moved_indexes \subseteq Nat
    /\ multi_mut \subseteq Nat
    /\ immutable_borrow \subseteq Nat
    /\ len \in Nat
    /\ tmp_sequences \subseteq DOMAIN api_sequences
    /\ next_fun \in Nat
    /\ unvisited_nodes \subseteq Funs
    /\ rounds_left \in Nat
    /\ candidates \subseteq DOMAIN api_sequences
    /\ todo \subseteq Funs
    /\ covered \subseteq Funs
    /\ to_merge \subseteq DOMAIN dependents
    /\ \A k \in DOMAIN dependents : dependents[k] \in DOMAIN api_sequences
    /\ algorithm_error \in BOOLEAN

\* What TypeOK needs to be inductive: the locals of a search are empty before
\* it starts, the graph is complete once it is built, and the call under
\* construction is of a function of the graph.
Located ==
    /\ pc \in {"collect", "filter", "bfs"} =>
         /\ tmp_sequences = {}
         /\ unvisited_nodes = {}
         /\ todo = {}
         /\ covered = {}
         /\ candidates = {}
         /\ DOMAIN dependents = {}
    /\ pc \notin {"collect", "filter"} => api_dependencies = AllDependencies
    /\ pc \in {"param", "some", "none", "merge"} => api_call.func \in Funs

TypeInv == TypeOK /\ Located

-----------------------------------------------------------------------------
(* One sequence                                                            *)

Arg(s, c, k) == s.functions[c].params[k]
ArgType(s, c, k) == InputsOf(s.functions[c].func)[k]

\* The argument places of a sequence: pairs of a call and a parameter.
Places(s) == {<<c, k>> : c \in DOMAIN s.functions,
                         k \in UNION {DOMAIN s.functions[d].params :
                                        d \in DOMAIN s.functions}}
ArgPlaces(s) == {p \in Places(s) : p[2] \in DOMAIN s.functions[p[1]].params}

KindAt(s, p)  == Arg(s, p[1], p[2]).kind
IndexAt(s, p) == Arg(s, p[1], p[2]).index

\* What the argument at p does to the value it takes.
MovesAt(s, p)   == MoveCondition(ArgType(s, p[1], p[2]), Arg(s, p[1], p[2]).call_type)
MutablyAt(s, p) == MutableBorrow(ArgType(s, p[1], p[2]), Arg(s, p[1], p[2]).call_type)
SharedAt(s, p)  == ImmutableBorrow(ArgType(s, p[1], p[2]), Arg(s, p[1], p[2]).call_type)

ReturnPlaces(s)   == {p \in ArgPlaces(s) : KindAt(s, p) = "return"}
FuzzablePlaces(s) == {p \in ArgPlaces(s) : KindAt(s, p) = "fuzzable"}

\* Place p is evaluated before place q.
Before(p, q) == p[1] < q[1] \/ (p[1] = q[1] /\ p[2] < q[2])

\* Argument a of parameter k of f, in a call with c - 1 calls before it, is the
\* result of an earlier call along an edge of the graph, or, for a parameter
\* that can be read from the bytes, a slot that holds its fuzzable type.
LinkedArg(s, c, f, k, a) ==
    \/ /\ a.kind = "return"
       /\ ~IsFuzzable(InputsOf(f)[k])
       /\ a.index \in 1 .. c - 1
       /\ Dependency(s.functions[a.index].func, f, k) \in api_dependencies
       /\ a.call_type = Dependency(s.functions[a.index].func, f, k).call_type
    \/ /\ a.kind = "fuzzable"
       /\ IsFuzzable(InputsOf(f)[k])
       /\ a.index \in DOMAIN s.fuzzable_params
       /\ s.fuzzable_params[a.index] = FuzzableTypeOf(InputsOf(f)[k])
       /\ a.call_type = FuzzableCallOf(InputsOf(f)[k])

\* Every call has an argument for every parameter, and they are linked.
LinkedCall(s, c) ==
    /\ s.functions[c].func \in Funs
    /\ DOMAIN s.functions[c].params = DOMAIN InputsOf(s.functions[c].func)
    /\ \A k \in DOMAIN s.functions[c].params :
         LinkedArg(s, c, s.functions[c].func, k, Arg(s, c, k))

Linked(s) == \A c \in DOMAIN s.functions : LinkedCall(s, c)

\* No value is used after the argument that moves it, and the moved set that
\* later extensions consult is exact.
MovedOnce(s) ==
    /\ s.moved = {IndexAt(s, p) : p \in {q \in ReturnPlaces(s) : MovesAt(s, q)}}
    /\ \A p, q \in ReturnPlaces(s) :
          /\ MovesAt(s, p)
          /\ IndexAt(s, p) = IndexAt(s, q)
          => ~Before(p, q)

\* No call takes a value mutably while another of its arguments borrows or
\* moves it.
BorrowedOnce(s) ==
    \A p, q \in ReturnPlaces(s) :
       /\ p[1] = q[1]
       /\ p[2] # q[2]
       /\ IndexAt(s, p) = IndexAt(s, q)
       /\ MutablyAt(s, p)
       => ~(MovesAt(s, q) \/ MutablyAt(s, q) \/ SharedAt(s, q))

\* The slots of fuzzable_params are used by exactly one argument each, in
\* the order in which the generated code reads them.
SlotsInOrder(s) ==
    /\ {IndexAt(s, p) : p \in FuzzablePlaces(s)} = DOMAIN s.fuzzable_params
    /\ \A p, q \in FuzzablePlaces(s) :
          Before(p, q) => IndexAt(s, p) < IndexAt(s, q)

\* The tags say exactly what the calls need: `mut` on a variable that is
\* borrowed mutably, an unsafe block, and the traits to import.
TagsExact(s) ==
    /\ s.function_mut_tag =
         {IndexAt(s, p) : p \in {q \in ReturnPlaces(s) :
                                   NeedMutTag(Arg(s, q[1], q[2]).call_type)}}
    /\ s.fuzzable_mut_tag =
         {IndexAt(s, p) : p \in {q \in FuzzablePlaces(s) :
                                   NeedMutTag(Arg(s, q[1], q[2]).call_type)}}
    /\ s.unsafe_tag <=>
         \/ \E c \in DOMAIN s.functions :
               api_functions[s.functions[c].func].unsafe
         \/ \E p \in ReturnPlaces(s) : UnsafeCall(Arg(s, p[1], p[2]).call_type)
    /\ {s.using_traits[j] : j \in DOMAIN s.using_traits} =
         {api_functions[s.functions[c].func].trait : c \in DOMAIN s.functions}
           \ {NoTrait}

-----------------------------------------------------------------------------
(* Safety.  The first group is about every sequence is_fun_satisfied and   *)
(* _merge_sequences produce, and so about every generated target.          *)

Generated == {api_sequences[n] : n \in DOMAIN api_sequences}

\* Arguments are only taken from earlier calls along edges of the dependency
\* graph, or from their own fuzzable slot; merging renumbers them correctly.
ArgumentsLinked == \A s \in Generated : Linked(s)

\* A generated target never uses a value that is_fun_satisfied counted as
\* moved, also when two sequences were merged.
NoUseAfterMove == \A s \in Generated : MovedOnce(s)

\* Two arguments of one call never conflict over a mutable borrow.
NoBorrowConflict == \A s \in Generated : BorrowedOnce(s)

\* Every byte-filled slot is passed to exactly one argument, in slot order:
\* _afl_closure_body numbers the parameters it reads in this order.
SlotsUsedOnce == \A s \in Generated : SlotsInOrder(s)

\* The mut, unsafe and trait tags of a target are those that the outermost
\* wrappers of its call types ask for, none missing and none superfluous,
\* merged targets included.
TagsCorrect == \A s \in Generated : TagsExact(s)

\* What the five say together: no generated target is refused by the compiler
\* for an argument, a move, a borrow within a call, a slot or a tag that
\* is_fun_satisfied and the merge keep track of.
TargetsCorrect == /\ ArgumentsLinked
                  /\ NoUseAfterMove
                  /\ NoBorrowConflict
                  /\ SlotsUsedOnce
                  /\ TagsCorrect

EndsLast ==
    \A s \in Generated : \A c \in 1 .. Len(s.functions) - 1 :
       ~is_end_function(api_functions[s.functions[c].func])

\* Only the last call of a target can be an end function: neither bfs nor
\* the merge extends a sequence past one.
EndFunctionOnlyLast == StopAtEnd => EndsLast

Chain(s) == [c \in DOMAIN s.functions |-> s.functions[c].func]

\* No target is generated twice: two sequences differ in the functions they
\* call, whichever search produced them.
NoDuplicateTargets ==
    \A m, n \in DOMAIN api_sequences :
       Chain(api_sequences[m]) = Chain(api_sequences[n]) => m = n

\* A function is marked visited exactly when some sequence ends with it, so
\* the backward search looks for the functions that have no target.
VisitedIsCovered ==
    pc \notin {"collect", "filter", "bfs"} =>
      \A f \in Funs :
         api_functions_visited[f] <=>
           \E s \in Generated :
              s.functions # <<>> /\ last_api_func_index(s) = f

\* In fast mode bfs makes at most one target per function.
FastModeOnce ==
    fast_mode =>
      \A m, n \in DOMAIN api_sequences :
         /\ api_sequences[m].functions # <<>>
         /\ api_sequences[n].functions # <<>>
         /\ last_api_func_index(api_sequences[m])
              = last_api_func_index(api_sequences[n])
         => m = n

\* "Should not go to here. Only if algorithm error occurs" is never printed:
\* a merged sequence always satisfies the function it was merged for.
NoAlgorithmError == ~algorithm_error

\* When the backward search stops, it could not go on: each function that is
\* still unvisited has a parameter no candidate sequence can supply.  The
\* bound on the rounds never cuts the search short.
BackwardSearchComplete ==
    pc = "done" /\ StopAtEnd =>
      \A f \in Funs :
         \/ api_functions_visited[f]
         \/ \E k \in Needed(f) :
              \A n \in choose_candidate_sequence_for_merge :
                 ~check_dependency(last_api_func_index(api_sequences[n]), f, k)

\* What makes ArgumentsLinked inductive: the sequence under construction is
\* linked, and so are the arguments found so far for the call that is to be
\* appended to it.
LinkedSoFar ==
    /\ pc \in {"collect", "filter", "bfs"} => api_sequences = <<>>
    /\ pc \in {"merge", "param", "some"} => Linked(new_sequence)
    /\ pc = "param" =>
         /\ DOMAIN api_call.params \subseteq DOMAIN InputsOf(api_call.func)
         /\ \A k \in DOMAIN api_call.params :
              LinkedArg(new_sequence, Len(new_sequence.functions) + 1,
                        api_call.func, k, api_call.params[k])

LinkInv == TypeInv /\ ArgumentsLinked /\ LinkedSoFar

\* The sequence that add_fn would produce if the call under construction had no
\* more parameters.
Pending ==
    IF pc = "param"
    THEN [new_sequence EXCEPT !.functions = Append(@, api_call),
                              !.moved = @ \cup moved_indexes]
    ELSE new_sequence

CorrectTarget(s) == MovedOnce(s) /\ BorrowedOnce(s) /\ SlotsInOrder(s)
                      /\ TagsExact(s)

\* What makes the other parts of TargetsCorrect inductive: the pending sequence
\* is correct after every parameter, and the two borrow sets of the call hold
\* every value that its arguments borrow.
CorrectSoFar ==
    /\ pc \in {"merge", "param", "some"} => CorrectTarget(Pending)
    /\ pc = "param" =>
         \A k \in DOMAIN api_call.params :
            LET a == api_call.params[k]
                t == InputsOf(api_call.func)[k]
            IN a.kind = "return" =>
                 /\ MutableBorrow(t, a.call_type) => a.index \in multi_mut
                 /\ ImmutableBorrow(t, a.call_type)
                      => a.index \in immutable_borrow

CorrectInv == LinkInv /\ TargetsCorrect /\ CorrectSoFar

\* Which search is running, is_fun_satisfied included.
Satisfying == pc \in {"param", "some", "none"}
InBfs   == pc \in {"level", "extend"} \/ (Satisfying /\ caller \in {"bfs", "deep"})
InRound == pc \in {"node", "merge"} \/ (Satisfying /\ caller = "cover")

Unvisited == {f \in Funs : ~api_functions_visited[f]}

\* What makes VisitedIsCovered and FastModeOnce inductive: an accepted sequence
\* ends with the function that is about to be marked, and the backward search
\* and fast mode only try functions that are not marked yet.
VisitedSoFar ==
    /\ pc \notin {"collect", "filter", "bfs"} =>
         DOMAIN api_functions_visited = Funs
    /\ pc = "some" =>
         /\ new_sequence.functions # <<>>
         /\ last_api_func_index(new_sequence) = api_call.func
    /\ pc = "round" => unvisited_nodes = Unvisited
    /\ InRound =>
         /\ unvisited_nodes \ covered = Unvisited
         /\ covered \subseteq unvisited_nodes
         /\ todo \subseteq Unvisited
         /\ pc # "node" => api_call.func \in Unvisited \ todo
    /\ Satisfying /\ caller = "bfs" /\ fast_mode => api_call.func \in Unvisited

VisitInv == LinkInv /\ VisitedIsCovered /\ VisitedSoFar

\* What makes EndFunctionOnlyLast inductive: the sequences that the searches are
\* going to extend or merge call no end function at all.
NoEnd(s) == \A c \in DOMAIN s.functions :
               ~is_end_function(api_functions[s.functions[c].func])

EndsSoFar ==
    /\ \A n \in tmp_sequences : NoEnd(api_sequences[n])
    /\ \A n \in candidates : NoEnd(api_sequences[n])
    /\ \A k \in DOMAIN dependents : NoEnd(api_sequences[dependents[k]])
    /\ pc \in {"merge", "param"} => NoEnd(new_sequence)
    /\ pc = "some" =>
         \A c \in 1 .. Len(new_sequence.functions) - 1 :
            ~is_end_function(api_functions[new_sequence.functions[c].func])

EndInv == LinkInv /\ (StopAtEnd => EndsLast /\ EndsSoFar)

\* Sequence t is s and one more call, as far as the functions go.
OneCallMore(t, s) ==
    /\ Len(t.functions) = Len(s.functions) + 1
    /\ \A c \in DOMAIN s.functions : t.functions[c].func = s.functions[c].func

\* What makes NoDuplicateTargets inductive.  bfs, and the deep bfs, have extended
\* a sequence of the current length with the functions before the current one if
\* it is the first that is left, with none if it comes later.  A random walk has
\* no levels.
LevelsSoFar ==
    InBfs =>
      /\ \A m \in DOMAIN api_sequences :
           Len(api_sequences[m].functions) <= IF pc = "level" THEN len ELSE len + 1
      /\ pc # "level" =>
           \A n \in tmp_sequences : Len(api_sequences[n].functions) = len
      /\ \A m \in DOMAIN api_sequences :
           Len(api_sequences[m].functions) = len + 1 =>
             \E n \in DOMAIN api_sequences :
               /\ OneCallMore(api_sequences[m], api_sequences[n])
               /\ n \in tmp_sequences =>
                    /\ FirstOf(n)
                    /\ last_api_func_index(api_sequences[m]) <
                         IF pc = "extend" THEN next_fun ELSE next_fun - 1
      /\ Satisfying => next_fun = api_call.func + 1
      /\ pc \in {"param", "some"} =>
           \E n \in tmp_sequences :
             /\ FirstOf(n)
             /\ new_sequence.functions =
                  IF pc = "param" THEN api_sequences[n].functions
                  ELSE Append(api_sequences[n].functions, api_call)

UniqueInv == VisitInv /\ NoDuplicateTargets /\ LevelsSoFar /\ caller # "walk"

\* The calls at the positions P of sequence s supply the parameters K of
\* function f, in the order of the parameters, with values nothing has moved.
SuppliedAt(s, f, K, P) ==
    /\ P \in [K -> DOMAIN s.functions]
    /\ \A k \in K : /\ check_dependency(s.functions[P[k]].func, f, k)
                    /\ P[k] \notin s.moved
    /\ \A j, k \in K : j < k => P[j] < P[k]

\* The functions that can be read from bytes as far as they have to be.
Supported ==
    /\ \A f \in Funs : ~contains_unsupported_fuzzable_type(api_functions[f])
    /\ pc = "filter" =>
         \A j \in DOMAIN items : ~contains_unsupported_fuzzable_type(items[j])

\* The first parameters of f have taken the values in taken; the parameters K from
\* parameter i on can still be supplied, further right.
StillSupplied(s, f, K, i, taken) ==
    \E P \in [K -> DOMAIN s.functions] :
       /\ SuppliedAt(s, f, K, P)
       /\ \A k \in K : k >= i => \A r \in taken : r < P[k]

\* Sequence s ends with a call that supplies parameter k of f.
EndsWithSupplier(s, f, k) ==
    s.functions # <<>> /\ check_dependency(last_api_func_index(s), f, k)

\* No function takes more than one value that another call has to produce.
Unary == \A f \in Funs : Cardinality(Needed(f)) <= 1

\* A result of o can be an argument of f.
Feeds(o, f) == \E k \in Needed(f) : check_dependency(o, f, k)

\* If f needs at most one value, f can be called right behind s: its last result
\* is what f needs, or both are nothing.
Leads(s, f) == IF s.functions = <<>> THEN Needed(f) = {}
               ELSE Feeds(last_api_func_index(s), f)

\* is_fun_satisfied has to accept the function: its sequence was merged for it,
\* or leads to it.
Promised ==
    \/ caller = "cover"
    \/ /\ caller \in {"bfs", "deep"}
       /\ Unary
       /\ \E n \in tmp_sequences :
            FirstOf(n) /\ Leads(api_sequences[n], api_call.func)

\* What makes NoAlgorithmError inductive: each merged sequence ends with a call
\* whose result is_fun_satisfied can still take for the parameter the sequence
\* was chosen for, because the parameters before it find theirs further left.
SuppliedSoFar ==
    /\ Supported
    /\ InRound => \A n \in candidates : api_sequences[n].functions # <<>>
    /\ pc = "merge" =>
         /\ DOMAIN dependents = Needed(api_call.func)
         /\ \A k \in DOMAIN dependents :
              EndsWithSupplier(api_sequences[dependents[k]], api_call.func, k)
         /\ \A j \in DOMAIN dependents \ to_merge, k \in to_merge : j < k
         /\ StillSupplied(new_sequence, api_call.func,
                          DOMAIN dependents \ to_merge, 1, {})
    /\ pc = "param" /\ Promised =>
         StillSupplied(new_sequence, api_call.func, Needed(api_call.func),
                       CurrentParam, moved_indexes \cup multi_mut \cup immutable_borrow)
    /\ pc = "none" => ~Promised

SupplyInv == CorrectInv /\ NoAlgorithmError /\ SuppliedSoFar

\* What makes BackwardSearchComplete inductive: the rounds that are left are
\* enough for the nodes that are left, and a round that has covered nothing has
\* passed over its nodes for want of a supplier among all the candidates.
RoundsSoFar ==
    /\ pc = "round" => Cardinality(unvisited_nodes) <= rounds_left
    /\ InRound => Cardinality(unvisited_nodes) <= rounds_left + 1
    /\ InRound /\ covered = {} =>
         /\ candidates = choose_candidate_sequence_for_merge
         /\ \A f \in unvisited_nodes \ todo :
              (pc # "node" /\ f = api_call.func) \/ ~CanBeCovered(f)

RoundInv == SupplyInv /\ VisitInv /\ BackwardSearchComplete /\ RoundsSoFar

-----------------------------------------------------------------------------
(* Coverage                                                                *)

\* The functions that can be called at all: the least set closed under
\* "every parameter that is not fuzzable has a producer in the set".
Callable ==
    {f \in Funs :
       \A S \in SUBSET Funs :
         (\A g \in Funs :
             (\A k \in Needed(g) : \E o \in S : check_dependency(o, g, k))
               => g \in S)
         => f \in S}

\* Every callable function gets a target.
CoversCallable ==
    pc = "done" =>
      \A f \in Callable : api_functions_visited[f]

\* It does when no function takes more than one value that has to be
\* produced by another call.
UnaryCoversCallable == Unary /\ StopAtEnd => CoversCallable

EndsWith(s, f) == s.functions # <<>> /\ last_api_func_index(s) = f

NoRepetition(s) ==
    \A c, d \in DOMAIN s.functions : s.functions[c].func = s.functions[d].func => c = d

\* Sequence n is the first and the shortest that ends with f.
Foremost(n, f) ==
    /\ EndsWith(api_sequences[n], f)
    /\ \A m \in DOMAIN api_sequences :
         EndsWith(api_sequences[m], f) =>
           n <= m /\ Len(api_sequences[n].functions) <= Len(api_sequences[m].functions)

\* The first sequence of each function has no dead code, so that others can be
\* built on it; a search by levels has not gone in circles to get there.
FirstsClean ==
    \A f \in Funs : api_functions_visited[f] =>
       \E n \in DOMAIN api_sequences :
          /\ Foremost(n, f)
          /\ ~contains_dead_code_except_last_one(api_sequences[n])
          /\ InBfs => NoRepetition(api_sequences[n])

\* A search by levels has tried to call f behind sequence n.
Tried(n, f) ==
    \/ Len(api_sequences[n].functions) < len
    \/ /\ pc # "level"
       /\ Len(api_sequences[n].functions) = len
       /\ \/ n \notin tmp_sequences
          \/ FirstOf(n) /\ f < IF pc = "extend" THEN next_fun ELSE next_fun - 1

\* Each beginning of sequence n, the empty one too, is a sequence as far as its
\* length and its last function go.
Begun(n) ==
    \A c \in 0 .. Len(api_sequences[n].functions) - 1 :
       \E m \in DOMAIN api_sequences :
          /\ Len(api_sequences[m].functions) = c
          /\ c > 0 => EndsWith(api_sequences[m], api_sequences[n].functions[c].func)

\* A function is visited once a sequence that leads to it has been tried.
LevelsSpread ==
    /\ \A n \in DOMAIN api_sequences :
         /\ Begun(n)
         /\ \A f \in Funs :
              Tried(n, f) /\ Leads(api_sequences[n], f) => api_functions_visited[f]
    /\ pc # "level" => next_fun > 0

\* A call of sequence s other than the last feeds f.
FedWithin(s, f) ==
    \E c \in 1 .. Len(s.functions) - 1 : Feeds(s.functions[c].func, f)

\* Only the last call of a sequence feeds a function that is still unvisited.
FedAtEnd ==
    \A n \in DOMAIN api_sequences :
       \A f \in Unvisited : ~FedWithin(api_sequences[n], f)

\* The calls fs and, once it is accepted, the one under construction are those of
\* the new sequence.
BuiltOn(fs) ==
    new_sequence.functions = IF pc = "some" THEN Append(fs, api_call) ELSE fs

\* Within a round the same holds of the candidates.  What the round adds may feed
\* unvisited functions from within, but only those that a candidate leads to,
\* and none of these has been passed over.
RoundSpread ==
    /\ \A n \in candidates :
         /\ ~contains_dead_code_except_last_one(api_sequences[n])
         /\ \A f \in unvisited_nodes : ~FedWithin(api_sequences[n], f)
    /\ \A n \in DOMAIN api_sequences :
         \A f \in unvisited_nodes :
            FedWithin(api_sequences[n], f) => CanBeCovered(f)
    /\ \A f \in unvisited_nodes \ (todo \cup covered) :
         (pc # "node" /\ f = api_call.func) \/ ~CanBeCovered(f)
    /\ pc = "merge" => \A k \in DOMAIN dependents : dependents[k] \in candidates
    /\ pc \in {"param", "some"} \/ (pc = "merge" /\ to_merge = {}) =>
         IF Needed(api_call.func) = {} THEN BuiltOn(<<>>)
         ELSE \E n \in candidates : BuiltOn(api_sequences[n].functions)

\* What makes UnaryCoversCallable inductive.
SpreadSoFar ==
    /\ pc \notin {"collect", "filter", "bfs"} => FirstsClean
    /\ InBfs => LevelsSpread
    /\ pc \in {"cover", "round"} => FedAtEnd
    /\ InRound => RoundSpread

SpreadInv == RoundInv /\ UniqueInv /\ (Unary => SpreadSoFar)

\* A sequence only calls functions that can be called: the searches do not
\* overshoot the reference definition either.
OnlyCallable ==
    pc = "done" =>
      \A s \in Generated : \A c \in DOMAIN s.functions :
         s.functions[c].func \in Callable

\* _covered_dependencies is the set of edges the calls of a sequence use.
EdgeCoverageExact ==
    \A s \in Generated :
       s.covered_dependencies =
         {Dependency(s.functions[IndexAt(s, p)].func,
                     s.functions[p[1]].func, p[2]) : p \in ReturnPlaces(s)}

-----------------------------------------------------------------------------
(* Refinement                                                              *)

Chains == [n \in DOMAIN api_sequences |-> Chain(api_sequences[n])]

\* The call that add_fn has appended is the one to be published.
GrowthBase ==
    IF pc \in {"merge", "param"} THEN Chain(new_sequence)
    ELSE IF pc = "some"
    THEN SubSeq(Chain(new_sequence), 1, Len(new_sequence.functions) - 1)
    ELSE <<>>

GrowthNeeds == IF pc \in {"collect", "filter"} THEN <<>>
               ELSE [f \in Funs |-> Needed(f)]

GrowthEdges == {<<d.output_fun, d.input_fun, d.input_param_index>> :
                  d \in api_dependencies}

GrowthVisited == {f \in DOMAIN api_functions_visited : api_functions_visited[f]}

Growth == INSTANCE TargetGrowth WITH
    needs   <- GrowthNeeds,
    edges   <- GrowthEdges,
    targets <- Chains,
    visited <- GrowthVisited,
    base    <- GrowthBase

\* The generation implements TargetGrowth: bfs and the backward search grow
\* targets only out of whole earlier ones and a function they supply.
ImplementsTargetGrowth == Growth!Spec

\* What the refinement needs besides VisitInv: there are no edges before the graph
\* is built, no flags before bfs, and nothing has been merged before the first
\* sequence is.
GrowthSoFar ==
    /\ pc \in {"collect", "filter"} => api_dependencies = {}
    /\ pc \in {"collect", "filter", "bfs"} => api_functions_visited = <<>>
    /\ pc = "merge" /\ to_merge = DOMAIN dependents => new_sequence.functions = <<>>

GrowthInv == VisitInv /\ GrowthSoFar

-----------------------------------------------------------------------------
(* Liveness                                                                *)

\* The generation ends: the searches terminate although they feed on the
\* sequences they produce.
Terminates == <>(pc = "done")
=============================================================================
