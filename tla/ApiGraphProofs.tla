--------------------------- MODULE ApiGraphProofs ---------------------------
(***************************************************************************)
(* Proofs about ApiGraph, for every crate, every bound of the search and   *)
(* every type decision the constant operators make: its state keeps its    *)
(* shape, and every argument of every generated target is linked, through  *)
(* is_fun_satisfied and _merge_another_sequence.                           *)
(***************************************************************************)
EXTENDS ApiGraphProps, FiniteSetTheorems, SequenceTheorems,
        WellFoundedInduction, TLAPS

\* A nonempty set of naturals has a least member.
LEMMA LeastExists ==
    ASSUME NEW S, S \subseteq Nat, S # {}
    PROVE  \E n \in S : \A m \in S : n <= m
<1> DEFINE Less == {ss \in Nat \X Nat : ss[1] < ss[2]}
<1>1. OpToRel(<, Nat) = Less
  BY Zenon DEF OpToRel
<1>2. PICK n \in S : \A m \in S : ~(<<m, n>> \in Less)
  BY <1>1, NatLessThanWellFounded, WFMin
<1>3. ASSUME NEW m \in S PROVE n <= m
  <2>1. m \in Nat /\ n \in Nat
    OBVIOUS
  <2>2. m < n => <<m, n>> \in Less
    BY <2>1, Zenon
  <2> HIDE DEF Less
  <2> QED BY <1>2, <2>1, <2>2
<1> QED BY <1>3

\* A nonempty set of positions of a sequence has a greatest member.
LEMMA GreatestExists ==
    ASSUME NEW N \in Nat, NEW S, S \subseteq 1 .. N, S # {}
    PROVE  \E n \in S : \A m \in S : m <= n
<1> DEFINE R == {N - x : x \in S}
<1>1. R \subseteq Nat /\ R # {}
  <2>1. \A x \in S : x \in Int /\ N - x \in Nat
    OBVIOUS
  <2>2. PICK x \in S : TRUE
    OBVIOUS
  <2>3. N - x \in R
    BY <2>2
  <2> QED BY <2>1, <2>3
<1> HIDE DEF R
<1>2. PICK r \in R : \A q \in R : r <= q
  BY <1>1, LeastExists
<1>3. PICK n \in S : r = N - n
  BY <1>2 DEF R
<1>4. \A m \in S : N - m \in R
  BY DEF R
<1>5. \A m \in S : m <= n
  BY <1>2, <1>3, <1>4
<1> QED BY <1>5

\* A function on the positions of a sequence is a sequence.
LEMMA SeqOfFunction ==
    ASSUME NEW n \in Nat, NEW S, NEW f \in [1 .. n -> S]
    PROVE  f \in Seq(S)
OBVIOUS

\* _merge_another_sequence yields a sequence of the same shape.
LEMMA MergeType ==
    ASSUME NEW a \in ApiSequences, NEW b \in ApiSequences
    PROVE  MergeAnother(a, b) \in ApiSequences
<1> DEFINE nf == Len(a.functions)
           nz == Len(a.fuzzable_params)
<1>1. /\ a.functions \in Seq(ApiCalls) /\ b.functions \in Seq(ApiCalls)
      /\ a.fuzzable_params \in Seq(FuzzableTypes)
      /\ b.fuzzable_params \in Seq(FuzzableTypes)
      /\ a.using_traits \in Seq(Traits) /\ b.using_traits \in Seq(Traits)
      /\ a.moved \subseteq Nat /\ b.moved \subseteq Nat
      /\ a.fuzzable_mut_tag \subseteq Nat /\ b.fuzzable_mut_tag \subseteq Nat
      /\ a.function_mut_tag \subseteq Nat /\ b.function_mut_tag \subseteq Nat
      /\ a.covered_dependencies \subseteq ApiDependencies
  BY DEF ApiSequences
<1>2. nf \in Nat /\ nz \in Nat
  BY <1>1
<1> HIDE DEF nf, nz
<1>3. ASSUME NEW call \in ApiCalls
      PROVE  ShiftCall(call, nf, nz) \in ApiCalls
  <2>1. call.params \in Seq(Params) /\ call.func \in Nat
    BY DEF ApiCalls
  <2>2. \A k \in DOMAIN call.params : call.params[k] \in Params
    BY <2>1
  <2> DEFINE Moved(k) == [call.params[k] EXCEPT !.index =
                @ + (IF call.params[k].kind = "fuzzable" THEN nz ELSE nf)]
  <2>3. \A k \in DOMAIN call.params : Moved(k) \in Params
    BY <1>2, <2>2 DEF Params
  <2> HIDE DEF Moved
  <2>4. [k \in DOMAIN call.params |-> Moved(k)] \in Seq(Params)
    BY <2>1, <2>3
  <2>5. ShiftCall(call, nf, nz)
          = [call EXCEPT !.params = [k \in DOMAIN call.params |-> Moved(k)]]
    BY DEF ShiftCall, Moved
  <2> QED BY <2>4, <2>5 DEF ApiCalls
<1>4. [c \in DOMAIN b.functions |-> ShiftCall(b.functions[c], nf, nz)]
        \in Seq(ApiCalls)
  <2> DEFINE Moved(c) == ShiftCall(b.functions[c], nf, nz)
  <2>1. \A c \in DOMAIN b.functions : Moved(c) \in ApiCalls
    BY <1>1, <1>3
  <2> HIDE DEF Moved
  <2>2. DOMAIN b.functions = 1 .. Len(b.functions) /\ Len(b.functions) \in Nat
    BY <1>1
  <2>3. [c \in DOMAIN b.functions |-> Moved(c)]
          \in [1 .. Len(b.functions) -> ApiCalls]
    BY <2>1, <2>2
  <2>4. [c \in DOMAIN b.functions |-> Moved(c)] \in Seq(ApiCalls)
    BY <2>2, <2>3, SeqOfFunction
  <2> QED BY <2>4 DEF Moved
<1>5. a.functions \o [c \in DOMAIN b.functions |->
                        ShiftCall(b.functions[c], nf, nz)] \in Seq(ApiCalls)
  BY <1>1, <1>4
<1>6. /\ a.fuzzable_params \o b.fuzzable_params \in Seq(FuzzableTypes)
      /\ a.using_traits \o b.using_traits \in Seq(Traits)
  BY <1>1
<1>7. /\ a.moved \cup Shift(b.moved, nf) \subseteq Nat
      /\ a.fuzzable_mut_tag \cup Shift(b.fuzzable_mut_tag, nz) \subseteq Nat
      /\ a.function_mut_tag \cup Shift(b.function_mut_tag, nf) \subseteq Nat
  BY <1>1, <1>2 DEF Shift
<1> QED BY <1>1, <1>5, <1>6, <1>7 DEF MergeAnother, ApiSequences, nf, nz

-----------------------------------------------------------------------------
(* The graph                                                               *)

\* The edges only depend on the functions.
LEMMA StableGraph ==
    ASSUME UNCHANGED api_functions
    PROVE  Funs' = Funs /\ AllDependencies' = AllDependencies
BY DEF Funs, AllDependencies, Dependency, InputsOf, is_end_function,
       contains_mut_borrow, is_start_function

\* The types of a function of the graph.
LEMMA FunctionTypes ==
    ASSUME api_functions \in Seq(ApiFunctions), NEW f \in Funs
    PROVE  /\ f \in Nat
           /\ InputsOf(f) \in Seq(Types)
           /\ \A k \in DOMAIN InputsOf(f) : k \in Nat /\ InputsOf(f)[k] \in Types
           /\ api_functions[f].output \in Types \cup {NoOutput}
           /\ api_functions[f].trait \in Traits \cup {NoTrait}
<1>1. f \in Nat /\ api_functions[f] \in ApiFunctions
  BY DEF Funs
<1>2. InputsOf(f) \in Seq(Types)
  BY <1>1 DEF ApiFunctions, InputsOf
<1> QED BY <1>1, <1>2 DEF ApiFunctions

\* An edge of the graph connects two of its functions by a compatible type.
LEMMA EdgeTypes ==
    ASSUME api_functions \in Seq(ApiFunctions),
           api_dependencies = AllDependencies,
           NEW o, NEW i, NEW k, check_dependency(o, i, k)
    PROVE  /\ o \in Funs /\ i \in Funs /\ k \in DOMAIN InputsOf(i)
           /\ Dependency(o, i, k) \in api_dependencies
           /\ Dependency(o, i, k) \in ApiDependencies
           /\ Dependency(o, i, k).call_type \in CallTypes
<1>1. PICK d \in AllDependencies :
         d.output_fun = o /\ d.input_fun = i /\ d.input_param_index = k
  BY DEF check_dependency
<1>2. PICK e \in Funs \X Funs \X UNION {DOMAIN InputsOf(j) : j \in Funs} :
         /\ api_functions[e[1]].output # NoOutput
         /\ e[3] \in DOMAIN InputsOf(e[2])
         /\ d = Dependency(e[1], e[2], e[3])
  BY <1>1 DEF AllDependencies
<1>3. e[1] = o /\ e[2] = i /\ e[3] = k
  BY <1>1, <1>2 DEF Dependency
<1>4. o \in Funs /\ i \in Funs /\ k \in DOMAIN InputsOf(i)
  BY <1>2, <1>3
<1>5. api_functions[o].output \in Types /\ InputsOf(i)[k] \in Types
  BY <1>2, <1>3, <1>4, FunctionTypes
<1>6. o \in Nat /\ i \in Nat /\ k \in Nat
  BY <1>4, FunctionTypes
<1>7. SameType(api_functions[o].output, InputsOf(i)[k]) \in CallTypes
  BY <1>5 DEF CallTypes
<1> QED BY <1>1, <1>2, <1>3, <1>4, <1>6, <1>7 DEF Dependency, ApiDependencies

\* What find_all_dependencies builds is a set of dependencies.
LEMMA AllDependenciesType ==
    ASSUME api_functions \in Seq(ApiFunctions)
    PROVE  AllDependencies \subseteq ApiDependencies
<1> SUFFICES ASSUME NEW d \in AllDependencies PROVE d \in ApiDependencies
  OBVIOUS
<1>1. PICK e \in Funs \X Funs \X UNION {DOMAIN InputsOf(j) : j \in Funs} :
         /\ api_functions[e[1]].output # NoOutput
         /\ e[3] \in DOMAIN InputsOf(e[2])
         /\ d = Dependency(e[1], e[2], e[3])
  BY DEF AllDependencies
<1>2. e[1] \in Funs /\ e[2] \in Funs
  BY <1>1
<1>3. api_functions[e[1]].output \in Types /\ InputsOf(e[2])[e[3]] \in Types
  BY <1>1, <1>2, FunctionTypes
<1>4. e[1] \in Nat /\ e[2] \in Nat /\ e[3] \in Nat
  BY <1>1, <1>2, FunctionTypes
<1>5. SameType(api_functions[e[1]].output, InputsOf(e[2])[e[3]]) \in CallTypes
  BY <1>3 DEF CallTypes
<1> QED BY <1>1, <1>4, <1>5 DEF Dependency, ApiDependencies

\* The supplier chosen for a parameter is a candidate.
LEMMA ChosenSupplierType ==
    ASSUME api_sequences \in Seq(ApiSequences),
           candidates \subseteq DOMAIN api_sequences,
           NEW f, NEW k, Suppliers(f, k) # {}
    PROVE  ChosenSupplier(f, k) \in candidates
<1> DEFINE S == Suppliers(f, k)
           F == {n \in S : ~has_no_fuzzables(api_sequences[n])}
           N == Len(api_sequences)
<1>1. S \subseteq candidates /\ F \subseteq S /\ S # {}
  BY DEF Suppliers
<1>2. N \in Nat /\ S \subseteq 1 .. N
  BY <1>1
<1> HIDE DEF S, F, N
<1>3. F # {} => \E n \in F : \A m \in F : n <= m
  <2>1. F \subseteq Nat
    BY <1>1, <1>2
  <2> QED BY <2>1, LeastExists
<1>4. \E n \in S : \A m \in S : m <= n
  BY <1>1, <1>2, GreatestExists
<1>5. ChosenSupplier(f, k) =
        IF F # {} THEN CHOOSE n \in F : \A m \in F : n <= m
                  ELSE CHOOSE n \in S : \A m \in S : m <= n
  BY DEF ChosenSupplier, S, F
<1>6. CASE F # {}
  <2>1. (CHOOSE n \in F : \A m \in F : n <= m) \in F
    BY <1>3, <1>6
  <2> QED BY <1>1, <1>5, <1>6, <2>1
<1>7. CASE F = {}
  <2>1. (CHOOSE n \in S : \A m \in S : m <= n) \in S
    BY <1>4
  <2> QED BY <1>1, <1>5, <1>7, <2>1
<1> QED BY <1>6, <1>7

-----------------------------------------------------------------------------
(* Type correctness                                                        *)

LEMMA InitType == Init => TypeInv
<1> SUFFICES ASSUME Init PROVE TypeOK /\ Located
  BY DEF TypeInv
<1>1. NewSequence \in ApiSequences
  BY DEF NewSequence, ApiSequences
<1>2. ApiCall(1) \in ApiCalls
  BY DEF ApiCall, ApiCalls
<1>3. items \in Seq(ApiFunctions)
  BY CratesAssumption DEF Init
<1>4. DOMAIN dependents = {} /\ DOMAIN api_sequences = {}
  BY DEF Init
<1>5. /\ api_functions \in Seq(ApiFunctions)
      /\ generic_functions \in Seq(ApiFunctions)
      /\ api_sequences \in Seq(ApiSequences)
      /\ api_functions_visited \in Seq(BOOLEAN)
  BY DEF Init
<1>6. /\ new_sequence \in ApiSequences
      /\ api_call \in ApiCalls
  BY <1>1, <1>2 DEF Init
<1>7. /\ unsupported \subseteq Names
      /\ api_dependencies \subseteq ApiDependencies
      /\ unvisited_nodes \subseteq Funs
      /\ covered \subseteq Funs
      /\ todo \subseteq Funs
      /\ tmp_sequences \subseteq DOMAIN api_sequences
      /\ candidates \subseteq DOMAIN api_sequences
      /\ to_merge \subseteq DOMAIN dependents
      /\ moved_indexes \subseteq Nat
      /\ multi_mut \subseteq Nat
      /\ immutable_borrow \subseteq Nat
  BY DEF Init
<1>8. fast_mode \in BOOLEAN
  BY ModeAssumption DEF Init
<1>9. TypeOK
  BY <1>3, <1>4, <1>5, <1>6, <1>7, <1>8 DEF Init, TypeOK, Callers, DefaultCallers
<1> QED BY <1>4, <1>9 DEF Init, Located

\* Adding an argument to a call.
LEMMA AppendParamType ==
    ASSUME NEW call \in ApiCalls, NEW p \in Params
    PROVE  /\ [call EXCEPT !.params = Append(@, p)] \in ApiCalls
           /\ [call EXCEPT !.params = Append(@, p)].func = call.func
<1>1. call.params \in Seq(Params) /\ call.func \in Nat
  BY DEF ApiCalls
<1>2. Append(call.params, p) \in Seq(Params)
  BY <1>1
<1> QED BY <1>1, <1>2 DEF ApiCalls

\* The components of a sequence.
LEMMA SequenceFields ==
    ASSUME NEW s \in ApiSequences
    PROVE  /\ s.functions \in Seq(ApiCalls)
           /\ s.fuzzable_params \in Seq(FuzzableTypes)
           /\ s.using_traits \in Seq(Traits)
           /\ s.unsafe_tag \in BOOLEAN
           /\ s.moved \subseteq Nat
           /\ s.fuzzable_mut_tag \subseteq Nat
           /\ s.function_mut_tag \subseteq Nat
           /\ s.covered_dependencies \subseteq ApiDependencies
BY DEF ApiSequences

\* Entering is_fun_satisfied.
LEMMA SatisfyType ==
    ASSUME TypeOK, NEW s \in ApiSequences, NEW f \in Funs,
           NEW who \in Callers, Satisfy(s, f, who)
    PROVE  /\ pc' = "param"
           /\ caller' \in Callers
           /\ api_call' \in ApiCalls
           /\ api_call'.func = f
           /\ new_sequence' \in ApiSequences
           /\ moved_indexes' = {} /\ multi_mut' = {} /\ immutable_borrow' = {}
<1>1. f \in Nat /\ api_functions[f].trait \in Traits \cup {NoTrait}
  BY FunctionTypes DEF TypeOK
<1>2. api_call' \in ApiCalls /\ api_call'.func = f
  BY <1>1 DEF Satisfy, ApiCall, ApiCalls
<1>3. s.using_traits \in Seq(Traits)
  BY DEF ApiSequences
<1>4. (IF api_functions[f].trait = NoTrait THEN s.using_traits
       ELSE Append(s.using_traits, api_functions[f].trait)) \in Seq(Traits)
  BY <1>1, <1>3
<1>5. new_sequence' \in ApiSequences
  BY <1>4 DEF Satisfy, ApiSequences
<1> QED BY <1>2, <1>5 DEF Satisfy

LEMMA CollectType ==
    ASSUME TypeInv, Collect
    PROVE  TypeInv'
<1> USE DEF TypeInv, graphVars, resultVars, satVars, bfsVars, roundVars,
            mergeVars, coverVars
<1>1. CASE add_api_function
  <2>1. Head(items) \in ApiFunctions /\ Tail(items) \in Seq(ApiFunctions)
    BY <1>1 DEF add_api_function, TypeOK
  <2>2. Head(items).full_name \in Names
    BY <2>1 DEF ApiFunctions
  <2>3. /\ items' \in Seq(ApiFunctions)
        /\ api_functions' \in Seq(ApiFunctions)
        /\ generic_functions' \in Seq(ApiFunctions)
        /\ unsupported' \subseteq Names
    <3>1. /\ Append(api_functions, Head(items)) \in Seq(ApiFunctions)
          /\ Append(generic_functions, Head(items)) \in Seq(ApiFunctions)
          /\ unsupported \cup {Head(items).full_name} \subseteq Names
      BY <2>1, <2>2 DEF TypeOK
    <3> QED BY <1>1, <2>1, <3>1 DEF add_api_function, TypeOK
  <2>4. pc' = "collect" /\ unvisited_nodes' = {} /\ todo' = {} /\ covered' = {}
    BY <1>1 DEF add_api_function, Located
  <2>5. TypeOK'
    BY <1>1, <2>3, <2>4 DEF add_api_function, TypeOK
  <2>6. Located'
    BY <1>1 DEF add_api_function, Located
  <2> QED BY <2>5, <2>6
<1>2. CASE filter_start
  <2>1. pc' = "filter" /\ unvisited_nodes' = {} /\ todo' = {} /\ covered' = {}
    BY <1>2 DEF filter_start, Located
  <2>2. TypeOK'
    BY <1>2, <2>1 DEF filter_start, TypeOK
  <2>3. Located'
    BY <1>2 DEF filter_start, Located
  <2> QED BY <2>2, <2>3
<1>3. CASE filter_function
  <2>1. Head(items) \in ApiFunctions /\ Tail(items) \in Seq(ApiFunctions)
    BY <1>3 DEF filter_function, TypeOK
  <2>2. items' \in Seq(ApiFunctions) /\ api_functions' \in Seq(ApiFunctions)
    BY <1>3, <2>1 DEF filter_function, TypeOK
  <2>3. pc' = "filter" /\ unvisited_nodes' = {} /\ todo' = {} /\ covered' = {}
    BY <1>3 DEF filter_function, Located
  <2>4. TypeOK'
    BY <1>3, <2>2, <2>3 DEF filter_function, TypeOK
  <2>5. Located'
    BY <1>3 DEF filter_function, Located
  <2> QED BY <2>4, <2>5
<1>4. CASE find_all_dependencies
  <2>1. Funs' = Funs /\ AllDependencies' = AllDependencies
    BY <1>4, StableGraph DEF find_all_dependencies
  <2>2. api_dependencies' \subseteq ApiDependencies
    BY <1>4, AllDependenciesType DEF find_all_dependencies, TypeOK
  <2>3. TypeOK'
    BY <1>4, <2>1, <2>2 DEF find_all_dependencies, TypeOK
  <2>4. Located'
    BY <1>4, <2>1 DEF find_all_dependencies, Located
  <2> QED BY <2>3, <2>4
<1> QED BY <1>1, <1>2, <1>3, <1>4 DEF Collect

LEMMA IsFunSatisfiedType ==
    ASSUME TypeInv, IsFunSatisfied
    PROVE  TypeInv'
<1> USE DEF TypeInv, graphVars, resultVars, satVars, bfsVars, roundVars,
            mergeVars, coverVars
<1>0. /\ api_functions \in Seq(ApiFunctions)
      /\ new_sequence \in ApiSequences
      /\ api_call \in ApiCalls
      /\ pc = "param"
      /\ api_call.func \in Funs
      /\ api_dependencies = AllDependencies
  BY DEF TypeOK, Located, IsFunSatisfied, return_param, fuzzable_param,
         refuse_param, add_fn
<1>1. UNCHANGED api_functions /\ UNCHANGED api_dependencies
  BY DEF IsFunSatisfied, return_param, TakeReturn, fuzzable_param,
         refuse_param, add_fn
<1>2. Funs' = Funs /\ AllDependencies' = AllDependencies
  BY <1>1, StableGraph
<1>3. ASSUME MoreParams PROVE CurrentType \in Types
  BY <1>0, <1>3, FunctionTypes DEF MoreParams, CurrentType
<1>4. CASE return_param
  <2>1. PICK r \in DOMAIN new_sequence.functions : TakeReturn(r)
    BY <1>4 DEF return_param
  <2>2. r \in Nat /\ 1 .. r \subseteq Nat
    BY <1>0, <2>1 DEF ApiSequences
  <2>3. \A q \in 1 .. r : Available(q) => EdgeFrom(q) \in ApiDependencies
    BY <1>0, EdgeTypes DEF Available, EdgeFrom
  <2>4. CallTypeFrom(r) \in CallTypes
    BY <1>0, <2>1, EdgeTypes DEF TakeReturn, Fits, Available, CallTypeFrom,
                                 EdgeFrom
  <2>5. new_sequence' = WithReturn(r, CallTypeFrom(r))
    BY <2>1 DEF TakeReturn
  <2>6. new_sequence' \in ApiSequences
    <3> DEFINE E == {EdgeFrom(q) : q \in {q \in 1 .. r : Available(q)}}
    <3>1. E \subseteq ApiDependencies
      BY <2>3
    <3> HIDE DEF E
    <3>2. WithReturn(r, CallTypeFrom(r)) =
            [new_sequence EXCEPT
               !.covered_dependencies = @ \cup E,
               !.function_mut_tag = IF NeedMutTag(CallTypeFrom(r))
                                    THEN @ \cup {r} ELSE @,
               !.unsafe_tag = @ \/ UnsafeCall(CallTypeFrom(r))]
      BY DEF WithReturn, E
    <3>3. /\ new_sequence.covered_dependencies \cup E \subseteq ApiDependencies
          /\ new_sequence.function_mut_tag \cup {r} \subseteq Nat
      BY <1>0, <2>2, <3>1, SequenceFields
    <3> QED BY <1>0, <2>5, <3>2, <3>3 DEF ApiSequences
  <2>7. api_call' \in ApiCalls /\ api_call'.func = api_call.func
    <3>1. Param("return", r, CallTypeFrom(r)) \in Params
      BY <2>2, <2>4 DEF Param, Params, ParamKinds
    <3>2. api_call' = [api_call EXCEPT !.params =
                         Append(@, Param("return", r, CallTypeFrom(r)))]
      BY <2>1 DEF TakeReturn
    <3> QED BY <1>0, <3>1, <3>2, AppendParamType
  <2>8. /\ moved_indexes' \subseteq Nat
        /\ multi_mut' \subseteq Nat
        /\ immutable_borrow' \subseteq Nat
    BY <2>1, <2>2 DEF TakeReturn, TypeOK
  <2>9. TypeOK'
    BY <1>2, <2>1, <2>6, <2>7, <2>8 DEF TakeReturn, TypeOK
  <2>10. Located'
    BY <1>0, <1>2, <2>1, <2>7 DEF TakeReturn, Located
  <2> QED BY <2>9, <2>10
<1>5. CASE fuzzable_param
  <2> DEFINE slot == NextSlot(new_sequence)
             ct   == FuzzableCallOf(CurrentType)
             ft   == FuzzableTypeOf(CurrentType)
  <2>1. ct \in CallTypes /\ ft \in FuzzableTypes
    BY <1>3, <1>5 DEF fuzzable_param, CallTypes, FuzzableTypes
  <2>2. slot \in Nat
    BY <1>0 DEF NextSlot, ApiSequences
  <2>3. /\ new_sequence' =
             [new_sequence EXCEPT
                !.fuzzable_params = Append(@, ft),
                !.fuzzable_mut_tag = IF NeedMutTag(ct) THEN @ \cup {slot} ELSE @]
        /\ api_call' =
             [api_call EXCEPT !.params = Append(@, Param("fuzzable", slot, ct))]
    BY <1>5 DEF fuzzable_param
  <2> HIDE DEF slot, ct, ft
  <2>4. new_sequence' \in ApiSequences
    <3>1. /\ Append(new_sequence.fuzzable_params, ft) \in Seq(FuzzableTypes)
          /\ new_sequence.fuzzable_mut_tag \cup {slot} \subseteq Nat
      BY <1>0, <2>1, <2>2, SequenceFields
    <3> QED BY <1>0, <2>3, <3>1 DEF ApiSequences
  <2>5. api_call' \in ApiCalls /\ api_call'.func = api_call.func
    <3>1. Param("fuzzable", slot, ct) \in Params
      BY <2>1, <2>2 DEF Param, Params, ParamKinds
    <3> QED BY <1>0, <2>3, <3>1, AppendParamType
  <2>6. TypeOK'
    BY <1>2, <1>5, <2>4, <2>5 DEF fuzzable_param, TypeOK
  <2>7. Located'
    BY <1>0, <1>2, <1>5, <2>5 DEF fuzzable_param, Located
  <2> QED BY <2>6, <2>7
<1>6. CASE refuse_param
  <2>1. TypeOK'
    BY <1>2, <1>6 DEF refuse_param, TypeOK
  <2>2. Located'
    BY <1>0, <1>2, <1>6 DEF refuse_param, Located
  <2> QED BY <2>1, <2>2
<1>7. CASE add_fn
  <2>1. moved_indexes \subseteq Nat
    BY DEF TypeOK
  <2>2. new_sequence' =
         [new_sequence EXCEPT !.functions = Append(@, api_call),
                              !.moved = @ \cup moved_indexes]
    BY <1>7 DEF add_fn
  <2>3. new_sequence' \in ApiSequences
    <3>1. new_sequence.functions \in Seq(ApiCalls) /\ new_sequence.moved \subseteq Nat
      BY <1>0, SequenceFields
    <3>2. Append(new_sequence.functions, api_call) \in Seq(ApiCalls)
      BY <1>0, <3>1
    <3>3. new_sequence.moved \cup moved_indexes \subseteq Nat
      BY <2>1, <3>1
    <3> QED BY <1>0, <2>2, <3>2, <3>3 DEF ApiSequences
  <2>4. pc' \in {"some", "none"}
    BY <1>7 DEF add_fn
  <2>5. TypeOK'
    BY <1>2, <1>7, <2>3, <2>4 DEF add_fn, TypeOK
  <2>6. Located'
    BY <1>0, <1>2, <1>7, <2>4 DEF add_fn, Located
  <2> QED BY <2>5, <2>6
<1> QED BY <1>4, <1>5, <1>6, <1>7 DEF IsFunSatisfied

\* Keeping an accepted sequence: positions of api_sequences stay positions.
LEMMA PushType ==
    ASSUME TypeOK, PushNewSequence
    PROVE  /\ api_sequences' \in Seq(ApiSequences)
           /\ api_functions_visited' \in Seq(BOOLEAN)
           /\ DOMAIN api_sequences \subseteq DOMAIN api_sequences'
<1>1. /\ api_sequences \in Seq(ApiSequences) /\ new_sequence \in ApiSequences
      /\ api_functions_visited \in Seq(BOOLEAN)
  BY DEF TypeOK
<1>2. api_sequences' = Append(api_sequences, new_sequence)
  BY DEF PushNewSequence
<1>3. /\ api_sequences' \in Seq(ApiSequences)
      /\ DOMAIN api_sequences \subseteq DOMAIN api_sequences'
  BY <1>1, <1>2
<1>4. api_functions_visited' \in Seq(BOOLEAN)
  <2>1. api_functions_visited' =
          [api_functions_visited EXCEPT ![api_call.func] = TRUE]
    BY DEF PushNewSequence
  <2> DEFINE n == Len(api_functions_visited)
  <2>2. n \in Nat /\ api_functions_visited \in [1 .. n -> BOOLEAN]
    BY <1>1
  <2> HIDE DEF n
  <2>3. api_functions_visited' \in [1 .. n -> BOOLEAN]
    BY <2>1, <2>2
  <2> QED BY <2>2, <2>3, SeqOfFunction
<1> QED BY <1>3, <1>4

LEMMA BfsType ==
    ASSUME TypeInv, Bfs
    PROVE  TypeInv'
<1> USE DEF TypeInv, graphVars, resultVars, satVars, bfsVars, roundVars,
            mergeVars, coverVars
<1>0. UNCHANGED api_functions /\ UNCHANGED api_dependencies
  BY DEF Bfs, bfs_start, bfs_level, bfs_try, bfs_skip, bfs_return,
         bfs_next_sequence, bfs_next_level, bfs_end
<1>1. Funs' = Funs /\ AllDependencies' = AllDependencies
  BY <1>0, StableGraph
<1>2. CASE bfs_start
  <2>1. /\ pc = "bfs" /\ pc' \in {"cover", "level"}
        /\ len' = 0
    BY <1>2 DEF bfs_start
  <2>2. api_functions_visited' \in Seq(BOOLEAN)
    <3>1. api_functions_visited' \in [1 .. Len(api_functions) -> BOOLEAN]
      BY <1>2 DEF bfs_start, Funs, TypeOK
    <3>2. Len(api_functions) \in Nat
      BY DEF TypeOK
    <3> QED BY <3>1, <3>2, SeqOfFunction
  <2>3. api_sequences' \in Seq(ApiSequences)
    <3>1. NewSequence \in ApiSequences
      BY DEF NewSequence, ApiSequences
    <3>2. <<>> \in Seq(ApiSequences) /\ <<NewSequence>> \in Seq(ApiSequences)
      BY <3>1
    <3>3. api_sequences' = <<>> \/ api_sequences' = <<NewSequence>>
      BY <1>2 DEF bfs_start
    <3> QED BY <3>2, <3>3
  <2>4. /\ tmp_sequences = {} /\ candidates = {} /\ DOMAIN dependents = {}
        /\ api_dependencies = AllDependencies
    BY <2>1 DEF Located
  <2>5. TypeOK'
    BY <1>1, <1>2, <2>1, <2>2, <2>3, <2>4 DEF bfs_start, TypeOK
  <2>6. Located'
    BY <1>0, <1>1, <2>1, <2>4 DEF Located
  <2> QED BY <2>5, <2>6
<1>3. CASE bfs_level
  <2>1. tmp_sequences' \subseteq DOMAIN api_sequences
    BY <1>3 DEF bfs_level
  <2>2. TypeOK'
    BY <1>1, <1>3, <2>1 DEF bfs_level, TypeOK
  <2>3. Located'
    BY <1>1, <1>3 DEF bfs_level, Located
  <2> QED BY <2>2, <2>3
<1>4. CASE bfs_try
  <2>1. PICK n \in tmp_sequences : Satisfy(api_sequences[n], next_fun, "bfs")
    BY <1>4 DEF bfs_try
  <2>2. api_sequences[n] \in ApiSequences /\ next_fun \in Funs
    BY <1>4, <2>1 DEF bfs_try, TypeOK
  <2>3. /\ pc' = "param"
        /\ caller' \in Callers
        /\ api_call' \in ApiCalls
        /\ api_call'.func \in Funs
        /\ new_sequence' \in ApiSequences
        /\ moved_indexes' = {} /\ multi_mut' = {} /\ immutable_borrow' = {}
    BY <2>1, <2>2, SatisfyType DEF Callers, DefaultCallers
  <2>4. next_fun' \in Nat
    BY <1>4 DEF bfs_try, TypeOK
  <2>5. TypeOK'
    BY <1>1, <1>4, <2>3, <2>4 DEF bfs_try, TypeOK
  <2>6. Located'
    BY <1>1, <1>4, <2>3 DEF bfs_try, Located
  <2> QED BY <2>5, <2>6
<1>5. CASE bfs_skip
  <2>1. next_fun' \in Nat
    BY <1>5 DEF bfs_skip, TypeOK
  <2>2. TypeOK'
    BY <1>1, <1>5, <2>1 DEF bfs_skip, TypeOK
  <2>3. Located'
    BY <1>1, <1>5 DEF bfs_skip, Located
  <2> QED BY <2>2, <2>3
<1>6. CASE bfs_return
  <2>1. /\ api_sequences' \in Seq(ApiSequences)
        /\ api_functions_visited' \in Seq(BOOLEAN)
        /\ DOMAIN api_sequences \subseteq DOMAIN api_sequences'
    <3>1. CASE pc = "some"
      BY <1>6, <3>1, PushType DEF bfs_return
    <3>2. CASE pc # "some"
      BY <1>6, <3>2 DEF bfs_return, TypeOK
    <3> QED BY <3>1, <3>2
  <2>2. /\ tmp_sequences' \subseteq DOMAIN api_sequences'
        /\ candidates' \subseteq DOMAIN api_sequences'
        /\ \A k \in DOMAIN dependents' : dependents'[k] \in DOMAIN api_sequences'
    BY <1>6, <2>1 DEF bfs_return, TypeOK
  <2>3. TypeOK'
    BY <1>1, <1>6, <2>1, <2>2 DEF bfs_return, TypeOK
  <2>4. Located'
    BY <1>1, <1>6 DEF bfs_return, Located
  <2> QED BY <2>3, <2>4
<1>7. CASE bfs_next_sequence
  <2>1. tmp_sequences' \subseteq tmp_sequences
    BY <1>7 DEF bfs_next_sequence
  <2>2. TypeOK'
    BY <1>1, <1>7, <2>1 DEF bfs_next_sequence, TypeOK
  <2>3. Located'
    BY <1>1, <1>7 DEF bfs_next_sequence, Located
  <2> QED BY <2>2, <2>3
<1>8. CASE bfs_next_level
  <2>1. len' \in Nat
    BY <1>8 DEF bfs_next_level, TypeOK
  <2>2. TypeOK'
    BY <1>1, <1>8, <2>1 DEF bfs_next_level, TypeOK
  <2>3. Located'
    BY <1>1, <1>8 DEF bfs_next_level, Located
  <2> QED BY <2>2, <2>3
<1>9. CASE bfs_end
  <2>1. pc = "level" /\ pc' \in {"cover", "done"}
    BY <1>9 DEF bfs_end
  <2>2. TypeOK'
    BY <1>1, <1>9, <2>1 DEF bfs_end, TypeOK
  <2>3. Located'
    BY <1>1, <1>9, <2>1 DEF bfs_end, Located
  <2> QED BY <2>2, <2>3
<1> QED BY <1>2, <1>3, <1>4, <1>5, <1>6, <1>7, <1>8, <1>9 DEF Bfs

\* The sequences to be merged for f are sequences the graph has, one for each
\* parameter that needs one.
LEMMA DependentsType ==
    ASSUME TypeOK, NEW f, CanBeCovered(f), cover_node(f)
    PROVE  /\ DOMAIN dependents' = Needed(f)
           /\ to_merge' \subseteq DOMAIN dependents'
           /\ \A k \in DOMAIN dependents' :
                 dependents'[k] \in DOMAIN api_sequences
<1>1. \A k \in Needed(f) : ChosenSupplier(f, k) \in candidates
  BY ChosenSupplierType DEF CanBeCovered, TypeOK
<1>2. dependents' = [k \in Needed(f) |-> ChosenSupplier(f, k)]
  BY DEF cover_node
<1>3. to_merge' = Needed(f)
  BY DEF cover_node
<1>4. candidates \subseteq DOMAIN api_sequences
  BY DEF TypeOK
<1> QED BY <1>1, <1>2, <1>3, <1>4

\* The functions are finitely many, so that the number of rounds is a number.
LEMMA RoundsType ==
    ASSUME api_functions \in Seq(ApiFunctions), NEW S, S \subseteq Funs
    PROVE  RoundLimit(S) \in Nat
<1>1. Len(api_functions) \in Nat /\ S \subseteq 1 .. Len(api_functions)
  BY DEF Funs
<1>2. IsFiniteSet(1 .. Len(api_functions))
  BY <1>1, FS_Interval
<1>3. IsFiniteSet(S)
  BY <1>1, <1>2, FS_Subset
<1> QED BY <1>3, FS_CardinalityType DEF RoundLimit

LEMMA CoverType ==
    ASSUME TypeInv, Cover
    PROVE  TypeInv'
<1> USE DEF TypeInv, graphVars, resultVars, satVars, bfsVars, roundVars,
            mergeVars, coverVars
<1>0. UNCHANGED api_functions /\ UNCHANGED api_dependencies
  BY DEF Cover, cover_start, cover_round, cover_skip, cover_node,
         merge_sequences, cover_try, cover_return, cover_end_round, cover_end
<1>1. Funs' = Funs /\ AllDependencies' = AllDependencies
  BY <1>0, StableGraph
<1>2. CASE cover_start
  <2>1. unvisited_nodes' \subseteq Funs
    BY <1>2 DEF cover_start
  <2>2. rounds_left' \in Nat
    BY <1>2, <2>1, RoundsType DEF cover_start, TypeOK
  <2>3. TypeOK'
    BY <1>1, <1>2, <2>1, <2>2 DEF cover_start, TypeOK
  <2>4. Located'
    BY <1>1, <1>2 DEF cover_start, Located
  <2> QED BY <2>3, <2>4
<1>3. CASE cover_round
  <2>1. candidates' \subseteq DOMAIN api_sequences
    BY <1>3 DEF cover_round, choose_candidate_sequence_for_merge
  <2>2. rounds_left' \in Nat
    BY <1>3 DEF cover_round, TypeOK
  <2>3. TypeOK'
    BY <1>1, <1>3, <2>1, <2>2 DEF cover_round, TypeOK
  <2>4. Located'
    BY <1>1, <1>3 DEF cover_round, Located
  <2> QED BY <2>3, <2>4
<1>4. ASSUME NEW f \in todo, cover_skip(f) PROVE TypeInv'
  <2>1. TypeOK'
    BY <1>1, <1>4 DEF cover_skip, TypeOK
  <2>2. Located'
    BY <1>1, <1>4 DEF cover_skip, Located
  <2> QED BY <2>1, <2>2
<1>5. ASSUME NEW f \in todo, cover_node(f) PROVE TypeInv'
  <2>1. f \in Funs /\ f \in Nat
    BY FunctionTypes DEF TypeOK
  <2>2. new_sequence' \in ApiSequences
    BY <1>5 DEF cover_node, NewSequence, ApiSequences
  <2>3. api_call' \in ApiCalls /\ api_call'.func = f
    BY <1>5, <2>1 DEF cover_node, ApiCall, ApiCalls
  <2>4. /\ to_merge' \subseteq DOMAIN dependents'
        /\ \A k \in DOMAIN dependents' :
              dependents'[k] \in DOMAIN api_sequences
    BY <1>5, DependentsType DEF cover_node
  <2>5. pc = "node" /\ pc' = "merge" /\ todo' \subseteq todo
    BY <1>5 DEF cover_node
  <2>6. TypeOK'
    BY <1>1, <1>5, <2>2, <2>3, <2>4, <2>5 DEF cover_node, TypeOK
  <2>7. Located'
    BY <1>0, <1>1, <2>1, <2>3, <2>5 DEF Located
  <2> QED BY <2>6, <2>7
<1>6. CASE merge_sequences
  <2>1. PICK k \in to_merge :
           /\ to_merge' = to_merge \ {k}
           /\ new_sequence' =
                IF to_merge = DOMAIN dependents
                THEN api_sequences[dependents[k]]
                ELSE MergeAnother(new_sequence, api_sequences[dependents[k]])
    BY <1>6 DEF merge_sequences
  <2>2. api_sequences[dependents[k]] \in ApiSequences
    BY <2>1 DEF TypeOK
  <2>3. MergeAnother(new_sequence, api_sequences[dependents[k]]) \in ApiSequences
    BY <2>2, MergeType DEF TypeOK
  <2>4. new_sequence' \in ApiSequences /\ to_merge' \subseteq to_merge
    BY <2>1, <2>2, <2>3
  <2>5. TypeOK'
    BY <1>1, <1>6, <2>4 DEF merge_sequences, TypeOK
  <2>6. Located'
    BY <1>1, <1>6 DEF merge_sequences, Located
  <2> QED BY <2>5, <2>6
<1>7. CASE cover_try
  <2>1. new_sequence \in ApiSequences /\ api_call.func \in Funs
    BY <1>7 DEF cover_try, TypeOK, Located
  <2>2. Satisfy(new_sequence, api_call.func, "cover")
    BY <1>7 DEF cover_try
  <2>3. /\ pc' = "param"
        /\ caller' \in Callers
        /\ api_call' \in ApiCalls
        /\ api_call'.func \in Funs
        /\ new_sequence' \in ApiSequences
        /\ moved_indexes' = {} /\ multi_mut' = {} /\ immutable_borrow' = {}
    BY <2>1, <2>2, SatisfyType DEF Callers, DefaultCallers
  <2>4. TypeOK'
    BY <1>1, <1>7, <2>3 DEF cover_try, TypeOK
  <2>5. Located'
    BY <1>1, <1>7, <2>3 DEF cover_try, Located
  <2> QED BY <2>4, <2>5
<1>8. CASE cover_return
  <2>1. api_call.func \in Funs
    BY <1>8 DEF cover_return, Located
  <2>2. /\ api_sequences' \in Seq(ApiSequences)
        /\ api_functions_visited' \in Seq(BOOLEAN)
        /\ DOMAIN api_sequences \subseteq DOMAIN api_sequences'
        /\ covered' \subseteq Funs
        /\ algorithm_error' \in BOOLEAN
    <3>1. CASE pc = "some"
      <4>1. PushNewSequence
        BY <1>8, <3>1 DEF cover_return
      <4>2. /\ covered' = covered \cup {api_call.func}
            /\ algorithm_error' = algorithm_error
        BY <1>8, <3>1 DEF cover_return
      <4>3. covered' \subseteq Funs /\ algorithm_error' \in BOOLEAN
        BY <2>1, <4>2 DEF TypeOK
      <4> QED BY <4>1, <4>3, PushType
    <3>2. CASE pc # "some"
      BY <1>8, <3>2 DEF cover_return, TypeOK
    <3> QED BY <3>1, <3>2
  <2>3. /\ tmp_sequences' \subseteq DOMAIN api_sequences'
        /\ candidates' \subseteq DOMAIN api_sequences'
        /\ \A k \in DOMAIN dependents' : dependents'[k] \in DOMAIN api_sequences'
    BY <1>8, <2>2 DEF cover_return, TypeOK
  <2>4. TypeOK'
    BY <1>1, <1>8, <2>2, <2>3 DEF cover_return, TypeOK
  <2>5. Located'
    BY <1>1, <1>8 DEF cover_return, Located
  <2> QED BY <2>4, <2>5
<1>9. CASE cover_end_round
  <2>1. /\ pc = "node" /\ pc' \in {"done", "round"}
        /\ unvisited_nodes' \subseteq unvisited_nodes
        /\ todo' = {}
    BY <1>9 DEF cover_end_round
  <2>2. TypeOK'
    BY <1>1, <1>9, <2>1 DEF cover_end_round, TypeOK
  <2>3. Located'
    BY <1>1, <1>9, <2>1 DEF cover_end_round, Located
  <2> QED BY <2>2, <2>3
<1>10. CASE cover_end
  <2>1. TypeOK'
    BY <1>1, <1>10 DEF cover_end, TypeOK
  <2>2. Located'
    BY <1>1, <1>10 DEF cover_end, Located
  <2> QED BY <2>1, <2>2
<1> QED BY <1>2, <1>3, <1>4, <1>5, <1>6, <1>7, <1>8, <1>9, <1>10 DEF Cover

\* A step that changes nothing.
LEMMA StutterType ==
    ASSUME TypeInv, UNCHANGED vars
    PROVE  TypeInv'
<1> USE DEF vars, graphVars, resultVars, satVars, bfsVars, roundVars,
            mergeVars, coverVars
<1>1. Funs' = Funs /\ AllDependencies' = AllDependencies
  BY StableGraph
<1>2. TypeOK'
  BY <1>1 DEF TypeInv, TypeOK
<1>3. Located'
  BY <1>1 DEF TypeInv, Located
<1> QED BY <1>2, <1>3 DEF TypeInv

\* TypeInv is inductive.
LEMMA TypeStep == TypeInv /\ [Next]_vars => TypeInv'
BY CollectType, IsFunSatisfiedType, BfsType, CoverType, StutterType
   DEF Next, Terminated

\* The generator's state always has its shape: indexes point to functions of
\* the graph and to sequences that exist, in the middle of a merge and of
\* is_fun_satisfied too.
THEOREM TypeCorrect == Spec => []TypeOK
<1>1. TypeInv => TypeOK
  BY DEF TypeInv
<1> QED BY <1>1, InitType, TypeStep, PTL DEF Spec

-----------------------------------------------------------------------------
(* Linked arguments                                                        *)

\* Being linked only depends on the graph.
LEMMA StableLinked ==
    ASSUME UNCHANGED api_functions, UNCHANGED api_dependencies
    PROVE  /\ \A s : Linked(s)' <=> Linked(s)
           /\ \A s, c, f, k, a :
                 LinkedArg(s, c, f, k, a)' <=> LinkedArg(s, c, f, k, a)
           /\ \A f : InputsOf(f)' = InputsOf(f)
<1>1. \A f : InputsOf(f)' = InputsOf(f)
  BY DEF InputsOf
<1>2. \A s, c, f, k, a :
         LinkedArg(s, c, f, k, a)' <=> LinkedArg(s, c, f, k, a)
  BY DEF LinkedArg, Dependency, InputsOf
<1>3. Funs' = Funs
  BY DEF Funs
<1>4. \A s : Linked(s)' <=> Linked(s)
  BY <1>1, <1>2, <1>3 DEF Linked, LinkedCall, Arg
<1> QED BY <1>1, <1>2, <1>4

\* An argument stays linked when slots and calls are added behind.
LEMMA LinkedArgExtends ==
    ASSUME NEW s, NEW t, NEW c, NEW f, NEW k, NEW a,
           LinkedArg(s, c, f, k, a),
           \A i \in 1 .. c - 1 : t.functions[i] = s.functions[i],
           \A i \in DOMAIN s.fuzzable_params :
              /\ i \in DOMAIN t.fuzzable_params
              /\ t.fuzzable_params[i] = s.fuzzable_params[i]
    PROVE  LinkedArg(t, c, f, k, a)
BY DEF LinkedArg

\* The empty sequence.
LEMMA NewLinked == Linked(NewSequence)
BY DEF Linked, NewSequence

\* What a sequence's other fields are does not matter.
LEMMA LinkedFields ==
    ASSUME NEW s, NEW t, Linked(s),
           t.functions = s.functions, t.fuzzable_params = s.fuzzable_params
    PROVE  Linked(t)
<1>1. \A c, f, k, a : LinkedArg(s, c, f, k, a) => LinkedArg(t, c, f, k, a)
  BY LinkedArgExtends, Zenon
<1>2. \A c : LinkedCall(s, c) => LinkedCall(t, c)
  BY <1>1, Zenon DEF LinkedCall, Arg
<1> QED BY <1>2, Zenon DEF Linked

\* A slot is added.
LEMMA SlotLinked ==
    ASSUME NEW s \in ApiSequences, NEW t, NEW z, Linked(s),
           t.functions = s.functions,
           t.fuzzable_params = Append(s.fuzzable_params, z)
    PROVE  /\ Linked(t)
           /\ \A c, f, k, a : LinkedArg(s, c, f, k, a) => LinkedArg(t, c, f, k, a)
<1>1. s.fuzzable_params \in Seq(FuzzableTypes)
  BY SequenceFields
<1>2. \A i \in DOMAIN s.fuzzable_params :
         /\ i \in DOMAIN t.fuzzable_params
         /\ t.fuzzable_params[i] = s.fuzzable_params[i]
  BY <1>1
<1>3. \A c, f, k, a : LinkedArg(s, c, f, k, a) => LinkedArg(t, c, f, k, a)
  BY <1>2 DEF LinkedArg
<1>4. Linked(t)
  BY <1>3 DEF Linked, LinkedCall, Arg
<1> QED BY <1>3, <1>4

\* add_fn: a call whose arguments are all linked is appended.
LEMMA CallLinked ==
    ASSUME NEW s \in ApiSequences, NEW t, NEW call \in ApiCalls,
           Linked(s),
           call.func \in Funs,
           DOMAIN call.params = DOMAIN InputsOf(call.func),
           \A k \in DOMAIN call.params :
              LinkedArg(s, Len(s.functions) + 1, call.func, k, call.params[k]),
           t.functions = Append(s.functions, call),
           t.fuzzable_params = s.fuzzable_params
    PROVE  Linked(t)
<1> DEFINE n == Len(s.functions)
<1>1. s.functions \in Seq(ApiCalls) /\ n \in Nat
  BY SequenceFields
<1>2. /\ DOMAIN t.functions = 1 .. n + 1
      /\ \A i \in 1 .. n : t.functions[i] = s.functions[i]
      /\ t.functions[n + 1] = call
      /\ DOMAIN s.functions = 1 .. n
  BY <1>1
<1> HIDE DEF n
<1>3. ASSUME NEW c \in 1 .. n PROVE LinkedCall(t, c)
  <2>1. LinkedCall(s, c) /\ t.functions[c] = s.functions[c]
    BY <1>2 DEF Linked
  <2>2. \A i \in 1 .. c - 1 : t.functions[i] = s.functions[i]
    BY <1>1, <1>2
  <2>3. \A f, k, a : LinkedArg(s, c, f, k, a) => LinkedArg(t, c, f, k, a)
    BY <2>2, LinkedArgExtends, Zenon
  <2> QED BY <2>1, <2>3 DEF LinkedCall, Arg
<1>4. LinkedCall(t, n + 1)
  <2>1. \A i \in 1 .. (n + 1) - 1 : t.functions[i] = s.functions[i]
    BY <1>1, <1>2
  <2>2. \A k \in DOMAIN call.params :
           LinkedArg(t, n + 1, call.func, k, call.params[k])
    <3>1. \A k \in DOMAIN call.params :
             LinkedArg(s, n + 1, call.func, k, call.params[k])
      BY DEF n
    <3> QED BY <2>1, <3>1 DEF LinkedArg
  <2> QED BY <1>2, <2>2 DEF LinkedCall, Arg
<1>5. \A c \in 1 .. n + 1 : c \in 1 .. n \/ c = n + 1
  BY <1>1
<1> QED BY <1>2, <1>3, <1>4, <1>5 DEF Linked

\* Where the elements of a concatenation come from.
LEMMA ConcatIndex ==
    ASSUME NEW S, NEW T, NEW x \in Seq(S), NEW y \in Seq(T)
    PROVE  /\ DOMAIN (x \o y) = 1 .. Len(x) + Len(y)
           /\ \A i \in DOMAIN x : (x \o y)[i] = x[i]
           /\ \A i \in DOMAIN y : (x \o y)[Len(x) + i] = y[i]
<1> DEFINE m == Len(x)
           n == Len(y)
<1>1. m \in Nat /\ n \in Nat /\ DOMAIN x = 1 .. m /\ DOMAIN y = 1 .. n
  OBVIOUS
<1>2. x \in Seq(S \cup T)
  <2>1. x \in [1 .. m -> S \cup T]
    BY <1>1
  <2> QED BY <1>1, <2>1, SeqOfFunction
<1>3. y \in Seq(S \cup T)
  <2>1. y \in [1 .. n -> S \cup T]
    BY <1>1
  <2> QED BY <1>1, <2>1, SeqOfFunction
<1>4. /\ x \o y \in Seq(S \cup T)
      /\ Len(x \o y) = m + n
      /\ \A i \in 1 .. m + n : (x \o y)[i] = IF i <= m THEN x[i] ELSE y[i - m]
  BY <1>2, <1>3, ConcatProperties
<1>5. DOMAIN (x \o y) = 1 .. m + n
  BY <1>4
<1> HIDE DEF m, n
<1>6. \A i \in 1 .. m : (x \o y)[i] = x[i]
  BY <1>1, <1>4
<1>7. \A i \in 1 .. n : (x \o y)[m + i] = y[i]
  <2> TAKE i \in 1 .. n
  <2>1. m + i \in 1 .. m + n /\ ~(m + i <= m) /\ (m + i) - m = i
    BY <1>1
  <2> QED BY <1>4, <2>1
<1> QED BY <1>1, <1>5, <1>6, <1>7 DEF m, n

\* The calls of a merged sequence.
LEMMA MergeFunctions ==
    ASSUME NEW a \in ApiSequences, NEW b \in ApiSequences
    PROVE  LET t  == MergeAnother(a, b)
               nf == Len(a.functions)
               nz == Len(a.fuzzable_params)
           IN /\ DOMAIN t.functions = 1 .. nf + Len(b.functions)
              /\ \A i \in DOMAIN a.functions : t.functions[i] = a.functions[i]
              /\ \A i \in DOMAIN b.functions :
                    /\ t.functions[nf + i] = ShiftCall(b.functions[i], nf, nz)
                    /\ t.functions[nf + i].func = b.functions[i].func
<1> DEFINE nf == Len(a.functions)
           nz == Len(a.fuzzable_params)
           Moved(i) == ShiftCall(b.functions[i], nf, nz)
           g  == [i \in DOMAIN b.functions |-> Moved(i)]
<1>1. a.functions \in Seq(ApiCalls) /\ b.functions \in Seq(ApiCalls)
  BY SequenceFields
<1>2. \A i \in DOMAIN b.functions : Moved(i).func = b.functions[i].func
  <2>1. \A i \in DOMAIN b.functions : b.functions[i] \in ApiCalls
    BY <1>1
  <2> QED BY <2>1 DEF ShiftCall, ApiCalls
<1>3. MergeAnother(a, b).functions = a.functions \o g
  BY DEF MergeAnother
<1> HIDE DEF Moved, nz
<1>4. g \in Seq({Moved(i) : i \in DOMAIN b.functions})
  <2>1. Len(b.functions) \in Nat /\ DOMAIN b.functions = 1 .. Len(b.functions)
    BY <1>1
  <2>2. g \in [1 .. Len(b.functions) -> {Moved(i) : i \in DOMAIN b.functions}]
    BY <2>1
  <2> QED BY <2>1, <2>2, SeqOfFunction
<1>5. /\ DOMAIN g = DOMAIN b.functions /\ Len(g) = Len(b.functions)
      /\ \A i \in DOMAIN g : g[i] = Moved(i)
  BY <1>1, <1>4
<1> HIDE DEF g
<1>6. /\ DOMAIN (a.functions \o g) = 1 .. nf + Len(b.functions)
      /\ \A i \in DOMAIN a.functions : (a.functions \o g)[i] = a.functions[i]
      /\ \A i \in DOMAIN b.functions : (a.functions \o g)[nf + i] = g[i]
  <2>1. /\ DOMAIN (a.functions \o g) = 1 .. Len(a.functions) + Len(g)
        /\ \A i \in DOMAIN a.functions : (a.functions \o g)[i] = a.functions[i]
        /\ \A i \in DOMAIN g : (a.functions \o g)[Len(a.functions) + i] = g[i]
    <3> DEFINE x == a.functions
               T == {Moved(i) : i \in DOMAIN b.functions}
    <3>1. x \in Seq(ApiCalls) /\ g \in Seq(T)
      BY <1>1, <1>4
    <3> HIDE DEF x, T
    <3>2. /\ DOMAIN (x \o g) = 1 .. Len(x) + Len(g)
          /\ \A i \in DOMAIN x : (x \o g)[i] = x[i]
          /\ \A i \in DOMAIN g : (x \o g)[Len(x) + i] = g[i]
      BY <3>1, ConcatIndex
    <3> QED BY <3>2 DEF x
  <2> QED BY <1>5, <2>1, Zenon DEF nf
<1>7. \A i \in DOMAIN b.functions : (a.functions \o g)[nf + i] = Moved(i)
  BY <1>5, <1>6
<1> QED BY <1>2, <1>3, <1>6, <1>7 DEF Moved, nz

\* An argument of the other sequence, renumbered.
LEMMA ShiftLinked ==
    ASSUME NEW a \in ApiSequences, NEW b \in ApiSequences,
           NEW c \in DOMAIN b.functions, NEW f, NEW k, NEW p \in Params,
           LinkedArg(b, c, f, k, p),
           NEW q,
           q = [p EXCEPT !.index = @ + (IF p.kind = "fuzzable"
                                        THEN Len(a.fuzzable_params)
                                        ELSE Len(a.functions))]
    PROVE  LinkedArg(MergeAnother(a, b), Len(a.functions) + c, f, k, q)
<1> DEFINE t  == MergeAnother(a, b)
           nf == Len(a.functions)
           nz == Len(a.fuzzable_params)
<1>1. /\ a.functions \in Seq(ApiCalls) /\ b.functions \in Seq(ApiCalls)
      /\ a.fuzzable_params \in Seq(FuzzableTypes)
      /\ b.fuzzable_params \in Seq(FuzzableTypes)
  BY SequenceFields
<1>2. nf \in Nat /\ nz \in Nat
  BY <1>1
<1>3. t.fuzzable_params = a.fuzzable_params \o b.fuzzable_params
  BY DEF MergeAnother
<1>4. \A i \in DOMAIN b.functions : t.functions[nf + i].func = b.functions[i].func
  BY <1>1, MergeFunctions
<1>5. p.kind \in {"fuzzable", "return"} /\ p.index \in Nat
  BY DEF Params, ParamKinds
<1>6. q.kind = p.kind /\ q.call_type = p.call_type
  BY DEF Params
<1>7. CASE p.kind = "return"
  <2>1. q.index = p.index + nf
    BY <1>7 DEF Params
  <2>2. /\ p.index \in 1 .. c - 1
        /\ ~IsFuzzable(InputsOf(f)[k])
        /\ Dependency(b.functions[p.index].func, f, k) \in api_dependencies
        /\ p.call_type = Dependency(b.functions[p.index].func, f, k).call_type
    BY <1>7 DEF LinkedArg
  <2>3. c \in Nat /\ p.index \in DOMAIN b.functions
    BY <1>1, <2>2
  <2>4. q.index \in 1 .. (nf + c) - 1
    BY <1>2, <2>1, <2>2, <2>3
  <2>5. t.functions[q.index].func = b.functions[p.index].func
    BY <1>2, <1>4, <1>5, <2>1, <2>3
  <2> HIDE DEF t, nf, nz
  <2>6. LinkedArg(t, nf + c, f, k, q)
    BY <1>6, <1>7, <2>2, <2>4, <2>5 DEF LinkedArg
  <2> QED BY <2>6 DEF t, nf
<1>8. CASE p.kind = "fuzzable"
  <2>1. q.index = p.index + nz
    BY <1>8 DEF Params
  <2>2. /\ p.index \in DOMAIN b.fuzzable_params
        /\ IsFuzzable(InputsOf(f)[k])
        /\ b.fuzzable_params[p.index] = FuzzableTypeOf(InputsOf(f)[k])
        /\ p.call_type = FuzzableCallOf(InputsOf(f)[k])
    BY <1>8 DEF LinkedArg
  <2>3. /\ q.index \in DOMAIN t.fuzzable_params
        /\ t.fuzzable_params[q.index] = b.fuzzable_params[p.index]
    <3>1. /\ DOMAIN t.fuzzable_params = 1 .. nz + Len(b.fuzzable_params)
          /\ t.fuzzable_params[nz + p.index] = b.fuzzable_params[p.index]
      <4> DEFINE x == a.fuzzable_params
                 y == b.fuzzable_params
      <4>1. x \in Seq(FuzzableTypes) /\ y \in Seq(FuzzableTypes)
        BY <1>1
      <4> HIDE DEF x, y
      <4>2. /\ DOMAIN (x \o y) = 1 .. Len(x) + Len(y)
            /\ \A i \in DOMAIN y : (x \o y)[Len(x) + i] = y[i]
        BY <4>1, ConcatIndex
      <4> QED BY <1>3, <2>2, <4>2, Zenon DEF x, y, nz
    <3>2. p.index \in 1 .. Len(b.fuzzable_params) /\ Len(b.fuzzable_params) \in Nat
      BY <1>1, <2>2
    <3>3. q.index = nz + p.index /\ q.index \in 1 .. nz + Len(b.fuzzable_params)
      <4> HIDE DEF nz
      <4> QED BY <1>2, <1>5, <2>1, <3>2
    <3> QED BY <3>1, <3>3, Zenon
  <2> HIDE DEF t, nf, nz
  <2>4. LinkedArg(t, nf + c, f, k, q)
    BY <1>6, <1>8, <2>2, <2>3 DEF LinkedArg
  <2> QED BY <2>4 DEF t, nf
<1> QED BY <1>5, <1>7, <1>8

\* _merge_another_sequence links the calls of both sequences.
LEMMA MergeLinked ==
    ASSUME NEW a \in ApiSequences, NEW b \in ApiSequences, Linked(a), Linked(b)
    PROVE  Linked(MergeAnother(a, b))
<1> DEFINE t  == MergeAnother(a, b)
           nf == Len(a.functions)
           nz == Len(a.fuzzable_params)
           m  == Len(b.functions)
<1>1. /\ a.functions \in Seq(ApiCalls) /\ b.functions \in Seq(ApiCalls)
      /\ a.fuzzable_params \in Seq(FuzzableTypes)
      /\ b.fuzzable_params \in Seq(FuzzableTypes)
  BY SequenceFields
<1>2. /\ nf \in Nat /\ m \in Nat
      /\ DOMAIN a.functions = 1 .. nf /\ DOMAIN b.functions = 1 .. m
  BY <1>1
<1>3. /\ DOMAIN t.functions = 1 .. nf + m
      /\ \A i \in DOMAIN a.functions : t.functions[i] = a.functions[i]
      /\ \A i \in DOMAIN b.functions :
            /\ t.functions[nf + i] = ShiftCall(b.functions[i], nf, nz)
            /\ t.functions[nf + i].func = b.functions[i].func
  BY MergeFunctions, Zenon
<1>4. \A i \in DOMAIN a.fuzzable_params :
         /\ i \in DOMAIN t.fuzzable_params
         /\ t.fuzzable_params[i] = a.fuzzable_params[i]
  <2> DEFINE x == a.fuzzable_params
             y == b.fuzzable_params
  <2>1. t.fuzzable_params = x \o y
    BY DEF MergeAnother
  <2>2. x \in Seq(FuzzableTypes) /\ y \in Seq(FuzzableTypes)
    BY <1>1
  <2> HIDE DEF x, y, t
  <2>3. /\ DOMAIN (x \o y) = 1 .. Len(x) + Len(y)
        /\ \A i \in DOMAIN x : (x \o y)[i] = x[i]
    BY <2>2, ConcatIndex
  <2>4. \A i \in DOMAIN x : i \in 1 .. Len(x) + Len(y)
    BY <2>2
  <2>5. \A i \in DOMAIN x :
           /\ i \in DOMAIN t.fuzzable_params
           /\ t.fuzzable_params[i] = x[i]
    BY <2>1, <2>3, <2>4, Zenon
  <2> QED BY <2>5 DEF x
<1> HIDE DEF t, nf, nz, m
<1>5. ASSUME NEW c \in 1 .. nf PROVE LinkedCall(t, c)
  <2>1. LinkedCall(a, c) /\ t.functions[c] = a.functions[c]
    BY <1>2, <1>3 DEF Linked
  <2>2. \A i \in 1 .. c - 1 : t.functions[i] = a.functions[i]
    BY <1>2, <1>3
  <2>3. \A f, k, p : LinkedArg(a, c, f, k, p) => LinkedArg(t, c, f, k, p)
    BY <1>4, <2>2 DEF LinkedArg
  <2> QED BY <2>1, <2>3 DEF LinkedCall, Arg
<1>6. ASSUME NEW c \in 1 .. m PROVE LinkedCall(t, nf + c)
  <2> DEFINE old == b.functions[c]
             new == t.functions[nf + c]
  <2>0. c \in DOMAIN b.functions
    BY <1>2
  <2>1. LinkedCall(b, c) /\ old \in ApiCalls
    <3>1. LinkedCall(b, c)
      BY <2>0 DEF Linked
    <3>2. old \in ApiCalls
      BY <1>1, <2>0
    <3> QED BY <3>1, <3>2
  <2>2. new = ShiftCall(old, nf, nz) /\ new.func = old.func
    BY <1>2, <1>3
  <2>3. old.params \in Seq(Params)
    BY <2>1 DEF ApiCalls
  <2>4. /\ old.func \in Funs
        /\ DOMAIN old.params = DOMAIN InputsOf(old.func)
        /\ \A k \in DOMAIN old.params : LinkedArg(b, c, old.func, k, old.params[k])
    BY <2>1 DEF LinkedCall, Arg
  <2>5. /\ DOMAIN new.params = DOMAIN old.params
        /\ \A k \in DOMAIN old.params :
              new.params[k] =
                [old.params[k] EXCEPT !.index = @ + (IF old.params[k].kind = "fuzzable"
                                                     THEN nz ELSE nf)]
    <3>1. new.params = [k \in DOMAIN old.params |->
             [old.params[k] EXCEPT !.index =
                 @ + (IF old.params[k].kind = "fuzzable" THEN nz ELSE nf)]]
      BY <2>1, <2>2 DEF ShiftCall, ApiCalls
    <3> HIDE DEF new, old
    <3> QED BY <3>1, Zenon
  <2> HIDE DEF new, old
  <2>6. ASSUME NEW k \in DOMAIN new.params
        PROVE  LinkedArg(t, nf + c, new.func, k, new.params[k])
    <3>1. old.params[k] \in Params /\ c \in DOMAIN b.functions
      BY <1>2, <2>3, <2>5
    <3>2. LinkedArg(b, c, new.func, k, old.params[k])
      BY <2>2, <2>4, <2>5
    <3> DEFINE p == old.params[k]
               q == new.params[k]
    <3>3. q = [p EXCEPT !.index = @ + (IF p.kind = "fuzzable"
                                        THEN Len(a.fuzzable_params)
                                        ELSE Len(a.functions))]
      BY <2>5 DEF nf, nz
    <3> HIDE DEF p, q
    <3>4. p \in Params /\ LinkedArg(b, c, new.func, k, p)
      BY <3>1, <3>2 DEF p
    <3>5. LinkedArg(MergeAnother(a, b), Len(a.functions) + c, new.func, k, q)
      BY <3>1, <3>3, <3>4, ShiftLinked, Zenon
    <3> QED BY <3>5 DEF t, nf, q
  <2>7. /\ new.func \in Funs
        /\ DOMAIN new.params = DOMAIN InputsOf(new.func)
    BY <2>2, <2>4, <2>5
  <2> QED BY <2>6, <2>7 DEF LinkedCall, Arg, new
<1>7. ASSUME NEW c \in 1 .. nf + m PROVE LinkedCall(t, c)
  <2>1. CASE c <= nf
    BY <1>2, <1>5, <2>1
  <2>2. CASE ~(c <= nf)
    <3>1. c - nf \in 1 .. m /\ nf + (c - nf) = c
      BY <1>2, <2>2
    <3> QED BY <1>6, <3>1
  <2> QED BY <2>1, <2>2
<1>8. Linked(t)
  BY <1>3, <1>7 DEF Linked
<1> QED BY <1>8 DEF t

-----------------------------------------------------------------------------
(* The steps.  In each of them the graph stays the same, so that only      *)
(* api_sequences, new_sequence and api_call matter.                        *)

\* What has to be shown of a step once the graph is built.
LEMMA LinkInvFrom ==
    ASSUME TypeInv', UNCHANGED api_functions, UNCHANGED api_dependencies,
           pc' \notin {"collect", "filter", "bfs"},
           \A n \in DOMAIN api_sequences' : Linked(api_sequences'[n]),
           pc' \in {"merge", "param", "some"} => Linked(new_sequence'),
           pc' = "param" =>
             /\ DOMAIN api_call'.params \subseteq DOMAIN InputsOf(api_call'.func)
             /\ \A k \in DOMAIN api_call'.params :
                  LinkedArg(new_sequence', Len(new_sequence'.functions) + 1,
                            api_call'.func, k, api_call'.params[k])
    PROVE  LinkInv'
<1>1. ArgumentsLinked'
  <2>1. \A n \in DOMAIN api_sequences' : Linked(api_sequences[n])'
    BY StableLinked
  <2> QED BY <2>1 DEF ArgumentsLinked, Generated
<1>2. LinkedSoFar'
  <2>1. pc' \in {"merge", "param", "some"} => Linked(new_sequence)'
    BY StableLinked
  <2>2. ASSUME pc' = "param"
        PROVE  (/\ DOMAIN api_call.params \subseteq DOMAIN InputsOf(api_call.func)
                /\ \A k \in DOMAIN api_call.params :
                     LinkedArg(new_sequence, Len(new_sequence.functions) + 1,
                               api_call.func, k, api_call.params[k]))'
    BY <2>2, StableLinked
  <2> QED BY <2>1, <2>2 DEF LinkedSoFar
<1> QED BY <1>1, <1>2 DEF LinkInv

\* Entering is_fun_satisfied with a linked sequence.
LEMMA SatisfyLinked ==
    ASSUME TypeOK, NEW s \in ApiSequences, NEW f \in Funs, NEW who,
           Satisfy(s, f, who), Linked(s)
    PROVE  /\ Linked(new_sequence')
           /\ DOMAIN api_call'.params = {}
<1>1. new_sequence'.functions = s.functions
      /\ new_sequence'.fuzzable_params = s.fuzzable_params
  BY DEF Satisfy, ApiSequences
<1> DEFINE t == new_sequence'
<1>2. t.functions = s.functions /\ t.fuzzable_params = s.fuzzable_params
  BY <1>1
<1> HIDE DEF t
<1>3. Linked(t)
  BY <1>2, LinkedFields
<1> QED BY <1>3 DEF t, Satisfy, ApiCall

LEMMA InitLinked == Init => LinkInv
<1> SUFFICES ASSUME Init PROVE LinkInv
  OBVIOUS
<1>1. TypeInv
  BY InitType
<1>2. Generated = {}
  BY DEF Generated, Init
<1> QED BY <1>1, <1>2 DEF LinkInv, ArgumentsLinked, LinkedSoFar, Init

LEMMA CollectLinked ==
    ASSUME LinkInv, Collect
    PROVE  LinkInv'
<1>1. TypeInv'
  BY CollectType DEF LinkInv
<1>2. /\ pc \in {"collect", "filter"} /\ pc' \in {"collect", "filter", "bfs"}
      /\ api_sequences' = api_sequences
  BY DEF Collect, add_api_function, filter_start, filter_function,
         find_all_dependencies, LinkInv, TypeInv, TypeOK, resultVars
<1>3. api_sequences' = <<>>
  BY <1>2 DEF LinkInv, LinkedSoFar
<1>4. Generated' = {}
  BY <1>3 DEF Generated
<1> QED BY <1>1, <1>2, <1>3, <1>4 DEF LinkInv, ArgumentsLinked, LinkedSoFar

\* An argument is added to the call under construction.
LEMMA ArgumentAdded ==
    ASSUME NEW t, NEW n \in Nat, NEW f, NEW ps \in Seq(Params), NEW p,
           InputsOf(f) \in Seq(Types),
           Len(ps) + 1 \in DOMAIN InputsOf(f),
           \A k \in DOMAIN ps : LinkedArg(t, n, f, k, ps[k]),
           LinkedArg(t, n, f, Len(ps) + 1, p),
           NEW qs, qs = Append(ps, p)
    PROVE  /\ DOMAIN qs \subseteq DOMAIN InputsOf(f)
           /\ \A k \in DOMAIN qs : LinkedArg(t, n, f, k, qs[k])
<1> DEFINE m == Len(ps)
<1>1. m \in Nat /\ DOMAIN ps = 1 .. m
  OBVIOUS
<1>2. /\ DOMAIN qs = 1 .. m + 1
      /\ \A k \in 1 .. m : qs[k] = ps[k]
      /\ qs[m + 1] = p
  BY <1>1
<1>3. \A k \in 1 .. m + 1 : k \in 1 .. m \/ k = m + 1
  BY <1>1
<1>4. \A k \in DOMAIN qs : LinkedArg(t, n, f, k, qs[k])
  BY <1>1, <1>2, <1>3
<1>5. 1 .. m + 1 \subseteq DOMAIN InputsOf(f)
  BY <1>1
<1> QED BY <1>2, <1>4, <1>5

LEMMA IsFunSatisfiedLinked ==
    ASSUME LinkInv, IsFunSatisfied
    PROVE  LinkInv'
<1> USE DEF graphVars, resultVars, satVars, bfsVars, roundVars, mergeVars,
            coverVars
<1> DEFINE n  == Len(new_sequence.functions) + 1
           ps == api_call.params
           f  == api_call.func
<1>0. /\ api_functions \in Seq(ApiFunctions)
      /\ new_sequence \in ApiSequences
      /\ api_call \in ApiCalls
      /\ pc = "param"
      /\ f \in Funs
      /\ api_dependencies = AllDependencies
  BY DEF LinkInv, TypeInv, TypeOK, Located, IsFunSatisfied, return_param,
         fuzzable_param, refuse_param, add_fn
<1>1. /\ UNCHANGED api_functions /\ UNCHANGED api_dependencies
      /\ UNCHANGED api_sequences
  BY DEF IsFunSatisfied, return_param, TakeReturn, fuzzable_param,
         refuse_param, add_fn
<1>2. TypeInv'
  BY IsFunSatisfiedType DEF LinkInv
<1>3. /\ Linked(new_sequence)
      /\ DOMAIN ps \subseteq DOMAIN InputsOf(f)
      /\ \A k \in DOMAIN ps : LinkedArg(new_sequence, n, f, k, ps[k])
  BY <1>0 DEF LinkInv, LinkedSoFar
<1>4. \A j \in DOMAIN api_sequences' : Linked(api_sequences'[j])
  BY <1>1 DEF LinkInv, ArgumentsLinked, Generated
<1>5. /\ ps \in Seq(Params) /\ InputsOf(f) \in Seq(Types) /\ n \in Nat
      /\ new_sequence.functions \in Seq(ApiCalls)
  <2>1. ps \in Seq(Params)
    BY <1>0 DEF ApiCalls
  <2>2. InputsOf(f) \in Seq(Types)
    BY <1>0, FunctionTypes
  <2>3. new_sequence.functions \in Seq(ApiCalls)
    BY <1>0, SequenceFields
  <2> QED BY <2>1, <2>2, <2>3
<1>6. MoreParams <=> Len(ps) + 1 \in DOMAIN InputsOf(f)
  BY DEF MoreParams, CurrentParam
<1> HIDE DEF n, ps, f
<1>7. CASE return_param
  <2>1. PICK r \in DOMAIN new_sequence.functions : TakeReturn(r)
    BY <1>7 DEF return_param
  <2> DEFINE p == Param("return", r, CallTypeFrom(r))
             t == new_sequence'
             qs == api_call'.params
  <2>2. /\ t.functions = new_sequence.functions
        /\ t.fuzzable_params = new_sequence.fuzzable_params
    BY <1>0, <2>1 DEF TakeReturn, WithReturn, ApiSequences
  <2>3. qs = Append(ps, p) /\ api_call'.func = f
    BY <1>0, <2>1 DEF TakeReturn, ApiCalls, ps, f
  <2>4. LinkedArg(new_sequence, n, f, Len(ps) + 1, p)
    <3>1. r \in 1 .. n - 1
      BY <1>5, <2>1 DEF n
    <3>2. check_dependency(new_sequence.functions[r].func, f, Len(ps) + 1)
      BY <2>1 DEF TakeReturn, Fits, Available, CurrentParam, f, ps
    <3>3. Dependency(new_sequence.functions[r].func, f, Len(ps) + 1)
            \in api_dependencies
      BY <1>0, <3>2, EdgeTypes
    <3>4. CallTypeFrom(r) =
            Dependency(new_sequence.functions[r].func, f, Len(ps) + 1).call_type
      BY DEF CallTypeFrom, EdgeFrom, CurrentParam, f, ps
    <3>5. ~IsFuzzable(InputsOf(f)[Len(ps) + 1])
      BY <1>7 DEF return_param, CurrentType, CurrentParam, f, ps
    <3> QED BY <3>1, <3>3, <3>4, <3>5 DEF LinkedArg, Param
  <2>5. Linked(t) /\ \A c, g, k, a :
           LinkedArg(new_sequence, c, g, k, a) => LinkedArg(t, c, g, k, a)
    <3> HIDE DEF t
    <3>1. Linked(t)
      BY <1>3, <2>2, LinkedFields
    <3> QED BY <2>2, <3>1 DEF LinkedArg
  <2>6. n = Len(t.functions) + 1
    BY <2>2 DEF n
  <2>7. pc' = "param" /\ MoreParams
    BY <1>0, <1>7, <2>1 DEF return_param, TakeReturn
  <2> HIDE DEF p, t, qs
  <2>8. /\ DOMAIN qs \subseteq DOMAIN InputsOf(f)
        /\ \A k \in DOMAIN qs : LinkedArg(t, n, f, k, qs[k])
    BY <1>3, <1>5, <1>6, <2>3, <2>4, <2>5, <2>7, ArgumentAdded
  <2>9. /\ Linked(new_sequence')
        /\ DOMAIN api_call'.params \subseteq DOMAIN InputsOf(api_call'.func)
        /\ \A k \in DOMAIN api_call'.params :
             LinkedArg(new_sequence', Len(new_sequence'.functions) + 1,
                       api_call'.func, k, api_call'.params[k])
    BY <2>3, <2>5, <2>6, <2>8 DEF t, qs
  <2> QED BY <1>1, <1>2, <1>4, <2>7, <2>9, LinkInvFrom
<1>8. CASE fuzzable_param
  <2> DEFINE z == FuzzableTypeOf(CurrentType)
             p == Param("fuzzable", NextSlot(new_sequence),
                        FuzzableCallOf(CurrentType))
             t == new_sequence'
             qs == api_call'.params
  <2>1. new_sequence.fuzzable_params \in Seq(FuzzableTypes)
    BY <1>0, SequenceFields
  <2>2. /\ t.functions = new_sequence.functions
        /\ t.fuzzable_params = Append(new_sequence.fuzzable_params, z)
    BY <1>0, <1>8 DEF fuzzable_param, ApiSequences
  <2>3. qs = Append(ps, p) /\ api_call'.func = f
    BY <1>0, <1>8 DEF fuzzable_param, ApiCalls, ps, f
  <2>4. CurrentType = InputsOf(f)[Len(ps) + 1]
    BY DEF CurrentType, CurrentParam, f, ps
  <2>5. pc' = "param" /\ MoreParams
    BY <1>0, <1>8 DEF fuzzable_param
  <2>6. n = Len(t.functions) + 1
    BY <2>2 DEF n
  <2>7. LinkedArg(t, n, f, Len(ps) + 1, p)
    <3> HIDE DEF t, z
    <3>1. /\ NextSlot(new_sequence) \in DOMAIN t.fuzzable_params
          /\ t.fuzzable_params[NextSlot(new_sequence)] = z
      BY <2>1, <2>2 DEF NextSlot
    <3>2. IsFuzzable(InputsOf(f)[Len(ps) + 1])
      BY <1>8, <2>4 DEF fuzzable_param
    <3> QED BY <2>4, <3>1, <3>2 DEF LinkedArg, Param, z
  <2> HIDE DEF p, t, z, qs
  <2>8. /\ Linked(t)
        /\ \A c, g, k, a :
              LinkedArg(new_sequence, c, g, k, a) => LinkedArg(t, c, g, k, a)
    BY <1>0, <1>3, <2>2, SlotLinked
  <2>9. /\ DOMAIN qs \subseteq DOMAIN InputsOf(f)
        /\ \A k \in DOMAIN qs : LinkedArg(t, n, f, k, qs[k])
    BY <1>3, <1>5, <1>6, <2>3, <2>5, <2>7, <2>8, ArgumentAdded
  <2>10. /\ Linked(new_sequence')
         /\ DOMAIN api_call'.params \subseteq DOMAIN InputsOf(api_call'.func)
         /\ \A k \in DOMAIN api_call'.params :
              LinkedArg(new_sequence', Len(new_sequence'.functions) + 1,
                        api_call'.func, k, api_call'.params[k])
    BY <2>3, <2>6, <2>8, <2>9 DEF t, qs
  <2> QED BY <1>1, <1>2, <1>4, <2>5, <2>10, LinkInvFrom
<1>9. CASE refuse_param
  <2>1. pc' = "none"
    BY <1>9 DEF refuse_param
  <2> QED BY <1>1, <1>2, <1>4, <2>1, LinkInvFrom
<1>10. CASE add_fn
  <2> DEFINE t == new_sequence'
  <2>1. /\ t.functions = Append(new_sequence.functions, api_call)
        /\ t.fuzzable_params = new_sequence.fuzzable_params
    BY <1>0, <1>10 DEF add_fn, ApiSequences
  <2>2. DOMAIN ps = DOMAIN InputsOf(f)
    <3>1. ~(Len(ps) + 1 \in DOMAIN InputsOf(f))
      BY <1>6, <1>10 DEF add_fn
    <3> QED BY <1>3, <1>5, <3>1
  <2>3. pc' \in {"some", "none"}
    BY <1>10 DEF add_fn
  <2> HIDE DEF t
  <2>4. Linked(t)
    BY <1>0, <1>3, <2>1, <2>2, CallLinked DEF n, ps, f
  <2>5. Linked(new_sequence')
    BY <2>4 DEF t
  <2> QED BY <1>1, <1>2, <1>4, <2>3, <2>5, LinkInvFrom
<1> QED BY <1>7, <1>8, <1>9, <1>10 DEF IsFunSatisfied

\* Keeping an accepted sequence.
LEMMA PushLinked ==
    ASSUME TypeOK, ArgumentsLinked, Linked(new_sequence), PushNewSequence
    PROVE  \A j \in DOMAIN api_sequences' : Linked(api_sequences'[j])
<1>1. /\ api_sequences \in Seq(ApiSequences) /\ new_sequence \in ApiSequences
      /\ api_sequences' = Append(api_sequences, new_sequence)
  BY DEF TypeOK, PushNewSequence
<1>2. \A j \in DOMAIN api_sequences' :
         \/ j \in DOMAIN api_sequences /\ api_sequences'[j] = api_sequences[j]
         \/ api_sequences'[j] = new_sequence
  BY <1>1
<1>3. \A j \in DOMAIN api_sequences : Linked(api_sequences[j])
  BY DEF ArgumentsLinked, Generated
<1> QED BY <1>2, <1>3

LEMMA BfsLinked ==
    ASSUME LinkInv, Bfs
    PROVE  LinkInv'
<1> USE DEF graphVars, resultVars, satVars, bfsVars, roundVars, mergeVars,
            coverVars
<1>0. UNCHANGED api_functions /\ UNCHANGED api_dependencies
  BY DEF Bfs, bfs_start, bfs_level, bfs_try, bfs_skip, bfs_return,
         bfs_next_sequence, bfs_next_level, bfs_end
<1>1. TypeInv' /\ TypeOK
  BY BfsType DEF LinkInv, TypeInv
<1>2. \A j \in DOMAIN api_sequences : Linked(api_sequences[j])
  BY DEF LinkInv, ArgumentsLinked, Generated
<1>3. CASE bfs_start
  <2>1. pc' \in {"cover", "level"}
    BY <1>3 DEF bfs_start
  <2>2. api_sequences' = <<>> \/ api_sequences' = <<NewSequence>>
    BY <1>3 DEF bfs_start
  <2>3. \A j \in DOMAIN api_sequences' : api_sequences'[j] = NewSequence
    BY <2>2
  <2>4. \A j \in DOMAIN api_sequences' : Linked(api_sequences'[j])
    BY <2>3, NewLinked
  <2> QED BY <1>0, <1>1, <2>1, <2>4, LinkInvFrom
<1>4. CASE bfs_try
  <2>1. PICK n \in tmp_sequences : Satisfy(api_sequences[n], next_fun, "bfs")
    BY <1>4 DEF bfs_try
  <2>2. /\ api_sequences[n] \in ApiSequences /\ next_fun \in Funs
        /\ Linked(api_sequences[n])
    BY <1>1, <1>2, <1>4, <2>1 DEF bfs_try, TypeOK
  <2>3. Linked(new_sequence') /\ DOMAIN api_call'.params = {}
    BY <1>1, <2>1, <2>2, SatisfyLinked
  <2>4. pc' = "param" /\ UNCHANGED api_sequences
    BY <1>4, <2>1 DEF bfs_try, Satisfy
  <2> QED BY <1>0, <1>1, <1>2, <2>3, <2>4, LinkInvFrom
<1>5. CASE bfs_return
  <2>1. pc' = "extend"
    BY <1>5 DEF bfs_return
  <2>2. \A j \in DOMAIN api_sequences' : Linked(api_sequences'[j])
    <3>1. CASE pc = "some"
      <4>1. PushNewSequence /\ Linked(new_sequence)
        BY <1>5, <3>1 DEF bfs_return, LinkInv, LinkedSoFar
      <4> QED BY <1>1, <4>1, PushLinked DEF LinkInv
    <3>2. CASE pc # "some"
      <4>1. UNCHANGED api_sequences
        BY <1>5, <3>2 DEF bfs_return
      <4> QED BY <1>2, <4>1
    <3> QED BY <3>1, <3>2
  <2> QED BY <1>0, <1>1, <2>1, <2>2, LinkInvFrom
<1>6. CASE bfs_level \/ bfs_skip \/ bfs_next_sequence \/ bfs_next_level \/ bfs_end
  <2>1. /\ pc' \in {"extend", "level", "cover", "done"}
        /\ UNCHANGED api_sequences
    BY <1>6 DEF bfs_level, bfs_skip, bfs_next_sequence, bfs_next_level, bfs_end
  <2> QED BY <1>0, <1>1, <1>2, <2>1, LinkInvFrom
<1> QED BY <1>3, <1>4, <1>5, <1>6 DEF Bfs

LEMMA CoverLinked ==
    ASSUME LinkInv, Cover
    PROVE  LinkInv'
<1> USE DEF graphVars, resultVars, satVars, bfsVars, roundVars, mergeVars,
            coverVars
<1>0. UNCHANGED api_functions /\ UNCHANGED api_dependencies
  BY DEF Cover, cover_start, cover_round, cover_skip, cover_node,
         merge_sequences, cover_try, cover_return, cover_end_round, cover_end
<1>1. TypeInv' /\ TypeOK
  BY CoverType DEF LinkInv, TypeInv
<1>2. \A j \in DOMAIN api_sequences : Linked(api_sequences[j])
  BY DEF LinkInv, ArgumentsLinked, Generated
<1>3. ASSUME NEW f \in todo, cover_node(f) PROVE LinkInv'
  <2>1. /\ pc' = "merge" /\ UNCHANGED api_sequences
        /\ new_sequence' = NewSequence
    BY <1>3 DEF cover_node
  <2>2. Linked(new_sequence')
    BY <2>1, NewLinked
  <2> QED BY <1>0, <1>1, <1>2, <2>1, <2>2, LinkInvFrom
<1>4. CASE merge_sequences
  <2>1. PICK k \in to_merge :
           new_sequence' =
                IF to_merge = DOMAIN dependents
                THEN api_sequences[dependents[k]]
                ELSE MergeAnother(new_sequence, api_sequences[dependents[k]])
    BY <1>4 DEF merge_sequences
  <2> DEFINE s == api_sequences[dependents[k]]
  <2>2. s \in ApiSequences /\ Linked(s) /\ new_sequence \in ApiSequences
    BY <1>1, <1>2, <2>1 DEF TypeOK
  <2>3. pc' = "merge" /\ UNCHANGED api_sequences /\ Linked(new_sequence)
    BY <1>4 DEF merge_sequences, LinkInv, LinkedSoFar
  <2>4. Linked(MergeAnother(new_sequence, s))
    <3> HIDE DEF s
    <3> QED BY <2>2, <2>3, MergeLinked
  <2>5. Linked(new_sequence')
    BY <2>1, <2>2, <2>4
  <2> QED BY <1>0, <1>1, <1>2, <2>3, <2>5, LinkInvFrom
<1>5. CASE cover_try
  <2>1. Satisfy(new_sequence, api_call.func, "cover")
    BY <1>5 DEF cover_try
  <2>2. /\ new_sequence \in ApiSequences /\ api_call.func \in Funs
        /\ Linked(new_sequence)
    BY <1>5 DEF cover_try, LinkInv, LinkedSoFar, TypeInv, TypeOK, Located
  <2>3. Linked(new_sequence') /\ DOMAIN api_call'.params = {}
    BY <1>1, <2>1, <2>2, SatisfyLinked
  <2>4. pc' = "param" /\ UNCHANGED api_sequences
    BY <1>5, <2>1 DEF cover_try, Satisfy
  <2> QED BY <1>0, <1>1, <1>2, <2>3, <2>4, LinkInvFrom
<1>6. CASE cover_return
  <2>1. pc' = "node"
    BY <1>6 DEF cover_return
  <2>2. \A j \in DOMAIN api_sequences' : Linked(api_sequences'[j])
    <3>1. CASE pc = "some"
      <4>1. PushNewSequence /\ Linked(new_sequence)
        BY <1>6, <3>1 DEF cover_return, LinkInv, LinkedSoFar
      <4> QED BY <1>1, <4>1, PushLinked DEF LinkInv
    <3>2. CASE pc # "some"
      <4>1. UNCHANGED api_sequences
        BY <1>6, <3>2 DEF cover_return
      <4> QED BY <1>2, <4>1
    <3> QED BY <3>1, <3>2
  <2> QED BY <1>0, <1>1, <2>1, <2>2, LinkInvFrom
<1>7. CASE \/ cover_start \/ cover_round \/ cover_end_round \/ cover_end
           \/ \E f \in todo : cover_skip(f)
  <2>1. /\ pc' \in {"round", "node", "done"}
        /\ UNCHANGED api_sequences
    BY <1>7 DEF cover_start, cover_round, cover_end_round, cover_end, cover_skip
  <2> QED BY <1>0, <1>1, <1>2, <2>1, LinkInvFrom
<1> QED BY <1>3, <1>4, <1>5, <1>6, <1>7 DEF Cover

LEMMA StutterLinked ==
    ASSUME LinkInv, UNCHANGED vars
    PROVE  LinkInv'
<1> USE DEF vars, graphVars, resultVars, satVars, bfsVars, roundVars,
            mergeVars, coverVars
<1>1. TypeInv'
  BY StutterType DEF LinkInv
<1>2. /\ UNCHANGED api_functions /\ UNCHANGED api_dependencies
      /\ UNCHANGED api_sequences /\ UNCHANGED new_sequence
      /\ UNCHANGED api_call /\ UNCHANGED pc
  OBVIOUS
<1>3. ArgumentsLinked'
  BY <1>2, StableLinked DEF LinkInv, ArgumentsLinked, Generated
<1>4. LinkedSoFar'
  BY <1>2, StableLinked DEF LinkInv, LinkedSoFar
<1> QED BY <1>1, <1>3, <1>4 DEF LinkInv

\* LinkInv is inductive.
LEMMA LinkStep == LinkInv /\ [Next]_vars => LinkInv'
BY CollectLinked, IsFunSatisfiedLinked, BfsLinked, CoverLinked, StutterLinked
   DEF Next, Terminated

\* In every target that bfs or the backward search generates, each argument is
\* the result of an earlier call that the graph has an edge for, with the call
\* type of that edge, or a slot of the parameter's own fuzzable type; merging
\* renumbers both kinds of arguments correctly.
THEOREM ArgumentsAreLinked == Spec => []ArgumentsLinked
<1>1. LinkInv => ArgumentsLinked
  BY DEF LinkInv
<1> QED BY <1>1, InitLinked, LinkStep, PTL DEF Spec
=============================================================================
