----------------------- MODULE HeuristicChooseProofs ------------------------
(***************************************************************************)
(* The choice of targets: the files are valid, useful, ordered and within  *)
(* their limit, and they only leave a function out for a reason.           *)
(***************************************************************************)
EXTENDS ApiGraphProofs, HeuristicChoose

\* What the searches guarantee to the choice.
SearchInv == LinkInv /\ EdgesSoFar

-----------------------------------------------------------------------------
(* The edges a sequence covers                                             *)

\* What has to be shown of a step once the graph is built.
LEMMA EdgesFrom ==
    ASSUME UNCHANGED api_dependencies,
           \A n \in DOMAIN api_sequences' :
              api_sequences'[n].covered_dependencies \subseteq api_dependencies,
           pc' \in {"merge", "param", "some"} =>
              new_sequence'.covered_dependencies \subseteq api_dependencies
    PROVE  EdgesSoFar'
BY DEF EdgesSoFar

\* Nothing is generated before the graph is built.
LEMMA CollectEdges ==
    ASSUME SearchInv, Collect
    PROVE  EdgesSoFar'
<1>1. LinkInv'
  BY CollectLinked DEF SearchInv
<1>2. pc' \in {"collect", "filter", "bfs"}
  BY DEF Collect, add_api_function, filter_start, filter_function,
         find_all_dependencies, SearchInv, LinkInv, TypeInv, TypeOK
<1>3. api_sequences' = <<>>
  BY <1>1, <1>2 DEF LinkInv, LinkedSoFar
<1> QED BY <1>2, <1>3 DEF EdgesSoFar

\* A parameter adds edges to results of the right type only.
LEMMA WithReturnEdges ==
    ASSUME SearchInv, pc = "param",
           NEW r \in DOMAIN new_sequence.functions, NEW ct
    PROVE  WithReturn(r, ct).covered_dependencies \subseteq api_dependencies
<1>1. /\ api_functions \in Seq(ApiFunctions)
      /\ new_sequence \in ApiSequences
      /\ api_dependencies = AllDependencies
      /\ new_sequence.covered_dependencies \subseteq api_dependencies
  BY DEF SearchInv, EdgesSoFar, LinkInv, TypeInv, TypeOK, Located
<1>2. \A q \in 1 .. r : Available(q) => EdgeFrom(q) \in api_dependencies
  BY <1>1, EdgeTypes DEF Available, EdgeFrom
<1>3. WithReturn(r, ct).covered_dependencies =
        new_sequence.covered_dependencies
          \cup {EdgeFrom(q) : q \in {q \in 1 .. r : Available(q)}}
  BY <1>1 DEF WithReturn, ApiSequences
<1> QED BY <1>1, <1>2, <1>3

LEMMA IsFunSatisfiedEdges ==
    ASSUME SearchInv, IsFunSatisfied
    PROVE  EdgesSoFar'
<1> USE DEF graphVars, resultVars, satVars, bfsVars, roundVars, mergeVars,
            coverVars
<1>1. /\ UNCHANGED api_dependencies /\ UNCHANGED api_sequences
      /\ pc = "param"
  BY DEF IsFunSatisfied, return_param, TakeReturn, fuzzable_param,
         refuse_param, add_fn
<1>2. /\ new_sequence \in ApiSequences
      /\ new_sequence.covered_dependencies \subseteq api_dependencies
      /\ \A n \in DOMAIN api_sequences :
           api_sequences[n].covered_dependencies \subseteq api_dependencies
  BY <1>1 DEF SearchInv, EdgesSoFar, LinkInv, TypeInv, TypeOK
<1>3. new_sequence'.covered_dependencies \subseteq api_dependencies
  <2>1. CASE return_param
    <3>1. PICK r \in DOMAIN new_sequence.functions : TakeReturn(r)
      BY <2>1 DEF return_param
    <3>2. new_sequence' = WithReturn(r, CallTypeFrom(r))
      BY <3>1 DEF TakeReturn
    <3>3. WithReturn(r, CallTypeFrom(r)).covered_dependencies
            \subseteq api_dependencies
      BY <1>1, WithReturnEdges
    <3> QED BY <3>2, <3>3
  <2>2. CASE fuzzable_param \/ refuse_param \/ add_fn
    <3>1. new_sequence'.covered_dependencies = new_sequence.covered_dependencies
      BY <1>2, <2>2 DEF fuzzable_param, refuse_param, add_fn, ApiSequences
    <3> QED BY <1>2, <3>1
  <2> QED BY <2>1, <2>2 DEF IsFunSatisfied
<1> QED BY <1>1, <1>2, <1>3, EdgesFrom

LEMMA PushEdges ==
    ASSUME SearchInv, PushNewSequence, pc = "some"
    PROVE  \A n \in DOMAIN api_sequences' :
              api_sequences'[n].covered_dependencies \subseteq api_dependencies
<1>1. /\ api_sequences \in Seq(ApiSequences) /\ new_sequence \in ApiSequences
      /\ api_sequences' = Append(api_sequences, new_sequence)
  BY DEF SearchInv, LinkInv, TypeInv, TypeOK, PushNewSequence
<1>2. \A j \in DOMAIN api_sequences' :
         \/ j \in DOMAIN api_sequences /\ api_sequences'[j] = api_sequences[j]
         \/ api_sequences'[j] = new_sequence
  BY <1>1
<1> QED BY <1>2 DEF SearchInv, EdgesSoFar

LEMMA SatisfyEdges ==
    ASSUME NEW s \in ApiSequences, NEW f, NEW who, Satisfy(s, f, who)
    PROVE  new_sequence'.covered_dependencies = s.covered_dependencies
BY DEF Satisfy, ApiSequences

LEMMA BfsEdges ==
    ASSUME SearchInv, Bfs
    PROVE  EdgesSoFar'
<1> USE DEF graphVars, resultVars, satVars, bfsVars, roundVars, mergeVars,
            coverVars
<1>0. UNCHANGED api_dependencies
  BY DEF Bfs, bfs_start, bfs_level, bfs_try, bfs_skip, bfs_return,
         bfs_next_sequence, bfs_next_level, bfs_end
<1>1. TypeOK
  BY DEF SearchInv, LinkInv, TypeInv
<1>2. \A n \in DOMAIN api_sequences :
         api_sequences[n].covered_dependencies \subseteq api_dependencies
  BY DEF SearchInv, EdgesSoFar
<1>3. CASE bfs_start
  <2>1. pc' \in {"cover", "level"}
    BY <1>3 DEF bfs_start
  <2>2. \A n \in DOMAIN api_sequences' : api_sequences'[n] = NewSequence
    BY <1>3 DEF bfs_start
  <2>3. NewSequence.covered_dependencies = {}
    BY DEF NewSequence
  <2> QED BY <1>0, <2>1, <2>2, <2>3, EdgesFrom
<1>4. CASE bfs_try
  <2>1. PICK n \in tmp_sequences : Satisfy(api_sequences[n], next_fun, "bfs")
    BY <1>4 DEF bfs_try
  <2>2. n \in DOMAIN api_sequences /\ api_sequences[n] \in ApiSequences
    BY <1>1, <2>1 DEF TypeOK
  <2>3. new_sequence'.covered_dependencies = api_sequences[n].covered_dependencies
    BY <2>1, <2>2, SatisfyEdges
  <2>4. UNCHANGED api_sequences
    BY <1>4 DEF bfs_try
  <2> QED BY <1>0, <1>2, <2>2, <2>3, <2>4, EdgesFrom
<1>5. CASE bfs_return
  <2>1. pc' = "extend"
    BY <1>5 DEF bfs_return
  <2>2. CASE pc = "some"
    <3>1. PushNewSequence
      BY <1>5, <2>2 DEF bfs_return
    <3> QED BY <1>0, <2>1, <2>2, <3>1, PushEdges, EdgesFrom
  <2>3. CASE pc # "some"
    <3>1. UNCHANGED api_sequences
      BY <1>5, <2>3 DEF bfs_return
    <3> QED BY <1>0, <1>2, <2>1, <3>1, EdgesFrom
  <2> QED BY <2>2, <2>3
<1>6. CASE bfs_level \/ bfs_skip \/ bfs_next_sequence \/ bfs_next_level \/ bfs_end
  <2>1. /\ pc' \in {"extend", "level", "cover", "done"}
        /\ UNCHANGED api_sequences
    BY <1>6 DEF bfs_level, bfs_skip, bfs_next_sequence, bfs_next_level, bfs_end
  <2> QED BY <1>0, <1>2, <2>1, EdgesFrom
<1> QED BY <1>3, <1>4, <1>5, <1>6 DEF Bfs

LEMMA CoverEdges ==
    ASSUME SearchInv, Cover
    PROVE  EdgesSoFar'
<1> USE DEF graphVars, resultVars, satVars, bfsVars, roundVars, mergeVars,
            coverVars
<1>0. UNCHANGED api_dependencies
  BY DEF Cover, cover_start, cover_round, cover_skip, cover_node,
         merge_sequences, cover_try, cover_return, cover_end_round, cover_end
<1>1. TypeOK
  BY DEF SearchInv, LinkInv, TypeInv
<1>2. \A n \in DOMAIN api_sequences :
         api_sequences[n].covered_dependencies \subseteq api_dependencies
  BY DEF SearchInv, EdgesSoFar
<1>3. ASSUME NEW f \in todo, cover_node(f) PROVE EdgesSoFar'
  <2>1. UNCHANGED api_sequences /\ new_sequence'.covered_dependencies = {}
    BY <1>3 DEF cover_node, NewSequence
  <2> QED BY <1>0, <1>2, <2>1, EdgesFrom
<1>4. CASE merge_sequences
  <2>1. PICK k \in to_merge :
           new_sequence' =
                IF to_merge = DOMAIN dependents
                THEN api_sequences[dependents[k]]
                ELSE MergeAnother(new_sequence, api_sequences[dependents[k]])
    BY <1>4 DEF merge_sequences
  <2>2. dependents[k] \in DOMAIN api_sequences
    BY <1>1, <2>1 DEF TypeOK
  <2>3. pc = "merge" /\ UNCHANGED api_sequences
    BY <1>4 DEF merge_sequences
  <2>4. new_sequence.covered_dependencies \subseteq api_dependencies
    BY <2>3 DEF SearchInv, EdgesSoFar
  <2>5. new_sequence'.covered_dependencies \subseteq api_dependencies
    BY <1>2, <2>1, <2>2, <2>4 DEF MergeAnother
  <2> QED BY <1>0, <1>2, <2>3, <2>5, EdgesFrom
<1>5. CASE cover_try
  <2>1. /\ Satisfy(new_sequence, api_call.func, "cover") /\ pc = "merge"
        /\ UNCHANGED api_sequences /\ new_sequence \in ApiSequences
    BY <1>1, <1>5 DEF cover_try, TypeOK
  <2>2. new_sequence'.covered_dependencies = new_sequence.covered_dependencies
    BY <2>1, SatisfyEdges
  <2>3. new_sequence.covered_dependencies \subseteq api_dependencies
    BY <2>1 DEF SearchInv, EdgesSoFar
  <2> QED BY <1>0, <1>2, <2>1, <2>2, <2>3, EdgesFrom
<1>6. CASE cover_return
  <2>1. pc' = "node"
    BY <1>6 DEF cover_return
  <2>2. CASE pc = "some"
    <3>1. PushNewSequence
      BY <1>6, <2>2 DEF cover_return
    <3> QED BY <1>0, <2>1, <2>2, <3>1, PushEdges, EdgesFrom
  <2>3. CASE pc # "some"
    <3>1. UNCHANGED api_sequences
      BY <1>6, <2>3 DEF cover_return
    <3> QED BY <1>0, <1>2, <2>1, <3>1, EdgesFrom
  <2> QED BY <2>2, <2>3
<1>7. CASE \/ cover_start \/ cover_round \/ cover_end_round \/ cover_end
           \/ \E f \in todo : cover_skip(f)
  <2>1. /\ pc' \in {"round", "node", "done"}
        /\ UNCHANGED api_sequences
    BY <1>7 DEF cover_start, cover_round, cover_end_round, cover_end, cover_skip
  <2> QED BY <1>0, <1>2, <2>1, EdgesFrom
<1> QED BY <1>3, <1>4, <1>5, <1>6, <1>7 DEF Cover

\* Only edges of the graph are counted as covered, whichever search runs.
LEMMA SearchStep == SearchInv /\ [Next]_vars => SearchInv'
<1> SUFFICES ASSUME SearchInv, [Next]_vars PROVE SearchInv'
  OBVIOUS
<1>1. LinkInv'
  BY LinkStep DEF SearchInv
<1>2. EdgesSoFar'
  <2>1. CASE UNCHANGED vars
    BY <2>1 DEF vars, resultVars, satVars, SearchInv, EdgesSoFar
  <2> QED BY <2>1, CollectEdges, IsFunSatisfiedEdges, BfsEdges, CoverEdges
          DEF Next, Terminated
<1> QED BY <1>1, <1>2 DEF SearchInv

-----------------------------------------------------------------------------
(* Finite sets                                                             *)

\* A sequence calls finitely many functions.
LEMMA FiniteFunctions ==
    ASSUME NEW s \in ApiSequences
    PROVE  IsFiniteSet(get_contained_api_functions(s))
<1> DEFINE N == Len(s.functions)
           f == [c \in 1 .. N |-> s.functions[c].func]
<1>1. N \in Nat /\ DOMAIN s.functions = 1 .. N
  BY DEF ApiSequences
<1>2. IsFiniteSet(1 .. N)
  BY <1>1, FS_Interval
<1>3. f \in Surjection(1 .. N, get_contained_api_functions(s))
  BY <1>1 DEF get_contained_api_functions, Surjection
<1> HIDE DEF f, N
<1> QED BY <1>2, <1>3, FS_Surjection

\* There are finitely many sequences, and so finitely many functions to cover.
LEMMA FiniteValid ==
    ASSUME TypeOK
    PROVE  /\ IsFiniteSet(Valid)
           /\ \A n \in Valid :
                IsFiniteSet(get_contained_api_functions(api_sequences[n]))
           /\ IsFiniteSet(to_cover_nodes)
<1> DEFINE N == Len(api_sequences)
           F == {get_contained_api_functions(api_sequences[n]) : n \in Valid}
           f == [n \in Valid |-> get_contained_api_functions(api_sequences[n])]
<1>1. N \in Nat /\ DOMAIN api_sequences = 1 .. N
  BY DEF TypeOK
<1>2. \A n \in DOMAIN api_sequences : api_sequences[n] \in ApiSequences
  BY DEF TypeOK
<1>3. Valid \in SUBSET (1 .. N)
  BY <1>1 DEF Valid
<1>4. IsFiniteSet(1 .. N)
  BY <1>1, FS_Interval
<1>5. IsFiniteSet(Valid)
  BY <1>3, <1>4, FS_Subset
<1>6. \A n \in Valid : IsFiniteSet(get_contained_api_functions(api_sequences[n]))
  BY <1>1, <1>2, <1>3, FiniteFunctions
<1>7. f \in Surjection(Valid, F)
  BY DEF Surjection
<1>8. \A T \in F : IsFiniteSet(T)
  BY <1>6
<1>9. to_cover_nodes = UNION F
  BY DEF to_cover_nodes
<1> HIDE DEF f, F, N
<1>10. IsFiniteSet(F)
  BY <1>5, <1>7, FS_Surjection
<1>11. IsFiniteSet(UNION F)
  BY <1>8, <1>10, FS_UNION
<1> QED BY <1>5, <1>6, <1>9, <1>11

\* The graph has finitely many edges.
LEMMA FiniteEdges ==
    ASSUME TypeOK
    PROVE  IsFiniteSet(AllDependencies)
<1> DEFINE N == Len(api_functions)
           D == {DOMAIN InputsOf(j) : j \in Funs}
           K == UNION D
           g == [j \in Funs |-> DOMAIN InputsOf(j)]
           E == {e \in (Funs \X Funs) \X K :
                   Dependency(e[1][1], e[1][2], e[2]) \in AllDependencies}
           f == [e \in E |-> Dependency(e[1][1], e[1][2], e[2])]
<1>1. N \in Nat /\ Funs = 1 .. N /\ api_functions \in Seq(ApiFunctions)
  BY DEF TypeOK, Funs
<1>2. IsFiniteSet(Funs)
  BY <1>1, FS_Interval
<1>3. g \in Surjection(Funs, D)
  BY DEF Surjection
<1>4. \A T \in D : IsFiniteSet(T)
  <2>1. ASSUME NEW j \in Funs PROVE IsFiniteSet(DOMAIN InputsOf(j))
    <3>1. InputsOf(j) \in Seq(Types)
      BY <1>1, FunctionTypes
    <3>2. /\ DOMAIN InputsOf(j) = 1 .. Len(InputsOf(j))
          /\ Len(InputsOf(j)) \in Nat
      BY <3>1
    <3> QED BY <3>2, FS_Interval
  <2> QED BY <2>1
<1>5. f \in Surjection(E, AllDependencies)
  <2>1. f \in [E -> AllDependencies]
    OBVIOUS
  <2>2. ASSUME NEW d \in AllDependencies PROVE \E e \in E : f[e] = d
    <3>1. PICK x \in Funs \X Funs \X K : d = Dependency(x[1], x[2], x[3])
      BY DEF AllDependencies
    <3>2. <<<<x[1], x[2]>>, x[3]>> \in E
      BY <3>1
    <3> QED BY <3>1, <3>2
  <2> QED BY <2>1, <2>2 DEF Surjection
<1>6. E \in SUBSET ((Funs \X Funs) \X K)
  OBVIOUS
<1> HIDE DEF f, g, E, D
<1>7. IsFiniteSet(D)
  BY <1>2, <1>3, FS_Surjection
<1>8. IsFiniteSet(K)
  BY <1>4, <1>7, FS_UNION
<1> HIDE DEF K
<1>9. IsFiniteSet(Funs \X Funs)
  BY <1>2, FS_Product
<1>10. IsFiniteSet((Funs \X Funs) \X K)
  BY <1>8, <1>9, FS_Product
<1>11. IsFiniteSet(E)
  BY <1>6, <1>10, FS_Subset
<1> QED BY <1>5, <1>11, FS_Surjection

-----------------------------------------------------------------------------
(* The choice                                                              *)

ChoiceInv == SearchInv /\ ChoiceSoFar

\* The generation has stopped when it is done.
LEMMA DoneStops ==
    ASSUME pc = "done"
    PROVE  ~(Collect \/ IsFunSatisfied \/ Bfs \/ Cover)
BY DEF Collect, add_api_function, filter_start, filter_function,
       find_all_dependencies, IsFunSatisfied, return_param, fuzzable_param,
       refuse_param, add_fn, Bfs, bfs_start, bfs_level, bfs_try, bfs_skip,
       bfs_return, bfs_next_sequence, bfs_next_level, bfs_end, Cover,
       cover_start, cover_round, cover_skip, cover_node, merge_sequences,
       cover_try, cover_return, cover_end_round, cover_end

\* Seen from the graph, a step is one of the generation or none.
LEMMA ChooseNextIsNext == [ChooseNext]_allVars => [Next]_vars
BY DEF ChooseNext, allVars, Written, Next

\* While the graph and the sequences stay the same, so does what is chosen from.
LEMMA StableChoice ==
    ASSUME UNCHANGED vars
    PROVE  /\ UNCHANGED <<pc, api_sequences, api_functions, api_dependencies>>
           /\ Valid' = Valid
           /\ to_cover_nodes' = to_cover_nodes
           /\ \A S : NodesOf(S)' = NodesOf(S)
           /\ \A S : EdgesOf(S)' = EdgesOf(S)
           /\ \A n, S : GainOver(n, S)' = GainOver(n, S)
<1>1. UNCHANGED <<pc, api_sequences, api_functions, api_dependencies>>
  BY DEF vars, graphVars, resultVars
<1>2. Valid' = Valid
  BY <1>1 DEF Valid, contains_dead_code_except_last_one, IsDead, InputsOf
<1>3. to_cover_nodes' = to_cover_nodes
  BY <1>1, <1>2 DEF to_cover_nodes
<1>4. /\ \A S : NodesOf(S)' = NodesOf(S)
      /\ \A S : EdgesOf(S)' = EdgesOf(S)
      /\ \A n, S : GainOver(n, S)' = GainOver(n, S)
  BY <1>1 DEF NodesOf, EdgesOf, GainOver
<1> QED BY <1>1, <1>2, <1>3, <1>4

LEMMA ChooseInitInv == ChooseInit => ChoiceInv
<1> SUFFICES ASSUME ChooseInit PROVE ChoiceInv
  OBVIOUS
<1>1. LinkInv
  BY InitLinked DEF ChooseInit
<1>2. EdgesSoFar
  BY DEF ChooseInit, Init, EdgesSoFar
<1>3. /\ already_chosen_sequences = {}
      /\ sorted_chosen_sequences = <<>> /\ test_files = <<>>
      /\ Len(sorted_chosen_sequences) = 0 /\ Len(test_files) = 0
  BY DEF ChooseInit, already_chosen_sequences
<1>4. ChoicePhase
  BY <1>3 DEF ChooseInit, ChoicePhase
<1>5. ChoiceGains
  BY <1>3 DEF ChooseInit, ChoiceGains, NodesOf, EdgesOf
<1>6. ChoiceOrder /\ ChoiceEnds
  BY <1>3 DEF ChooseInit, ChoiceOrder, ChoiceEnds
<1> QED BY <1>1, <1>2, <1>4, <1>5, <1>6 DEF ChoiceInv, SearchInv, ChoiceSoFar

\* The generation runs while nothing is chosen yet.
LEMMA GenerateChoice ==
    ASSUME ChoiceInv, Collect \/ IsFunSatisfied \/ Bfs \/ Cover,
           UNCHANGED chooseVars
    PROVE  ChoiceSoFar'
<1>1. phase = "generate"
  BY DoneStops DEF ChoiceInv, ChoiceSoFar, ChoicePhase
<1>2. /\ UNCHANGED <<phase, iterations_left, try_dynamic,
                     sorted_chosen_sequences, already_covered_nodes,
                     already_covered_edges, test_files>>
      /\ sorted_chosen_sequences = <<>> /\ test_files = <<>> /\ try_dynamic
  BY <1>1 DEF chooseVars, ChoiceInv, ChoiceSoFar, ChoicePhase
<1>3. already_chosen_sequences = {} /\ already_chosen_sequences' = {}
  BY <1>2 DEF already_chosen_sequences
<1>4. already_covered_nodes = {} /\ already_covered_edges = {}
  BY <1>3 DEF ChoiceInv, ChoiceSoFar, ChoiceGains, NodesOf, EdgesOf
<1>5. ChoicePhase'
  BY <1>1, <1>2 DEF ChoiceInv, ChoiceSoFar, ChoicePhase
<1>6. ChoiceGains'
  BY <1>2, <1>3, <1>4 DEF ChoiceGains, NodesOf, EdgesOf
<1>7. ChoiceOrder' /\ ChoiceEnds'
  BY <1>1, <1>2 DEF ChoiceOrder, ChoiceEnds
<1> QED BY <1>5, <1>6, <1>7 DEF ChoiceSoFar

\* Steps that choose nothing keep what is said of the chosen sequences.
LEMMA KeptChoice ==
    ASSUME ChoiceInv, UNCHANGED vars,
           UNCHANGED <<sorted_chosen_sequences, already_covered_nodes,
                       already_covered_edges>>
    PROVE  /\ \A j \in DOMAIN sorted_chosen_sequences' :
                /\ sorted_chosen_sequences'[j] \in Valid'
                /\ GainOver(sorted_chosen_sequences[j], ChosenBefore(j))'
           /\ already_covered_nodes' = NodesOf(already_chosen_sequences)'
           /\ already_covered_edges' = EdgesOf(already_chosen_sequences)'
           /\ already_chosen_sequences' = already_chosen_sequences
<1>1. UNCHANGED api_sequences /\ Valid' = Valid
  BY StableChoice
<1>2. already_chosen_sequences' = already_chosen_sequences
  BY DEF already_chosen_sequences
<1>3. \A j \in DOMAIN sorted_chosen_sequences :
         /\ sorted_chosen_sequences[j] \in Valid
         /\ GainOver(sorted_chosen_sequences[j], ChosenBefore(j))
  BY DEF ChoiceInv, ChoiceSoFar, ChoiceGains
<1>4. /\ already_covered_nodes = NodesOf(already_chosen_sequences)
      /\ already_covered_edges = EdgesOf(already_chosen_sequences)
  BY DEF ChoiceInv, ChoiceSoFar, ChoiceGains
<1>5. /\ already_covered_nodes' = NodesOf(already_chosen_sequences)'
      /\ already_covered_edges' = EdgesOf(already_chosen_sequences)'
  BY <1>1, <1>2, <1>4 DEF NodesOf, EdgesOf
<1>6. \A j \in DOMAIN sorted_chosen_sequences' :
         GainOver(sorted_chosen_sequences[j], ChosenBefore(j))'
  BY <1>1, <1>3 DEF GainOver, ChosenBefore, NodesOf, EdgesOf
<1> QED BY <1>1, <1>2, <1>3, <1>5, <1>6

LEMMA StartChoice ==
    ASSUME ChoiceInv, choose_start, UNCHANGED vars
    PROVE  ChoiceSoFar'
<1>1. /\ UNCHANGED <<try_dynamic, sorted_chosen_sequences,
                     already_covered_nodes, already_covered_edges, test_files>>
      /\ phase = "generate" /\ pc = "done"
      /\ iterations_left' = MaxTestFiles + 1
      /\ phase' = IF Valid = {} THEN "write" ELSE "choose"
  BY DEF choose_start, Iterations
<1>2. /\ sorted_chosen_sequences = <<>> /\ test_files = <<>>
      /\ try_dynamic
  BY <1>1 DEF ChoiceInv, ChoiceSoFar, ChoicePhase
<1>3. /\ UNCHANGED <<pc, api_sequences>> /\ Valid' = Valid
      /\ to_cover_nodes' = to_cover_nodes
  BY StableChoice
<1>4. ChoicePhase'
  BY <1>1, <1>2, <1>3, MaxTestFilesAssumption
     DEF ChoiceInv, ChoiceSoFar, ChoicePhase
<1>5. ChoiceGains'
  BY <1>1, <1>2, KeptChoice DEF ChoiceGains
<1>6. ChoiceOrder'
  BY <1>1, <1>2 DEF ChoiceOrder
<1>7. ChoiceEnds'
  <2>1. Valid = {} => already_covered_nodes' = to_cover_nodes'
    <3>1. already_chosen_sequences = {}
      BY <1>2 DEF already_chosen_sequences
    <3>2. already_covered_nodes = {}
      BY <3>1 DEF ChoiceInv, ChoiceSoFar, ChoiceGains, NodesOf
    <3> QED BY <1>1, <1>3, <3>2 DEF to_cover_nodes
  <2> QED BY <1>1, <1>2, <2>1, MaxTestFilesAssumption DEF ChoiceEnds
<1> QED BY <1>4, <1>5, <1>6, <1>7 DEF ChoiceSoFar

\* Nothing of dynamic length covers a new node: from then on it never will.
LEMMA SwitchChoice ==
    ASSUME ChoiceInv, choose_switch, UNCHANGED vars
    PROVE  ChoiceSoFar'
<1>1. /\ UNCHANGED <<phase, sorted_chosen_sequences, already_covered_nodes,
                     already_covered_edges, test_files>>
      /\ phase = "choose" /\ iterations_left > 0 /\ try_dynamic
      /\ ~try_dynamic' /\ iterations_left' = iterations_left - 1
      /\ try_dynamic' \in BOOLEAN
      /\ \A n \in Eligible : NewNodes(n) = 0
  BY DEF choose_switch
<1>2. /\ UNCHANGED <<pc, api_sequences>> /\ Valid' = Valid
  BY StableChoice
<1>3. ChoicePhase'
  <2>1. iterations_left \in Nat
    BY DEF ChoiceInv, ChoiceSoFar, ChoicePhase
  <2>2. iterations_left' \in Nat
    BY <1>1, <2>1
  <2> QED BY <1>1, <1>2, <2>2
          DEF ChoiceInv, ChoiceSoFar, ChoicePhase
<1>4. ChoiceGains'
  BY <1>1, KeptChoice DEF ChoiceInv, ChoiceSoFar, ChoiceGains
<1>5. ChoiceOrder'
  <2>1. \A j \in DOMAIN sorted_chosen_sequences :
          ~is_fuzzables_fixed_length(api_sequences[sorted_chosen_sequences[j]])
    BY <1>1 DEF ChoiceInv, ChoiceSoFar, ChoiceOrder
  <2>2. ASSUME NEW n \in Valid,
               ~is_fuzzables_fixed_length(api_sequences[n])
        PROVE  get_contained_api_functions(api_sequences[n])
                 \subseteq already_covered_nodes
    <3>1. CASE n \in already_chosen_sequences
      <4>1. already_covered_nodes = NodesOf(already_chosen_sequences)
        BY DEF ChoiceInv, ChoiceSoFar, ChoiceGains
      <4> QED BY <3>1, <4>1 DEF NodesOf
    <3>2. CASE n \notin already_chosen_sequences
      <4> DEFINE G == get_contained_api_functions(api_sequences[n])
      <4>1. Cardinality(G \ already_covered_nodes) = 0
        BY <1>1, <2>2, <3>2 DEF Eligible, NewNodes
      <4>2. IsFiniteSet(G)
        BY FiniteValid DEF ChoiceInv, SearchInv, LinkInv, TypeInv
      <4> HIDE DEF G
      <4>3. IsFiniteSet(G \ already_covered_nodes)
        BY <4>2, FS_Difference
      <4>4. G \ already_covered_nodes = {}
        BY <4>1, <4>3, FS_EmptySet
      <4>5. G \subseteq already_covered_nodes
        BY <4>4
      <4> QED BY <4>5 DEF G
    <3> QED BY <3>1, <3>2
  <2> QED BY <1>1, <1>2, <2>1, <2>2 DEF ChoiceOrder
<1>6. ChoiceEnds'
  <2>1. iterations_left \in Nat /\ sorted_chosen_sequences \in Seq(Nat)
    BY DEF ChoiceInv, ChoiceSoFar, ChoicePhase
  <2>2. iterations_left + Len(sorted_chosen_sequences) = MaxTestFiles + 1
    BY <1>1, <2>1 DEF ChoiceInv, ChoiceSoFar, ChoiceEnds
  <2> QED BY <1>1, <2>1, <2>2, MaxTestFilesAssumption DEF ChoiceEnds
<1> QED BY <1>3, <1>4, <1>5, <1>6 DEF ChoiceSoFar

\* No sequence is chosen twice: it would gain nothing over itself.
LEMMA ChosenDiffer ==
    ASSUME NEW q \in Seq(Nat),
           \A j \in DOMAIN q : GainOver(q[j], {q[i] : i \in 1 .. j - 1})
    PROVE  \A i, j \in DOMAIN q : q[i] = q[j] => i = j
<1>1. ASSUME NEW i \in DOMAIN q, NEW j \in DOMAIN q, i < j
      PROVE  q[i] # q[j]
  <2>1. i \in 1 .. j - 1
    BY <1>1
  <2>2. GainOver(q[j], {q[h] : h \in 1 .. j - 1})
    OBVIOUS
  <2> QED BY <2>1, <2>2 DEF GainOver, NodesOf, EdgesOf
<1>2. \A i, j \in DOMAIN q : i = j \/ i < j \/ j < i
  OBVIOUS
<1> QED BY <1>1, <1>2

\* Each of the three ways out of the loop leaves nothing to cover.
LEMMA StopIsCovered ==
    ASSUME SearchInv, pc = "done", NEW q \in Seq(Nat),
           \A j \in DOMAIN q :
              q[j] \in Valid /\ GainOver(q[j], {q[i] : i \in 1 .. j - 1}),
           NEW C, C = {q[j] : j \in DOMAIN q},
           StopAfter(q, NodesOf(C), EdgesOf(C))
    PROVE  \/ NodesOf(C) = to_cover_nodes
           \/ EdgesOf(C) = api_dependencies
<1> DEFINE N == Len(q)
<1>1. TypeOK /\ EdgesSoFar /\ api_dependencies = AllDependencies
  BY DEF SearchInv, LinkInv, TypeInv, Located
<1>2. N \in Nat /\ DOMAIN q = 1 .. N
  OBVIOUS
<1>3. C \subseteq Valid
  OBVIOUS
<1>4. NodesOf(C) \in SUBSET to_cover_nodes
  BY <1>3 DEF NodesOf, to_cover_nodes
<1>5. EdgesOf(C) \in SUBSET api_dependencies
  BY <1>1, <1>3 DEF EdgesOf, EdgesSoFar, Valid
<1>6. CASE N = Cardinality(Valid)
  <2>1. q \in Injection(1 .. N, Valid)
    <3>1. q \in [1 .. N -> Valid]
      <4>1. q = [j \in 1 .. N |-> q[j]]
        BY <1>2
      <4>2. \A j \in 1 .. N : q[j] \in Valid
        BY <1>2
      <4> QED BY <4>1, <4>2
    <3>2. \A i, j \in 1 .. N : q[i] = q[j] => i = j
      BY <1>2, ChosenDiffer
    <3> QED BY <3>1, <3>2 DEF Injection, IsInjective
  <2>2. IsFiniteSet(Valid) /\ Cardinality(1 .. N) = N
    <3>1. IsFiniteSet(Valid)
      BY <1>1, FiniteValid
    <3>2. Cardinality(1 .. N) = N
      <4> HIDE DEF N
      <4>1. 1 \in Int /\ N \in Int /\ N \in Nat
        BY <1>2
      <4>2. Cardinality(1 .. N) = IF 1 > N THEN 0 ELSE N - 1 + 1
        BY <4>1, FS_Interval, Zenon
      <4> QED BY <4>1, <4>2
    <3> QED BY <3>1, <3>2
  <2>3. q \in Surjection(1 .. N, Valid)
    BY <1>6, <2>1, <2>2, FS_Injection
  <2>4. C = Valid
    BY <1>2, <1>3, <2>3 DEF Surjection
  <2> QED BY <2>4 DEF NodesOf, to_cover_nodes
<1>7. CASE Cardinality(EdgesOf(C)) = Cardinality(api_dependencies)
  <2>1. IsFiniteSet(api_dependencies)
    BY <1>1, FiniteEdges
  <2> QED BY <1>5, <1>7, <2>1, FS_Subset
<1>8. CASE Cardinality(NodesOf(C)) = Cardinality(to_cover_nodes)
  <2>1. IsFiniteSet(to_cover_nodes)
    BY <1>1, FiniteValid
  <2> QED BY <1>4, <1>8, <2>1, FS_Subset
<1> QED BY <1>6, <1>7, <1>8 DEF StopAfter

\* Sequence n is chosen.
LEMMA SequenceChoice ==
    ASSUME ChoiceInv, choose_sequence, UNCHANGED vars
    PROVE  ChoiceSoFar'
<1>1. PICK n \in Gainful :
         /\ sorted_chosen_sequences' = Append(sorted_chosen_sequences, n)
         /\ already_covered_nodes' = already_covered_nodes
              \cup get_contained_api_functions(api_sequences[n])
         /\ already_covered_edges' = already_covered_edges
              \cup api_sequences[n].covered_dependencies
  BY DEF choose_sequence
<1>2. /\ phase = "choose" /\ iterations_left > 0
      /\ iterations_left' = iterations_left - 1
      /\ phase' \in {"choose", "write"}
      /\ phase' = "write" =>
           StopAfter(sorted_chosen_sequences', already_covered_nodes',
                     already_covered_edges')
      /\ UNCHANGED <<try_dynamic, test_files>>
  BY DEF choose_sequence
<1>3. /\ UNCHANGED <<pc, api_sequences, api_dependencies>> /\ Valid' = Valid
      /\ to_cover_nodes' = to_cover_nodes
      /\ \A i, S : GainOver(i, S)' = GainOver(i, S)
  BY StableChoice
<1> DEFINE q == sorted_chosen_sequences
<1>0. PICK m : m = Len(q)
  OBVIOUS
<1>4. /\ n \in Valid /\ n \in Nat /\ n \notin already_chosen_sequences
      /\ is_fuzzables_fixed_length(api_sequences[n]) <=> ~try_dynamic
      /\ NewNodes(n) > 0 \/ NewEdges(n) > 0
  BY <1>1 DEF Gainful, Eligible, Valid, ChoiceInv, SearchInv, LinkInv, TypeInv,
              TypeOK
<1>5. /\ q \in Seq(Nat) /\ m \in Nat /\ DOMAIN q = 1 .. m
      /\ iterations_left \in Nat /\ test_files = <<>> /\ pc = "done"
      /\ try_dynamic \in BOOLEAN
  BY <1>0, <1>2 DEF ChoiceInv, ChoiceSoFar, ChoicePhase
<1>6. /\ q' \in Seq(Nat) /\ Len(q') = m + 1 /\ DOMAIN q' = 1 .. m + 1
      /\ \A j \in 1 .. m : q'[j] = q[j]
      /\ q'[m + 1] = n
  BY <1>0, <1>1, <1>4, <1>5
<1>7. \A j \in 1 .. m + 1 : j \in 1 .. m \/ j = m + 1
  BY <1>5
<1>8. ChoicePhase'
  BY <1>2, <1>3, <1>5, <1>6 DEF ChoicePhase
<1>9. ChoiceGains'
  <2>1. /\ already_covered_nodes = NodesOf(already_chosen_sequences)
        /\ already_covered_edges = EdgesOf(already_chosen_sequences)
        /\ \A j \in DOMAIN q : q[j] \in Valid /\ GainOver(q[j], ChosenBefore(j))
    BY DEF ChoiceInv, ChoiceSoFar, ChoiceGains
  <2>2. already_chosen_sequences' = already_chosen_sequences \cup {n}
    BY <1>5, <1>6, <1>7 DEF already_chosen_sequences
  <2>3. /\ already_covered_nodes' = NodesOf(already_chosen_sequences)'
        /\ already_covered_edges' = EdgesOf(already_chosen_sequences)'
    BY <1>1, <1>3, <2>1, <2>2 DEF NodesOf, EdgesOf
  <2>4. GainOver(n, already_chosen_sequences)
    <3> DEFINE X == get_contained_api_functions(api_sequences[n])
                      \ already_covered_nodes
               Y == api_sequences[n].covered_dependencies
                      \ already_covered_edges
    <3>1. Cardinality(X) > 0 \/ Cardinality(Y) > 0
      BY <1>4 DEF NewNodes, NewEdges
    <3>2. X # {} \/ Y # {}
      <4> HIDE DEF X, Y
      <4> QED BY <3>1, FS_EmptySet
    <3> QED BY <2>1, <3>2 DEF GainOver
  <2>5. \A j \in 1 .. m : ChosenBefore(j)' = ChosenBefore(j)
    BY <1>5, <1>6 DEF ChosenBefore
  <2>6. ChosenBefore(m + 1)' = already_chosen_sequences
    <3>1. (m + 1) - 1 = m
      BY <1>5
    <3>2. ChosenBefore(m + 1)' = {q'[i] : i \in 1 .. m}
      BY <3>1 DEF ChosenBefore
    <3> QED BY <1>5, <1>6, <3>2 DEF already_chosen_sequences
  <2>7. ASSUME NEW j \in DOMAIN q'
        PROVE  q'[j] \in Valid' /\ GainOver(q[j], ChosenBefore(j))'
    <3>1. CASE j \in 1 .. m
      <4>1. q'[j] = q[j] /\ ChosenBefore(j)' = ChosenBefore(j)
        BY <1>6, <2>5, <3>1
      <4>2. GainOver(q[j], ChosenBefore(j)) /\ q[j] \in Valid
        BY <1>5, <2>1, <3>1
      <4> QED BY <1>3, <4>1, <4>2 DEF GainOver, NodesOf, EdgesOf
    <3>2. CASE j = m + 1
      <4>1. q'[j] = n /\ ChosenBefore(j)' = already_chosen_sequences
        BY <1>6, <2>6, <3>2
      <4> QED BY <1>3, <1>4, <2>4, <4>1 DEF GainOver, NodesOf, EdgesOf
    <3> QED BY <1>6, <1>7, <3>1, <3>2
  <2>8. Len(test_files') = 0 /\ DOMAIN test_files' = {}
    BY <1>2, <1>5
  <2> QED BY <1>5, <1>6, <2>3, <2>7, <2>8 DEF ChoiceGains
<1>10. ChoiceOrder'
  <2>1. try_dynamic' =>
          \A j \in DOMAIN q' : ~is_fuzzables_fixed_length(api_sequences'[q'[j]])
    BY <1>2, <1>3, <1>4, <1>5, <1>6, <1>7
       DEF ChoiceInv, ChoiceSoFar, ChoiceOrder
  <2>2. ASSUME NEW i \in DOMAIN q', NEW j \in DOMAIN q', i < j,
               is_fuzzables_fixed_length(api_sequences'[q'[i]])
        PROVE  is_fuzzables_fixed_length(api_sequences'[q'[j]])
    <3>1. i \in 1 .. m
      BY <1>5, <1>6, <2>2
    <3>2. CASE j \in 1 .. m
      BY <1>3, <1>5, <1>6, <2>2, <3>1, <3>2
         DEF ChoiceInv, ChoiceSoFar, ChoiceOrder
    <3>3. CASE j = m + 1
      <4>1. ~try_dynamic
        BY <1>2, <2>1, <2>2
      <4> QED BY <1>3, <1>4, <1>6, <3>3, <4>1
    <3> QED BY <1>6, <1>7, <3>2, <3>3
  <2>3. ~try_dynamic' =>
         \A i \in Valid' :
            \/ is_fuzzables_fixed_length(api_sequences'[i])
            \/ get_contained_api_functions(api_sequences'[i])
                 \subseteq already_covered_nodes'
    BY <1>1, <1>2, <1>3 DEF ChoiceInv, ChoiceSoFar, ChoiceOrder
  <2> QED BY <2>1, <2>2, <2>3 DEF ChoiceOrder
<1>11. ChoiceEnds'
  <2>1. iterations_left + m + (IF try_dynamic THEN 0 ELSE 1) = MaxTestFiles + 1
    BY <1>0, <1>2 DEF ChoiceInv, ChoiceSoFar, ChoiceEnds
  <2>2. iterations_left' + Len(q') + (IF try_dynamic' THEN 0 ELSE 1)
          = MaxTestFiles + 1
    BY <1>2, <1>5, <1>6, <2>1, MaxTestFilesAssumption
  <2>3. CASE phase' = "write"
    <3> DEFINE r == q'
               C == {r[j] : j \in DOMAIN r}
    <3>1. C = already_chosen_sequences'
      BY DEF already_chosen_sequences
    <3>2. \A j \in DOMAIN r :
            r[j] \in Valid /\ GainOver(r[j], {r[i] : i \in 1 .. j - 1})
      BY <1>3, <1>9 DEF ChoiceGains, GainOver, ChosenBefore, NodesOf, EdgesOf
    <3>3. /\ already_covered_nodes' = NodesOf(C)
          /\ already_covered_edges' = EdgesOf(C)
      BY <1>3, <1>9, <3>1 DEF ChoiceGains, NodesOf, EdgesOf
    <3>4. StopAfter(r, NodesOf(C), EdgesOf(C))
      BY <1>2, <2>3, <3>3
    <3>5. SearchInv /\ pc = "done" /\ r \in Seq(Nat)
      BY <1>5, <1>6 DEF ChoiceInv
    <3> HIDE DEF r
    <3>6. NodesOf(C) = to_cover_nodes \/ EdgesOf(C) = api_dependencies
      BY <3>2, <3>4, <3>5, StopIsCovered
    <3> QED BY <1>3, <2>2, <3>3, <3>6 DEF ChoiceEnds
  <2> QED BY <1>2, <2>2, <2>3 DEF ChoiceEnds
<1> QED BY <1>8, <1>9, <1>10, <1>11 DEF ChoiceSoFar

\* The loop runs out of iterations or of sequences that gain something.
LEMMA EndChoice ==
    ASSUME ChoiceInv, choose_end, UNCHANGED vars
    PROVE  ChoiceSoFar'
<1>1. /\ UNCHANGED <<iterations_left, try_dynamic, sorted_chosen_sequences,
                     already_covered_nodes, already_covered_edges, test_files>>
      /\ phase = "choose" /\ phase' = "write"
      /\ iterations_left = 0 \/ (~try_dynamic /\ Gainful = {})
  BY DEF choose_end
<1>2. /\ UNCHANGED <<pc, api_sequences, api_dependencies>> /\ Valid' = Valid
      /\ to_cover_nodes' = to_cover_nodes
  BY StableChoice
<1>3. /\ sorted_chosen_sequences \in Seq(Nat) /\ pc = "done"
      /\ test_files = <<>> /\ iterations_left \in Nat
      /\ already_covered_nodes = NodesOf(already_chosen_sequences)
      /\ \A j \in DOMAIN sorted_chosen_sequences :
           sorted_chosen_sequences[j] \in Valid
  BY <1>1 DEF ChoiceInv, ChoiceSoFar, ChoicePhase, ChoiceGains
<1>4. ChoicePhase'
  BY <1>1, <1>2 DEF ChoiceInv, ChoiceSoFar, ChoicePhase
<1>5. ChoiceGains'
  BY <1>1, KeptChoice DEF ChoiceInv, ChoiceSoFar, ChoiceGains
<1>6. ChoiceOrder'
  BY <1>1, <1>2 DEF ChoiceInv, ChoiceSoFar, ChoiceOrder
<1>7. ChoiceEnds'
  <2>1. iterations_left + Len(sorted_chosen_sequences)
          + (IF try_dynamic THEN 0 ELSE 1) = MaxTestFiles + 1
    BY <1>1 DEF ChoiceInv, ChoiceSoFar, ChoiceEnds
  <2>2. CASE iterations_left = 0
    <3>1. Len(sorted_chosen_sequences) >= MaxTestFiles
      BY <1>3, <2>1, <2>2, MaxTestFilesAssumption
    <3> QED BY <1>1, <2>1, <3>1 DEF ChoiceEnds
  <2>3. CASE ~try_dynamic /\ Gainful = {}
    <3>1. ASSUME NEW n \in Valid
          PROVE  get_contained_api_functions(api_sequences[n])
                   \subseteq already_covered_nodes
      <4> DEFINE G == get_contained_api_functions(api_sequences[n])
      <4>1. CASE n \in already_chosen_sequences
        BY <1>3, <4>1 DEF NodesOf
      <4>2. CASE ~is_fuzzables_fixed_length(api_sequences[n])
        BY <2>3, <4>2 DEF ChoiceInv, ChoiceSoFar, ChoiceOrder
      <4>3. CASE /\ n \notin already_chosen_sequences
                 /\ is_fuzzables_fixed_length(api_sequences[n])
        <5>1. ~(NewNodes(n) > 0)
          BY <2>3, <4>3 DEF Gainful, Eligible
        <5>2. IsFiniteSet(G)
          BY FiniteValid DEF ChoiceInv, SearchInv, LinkInv, TypeInv
        <5>3. NewNodes(n) = Cardinality(G \ already_covered_nodes)
          BY DEF NewNodes
        <5> HIDE DEF G
        <5>4. IsFiniteSet(G \ already_covered_nodes)
          BY <5>2, FS_Difference
        <5>5. Cardinality(G \ already_covered_nodes) \in Nat
          BY <5>4, FS_CardinalityType
        <5>6. Cardinality(G \ already_covered_nodes) = 0
          BY <5>1, <5>3, <5>5
        <5>7. G \subseteq already_covered_nodes
          BY <5>4, <5>6, FS_EmptySet
        <5> QED BY <5>7 DEF G
      <4> QED BY <4>1, <4>2, <4>3
    <3>2. to_cover_nodes \subseteq already_covered_nodes
      BY <3>1 DEF to_cover_nodes
    <3>3. already_covered_nodes \subseteq to_cover_nodes
      BY <1>3 DEF NodesOf, already_chosen_sequences, to_cover_nodes
    <3> QED BY <1>1, <1>2, <2>1, <3>2, <3>3 DEF ChoiceEnds
  <2> QED BY <1>1, <2>2, <2>3
<1> QED BY <1>4, <1>5, <1>6, <1>7 DEF ChoiceSoFar

\* FileHelper::new takes the chosen sequences in their order.
LEMMA FileChoice ==
    ASSUME ChoiceInv, add_test_file \/ write_files, UNCHANGED vars
    PROVE  ChoiceSoFar'
<1>1. /\ UNCHANGED <<iterations_left, try_dynamic, sorted_chosen_sequences,
                     already_covered_nodes, already_covered_edges>>
      /\ phase = "write" /\ phase' \in {"write", "written"}
  BY DEF add_test_file, write_files
<1>2. /\ UNCHANGED <<pc, api_sequences, api_dependencies>> /\ Valid' = Valid
      /\ to_cover_nodes' = to_cover_nodes
  BY StableChoice
<1>3. PICK m : m = Len(test_files)
  OBVIOUS
<1>4. /\ sorted_chosen_sequences \in Seq(Nat) /\ test_files \in Seq(Nat)
      /\ m \in Nat /\ m <= Len(sorted_chosen_sequences) /\ pc = "done"
      /\ \A j \in 1 .. m : test_files[j] = sorted_chosen_sequences[j]
  BY <1>1, <1>3 DEF ChoiceInv, ChoiceSoFar, ChoicePhase, ChoiceGains
<1>5. /\ test_files' \in Seq(Nat)
      /\ Len(test_files') <= Len(sorted_chosen_sequences)
      /\ \A j \in DOMAIN test_files' : test_files'[j] = sorted_chosen_sequences[j]
  <2>1. CASE add_test_file
    <3>1. /\ m < Len(sorted_chosen_sequences)
          /\ test_files' = Append(test_files, sorted_chosen_sequences[m + 1])
      BY <1>3, <2>1 DEF add_test_file, MoreFiles
    <3>2. m + 1 \in DOMAIN sorted_chosen_sequences
      BY <1>4, <3>1
    <3>3. /\ Len(test_files') = m + 1 /\ DOMAIN test_files' = 1 .. m + 1
          /\ \A j \in 1 .. m : test_files'[j] = test_files[j]
          /\ test_files'[m + 1] = sorted_chosen_sequences[m + 1]
          /\ test_files' \in Seq(Nat)
      BY <1>3, <1>4, <3>1, <3>2
    <3>4. \A j \in 1 .. m + 1 : j \in 1 .. m \/ j = m + 1
      BY <1>4
    <3> QED BY <1>4, <3>1, <3>3, <3>4
  <2>2. CASE write_files
    BY <1>3, <1>4, <2>2 DEF write_files
  <2> QED BY <2>1, <2>2
<1>6. ChoicePhase'
  <2>1. phase' = "written" => ~MoreFiles'
    BY DEF add_test_file, write_files, MoreFiles
  <2> QED BY <1>1, <1>2, <1>4, <1>5, <2>1
          DEF ChoiceInv, ChoiceSoFar, ChoicePhase
<1>7. ChoiceGains'
  BY <1>1, <1>5, KeptChoice DEF ChoiceGains
<1>8. ChoiceOrder'
  BY <1>1, <1>2 DEF ChoiceInv, ChoiceSoFar, ChoiceOrder
<1>9. ChoiceEnds'
  BY <1>1, <1>2 DEF ChoiceInv, ChoiceSoFar, ChoiceEnds
<1> QED BY <1>6, <1>7, <1>8, <1>9 DEF ChoiceSoFar

LEMMA StutterChoice ==
    ASSUME ChoiceInv, UNCHANGED allVars
    PROVE  ChoiceSoFar'
<1>1. UNCHANGED vars /\ UNCHANGED chooseVars
  BY DEF allVars
<1>2. UNCHANGED <<phase, iterations_left, try_dynamic,
                  sorted_chosen_sequences, already_covered_nodes,
                  already_covered_edges, test_files>>
  BY <1>1 DEF chooseVars
<1>3. /\ UNCHANGED <<pc, api_sequences, api_dependencies>> /\ Valid' = Valid
      /\ to_cover_nodes' = to_cover_nodes
  BY <1>1, StableChoice
<1>4. ChoicePhase'
  BY <1>2, <1>3 DEF ChoiceInv, ChoiceSoFar, ChoicePhase, MoreFiles
<1>5. ChoiceGains'
  BY <1>1, <1>2, KeptChoice DEF ChoiceInv, ChoiceSoFar, ChoiceGains
<1>6. ChoiceOrder' /\ ChoiceEnds'
  BY <1>2, <1>3 DEF ChoiceInv, ChoiceSoFar, ChoiceOrder, ChoiceEnds
<1> QED BY <1>4, <1>5, <1>6 DEF ChoiceSoFar

\* ChoiceInv is inductive.
LEMMA ChoiceStep == ChoiceInv /\ [ChooseNext]_allVars => ChoiceInv'
<1> SUFFICES ASSUME ChoiceInv, [ChooseNext]_allVars PROVE ChoiceInv'
  OBVIOUS
<1>1. SearchInv'
  BY ChooseNextIsNext, SearchStep DEF ChoiceInv
<1>2. ChoiceSoFar'
  BY GenerateChoice, StartChoice, SwitchChoice, SequenceChoice, EndChoice,
     FileChoice, StutterChoice DEF ChooseNext, Choose, Written
<1> QED BY <1>1, <1>2 DEF ChoiceInv

LEMMA ChoiceInvariant == ChooseSpec => []ChoiceInv
BY ChooseInitInv, ChoiceStep, PTL DEF ChooseSpec

-----------------------------------------------------------------------------
(* The files                                                               *)

\* No file of fixed length comes before one of dynamic length, for every crate
\* and every limit.
THEOREM DynamicFilesComeFirst == ChooseSpec => []DynamicFirst
<1>1. ASSUME ChoiceInv PROVE DynamicFirst
  <2>1. /\ test_files \in Seq(Nat) /\ sorted_chosen_sequences \in Seq(Nat)
        /\ Len(test_files) <= Len(sorted_chosen_sequences)
        /\ \A j \in DOMAIN test_files : test_files[j] = sorted_chosen_sequences[j]
    BY <1>1 DEF ChoiceInv, ChoiceSoFar, ChoicePhase, ChoiceGains
  <2>2. \A j \in DOMAIN test_files : j \in DOMAIN sorted_chosen_sequences
    BY <2>1
  <2> QED BY <1>1, <2>1, <2>2 DEF DynamicFirst, ChoiceInv, ChoiceSoFar, ChoiceOrder
<1> QED BY <1>1, ChoiceInvariant, PTL

\* Every file is a valid target and adds a function or an edge to those before
\* it: the greedy scan never takes the empty sequence at index 0 for a choice.
THEOREM EveryFileGains == ChooseSpec => []FilesGain
<1>1. ASSUME ChoiceInv PROVE FilesGain
  <2>1. /\ test_files \in Seq(Nat) /\ sorted_chosen_sequences \in Seq(Nat)
        /\ Len(test_files) <= Len(sorted_chosen_sequences)
        /\ \A j \in DOMAIN test_files : test_files[j] = sorted_chosen_sequences[j]
        /\ \A j \in DOMAIN sorted_chosen_sequences :
             /\ sorted_chosen_sequences[j] \in Valid
             /\ GainOver(sorted_chosen_sequences[j], ChosenBefore(j))
    BY <1>1 DEF ChoiceInv, ChoiceSoFar, ChoicePhase, ChoiceGains
  <2>2. ASSUME NEW j \in DOMAIN test_files
        PROVE  /\ test_files[j] \in Valid
               /\ GainOver(test_files[j], EarlierFiles(j))
    <3>0. /\ DOMAIN test_files = 1 .. Len(test_files) /\ Len(test_files) \in Nat
          /\ j \in 1 .. Len(test_files)
          /\ DOMAIN sorted_chosen_sequences = 1 .. Len(sorted_chosen_sequences)
          /\ Len(sorted_chosen_sequences) \in Nat
      BY <2>1
    <3>1. j \in DOMAIN sorted_chosen_sequences
      BY <2>1, <3>0
    <3>2. \A i \in 1 .. j - 1 : test_files[i] = sorted_chosen_sequences[i]
      <4>1. \A i \in 1 .. j - 1 : i \in DOMAIN test_files
        BY <3>0
      <4> QED BY <2>1, <4>1
    <3>3. EarlierFiles(j) = ChosenBefore(j)
      BY <3>2 DEF EarlierFiles, ChosenBefore
    <3> QED BY <2>1, <3>1, <3>3
  <2> QED BY <2>2 DEF FilesGain, GainOver
<1> QED BY <1>1, ChoiceInvariant, PTL

\* A function that some valid target calls is only left without a file when the
\* limit is reached or every edge of the graph is covered: the one iteration
\* spent on leaving the dynamic phase costs no file.
THEOREM FilesCover == ChooseSpec => []FilesCoverNodesOrEdges
<1>1. ASSUME ChoiceInv, phase = "written", Len(test_files) < MaxTestFiles
      PROVE  \/ NodesOf(Files) = to_cover_nodes
             \/ EdgesOf(Files) = api_dependencies
  <2>1. /\ test_files \in Seq(Nat) /\ sorted_chosen_sequences \in Seq(Nat)
        /\ Len(test_files) <= Len(sorted_chosen_sequences)
        /\ \A j \in DOMAIN test_files : test_files[j] = sorted_chosen_sequences[j]
        /\ already_covered_nodes = NodesOf(already_chosen_sequences)
        /\ already_covered_edges = EdgesOf(already_chosen_sequences)
        /\ ~MoreFiles
    BY <1>1 DEF ChoiceInv, ChoiceSoFar, ChoicePhase, ChoiceGains
  <2>2. Len(test_files) = Len(sorted_chosen_sequences)
    BY <1>1, <2>1, MaxTestFilesAssumption DEF MoreFiles
  <2>3. DOMAIN test_files = DOMAIN sorted_chosen_sequences
    BY <2>1, <2>2
  <2>4. Files = already_chosen_sequences
    BY <2>1, <2>3 DEF Files, already_chosen_sequences
  <2>5. ~(Len(sorted_chosen_sequences) >= MaxTestFiles)
    BY <1>1, <2>1, <2>2, MaxTestFilesAssumption
  <2>6. \/ already_covered_nodes = to_cover_nodes
        \/ already_covered_edges = api_dependencies
    BY <1>1, <2>5 DEF ChoiceInv, ChoiceSoFar, ChoiceEnds
  <2> QED BY <2>1, <2>4, <2>6
<1>2. ChoiceInv => FilesCoverNodesOrEdges
  BY <1>1 DEF FilesCoverNodesOrEdges
<1> QED BY <1>2, ChoiceInvariant, PTL
=============================================================================
