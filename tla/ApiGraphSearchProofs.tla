------------------------ MODULE ApiGraphSearchProofs ------------------------
(***************************************************************************)
(* What the two searches guarantee together: the visited flags say exactly *)
(* which functions have a target, fast mode makes one target per function, *)
(* no target is generated twice, only the last call of a target is an end  *)
(* function, and only functions that can be called at all are called;      *)
(* ApiGraph implements TargetGrowth.  In the backward search a merged      *)
(* sequence always satisfies the function it was merged for, so that       *)
(* "Should not go to here" is never printed, and the bound on the rounds   *)
(* never cuts the search short.  Where no function takes two values that   *)
(* have to be produced, every function that can be called gets a target.   *)
(***************************************************************************)
EXTENDS ApiGraphTargetProofs

-----------------------------------------------------------------------------
(* The visited flags                                                       *)

\* A step that keeps no sequence and marks no function.
LEMMA SameResults ==
    ASSUME UNCHANGED <<api_functions, api_sequences, api_functions_visited>>
    PROVE  /\ Funs' = Funs
           /\ Unvisited' = Unvisited
           /\ VisitedIsCovered /\ pc \notin {"collect", "filter", "bfs"}
                => VisitedIsCovered'
BY DEF Funs, Unvisited, VisitedIsCovered, Generated

\* Keeping an accepted sequence marks the function it ends with.
LEMMA PushVisited ==
    ASSUME VisitInv, pc = "some", PushNewSequence, UNCHANGED api_functions,
           pc' \notin {"collect", "filter", "bfs"}
    PROVE  /\ DOMAIN api_functions_visited' = Funs'
           /\ Unvisited' = Unvisited \ {api_call.func}
           /\ VisitedIsCovered'
<1> DEFINE f == api_call.func
           v == api_functions_visited
<1>1. /\ api_sequences \in Seq(ApiSequences) /\ f \in Funs
      /\ api_sequences' = Append(api_sequences, new_sequence)
      /\ v' = [v EXCEPT ![f] = TRUE]
  BY DEF VisitInv, LinkInv, TypeInv, TypeOK, Located, PushNewSequence
<1>2. /\ DOMAIN v = Funs
      /\ new_sequence.functions # <<>> /\ last_api_func_index(new_sequence) = f
  BY DEF VisitInv, VisitedSoFar
<1>3. Funs' = Funs
  BY DEF Funs
<1>4. Generated' = Generated \cup {new_sequence}
  <2> DEFINE n == Len(api_sequences)
  <2>1. /\ n \in Nat /\ DOMAIN api_sequences = 1 .. n
        /\ DOMAIN api_sequences' = 1 .. n + 1
        /\ \A i \in 1 .. n : api_sequences'[i] = api_sequences[i]
        /\ api_sequences'[n + 1] = new_sequence
    BY <1>1
  <2> HIDE DEF n
  <2>2. DOMAIN api_sequences' = DOMAIN api_sequences \cup {n + 1}
    BY <2>1
  <2> QED BY <2>1, <2>2 DEF Generated
<1>5. \A g \in Funs : v'[g] = IF g = f THEN TRUE ELSE v[g]
  BY <1>1, <1>2
<1>6. DOMAIN v' = Funs'
  BY <1>1, <1>2, <1>3
<1> HIDE DEF f
<1>7. Unvisited' = Unvisited \ {f}
  BY <1>3, <1>5 DEF Unvisited
<1>8. \A g \in Funs : v[g] <=> \E s \in Generated :
                                  s.functions # <<>> /\ last_api_func_index(s) = g
  BY DEF VisitInv, VisitedIsCovered
<1>9. \A g \in Funs' : v'[g] <=> \E s \in Generated' :
                                    s.functions # <<>> /\ last_api_func_index(s) = g
  BY <1>2, <1>3, <1>4, <1>5, <1>8
<1> QED BY <1>6, <1>7, <1>9 DEF VisitedIsCovered, f

LEMMA InitVisit == Init => VisitInv
<1> SUFFICES ASSUME Init PROVE VisitInv
  OBVIOUS
<1>1. LinkInv
  BY InitLinked
<1>2. pc = "collect"
  BY DEF Init
<1> QED BY <1>1, <1>2 DEF VisitInv, VisitedIsCovered, VisitedSoFar, InRound,
                          Satisfying

LEMMA CollectVisit ==
    ASSUME VisitInv, Collect
    PROVE  VisitInv'
<1>1. LinkInv'
  BY CollectLinked DEF VisitInv
<1>2. pc' \in {"collect", "filter", "bfs"}
  BY DEF Collect, add_api_function, filter_start, filter_function,
         find_all_dependencies, VisitInv, LinkInv, TypeInv, TypeOK
<1> QED BY <1>1, <1>2 DEF VisitInv, VisitedIsCovered, VisitedSoFar, InRound,
                          Satisfying

LEMMA IsFunSatisfiedVisit ==
    ASSUME VisitInv, IsFunSatisfied
    PROVE  VisitInv'
<1> USE DEF graphVars, resultVars, satVars, bfsVars, roundVars, mergeVars,
            coverVars
<1>1. LinkInv' /\ TypeOK
  BY IsFunSatisfiedLinked DEF VisitInv, LinkInv, TypeInv
<1>2. /\ UNCHANGED <<api_functions, api_sequences, api_functions_visited,
                     unvisited_nodes, covered, todo, caller, fast_mode>>
      /\ pc = "param" /\ pc' \in {"param", "some", "none"}
  BY DEF IsFunSatisfied, return_param, TakeReturn, fuzzable_param,
         refuse_param, add_fn
<1>3. api_call'.func = api_call.func
  BY <1>1 DEF IsFunSatisfied, return_param, TakeReturn, fuzzable_param,
              refuse_param, add_fn, TypeOK, ApiCalls
<1>4. ASSUME pc' = "some"
      PROVE  /\ new_sequence'.functions # <<>>
             /\ last_api_func_index(new_sequence') = api_call.func
  <2>1. add_fn
    BY <1>2, <1>4 DEF IsFunSatisfied, return_param, TakeReturn, fuzzable_param,
                      refuse_param
  <2>2. /\ new_sequence.functions \in Seq(ApiCalls) /\ api_call \in ApiCalls
        /\ new_sequence'.functions = Append(new_sequence.functions, api_call)
    BY <1>1, <2>1, SequenceFields DEF add_fn, TypeOK, ApiSequences
  <2> DEFINE x == new_sequence.functions
             y == new_sequence'.functions
  <2>3. x \in Seq(ApiCalls) /\ y = Append(x, api_call) /\ api_call \in ApiCalls
    BY <2>2
  <2> HIDE DEF x, y
  <2>4. y # <<>> /\ y[Len(y)] = api_call
    BY <2>3
  <2> QED BY <2>4 DEF y, last_api_func_index
<1>5. VisitedIsCovered' /\ Unvisited' = Unvisited /\ Funs' = Funs
  BY <1>2, SameResults DEF VisitInv
<1>6. VisitedSoFar
  BY DEF VisitInv
<1>7. VisitedSoFar'
  BY <1>2, <1>3, <1>4, <1>5, <1>6 DEF VisitedSoFar, InRound, Satisfying
<1> QED BY <1>1, <1>5, <1>7 DEF VisitInv

LEMMA BfsVisit ==
    ASSUME VisitInv, Bfs
    PROVE  VisitInv'
<1> USE DEF graphVars, resultVars, satVars, bfsVars, roundVars, mergeVars,
            coverVars
<1>0. UNCHANGED <<api_functions, fast_mode>>
  BY DEF Bfs, bfs_start, bfs_level, bfs_try, bfs_skip, bfs_return,
         bfs_next_sequence, bfs_next_level, bfs_end
<1>1. LinkInv' /\ TypeOK
  BY BfsLinked DEF VisitInv, LinkInv, TypeInv
<1>2. VisitedSoFar /\ VisitedIsCovered
  BY DEF VisitInv
<1>3. CASE bfs_start
  <2>1. /\ pc' \in {"cover", "level"}
        /\ api_functions_visited' = [f \in Funs |-> FALSE]
    BY <1>3 DEF bfs_start
  <2>2. api_sequences' = <<>> \/ api_sequences' = <<NewSequence>>
    BY <1>3 DEF bfs_start
  <2>3. \A s \in Generated' : s.functions = <<>>
    BY <2>2 DEF Generated, NewSequence
  <2>4. Funs' = Funs
    BY <1>0 DEF Funs
  <2>5. VisitedIsCovered'
    BY <2>1, <2>3, <2>4 DEF VisitedIsCovered
  <2>6. VisitedSoFar'
    BY <2>1, <2>4 DEF VisitedSoFar, InRound, Satisfying
  <2> QED BY <1>1, <2>5, <2>6 DEF VisitInv
<1>4. CASE bfs_try
  <2>1. PICK n \in tmp_sequences : Satisfy(api_sequences[n], next_fun, "bfs")
    BY <1>4 DEF bfs_try
  <2>2. pc = "extend" /\ pc' = "param" /\ caller' = "bfs" /\ api_call'.func = next_fun
        /\ next_fun \in Funs /\ ~SkipFun(next_fun)
        /\ UNCHANGED <<api_sequences, api_functions_visited>>
    BY <1>4, <2>1 DEF bfs_try, Satisfy, ApiCall
  <2>3. VisitedIsCovered' /\ Unvisited' = Unvisited /\ Funs' = Funs
    BY <1>0, <1>2, <2>2, SameResults
  <2>4. fast_mode => next_fun \in Unvisited
    BY <2>2 DEF SkipFun, Unvisited
  <2>5. VisitedSoFar'
    BY <1>0, <1>2, <2>2, <2>3, <2>4 DEF VisitedSoFar, InRound, Satisfying
  <2> QED BY <1>1, <2>3, <2>5 DEF VisitInv
<1>5. CASE bfs_return
  <2>1. pc' = "extend" /\ pc \in {"some", "none"}
    BY <1>5 DEF bfs_return
  <2>2. VisitedIsCovered' /\ DOMAIN api_functions_visited' = Funs'
    <3>1. CASE pc = "some"
      BY <1>0, <1>5, <2>1, <3>1, PushVisited DEF bfs_return
    <3>2. CASE pc # "some"
      <4>1. UNCHANGED <<api_sequences, api_functions_visited>>
        BY <1>5, <3>2 DEF bfs_return
      <4> QED BY <1>0, <1>2, <2>1, <4>1, SameResults DEF VisitedSoFar
    <3> QED BY <3>1, <3>2
  <2>3. VisitedSoFar'
    BY <2>1, <2>2 DEF VisitedSoFar, InRound, Satisfying
  <2> QED BY <1>1, <2>2, <2>3 DEF VisitInv
<1>6. CASE bfs_level \/ bfs_skip \/ bfs_next_sequence \/ bfs_next_level \/ bfs_end
  <2>1. /\ pc' \in {"extend", "level", "cover", "done"} /\ pc \in {"level", "extend"}
        /\ UNCHANGED <<api_sequences, api_functions_visited>>
    BY <1>6 DEF bfs_level, bfs_skip, bfs_next_sequence, bfs_next_level, bfs_end
  <2>2. VisitedIsCovered' /\ Funs' = Funs
    BY <1>0, <1>2, <2>1, SameResults
  <2>3. VisitedSoFar'
    BY <1>2, <2>1, <2>2 DEF VisitedSoFar, InRound, Satisfying
  <2> QED BY <1>1, <2>2, <2>3 DEF VisitInv
<1> QED BY <1>3, <1>4, <1>5, <1>6 DEF Bfs

LEMMA CoverVisit ==
    ASSUME VisitInv, Cover
    PROVE  VisitInv'
<1> USE DEF graphVars, resultVars, satVars, bfsVars, roundVars, mergeVars,
            coverVars
<1>0. UNCHANGED <<api_functions, fast_mode>>
  BY DEF Cover, cover_start, cover_round, cover_skip, cover_node,
         merge_sequences, cover_try, cover_return, cover_end_round, cover_end
<1>1. LinkInv' /\ TypeOK
  BY CoverLinked DEF VisitInv, LinkInv, TypeInv
<1>2. VisitedSoFar /\ VisitedIsCovered
  BY DEF VisitInv
<1>3. ASSUME ~cover_return
      PROVE  /\ VisitedIsCovered' /\ Unvisited' = Unvisited /\ Funs' = Funs
             /\ UNCHANGED api_functions_visited
  <2>1. /\ UNCHANGED <<api_sequences, api_functions_visited>>
        /\ pc \in {"cover", "round", "node", "merge"}
    BY <1>3 DEF Cover, cover_start, cover_round, cover_skip, cover_node,
                merge_sequences, cover_try, cover_end_round, cover_end
  <2> QED BY <1>0, <1>2, <2>1, SameResults
<1> USE DEF VisitedSoFar, InRound, Satisfying
<1>4. CASE cover_start
  <2>1. /\ pc = "cover" /\ pc' = "round" /\ unvisited_nodes' = Unvisited
    BY <1>4 DEF cover_start, Unvisited
  <2>2. ~cover_return
    BY <2>1 DEF cover_return
  <2> QED BY <1>1, <1>2, <1>3, <2>1, <2>2 DEF VisitInv
<1>5. CASE cover_round
  <2>1. /\ pc = "round" /\ pc' = "node" /\ unvisited_nodes' = unvisited_nodes
        /\ covered' = {} /\ todo' = unvisited_nodes
    BY <1>5 DEF cover_round
  <2>2. ~cover_return
    BY <2>1 DEF cover_return
  <2> QED BY <1>1, <1>2, <1>3, <2>1, <2>2 DEF VisitInv
<1>6. ASSUME NEW f \in todo, cover_skip(f) PROVE VisitInv'
  <2>1. /\ pc = "node" /\ pc' = "node" /\ UNCHANGED <<unvisited_nodes, covered>>
        /\ todo' = todo \ {f}
    BY <1>6 DEF cover_skip
  <2>2. ~cover_return
    BY <2>1 DEF cover_return
  <2> QED BY <1>1, <1>2, <1>3, <2>1, <2>2 DEF VisitInv
<1>7. ASSUME NEW f \in todo, cover_node(f) PROVE VisitInv'
  <2>1. /\ pc = "node" /\ pc' = "merge" /\ UNCHANGED <<unvisited_nodes, covered>>
        /\ todo' = todo \ {f} /\ api_call'.func = f
    BY <1>7 DEF cover_node, ApiCall
  <2>2. ~cover_return
    BY <2>1 DEF cover_return
  <2> QED BY <1>1, <1>2, <1>3, <2>1, <2>2 DEF VisitInv
<1>8. CASE merge_sequences
  <2>1. /\ pc = "merge" /\ pc' = "merge"
        /\ UNCHANGED <<unvisited_nodes, covered, todo, api_call>>
    BY <1>8 DEF merge_sequences
  <2>2. ~cover_return
    BY <2>1 DEF cover_return
  <2> QED BY <1>1, <1>2, <1>3, <2>1, <2>2 DEF VisitInv
<1>9. CASE cover_try
  <2>1. /\ pc = "merge" /\ pc' = "param" /\ caller' = "cover"
        /\ UNCHANGED <<unvisited_nodes, covered, todo>>
        /\ api_call'.func = api_call.func
    BY <1>9 DEF cover_try, Satisfy, ApiCall
  <2>2. ~cover_return
    BY <2>1 DEF cover_return
  <2> QED BY <1>1, <1>2, <1>3, <2>1, <2>2 DEF VisitInv
<1>10. CASE cover_return
  <2>1. /\ pc' = "node" /\ pc \in {"some", "none"} /\ caller = "cover"
        /\ UNCHANGED <<unvisited_nodes, todo>>
    BY <1>10 DEF cover_return
  <2>2. CASE pc = "some"
    <3>1. PushNewSequence /\ covered' = covered \cup {api_call.func}
      BY <1>10, <2>2 DEF cover_return
    <3>2. /\ DOMAIN api_functions_visited' = Funs'
          /\ Unvisited' = Unvisited \ {api_call.func}
          /\ VisitedIsCovered'
      BY <1>0, <2>1, <2>2, <3>1, PushVisited
    <3>3. api_call.func \in Unvisited \ todo /\ unvisited_nodes \ covered = Unvisited
          /\ covered \subseteq unvisited_nodes /\ todo \subseteq Unvisited
      BY <1>2, <2>1
    <3>4. /\ unvisited_nodes' \ covered' = Unvisited'
          /\ covered' \subseteq unvisited_nodes'
          /\ todo' \subseteq Unvisited'
      BY <2>1, <3>1, <3>2, <3>3
    <3> QED BY <1>1, <2>1, <3>2, <3>4 DEF VisitInv
  <2>3. CASE pc = "none"
    <3>1. UNCHANGED <<api_sequences, api_functions_visited, covered>>
      BY <1>10, <2>3 DEF cover_return
    <3>2. VisitedIsCovered' /\ Unvisited' = Unvisited /\ Funs' = Funs
      BY <1>0, <1>2, <2>3, <3>1, SameResults
    <3> QED BY <1>1, <1>2, <2>1, <2>3, <3>1, <3>2 DEF VisitInv
  <2> QED BY <2>1, <2>2, <2>3
<1>11. CASE cover_end_round
  <2>1. /\ pc = "node" /\ pc' \in {"done", "round"}
        /\ pc' = "round" => unvisited_nodes' = unvisited_nodes \ covered
    BY <1>11 DEF cover_end_round
  <2>2. ~cover_return
    BY <2>1 DEF cover_return
  <2> QED BY <1>1, <1>2, <1>3, <2>1, <2>2 DEF VisitInv
<1>12. CASE cover_end
  <2>1. pc = "round" /\ pc' = "done"
    BY <1>12 DEF cover_end
  <2>2. ~cover_return
    BY <2>1 DEF cover_return
  <2> QED BY <1>1, <1>2, <1>3, <2>1, <2>2 DEF VisitInv
<1> QED BY <1>4, <1>5, <1>6, <1>7, <1>8, <1>9, <1>10, <1>11, <1>12 DEF Cover

LEMMA StutterVisit ==
    ASSUME VisitInv, UNCHANGED vars
    PROVE  VisitInv'
<1> USE DEF vars, graphVars, resultVars, satVars, bfsVars, roundVars,
            mergeVars, coverVars
<1>1. LinkInv'
  BY StutterLinked DEF VisitInv
<1>2. VisitedSoFar' /\ VisitedIsCovered'
  BY DEF VisitInv, VisitedSoFar, VisitedIsCovered, InRound, Satisfying, Unvisited,
         Funs, Generated
<1> QED BY <1>1, <1>2 DEF VisitInv

\* VisitInv is inductive.
LEMMA VisitStep == VisitInv /\ [Next]_vars => VisitInv'
BY CollectVisit, IsFunSatisfiedVisit, BfsVisit, CoverVisit, StutterVisit
   DEF Next, Terminated

\* A function is marked visited exactly when a generated target ends with it, so
\* that the backward search looks for exactly the functions without a target.
THEOREM VisitedHaveTargets == Spec => []VisitedIsCovered
<1>1. VisitInv => VisitedIsCovered
  BY DEF VisitInv
<1> QED BY <1>1, InitVisit, VisitStep, PTL DEF Spec

-----------------------------------------------------------------------------
(* Fast mode                                                               *)

\* How a step changes what has been generated.
LEMMA ResultStep ==
    ASSUME [Next]_vars
    PROVE  /\ UNCHANGED fast_mode
           /\ \/ UNCHANGED api_sequences
              \/ bfs_start
              \/ pc = "some" /\ PushNewSequence
<1> USE DEF vars, graphVars, resultVars, satVars, bfsVars, roundVars, mergeVars,
            coverVars
<1>1. CASE Collect
  BY <1>1 DEF Collect, add_api_function, filter_start, filter_function,
              find_all_dependencies
<1>2. CASE IsFunSatisfied
  BY <1>2 DEF IsFunSatisfied, return_param, TakeReturn, fuzzable_param,
              refuse_param, add_fn
<1>3. CASE Bfs
  BY <1>3 DEF Bfs, bfs_start, bfs_level, bfs_try, bfs_skip, bfs_return,
              bfs_next_sequence, bfs_next_level, bfs_end
<1>4. CASE Cover
  BY <1>4 DEF Cover, cover_start, cover_round, cover_skip, cover_node,
              merge_sequences, cover_try, cover_return, cover_end_round, cover_end
<1>5. CASE UNCHANGED vars
  BY <1>5
<1> QED BY <1>1, <1>2, <1>3, <1>4, <1>5 DEF Next, Terminated

\* The positions once a sequence is kept.
LEMMA PushedAt ==
    ASSUME TypeOK, PushNewSequence
    PROVE  LET m == Len(api_sequences) + 1 IN
           /\ m \notin DOMAIN api_sequences
           /\ DOMAIN api_sequences' = DOMAIN api_sequences \cup {m}
           /\ api_sequences'[m] = new_sequence
           /\ \A n \in DOMAIN api_sequences :
                api_sequences'[n] = api_sequences[n] /\ n < m
BY DEF TypeOK, PushNewSequence

\* The backward search and fast mode keep a sequence only if it is the first
\* that ends with its function.
LEMMA PushIsFirst ==
    ASSUME VisitInv, pc = "some", caller = "cover" \/ (caller = "bfs" /\ fast_mode)
    PROVE  \A n \in DOMAIN api_sequences :
              api_sequences[n].functions # <<>> =>
                last_api_func_index(api_sequences[n]) # api_call.func
<1>1. api_call.func \in Funs
  BY DEF VisitInv, LinkInv, TypeInv, Located
<1>2. api_call.func \in Unvisited
  BY <1>1 DEF VisitInv, VisitedSoFar, InRound, Satisfying
<1>3. ~ \E s \in Generated :
          s.functions # <<>> /\ last_api_func_index(s) = api_call.func
  BY <1>1, <1>2 DEF VisitInv, VisitedIsCovered, Unvisited
<1> QED BY <1>3 DEF Generated

LEMMA FastStep ==
    ASSUME VisitInv, FastModeOnce, caller \in DefaultCallers, [Next]_vars
    PROVE  FastModeOnce'
<1> SUFFICES ASSUME fast_mode,
                    NEW m \in DOMAIN api_sequences', NEW n \in DOMAIN api_sequences',
                    api_sequences'[m].functions # <<>>,
                    api_sequences'[n].functions # <<>>,
                    last_api_func_index(api_sequences'[m])
                      = last_api_func_index(api_sequences'[n])
             PROVE  m = n
  BY ResultStep DEF FastModeOnce
<1>1. CASE UNCHANGED api_sequences
  BY <1>1 DEF FastModeOnce
<1>2. CASE bfs_start
  <2>1. api_sequences' = <<>> \/ api_sequences' = <<NewSequence>>
    BY <1>2 DEF bfs_start
  <2> QED BY <2>1 DEF NewSequence
<1>3. CASE pc = "some" /\ PushNewSequence
  <2>1. TypeOK
    BY DEF VisitInv, LinkInv, TypeInv
  <2>2. last_api_func_index(new_sequence) = api_call.func
    BY <1>3 DEF VisitInv, VisitedSoFar
  <2>3. \A i \in DOMAIN api_sequences :
           api_sequences[i].functions # <<>> =>
             last_api_func_index(api_sequences[i]) # api_call.func
    BY <1>3, PushIsFirst DEF DefaultCallers
  <2> QED BY <1>3, <2>1, <2>2, <2>3, PushedAt DEF FastModeOnce
<1> QED BY <1>1, <1>2, <1>3, ResultStep

\* is_fun_satisfied is called by the two searches.
LEMMA CallerStep ==
    ASSUME [Next]_vars
    PROVE  caller' = caller \/ caller' \in DefaultCallers
<1> USE DEF satVars
<1>1. CASE Collect
  BY <1>1 DEF Collect, add_api_function, filter_start, filter_function,
              find_all_dependencies
<1>2. CASE IsFunSatisfied
  BY <1>2 DEF IsFunSatisfied, return_param, TakeReturn, fuzzable_param,
              refuse_param, add_fn
<1>3. CASE Bfs
  BY <1>3 DEF Bfs, bfs_start, bfs_level, bfs_try, bfs_skip, bfs_return,
     bfs_next_sequence, bfs_next_level, bfs_end, Satisfy, DefaultCallers
<1>4. CASE Cover
  <2>1. CASE \E f \in todo : cover_skip(f) \/ cover_node(f)
    BY <2>1 DEF cover_skip, cover_node
  <2> QED BY <1>4, <2>1 DEF Cover, cover_start, cover_round, merge_sequences,
     cover_try, cover_return, cover_end_round, cover_end, Satisfy, DefaultCallers
<1>5. CASE UNCHANGED vars
  BY <1>5 DEF vars
<1> QED BY <1>1, <1>2, <1>3, <1>4, <1>5 DEF Next, Terminated

\* In fast mode the searches make at most one target per function.
THEOREM FastModeMakesOne == Spec => []FastModeOnce
<1> DEFINE Default == caller \in DefaultCallers
<1>1. Init => FastModeOnce /\ Default
  BY DEF Init, FastModeOnce, DefaultCallers
<1>2. VisitInv /\ FastModeOnce /\ Default /\ [Next]_vars => FastModeOnce' /\ Default'
  BY FastStep, CallerStep
<1> HIDE DEF Default
<1> QED BY <1>1, <1>2, InitVisit, VisitStep, PTL DEF Spec

-----------------------------------------------------------------------------
(* End functions                                                           *)

LEMMA StableEnds ==
    ASSUME UNCHANGED api_functions
    PROVE  \A s : NoEnd(s)' <=> NoEnd(s)
BY DEF NoEnd

\* The calls of a merged sequence are those of both.
LEMMA MergeNoEnd ==
    ASSUME NEW a \in ApiSequences, NEW b \in ApiSequences, NoEnd(a), NoEnd(b)
    PROVE  NoEnd(MergeAnother(a, b))
<1> DEFINE t  == MergeAnother(a, b)
           nf == Len(a.functions)
           m  == Len(b.functions)
<1>1. a.functions \in Seq(ApiCalls) /\ b.functions \in Seq(ApiCalls)
  BY SequenceFields
<1>2. /\ nf \in Nat /\ m \in Nat
      /\ DOMAIN a.functions = 1 .. nf /\ DOMAIN b.functions = 1 .. m
  BY <1>1
<1>3. /\ DOMAIN t.functions = 1 .. nf + m
      /\ \A i \in DOMAIN a.functions : t.functions[i] = a.functions[i]
      /\ \A i \in DOMAIN b.functions : t.functions[nf + i].func = b.functions[i].func
  BY MergeFunctions, Zenon
<1> HIDE DEF t, nf, m
<1>4. ASSUME NEW c \in DOMAIN t.functions
      PROVE  ~is_end_function(api_functions[t.functions[c].func])
  <2>1. CASE c <= nf
    BY <1>2, <1>3, <2>1 DEF NoEnd
  <2>2. CASE ~(c <= nf)
    <3>1. c - nf \in 1 .. m /\ nf + (c - nf) = c
      BY <1>2, <1>3, <2>2
    <3> QED BY <1>2, <1>3, <3>1 DEF NoEnd
  <2> QED BY <2>1, <2>2
<1>5. NoEnd(t)
  BY <1>4 DEF NoEnd
<1> QED BY <1>5 DEF t

\* A sequence that has not ended has no end function if only its last call can
\* be one.
LEMMA NotEnded ==
    ASSUME NEW s \in ApiSequences, ~is_sequence_ended(s),
           \A c \in 1 .. Len(s.functions) - 1 :
              ~is_end_function(api_functions[s.functions[c].func])
    PROVE  NoEnd(s)
<1>1. s.functions \in Seq(ApiCalls)
  BY SequenceFields
<1> SUFFICES ASSUME NEW c \in DOMAIN s.functions
             PROVE  ~is_end_function(api_functions[s.functions[c].func])
  BY DEF NoEnd
<1>2. c \in 1 .. Len(s.functions) /\ Len(s.functions) \in Nat /\ s.functions # <<>>
  BY <1>1
<1>3. CASE c = Len(s.functions)
  BY <1>2, <1>3 DEF is_sequence_ended, last_api_func_index
<1>4. CASE c # Len(s.functions)
  <2>1. c \in 1 .. Len(s.functions) - 1
    BY <1>2, <1>4
  <2> QED BY <2>1
<1> QED BY <1>3, <1>4

\* Every sequence that is not ended can be extended or merged.
LEMMA GeneratedEnds ==
    ASSUME LinkInv, EndsLast
    PROVE  \A n \in DOMAIN api_sequences :
              /\ api_sequences[n] \in ApiSequences
              /\ ~is_sequence_ended(api_sequences[n]) => NoEnd(api_sequences[n])
<1> SUFFICES ASSUME NEW n \in DOMAIN api_sequences
             PROVE  /\ api_sequences[n] \in ApiSequences
                    /\ ~is_sequence_ended(api_sequences[n]) => NoEnd(api_sequences[n])
  OBVIOUS
<1>1. api_sequences[n] \in ApiSequences /\ api_sequences[n] \in Generated
  BY DEF LinkInv, TypeInv, TypeOK, Generated
<1>2. \A c \in 1 .. Len(api_sequences[n].functions) - 1 :
         ~is_end_function(api_functions[api_sequences[n].functions[c].func])
  BY <1>1 DEF EndsLast
<1> QED BY <1>1, <1>2, NotEnded

\* Keeping a sequence.
LEMMA PushEnds ==
    ASSUME LinkInv, EndsLast, EndsSoFar, pc = "some", PushNewSequence,
           UNCHANGED api_functions
    PROVE  /\ EndsLast'
           /\ \A n \in DOMAIN api_sequences :
                n \in DOMAIN api_sequences' /\ api_sequences'[n] = api_sequences[n]
<1>1. TypeOK
  BY DEF LinkInv, TypeInv
<1>2. \A s \in Generated' : s \in Generated \/ s = new_sequence
  BY <1>1, PushedAt DEF Generated
<1>3. \A c \in 1 .. Len(new_sequence.functions) - 1 :
         ~is_end_function(api_functions[new_sequence.functions[c].func])
  BY DEF EndsSoFar
<1>4. EndsLast'
  BY <1>2, <1>3 DEF EndsLast
<1> QED BY <1>1, <1>4, PushedAt

LEMMA InitEnd == Init => EndInv
<1> SUFFICES ASSUME Init PROVE EndInv
  OBVIOUS
<1>1. LinkInv
  BY InitLinked
<1>2. Generated = {} /\ tmp_sequences = {} /\ candidates = {} /\ DOMAIN dependents = {}
      /\ pc = "collect"
  BY DEF Init, Generated
<1> QED BY <1>1, <1>2 DEF EndInv, EndsLast, EndsSoFar

LEMMA CollectEnd ==
    ASSUME LinkInv, Collect
    PROVE  EndsLast' /\ EndsSoFar'
<1>1. LinkInv' /\ Located'
  BY CollectLinked DEF LinkInv, TypeInv
<1>2. pc' \in {"collect", "filter", "bfs"}
  BY DEF Collect, add_api_function, filter_start, filter_function,
         find_all_dependencies, LinkInv, TypeInv, TypeOK
<1>3. /\ tmp_sequences' = {} /\ candidates' = {} /\ DOMAIN dependents' = {}
      /\ api_sequences' = <<>>
  BY <1>1, <1>2 DEF Located, LinkInv, LinkedSoFar
<1>4. Generated' = {}
  BY <1>3 DEF Generated
<1> QED BY <1>2, <1>3, <1>4 DEF EndsLast, EndsSoFar

LEMMA IsFunSatisfiedEnd ==
    ASSUME LinkInv, EndsLast, EndsSoFar, IsFunSatisfied
    PROVE  EndsLast' /\ EndsSoFar'
<1> USE DEF graphVars, resultVars, satVars, bfsVars, roundVars, mergeVars,
            coverVars
<1>1. TypeOK
  BY DEF LinkInv, TypeInv
<1>2. /\ UNCHANGED <<api_functions, api_sequences, tmp_sequences, candidates,
                     dependents>>
      /\ pc = "param" /\ pc' \in {"param", "some", "none"}
  BY DEF IsFunSatisfied, return_param, TakeReturn, fuzzable_param,
         refuse_param, add_fn
<1>3. EndsLast'
  BY <1>2 DEF EndsLast, Generated
<1>4. ASSUME pc' = "param" PROVE NoEnd(new_sequence')
  <2>1. new_sequence'.functions = new_sequence.functions
    BY <1>1, <1>4 DEF IsFunSatisfied, return_param, TakeReturn, WithReturn,
       fuzzable_param, refuse_param, add_fn, TypeOK, ApiSequences
  <2>2. NoEnd(new_sequence)
    BY <1>2, <1>4 DEF EndsSoFar
  <2> QED BY <2>1, <2>2 DEF NoEnd
<1>5. ASSUME pc' = "some",
             NEW c \in 1 .. Len(new_sequence'.functions) - 1
      PROVE  ~is_end_function(api_functions[new_sequence'.functions[c].func])
  <2>1. add_fn
    BY <1>2, <1>5 DEF IsFunSatisfied, return_param, TakeReturn, fuzzable_param,
                      refuse_param
  <2>2. /\ new_sequence.functions \in Seq(ApiCalls)
        /\ new_sequence'.functions = Append(new_sequence.functions, api_call)
    BY <1>1, <2>1, SequenceFields DEF add_fn, TypeOK, ApiSequences
  <2>3. NoEnd(new_sequence)
    BY <1>2, <1>5 DEF EndsSoFar
  <2> DEFINE x == new_sequence.functions
             y == new_sequence'.functions
  <2>4. x \in Seq(ApiCalls) /\ y = Append(x, api_call) /\ c \in 1 .. Len(y) - 1
    BY <1>5, <2>2
  <2> HIDE DEF x, y
  <2>5. c \in DOMAIN x /\ y[c] = x[c]
    BY <2>4
  <2> QED BY <2>3, <2>5 DEF NoEnd, x, y
<1>6. EndsSoFar'
  BY <1>2, <1>4, <1>5, StableEnds DEF EndsSoFar
<1> QED BY <1>3, <1>6

\* Entering is_fun_satisfied does not change the calls.
LEMMA SatisfyEnd ==
    ASSUME NEW s \in ApiSequences, NEW f, NEW who, Satisfy(s, f, who), NoEnd(s)
    PROVE  NoEnd(new_sequence')
<1>1. new_sequence'.functions = s.functions
  BY DEF Satisfy, ApiSequences
<1> QED BY <1>1 DEF NoEnd

LEMMA BfsEnd ==
    ASSUME LinkInv, StopAtEnd, EndsLast, EndsSoFar, Bfs
    PROVE  EndsLast' /\ EndsSoFar'
<1> USE DEF graphVars, resultVars, satVars, bfsVars, roundVars, mergeVars,
            coverVars
<1>0. UNCHANGED <<api_functions, candidates, dependents>>
  BY DEF Bfs, bfs_start, bfs_level, bfs_try, bfs_skip, bfs_return,
         bfs_next_sequence, bfs_next_level, bfs_end
<1>1. TypeOK /\ Located
  BY DEF LinkInv, TypeInv
<1>2. EndsLast /\ EndsSoFar
  OBVIOUS
<1>3. CASE bfs_start
  <2>1. pc = "bfs" /\ pc' \in {"cover", "level"} /\ UNCHANGED tmp_sequences
    BY <1>3 DEF bfs_start
  <2>2. api_sequences' = <<>> \/ api_sequences' = <<NewSequence>>
    BY <1>3 DEF bfs_start
  <2>3. \A s \in Generated' : s.functions = <<>>
    BY <2>2 DEF Generated, NewSequence
  <2>4. tmp_sequences' = {} /\ candidates' = {} /\ DOMAIN dependents' = {}
    BY <1>0, <1>1, <2>1 DEF Located
  <2>5. EndsLast'
    BY <2>3 DEF EndsLast
  <2> QED BY <2>1, <2>4, <2>5 DEF EndsSoFar
<1>4. CASE bfs_level
  <2>1. /\ tmp_sequences' = {n \in DOMAIN api_sequences : ToExtend(n)}
        /\ pc' = "extend" /\ UNCHANGED api_sequences
    BY <1>4 DEF bfs_level
  <2>2. \A n \in tmp_sequences' : NoEnd(api_sequences[n])
    BY <2>1, GeneratedEnds DEF ToExtend
  <2>3. EndsLast'
    BY <1>0, <1>2, <2>1 DEF EndsLast, Generated
  <2> QED BY <1>0, <1>2, <2>1, <2>2, <2>3, StableEnds DEF EndsSoFar
<1>5. CASE bfs_try
  <2>1. PICK n \in tmp_sequences : Satisfy(api_sequences[n], next_fun, "bfs")
    BY <1>5 DEF bfs_try
  <2>2. /\ api_sequences[n] \in ApiSequences /\ NoEnd(api_sequences[n])
    BY <1>1, <1>2, <2>1 DEF TypeOK, EndsSoFar
  <2>3. NoEnd(new_sequence')
    BY <2>1, <2>2, SatisfyEnd
  <2>4. pc' = "param" /\ UNCHANGED <<api_sequences, tmp_sequences>>
    BY <1>5, <2>1 DEF bfs_try, Satisfy
  <2>5. EndsLast'
    BY <1>0, <1>2, <2>4 DEF EndsLast, Generated
  <2> QED BY <1>0, <1>2, <2>3, <2>4, <2>5, StableEnds DEF EndsSoFar
<1>6. CASE bfs_return
  <2>1. pc' = "extend" /\ UNCHANGED tmp_sequences
    BY <1>6 DEF bfs_return
  <2>2. /\ EndsLast'
        /\ \A n \in DOMAIN api_sequences : api_sequences'[n] = api_sequences[n]
    <3>1. CASE pc = "some"
      BY <1>0, <1>6, <3>1, PushEnds DEF bfs_return
    <3>2. CASE pc # "some"
      <4>1. UNCHANGED api_sequences
        BY <1>6, <3>2 DEF bfs_return
      <4> QED BY <1>0, <1>2, <4>1 DEF EndsLast, Generated
    <3> QED BY <3>1, <3>2
  <2> QED BY <1>0, <1>1, <1>2, <2>1, <2>2, StableEnds DEF EndsSoFar, TypeOK
<1>7. CASE bfs_skip \/ bfs_next_sequence \/ bfs_next_level \/ bfs_end
  <2>1. /\ pc' \in {"extend", "level", "cover", "done"}
        /\ UNCHANGED api_sequences /\ tmp_sequences' \subseteq tmp_sequences
    BY <1>7 DEF bfs_skip, bfs_next_sequence, bfs_next_level, bfs_end
  <2>2. EndsLast'
    BY <1>0, <1>2, <2>1 DEF EndsLast, Generated
  <2> QED BY <1>0, <1>2, <2>1, <2>2, StableEnds DEF EndsSoFar
<1> QED BY <1>3, <1>4, <1>5, <1>6, <1>7 DEF Bfs

LEMMA CoverEnd ==
    ASSUME LinkInv, StopAtEnd, EndsLast, EndsSoFar, Cover
    PROVE  EndsLast' /\ EndsSoFar'
<1> USE DEF graphVars, resultVars, satVars, bfsVars, roundVars, mergeVars,
            coverVars
<1>0. UNCHANGED <<api_functions, tmp_sequences>>
  BY DEF Cover, cover_start, cover_round, cover_skip, cover_node,
         merge_sequences, cover_try, cover_return, cover_end_round, cover_end
<1>1. TypeOK
  BY DEF LinkInv, TypeInv
<1>2. EndsLast /\ EndsSoFar
  OBVIOUS
<1>3. ASSUME UNCHANGED api_sequences PROVE EndsLast'
  BY <1>0, <1>2, <1>3 DEF EndsLast, Generated
<1>4. CASE cover_round
  <2>1. /\ candidates' = choose_candidate_sequence_for_merge
        /\ pc' = "node" /\ UNCHANGED <<api_sequences, dependents>>
    BY <1>4 DEF cover_round
  <2>2. \A n \in candidates' : NoEnd(api_sequences[n])
    BY <2>1, GeneratedEnds DEF choose_candidate_sequence_for_merge
  <2> QED BY <1>0, <1>2, <1>3, <2>1, <2>2, StableEnds DEF EndsSoFar
<1>5. ASSUME NEW f \in todo, cover_node(f) PROVE EndsLast' /\ EndsSoFar'
  <2>1. /\ pc' = "merge" /\ UNCHANGED <<api_sequences, candidates>>
        /\ new_sequence' = NewSequence /\ CanBeCovered(f)
        /\ dependents' = [k \in Needed(f) |-> ChosenSupplier(f, k)]
    BY <1>5 DEF cover_node
  <2>2. NoEnd(new_sequence')
    BY <2>1 DEF NoEnd, NewSequence
  <2>3. \A k \in Needed(f) : ChosenSupplier(f, k) \in candidates
    BY <1>1, <2>1, ChosenSupplierType DEF CanBeCovered, TypeOK
  <2>4. \A k \in DOMAIN dependents' : NoEnd(api_sequences[dependents'[k]])
    BY <1>2, <2>1, <2>3 DEF EndsSoFar
  <2> QED BY <1>0, <1>2, <1>3, <2>1, <2>2, <2>4, StableEnds DEF EndsSoFar
<1>6. CASE merge_sequences
  <2>1. PICK k \in to_merge :
           new_sequence' =
                IF to_merge = DOMAIN dependents
                THEN api_sequences[dependents[k]]
                ELSE MergeAnother(new_sequence, api_sequences[dependents[k]])
    BY <1>6 DEF merge_sequences
  <2> DEFINE s == api_sequences[dependents[k]]
  <2>2. pc = "merge" /\ pc' = "merge" /\ UNCHANGED <<api_sequences, candidates, dependents>>
    BY <1>6 DEF merge_sequences
  <2>3. s \in ApiSequences /\ NoEnd(s) /\ new_sequence \in ApiSequences
        /\ NoEnd(new_sequence)
    BY <1>1, <1>2, <2>1, <2>2 DEF TypeOK, EndsSoFar
  <2>4. NoEnd(MergeAnother(new_sequence, s))
    <3> HIDE DEF s
    <3> QED BY <2>3, MergeNoEnd
  <2>5. NoEnd(new_sequence')
    BY <2>1, <2>3, <2>4
  <2> QED BY <1>0, <1>2, <1>3, <2>2, <2>5, StableEnds DEF EndsSoFar
<1>7. CASE cover_try
  <2>1. /\ Satisfy(new_sequence, api_call.func, "cover")
        /\ pc = "merge" /\ pc' = "param"
        /\ UNCHANGED <<api_sequences, candidates, dependents>>
    BY <1>7 DEF cover_try, Satisfy
  <2>2. new_sequence \in ApiSequences /\ NoEnd(new_sequence)
    BY <1>1, <1>2, <2>1 DEF TypeOK, EndsSoFar
  <2>3. NoEnd(new_sequence')
    BY <2>1, <2>2, SatisfyEnd
  <2> QED BY <1>0, <1>2, <1>3, <2>1, <2>3, StableEnds DEF EndsSoFar
<1>8. CASE cover_return
  <2>1. pc' = "node" /\ UNCHANGED <<candidates, dependents>>
    BY <1>8 DEF cover_return
  <2>2. /\ EndsLast'
        /\ \A n \in DOMAIN api_sequences : api_sequences'[n] = api_sequences[n]
    <3>1. CASE pc = "some"
      BY <1>0, <1>8, <3>1, PushEnds DEF cover_return
    <3>2. CASE pc # "some"
      BY <1>3, <1>8, <3>2 DEF cover_return
    <3> QED BY <3>1, <3>2
  <2> QED BY <1>0, <1>1, <1>2, <2>1, <2>2, StableEnds DEF EndsSoFar, TypeOK
<1>9. CASE \/ cover_start \/ cover_end_round \/ cover_end
           \/ \E f \in todo : cover_skip(f)
  <2>1. /\ pc' \in {"round", "node", "done"}
        /\ UNCHANGED <<api_sequences, candidates, dependents>>
    BY <1>9 DEF cover_start, cover_end_round, cover_end, cover_skip
  <2> QED BY <1>0, <1>2, <1>3, <2>1, StableEnds DEF EndsSoFar
<1> QED BY <1>4, <1>5, <1>6, <1>7, <1>8, <1>9 DEF Cover

LEMMA StutterEnd ==
    ASSUME EndsLast, EndsSoFar, UNCHANGED vars
    PROVE  EndsLast' /\ EndsSoFar'
<1> USE DEF vars, graphVars, resultVars, satVars, bfsVars, roundVars,
            mergeVars, coverVars
<1> QED BY DEF EndsLast, EndsSoFar, Generated, NoEnd

\* EndInv is inductive.
LEMMA EndStep == EndInv /\ [Next]_vars => EndInv'
<1> SUFFICES ASSUME EndInv, [Next]_vars
             PROVE  LinkInv' /\ (StopAtEnd => EndsLast' /\ EndsSoFar')
  BY DEF EndInv
<1>1. LinkInv /\ (StopAtEnd => EndsLast /\ EndsSoFar)
  BY DEF EndInv
<1>2. LinkInv'
  BY <1>1, LinkStep
<1> QED BY <1>1, <1>2, CollectEnd, IsFunSatisfiedEnd, BfsEnd, CoverEnd, StutterEnd
        DEF Next, Terminated

\* Only the last call of a target is an end function: neither bfs nor the
\* merges of the backward search go on behind one.
THEOREM EndFunctionsAreLast == Spec => []EndFunctionOnlyLast
<1>1. EndInv => EndFunctionOnlyLast
  BY DEF EndInv, EndFunctionOnlyLast
<1> QED BY <1>1, InitEnd, EndStep, PTL DEF Spec

-----------------------------------------------------------------------------
(* No target twice                                                         *)

\* Two sequences with the same chain.
LEMMA SameChain ==
    ASSUME NEW s \in ApiSequences, NEW t \in ApiSequences, Chain(s) = Chain(t)
    PROVE  /\ Len(s.functions) = Len(t.functions)
           /\ \A c \in DOMAIN s.functions : s.functions[c].func = t.functions[c].func
<1>1. s.functions \in Seq(ApiCalls) /\ t.functions \in Seq(ApiCalls)
  BY SequenceFields
<1>2. DOMAIN s.functions = DOMAIN t.functions
  <2>1. DOMAIN Chain(s) = DOMAIN s.functions /\ DOMAIN Chain(t) = DOMAIN t.functions
    BY DEF Chain
  <2> QED BY <2>1
<1>3. \A c \in DOMAIN s.functions : s.functions[c].func = t.functions[c].func
  <2>1. \A c \in DOMAIN s.functions : Chain(s)[c] = s.functions[c].func
    BY DEF Chain
  <2>2. \A c \in DOMAIN t.functions : Chain(t)[c] = t.functions[c].func
    BY DEF Chain
  <2> QED BY <1>2, <2>1, <2>2
<1>4. Len(s.functions) = Len(t.functions)
  <2>1. /\ Len(s.functions) \in Nat /\ DOMAIN s.functions = 1 .. Len(s.functions)
        /\ Len(t.functions) \in Nat /\ DOMAIN t.functions = 1 .. Len(t.functions)
    BY <1>1
  <2> DEFINE m == Len(s.functions)
             n == Len(t.functions)
  <2>2. m \in Nat /\ n \in Nat /\ 1 .. m = 1 .. n
    BY <1>2, <2>1
  <2> HIDE DEF m, n
  <2>3. /\ m > 0 => m \in 1 .. n
        /\ n > 0 => n \in 1 .. m
    BY <2>2
  <2>4. m = n
    BY <2>2, <2>3
  <2> QED BY <2>4 DEF m, n
<1> QED BY <1>3, <1>4

LEMMA ChainSame ==
    ASSUME NEW s \in ApiSequences, NEW t \in ApiSequences,
           Len(s.functions) = Len(t.functions),
           \A c \in DOMAIN s.functions : s.functions[c].func = t.functions[c].func
    PROVE  Chain(s) = Chain(t)
<1>1. s.functions \in Seq(ApiCalls) /\ t.functions \in Seq(ApiCalls)
  BY SequenceFields
<1>2. DOMAIN s.functions = DOMAIN t.functions
  BY <1>1
<1> QED BY <1>2 DEF Chain

\* The last call of a sequence.
LEMMA LastCall ==
    ASSUME NEW s \in ApiSequences
    PROVE  /\ s.functions \in Seq(ApiCalls)
           /\ Len(s.functions) \in Nat
           /\ DOMAIN s.functions = 1 .. Len(s.functions)
           /\ s.functions # <<>> <=> Len(s.functions) > 0
           /\ s.functions # <<>> =>
                /\ last_api_func_index(s) \in Nat
                /\ last_api_func_index(s) = s.functions[Len(s.functions)].func
<1>1. s.functions \in Seq(ApiCalls)
  BY SequenceFields
<1>2. s.functions # <<>> <=> Len(s.functions) > 0
  BY <1>1
<1>3. ASSUME s.functions # <<>> PROVE s.functions[Len(s.functions)].func \in Nat
  <2>1. s.functions[Len(s.functions)] \in ApiCalls
    BY <1>1, <1>3
  <2> QED BY <2>1 DEF ApiCalls
<1> QED BY <1>1, <1>2, <1>3 DEF last_api_func_index

\* What bfs accepts is the first sequence left and the function it is trying.
LEMMA BfsAccepts ==
    ASSUME UniqueInv, pc = "some", caller \in {"bfs", "deep"}
    PROVE  /\ new_sequence \in ApiSequences
           /\ \E n \in tmp_sequences :
                /\ FirstOf(n) /\ n \in DOMAIN api_sequences
                /\ Len(api_sequences[n].functions) = len
                /\ OneCallMore(new_sequence, api_sequences[n])
           /\ Len(new_sequence.functions) = len + 1
           /\ last_api_func_index(new_sequence) = api_call.func
           /\ next_fun = api_call.func + 1 /\ api_call.func \in Nat /\ len \in Nat
<1>1. TypeOK
  BY DEF UniqueInv, VisitInv, LinkInv, TypeInv
<1>2. LevelsSoFar /\ InBfs /\ Satisfying
  BY DEF UniqueInv, InBfs, Satisfying
<1>3. PICK n \in tmp_sequences :
         /\ FirstOf(n)
         /\ new_sequence.functions = Append(api_sequences[n].functions, api_call)
  BY <1>2 DEF LevelsSoFar
<1>4. /\ n \in DOMAIN api_sequences /\ api_sequences[n] \in ApiSequences
      /\ Len(api_sequences[n].functions) = len
  BY <1>1, <1>2, <1>3 DEF LevelsSoFar, TypeOK
<1> DEFINE x == api_sequences[n].functions
           y == new_sequence.functions
<1>5. x \in Seq(ApiCalls) /\ y = Append(x, api_call) /\ Len(x) = len
  BY <1>3, <1>4, SequenceFields
<1> HIDE DEF x, y
<1>6. /\ Len(y) = Len(x) + 1 /\ y[Len(y)] = api_call
      /\ \A c \in DOMAIN x : y[c] = x[c]
  BY <1>5
<1>7. OneCallMore(new_sequence, api_sequences[n])
  BY <1>6 DEF OneCallMore, x, y
<1>8. last_api_func_index(new_sequence) = api_call.func
  BY <1>6 DEF y, last_api_func_index
<1>9. Len(new_sequence.functions) = len + 1
  BY <1>5, <1>6 DEF y
<1>10. next_fun = api_call.func + 1 /\ api_call.func \in Nat /\ len \in Nat
  BY <1>1, <1>2 DEF LevelsSoFar, TypeOK, ApiCalls
<1> QED BY <1>1, <1>3, <1>4, <1>7, <1>8, <1>9, <1>10 DEF TypeOK

\* An accepted sequence differs from those that are there.
LEMMA PushIsNew ==
    ASSUME UniqueInv, pc = "some", NEW m \in DOMAIN api_sequences
    PROVE  Chain(api_sequences[m]) # Chain(new_sequence)
<1> SUFFICES ASSUME Chain(api_sequences[m]) = Chain(new_sequence) PROVE FALSE
  OBVIOUS
<1> DEFINE s == api_sequences[m]
           t == new_sequence
<1>1. TypeOK /\ VisitInv
  BY DEF UniqueInv, VisitInv, LinkInv, TypeInv
<1>2. /\ s \in ApiSequences /\ t \in ApiSequences
      /\ caller \in {"bfs", "cover", "deep"}
  BY <1>1 DEF TypeOK, UniqueInv, Callers, DefaultCallers
<1>3. t.functions # <<>> /\ last_api_func_index(t) = api_call.func
  BY <1>1 DEF VisitInv, VisitedSoFar
<1>4. Chain(s) = Chain(t)
  OBVIOUS
<1> HIDE DEF s, t
<1>5. /\ Len(s.functions) = Len(t.functions)
      /\ \A c \in DOMAIN s.functions : s.functions[c].func = t.functions[c].func
  BY <1>2, <1>4, SameChain
<1>6. s.functions # <<>> /\ last_api_func_index(s) = api_call.func
  <2>1. Len(t.functions) > 0 /\ Len(t.functions) \in Nat
    BY <1>2, <1>3, LastCall
  <2>2. s.functions # <<>> /\ Len(s.functions) \in DOMAIN s.functions
    BY <1>2, <1>5, <2>1, LastCall
  <2> QED BY <1>3, <1>5, <2>2 DEF last_api_func_index
<1>7. CASE caller = "cover"
  BY <1>1, <1>6, <1>7, PushIsFirst DEF s
<1>8. CASE caller \in {"bfs", "deep"}
  <2>1. PICK n0 \in tmp_sequences :
           /\ n0 \in DOMAIN api_sequences
           /\ Len(api_sequences[n0].functions) = len
           /\ OneCallMore(t, api_sequences[n0])
    BY <1>8, BfsAccepts DEF t
  <2>2. Len(t.functions) = len + 1 /\ next_fun = api_call.func + 1
        /\ api_call.func \in Nat /\ len \in Nat
    BY <1>8, BfsAccepts DEF t
  <2>3. PICK n \in DOMAIN api_sequences :
           /\ OneCallMore(s, api_sequences[n])
           /\ n \in tmp_sequences => last_api_func_index(s) < next_fun - 1
    BY <1>5, <1>8, <2>2 DEF UniqueInv, LevelsSoFar, InBfs, Satisfying, s
  <2> DEFINE u == api_sequences[n]
             v == api_sequences[n0]
  <2>4. u \in ApiSequences /\ v \in ApiSequences
    BY <1>1, <2>1, <2>3 DEF TypeOK
  <2>5. OneCallMore(s, u) /\ OneCallMore(t, v) /\ Len(v.functions) = len
    BY <2>1, <2>3
  <2> HIDE DEF u, v
  <2>6. Len(u.functions) = len
    <3>1. Len(u.functions) \in Nat
      BY <2>4, LastCall
    <3> QED BY <1>5, <2>2, <2>5, <3>1 DEF OneCallMore
  <2>7. \A c \in DOMAIN u.functions : u.functions[c].func = v.functions[c].func
    <3>1. DOMAIN u.functions = 1 .. len /\ DOMAIN v.functions = 1 .. len
          /\ DOMAIN s.functions = 1 .. len + 1
      BY <1>2, <1>5, <2>2, <2>4, <2>5, <2>6, LastCall
    <3>2. \A c \in 1 .. len : c \in 1 .. len + 1
      BY <2>2
    <3> QED BY <1>5, <2>5, <3>1, <3>2 DEF OneCallMore
  <2>8. Chain(u) = Chain(v)
    BY <2>4, <2>5, <2>6, <2>7, ChainSame
  <2>9. n = n0
    BY <2>1, <2>3, <2>8 DEF UniqueInv, NoDuplicateTargets, u, v
  <2> QED BY <1>6, <2>2, <2>3, <2>9
<1> QED BY <1>2, <1>7, <1>8

LEMMA NoDuplicateStep ==
    ASSUME UniqueInv,
           \/ UNCHANGED api_sequences
           \/ api_sequences' = <<>> \/ api_sequences' = <<NewSequence>>
           \/ pc = "some" /\ PushNewSequence
    PROVE  NoDuplicateTargets'
<1>1. CASE UNCHANGED api_sequences
  BY <1>1 DEF UniqueInv, NoDuplicateTargets
<1>2. CASE api_sequences' = <<>> \/ api_sequences' = <<NewSequence>>
  BY <1>2 DEF NoDuplicateTargets
<1>3. CASE pc = "some" /\ PushNewSequence
  <2>1. TypeOK /\ NoDuplicateTargets
    BY DEF UniqueInv, VisitInv, LinkInv, TypeInv
  <2>2. \A m \in DOMAIN api_sequences : Chain(api_sequences[m]) # Chain(new_sequence)
    BY <1>3, PushIsNew
  <2> SUFFICES ASSUME NEW m \in DOMAIN api_sequences', NEW n \in DOMAIN api_sequences',
                      Chain(api_sequences'[m]) = Chain(api_sequences'[n])
               PROVE  m = n
    BY DEF NoDuplicateTargets
  <2> DEFINE k == Len(api_sequences) + 1
  <2>3. /\ DOMAIN api_sequences' = DOMAIN api_sequences \cup {k}
        /\ api_sequences'[k] = new_sequence
        /\ \A i \in DOMAIN api_sequences : api_sequences'[i] = api_sequences[i]
    BY <1>3, <2>1, PushedAt
  <2> HIDE DEF k
  <2>4. CASE m \in DOMAIN api_sequences /\ n \in DOMAIN api_sequences
    BY <2>1, <2>3, <2>4 DEF NoDuplicateTargets
  <2>5. CASE m \in DOMAIN api_sequences /\ n = k
    BY <2>2, <2>3, <2>5
  <2>6. CASE m = k /\ n \in DOMAIN api_sequences
    BY <2>2, <2>3, <2>6
  <2> QED BY <2>3, <2>4, <2>5, <2>6
<1> QED BY <1>1, <1>2, <1>3

LEMMA InitUnique == Init => UniqueInv
<1> SUFFICES ASSUME Init PROVE UniqueInv
  OBVIOUS
<1>1. VisitInv
  BY InitVisit
<1>2. pc = "collect" /\ caller = "bfs" /\ DOMAIN api_sequences = {}
  BY DEF Init
<1> QED BY <1>1, <1>2 DEF UniqueInv, NoDuplicateTargets, LevelsSoFar, InBfs, Satisfying

\* is_fun_satisfied
LEMMA IsFunSatisfiedLevels ==
    ASSUME UniqueInv, IsFunSatisfied
    PROVE  LevelsSoFar'
<1> USE DEF graphVars, resultVars, satVars, bfsVars, roundVars, mergeVars,
            coverVars
<1>1. TypeOK
  BY DEF UniqueInv, VisitInv, LinkInv, TypeInv
<1>2. /\ UNCHANGED <<api_sequences, tmp_sequences, next_fun, len, caller>>
      /\ pc = "param" /\ pc' \in {"param", "some", "none"}
  BY DEF IsFunSatisfied, return_param, TakeReturn, fuzzable_param,
         refuse_param, add_fn
<1>3. api_call'.func = api_call.func
  BY <1>1 DEF IsFunSatisfied, return_param, TakeReturn, fuzzable_param,
              refuse_param, add_fn, TypeOK, ApiCalls
<1>4. pc' = "param" => new_sequence'.functions = new_sequence.functions
  BY <1>1 DEF IsFunSatisfied, return_param, TakeReturn, WithReturn,
       fuzzable_param, refuse_param, add_fn, TypeOK, ApiSequences
<1>5. ASSUME pc' = "some"
      PROVE  /\ new_sequence'.functions = Append(new_sequence.functions, api_call)
             /\ api_call' = api_call
  <2>1. add_fn
    BY <1>2, <1>5 DEF IsFunSatisfied, return_param, TakeReturn, fuzzable_param,
                      refuse_param
  <2> QED BY <1>1, <2>1 DEF add_fn, TypeOK, ApiSequences
<1> SUFFICES ASSUME InBfs' PROVE LevelsSoFar'
  BY DEF LevelsSoFar
<1>6. InBfs /\ Satisfying /\ LevelsSoFar
  BY <1>2 DEF InBfs, Satisfying, UniqueInv
<1>7. PICK n \in tmp_sequences :
         FirstOf(n) /\ new_sequence.functions = api_sequences[n].functions
  BY <1>2, <1>6 DEF LevelsSoFar
<1>8. pc' \in {"param", "some"} =>
        (FirstOf(n) /\ new_sequence.functions =
           IF pc = "param" THEN api_sequences[n].functions
           ELSE Append(api_sequences[n].functions, api_call))'
  BY <1>2, <1>4, <1>5, <1>7 DEF FirstOf
<1>9. \A i : FirstOf(i)' <=> FirstOf(i)
  BY <1>2 DEF FirstOf
<1> QED BY <1>2, <1>3, <1>6, <1>7, <1>8, <1>9 DEF LevelsSoFar

\* The numbers and sequences that the levels are about.
LEMMA LevelTypes ==
    ASSUME TypeOK
    PROVE  /\ len \in Nat /\ next_fun \in Nat
           /\ tmp_sequences \subseteq DOMAIN api_sequences
           /\ \A m \in DOMAIN api_sequences :
                /\ api_sequences[m] \in ApiSequences /\ m \in Nat
                /\ Len(api_sequences[m].functions) \in Nat
                /\ Len(api_sequences[m].functions) > 0 =>
                     last_api_func_index(api_sequences[m]) \in Nat
BY LastCall DEF TypeOK

\* The steps of a search by levels, as bfs and the deep bfs take them.
StartLevels ==
    /\ pc' = "level" => len' = 0
    /\ pc' \notin {"extend", "param", "some", "none"}
    /\ api_sequences' = <<>> \/ api_sequences' = <<NewSequence>>

EnterLevel ==
    /\ pc = "level" /\ pc' = "extend" /\ UNCHANGED <<api_sequences, len>>
    /\ \A n \in tmp_sequences' :
         n \in DOMAIN api_sequences /\ Len(api_sequences[n].functions) = len

TryFunction(who) ==
    /\ pc = "extend" /\ next_fun' = next_fun + 1
    /\ UNCHANGED <<api_sequences, len, tmp_sequences>>
    /\ \E n \in tmp_sequences :
         FirstOf(n) /\ Satisfy(api_sequences[n], next_fun, who)

ReturnToLevel ==
    /\ pc \in {"some", "none"} /\ caller \in {"bfs", "deep"} /\ pc' = "extend"
    /\ UNCHANGED <<len, tmp_sequences, next_fun>>
    /\ pc = "some" => PushNewSequence
    /\ pc = "none" => UNCHANGED api_sequences

LeaveLevel ==
    /\ pc = "extend" /\ pc' = "level" /\ len' = len + 1
    /\ tmp_sequences = {} /\ UNCHANGED <<api_sequences, tmp_sequences>>

LEMMA StartLevelsStep ==
    ASSUME StartLevels
    PROVE  LevelsSoFar'
<1>1. \A m \in DOMAIN api_sequences' : Len(api_sequences'[m].functions) = 0
  BY DEF StartLevels, NewSequence
<1>2. CASE pc' # "level"
  BY <1>2 DEF StartLevels, LevelsSoFar, InBfs, Satisfying
<1>3. CASE pc' = "level"
  <2>1. \A m \in DOMAIN api_sequences' :
          /\ Len(api_sequences'[m].functions) <= len'
          /\ Len(api_sequences'[m].functions) # len' + 1
    BY <1>1, <1>3 DEF StartLevels
  <2> QED BY <1>3, <2>1 DEF LevelsSoFar, Satisfying
<1> QED BY <1>2, <1>3

LEMMA EnterLevelStep ==
    ASSUME TypeOK, LevelsSoFar, EnterLevel
    PROVE  LevelsSoFar'
<1>1. \A m \in DOMAIN api_sequences : Len(api_sequences[m].functions) <= len
  BY DEF EnterLevel, LevelsSoFar, InBfs
<1>2. \A m \in DOMAIN api_sequences : /\ Len(api_sequences[m].functions) <= len + 1
                                      /\ Len(api_sequences[m].functions) # len + 1
  BY <1>1, LevelTypes
<1> QED BY <1>2 DEF EnterLevel, LevelsSoFar, Satisfying

LEMMA TryFunctionStep ==
    ASSUME TypeOK, LevelsSoFar, NEW who, TryFunction(who)
    PROVE  LevelsSoFar'
<1>1. PICK n \in tmp_sequences :
         FirstOf(n) /\ Satisfy(api_sequences[n], next_fun, who)
  BY DEF TryFunction
<1>2. /\ pc = "extend" /\ pc' = "param"
      /\ api_call'.func = next_fun /\ next_fun' = next_fun + 1
      /\ UNCHANGED <<api_sequences, len, tmp_sequences>>
  BY <1>1 DEF TryFunction, Satisfy, ApiCall
<1>3. new_sequence'.functions = api_sequences[n].functions
  <2>1. api_sequences[n] \in ApiSequences
    BY LevelTypes
  <2> QED BY <1>1, <2>1 DEF Satisfy, ApiSequences
<1>4. \A i : FirstOf(i)' <=> FirstOf(i)
  BY <1>2 DEF FirstOf
<1>5. next_fun' - 1 = next_fun
  BY <1>2, LevelTypes
<1>6. InBfs /\ pc # "level"
  BY <1>2 DEF InBfs
<1>7. (\E i \in tmp_sequences :
           /\ FirstOf(i)
           /\ new_sequence.functions =
                IF pc = "param" THEN api_sequences[i].functions
                ELSE Append(api_sequences[i].functions, api_call))'
  BY <1>1, <1>2, <1>3, <1>4
<1> QED BY <1>2, <1>4, <1>5, <1>6, <1>7 DEF LevelsSoFar

LEMMA ReturnToLevelStep ==
    ASSUME UniqueInv, ReturnToLevel
    PROVE  LevelsSoFar'
<1>1. /\ pc' = "extend" /\ pc \in {"some", "none"} /\ caller \in {"bfs", "deep"}
      /\ UNCHANGED <<len, tmp_sequences, next_fun>>
  BY DEF ReturnToLevel
<1>a. TypeOK /\ LevelsSoFar
  BY DEF UniqueInv, VisitInv, LinkInv, TypeInv
<1>b. len \in Nat /\ next_fun \in Nat
      /\ \A m \in DOMAIN api_sequences :
           /\ Len(api_sequences[m].functions) \in Nat
           /\ Len(api_sequences[m].functions) > 0 =>
                last_api_func_index(api_sequences[m]) \in Nat
  BY <1>a, LevelTypes
<1>2. \A i : FirstOf(i)' <=> FirstOf(i)
  BY <1>1 DEF FirstOf
<1>3. InBfs /\ Satisfying
  BY <1>1 DEF InBfs, Satisfying
<1>4. \A m \in DOMAIN api_sequences :
         Len(api_sequences[m].functions) = len + 1 =>
           \E n \in DOMAIN api_sequences :
             /\ OneCallMore(api_sequences[m], api_sequences[n])
             /\ n \in tmp_sequences =>
                  /\ FirstOf(n)
                  /\ last_api_func_index(api_sequences[m]) < next_fun
  <2>1. ASSUME NEW m \in DOMAIN api_sequences,
               Len(api_sequences[m].functions) = len + 1
        PROVE  \E n \in DOMAIN api_sequences :
                 /\ OneCallMore(api_sequences[m], api_sequences[n])
                 /\ n \in tmp_sequences =>
                      /\ FirstOf(n)
                      /\ last_api_func_index(api_sequences[m]) < next_fun
    <3>1. PICK n \in DOMAIN api_sequences :
             /\ OneCallMore(api_sequences[m], api_sequences[n])
             /\ n \in tmp_sequences =>
                  /\ FirstOf(n)
                  /\ last_api_func_index(api_sequences[m]) < next_fun - 1
      BY <1>a, <1>1, <1>3, <2>1 DEF LevelsSoFar
    <3>2. last_api_func_index(api_sequences[m]) \in Nat
      BY <1>b, <2>1
    <3> QED BY <1>b, <3>1, <3>2
  <2> QED BY <2>1
<1>5. /\ \A m \in DOMAIN api_sequences : Len(api_sequences[m].functions) <= len + 1
      /\ \A n \in tmp_sequences : Len(api_sequences[n].functions) = len
      /\ tmp_sequences \subseteq DOMAIN api_sequences
  BY <1>a, <1>1, <1>3 DEF LevelsSoFar, TypeOK
<1>6. CASE pc = "some"
  <2>1. PushNewSequence
    BY <1>6 DEF ReturnToLevel
  <2> DEFINE k == Len(api_sequences) + 1
  <2>2. /\ DOMAIN api_sequences' = DOMAIN api_sequences \cup {k}
        /\ api_sequences'[k] = new_sequence
        /\ \A i \in DOMAIN api_sequences : api_sequences'[i] = api_sequences[i]
    BY <1>a, <2>1, PushedAt
  <2> HIDE DEF k
  <2>3. PICK n0 \in tmp_sequences :
           FirstOf(n0) /\ n0 \in DOMAIN api_sequences
           /\ OneCallMore(new_sequence, api_sequences[n0])
    BY <1>1, <1>6, BfsAccepts
  <2>4. Len(new_sequence.functions) = len + 1
        /\ last_api_func_index(new_sequence) < next_fun
    <3>1. Len(new_sequence.functions) = len + 1
          /\ last_api_func_index(new_sequence) = api_call.func
          /\ next_fun = api_call.func + 1 /\ api_call.func \in Nat
      BY <1>1, <1>6, BfsAccepts
    <3> QED BY <3>1
  <2>5. \A m \in DOMAIN api_sequences' : Len(api_sequences'[m].functions) <= len + 1
    BY <1>b, <1>5, <2>2, <2>4
  <2>6. \A n \in tmp_sequences : Len(api_sequences'[n].functions) = len
    BY <1>5, <2>2
  <2>7. ASSUME NEW m \in DOMAIN api_sequences',
               Len(api_sequences'[m].functions) = len + 1
        PROVE  \E n \in DOMAIN api_sequences' :
                 /\ OneCallMore(api_sequences'[m], api_sequences'[n])
                 /\ n \in tmp_sequences =>
                      /\ FirstOf(n)
                      /\ last_api_func_index(api_sequences'[m]) < next_fun
    <3>1. CASE m \in DOMAIN api_sequences
      <4>1. PICK n \in DOMAIN api_sequences :
             /\ OneCallMore(api_sequences[m], api_sequences[n])
             /\ n \in tmp_sequences =>
                  /\ FirstOf(n)
                  /\ last_api_func_index(api_sequences[m]) < next_fun
        BY <1>4, <2>2, <2>7, <3>1
      <4> QED BY <2>2, <3>1, <4>1
    <3>2. CASE m = k
      BY <2>2, <2>3, <2>4, <3>2
    <3> QED BY <2>2, <3>1, <3>2
  <2> QED BY <1>1, <1>2, <2>5, <2>6, <2>7 DEF LevelsSoFar, Satisfying
<1>7. CASE pc = "none"
  <2>1. UNCHANGED api_sequences
    BY <1>7 DEF ReturnToLevel
  <2> QED BY <1>1, <1>2, <1>4, <1>5, <2>1 DEF LevelsSoFar, Satisfying
<1> QED BY <1>1, <1>6, <1>7

LEMMA NextSequenceStep ==
    ASSUME TypeOK, LevelsSoFar, bfs_next_sequence
    PROVE  LevelsSoFar'
<1>a. TypeOK /\ LevelsSoFar
  OBVIOUS
<1>b. \A m \in DOMAIN api_sequences : m \in Nat
  BY LevelTypes
<1>1. PICK n0 \in tmp_sequences : FirstOf(n0) /\ tmp_sequences' = tmp_sequences \ {n0}
  BY DEF bfs_next_sequence
<1>2. /\ pc = "extend" /\ pc' = "extend" /\ UNCHANGED <<api_sequences, len>>
  BY DEF bfs_next_sequence, resultVars
<1>3. InBfs /\ tmp_sequences \subseteq Nat
  BY <1>a, <1>b, <1>2 DEF InBfs, TypeOK
<1>4. \A n \in tmp_sequences : FirstOf(n) => n = n0
  BY <1>1, <1>3 DEF FirstOf
<1>5. \A m \in DOMAIN api_sequences :
         Len(api_sequences[m].functions) = len + 1 =>
           \E n \in DOMAIN api_sequences :
             /\ OneCallMore(api_sequences[m], api_sequences[n])
             /\ n \notin tmp_sequences'
  BY <1>a, <1>1, <1>2, <1>3, <1>4 DEF LevelsSoFar
<1> QED BY <1>a, <1>1, <1>2, <1>3, <1>5 DEF LevelsSoFar, Satisfying

LEMMA LeaveLevelStep ==
    ASSUME TypeOK, LevelsSoFar, LeaveLevel
    PROVE  LevelsSoFar'
<1>1. /\ pc = "extend" /\ pc' = "level" /\ len' = len + 1
      /\ UNCHANGED <<api_sequences, tmp_sequences>>
  BY DEF LeaveLevel
<1>2. \A m \in DOMAIN api_sequences : Len(api_sequences[m].functions) <= len + 1
  BY <1>1 DEF LevelsSoFar, InBfs
<1>3. \A m \in DOMAIN api_sequences : Len(api_sequences[m].functions) # len' + 1
  BY <1>1, <1>2, LevelTypes
<1> QED BY <1>1, <1>2, <1>3 DEF LevelsSoFar, Satisfying

LEMMA BfsLevels ==
    ASSUME UniqueInv, Bfs
    PROVE  LevelsSoFar'
<1> USE DEF graphVars, resultVars, satVars, bfsVars, roundVars, mergeVars,
            coverVars
<1>1. TypeOK
  BY DEF UniqueInv, VisitInv, LinkInv, TypeInv
<1>2. LevelsSoFar
  BY DEF UniqueInv
<1>3. len \in Nat /\ next_fun \in Nat
      /\ \A m \in DOMAIN api_sequences :
           /\ api_sequences[m] \in ApiSequences /\ m \in Nat
           /\ Len(api_sequences[m].functions) \in Nat
           /\ Len(api_sequences[m].functions) > 0 =>
                last_api_func_index(api_sequences[m]) \in Nat
  BY <1>1, LevelTypes
<1>4. CASE bfs_start
  <2>1. StartLevels
    BY <1>4 DEF bfs_start, StartLevels
  <2> QED BY <2>1, StartLevelsStep
<1>5. CASE bfs_level
  <2>1. EnterLevel
    BY <1>5 DEF bfs_level, EnterLevel, ToExtend
  <2> QED BY <1>1, <1>2, <2>1, EnterLevelStep
<1>6. CASE bfs_try
  <2>1. TryFunction("bfs")
    BY <1>6 DEF bfs_try, TryFunction
  <2> QED BY <1>1, <1>2, <2>1, TryFunctionStep
<1>7. CASE bfs_skip
  <2>1. /\ pc = "extend" /\ pc' = "extend" /\ next_fun' = next_fun + 1
        /\ UNCHANGED <<api_sequences, len, tmp_sequences>>
    BY <1>7 DEF bfs_skip
  <2>2. \A i : FirstOf(i)' <=> FirstOf(i)
    BY <2>1 DEF FirstOf
  <2>3. InBfs
    BY <2>1 DEF InBfs
  <2>4. \A m \in DOMAIN api_sequences :
           Len(api_sequences[m].functions) = len + 1 =>
             \E n \in DOMAIN api_sequences :
               /\ OneCallMore(api_sequences[m], api_sequences[n])
               /\ n \in tmp_sequences =>
                    /\ FirstOf(n)
                    /\ last_api_func_index(api_sequences[m]) < next_fun + 1
    <3>1. ASSUME NEW m \in DOMAIN api_sequences,
                 Len(api_sequences[m].functions) = len + 1
          PROVE  \E n \in DOMAIN api_sequences :
                   /\ OneCallMore(api_sequences[m], api_sequences[n])
                   /\ n \in tmp_sequences =>
                        /\ FirstOf(n)
                        /\ last_api_func_index(api_sequences[m]) < next_fun + 1
      <4>1. PICK n \in DOMAIN api_sequences :
               /\ OneCallMore(api_sequences[m], api_sequences[n])
               /\ n \in tmp_sequences =>
                    /\ FirstOf(n)
                    /\ last_api_func_index(api_sequences[m]) < next_fun
        BY <1>2, <2>1, <2>3, <3>1 DEF LevelsSoFar
      <4>2. last_api_func_index(api_sequences[m]) \in Nat
        BY <1>3, <3>1
      <4> QED BY <1>3, <4>1, <4>2
    <3> QED BY <3>1
  <2> QED BY <1>2, <2>1, <2>2, <2>3, <2>4 DEF LevelsSoFar, Satisfying
<1>8. CASE bfs_return
  <2>1. ReturnToLevel
    BY <1>8 DEF bfs_return, ReturnToLevel
  <2> QED BY <2>1, ReturnToLevelStep
<1>9. CASE bfs_next_sequence
  BY <1>1, <1>2, <1>9, NextSequenceStep
<1>10. CASE bfs_next_level
  <2>1. LeaveLevel
    BY <1>10 DEF bfs_next_level, LeaveLevel
  <2> QED BY <1>1, <1>2, <2>1, LeaveLevelStep
<1>11. CASE bfs_end
  <2>1. pc' \in {"cover", "done"}
    BY <1>11 DEF bfs_end
  <2> QED BY <2>1 DEF LevelsSoFar, InBfs, Satisfying
<1> QED BY <1>4, <1>5, <1>6, <1>7, <1>8, <1>9, <1>10, <1>11 DEF Bfs

\* UniqueInv is inductive.
LEMMA UniqueStep == UniqueInv /\ [Next]_vars => UniqueInv'
<1> SUFFICES ASSUME UniqueInv, [Next]_vars PROVE UniqueInv'
  OBVIOUS
<1>1. VisitInv' /\ NoDuplicateTargets' /\ caller' # "walk"
  <2>1. bfs_start => api_sequences' = <<>> \/ api_sequences' = <<NewSequence>>
    BY DEF bfs_start
  <2> QED BY <2>1, VisitStep, ResultStep, NoDuplicateStep, CallerStep
          DEF UniqueInv, DefaultCallers
<1> USE DEF graphVars, resultVars, satVars, bfsVars, roundVars, mergeVars,
            coverVars
<1>2. CASE Collect
  <2>1. pc' \in {"collect", "filter", "bfs"}
    BY <1>2 DEF Collect, add_api_function, filter_start, filter_function,
       find_all_dependencies, UniqueInv, VisitInv, LinkInv, TypeInv, TypeOK
  <2>2. LevelsSoFar'
    BY <2>1 DEF LevelsSoFar, InBfs, Satisfying
  <2> QED BY <1>1, <2>2 DEF UniqueInv
<1>3. CASE IsFunSatisfied
  BY <1>1, <1>3, IsFunSatisfiedLevels DEF UniqueInv
<1>4. CASE Bfs
  BY <1>1, <1>4, BfsLevels DEF UniqueInv
<1>5. CASE Cover
  <2>1. \/ pc' \in {"round", "node", "merge", "done"}
        \/ pc' = "param" /\ caller' = "cover"
    <3>1. CASE \E f \in todo : cover_skip(f) \/ cover_node(f)
      BY <3>1 DEF cover_skip, cover_node
    <3>2. CASE merge_sequences
      BY <3>2 DEF merge_sequences
    <3>3. CASE cover_try
      BY <3>3 DEF cover_try, Satisfy
    <3>4. CASE cover_start \/ cover_round \/ cover_return \/ cover_end_round \/ cover_end
      BY <3>4 DEF cover_start, cover_round, cover_return, cover_end_round, cover_end
    <3> QED BY <1>5, <3>1, <3>2, <3>3, <3>4 DEF Cover
  <2>2. LevelsSoFar'
    BY <2>1 DEF LevelsSoFar, InBfs, Satisfying
  <2> QED BY <1>1, <2>2 DEF UniqueInv
<1>6. CASE UNCHANGED vars
  <2>1. LevelsSoFar'
    BY <1>6 DEF vars, UniqueInv, LevelsSoFar, InBfs, Satisfying, FirstOf
  <2> QED BY <1>1, <2>1 DEF UniqueInv
<1> QED BY <1>2, <1>3, <1>4, <1>5, <1>6 DEF Next, Terminated

\* Two generated targets differ in the functions they call, whichever search
\* made them.
THEOREM TargetsAreUnique == Spec => []NoDuplicateTargets
<1>1. UniqueInv => NoDuplicateTargets
  BY DEF UniqueInv
<1> QED BY <1>1, InitUnique, UniqueStep, PTL DEF Spec

-----------------------------------------------------------------------------
(* Callable functions                                                      *)

\* A linked sequence calls nothing that cannot be called: the first call that
\* did would have all its values from calls that can be.
LEMMA LinkedCallable ==
    ASSUME NEW s \in ApiSequences, Linked(s), NEW c \in DOMAIN s.functions
    PROVE  s.functions[c].func \in Callable
<1> DEFINE Bad == {d \in DOMAIN s.functions : s.functions[d].func \notin Callable}
<1> SUFFICES ASSUME Bad # {} PROVE FALSE
  OBVIOUS
<1>1. s.functions \in Seq(ApiCalls)
  BY SequenceFields
<1>2. Bad \subseteq Nat
  BY <1>1
<1>3. PICK d \in Bad : \A e \in Bad : d <= e
  <2> HIDE DEF Bad
  <2> QED BY <1>2, LeastExists
<1> DEFINE f == s.functions[d].func
<1>4. LinkedCall(s, d) /\ d \in DOMAIN s.functions /\ f \notin Callable
  BY <1>3 DEF Linked
<1>5. f \in Funs
  BY <1>4 DEF LinkedCall
<1>6. PICK S \in SUBSET Funs :
         /\ \A g \in Funs :
              (\A k \in Needed(g) : \E o \in S : check_dependency(o, g, k)) => g \in S
         /\ f \notin S
  BY <1>4, <1>5 DEF Callable
<1>7. ASSUME NEW k \in Needed(f) PROVE \E o \in S : check_dependency(o, f, k)
  <2>1. k \in DOMAIN InputsOf(f) /\ ~IsFuzzable(InputsOf(f)[k])
    BY DEF Needed
  <2>2. LinkedArg(s, d, f, k, Arg(s, d, k))
    BY <1>4, <2>1 DEF LinkedCall
  <2> DEFINE i == Arg(s, d, k).index
             o == s.functions[i].func
  <2>3. i \in 1 .. d - 1 /\ Dependency(o, f, k) \in api_dependencies
    BY <2>1, <2>2 DEF LinkedArg
  <2> HIDE DEF i, f
  <2>4. i \in DOMAIN s.functions /\ i < d /\ i \in Nat /\ d \in Nat
    BY <1>1, <1>4, <2>3
  <2>5. i \notin Bad
    BY <1>3, <2>4
  <2>6. o \in Callable
    BY <2>4, <2>5
  <2>7. o \in S
    BY <1>6, <2>6 DEF Callable
  <2>8. check_dependency(o, f, k)
    BY <2>3 DEF check_dependency, Dependency
  <2> QED BY <2>7, <2>8
<1> QED BY <1>5, <1>6, <1>7

\* The searches do not overshoot the reference definition: every function that
\* a target calls can be called at all.
THEOREM TargetsAreCallable == Spec => []OnlyCallable
<1>1. LinkInv => OnlyCallable
  <2> SUFFICES ASSUME LinkInv, NEW n \in DOMAIN api_sequences,
                      NEW c \in DOMAIN api_sequences[n].functions
               PROVE  api_sequences[n].functions[c].func \in Callable
    BY DEF OnlyCallable, Generated
  <2>1. api_sequences[n] \in ApiSequences /\ Linked(api_sequences[n])
    BY DEF LinkInv, TypeInv, TypeOK, ArgumentsLinked, Generated
  <2> QED BY <2>1, LinkedCallable
<1> QED BY <1>1, InitLinked, LinkStep, PTL DEF Spec

-----------------------------------------------------------------------------
(* The refinement of TargetGrowth                                          *)

\* The chain of a sequence.
LEMMA ChainType ==
    ASSUME NEW s \in ApiSequences
    PROVE  /\ Chain(s) \in Seq(Nat)
           /\ Len(Chain(s)) = Len(s.functions)
           /\ DOMAIN Chain(s) = DOMAIN s.functions
           /\ \A c \in DOMAIN s.functions : Chain(s)[c] = s.functions[c].func
<1> DEFINE x == s.functions
           n == Len(x)
           y == [c \in DOMAIN x |-> x[c].func]
<1>1. x \in Seq(ApiCalls) /\ n \in Nat /\ DOMAIN x = 1 .. n
  BY SequenceFields
<1> HIDE DEF x, n
<1>2. \A c \in DOMAIN x : x[c].func \in Nat
  <2>1. \A c \in DOMAIN x : x[c] \in ApiCalls
    BY <1>1
  <2> QED BY <2>1 DEF ApiCalls
<1>3. y \in [1 .. n -> Nat]
  BY <1>1, <1>2
<1>4. y \in Seq(Nat) /\ Len(y) = n
  BY <1>1, <1>3
<1> QED BY <1>1, <1>4 DEF Chain, x, n

\* The chain of a sequence with one more call, without it and with it.
LEMMA ChainAppend ==
    ASSUME NEW s \in ApiSequences, NEW t \in ApiSequences, NEW call \in ApiCalls,
           t.functions = Append(s.functions, call)
    PROVE  /\ Chain(t) = Append(Chain(s), call.func)
           /\ SubSeq(Chain(t), 1, Len(t.functions) - 1) = Chain(s)
<1> DEFINE x == s.functions
           n == Len(x)
           y == t.functions
           a == Chain(s)
           b == Chain(t)
           g == call.func
<1>1. x \in Seq(ApiCalls) /\ n \in Nat /\ DOMAIN x = 1 .. n /\ y = Append(x, call)
      /\ g \in Nat
  <2>1. g \in Nat
    BY DEF ApiCalls
  <2> QED BY <2>1, SequenceFields
<1>2. /\ a \in Seq(Nat) /\ Len(a) = n /\ b \in Seq(Nat) /\ Len(b) = Len(y)
      /\ \A c \in 1 .. n : a[c] = x[c].func
      /\ \A c \in DOMAIN y : b[c] = y[c].func
  BY <1>1, ChainType
<1> HIDE DEF x, n, y, a, b, g
<1>3. /\ Len(y) = n + 1 /\ DOMAIN y = 1 .. n + 1
      /\ \A c \in 1 .. n : y[c] = x[c]
  BY <1>1 DEF n
<1>4. y[n + 1] = call
  BY <1>1 DEF n
<1>5. ASSUME NEW c \in 1 .. n PROVE b[c] = a[c]
  <2>1. c \in DOMAIN y
    BY <1>1, <1>3
  <2> QED BY <1>2, <1>3, <2>1
<1>6. b[n + 1] = g
  <2>1. n + 1 \in DOMAIN y
    BY <1>1, <1>3
  <2>2. b[n + 1] = y[n + 1].func
    BY <1>2, <2>1, Zenon
  <2> QED BY <1>4, <2>2 DEF g
<1>7. b = Append(a, g)
  <2>1. Append(a, g) \in Seq(Nat) /\ Len(Append(a, g)) = n + 1
    BY <1>1, <1>2
  <2>2. \A c \in 1 .. n + 1 : b[c] = Append(a, g)[c]
    BY <1>1, <1>2, <1>5, <1>6
  <2> QED BY <1>2, <1>3, <2>1, <2>2, SeqEqual
<1>8. SubSeq(b, 1, Len(y) - 1) = a
  <2>1. Len(y) - 1 = n
    BY <1>1, <1>3
  <2>2. /\ SubSeq(b, 1, n) \in Seq(Nat) /\ Len(SubSeq(b, 1, n)) = n
        /\ \A c \in 1 .. n : SubSeq(b, 1, n)[c] = b[c]
    BY <1>1, <1>2, <1>3
  <2>3. SubSeq(b, 1, n) = a
    BY <1>2, <1>5, <2>2, SeqEqual
  <2> QED BY <2>1, <2>3
<1> QED BY <1>7, <1>8 DEF a, b, g, y

\* The chain of a merged sequence.
LEMMA ChainMerge ==
    ASSUME NEW s \in ApiSequences, NEW t \in ApiSequences
    PROVE  Chain(MergeAnother(s, t)) = Chain(s) \o Chain(t)
<1> DEFINE u == MergeAnother(s, t)
           m == Len(s.functions)
           n == Len(t.functions)
           a == Chain(s)
           b == Chain(t)
           c == Chain(u)
<1>1. u \in ApiSequences
  BY MergeType
<1>2. /\ m \in Nat /\ n \in Nat
      /\ DOMAIN s.functions = 1 .. m /\ DOMAIN t.functions = 1 .. n
  BY LastCall
<1>3. /\ DOMAIN u.functions = 1 .. m + n
      /\ \A i \in DOMAIN s.functions : u.functions[i] = s.functions[i]
      /\ \A i \in DOMAIN t.functions : u.functions[m + i].func = t.functions[i].func
  BY MergeFunctions, Zenon
<1> HIDE DEF u
<1>4. /\ a \in Seq(Nat) /\ Len(a) = m /\ \A i \in 1 .. m : a[i] = s.functions[i].func
      /\ b \in Seq(Nat) /\ Len(b) = n /\ \A i \in 1 .. n : b[i] = t.functions[i].func
      /\ c \in Seq(Nat) /\ DOMAIN c = 1 .. m + n
      /\ \A i \in 1 .. m + n : c[i] = u.functions[i].func
  BY <1>1, <1>2, <1>3, ChainType
<1> HIDE DEF a, b, c, m, n
<1>5. Len(c) = m + n
  BY <1>2, <1>4
<1>6. /\ a \o b \in Seq(Nat) /\ Len(a \o b) = m + n
      /\ \A i \in 1 .. m + n : (a \o b)[i] = IF i <= m THEN a[i] ELSE b[i - m]
  <2>1. a \in Seq(Nat) /\ b \in Seq(Nat) /\ Len(a) = m /\ Len(b) = n
    BY <1>4
  <2>2. /\ a \o b \in Seq(Nat) /\ Len(a \o b) = Len(a) + Len(b)
        /\ \A i \in 1 .. Len(a) + Len(b) :
             (a \o b)[i] = IF i <= Len(a) THEN a[i] ELSE b[i - Len(a)]
    BY <2>1, ConcatProperties, Zenon
  <2> QED BY <2>1, <2>2
<1>7. ASSUME NEW i \in 1 .. m + n PROVE c[i] = (a \o b)[i]
  <2>1. CASE i <= m
    <3>1. i \in 1 .. m
      BY <1>2, <2>1
    <3>2. u.functions[i].func = s.functions[i].func
      BY <1>2, <1>3, <3>1
    <3> QED BY <1>4, <1>6, <2>1, <3>1, <3>2
  <2>2. CASE ~(i <= m)
    <3>1. i - m \in 1 .. n /\ m + (i - m) = i
      BY <1>2, <2>2
    <3>2. u.functions[i].func = t.functions[i - m].func
      BY <1>2, <1>3, <3>1
    <3> QED BY <1>4, <1>6, <2>2, <3>1, <3>2
  <2> QED BY <2>1, <2>2
<1>8. c = a \o b
  BY <1>4, <1>5, <1>6, <1>7, SeqEqual
<1> QED BY <1>8 DEF a, b, c, u

\* Keeping a sequence appends its chain.
LEMMA ChainsPush ==
    ASSUME TypeOK, PushNewSequence
    PROVE  Chains' = Append(Chains, Chain(new_sequence))
<1> DEFINE n == Len(api_sequences)
           x == Chains
           y == Chains'
           g == Chain(new_sequence)
<1>1. n \in Nat /\ DOMAIN api_sequences = 1 .. n
  BY DEF TypeOK
<1>2. /\ DOMAIN api_sequences' = 1 .. n + 1 /\ api_sequences'[n + 1] = new_sequence
      /\ \A i \in 1 .. n : api_sequences'[i] = api_sequences[i]
  BY <1>1 DEF TypeOK, PushNewSequence
<1>3. /\ \A i \in 1 .. n : api_sequences[i] \in ApiSequences
      /\ new_sequence \in ApiSequences
  BY <1>1 DEF TypeOK
<1>4. /\ DOMAIN x = 1 .. n /\ \A i \in 1 .. n : x[i] = Chain(api_sequences[i])
      /\ x = [i \in 1 .. n |-> Chain(api_sequences[i])]
  BY <1>1 DEF Chains
<1>5. /\ DOMAIN y = 1 .. n + 1
      /\ \A i \in 1 .. n + 1 : y[i] = Chain(api_sequences'[i])
      /\ y = [i \in 1 .. n + 1 |-> Chain(api_sequences'[i])]
  BY <1>2 DEF Chains, Chain
<1> HIDE DEF n, x, y, g
<1>6. g \in Seq(Nat) /\ \A i \in 1 .. n : Chain(api_sequences[i]) \in Seq(Nat)
  BY <1>3, ChainType DEF g
<1>7. x \in Seq(Seq(Nat)) /\ Len(x) = n
  BY <1>1, <1>4, <1>6
<1>8. /\ \A i \in 1 .. n : y[i] = x[i]
      /\ y[n + 1] = g
  BY <1>1, <1>2, <1>4, <1>5 DEF g
<1>9. y \in Seq(Seq(Nat)) /\ Len(y) = n + 1
  <2>1. \A i \in 1 .. n + 1 : y[i] \in Seq(Nat)
    BY <1>1, <1>4, <1>6, <1>8
  <2>2. y \in [1 .. n + 1 -> Seq(Nat)]
    BY <1>5, <2>1
  <2> QED BY <1>1, <2>2
<1>10. /\ Append(x, g) \in Seq(Seq(Nat)) /\ Len(Append(x, g)) = n + 1
       /\ \A i \in 1 .. n + 1 : Append(x, g)[i] = IF i = n + 1 THEN g ELSE x[i]
  BY <1>1, <1>6, <1>7
<1>11. \A i \in 1 .. n + 1 : y[i] = Append(x, g)[i]
  BY <1>1, <1>8, <1>10
<1>12. y = Append(x, g)
  BY <1>9, <1>10, <1>11, SeqEqual
<1> QED BY <1>12 DEF x, y, g

LEMMA InitGrowth == Init => GrowthInv
<1> SUFFICES ASSUME Init PROVE GrowthInv
  OBVIOUS
<1>1. VisitInv
  BY InitVisit
<1> QED BY <1>1 DEF GrowthInv, GrowthSoFar, Init

LEMMA CollectGrowthSoFar ==
    ASSUME TypeOK, GrowthSoFar, Collect
    PROVE  GrowthSoFar'
<1>1. /\ pc \in {"collect", "filter"} /\ pc' \in {"collect", "filter", "bfs"}
      /\ UNCHANGED api_functions_visited
      /\ pc' = "bfs" \/ UNCHANGED api_dependencies
  BY DEF Collect, add_api_function, filter_start, filter_function,
     find_all_dependencies, TypeOK, graphVars, resultVars, satVars, bfsVars,
     roundVars, mergeVars, coverVars
<1> QED BY <1>1 DEF GrowthSoFar

LEMMA GrowthInvStep == GrowthInv /\ [Next]_vars => GrowthInv'
<1> SUFFICES ASSUME GrowthInv, [Next]_vars PROVE GrowthInv'
  OBVIOUS
<1> USE DEF graphVars, resultVars, satVars, bfsVars, roundVars, mergeVars,
            coverVars
<1>1. VisitInv' /\ TypeOK /\ GrowthSoFar
  BY VisitStep DEF GrowthInv, VisitInv, LinkInv, TypeInv
<1>2. CASE Collect
  BY <1>1, <1>2, CollectGrowthSoFar DEF GrowthInv
<1>3. CASE IsFunSatisfied
  <2>1. pc' \in {"param", "some", "none"}
    BY <1>3 DEF IsFunSatisfied, return_param, TakeReturn, fuzzable_param,
                refuse_param, add_fn
  <2> QED BY <1>1, <2>1 DEF GrowthInv, GrowthSoFar
<1>4. CASE Bfs
  <2>1. pc' \in {"level", "extend", "cover", "done", "param"}
    <3>1. CASE bfs_try
      BY <3>1 DEF bfs_try, Satisfy
    <3>2. CASE \/ bfs_start \/ bfs_level \/ bfs_skip \/ bfs_return
               \/ bfs_next_sequence \/ bfs_next_level \/ bfs_end
      BY <3>2 DEF bfs_start, bfs_level, bfs_skip, bfs_return, bfs_next_sequence,
                  bfs_next_level, bfs_end
    <3> QED BY <1>4, <3>1, <3>2 DEF Bfs
  <2> QED BY <1>1, <2>1 DEF GrowthInv, GrowthSoFar
<1>5. ASSUME NEW f \in todo, cover_node(f) PROVE GrowthInv'
  <2>1. pc' = "merge" /\ new_sequence' = NewSequence
    BY <1>5 DEF cover_node
  <2> QED BY <1>1, <2>1 DEF GrowthInv, GrowthSoFar, NewSequence
<1>6. CASE merge_sequences
  <2>1. PICK k \in to_merge : to_merge' = to_merge \ {k}
    BY <1>6 DEF merge_sequences
  <2>2. pc' = "merge" /\ UNCHANGED dependents
    BY <1>6 DEF merge_sequences
  <2>3. to_merge' # DOMAIN dependents'
    BY <1>1, <2>1, <2>2 DEF TypeOK
  <2> QED BY <1>1, <2>2, <2>3 DEF GrowthInv, GrowthSoFar
<1>7. CASE \/ cover_start \/ cover_round \/ cover_try \/ cover_return
           \/ cover_end_round \/ cover_end \/ \E f \in todo : cover_skip(f)
  <2>1. pc' \in {"round", "node", "param", "done"}
    BY <1>7 DEF cover_start, cover_round, cover_try, Satisfy, cover_return,
                cover_end_round, cover_end, cover_skip
  <2> QED BY <1>1, <2>1 DEF GrowthInv, GrowthSoFar
<1>8. CASE UNCHANGED vars
  BY <1>1, <1>8 DEF vars, GrowthInv, GrowthSoFar
<1> QED BY <1>2, <1>3, <1>4, <1>5, <1>6, <1>7, <1>8 DEF Next, Terminated, Cover

\* A step that changes neither the graph nor what has been generated.
LEMMA SameGrowth ==
    ASSUME UNCHANGED <<api_functions, api_dependencies, api_sequences,
                       api_functions_visited>>,
           pc \in {"collect", "filter"} <=> pc' \in {"collect", "filter"}
    PROVE  /\ GrowthNeeds' = GrowthNeeds
           /\ GrowthEdges' = GrowthEdges
           /\ Chains' = Chains
           /\ GrowthVisited' = GrowthVisited
           /\ GrowthBase' = GrowthBase => UNCHANGED Growth!vars
           /\ GrowthBase' = <<>> => Growth!GiveUp
<1>1. GrowthNeeds' = GrowthNeeds
  <2>1. Funs' = Funs /\ \A f : Needed(f)' = Needed(f)
    BY DEF Funs, Needed, InputsOf
  <2> QED BY <2>1 DEF GrowthNeeds
<1>2. GrowthEdges' = GrowthEdges
  BY DEF GrowthEdges
<1>3. Chains' = Chains
  BY DEF Chains, Chain
<1>4. GrowthVisited' = GrowthVisited
  BY DEF GrowthVisited
<1> QED BY <1>1, <1>2, <1>3, <1>4 DEF Growth!vars, Growth!GiveUp

\* Between two calls of is_fun_satisfied: nothing is being put together.
Idle == pc \notin {"collect", "filter", "merge", "param", "some"}

\* Publishing: the call that add_fn appended has all its values from the calls in
\* front of it.
LEMMA PublishGrowth ==
    ASSUME GrowthInv, pc = "some", PushNewSequence, Idle',
           UNCHANGED <<api_functions, api_dependencies>>
    PROVE  Growth!Publish
<1> DEFINE f == api_call.func
           s == new_sequence
           n == Len(s.functions)
           v == api_functions_visited
<1>1. TypeOK /\ LinkInv /\ VisitedSoFar
  BY DEF GrowthInv, VisitInv, LinkInv, TypeInv
<1>2. /\ s \in ApiSequences /\ Linked(s) /\ f \in Funs
      /\ s.functions # <<>> /\ last_api_func_index(s) = f
      /\ DOMAIN v = Funs
  BY <1>1 DEF LinkInv, LinkedSoFar, TypeInv, Located, TypeOK, VisitedSoFar
<1>3. /\ s.functions \in Seq(ApiCalls) /\ n \in Nat /\ n > 0
      /\ DOMAIN s.functions = 1 .. n /\ s.functions[n].func = f
  BY <1>2, LastCall
<1>4. GrowthBase = SubSeq(Chain(s), 1, n - 1)
  BY DEF GrowthBase
<1>5. /\ Chain(s) \in Seq(Nat) /\ Len(Chain(s)) = n
      /\ \A c \in 1 .. n : Chain(s)[c] = s.functions[c].func
  BY <1>2, <1>3, ChainType
<1>6. /\ GrowthBase \in Seq(Nat) /\ DOMAIN GrowthBase = 1 .. n - 1
      /\ Len(GrowthBase) = n - 1
      /\ \A c \in 1 .. n - 1 : GrowthBase[c] = s.functions[c].func
  <2> DEFINE x == Chain(s)
             N == n
  <2>1. x \in Seq(Nat) /\ Len(x) = N /\ N \in Nat /\ N > 0
    BY <1>3, <1>5
  <2> HIDE DEF x, N
  <2>2. /\ SubSeq(x, 1, N - 1) \in Seq(Nat) /\ Len(SubSeq(x, 1, N - 1)) = N - 1
        /\ DOMAIN SubSeq(x, 1, N - 1) = 1 .. N - 1
        /\ \A c \in 1 .. N - 1 : SubSeq(x, 1, N - 1)[c] = x[c]
    BY <2>1
  <2>3. \A c \in 1 .. N - 1 : c \in 1 .. N
    BY <2>1
  <2> QED BY <1>4, <1>5, <2>2, <2>3 DEF x, N
<1>7. Chain(s) = Append(GrowthBase, f)
  <2> DEFINE x == Chain(s)
             b == GrowthBase
             N == n
             g == f
  <2>1. /\ x \in Seq(Nat) /\ Len(x) = N /\ N \in Nat /\ N > 0
        /\ b \in Seq(Nat) /\ Len(b) = N - 1 /\ x[N] = g /\ g \in Nat
        /\ \A c \in 1 .. N - 1 : x[c] = b[c]
    <3>1. \A c \in 1 .. n - 1 : c \in 1 .. n
      BY <1>3
    <3>2. n \in 1 .. n
      BY <1>3
    <3>3. f \in Nat
      BY <1>1, <1>2, FunctionTypes DEF TypeOK
    <3> QED BY <1>3, <1>5, <1>6, <3>1, <3>2, <3>3
  <2> HIDE DEF x, b, N, g
  <2>2. /\ Append(b, g) \in Seq(Nat) /\ Len(Append(b, g)) = N
        /\ \A c \in 1 .. N : Append(b, g)[c] = IF c = N THEN g ELSE b[c]
    BY <2>1
  <2>3. \A c \in 1 .. N : x[c] = Append(b, g)[c]
    BY <2>1, <2>2
  <2>4. x = Append(b, g)
    BY <2>1, <2>2, <2>3, SeqEqual
  <2> QED BY <2>4 DEF x, b, g
<1>8. Chains' = Append(Chains, Append(GrowthBase, f))
  BY <1>1, <1>7, ChainsPush
<1>9. GrowthVisited' = GrowthVisited \cup {f}
  <2>1. v' = [v EXCEPT ![f] = TRUE]
    BY DEF PushNewSequence
  <2>2. DOMAIN v' = DOMAIN v /\ \A g \in DOMAIN v : v'[g] = IF g = f THEN TRUE ELSE v[g]
    BY <1>2, <2>1
  <2> QED BY <1>2, <2>2 DEF GrowthVisited
<1>10. GrowthNeeds = [g \in Funs |-> Needed(g)] /\ GrowthNeeds' = GrowthNeeds
       /\ GrowthEdges' = GrowthEdges
  <2>1. Funs' = Funs /\ \A g : Needed(g)' = Needed(g)
    BY DEF Funs, Needed, InputsOf
  <2> QED BY <2>1 DEF GrowthNeeds, GrowthEdges, Idle
<1>11. ASSUME NEW k \in Needed(f)
       PROVE  \E c \in DOMAIN GrowthBase : <<GrowthBase[c], f, k>> \in GrowthEdges
  <2>1. k \in DOMAIN InputsOf(f) /\ ~IsFuzzable(InputsOf(f)[k])
    BY DEF Needed
  <2>2. n \in DOMAIN s.functions
    BY <1>3
  <2>3. LinkedArg(s, n, f, k, Arg(s, n, k))
    BY <1>2, <1>3, <2>1, <2>2 DEF Linked, LinkedCall
  <2> DEFINE i == Arg(s, n, k).index
             d == Dependency(s.functions[i].func, f, k)
  <2>4. i \in 1 .. n - 1 /\ d \in api_dependencies
    BY <2>1, <2>3 DEF LinkedArg
  <2>5. d.output_fun = s.functions[i].func /\ d.input_fun = f /\ d.input_param_index = k
    BY DEF Dependency
  <2> HIDE DEF d, i, s, f, n
  <2>6. <<d.output_fun, d.input_fun, d.input_param_index>> \in GrowthEdges
    BY <2>4 DEF GrowthEdges
  <2>7. <<GrowthBase[i], f, k>> \in GrowthEdges
    BY <1>6, <2>4, <2>5, <2>6
  <2> QED BY <1>6, <2>4, <2>7
<1>12. GrowthBase' = <<>>
  BY DEF GrowthBase, Idle
<1>13. f \in Growth!Nodes /\ Growth!Supplied(f, GrowthBase)
  <2>1. DOMAIN GrowthNeeds = Funs /\ GrowthNeeds[f] = Needed(f)
    BY <1>2, <1>10
  <2> QED BY <1>2, <1>11, <2>1 DEF Growth!Nodes, Growth!Supplied
<1> HIDE DEF f
<1> QED BY <1>8, <1>9, <1>10, <1>12, <1>13 DEF Growth!Publish

\* The graph is built.
LEMMA CollectGrowth ==
    ASSUME GrowthInv, Collect
    PROVE  Growth!Next \/ UNCHANGED Growth!vars
<1> USE DEF graphVars, resultVars, satVars, bfsVars, roundVars, mergeVars,
            coverVars
<1>1. TypeOK /\ GrowthSoFar /\ LinkedSoFar
  BY DEF GrowthInv, VisitInv, LinkInv, TypeInv
<1>2. CASE find_all_dependencies
  <2>1. /\ pc = "filter" /\ pc' = "bfs"
        /\ UNCHANGED <<api_sequences, api_functions_visited>>
        /\ api_sequences = <<>> /\ api_dependencies = {}
    BY <1>1, <1>2 DEF find_all_dependencies, GrowthSoFar, LinkedSoFar
  <2>2. Chains' = Chains /\ GrowthVisited' = GrowthVisited /\ GrowthBase' = GrowthBase
    BY <2>1 DEF Chains, Chain, GrowthVisited, GrowthBase
  <2>3. Chains = <<>> /\ DOMAIN GrowthNeeds = {} /\ GrowthEdges = {}
    <3>1. Chains = <<>>
      BY <2>1 DEF Chains
    <3> QED BY <2>1, <3>1 DEF GrowthNeeds, GrowthEdges
  <2>4. Growth!Build
    BY <2>2, <2>3 DEF Growth!Build
  <2> QED BY <2>4 DEF Growth!Next
<1>3. CASE add_api_function \/ filter_start \/ filter_function
  <2>1. /\ pc \in {"collect", "filter"} /\ pc' \in {"collect", "filter"}
        /\ UNCHANGED <<api_dependencies, api_sequences, api_functions_visited>>
    BY <1>3 DEF add_api_function, filter_start, filter_function
  <2>2. UNCHANGED Growth!vars
    BY <2>1 DEF Growth!vars, GrowthNeeds, GrowthEdges, Chains, Chain, GrowthVisited,
                GrowthBase
  <2> QED BY <2>2
<1> QED BY <1>2, <1>3 DEF Collect

\* is_fun_satisfied: the base stays, or it is given up.
LEMMA IsFunSatisfiedGrowth ==
    ASSUME GrowthInv, IsFunSatisfied
    PROVE  Growth!Next \/ UNCHANGED Growth!vars
<1> USE DEF graphVars, resultVars, satVars, bfsVars, roundVars, mergeVars,
            coverVars
<1>0. TypeOK /\ TypeOK'
  BY IsFunSatisfiedType DEF GrowthInv, VisitInv, LinkInv, TypeInv
<1>1. /\ UNCHANGED <<api_functions, api_dependencies, api_sequences,
                     api_functions_visited>>
      /\ pc = "param" /\ pc' \in {"param", "some", "none"}
  BY DEF IsFunSatisfied, return_param, TakeReturn, fuzzable_param,
              refuse_param, add_fn
<1>2. CASE pc' = "none"
  <2>1. GrowthBase' = <<>>
    BY <1>2 DEF GrowthBase
  <2>2. Growth!GiveUp
    BY <1>1, <2>1, SameGrowth
  <2> QED BY <2>2 DEF Growth!Next
<1>3. CASE pc' = "param"
  <2>1. new_sequence'.functions = new_sequence.functions
    BY <1>0, <1>3 DEF IsFunSatisfied, return_param, TakeReturn, WithReturn,
       fuzzable_param, refuse_param, add_fn, TypeOK, ApiSequences
  <2>2. GrowthBase' = GrowthBase
    BY <1>1, <1>3, <2>1 DEF GrowthBase, Chain
  <2> QED BY <1>1, <2>2, SameGrowth
<1>4. CASE pc' = "some"
  <2>1. add_fn
    BY <1>1, <1>4 DEF IsFunSatisfied, return_param, TakeReturn,
                            fuzzable_param, refuse_param
  <2>2. new_sequence'.functions = Append(new_sequence.functions, api_call)
    BY <1>0, <2>1 DEF add_fn, TypeOK, ApiSequences
  <2>3. /\ new_sequence \in ApiSequences /\ api_call \in ApiCalls
        /\ new_sequence' \in ApiSequences
    BY <1>0 DEF TypeOK
  <2> DEFINE t == new_sequence'
  <2>4. /\ t \in ApiSequences /\ t.functions = Append(new_sequence.functions, api_call)
    BY <2>2, <2>3
  <2> HIDE DEF t
  <2>5. SubSeq(Chain(t), 1, Len(t.functions) - 1) = Chain(new_sequence)
    BY <2>3, <2>4, ChainAppend
  <2>6. GrowthBase' = GrowthBase
    BY <1>1, <1>4, <2>5 DEF GrowthBase, Chain, t
  <2> QED BY <1>1, <2>6, SameGrowth
<1> QED BY <1>1, <1>2, <1>3, <1>4

\* The first target is the empty one, if there is any.
LEMMA StartGrowth ==
    ASSUME GrowthInv, pc = "bfs", Idle',
           UNCHANGED <<api_functions, api_dependencies>>,
           api_functions_visited' = [f \in Funs |-> FALSE],
           api_sequences' = <<>> \/ api_sequences' = <<NewSequence>>
    PROVE  Growth!Next \/ UNCHANGED Growth!vars
<1>1. api_functions_visited = <<>> /\ api_sequences = <<>>
  BY DEF GrowthInv, VisitInv, LinkInv, GrowthSoFar, LinkedSoFar
<1>2. GrowthBase' = GrowthBase /\ GrowthEdges' = GrowthEdges
  BY DEF GrowthBase, GrowthEdges, Idle
<1>3. GrowthNeeds' = GrowthNeeds
  <2>1. Funs' = Funs /\ \A f : Needed(f)' = Needed(f)
    BY DEF Funs, Needed, InputsOf
  <2> QED BY <2>1 DEF GrowthNeeds, Idle
<1>4. GrowthVisited' = GrowthVisited
  <2>1. GrowthVisited = {}
    BY <1>1 DEF GrowthVisited
  <2>2. GrowthVisited' = {}
    BY DEF GrowthVisited
  <2> QED BY <2>1, <2>2
<1>5. Chains = <<>>
  BY <1>1 DEF Chains
<1>6. CASE api_sequences' = <<>>
  <2>1. Chains' = <<>>
    BY <1>6 DEF Chains
  <2> QED BY <1>2, <1>3, <1>4, <1>5, <2>1 DEF Growth!vars
<1>7. CASE api_sequences' = <<NewSequence>>
  <2>1. Chain(NewSequence) = <<>>
    BY DEF Chain, NewSequence
  <2>2. DOMAIN api_sequences' = 1 .. 1 /\ api_sequences'[1] = NewSequence
    BY <1>7
  <2>3. Chains' = [n \in 1 .. 1 |-> <<>>]
    BY <2>1, <2>2 DEF Chains, Chain
  <2>4. Chains' = <<(<<>>)>>
    BY <2>3
  <2>5. Growth!Seed
    BY <1>2, <1>3, <1>4, <1>5, <2>4 DEF Growth!Seed
  <2> QED BY <2>5 DEF Growth!Next
<1> QED BY <1>6, <1>7

\* A sequence is taken up to be extended.
LEMMA TakeGrowth ==
    ASSUME TypeOK, Idle,
           NEW n \in DOMAIN api_sequences, NEW f, NEW who,
           Satisfy(api_sequences[n], f, who),
           UNCHANGED <<api_functions, api_dependencies, api_sequences,
                       api_functions_visited>>
    PROVE  Growth!Next
<1>2. pc \notin {"collect", "filter"} /\ pc' = "param"
  BY DEF Satisfy, Idle
<1>3. api_sequences[n] \in ApiSequences
  BY DEF TypeOK
<1>4. new_sequence'.functions = api_sequences[n].functions
  BY <1>3 DEF Satisfy, ApiSequences
<1>5. GrowthBase = <<>> /\ GrowthBase' = Chain(api_sequences[n])
  BY <1>2, <1>4 DEF GrowthBase, Chain, Idle
<1>6. n \in DOMAIN Chains /\ Chains[n] = Chain(api_sequences[n])
  BY DEF Chains
<1>7. GrowthBase' = GrowthBase \o Chains[n]
  <2>1. Chain(api_sequences[n]) \in Seq(Nat)
    BY <1>3, ChainType
  <2> QED BY <1>5, <1>6, <2>1, ConcatEmptySeq
<1>8. Growth!Take
  BY <1>2, <1>6, <1>7, SameGrowth DEF Growth!Take
<1> QED BY <1>8 DEF Growth!Next

\* The answer of is_fun_satisfied.
LEMMA ReturnGrowth ==
    ASSUME GrowthInv, UNCHANGED <<api_functions, api_dependencies>>,
           pc \in {"some", "none"}, Idle',
           IF pc = "some" THEN PushNewSequence
           ELSE UNCHANGED <<api_sequences, api_functions_visited>>
    PROVE  Growth!Next \/ UNCHANGED Growth!vars
<1>2. CASE pc = "some"
  <2>1. PushNewSequence
    BY <1>2
  <2>2. Growth!Publish
    BY <1>2, <2>1, PublishGrowth
  <2> QED BY <2>2 DEF Growth!Next
<1>3. CASE pc = "none"
  <2>1. UNCHANGED <<api_sequences, api_functions_visited>>
    BY <1>3
  <2>2. GrowthBase' = GrowthBase
    BY <1>3 DEF GrowthBase, Idle
  <2> QED BY <1>3, <2>1, <2>2, SameGrowth DEF Idle
<1> QED BY <1>2, <1>3

LEMMA StutterGrowth ==
    ASSUME UNCHANGED vars
    PROVE  UNCHANGED Growth!vars
<1> USE DEF graphVars, resultVars, satVars, bfsVars, roundVars, mergeVars,
            coverVars
<1>1. UNCHANGED <<api_functions, api_dependencies, api_sequences,
                  api_functions_visited, pc, new_sequence>>
  BY DEF vars
<1>2. GrowthBase' = GrowthBase
  BY <1>1 DEF GrowthBase, Chain
<1> QED BY <1>1, <1>2, SameGrowth

\* Every step of the generation is a step of TargetGrowth or leaves it alone.
LEMMA GrowthStep == GrowthInv /\ [Next]_vars => [Growth!Next]_(Growth!vars)
<1> SUFFICES ASSUME GrowthInv, [Next]_vars
             PROVE  Growth!Next \/ UNCHANGED Growth!vars
  OBVIOUS
<1> USE DEF graphVars, resultVars, satVars, bfsVars, roundVars, mergeVars,
            coverVars
<1>1. TypeOK /\ GrowthSoFar /\ LinkedSoFar
  BY DEF GrowthInv, VisitInv, LinkInv, TypeInv
<1>4. CASE bfs_start
  <2>1. /\ pc = "bfs" /\ Idle'
        /\ UNCHANGED <<api_functions, api_dependencies>>
        /\ api_functions_visited' = [f \in Funs |-> FALSE]
        /\ api_sequences' = <<>> \/ api_sequences' = <<NewSequence>>
    BY <1>4 DEF bfs_start, Idle
  <2> QED BY <2>1, StartGrowth
<1>6. CASE bfs_try
  <2>1. PICK n \in tmp_sequences : Satisfy(api_sequences[n], next_fun, "bfs")
    BY <1>6 DEF bfs_try
  <2>2. /\ UNCHANGED <<api_functions, api_dependencies, api_sequences,
                       api_functions_visited>>
        /\ Idle /\ n \in DOMAIN api_sequences
    BY <1>1, <1>6 DEF bfs_try, Idle, TypeOK
  <2> QED BY <1>1, <2>1, <2>2, TakeGrowth
<1>7. CASE bfs_return \/ cover_return
  <2>1. /\ UNCHANGED <<api_functions, api_dependencies>>
        /\ pc \in {"some", "none"} /\ Idle'
        /\ IF pc = "some" THEN PushNewSequence
           ELSE UNCHANGED <<api_sequences, api_functions_visited>>
    BY <1>7 DEF bfs_return, cover_return, Idle
  <2> QED BY <2>1, ReturnGrowth
<1>8. CASE \/ bfs_level \/ bfs_skip \/ bfs_next_sequence \/ bfs_next_level \/ bfs_end
           \/ cover_start \/ cover_round \/ cover_end_round \/ cover_end
           \/ \E f \in todo : cover_skip(f)
  <2>1. /\ UNCHANGED <<api_functions, api_dependencies, api_sequences,
                       api_functions_visited>>
        /\ pc \in {"level", "extend", "cover", "round", "node"}
        /\ pc' \in {"level", "extend", "cover", "round", "node", "done"}
    BY <1>8 DEF bfs_level, bfs_skip, bfs_next_sequence, bfs_next_level, bfs_end,
         cover_start, cover_round, cover_end_round, cover_end, cover_skip
  <2>2. GrowthBase' = GrowthBase
    BY <2>1 DEF GrowthBase
  <2> QED BY <2>1, <2>2, SameGrowth
<1>9. ASSUME NEW f \in todo, cover_node(f) PROVE UNCHANGED Growth!vars
  <2>1. /\ UNCHANGED <<api_functions, api_dependencies, api_sequences,
                       api_functions_visited>>
        /\ pc = "node" /\ pc' = "merge" /\ new_sequence' = NewSequence
    BY <1>9 DEF cover_node
  <2>2. Chain(NewSequence) = <<>>
    BY DEF Chain, NewSequence
  <2>3. GrowthBase' = GrowthBase
    BY <2>1, <2>2 DEF GrowthBase, Chain
  <2> QED BY <2>1, <2>3, SameGrowth
<1>10. CASE merge_sequences
  <2>1. PICK k \in to_merge :
           new_sequence' =
                IF to_merge = DOMAIN dependents
                THEN api_sequences[dependents[k]]
                ELSE MergeAnother(new_sequence, api_sequences[dependents[k]])
    BY <1>10 DEF merge_sequences
  <2> DEFINE n == dependents[k]
             s == api_sequences[n]
  <2>2. /\ UNCHANGED <<api_functions, api_dependencies, api_sequences,
                       api_functions_visited>>
        /\ pc = "merge" /\ pc' = "merge"
    BY <1>10 DEF merge_sequences
  <2>3. n \in DOMAIN api_sequences /\ s \in ApiSequences /\ new_sequence \in ApiSequences
    BY <1>1, <2>1 DEF TypeOK
  <2>4. n \in DOMAIN Chains /\ Chains[n] = Chain(s)
    BY <2>3 DEF Chains
  <2>5. Chain(s) \in Seq(Nat) /\ GrowthBase = Chain(new_sequence)
        /\ GrowthBase' = Chain(new_sequence')
    BY <2>2, <2>3, ChainType DEF GrowthBase, Chain
  <2>6. GrowthBase' = GrowthBase \o Chains[n]
    <3>1. CASE to_merge = DOMAIN dependents
      <4>1. new_sequence.functions = <<>> /\ new_sequence' = s
        BY <1>1, <2>1, <2>2, <3>1 DEF GrowthSoFar
      <4>2. Chain(new_sequence) = <<>>
        BY <4>1 DEF Chain
      <4> HIDE DEF s
      <4> QED BY <2>4, <2>5, <4>1, <4>2, ConcatEmptySeq
    <3>2. CASE to_merge # DOMAIN dependents
      <4>1. new_sequence' = MergeAnother(new_sequence, s)
        BY <2>1, <3>2
      <4> HIDE DEF s
      <4>2. Chain(MergeAnother(new_sequence, s)) = Chain(new_sequence) \o Chain(s)
        BY <2>3, ChainMerge
      <4> QED BY <2>4, <2>5, <4>1, <4>2
    <3> QED BY <3>1, <3>2
  <2>7. Growth!Take
    <3> HIDE DEF n
    <3> QED BY <2>2, <2>4, <2>6, SameGrowth DEF Growth!Take
  <2> QED BY <2>7 DEF Growth!Next
<1>11. CASE cover_try
  <2>1. /\ UNCHANGED <<api_functions, api_dependencies, api_sequences,
                       api_functions_visited>>
        /\ pc = "merge" /\ pc' = "param"
    BY <1>11 DEF cover_try, Satisfy
  <2>2. new_sequence'.functions = new_sequence.functions
    BY <1>1, <1>11 DEF cover_try, Satisfy, TypeOK, ApiSequences
  <2>3. GrowthBase' = GrowthBase
    BY <2>1, <2>2 DEF GrowthBase, Chain
  <2> QED BY <2>1, <2>3, SameGrowth
<1> QED BY <1>4, <1>6, <1>7, <1>8, <1>9, <1>10, <1>11, CollectGrowth,
           IsFunSatisfiedGrowth, StutterGrowth
        DEF Next, Bfs, Cover, Terminated

\* Initially TargetGrowth has neither a graph nor a target.
LEMMA GrowthInit == Init => Growth!Init
<1> SUFFICES ASSUME Init PROVE Growth!Init
  OBVIOUS
<1>1. /\ pc = "collect" /\ api_dependencies = {} /\ api_sequences = <<>>
      /\ api_functions_visited = <<>>
  BY DEF Init
<1>2. DOMAIN GrowthNeeds = {} /\ GrowthEdges = {} /\ GrowthVisited = {} /\ GrowthBase = <<>>
  BY <1>1 DEF GrowthNeeds, GrowthEdges, GrowthVisited, GrowthBase
<1>3. Chains = <<>>
  BY <1>1 DEF Chains
<1> QED BY <1>2, <1>3 DEF Growth!Init

\* bfs and the backward search implement TargetGrowth: every target they publish
\* is made of whole earlier targets and one function that those supply, nothing
\* published is changed, and a function is marked visited with its target.
THEOREM GenerationGrowsTargets == Spec => ImplementsTargetGrowth
<1>1. Spec => []GrowthInv
  BY InitGrowth, GrowthInvStep, PTL DEF Spec
<1>2. Spec => [][Growth!Next]_(Growth!vars)
  BY <1>1, GrowthStep, PTL DEF Spec
<1> QED BY <1>2, GrowthInit, PTL DEF Spec, ImplementsTargetGrowth, Growth!Spec

-----------------------------------------------------------------------------
(* Merged sequences supply                                                 *)

\* The result of the last call has not been moved.
LEMMA MovedPositions ==
    ASSUME NEW s \in ApiSequences, Linked(s), CorrectTarget(s)
    PROVE  s.moved \subseteq 1 .. Len(s.functions) - 1
<1> SUFFICES ASSUME NEW x \in s.moved PROVE x \in 1 .. Len(s.functions) - 1
  OBVIOUS
<1>1. PICK p \in ReturnPlaces(s) : x = IndexAt(s, p)
  BY DEF CorrectTarget, MovedOnce
<1>2. p \in ArgPlaces(s) /\ KindAt(s, p) = "return"
  BY <1>1 DEF ReturnPlaces
<1> QED BY <1>1, <1>2, LinkedPlaces

\* The slots of a sequence can be read: they are of parameters of functions the
\* graph has let in.
LEMMA SlotsSupported ==
    ASSUME Supported, NEW s \in ApiSequences, Linked(s), CorrectTarget(s),
           NEW z \in DOMAIN s.fuzzable_params
    PROVE  ~IsMultiDynamic(s.fuzzable_params[z])
<1>1. PICK p \in FuzzablePlaces(s) : z = IndexAt(s, p)
  BY DEF CorrectTarget, SlotsInOrder
<1>2. p \in ArgPlaces(s) /\ KindAt(s, p) = "fuzzable"
  BY <1>1 DEF FuzzablePlaces
<1>3. p[1] \in DOMAIN s.functions /\ p[2] \in DOMAIN s.functions[p[1]].params
  BY <1>2, PlaceFacts
<1> DEFINE f == s.functions[p[1]].func
<1>4. /\ f \in Funs /\ p[2] \in DOMAIN InputsOf(f)
      /\ LinkedArg(s, p[1], f, p[2], Arg(s, p[1], p[2]))
  BY <1>3 DEF Linked, LinkedCall
<1>5. /\ IsFuzzable(InputsOf(f)[p[2]])
      /\ s.fuzzable_params[z] = FuzzableTypeOf(InputsOf(f)[p[2]])
  BY <1>1, <1>2, <1>4 DEF LinkedArg, KindAt, IndexAt
<1>6. ~contains_unsupported_fuzzable_type(api_functions[f])
  BY <1>4 DEF Supported
<1> QED BY <1>4, <1>5, <1>6 DEF contains_unsupported_fuzzable_type, InputsOf

\* The first sequence supplies the parameter it was chosen for.
LEMMA FirstSupplied ==
    ASSUME NEW s \in ApiSequences, Linked(s), CorrectTarget(s), NEW f, NEW k \in Nat,
           EndsWithSupplier(s, f, k)
    PROVE  StillSupplied(s, f, {k}, 1, {})
<1> DEFINE n == Len(s.functions)
           P == [j \in {k} |-> n]
<1>1. n \in Nat /\ n \in DOMAIN s.functions /\ last_api_func_index(s) = s.functions[n].func
  BY LastCall DEF EndsWithSupplier
<1>2. n \notin s.moved
  BY <1>1, MovedPositions
<1>3. P \in [{k} -> DOMAIN s.functions] /\ P[k] = n
  BY <1>1
<1> HIDE DEF P, n
<1>4. SuppliedAt(s, f, {k}, P)
  <2>1. \A i, j \in {k} : i < j => P[i] < P[j]
    OBVIOUS
  <2> QED BY <1>1, <1>2, <1>3, <2>1 DEF SuppliedAt, EndsWithSupplier
<1> QED BY <1>3, <1>4 DEF StillSupplied

\* A sequence merged behind supplies one parameter more.
LEMMA MergeSupplied ==
    ASSUME NEW a \in ApiSequences, Linked(a), CorrectTarget(a),
           NEW b \in ApiSequences, Linked(b), CorrectTarget(b),
           NEW f, NEW K, K \subseteq Nat, NEW k \in Nat, \A j \in K : j < k,
           StillSupplied(a, f, K, 1, {}), EndsWithSupplier(b, f, k)
    PROVE  StillSupplied(MergeAnother(a, b), f, K \cup {k}, 1, {})
<1> DEFINE t  == MergeAnother(a, b)
           nf == Len(a.functions)
           m  == Len(b.functions)
<1>1. PICK P \in [K -> DOMAIN a.functions] : SuppliedAt(a, f, K, P)
  BY DEF StillSupplied
<1>2. /\ nf \in Nat /\ m \in Nat /\ m > 0
      /\ DOMAIN a.functions = 1 .. nf /\ DOMAIN b.functions = 1 .. m
      /\ last_api_func_index(b) = b.functions[m].func
  BY LastCall DEF EndsWithSupplier
<1>3. /\ DOMAIN t.functions = 1 .. nf + m
      /\ \A i \in DOMAIN a.functions : t.functions[i] = a.functions[i]
      /\ \A i \in DOMAIN b.functions : t.functions[nf + i].func = b.functions[i].func
  BY MergeFunctions, Zenon
<1>4. t.moved = a.moved \cup Shift(b.moved, nf)
  BY DEF MergeAnother
<1>5. a.moved \subseteq 1 .. nf - 1 /\ b.moved \subseteq 1 .. m - 1
  BY MovedPositions
<1> DEFINE Q == [j \in K \cup {k} |-> IF j = k THEN nf + m ELSE P[j]]
<1> HIDE DEF t, nf, m
<1>6. k \notin K
  OBVIOUS
<1>7. /\ Q \in [K \cup {k} -> DOMAIN t.functions]
      /\ Q[k] = nf + m /\ \A j \in K : Q[j] = P[j]
  <2>1. nf + m \in DOMAIN t.functions /\ DOMAIN a.functions \subseteq DOMAIN t.functions
    BY <1>2, <1>3
  <2> QED BY <1>1, <1>6, <2>1
<1> HIDE DEF Q
<1>8. \A j \in K \cup {k} : /\ check_dependency(t.functions[Q[j]].func, f, j)
                            /\ Q[j] \notin t.moved
  <2>1. ASSUME NEW j \in K
        PROVE  /\ check_dependency(t.functions[Q[j]].func, f, j)
               /\ Q[j] \notin t.moved
    <3>1. P[j] \in DOMAIN a.functions /\ P[j] \notin a.moved
          /\ check_dependency(a.functions[P[j]].func, f, j)
      BY <1>1 DEF SuppliedAt
    <3>2. P[j] \notin Shift(b.moved, nf)
      BY <1>2, <1>5, <3>1 DEF Shift
    <3> QED BY <1>3, <1>4, <1>7, <3>1, <3>2
  <2>2. check_dependency(t.functions[Q[k]].func, f, k)
    <3>1. m \in DOMAIN b.functions
      BY <1>2
    <3> QED BY <1>2, <1>3, <1>7, <3>1 DEF EndsWithSupplier
  <2>3. nf + m \notin t.moved
    <3>1. nf + m \notin a.moved
      BY <1>2, <1>5
    <3>2. nf + m \notin Shift(b.moved, nf)
      BY <1>2, <1>5 DEF Shift
    <3> QED BY <1>4, <3>1, <3>2
  <2> QED BY <1>7, <2>1, <2>2, <2>3
<1>9. ASSUME NEW i \in K \cup {k}, NEW j \in K \cup {k}, i < j PROVE Q[i] < Q[j]
  <2>1. CASE i \in K /\ j \in K
    BY <1>1, <1>7, <1>9, <2>1 DEF SuppliedAt
  <2>2. CASE i \in K /\ j = k
    <3>1. P[i] \in 1 .. nf
      BY <1>1, <1>2, <2>2
    <3>2. P[i] < nf + m
      BY <1>2, <3>1
    <3>3. Q[i] = P[i] /\ Q[j] = nf + m
      BY <1>7, <2>2
    <3> QED BY <3>2, <3>3
  <2>3. CASE i = k
    BY <1>9, <2>3
  <2> QED BY <2>1, <2>2, <2>3
<1>10. SuppliedAt(t, f, K \cup {k}, Q)
  BY <1>7, <1>8, <1>9 DEF SuppliedAt
<1> QED BY <1>7, <1>10 DEF StillSupplied, t

-----------------------------------------------------------------------------
(* The steps                                                               *)

\* Being supplied only depends on the graph.
LEMMA StableSupply ==
    ASSUME UNCHANGED api_functions, UNCHANGED api_dependencies
    PROVE  /\ \A s, f, K, i, taken :
                StillSupplied(s, f, K, i, taken)' <=> StillSupplied(s, f, K, i, taken)
           /\ \A s, f, k : EndsWithSupplier(s, f, k)' <=> EndsWithSupplier(s, f, k)
           /\ \A f : Needed(f)' = Needed(f)
           /\ pc' # "filter" /\ Supported => Supported'
<1>1. \A o, i, k : check_dependency(o, i, k)' <=> check_dependency(o, i, k)
  BY DEF check_dependency
<1>2. \A s, f, K, P : SuppliedAt(s, f, K, P)' <=> SuppliedAt(s, f, K, P)
  BY <1>1 DEF SuppliedAt
<1>3. \A s, f, K, i, taken :
         StillSupplied(s, f, K, i, taken)' <=> StillSupplied(s, f, K, i, taken)
  BY <1>2 DEF StillSupplied
<1>4. \A s, f, k : EndsWithSupplier(s, f, k)' <=> EndsWithSupplier(s, f, k)
  BY <1>1 DEF EndsWithSupplier
<1>5. \A f : Needed(f)' = Needed(f)
  BY DEF Needed, InputsOf
<1>6. pc' # "filter" /\ Supported => Supported'
  BY DEF Supported, Funs, contains_unsupported_fuzzable_type
<1> QED BY <1>3, <1>4, <1>5, <1>6

\* What has to be shown of a step once the graph is built.
LEMMA SupplyInvFrom ==
    ASSUME CorrectInv', NoAlgorithmError', Supported,
           UNCHANGED api_functions, UNCHANGED api_dependencies, pc' # "filter",
           InRound' => \A n \in candidates' : api_sequences'[n].functions # <<>>,
           pc' = "merge" =>
             /\ DOMAIN dependents' = Needed(api_call'.func)
             /\ \A k \in DOMAIN dependents' :
                  EndsWithSupplier(api_sequences'[dependents'[k]], api_call'.func, k)
             /\ \A j \in DOMAIN dependents' \ to_merge', k \in to_merge' : j < k
             /\ StillSupplied(new_sequence', api_call'.func,
                              DOMAIN dependents' \ to_merge', 1, {}),
           pc' = "param" /\ Promised' =>
             StillSupplied(new_sequence', api_call'.func, Needed(api_call'.func),
                           CurrentParam',
                           moved_indexes' \cup multi_mut' \cup immutable_borrow'),
           pc' = "none" => ~Promised'
    PROVE  SupplyInv'
<1>1. Supported' /\ \A f : Needed(f)' = Needed(f)
  BY StableSupply
<1>2. ASSUME pc' = "merge"
      PROVE  (/\ DOMAIN dependents = Needed(api_call.func)
              /\ \A k \in DOMAIN dependents :
                   EndsWithSupplier(api_sequences[dependents[k]], api_call.func, k)
              /\ \A j \in DOMAIN dependents \ to_merge, k \in to_merge : j < k
              /\ StillSupplied(new_sequence, api_call.func,
                               DOMAIN dependents \ to_merge, 1, {}))'
  BY <1>2, StableSupply
<1>3. ASSUME pc' = "param" /\ Promised'
      PROVE  StillSupplied(new_sequence, api_call.func, Needed(api_call.func),
                           CurrentParam,
                           moved_indexes \cup multi_mut \cup immutable_borrow)'
  BY <1>3, StableSupply
<1>4. SuppliedSoFar'
  BY <1>1, <1>2, <1>3 DEF SuppliedSoFar
<1> QED BY <1>4 DEF SupplyInv

LEMMA InitSupply == Init => SupplyInv
<1> SUFFICES ASSUME Init PROVE SupplyInv
  OBVIOUS
<1>1. CorrectInv
  BY InitCorrect
<1>2. pc = "collect" /\ api_functions = <<>> /\ algorithm_error = FALSE
  BY DEF Init
<1>3. Supported
  BY <1>2 DEF Supported, Funs
<1> QED BY <1>1, <1>2, <1>3 DEF SupplyInv, SuppliedSoFar, NoAlgorithmError, InRound,
                                Satisfying

\* filter_functions and add_api_function let no unsupported function in.
LEMMA CollectSupply ==
    ASSUME SupplyInv, Collect
    PROVE  SupplyInv'
<1> USE DEF graphVars, resultVars, satVars, bfsVars, roundVars, mergeVars,
            coverVars
<1>1. CorrectInv'
  BY CollectCorrect DEF SupplyInv
<1>2. /\ pc' \in {"collect", "filter", "bfs"}
      /\ UNCHANGED algorithm_error
  BY DEF Collect, add_api_function, filter_start, filter_function,
         find_all_dependencies, SupplyInv, CorrectInv, LinkInv, TypeInv, TypeOK
<1>3. Supported /\ items \in Seq(ApiFunctions) /\ api_functions \in Seq(ApiFunctions)
  BY DEF SupplyInv, SuppliedSoFar, CorrectInv, LinkInv, TypeInv, TypeOK
<1> DEFINE Ok(fn) == ~contains_unsupported_fuzzable_type(fn)
<1>4. /\ \A f \in DOMAIN api_functions : Ok(api_functions[f])
      /\ pc = "filter" => \A j \in DOMAIN items : Ok(items[j])
  BY <1>3 DEF Supported, Funs
<1>5. /\ \A f \in DOMAIN api_functions' : Ok(api_functions'[f])
      /\ pc' = "filter" => \A j \in DOMAIN items' : Ok(items'[j])
  <2>1. CASE add_api_function
    <3>1. pc' = "collect" /\ items # <<>>
      BY <2>1 DEF add_api_function
    <3>2. \/ UNCHANGED api_functions
          \/ Ok(Head(items)) /\ api_functions' = Append(api_functions, Head(items))
      BY <2>1 DEF add_api_function
    <3> HIDE DEF Ok
    <3> QED BY <1>3, <1>4, <3>1, <3>2
  <2>2. CASE filter_start
    <3>1. items' = api_functions /\ api_functions' = <<>>
      BY <2>2 DEF filter_start
    <3> HIDE DEF Ok
    <3> QED BY <1>4, <3>1
  <2>3. CASE filter_function
    <3>1. /\ pc = "filter" /\ items # <<>> /\ items' = Tail(items)
          /\ \/ UNCHANGED api_functions
             \/ api_functions' = Append(api_functions, Head(items))
      BY <2>3 DEF filter_function
    <3> HIDE DEF Ok
    <3>2. \A j \in DOMAIN items' : j + 1 \in DOMAIN items /\ items'[j] = items[j + 1]
      BY <1>3, <3>1
    <3>3. Ok(Head(items))
      BY <1>3, <1>4, <3>1
    <3>4. \A j \in DOMAIN items' : Ok(items'[j])
      BY <1>4, <3>1, <3>2
    <3>5. \A f \in DOMAIN api_functions' : Ok(api_functions'[f])
      BY <1>3, <1>4, <3>1, <3>3
    <3> QED BY <3>4, <3>5
  <2>4. CASE find_all_dependencies
    <3>1. pc' = "bfs" /\ UNCHANGED api_functions
      BY <2>4 DEF find_all_dependencies
    <3> QED BY <1>4, <3>1
  <2> QED BY <2>1, <2>2, <2>3, <2>4 DEF Collect
<1>6. Supported'
  <2>1. \A fn : contains_unsupported_fuzzable_type(fn)' <=>
                contains_unsupported_fuzzable_type(fn)
    BY DEF contains_unsupported_fuzzable_type
  <2> QED BY <1>5, <2>1 DEF Supported, Funs
<1> QED BY <1>1, <1>2, <1>6 DEF SupplyInv, SuppliedSoFar, NoAlgorithmError, InRound,
                                Satisfying

\* The value set aside for the current parameter fits, and no value that fits is
\* further right.
LEMMA SuppliedFits ==
    ASSUME CorrectInv, pc = "param", MoreParams, ~IsFuzzable(CurrentType),
           NEW P, SuppliedAt(new_sequence, api_call.func, Needed(api_call.func), P),
           \A k \in Needed(api_call.func) : k >= CurrentParam =>
             \A r \in moved_indexes \cup multi_mut \cup immutable_borrow : r < P[k]
    PROVE  /\ CurrentParam \in Needed(api_call.func)
           /\ P[CurrentParam] \in DOMAIN new_sequence.functions
           /\ Fits(P[CurrentParam])
<1> DEFINE i == CurrentParam
           r == P[i]
           taken == moved_indexes \cup multi_mut \cup immutable_borrow
<1>1. i \in Needed(api_call.func)
  BY DEF MoreParams, CurrentType, Needed
<1>2. /\ r \in DOMAIN new_sequence.functions /\ r \notin new_sequence.moved
      /\ check_dependency(new_sequence.functions[r].func, api_call.func, i)
  BY <1>1 DEF SuppliedAt
<1>3. i \in Nat /\ r \in Nat /\ taken \subseteq Nat
  <2>1. new_sequence.functions \in Seq(ApiCalls) /\ api_call.params \in Seq(Params)
    BY AtParam, SequenceFields
  <2>2. taken \subseteq Nat
    BY DEF CorrectInv, LinkInv, TypeInv, TypeOK
  <2> QED BY <1>2, <2>1, <2>2 DEF CurrentParam
<1>4. r \notin taken
  <2>1. \A q \in taken : q < r
    BY <1>1, <1>3
  <2> HIDE DEF taken, r
  <2> QED BY <1>3, <2>1
<1> QED BY <1>1, <1>2, <1>4 DEF Fits, Available, Conflict

\* A call with all its arguments is linked.
LEMMA CompleteLinked ==
    ASSUME CorrectInv, pc = "param", ~MoreParams
    PROVE  Linked(PendingOf(new_sequence, api_call, moved_indexes))
<1> DEFINE ps == api_call.params
           f  == api_call.func
           t  == PendingOf(new_sequence, api_call, moved_indexes)
<1>1. /\ new_sequence \in ApiSequences /\ api_call \in ApiCalls
      /\ ps \in Seq(Params) /\ moved_indexes \in SUBSET Nat
  BY AtParam
<1>2. /\ f \in Funs /\ Linked(new_sequence)
      /\ DOMAIN ps \subseteq DOMAIN InputsOf(f)
      /\ \A k \in DOMAIN ps :
           LinkedArg(new_sequence, Len(new_sequence.functions) + 1, f, k, ps[k])
  BY DEF CorrectInv, LinkInv, TypeInv, Located, LinkedSoFar
<1>3. InputsOf(f) \in Seq(Types)
  BY <1>2, FunctionTypes DEF CorrectInv, LinkInv, TypeInv, TypeOK
<1>4. DOMAIN ps = DOMAIN InputsOf(f)
  <2>1. ~(Len(ps) + 1 \in DOMAIN InputsOf(f))
    BY DEF MoreParams, CurrentParam
  <2> QED BY <1>1, <1>2, <1>3, <2>1
<1>5. /\ t.functions = Append(new_sequence.functions, api_call)
      /\ t.fuzzable_params = new_sequence.fuzzable_params
  BY <1>1, PendingFields
<1> HIDE DEF t
<1>6. Linked(t)
  BY <1>1, <1>2, <1>4, <1>5, CallLinked
<1> QED BY <1>6 DEF t

\* What leads where only depends on the graph.
LEMMA StableLeads ==
    ASSUME UNCHANGED api_functions, UNCHANGED api_dependencies
    PROVE  /\ Unary' <=> Unary
           /\ \A o, f : Feeds(o, f)' <=> Feeds(o, f)
           /\ \A s, f : Leads(s, f)' <=> Leads(s, f)
           /\ UNCHANGED tmp_sequences => \A n : FirstOf(n)' <=> FirstOf(n)
<1>1. \A f : Needed(f)' = Needed(f)
  BY DEF Needed, InputsOf
<1>2. Funs' = Funs
  BY DEF Funs
<1>3. \A o, i, k : check_dependency(o, i, k)' <=> check_dependency(o, i, k)
  BY DEF check_dependency
<1>4. \A o, f : Feeds(o, f)' <=> Feeds(o, f)
  BY <1>1, <1>3 DEF Feeds
<1>5. \A s, f : Leads(s, f)' <=> Leads(s, f)
  BY <1>1, <1>4 DEF Leads
<1>6. Unary' <=> Unary
  BY <1>1, <1>2 DEF Unary
<1>7. UNCHANGED tmp_sequences => \A n : FirstOf(n)' <=> FirstOf(n)
  BY DEF FirstOf
<1> QED BY <1>4, <1>5, <1>6, <1>7

LEMMA IsFunSatisfiedSupply ==
    ASSUME SupplyInv, IsFunSatisfied
    PROVE  SupplyInv'
<1> USE DEF graphVars, resultVars, satVars, bfsVars, roundVars, mergeVars,
            coverVars
<1>1. CorrectInv' /\ CorrectInv
  BY IsFunSatisfiedCorrect DEF SupplyInv
<1>2. /\ UNCHANGED <<api_functions, api_dependencies, api_sequences, candidates,
                     caller, tmp_sequences, algorithm_error>>
      /\ pc = "param" /\ pc' \in {"param", "some", "none"}
  BY DEF IsFunSatisfied, return_param, TakeReturn, fuzzable_param,
         refuse_param, add_fn
<1>3. Supported /\ NoAlgorithmError' /\ SuppliedSoFar
  BY <1>2 DEF SupplyInv, SuppliedSoFar, NoAlgorithmError
<1>4. InRound' => \A n \in candidates' : api_sequences'[n].functions # <<>>
  BY <1>2, <1>3 DEF SuppliedSoFar, InRound, Satisfying
<1>5. /\ new_sequence \in ApiSequences /\ api_call \in ApiCalls
      /\ api_call.params \in Seq(Params) /\ api_call.func \in Funs
      /\ new_sequence.functions \in Seq(ApiCalls) /\ CurrentParam \in Nat
      /\ moved_indexes \cup multi_mut \cup immutable_borrow \subseteq Nat
  <2>1. /\ new_sequence \in ApiSequences /\ api_call \in ApiCalls
        /\ api_call.params \in Seq(Params)
    BY <1>1, <1>2, AtParam
  <2>2. /\ api_call.func \in Funs
        /\ moved_indexes \cup multi_mut \cup immutable_borrow \subseteq Nat
    BY <1>1, <1>2 DEF CorrectInv, LinkInv, TypeInv, TypeOK, Located
  <2> QED BY <2>1, <2>2, SequenceFields DEF CurrentParam
<1>p. Promised' <=> Promised
  <2>1. api_call'.func = api_call.func
    BY <1>5 DEF IsFunSatisfied, return_param, TakeReturn, fuzzable_param,
                refuse_param, add_fn, ApiCalls
  <2> QED BY <1>2, <2>1, StableLeads DEF Promised
<1>6. ~contains_unsupported_fuzzable_type(api_functions[api_call.func])
  BY <1>3, <1>5 DEF Supported
<1> DEFINE f == api_call.func
           K == Needed(f)
           i == CurrentParam
           taken == moved_indexes \cup multi_mut \cup immutable_borrow
<1>7. ASSUME Promised
      PROVE  \E P \in [K -> DOMAIN new_sequence.functions] :
               /\ SuppliedAt(new_sequence, f, K, P)
               /\ \A k \in K : k >= i => \A r \in taken : r < P[k]
  BY <1>2, <1>3, <1>7 DEF SuppliedSoFar, StillSupplied
<1>8. CASE return_param
  <2>1. PICK r \in DOMAIN new_sequence.functions : TakeReturn(r)
    BY <1>8 DEF return_param
  <2>2. MoreParams /\ ~IsFuzzable(CurrentType) /\ pc' = "param"
    BY <1>2, <1>8, <2>1 DEF return_param, TakeReturn
  <2>3. /\ new_sequence'.functions = new_sequence.functions
        /\ new_sequence'.moved = new_sequence.moved
    BY <1>5, <2>1 DEF TakeReturn, WithReturn, ApiSequences
  <2>4. /\ moved_indexes' \cup multi_mut' \cup immutable_borrow' \subseteq taken \cup {r}
        /\ \A q \in 1 .. r - 1 : ~Fits(q)
    BY <2>1 DEF TakeReturn
  <2>5. api_call'.func = f /\ CurrentParam' = i + 1
    BY <1>5, <2>1 DEF TakeReturn, ApiCalls, CurrentParam
  <2>6. ASSUME Promised
        PROVE  StillSupplied(new_sequence', f, K, i + 1,
                             moved_indexes' \cup multi_mut' \cup immutable_borrow')
    <3>1. PICK P \in [K -> DOMAIN new_sequence.functions] :
               /\ SuppliedAt(new_sequence, f, K, P)
               /\ \A k \in K : k >= i => \A q \in taken : q < P[k]
      BY <1>7, <2>6
    <3>2. i \in K /\ P[i] \in DOMAIN new_sequence.functions /\ Fits(P[i])
      BY <1>1, <1>2, <2>2, <3>1, SuppliedFits
    <3>3. r \in Nat /\ P[i] \in Nat /\ r <= P[i]
      <4>1. r \in Nat /\ P[i] \in Nat /\ P[i] >= 1
        BY <1>5, <3>2
      <4>2. P[i] \notin 1 .. r - 1
        BY <2>4, <3>2
      <4> QED BY <4>1, <4>2
    <3>4. K \subseteq Nat
      <4>1. \A k \in DOMAIN InputsOf(f) : k \in Nat
        BY <1>1, <1>5, FunctionTypes DEF CorrectInv, LinkInv, TypeInv, TypeOK
      <4> QED BY <4>1 DEF Needed
    <3>5. ASSUME NEW k \in K, k >= i + 1, NEW q \in taken \cup {r} PROVE q < P[k]
      <4>1. CASE q \in taken
        <5>1. k >= i
          BY <1>5, <3>4, <3>5
        <5> QED BY <3>1, <4>1, <5>1
      <4>2. CASE q = r
        <5>1. i < k
          BY <1>5, <3>4, <3>5
        <5>2. P[i] < P[k]
          BY <3>1, <3>2, <5>1 DEF SuppliedAt
        <5>3. P[k] \in Nat
          BY <1>5, <3>1
        <5> QED BY <3>3, <4>2, <5>2, <5>3
      <4> QED BY <4>1, <4>2
    <3>6. SuppliedAt(new_sequence', f, K, P)
      BY <2>3, <3>1 DEF SuppliedAt
    <3>7. \A k \in K : k >= i + 1 =>
             \A q \in moved_indexes' \cup multi_mut' \cup immutable_borrow' : q < P[k]
      BY <2>4, <3>5
    <3> QED BY <2>3, <3>1, <3>6, <3>7 DEF StillSupplied
  <2>7. pc' = "param" /\ Promised' =>
          StillSupplied(new_sequence', api_call'.func, Needed(api_call'.func),
                        CurrentParam', moved_indexes' \cup multi_mut' \cup immutable_borrow')
    BY <1>2, <1>p, <2>5, <2>6
  <2> QED BY <1>1, <1>2, <1>3, <1>4, <2>2, <2>7, SupplyInvFrom
<1>9. CASE fuzzable_param
  <2>1. pc' = "param" /\ UNCHANGED <<moved_indexes, multi_mut, immutable_borrow>>
    BY <1>2, <1>9 DEF fuzzable_param
  <2>2. /\ new_sequence'.functions = new_sequence.functions
        /\ new_sequence'.moved = new_sequence.moved
    BY <1>5, <1>9 DEF fuzzable_param, ApiSequences
  <2>3. api_call'.func = f /\ CurrentParam' = i + 1
    BY <1>5, <1>9 DEF fuzzable_param, ApiCalls, CurrentParam
  <2>4. ASSUME Promised
        PROVE  StillSupplied(new_sequence', f, K, i + 1, taken)
    <3>1. PICK P \in [K -> DOMAIN new_sequence.functions] :
               /\ SuppliedAt(new_sequence, f, K, P)
               /\ \A k \in K : k >= i => \A q \in taken : q < P[k]
      BY <1>7, <2>4
    <3>2. K \subseteq Nat
      <4>1. \A k \in DOMAIN InputsOf(f) : k \in Nat
        BY <1>1, <1>5, FunctionTypes DEF CorrectInv, LinkInv, TypeInv, TypeOK
      <4> QED BY <4>1 DEF Needed
    <3>3. \A k \in K : k >= i + 1 => k >= i
      BY <1>5, <3>2
    <3>4. SuppliedAt(new_sequence', f, K, P)
      BY <2>2, <3>1 DEF SuppliedAt
    <3> QED BY <2>2, <3>1, <3>3, <3>4 DEF StillSupplied
  <2>5. pc' = "param" /\ Promised' =>
          StillSupplied(new_sequence', api_call'.func, Needed(api_call'.func),
                        CurrentParam', moved_indexes' \cup multi_mut' \cup immutable_borrow')
    BY <1>2, <1>p, <2>1, <2>3, <2>4
  <2> QED BY <1>1, <1>2, <1>3, <1>4, <2>1, <2>5, SupplyInvFrom
<1>10. CASE refuse_param
  <2>1. MoreParams /\ pc' = "none"
    BY <1>10 DEF refuse_param
  <2>2. ~IsFuzzable(CurrentType)
    <3>1. i \in DOMAIN api_functions[f].inputs
          /\ CurrentType = api_functions[f].inputs[i]
      BY <2>1 DEF MoreParams, CurrentType, InputsOf
    <3>2. IsFuzzable(CurrentType) => FuzzableTypeOf(CurrentType) # NoFuzzableType
      BY <1>6, <3>1 DEF contains_unsupported_fuzzable_type
    <3> QED BY <1>10, <3>2 DEF refuse_param
  <2>3. \A r \in DOMAIN new_sequence.functions : ~Fits(r)
    BY <1>10, <2>2 DEF refuse_param
  <2>4. ~Promised
    <3>1. SUFFICES ASSUME Promised PROVE FALSE
      OBVIOUS
    <3>2. PICK P \in [K -> DOMAIN new_sequence.functions] :
               /\ SuppliedAt(new_sequence, f, K, P)
               /\ \A k \in K : k >= i => \A q \in taken : q < P[k]
      BY <1>7, <3>1
    <3>3. P[i] \in DOMAIN new_sequence.functions /\ Fits(P[i])
      BY <1>1, <1>2, <2>1, <2>2, <3>2, SuppliedFits
    <3> QED BY <2>3, <3>3
  <2> QED BY <1>1, <1>2, <1>3, <1>4, <1>p, <2>1, <2>4, SupplyInvFrom
<1>11. CASE add_fn
  <2>1. new_sequence' = PendingOf(new_sequence, api_call, moved_indexes)
    BY <1>11 DEF add_fn, PendingOf
  <2>2. new_sequence'.fuzzable_params = new_sequence.fuzzable_params
    BY <1>5, <1>11 DEF add_fn, ApiSequences
  <2>3. pc' = "some"
    <3> DEFINE s == PendingOf(new_sequence, api_call, moved_indexes)
    <3>1. SUFFICES ASSUME NEW z \in DOMAIN new_sequence.fuzzable_params
                   PROVE  ~IsMultiDynamic(new_sequence.fuzzable_params[z])
      BY <1>11 DEF add_fn
    <3>2. /\ s \in ApiSequences /\ CorrectTarget(s)
          /\ s.fuzzable_params = new_sequence.fuzzable_params
      BY <1>1, <1>2, AtParam, PendingFields
    <3>3. Linked(s)
      BY <1>1, <1>2, <1>11, CompleteLinked DEF add_fn
    <3> QED BY <1>3, <3>1, <3>2, <3>3, SlotsSupported
  <2> QED BY <1>1, <1>2, <1>3, <1>4, <2>3, SupplyInvFrom
<1> QED BY <1>8, <1>9, <1>10, <1>11 DEF IsFunSatisfied

\* A function that needs one value at most needs this one.
LEMMA UnaryNeeds ==
    ASSUME TypeOK, Unary, NEW f \in Funs, NEW k \in Needed(f)
    PROVE  Needed(f) = {k} /\ k \in Nat
<1>1. InputsOf(f) \in Seq(Types)
  BY FunctionTypes DEF TypeOK
<1>2. Len(InputsOf(f)) \in Nat /\ Needed(f) \subseteq 1 .. Len(InputsOf(f))
  BY <1>1 DEF Needed
<1>3. IsFiniteSet(Needed(f))
  <2> DEFINE D == 1 .. Len(InputsOf(f))
  <2>1. IsFiniteSet(D) /\ Needed(f) \subseteq D
    BY <1>2, FS_Interval
  <2> HIDE DEF D
  <2> QED BY <2>1, FS_Subset
<1>4. {k} \subseteq Needed(f) /\ Cardinality({k}) = 1 /\ Cardinality(Needed(f)) \in Nat
  BY <1>3, FS_Singleton, FS_CardinalityType
<1>5. Cardinality(Needed(f)) <= 1
  BY DEF Unary
<1>6. Cardinality({k}) <= Cardinality(Needed(f))
      /\ (Cardinality({k}) = Cardinality(Needed(f)) => {k} = Needed(f))
  BY <1>3, <1>4, FS_Subset
<1>7. Cardinality({k}) = Cardinality(Needed(f))
  BY <1>4, <1>5, <1>6
<1> QED BY <1>2, <1>6, <1>7

\* A search by levels that tries a sequence which leads to the function.
LEMMA TrySupplied ==
    ASSUME CorrectInv, NEW who \in {"bfs", "deep"}, TryFunction(who),
           next_fun \in Funs, UNCHANGED api_functions, UNCHANGED api_dependencies,
           Promised'
    PROVE  StillSupplied(new_sequence', api_call'.func, Needed(api_call'.func),
                         CurrentParam',
                         moved_indexes' \cup multi_mut' \cup immutable_borrow')
<1>1. TypeOK
  BY DEF CorrectInv, LinkInv, TypeInv
<1>2. PICK n \in tmp_sequences :
         FirstOf(n) /\ Satisfy(api_sequences[n], next_fun, who)
  BY DEF TryFunction
<1> DEFINE f == next_fun
           s == api_sequences[n]
<1>3. /\ n \in DOMAIN api_sequences /\ s \in ApiSequences
      /\ tmp_sequences \subseteq Nat
  BY <1>1, LevelTypes
<1>4. Linked(s) /\ CorrectTarget(s)
  BY <1>3, GeneratedCorrect
<1>5. /\ caller' = who /\ api_call' = ApiCall(f)
      /\ moved_indexes' = {} /\ multi_mut' = {} /\ immutable_borrow' = {}
      /\ UNCHANGED <<tmp_sequences, api_sequences>>
  BY <1>2 DEF Satisfy, TryFunction
<1>6. api_call'.func = f /\ CurrentParam' = 1
  BY <1>5 DEF ApiCall, CurrentParam
<1>7. new_sequence'.functions = s.functions /\ new_sequence'.moved = s.moved
  BY <1>2, <1>3 DEF Satisfy, ApiSequences
<1>8. Unary /\ Leads(s, f)
  <2>1. /\ Unary
        /\ \E m \in tmp_sequences : FirstOf(m) /\ Leads(api_sequences[m], f)
    BY <1>5, <1>6, StableLeads DEF Promised
  <2>2. \A m \in tmp_sequences : FirstOf(m) => m = n
    BY <1>2, <1>3 DEF FirstOf
  <2> QED BY <2>1, <2>2
<1>9. StillSupplied(s, f, Needed(f), 1, {})
  <2>1. CASE s.functions = <<>>
    <3>1. Needed(f) = {}
      BY <1>8, <2>1 DEF Leads
    <3> DEFINE P == [k \in {} |-> 1]
    <3>2. P \in [{} -> DOMAIN s.functions]
      OBVIOUS
    <3> HIDE DEF P
    <3>3. SuppliedAt(s, f, {}, P)
      BY <3>2 DEF SuppliedAt
    <3> QED BY <3>1, <3>2, <3>3 DEF StillSupplied
  <2>2. CASE s.functions # <<>>
    <3>1. PICK k \in Needed(f) : check_dependency(last_api_func_index(s), f, k)
      BY <1>8, <2>2 DEF Leads, Feeds
    <3>2. Needed(f) = {k} /\ k \in Nat
      BY <1>1, <1>8, <3>1, UnaryNeeds
    <3>3. EndsWithSupplier(s, f, k)
      BY <2>2, <3>1 DEF EndsWithSupplier
    <3> QED BY <1>3, <1>4, <3>2, <3>3, FirstSupplied
  <2> QED BY <2>1, <2>2
<1>10. StillSupplied(new_sequence', f, Needed(f), 1, {})
  <2>1. PICK P \in [Needed(f) -> DOMAIN s.functions] : SuppliedAt(s, f, Needed(f), P)
    BY <1>9 DEF StillSupplied
  <2>2. SuppliedAt(new_sequence', f, Needed(f), P)
    BY <1>7, <2>1 DEF SuppliedAt
  <2> QED BY <1>7, <2>1, <2>2 DEF StillSupplied
<1>11. moved_indexes' \cup multi_mut' \cup immutable_borrow' = {}
  BY <1>5
<1> QED BY <1>6, <1>10, <1>11

LEMMA BfsSupply ==
    ASSUME SupplyInv, Bfs
    PROVE  SupplyInv'
<1> USE DEF graphVars, resultVars, satVars, bfsVars, roundVars, mergeVars,
            coverVars
<1>1. CorrectInv' /\ CorrectInv
  BY BfsCorrect DEF SupplyInv
<1>2. UNCHANGED <<api_functions, api_dependencies, algorithm_error>>
  BY DEF Bfs, bfs_start, bfs_level, bfs_try, bfs_skip, bfs_return,
         bfs_next_sequence, bfs_next_level, bfs_end
<1>3. Supported /\ NoAlgorithmError'
  BY <1>2 DEF SupplyInv, SuppliedSoFar, NoAlgorithmError
<1>4. CASE bfs_try
  <2>1. TryFunction("bfs") /\ next_fun \in Funs
    BY <1>4 DEF bfs_try, TryFunction
  <2>2. pc' = "param" /\ caller' = "bfs"
    BY <1>4 DEF bfs_try, Satisfy
  <2>3. ~InRound'
    BY <2>2 DEF InRound, Satisfying
  <2>4. Promised' =>
          StillSupplied(new_sequence', api_call'.func, Needed(api_call'.func),
                        CurrentParam', moved_indexes' \cup multi_mut' \cup immutable_borrow')
    BY <1>1, <1>2, <2>1, TrySupplied
  <2> QED BY <1>1, <1>2, <1>3, <2>2, <2>3, <2>4, SupplyInvFrom
<1>5. CASE \/ bfs_start \/ bfs_level \/ bfs_skip \/ bfs_return
           \/ bfs_next_sequence \/ bfs_next_level \/ bfs_end
  <2>1. pc' \in {"level", "extend", "cover", "done"}
    BY <1>5 DEF bfs_start, bfs_level, bfs_skip, bfs_return, bfs_next_sequence,
                bfs_next_level, bfs_end
  <2>2. ~InRound'
    BY <2>1 DEF InRound, Satisfying
  <2> QED BY <1>1, <1>2, <1>3, <2>1, <2>2, SupplyInvFrom
<1> QED BY <1>4, <1>5 DEF Bfs

\* The suppliers chosen for a function end with what its parameters take.
LEMMA ChosenSupplies ==
    ASSUME TypeOK, NEW f, NEW k, Suppliers(f, k) # {},
           \A n \in candidates : api_sequences[n].functions # <<>>
    PROVE  EndsWithSupplier(api_sequences[ChosenSupplier(f, k)], f, k)
<1> DEFINE S == Suppliers(f, k)
           F == {n \in S : ~has_no_fuzzables(api_sequences[n])}
<1>1. ChosenSupplier(f, k) \in S
  <2> DEFINE N == Len(api_sequences)
  <2>1. S \subseteq 1 .. N /\ N \in Nat /\ F \subseteq S
    BY DEF Suppliers, TypeOK
  <2> HIDE DEF S, N, F
  <2>2. F # {} => \E n \in F : \A m \in F : n <= m
    <3>1. F \subseteq Nat
      BY <2>1
    <3> QED BY <3>1, LeastExists
  <2>3. \E n \in S : \A m \in S : m <= n
    BY <2>1, GreatestExists DEF S
  <2>4. ChosenSupplier(f, k) =
          IF F # {} THEN CHOOSE n \in F : \A m \in F : n <= m
                    ELSE CHOOSE n \in S : \A m \in S : m <= n
    BY DEF ChosenSupplier, S, F
  <2>5. CASE F # {}
    <3>1. (CHOOSE n \in F : \A m \in F : n <= m) \in F
      BY <2>2, <2>5
    <3> QED BY <2>1, <2>4, <2>5, <3>1
  <2>6. CASE F = {}
    <3>1. (CHOOSE n \in S : \A m \in S : m <= n) \in S
      BY <2>3
    <3> QED BY <2>4, <2>6, <3>1
  <2> QED BY <2>5, <2>6
<1> QED BY <1>1 DEF Suppliers, EndsWithSupplier

LEMMA CoverSupply ==
    ASSUME SupplyInv, Cover
    PROVE  SupplyInv'
<1> USE DEF graphVars, resultVars, satVars, bfsVars, roundVars, mergeVars,
            coverVars
<1>0. UNCHANGED <<api_functions, api_dependencies>>
  BY DEF Cover, cover_start, cover_round, cover_skip, cover_node,
         merge_sequences, cover_try, cover_return, cover_end_round, cover_end
<1>1. CorrectInv' /\ CorrectInv /\ TypeOK
  BY CoverCorrect DEF SupplyInv, CorrectInv, LinkInv, TypeInv
<1>2. Supported /\ SuppliedSoFar /\ NoAlgorithmError
  BY DEF SupplyInv, SuppliedSoFar
<1>3. ASSUME pc = "merge"
      PROVE  /\ CorrectTarget(new_sequence) /\ Linked(new_sequence)
             /\ new_sequence \in ApiSequences /\ api_call.func \in Funs
             /\ Needed(api_call.func) \subseteq Nat
  <2>1. /\ CorrectTarget(new_sequence) /\ Linked(new_sequence)
        /\ new_sequence \in ApiSequences /\ api_call.func \in Funs
    BY <1>1, <1>3 DEF CorrectInv, CorrectSoFar, Pending, LinkInv, LinkedSoFar, TypeOK,
                      TypeInv, Located
  <2>2. Needed(api_call.func) \subseteq Nat
    BY <1>1, <2>1, FunctionTypes DEF TypeOK, Needed
  <2> QED BY <2>1, <2>2
<1>4. CASE cover_start
  <2>1. pc' = "round" /\ UNCHANGED algorithm_error
    BY <1>4 DEF cover_start
  <2>2. ~InRound' /\ NoAlgorithmError'
    BY <1>2, <2>1 DEF InRound, Satisfying, NoAlgorithmError
  <2> QED BY <1>0, <1>1, <1>2, <2>1, <2>2, SupplyInvFrom
<1>5. CASE cover_round
  <2>1. /\ pc' = "node" /\ UNCHANGED <<algorithm_error, api_sequences>>
        /\ candidates' = choose_candidate_sequence_for_merge
    BY <1>5 DEF cover_round
  <2>2. \A n \in candidates' : api_sequences'[n].functions # <<>>
    BY <2>1 DEF choose_candidate_sequence_for_merge
  <2>3. NoAlgorithmError'
    BY <1>2, <2>1 DEF NoAlgorithmError
  <2> QED BY <1>0, <1>1, <1>2, <2>1, <2>2, <2>3, SupplyInvFrom
<1>6. ASSUME NEW f \in todo, cover_skip(f) PROVE SupplyInv'
  <2>1. /\ pc = "node" /\ pc' = "node"
        /\ UNCHANGED <<algorithm_error, api_sequences, candidates>>
    BY <1>6 DEF cover_skip
  <2>2. \A n \in candidates' : api_sequences'[n].functions # <<>>
    BY <1>2, <2>1 DEF SuppliedSoFar, InRound
  <2>3. NoAlgorithmError'
    BY <1>2, <2>1 DEF NoAlgorithmError
  <2> QED BY <1>0, <1>1, <1>2, <2>1, <2>2, <2>3, SupplyInvFrom
<1>7. ASSUME NEW f \in todo, cover_node(f) PROVE SupplyInv'
  <2>1. /\ pc = "node" /\ pc' = "merge" /\ CanBeCovered(f)
        /\ UNCHANGED <<algorithm_error, api_sequences, candidates>>
        /\ dependents' = [k \in Needed(f) |-> ChosenSupplier(f, k)]
        /\ to_merge' = Needed(f) /\ new_sequence' = NewSequence
        /\ api_call'.func = f
    BY <1>7 DEF cover_node, ApiCall
  <2>2. \A n \in candidates : api_sequences[n].functions # <<>>
    BY <1>2, <2>1 DEF SuppliedSoFar, InRound
  <2>3. \A k \in Needed(f) : EndsWithSupplier(api_sequences[ChosenSupplier(f, k)], f, k)
    BY <1>1, <2>1, <2>2, ChosenSupplies DEF CanBeCovered
  <2>4. DOMAIN dependents' = Needed(f)
        /\ \A k \in Needed(f) : dependents'[k] = ChosenSupplier(f, k)
    BY <2>1
  <2>5. StillSupplied(NewSequence, f, {}, 1, {})
    <3> DEFINE P == [k \in {} |-> 1]
    <3>1. P \in [{} -> DOMAIN NewSequence.functions]
      OBVIOUS
    <3> HIDE DEF P
    <3>2. SuppliedAt(NewSequence, f, {}, P)
      BY <3>1 DEF SuppliedAt
    <3> QED BY <3>1, <3>2 DEF StillSupplied
  <2>6. DOMAIN dependents' \ to_merge' = {}
    BY <2>1, <2>4
  <2>7. NoAlgorithmError'
    BY <1>2, <2>1 DEF NoAlgorithmError
  <2> QED BY <1>0, <1>1, <1>2, <2>1, <2>2, <2>3, <2>4, <2>5, <2>6, <2>7, SupplyInvFrom
<1>8. CASE merge_sequences
  <2> DEFINE f == api_call.func
             D == DOMAIN dependents
             K == D \ to_merge
  <2>1. PICK k \in to_merge :
           /\ \A j \in to_merge : k <= j
           /\ to_merge' = to_merge \ {k}
           /\ new_sequence' =
                IF to_merge = D THEN api_sequences[dependents[k]]
                ELSE MergeAnother(new_sequence, api_sequences[dependents[k]])
    BY <1>8 DEF merge_sequences
  <2>2. /\ pc = "merge" /\ pc' = "merge"
        /\ UNCHANGED <<algorithm_error, api_sequences, candidates, dependents, api_call>>
    BY <1>8 DEF merge_sequences
  <2>3. /\ D = Needed(f)
        /\ \A j \in D : EndsWithSupplier(api_sequences[dependents[j]], f, j)
        /\ \A i \in K, j \in to_merge : i < j
        /\ StillSupplied(new_sequence, f, K, 1, {})
        /\ \A n \in candidates : api_sequences[n].functions # <<>>
    BY <1>2, <2>2 DEF SuppliedSoFar, InRound
  <2>4. to_merge \subseteq D /\ D \subseteq Nat /\ k \in Nat
    BY <1>1, <1>3, <2>1, <2>2, <2>3 DEF TypeOK
  <2> DEFINE s == api_sequences[dependents[k]]
  <2>5. s \in ApiSequences /\ Linked(s) /\ CorrectTarget(s) /\ EndsWithSupplier(s, f, k)
    <3>1. dependents[k] \in DOMAIN api_sequences
      BY <1>1, <2>1 DEF TypeOK
    <3>2. EndsWithSupplier(s, f, k)
      BY <2>1, <2>3, <2>4
    <3> QED BY <1>1, <3>1, <3>2, GeneratedCorrect
  <2>6. D \ to_merge' = K \cup {k}
    BY <2>1, <2>4
  <2>7. StillSupplied(new_sequence', f, K \cup {k}, 1, {})
    <3> HIDE DEF s, f
    <3>1. CASE to_merge = D
      <4>1. K \cup {k} = {k} /\ new_sequence' = s
        BY <2>1, <3>1 DEF s
      <4> QED BY <2>4, <2>5, <4>1, FirstSupplied
    <3>2. CASE to_merge # D
      <4>1. new_sequence' = MergeAnother(new_sequence, s)
        BY <2>1, <3>2 DEF s
      <4>2. K \subseteq Nat /\ \A j \in K : j < k
        BY <2>1, <2>3, <2>4
      <4> HIDE DEF K
      <4>3. /\ new_sequence \in ApiSequences /\ Linked(new_sequence)
            /\ CorrectTarget(new_sequence)
        BY <1>3, <2>2
      <4>4. StillSupplied(MergeAnother(new_sequence, s), f, K \cup {k}, 1, {})
        BY <2>3, <2>4, <2>5, <4>2, <4>3, MergeSupplied
      <4> QED BY <4>1, <4>4
    <3> QED BY <3>1, <3>2
  <2>8. \A i \in D \ to_merge', j \in to_merge' : i < j
    <3>1. \A j \in to_merge' : j \in to_merge /\ k < j
      BY <2>1, <2>4
    <3> QED BY <2>3, <2>6, <3>1
  <2>9. NoAlgorithmError'
    BY <1>2, <2>2 DEF NoAlgorithmError
  <2>10. /\ DOMAIN dependents' = Needed(api_call'.func)
         /\ \A j \in DOMAIN dependents' :
              EndsWithSupplier(api_sequences'[dependents'[j]], api_call'.func, j)
         /\ \A i \in DOMAIN dependents' \ to_merge', j \in to_merge' : i < j
         /\ StillSupplied(new_sequence', api_call'.func,
                          DOMAIN dependents' \ to_merge', 1, {})
    BY <2>2, <2>3, <2>6, <2>7, <2>8
  <2>11. \A n \in candidates' : api_sequences'[n].functions # <<>>
    BY <2>2, <2>3
  <2> QED BY <1>0, <1>1, <1>2, <2>2, <2>9, <2>10, <2>11, SupplyInvFrom
<1>9. CASE cover_try
  <2> DEFINE f == api_call.func
  <2>1. /\ pc = "merge" /\ pc' = "param" /\ caller' = "cover" /\ to_merge = {}
        /\ UNCHANGED <<algorithm_error, api_sequences, candidates>>
        /\ api_call' = ApiCall(f) /\ moved_indexes' = {} /\ multi_mut' = {}
        /\ immutable_borrow' = {}
    BY <1>9 DEF cover_try, Satisfy
  <2>2. /\ new_sequence'.functions = new_sequence.functions
        /\ new_sequence'.moved = new_sequence.moved
    BY <1>3, <1>9, <2>1 DEF cover_try, Satisfy, ApiSequences
  <2>3. /\ DOMAIN dependents = Needed(f)
        /\ StillSupplied(new_sequence, f, DOMAIN dependents \ to_merge, 1, {})
        /\ \A n \in candidates : api_sequences[n].functions # <<>>
    BY <1>2, <2>1 DEF SuppliedSoFar, InRound
  <2>4. StillSupplied(new_sequence, f, Needed(f), 1, {})
    <3>1. DOMAIN dependents \ to_merge = Needed(f)
      BY <2>1, <2>3
    <3> QED BY <2>3, <3>1
  <2>5. StillSupplied(new_sequence', f, Needed(f), 1, {})
    <3>1. PICK P \in [Needed(f) -> DOMAIN new_sequence.functions] :
             SuppliedAt(new_sequence, f, Needed(f), P)
      BY <2>4 DEF StillSupplied
    <3>2. SuppliedAt(new_sequence', f, Needed(f), P)
      BY <2>2, <3>1 DEF SuppliedAt
    <3> QED BY <2>2, <3>1, <3>2 DEF StillSupplied
  <2>6. CurrentParam' = 1 /\ api_call'.func = f
    BY <2>1 DEF CurrentParam, ApiCall
  <2>7. NoAlgorithmError'
    BY <1>2, <2>1 DEF NoAlgorithmError
  <2>8. moved_indexes' \cup multi_mut' \cup immutable_borrow' = {}
    BY <2>1
  <2> QED BY <1>0, <1>1, <1>2, <2>1, <2>3, <2>5, <2>6, <2>7, <2>8, SupplyInvFrom
<1>10. CASE cover_return
  <2>1. /\ pc \in {"some", "none"} /\ caller = "cover" /\ pc' = "node"
        /\ UNCHANGED candidates
    BY <1>10 DEF cover_return
  <2>2. pc = "some"
    BY <1>2, <2>1 DEF SuppliedSoFar, Promised
  <2>3. PushNewSequence /\ UNCHANGED algorithm_error
    BY <1>10, <2>2 DEF cover_return
  <2>4. \A n \in DOMAIN api_sequences : api_sequences'[n] = api_sequences[n]
    BY <1>1, <2>3, PushedAt
  <2>5. \A n \in candidates : api_sequences[n].functions # <<>>
    BY <1>2, <2>1, <2>2 DEF SuppliedSoFar, InRound, Satisfying
  <2>6. \A n \in candidates' : api_sequences'[n].functions # <<>>
    BY <1>1, <2>1, <2>4, <2>5 DEF TypeOK
  <2>7. NoAlgorithmError'
    BY <1>2, <2>3 DEF NoAlgorithmError
  <2> QED BY <1>0, <1>1, <1>2, <2>1, <2>6, <2>7, SupplyInvFrom
<1>11. CASE cover_end_round \/ cover_end
  <2>1. pc' \in {"done", "round"} /\ UNCHANGED algorithm_error
    BY <1>11 DEF cover_end_round, cover_end
  <2>2. ~InRound' /\ NoAlgorithmError'
    BY <1>2, <2>1 DEF InRound, Satisfying, NoAlgorithmError
  <2> QED BY <1>0, <1>1, <1>2, <2>1, <2>2, SupplyInvFrom
<1> QED BY <1>4, <1>5, <1>6, <1>7, <1>8, <1>9, <1>10, <1>11 DEF Cover

LEMMA StutterSupply ==
    ASSUME SupplyInv, UNCHANGED vars
    PROVE  SupplyInv'
<1> USE DEF vars, graphVars, resultVars, satVars, bfsVars, roundVars,
            mergeVars, coverVars
<1>1. CorrectInv'
  BY StutterCorrect DEF SupplyInv
<1>2. Supported'
  BY DEF SupplyInv, SuppliedSoFar, Supported, Funs, contains_unsupported_fuzzable_type
<1>3. NoAlgorithmError' /\ SuppliedSoFar
  BY DEF SupplyInv, NoAlgorithmError
<1>4. /\ UNCHANGED api_functions /\ UNCHANGED api_dependencies
      /\ Needed(api_call.func)' = Needed(api_call.func)
      /\ UNCHANGED <<pc, caller, candidates, api_sequences, dependents, to_merge,
                     api_call, new_sequence, moved_indexes, multi_mut,
                     immutable_borrow>>
      /\ InRound' = InRound /\ CurrentParam' = CurrentParam
  BY DEF Needed, InputsOf, InRound, Satisfying, CurrentParam
<1>p. Promised' <=> Promised
  BY <1>4, StableLeads DEF Promised
<1>5. SuppliedSoFar'
  BY <1>2, <1>3, <1>4, <1>p, StableSupply DEF SuppliedSoFar
<1> QED BY <1>1, <1>3, <1>5 DEF SupplyInv

\* SupplyInv is inductive.
LEMMA SupplyStep == SupplyInv /\ [Next]_vars => SupplyInv'
BY CollectSupply, IsFunSatisfiedSupply, BfsSupply, CoverSupply, StutterSupply
   DEF Next, Terminated

\* The backward search never prints "Should not go to here": whichever suppliers
\* it chose and merged, is_fun_satisfied accepts the function.
THEOREM MergedIsSatisfied == Spec => []NoAlgorithmError
<1>1. SupplyInv => NoAlgorithmError
  BY DEF SupplyInv
<1> QED BY <1>1, InitSupply, SupplyStep, PTL DEF Spec

-----------------------------------------------------------------------------
(* The rounds of the backward search                                       *)

\* The nodes of the graph are finitely many.
LEMMA NodesFinite ==
    ASSUME TypeOK
    PROVE  \A S : S \subseteq Funs => IsFiniteSet(S) /\ Cardinality(S) \in Nat
<1>1. Len(api_functions) \in Nat /\ Funs = 1 .. Len(api_functions)
  BY DEF TypeOK, Funs
<1>2. IsFiniteSet(Funs)
  BY <1>1, FS_Interval
<1> QED BY <1>2, FS_Subset, FS_CardinalityType

\* Who can be covered only depends on the candidates and the graph.
LEMMA StableCandidates ==
    ASSUME UNCHANGED <<api_functions, api_dependencies, api_sequences>>
    PROVE  /\ choose_candidate_sequence_for_merge' = choose_candidate_sequence_for_merge
           /\ UNCHANGED candidates =>
                \A f : CanBeCovered(f)' <=> CanBeCovered(f)
<1>1. choose_candidate_sequence_for_merge' = choose_candidate_sequence_for_merge
  BY DEF choose_candidate_sequence_for_merge, is_sequence_ended, is_end_function,
         contains_mut_borrow, contains_dead_code_except_last_one, IsDead, InputsOf
<1>2. ASSUME UNCHANGED candidates
      PROVE  \A f : CanBeCovered(f)' <=> CanBeCovered(f)
  BY <1>2 DEF CanBeCovered, Needed, InputsOf, Suppliers, check_dependency
<1> QED BY <1>1, <1>2

\* A step that is not of the backward search and does not end the generation.
LEMMA OutsideRounds ==
    ASSUME pc' \notin {"round", "node", "merge", "done"}, ~InRound'
    PROVE  RoundsSoFar' /\ BackwardSearchComplete'
BY DEF RoundsSoFar, BackwardSearchComplete

LEMMA InitRound == Init => RoundInv
<1> SUFFICES ASSUME Init PROVE RoundInv
  OBVIOUS
<1>1. SupplyInv /\ VisitInv
  BY InitSupply, InitVisit
<1>2. pc = "collect"
  BY DEF Init
<1> QED BY <1>1, <1>2 DEF RoundInv, RoundsSoFar, BackwardSearchComplete, InRound,
                          Satisfying

LEMMA IsFunSatisfiedRound ==
    ASSUME RoundInv, IsFunSatisfied
    PROVE  RoundsSoFar' /\ BackwardSearchComplete'
<1> USE DEF graphVars, resultVars, satVars, bfsVars, roundVars, mergeVars,
            coverVars
<1>1. /\ UNCHANGED <<api_functions, api_dependencies, api_sequences, candidates,
                     caller, unvisited_nodes, rounds_left, covered, todo>>
      /\ pc = "param" /\ pc' \in {"param", "some", "none"}
  BY DEF IsFunSatisfied, return_param, TakeReturn, fuzzable_param,
         refuse_param, add_fn
<1>2. api_call'.func = api_call.func
  BY DEF IsFunSatisfied, return_param, TakeReturn, fuzzable_param,
         refuse_param, add_fn, RoundInv, SupplyInv, CorrectInv, LinkInv, TypeInv,
         TypeOK, ApiCalls
<1>3. RoundsSoFar
  BY DEF RoundInv
<1>4. InRound' <=> InRound
  BY <1>1 DEF InRound, Satisfying
<1>5. RoundsSoFar'
  BY <1>1, <1>2, <1>3, <1>4, StableCandidates DEF RoundsSoFar
<1> QED BY <1>1, <1>5 DEF BackwardSearchComplete

LEMMA BfsRound ==
    ASSUME RoundInv, Bfs
    PROVE  RoundsSoFar' /\ BackwardSearchComplete'
<1> USE DEF graphVars, resultVars, satVars, bfsVars, roundVars, mergeVars,
            coverVars
<1>1. CASE bfs_end
  <2>1. IF StopAtEnd THEN pc' = "cover" ELSE pc' = "done"
    BY <1>1 DEF bfs_end
  <2> QED BY <2>1 DEF RoundsSoFar, BackwardSearchComplete, InRound, Satisfying
<1>2. CASE bfs_try
  <2>1. pc' = "param" /\ caller' = "bfs"
    BY <1>2 DEF bfs_try, Satisfy
  <2> QED BY <2>1, OutsideRounds DEF InRound, Satisfying
<1>3. CASE \/ bfs_start \/ bfs_level \/ bfs_skip \/ bfs_return
           \/ bfs_next_sequence \/ bfs_next_level
  <2>1. pc' \in {"level", "extend", "cover"}
    BY <1>3 DEF bfs_start, bfs_level, bfs_skip, bfs_return, bfs_next_sequence,
                bfs_next_level
  <2> QED BY <2>1, OutsideRounds DEF InRound, Satisfying
<1> QED BY <1>1, <1>2, <1>3 DEF Bfs

LEMMA CoverRound ==
    ASSUME RoundInv, Cover
    PROVE  RoundsSoFar' /\ BackwardSearchComplete'
<1> USE DEF graphVars, resultVars, satVars, bfsVars, roundVars, mergeVars,
            coverVars
<1>0. UNCHANGED <<api_functions, api_dependencies>>
  BY DEF Cover, cover_start, cover_round, cover_skip, cover_node,
         merge_sequences, cover_try, cover_return, cover_end_round, cover_end
<1>1. RoundsSoFar /\ VisitedSoFar /\ SuppliedSoFar /\ TypeOK
  BY DEF RoundInv, SupplyInv, VisitInv, LinkInv, TypeInv
<1>2. /\ Cardinality(unvisited_nodes) \in Nat /\ rounds_left \in Nat
      /\ IsFiniteSet(unvisited_nodes)
  BY <1>1, NodesFinite DEF TypeOK
<1>3. CASE cover_start
  <2>1. /\ pc' = "round" /\ rounds_left' = Cardinality(unvisited_nodes')
        /\ unvisited_nodes' \subseteq Funs
    BY <1>3 DEF cover_start, RoundLimit
  <2>2. Cardinality(unvisited_nodes') <= rounds_left'
    BY <1>1, <2>1, NodesFinite
  <2> QED BY <2>1, <2>2 DEF RoundsSoFar, BackwardSearchComplete, InRound, Satisfying
<1>4. CASE cover_round
  <2>1. /\ pc = "round" /\ pc' = "node" /\ rounds_left' = rounds_left - 1
        /\ candidates' = choose_candidate_sequence_for_merge
        /\ todo' = unvisited_nodes
        /\ UNCHANGED <<unvisited_nodes, api_sequences>>
    BY <1>4 DEF cover_round
  <2>2. Cardinality(unvisited_nodes') <= rounds_left' + 1
    BY <1>1, <1>2, <2>1 DEF RoundsSoFar
  <2>3. candidates' = choose_candidate_sequence_for_merge'
    BY <1>0, <2>1, StableCandidates
  <2> QED BY <2>1, <2>2, <2>3 DEF RoundsSoFar, BackwardSearchComplete
<1>5. ASSUME NEW f \in todo, cover_skip(f)
      PROVE  RoundsSoFar' /\ BackwardSearchComplete'
  <2>1. /\ pc = "node" /\ pc' = "node" /\ ~CanBeCovered(f) /\ todo' = todo \ {f}
        /\ UNCHANGED <<candidates, rounds_left, covered, unvisited_nodes, api_sequences>>
    BY <1>5 DEF cover_skip
  <2>2. \A g : CanBeCovered(g)' <=> CanBeCovered(g)
    BY <1>0, <2>1, StableCandidates
  <2>3. InRound
    BY <2>1 DEF InRound
  <2>4. RoundsSoFar'
    <3>1. Cardinality(unvisited_nodes') <= rounds_left' + 1
      BY <1>1, <2>1, <2>3 DEF RoundsSoFar
    <3>2. ASSUME covered' = {}
          PROVE  /\ candidates' = choose_candidate_sequence_for_merge'
                 /\ \A g \in unvisited_nodes' \ todo' : ~CanBeCovered(g)'
      <4>1. candidates' = choose_candidate_sequence_for_merge'
        BY <1>0, <1>1, <2>1, <2>3, <3>2, StableCandidates DEF RoundsSoFar
      <4>2. \A g \in unvisited_nodes \ todo : ~CanBeCovered(g)
        BY <1>1, <2>1, <2>3, <3>2 DEF RoundsSoFar
      <4> QED BY <2>1, <2>2, <4>1, <4>2
    <3> QED BY <2>1, <3>1, <3>2 DEF RoundsSoFar
  <2> QED BY <2>1, <2>4 DEF BackwardSearchComplete
<1>6. ASSUME NEW f \in todo, cover_node(f)
      PROVE  RoundsSoFar' /\ BackwardSearchComplete'
  <2>1. /\ pc = "node" /\ pc' = "merge" /\ todo' = todo \ {f} /\ api_call'.func = f
        /\ UNCHANGED <<candidates, rounds_left, covered, unvisited_nodes, api_sequences>>
    BY <1>6 DEF cover_node, ApiCall
  <2>2. \A g : CanBeCovered(g)' <=> CanBeCovered(g)
    BY <1>0, <2>1, StableCandidates
  <2>3. InRound
    BY <2>1 DEF InRound
  <2>4. RoundsSoFar'
    <3>1. Cardinality(unvisited_nodes') <= rounds_left' + 1
      BY <1>1, <2>1, <2>3 DEF RoundsSoFar
    <3>2. ASSUME covered' = {}
          PROVE  /\ candidates' = choose_candidate_sequence_for_merge'
                 /\ \A g \in unvisited_nodes' \ todo' :
                       g = api_call'.func \/ ~CanBeCovered(g)'
      <4>1. candidates' = choose_candidate_sequence_for_merge'
        BY <1>0, <1>1, <2>1, <2>3, <3>2, StableCandidates DEF RoundsSoFar
      <4>2. \A g \in unvisited_nodes \ todo : ~CanBeCovered(g)
        BY <1>1, <2>1, <2>3, <3>2 DEF RoundsSoFar
      <4> QED BY <2>1, <2>2, <4>1, <4>2
    <3> QED BY <2>1, <3>1, <3>2 DEF RoundsSoFar
  <2> QED BY <2>1, <2>4 DEF BackwardSearchComplete
<1>7. CASE merge_sequences \/ cover_try
  <2>1. /\ pc = "merge"
        /\ pc' = "merge" \/ (pc' = "param" /\ caller' = "cover")
        /\ api_call'.func = api_call.func
        /\ UNCHANGED <<candidates, rounds_left, covered, todo, unvisited_nodes,
                       api_sequences>>
    <3>1. CASE merge_sequences
      BY <3>1 DEF merge_sequences
    <3>2. CASE cover_try
      BY <3>2 DEF cover_try, Satisfy, ApiCall
    <3> QED BY <1>7, <3>1, <3>2
  <2>2. /\ \A g : CanBeCovered(g)' <=> CanBeCovered(g)
        /\ choose_candidate_sequence_for_merge' = choose_candidate_sequence_for_merge
    BY <1>0, <2>1, StableCandidates
  <2>3. InRound
    BY <2>1 DEF InRound
  <2>4. RoundsSoFar'
    BY <1>1, <2>1, <2>2, <2>3 DEF RoundsSoFar
  <2> QED BY <2>1, <2>4 DEF BackwardSearchComplete
<1>8. CASE cover_return
  <2>1. /\ pc \in {"some", "none"} /\ caller = "cover" /\ pc' = "node"
        /\ UNCHANGED <<rounds_left, unvisited_nodes>>
    BY <1>8 DEF cover_return
  <2>2. pc = "some"
    BY <1>1, <2>1 DEF SuppliedSoFar, Promised
  <2>3. covered' # {}
    BY <1>8, <2>2 DEF cover_return
  <2>4. InRound
    BY <2>1 DEF InRound, Satisfying
  <2> QED BY <1>1, <2>1, <2>3, <2>4 DEF RoundsSoFar, BackwardSearchComplete
<1>9. CASE cover_end_round
  <2>1. /\ pc = "node" /\ todo = {}
        /\ UNCHANGED <<api_sequences, api_functions_visited, rounds_left, candidates>>
        /\ IF covered = {}
           THEN pc' = "done" /\ UNCHANGED unvisited_nodes
           ELSE pc' = "round" /\ unvisited_nodes' = unvisited_nodes \ covered
    BY <1>9 DEF cover_end_round
  <2>2. InRound
    BY <2>1 DEF InRound
  <2>3. CASE covered = {}
    <3>1. /\ candidates = choose_candidate_sequence_for_merge
          /\ \A f \in unvisited_nodes : ~CanBeCovered(f)
          /\ unvisited_nodes = Unvisited
      BY <1>1, <2>1, <2>2, <2>3 DEF RoundsSoFar, VisitedSoFar
    <3>2. \A f \in Funs :
            \/ api_functions_visited[f]
            \/ \E k \in Needed(f) :
                 \A n \in choose_candidate_sequence_for_merge :
                   ~check_dependency(last_api_func_index(api_sequences[n]), f, k)
      BY <3>1 DEF Unvisited, CanBeCovered, Suppliers
    <3>3. BackwardSearchComplete'
      <4>1. /\ Funs' = Funs /\ \A f : Needed(f)' = Needed(f)
            /\ choose_candidate_sequence_for_merge' = choose_candidate_sequence_for_merge
            /\ \A o, i, k : check_dependency(o, i, k)' <=> check_dependency(o, i, k)
        BY <1>0, <2>1, StableCandidates DEF Funs, Needed, InputsOf, check_dependency
      <4> QED BY <2>1, <3>2, <4>1 DEF BackwardSearchComplete
    <3> QED BY <2>1, <2>3, <3>3 DEF RoundsSoFar, InRound, Satisfying
  <2>4. CASE covered # {}
    <3>1. PICK f \in covered : TRUE
      BY <2>4
    <3>2. covered \subseteq unvisited_nodes
      BY <1>1, <2>2 DEF VisitedSoFar
    <3>3. /\ unvisited_nodes' \subseteq unvisited_nodes \ {f}
          /\ IsFiniteSet(unvisited_nodes \ {f})
          /\ Cardinality(unvisited_nodes \ {f}) = Cardinality(unvisited_nodes) - 1
      BY <1>2, <2>1, <2>4, <3>1, <3>2, FS_RemoveElement
    <3>4. Cardinality(unvisited_nodes') <= Cardinality(unvisited_nodes) - 1
          /\ Cardinality(unvisited_nodes') \in Nat
      BY <3>3, FS_Subset, FS_CardinalityType
    <3>5. Cardinality(unvisited_nodes') <= rounds_left'
      BY <1>1, <1>2, <2>1, <2>2, <3>4 DEF RoundsSoFar
    <3> QED BY <2>1, <2>4, <3>5 DEF RoundsSoFar, BackwardSearchComplete, InRound,
                                    Satisfying
  <2> QED BY <2>3, <2>4
<1>10. CASE cover_end
  <2>1. /\ pc = "round" /\ rounds_left = 0 /\ pc' = "done"
        /\ UNCHANGED api_functions_visited
    BY <1>10 DEF cover_end
  <2>2. Cardinality(unvisited_nodes) = 0
    BY <1>1, <1>2, <2>1 DEF RoundsSoFar
  <2>3. Unvisited = {}
    BY <1>1, <1>2, <2>1, <2>2, FS_EmptySet DEF VisitedSoFar
  <2>4. \A f \in Funs' : api_functions_visited'[f]
    BY <1>0, <2>1, <2>3 DEF Unvisited, Funs
  <2> QED BY <2>1, <2>4 DEF RoundsSoFar, BackwardSearchComplete, InRound, Satisfying
<1> QED BY <1>3, <1>4, <1>5, <1>6, <1>7, <1>8, <1>9, <1>10 DEF Cover

LEMMA StutterRound ==
    ASSUME RoundInv, UNCHANGED vars
    PROVE  RoundsSoFar' /\ BackwardSearchComplete'
<1> USE DEF vars, graphVars, resultVars, satVars, bfsVars, roundVars,
            mergeVars, coverVars
<1>1. RoundsSoFar /\ BackwardSearchComplete
  BY DEF RoundInv
<1>2. /\ \A g : CanBeCovered(g)' <=> CanBeCovered(g)
      /\ choose_candidate_sequence_for_merge' = choose_candidate_sequence_for_merge
      /\ InRound' <=> InRound
      /\ Funs' = Funs /\ \A f : Needed(f)' = Needed(f)
      /\ \A o, i, k : check_dependency(o, i, k)' <=> check_dependency(o, i, k)
  BY StableCandidates DEF InRound, Satisfying, Funs, Needed, InputsOf,
                          check_dependency
<1>3. RoundsSoFar'
  BY <1>1, <1>2 DEF RoundsSoFar
<1>4. BackwardSearchComplete'
  BY <1>1, <1>2 DEF BackwardSearchComplete
<1> QED BY <1>3, <1>4

\* RoundInv is inductive.
LEMMA RoundStep == RoundInv /\ [Next]_vars => RoundInv'
<1> SUFFICES ASSUME RoundInv, [Next]_vars PROVE RoundInv'
  OBVIOUS
<1>1. SupplyInv' /\ VisitInv'
  BY SupplyStep, VisitStep DEF RoundInv
<1>2. CASE Collect
  <2>1. pc' \in {"collect", "filter", "bfs"}
    BY <1>2 DEF Collect, add_api_function, filter_start, filter_function,
       find_all_dependencies, RoundInv, VisitInv, LinkInv, TypeInv, TypeOK
  <2> QED BY <1>1, <2>1, OutsideRounds DEF RoundInv, InRound, Satisfying
<1>3. CASE IsFunSatisfied
  BY <1>1, <1>3, IsFunSatisfiedRound DEF RoundInv
<1>4. CASE Bfs
  BY <1>1, <1>4, BfsRound DEF RoundInv
<1>5. CASE Cover
  BY <1>1, <1>5, CoverRound DEF RoundInv
<1>6. CASE UNCHANGED vars
  BY <1>1, <1>6, StutterRound DEF RoundInv
<1> QED BY <1>2, <1>3, <1>4, <1>5, <1>6 DEF Next, Terminated

\* The backward search stops only when it cannot go on: its bound on the rounds
\* is never what ends it.
THEOREM BackwardSearchEndsComplete == Spec => []BackwardSearchComplete
<1>1. RoundInv => BackwardSearchComplete
  BY DEF RoundInv
<1> QED BY <1>1, InitRound, RoundStep, PTL DEF Spec

-----------------------------------------------------------------------------
(* Functions that need one value at most                                   *)

\* What a sequence is only depends on the functions.
LEMMA StableSequences ==
    ASSUME UNCHANGED api_functions
    PROVE  /\ \A s : contains_dead_code_except_last_one(s)'
                       <=> contains_dead_code_except_last_one(s)
           /\ \A s, f : EndsWith(s, f)' <=> EndsWith(s, f)
           /\ \A s : NoRepetition(s)' <=> NoRepetition(s)
BY DEF contains_dead_code_except_last_one, IsDead, InputsOf, EndsWith, NoRepetition

\* A call that takes the last result of a sequence without dead code makes
\* another.
LEMMA AppendClean ==
    ASSUME NEW s \in ApiSequences, NEW t \in ApiSequences, NEW call,
           t.functions = Append(s.functions, call),
           ~contains_dead_code_except_last_one(s),
           s.functions # <<>> => Len(s.functions) \in ReturnsUsedBy(t, Len(t.functions))
    PROVE  ~contains_dead_code_except_last_one(t)
<1> DEFINE x == s.functions
           y == t.functions
           l == Len(x)
<1>1. /\ x \in Seq(ApiCalls) /\ y \in Seq(ApiCalls) /\ l \in Nat
      /\ DOMAIN x = 1 .. l /\ DOMAIN y = 1 .. l + 1 /\ Len(y) = l + 1
      /\ \A c \in 1 .. l : y[c] = x[c]
      /\ x # <<>> <=> l > 0
  BY LastCall
<1> HIDE DEF x, y, l
<1>2. \A u \in 1 .. l : ReturnsUsedBy(t, u) = ReturnsUsedBy(s, u)
  BY <1>1 DEF ReturnsUsedBy, x, y
<1>3. ASSUME NEW c \in 1 .. l PROVE ~IsDead(t, c)
  <2>1. CASE c = l
    <3>1. c \in ReturnsUsedBy(t, l + 1) /\ l + 1 \in DOMAIN t.functions
      BY <1>1, <1>3, <2>1 DEF x, y, l
    <3> QED BY <3>1 DEF IsDead
  <2>2. CASE c # l
    <3>1. ~IsDead(s, c) /\ c \in 1 .. l - 1
      BY <1>1, <1>3, <2>2 DEF contains_dead_code_except_last_one, x, l
    <3>2. CASE \E u \in DOMAIN s.functions : c \in ReturnsUsedBy(s, u)
      BY <1>1, <1>2, <3>2 DEF IsDead, x, y
    <3>3. CASE \A u \in DOMAIN s.functions : c \notin ReturnsUsedBy(s, u)
      <4>1. PICK k \in DOMAIN s.functions[c].params :
              /\ s.functions[c].params[k].kind = "return"
              /\ MutableBorrow(InputsOf(s.functions[c].func)[k],
                               s.functions[c].params[k].call_type)
              /\ \E u \in DOMAIN s.functions :
                   u > c /\ s.functions[c].params[k].index \in ReturnsUsedBy(s, u)
        BY <3>1, <3>3 DEF IsDead
      <4>2. t.functions[c] = s.functions[c]
        BY <1>1, <1>3 DEF x, y
      <4>3. \E u \in DOMAIN t.functions :
              u > c /\ t.functions[c].params[k].index \in ReturnsUsedBy(t, u)
        BY <1>1, <1>2, <4>1, <4>2 DEF x, y
      <4> QED BY <4>1, <4>2, <4>3 DEF IsDead
    <3> QED BY <3>2, <3>3
  <2> QED BY <2>1, <2>2
<1>4. 1 .. Len(t.functions) - 1 = 1 .. l
  BY <1>1 DEF y
<1> QED BY <1>3, <1>4 DEF contains_dead_code_except_last_one

\* The last call of a linked sequence takes what it needs from one before it.
LEMMA LastFed ==
    ASSUME NEW s \in ApiSequences, Linked(s), s.functions # <<>>,
           NEW f, last_api_func_index(s) = f
    PROVE  /\ f \in Funs
           /\ Needed(f) # {} =>
                \E r \in 1 .. Len(s.functions) - 1 :
                   /\ r \in ReturnsUsedBy(s, Len(s.functions))
                   /\ Feeds(s.functions[r].func, f)
<1> DEFINE l == Len(s.functions)
<1>1. l \in DOMAIN s.functions /\ s.functions[l].func = f /\ l \in Nat
  BY LastCall
<1>2. LinkedCall(s, l)
  BY <1>1 DEF Linked
<1>3. f \in Funs
  BY <1>1, <1>2 DEF LinkedCall
<1>4. ASSUME NEW k \in Needed(f)
      PROVE  \E r \in 1 .. l - 1 :
                /\ r \in ReturnsUsedBy(s, l)
                /\ Feeds(s.functions[r].func, f)
  <2> DEFINE a == Arg(s, l, k)
  <2>1. k \in DOMAIN s.functions[l].params /\ LinkedArg(s, l, f, k, a)
    BY <1>1, <1>2 DEF LinkedCall, Needed
  <2>2. /\ a.kind = "return" /\ a.index \in 1 .. l - 1
        /\ Dependency(s.functions[a.index].func, f, k) \in api_dependencies
    BY <2>1 DEF LinkedArg, Needed
  <2>3. check_dependency(s.functions[a.index].func, f, k)
    BY <2>2 DEF check_dependency, Dependency
  <2>4. a.index \in ReturnsUsedBy(s, l)
    BY <2>1, <2>2 DEF ReturnsUsedBy, Arg
  <2> HIDE DEF a
  <2> QED BY <2>2, <2>3, <2>4 DEF Feeds
<1> QED BY <1>3, <1>4

\* What feeds a function has not ended its sequence.
LEMMA FeedsNotEnd ==
    ASSUME api_dependencies = AllDependencies, NEW o, NEW f, Feeds(o, f)
    PROVE  o \in Funs /\ ~is_end_function(api_functions[o])
<1>1. PICK d \in AllDependencies : d.output_fun = o
  BY DEF Feeds, check_dependency
<1>2. PICK e \in Funs \X Funs \X UNION {DOMAIN InputsOf(j) : j \in Funs} :
         ~is_end_function(api_functions[e[1]]) /\ d = Dependency(e[1], e[2], e[3])
  BY <1>1 DEF AllDependencies
<1>3. e[1] = o /\ e[1] \in Funs
  BY <1>1, <1>2 DEF Dependency
<1> QED BY <1>2, <1>3

\* A sequence that ends with a function has it visited.
LEMMA EndingIsVisited ==
    ASSUME VisitInv, pc \notin {"collect", "filter", "bfs"},
           NEW n \in DOMAIN api_sequences, NEW f \in Funs, EndsWith(api_sequences[n], f)
    PROVE  api_functions_visited[f]
<1>1. api_sequences[n] \in Generated
  BY DEF Generated
<1> QED BY <1>1 DEF VisitInv, VisitedIsCovered, EndsWith

\* The first sequence that a search by levels makes for a function has neither
\* dead code nor a call that it could do without: what it is built on is the first
\* of its own last function, because an earlier one would have been tried earlier.
LEMMA LevelAccepts ==
    ASSUME UniqueInv, FirstsClean, LevelsSpread, pc = "some",
           caller \in {"bfs", "deep"}, api_call.func \in Unvisited
    PROVE  /\ ~contains_dead_code_except_last_one(new_sequence)
           /\ NoRepetition(new_sequence)
<1> DEFINE f == api_call.func
           t == new_sequence
<1>1. TypeOK /\ VisitInv /\ LevelsSoFar /\ InBfs /\ Satisfying
  BY DEF UniqueInv, VisitInv, LinkInv, TypeInv, InBfs, Satisfying
<1>2. PICK n \in tmp_sequences :
         FirstOf(n) /\ t.functions = Append(api_sequences[n].functions, api_call)
  BY <1>1 DEF LevelsSoFar
<1> DEFINE s == api_sequences[n]
           x == s.functions
           y == t.functions
<1>3. /\ n \in DOMAIN api_sequences /\ s \in ApiSequences /\ t \in ApiSequences
      /\ Len(x) = len /\ len \in Nat
      /\ \A m \in DOMAIN api_sequences :
           /\ m \in Nat /\ api_sequences[m] \in ApiSequences
           /\ Len(api_sequences[m].functions) \in Nat
  BY <1>1, LevelTypes DEF LevelsSoFar, TypeOK
<1>4. /\ x \in Seq(ApiCalls) /\ y = Append(x, api_call)
      /\ DOMAIN x = 1 .. len /\ (x # <<>> <=> len > 0)
  BY <1>2, <1>3, LastCall
<1>5. /\ Len(y) = len + 1 /\ DOMAIN y = 1 .. len + 1
      /\ \A c \in 1 .. len : y[c] = x[c]
      /\ y[len + 1] = api_call
  BY <1>3, <1>4
<1>6. Linked(t) /\ Linked(s) /\ y # <<>> /\ last_api_func_index(t) = f
  BY <1>1, <1>3 DEF VisitInv, VisitedSoFar, LinkInv, LinkedSoFar, ArgumentsLinked,
                    Generated
<1>7. f \in Funs /\ ~api_functions_visited[f]
  BY DEF Unvisited
<1>8. \A m \in DOMAIN api_sequences : ~EndsWith(api_sequences[m], f)
  BY <1>1, <1>7, EndingIsVisited
<1>9. \A m \in DOMAIN api_sequences :
         Tried(m, f) => ~Leads(api_sequences[m], f)
  BY <1>7 DEF LevelsSpread
<1>10. ASSUME NEW c \in 0 .. len - 1
       PROVE  \E m \in DOMAIN api_sequences :
                /\ Len(api_sequences[m].functions) = c
                /\ c > 0 => EndsWith(api_sequences[m], x[c].func)
  BY <1>3 DEF LevelsSpread, Begun
<1>11. ASSUME len > 0 PROVE EndsWith(s, x[len].func)
  BY <1>3, <1>4, <1>11 DEF EndsWith, last_api_func_index
<1> HIDE DEF f, t, s, x, y
<1>12. \A c \in 1 .. len : x[c].func # f
  <2>1. ASSUME NEW c \in 1 .. len, x[c].func = f PROVE FALSE
    <3>1. CASE c = len
      BY <1>3, <1>8, <1>11, <2>1, <3>1 DEF s
    <3>2. CASE c # len
      <4>1. c \in 0 .. len - 1 /\ c > 0
        BY <1>3, <3>2
      <4> QED BY <1>8, <1>10, <2>1, <4>1
    <3> QED BY <3>1, <3>2
  <2> QED BY <2>1
<1>13. CASE Needed(f) = {}
  <2>1. len = 0
    <3>1. ASSUME len > 0 PROVE FALSE
      <4>1. PICK m \in DOMAIN api_sequences : Len(api_sequences[m].functions) = 0
        BY <1>3, <1>10, <3>1
      <4>2. api_sequences[m].functions = <<>>
        BY <1>3, <4>1, LastCall
      <4> QED BY <1>9, <1>13, <3>1, <4>1, <4>2 DEF Leads, Tried
    <3> QED BY <1>3, <3>1
  <2>2. DOMAIN y = {1} /\ 1 .. Len(y) - 1 = {}
    BY <1>5, <2>1
  <2> QED BY <2>2 DEF contains_dead_code_except_last_one, NoRepetition, y, t
<1>14. CASE Needed(f) # {}
  <2>1. PICK r \in 1 .. len :
           r \in ReturnsUsedBy(t, len + 1) /\ Feeds(x[r].func, f)
    <3>1. PICK r \in 1 .. Len(y) - 1 :
             r \in ReturnsUsedBy(t, Len(y)) /\ Feeds(y[r].func, f)
      BY <1>3, <1>6, <1>14, LastFed DEF y
    <3>2. r \in 1 .. len
      BY <1>3, <1>5
    <3> QED BY <1>5, <3>1, <3>2
  <2>2. r = len
    <3>1. ASSUME r # len PROVE FALSE
      <4>1. r \in 0 .. len - 1 /\ r > 0 /\ r < len
        BY <1>3, <2>1, <3>1
      <4>2. PICK m \in DOMAIN api_sequences :
               /\ Len(api_sequences[m].functions) = r
               /\ EndsWith(api_sequences[m], x[r].func)
        BY <1>10, <4>1
      <4>3. Leads(api_sequences[m], f) /\ Tried(m, f)
        BY <2>1, <4>1, <4>2 DEF Leads, EndsWith, Tried
      <4> QED BY <1>9, <4>3
    <3> QED BY <3>1
  <2>3. len > 0 /\ EndsWith(s, x[len].func)
    BY <1>3, <1>11, <2>1
  <2> DEFINE g == x[len].func
  <2>4. g \in Funs /\ api_functions_visited[g]
    <3>1. g \in Funs
      BY <1>3, <1>4, <1>6, <2>3 DEF Linked, LinkedCall, x
    <3> QED BY <1>1, <1>3, <2>3, <3>1, EndingIsVisited DEF s
  <2>5. PICK m \in DOMAIN api_sequences :
           /\ Foremost(m, g)
           /\ ~contains_dead_code_except_last_one(api_sequences[m])
           /\ NoRepetition(api_sequences[m])
    BY <1>1, <2>4 DEF FirstsClean
  <2>6. /\ EndsWith(api_sequences[m], g) /\ m <= n
        /\ Len(api_sequences[m].functions) <= len
    BY <1>3, <2>3, <2>5 DEF Foremost, s, x
  <2>7. Leads(api_sequences[m], f)
    BY <2>1, <2>2, <2>6 DEF Leads, EndsWith
  <2>8. m = n
    <3>1. ASSUME m # n PROVE Tried(m, f)
      <4>1. m \notin tmp_sequences
        BY <1>2, <1>3, <2>6, <3>1 DEF FirstOf
      <4> QED BY <1>3, <2>6, <4>1 DEF Tried
    <3> QED BY <1>9, <2>7, <3>1
  <2>9. ~contains_dead_code_except_last_one(t)
    BY <1>3, <1>4, <1>5, <2>1, <2>2, <2>5, <2>8, AppendClean DEF s, x, y
  <2>10. NoRepetition(t)
    <3>1. \A c, d \in 1 .. len : x[c].func = x[d].func => c = d
      BY <1>4, <2>5, <2>8 DEF NoRepetition, s, x
    <3>2. y[len + 1].func = f /\ \A c \in 1 .. len + 1 : c \in 1 .. len \/ c = len + 1
      BY <1>3, <1>5 DEF f
    <3>3. \A c, d \in 1 .. len + 1 : y[c].func = y[d].func => c = d
      BY <1>5, <1>12, <3>1, <3>2
    <3> QED BY <1>5, <3>3 DEF NoRepetition, y
  <2> QED BY <2>9, <2>10 DEF t
<1> QED BY <1>13, <1>14 DEF t

\* A step that keeps no sequence.
LEMMA SameFirsts ==
    ASSUME UNCHANGED <<api_functions, api_sequences, api_functions_visited>>,
           InBfs' => InBfs, FirstsClean
    PROVE  FirstsClean'
<1>1. \A n, f : Foremost(n, f)' <=> Foremost(n, f)
  BY StableSequences DEF Foremost
<1> QED BY <1>1, StableSequences DEF FirstsClean, Funs

LEMMA SameLevels ==
    ASSUME UNCHANGED <<api_functions, api_dependencies, api_sequences,
                       api_functions_visited>>,
           LevelsSpread, pc' # "level" => next_fun' > 0,
           \A n \in DOMAIN api_sequences : \A f \in Funs :
              Tried(n, f)' /\ Leads(api_sequences[n], f)
                => Tried(n, f) \/ api_functions_visited[f]
    PROVE  LevelsSpread'
<1>1. \A n : Begun(n)' <=> Begun(n)
  BY StableSequences DEF Begun
<1>2. \A s, f : Leads(s, f)' <=> Leads(s, f)
  BY StableLeads
<1> QED BY <1>1, <1>2 DEF LevelsSpread, Funs

\* Keeping a sequence keeps the first ones: it comes last and is not shorter.
LEMMA PushFirsts ==
    ASSUME VisitInv, FirstsClean, pc = "some", PushNewSequence,
           UNCHANGED api_functions, pc' \notin {"collect", "filter", "bfs"},
           InBfs' => InBfs,
           api_call.func \in Unvisited =>
             /\ ~contains_dead_code_except_last_one(new_sequence)
             /\ InBfs' => NoRepetition(new_sequence),
           api_call.func \notin Unvisited =>
             \A m \in DOMAIN api_sequences :
                Len(api_sequences[m].functions) <= Len(new_sequence.functions)
    PROVE  FirstsClean'
<1>f. PICK f : f = api_call.func
  OBVIOUS
<1>k. PICK k : k = Len(api_sequences) + 1
  OBVIOUS
<1>1. /\ TypeOK /\ f \in Funs /\ Funs' = Funs
      /\ EndsWith(new_sequence, f)
      /\ \A g \in Funs : api_functions_visited'[g] =>
                           api_functions_visited[g] \/ (g = f /\ f \in Unvisited)
  <2>1. Unvisited' = Unvisited \ {f}
    BY <1>f, PushVisited
  <2> QED BY <1>f, <2>1 DEF VisitInv, VisitedSoFar, LinkInv, TypeInv, Located, EndsWith,
                      Unvisited, Funs
<1>2. /\ DOMAIN api_sequences' = DOMAIN api_sequences \cup {k}
      /\ api_sequences'[k] = new_sequence
      /\ k \in Nat /\ Len(new_sequence.functions) \in Nat
      /\ \A n \in DOMAIN api_sequences :
           api_sequences'[n] = api_sequences[n] /\ n < k /\ n \in Nat
  BY <1>1, <1>k, PushedAt, LevelTypes, LastCall DEF TypeOK
<1>3. ASSUME NEW g \in Funs, api_functions_visited[g]
      PROVE  \E n \in DOMAIN api_sequences' :
               /\ Foremost(n, g)'
               /\ ~contains_dead_code_except_last_one(api_sequences'[n])
               /\ InBfs' => NoRepetition(api_sequences'[n])
  <2>1. PICK n \in DOMAIN api_sequences :
           /\ Foremost(n, g)
           /\ ~contains_dead_code_except_last_one(api_sequences[n])
           /\ InBfs => NoRepetition(api_sequences[n])
    BY <1>3 DEF FirstsClean
  <2>2. ASSUME NEW m \in DOMAIN api_sequences', EndsWith(api_sequences'[m], g)
        PROVE  n <= m /\ Len(api_sequences'[n].functions) <= Len(api_sequences'[m].functions)
    <3>1. CASE m = k
      <4>1. g = f
        BY <1>1, <1>2, <2>2, <3>1 DEF EndsWith
      <4>2. f \notin Unvisited
        BY <1>3, <4>1 DEF Unvisited
      <4> QED BY <1>2, <1>f, <3>1, <4>2
    <3>2. CASE m # k
      BY <1>2, <2>1, <2>2, <3>2 DEF Foremost
    <3> QED BY <3>1, <3>2
  <2>3. EndsWith(api_sequences'[n], g)
    BY <1>2, <2>1 DEF Foremost
  <2>4. Foremost(n, g)'
    BY <2>2, <2>3, StableSequences DEF Foremost
  <2> QED BY <1>2, <2>1, <2>4
<1>4. ASSUME f \in Unvisited
      PROVE  \E n \in DOMAIN api_sequences' :
               /\ Foremost(n, f)'
               /\ ~contains_dead_code_except_last_one(api_sequences'[n])
               /\ InBfs' => NoRepetition(api_sequences'[n])
  <2>1. ~api_functions_visited[f] /\ pc \notin {"collect", "filter", "bfs"}
    BY <1>4 DEF Unvisited
  <2>2. \A m \in DOMAIN api_sequences : ~EndsWith(api_sequences[m], f)
    BY <1>1, <2>1, EndingIsVisited
  <2>3. \A m \in DOMAIN api_sequences' : EndsWith(api_sequences'[m], f) => m = k
    BY <1>2, <2>2
  <2>4. Foremost(k, f)'
    BY <1>1, <1>2, <2>3, StableSequences DEF Foremost
  <2> QED BY <1>2, <1>4, <1>f, <2>4
<1>5. ASSUME NEW g \in Funs', api_functions_visited'[g]
      PROVE  \E n \in DOMAIN api_sequences' :
               /\ Foremost(n, g)'
               /\ ~contains_dead_code_except_last_one(api_sequences'[n])
               /\ InBfs' => NoRepetition(api_sequences'[n])
  BY <1>1, <1>3, <1>4, <1>5
<1> QED BY <1>5, StableSequences DEF FirstsClean

-----------------------------------------------------------------------------
(* The levels of a search                                                  *)

\* Nothing is visited before the first level.
LEMMA StartSpread ==
    ASSUME StartLevels, UNCHANGED api_functions,
           api_functions_visited' = [f \in Funs |-> FALSE]
    PROVE  FirstsClean' /\ FedAtEnd' /\ (pc' = "level" => LevelsSpread')
<1>1. Funs' = Funs
  BY DEF Funs
<1>2. \A m \in DOMAIN api_sequences' : Len(api_sequences'[m].functions) = 0
  BY DEF StartLevels, NewSequence
<1>3. FirstsClean'
  BY <1>1 DEF FirstsClean
<1>4. FedAtEnd'
  BY <1>2 DEF FedAtEnd, FedWithin
<1>5. ASSUME pc' = "level" PROVE LevelsSpread'
  <2>1. \A m \in DOMAIN api_sequences' : Begun(m)'
    BY <1>2 DEF Begun
  <2>2. \A m \in DOMAIN api_sequences' : \A f : ~Tried(m, f)'
    BY <1>2, <1>5 DEF StartLevels, Tried
  <2> QED BY <1>5, <2>1, <2>2 DEF LevelsSpread
<1> QED BY <1>3, <1>4, <1>5

\* A level leaves out the sequences that have ended, and they lead nowhere.
LEMMA EnterSpread ==
    ASSUME TypeInv, LevelsSpread, EnterLevel, next_fun' = 1,
           \A n \in DOMAIN api_sequences :
              Len(api_sequences[n].functions) = len /\ ~is_sequence_ended(api_sequences[n])
                => n \in tmp_sequences',
           UNCHANGED <<api_functions, api_dependencies, api_functions_visited>>
    PROVE  LevelsSpread'
<1>1. /\ pc = "level" /\ pc' = "extend" /\ UNCHANGED <<api_sequences, len>>
      /\ api_dependencies = AllDependencies /\ TypeOK
  BY DEF EnterLevel, TypeInv, Located
<1>2. ASSUME NEW n \in DOMAIN api_sequences, NEW f \in Funs,
             Tried(n, f)', Leads(api_sequences[n], f)
      PROVE  Tried(n, f)
  <2>1. CASE Len(api_sequences[n].functions) < len
    BY <2>1 DEF Tried
  <2>2. CASE Len(api_sequences[n].functions) = len /\ n \notin tmp_sequences'
    <3>1. is_sequence_ended(api_sequences[n])
      BY <2>2
    <3>2. Feeds(last_api_func_index(api_sequences[n]), f)
      BY <1>2, <3>1 DEF Leads, is_sequence_ended
    <3> QED BY <1>1, <3>1, <3>2, FeedsNotEnd DEF is_sequence_ended
  <2>3. CASE f < 1
    BY <1>1, <2>3 DEF TypeOK, Funs
  <2> QED BY <1>1, <1>2, <2>1, <2>2, <2>3 DEF Tried
<1> QED BY <1>1, <1>2, SameLevels

\* Asking is_fun_satisfied, and its own steps, try nothing that was not tried.
LEMMA TrySpread ==
    ASSUME TypeOK, LevelsSpread, NEW who, TryFunction(who),
           UNCHANGED <<api_functions, api_dependencies, api_functions_visited>>
    PROVE  LevelsSpread'
<1>1. /\ pc = "extend" /\ pc' = "param" /\ next_fun' = next_fun + 1 /\ next_fun \in Nat
      /\ UNCHANGED <<api_sequences, len, tmp_sequences>>
  BY DEF TryFunction, Satisfy, TypeOK
<1>2. next_fun' - 1 = next_fun /\ next_fun' > 0
  BY <1>1
<1>3. \A n, f : Tried(n, f)' => Tried(n, f)
  BY <1>1, <1>2 DEF Tried, FirstOf
<1> QED BY <1>1, <1>2, <1>3, SameLevels

LEMMA SatisfiedSpread ==
    ASSUME LevelsSpread, Satisfying, Satisfying',
           UNCHANGED <<api_functions, api_dependencies, api_sequences,
                       api_functions_visited, len, tmp_sequences, next_fun>>
    PROVE  LevelsSpread'
<1>1. \A n, f : Tried(n, f)' => Tried(n, f)
  BY DEF Tried, FirstOf, Satisfying
<1>2. next_fun' > 0
  BY DEF LevelsSpread, Satisfying
<1> QED BY <1>1, <1>2, SameLevels

\* Fast mode skips functions that are visited.
LEMMA SkipSpread ==
    ASSUME TypeOK, LevelsSpread, bfs_skip
    PROVE  LevelsSpread'
<1> USE DEF graphVars, resultVars, satVars, bfsVars, roundVars, mergeVars,
            coverVars
<1>1. /\ pc = "extend" /\ pc' = "extend" /\ next_fun' = next_fun + 1 /\ next_fun \in Nat
      /\ api_functions_visited[next_fun]
      /\ UNCHANGED <<api_functions, api_dependencies, api_sequences, len, tmp_sequences,
                     api_functions_visited>>
  BY DEF bfs_skip, SkipFun, TypeOK
<1>2. \A n \in DOMAIN api_sequences : \A f \in Funs :
         Tried(n, f)' => Tried(n, f) \/ f = next_fun
  <2>1. \A f \in Funs : f \in Nat
    BY DEF TypeOK, Funs
  <2>2. \A f \in Funs : f < next_fun + 1 => f < next_fun \/ f = next_fun
    BY <1>1, <2>1
  <2> QED BY <1>1, <2>2 DEF Tried, FirstOf
<1>3. next_fun' > 0
  BY <1>1
<1> QED BY <1>1, <1>2, <1>3, SameLevels

\* All functions have been tried with a sequence that is left.
LEMMA NextSequenceSpread ==
    ASSUME TypeOK, LevelsSpread, LevelsSoFar, bfs_next_sequence
    PROVE  LevelsSpread'
<1> USE DEF graphVars, resultVars, satVars, bfsVars, roundVars, mergeVars,
            coverVars
<1>1. PICK n0 \in tmp_sequences : FirstOf(n0) /\ tmp_sequences' = tmp_sequences \ {n0}
  BY DEF bfs_next_sequence
<1>2. /\ pc = "extend" /\ pc' = "extend" /\ next_fun \notin Funs /\ next_fun' = 1
      /\ UNCHANGED <<api_functions, api_dependencies, api_sequences, len,
                     api_functions_visited>>
  BY DEF bfs_next_sequence
<1>3. \A f \in Funs : f < next_fun /\ ~(f < 1)
  <2>1. next_fun \in Nat /\ next_fun > 0
    BY <1>2 DEF TypeOK, LevelsSpread
  <2>2. Len(api_functions) \in Nat /\ Funs = 1 .. Len(api_functions)
    BY DEF TypeOK, Funs
  <2> QED BY <1>2, <2>1, <2>2
<1>4. ASSUME NEW n \in DOMAIN api_sequences, NEW f \in Funs, Tried(n, f)'
      PROVE  Tried(n, f)
  <2>1. CASE Len(api_sequences[n].functions) < len
    BY <2>1 DEF Tried
  <2>2. CASE Len(api_sequences[n].functions) = len /\ n \notin tmp_sequences'
    <3>1. n \notin tmp_sequences \/ n = n0
      BY <1>1, <2>2
    <3> QED BY <1>1, <1>2, <1>3, <2>2, <3>1 DEF Tried
  <2> QED BY <1>2, <1>3, <1>4, <2>1, <2>2 DEF Tried
<1> QED BY <1>2, <1>4, SameLevels

LEMMA LeaveSpread ==
    ASSUME TypeOK, LevelsSpread, LeaveLevel,
           UNCHANGED <<api_functions, api_dependencies, api_functions_visited>>
    PROVE  LevelsSpread'
<1>1. /\ pc = "extend" /\ pc' = "level" /\ len' = len + 1 /\ tmp_sequences = {}
      /\ UNCHANGED <<api_sequences, tmp_sequences>>
  BY DEF LeaveLevel
<1>2. \A n \in DOMAIN api_sequences : Len(api_sequences[n].functions) < len + 1 =>
         \/ Len(api_sequences[n].functions) < len
         \/ Len(api_sequences[n].functions) = len
  BY LevelTypes
<1>3. \A n \in DOMAIN api_sequences : \A f : Tried(n, f)' => Tried(n, f)
  BY <1>1, <1>2 DEF Tried
<1> QED BY <1>1, <1>3, SameLevels

\* A function that its sequence leads to is accepted, and so is visited.
LEMMA ReturnSpread ==
    ASSUME UniqueInv, FirstsClean, LevelsSpread, Unary, ReturnToLevel,
           pc = "none" => ~Promised /\ UNCHANGED api_functions_visited,
           UNCHANGED <<api_functions, api_dependencies>>
    PROVE  FirstsClean' /\ LevelsSpread'
<1>1. /\ pc' = "extend" /\ pc \in {"some", "none"} /\ caller \in {"bfs", "deep"}
      /\ UNCHANGED <<len, tmp_sequences, next_fun>>
  BY DEF ReturnToLevel
<1>2. /\ TypeOK /\ VisitInv /\ LevelsSoFar /\ InBfs /\ Satisfying
      /\ api_call.func \in Funs
  BY <1>1 DEF UniqueInv, VisitInv, LinkInv, TypeInv, Located, InBfs, Satisfying
<1>3. /\ next_fun = api_call.func + 1 /\ api_call.func \in Nat /\ next_fun > 0
      /\ len \in Nat /\ tmp_sequences \subseteq DOMAIN api_sequences
      /\ \A m \in DOMAIN api_sequences : m \in Nat
      /\ \A m \in DOMAIN api_sequences :
           /\ api_sequences[m] \in ApiSequences
           /\ Len(api_sequences[m].functions) \in Nat
           /\ Len(api_sequences[m].functions) <= len + 1
  <2>1. next_fun = api_call.func + 1 /\ api_call.func \in Nat
    BY <1>2 DEF LevelsSoFar, TypeOK, ApiCalls
  <2>2. next_fun > 0
    BY <2>1
  <2> QED BY <1>1, <1>2, <2>1, <2>2, LevelTypes DEF LevelsSoFar
<1>4. ASSUME NEW n \in DOMAIN api_sequences, NEW f \in Funs,
             \/ Len(api_sequences[n].functions) < len
             \/ /\ Len(api_sequences[n].functions) = len
                /\ n \notin tmp_sequences \/ (FirstOf(n) /\ f < next_fun),
             Leads(api_sequences[n], f)
      PROVE  \/ api_functions_visited[f]
             \/ f = api_call.func /\ n \in tmp_sequences /\ FirstOf(n)
  <2>1. f \in Nat
    BY <1>2 DEF TypeOK, Funs
  <2>2. f < next_fun => f < next_fun - 1 \/ f = api_call.func
    BY <1>3, <2>1
  <2>3. Tried(n, f) \/ (f = api_call.func /\ n \in tmp_sequences /\ FirstOf(n))
    BY <1>1, <1>4, <2>2 DEF Tried
  <2> QED BY <1>4, <2>3 DEF LevelsSpread
<1>5. CASE pc = "none"
  <2>1. UNCHANGED <<api_sequences, api_functions_visited>> /\ ~Promised
    BY <1>5 DEF ReturnToLevel
  <2>2. ASSUME NEW n \in DOMAIN api_sequences, NEW f \in Funs,
               Tried(n, f)', Leads(api_sequences[n], f)
        PROVE  api_functions_visited[f]
    <3>1. \/ Len(api_sequences[n].functions) < len
          \/ /\ Len(api_sequences[n].functions) = len
             /\ n \notin tmp_sequences \/ (FirstOf(n) /\ f < next_fun)
      BY <1>1, <2>1, <2>2 DEF Tried, FirstOf
    <3>2. ~(f = api_call.func /\ n \in tmp_sequences /\ FirstOf(n))
      BY <1>1, <2>1, <2>2 DEF Promised
    <3> QED BY <1>4, <2>2, <3>1, <3>2
  <2>3. LevelsSpread'
    BY <1>1, <1>3, <2>1, <2>2, SameLevels
  <2> QED BY <1>2, <2>1, <2>3, SameFirsts
<1>6. CASE pc = "some"
  <2>1. PushNewSequence
    BY <1>6 DEF ReturnToLevel
  <2>k. PICK k : k = Len(api_sequences) + 1
    OBVIOUS
  <2>2. /\ DOMAIN api_sequences' = DOMAIN api_sequences \cup {k}
        /\ api_sequences'[k] = new_sequence
        /\ \A i \in DOMAIN api_sequences : api_sequences'[i] = api_sequences[i]
    BY <1>2, <2>1, <2>k, PushedAt
  <2>3. PICK n0 \in tmp_sequences :
           FirstOf(n0) /\ n0 \in DOMAIN api_sequences
           /\ Len(api_sequences[n0].functions) = len
           /\ OneCallMore(new_sequence, api_sequences[n0])
    BY <1>1, <1>6, BfsAccepts
  <2>4. Len(new_sequence.functions) = len + 1
    BY <1>1, <1>6, BfsAccepts
  <2>5. Funs' = Funs /\ \A g \in Funs :
           (api_functions_visited[g] \/ g = api_call.func) => api_functions_visited'[g]
    <3>1. Unvisited' = Unvisited \ {api_call.func}
      BY <1>1, <1>2, <1>6, <2>1, PushVisited
    <3> QED BY <3>1 DEF Unvisited, Funs
  <2>6. FirstsClean'
    <3>1. \A m \in DOMAIN api_sequences :
             Len(api_sequences[m].functions) <= Len(new_sequence.functions)
      BY <1>3, <2>4
    <3>2. pc' \notin {"collect", "filter", "bfs"}
      BY <1>1
    <3> QED BY <1>1, <1>2, <1>6, <2>1, <3>1, <3>2, LevelAccepts, PushFirsts
  <2>7. ASSUME NEW n \in DOMAIN api_sequences',
               NEW c \in 0 .. Len(api_sequences'[n].functions) - 1
        PROVE  \E m \in DOMAIN api_sequences' :
                  /\ Len(api_sequences'[m].functions) = c
                  /\ c > 0 => EndsWith(api_sequences'[m],
                                       api_sequences'[n].functions[c].func)
    <3>1. CASE n \in DOMAIN api_sequences
      <4>1. \E m \in DOMAIN api_sequences :
               /\ Len(api_sequences[m].functions) = c
               /\ c > 0 => EndsWith(api_sequences[m], api_sequences[n].functions[c].func)
        BY <2>2, <2>7, <3>1 DEF LevelsSpread, Begun
      <4> QED BY <2>2, <3>1, <4>1
    <3>2. CASE n = k /\ c = len
      <4> DEFINE s == api_sequences[n0]
      <4>1. s \in ApiSequences /\ Len(s.functions) = len
        BY <1>3, <2>3
      <4>2. ASSUME len > 0
            PROVE  EndsWith(s, new_sequence.functions[len].func)
        <5>1. /\ s.functions # <<>> /\ len \in DOMAIN s.functions
              /\ last_api_func_index(s) = s.functions[len].func
          BY <4>1, <4>2, <1>3, LastCall
        <5> QED BY <2>3, <5>1 DEF OneCallMore, EndsWith
      <4> QED BY <2>2, <2>3, <3>2, <4>2
    <3>3. CASE n = k /\ c # len
      <4>1. c \in 0 .. len - 1
        BY <1>3, <2>2, <2>4, <2>7, <3>3
      <4>2. PICK m \in DOMAIN api_sequences :
               /\ Len(api_sequences[m].functions) = c
               /\ c > 0 => EndsWith(api_sequences[m], api_sequences[n0].functions[c].func)
        BY <2>3, <4>1 DEF LevelsSpread, Begun
      <4>3. c > 0 => c \in DOMAIN api_sequences[n0].functions
        BY <1>3, <2>3, <4>1, LastCall
      <4>4. c > 0 => new_sequence.functions[c].func = api_sequences[n0].functions[c].func
        BY <2>3, <4>3 DEF OneCallMore
      <4> QED BY <2>2, <3>3, <4>2, <4>4
    <3> QED BY <2>2, <3>1, <3>2, <3>3
  <2>8. ASSUME NEW n \in DOMAIN api_sequences', NEW f \in Funs,
               Tried(n, f)', Leads(api_sequences'[n], f)
        PROVE  api_functions_visited'[f]
    <3>1. \/ Len(api_sequences'[n].functions) < len
          \/ /\ Len(api_sequences'[n].functions) = len
             /\ n \notin tmp_sequences \/ (FirstOf(n) /\ f < next_fun)
      BY <1>1, <2>8 DEF Tried, FirstOf
    <3>2. n \in DOMAIN api_sequences /\ api_sequences'[n] = api_sequences[n]
      BY <1>3, <2>2, <2>4, <3>1
    <3>3. api_functions_visited[f] \/ f = api_call.func
      BY <1>4, <2>8, <3>1, <3>2
    <3> QED BY <2>5, <3>3
  <2>9. \A n \in DOMAIN api_sequences' : Begun(n)'
    BY <2>7, StableSequences DEF Begun
  <2>10. LevelsSpread'
    BY <1>1, <1>3, <2>5, <2>8, <2>9, StableLeads DEF LevelsSpread
  <2> QED BY <2>6, <2>10
<1> QED BY <1>1, <1>5, <1>6

\* When bfs is through, what feeds a function from within a sequence also ends
\* one that was tried.
LEMMA SpreadAtEnd ==
    ASSUME UniqueInv, LevelsSpread, pc = "level"
    PROVE  FedAtEnd
<1>1. /\ TypeOK /\ LevelsSoFar /\ InBfs
  BY DEF UniqueInv, VisitInv, LinkInv, TypeInv, InBfs
<1> SUFFICES ASSUME NEW n \in DOMAIN api_sequences, NEW f \in Unvisited,
                    NEW c \in 1 .. Len(api_sequences[n].functions) - 1,
                    Feeds(api_sequences[n].functions[c].func, f)
             PROVE  FALSE
  BY DEF FedAtEnd, FedWithin
<1>2. /\ Len(api_sequences[n].functions) <= len /\ len \in Nat
      /\ Len(api_sequences[n].functions) \in Nat
  BY <1>1, LevelTypes DEF LevelsSoFar
<1>3. c \in 0 .. Len(api_sequences[n].functions) - 1 /\ c > 0 /\ c < len
  BY <1>2
<1>4. PICK m \in DOMAIN api_sequences :
         /\ Len(api_sequences[m].functions) = c
         /\ EndsWith(api_sequences[m], api_sequences[n].functions[c].func)
  BY <1>3 DEF LevelsSpread, Begun
<1>5. Tried(m, f) /\ Leads(api_sequences[m], f)
  BY <1>3, <1>4 DEF Tried, Leads, EndsWith
<1> QED BY <1>5 DEF LevelsSpread, Unvisited

-----------------------------------------------------------------------------
(* The rounds                                                              *)

\* A step that keeps no sequence and does not change the candidates.
LEMMA RoundSpreadFrom ==
    ASSUME RoundSpread,
           UNCHANGED <<api_functions, api_dependencies, api_sequences, candidates,
                       unvisited_nodes>>,
           \A f \in unvisited_nodes \ (todo' \cup covered') :
              (pc' # "node" /\ f = api_call'.func) \/ ~CanBeCovered(f),
           pc' = "merge" => \A k \in DOMAIN dependents' : dependents'[k] \in candidates,
           pc' \in {"param", "some"} \/ (pc' = "merge" /\ to_merge' = {}) =>
             IF Needed(api_call'.func) = {} THEN BuiltOn(<<>>)'
             ELSE \E n \in candidates : BuiltOn(api_sequences[n].functions)'
    PROVE  RoundSpread'
<1>1. /\ \A f : CanBeCovered(f)' <=> CanBeCovered(f)
      /\ \A f : Needed(f)' = Needed(f)
      /\ \A s, f : FedWithin(s, f)' <=> FedWithin(s, f)
  BY StableCandidates, StableLeads DEF FedWithin, Needed, InputsOf
<1>2. (\A n \in candidates :
         /\ ~contains_dead_code_except_last_one(api_sequences[n])
         /\ \A f \in unvisited_nodes : ~FedWithin(api_sequences[n], f))'
  BY <1>1, StableSequences DEF RoundSpread
<1>3. (\A n \in DOMAIN api_sequences :
         \A f \in unvisited_nodes :
            FedWithin(api_sequences[n], f) => CanBeCovered(f))'
  BY <1>1 DEF RoundSpread
<1>4. (\A f \in unvisited_nodes \ (todo \cup covered) :
         (pc # "node" /\ f = api_call.func) \/ ~CanBeCovered(f))'
  BY <1>1
<1>5. (pc \in {"param", "some"} \/ (pc = "merge" /\ to_merge = {}) =>
         IF Needed(api_call.func) = {} THEN BuiltOn(<<>>)
         ELSE \E n \in candidates : BuiltOn(api_sequences[n].functions))'
  BY <1>1
<1> QED BY <1>2, <1>3, <1>4, <1>5 DEF RoundSpread

\* is_fun_satisfied only adds the call to the sequence it was given.
LEMMA IsFunSatisfiedSpread ==
    ASSUME TypeOK, SpreadSoFar, IsFunSatisfied
    PROVE  SpreadSoFar'
<1> USE DEF graphVars, resultVars, satVars, bfsVars, roundVars, mergeVars,
            coverVars
<1>1. /\ UNCHANGED <<api_functions, api_dependencies, api_sequences,
                     api_functions_visited, tmp_sequences, next_fun, len, caller,
                     candidates, unvisited_nodes, todo, covered>>
      /\ pc = "param" /\ pc' \in {"param", "some", "none"}
  BY DEF IsFunSatisfied, return_param, TakeReturn, fuzzable_param,
         refuse_param, add_fn
<1>2. api_call'.func = api_call.func
  BY DEF IsFunSatisfied, return_param, TakeReturn, fuzzable_param,
         refuse_param, add_fn, TypeOK, ApiCalls
<1>3. pc' = "param" => new_sequence'.functions = new_sequence.functions
  BY DEF IsFunSatisfied, return_param, TakeReturn, WithReturn,
         fuzzable_param, refuse_param, add_fn, TypeOK, ApiSequences
<1>4. ASSUME pc' = "some"
      PROVE  /\ new_sequence'.functions = Append(new_sequence.functions, api_call)
             /\ api_call' = api_call
  <2>1. add_fn
    BY <1>1, <1>4 DEF IsFunSatisfied, return_param, TakeReturn, fuzzable_param,
                      refuse_param
  <2> QED BY <2>1 DEF add_fn, TypeOK, ApiSequences
<1>5. /\ InBfs' <=> InBfs
      /\ InRound' <=> InRound
      /\ Satisfying /\ Satisfying'
  BY <1>1 DEF InBfs, InRound, Satisfying
<1>6. FirstsClean'
  BY <1>1, <1>5, SameFirsts DEF SpreadSoFar
<1>7. InBfs => LevelsSpread'
  BY <1>1, <1>5, SatisfiedSpread DEF SpreadSoFar
<1>8. ASSUME InRound PROVE RoundSpread'
  <2>1. RoundSpread
    BY <1>8 DEF SpreadSoFar
  <2>2. \A f \in unvisited_nodes \ (todo' \cup covered') :
           (pc' # "node" /\ f = api_call'.func) \/ ~CanBeCovered(f)
    BY <1>1, <1>2, <2>1 DEF RoundSpread
  <2>3. IF Needed(api_call.func) = {} THEN new_sequence.functions = <<>>
        ELSE \E n \in candidates : new_sequence.functions = api_sequences[n].functions
    BY <1>1, <2>1 DEF RoundSpread, BuiltOn
  <2>4. ASSUME pc' \in {"param", "some"}
        PROVE  IF Needed(api_call'.func) = {} THEN BuiltOn(<<>>)'
               ELSE \E n \in candidates : BuiltOn(api_sequences[n].functions)'
    BY <1>1, <1>2, <1>3, <1>4, <2>3, <2>4 DEF BuiltOn
  <2>5. pc' # "merge"
    BY <1>1
  <2> QED BY <1>1, <2>1, <2>2, <2>4, <2>5, RoundSpreadFrom
<1> QED BY <1>1, <1>5, <1>6, <1>7, <1>8 DEF SpreadSoFar

LEMMA BfsSpread ==
    ASSUME SpreadInv, Unary, Bfs
    PROVE  SpreadSoFar'
<1> USE DEF graphVars, resultVars, satVars, bfsVars, roundVars, mergeVars,
            coverVars
<1>1. /\ SpreadSoFar /\ UniqueInv /\ SuppliedSoFar /\ TypeInv /\ TypeOK /\ LevelsSoFar
  BY DEF SpreadInv, UniqueInv, RoundInv, SupplyInv, VisitInv, LinkInv, TypeInv
<1>2. UNCHANGED <<api_functions, api_dependencies>>
  BY DEF Bfs, bfs_start, bfs_level, bfs_try, bfs_skip, bfs_return,
         bfs_next_sequence, bfs_next_level, bfs_end
<1>3. CASE bfs_start
  <2>1. /\ StartLevels /\ api_functions_visited' = [f \in Funs |-> FALSE]
        /\ pc' \in {"level", "cover"}
    BY <1>3 DEF bfs_start, StartLevels
  <2>2. FirstsClean' /\ FedAtEnd' /\ (pc' = "level" => LevelsSpread')
    BY <1>2, <2>1, StartSpread
  <2> QED BY <2>1, <2>2 DEF SpreadSoFar, InBfs, InRound, Satisfying
<1>4. CASE bfs_level
  <2>1. /\ EnterLevel /\ next_fun' = 1 /\ pc' = "extend" /\ pc = "level"
        /\ UNCHANGED <<api_sequences, api_functions_visited>>
        /\ \A n \in DOMAIN api_sequences :
             Len(api_sequences[n].functions) = len /\ ~is_sequence_ended(api_sequences[n])
               => n \in tmp_sequences'
    BY <1>4 DEF bfs_level, EnterLevel, ToExtend
  <2>2. InBfs /\ FirstsClean /\ LevelsSpread
    BY <1>1, <2>1 DEF InBfs, SpreadSoFar
  <2>3. FirstsClean' /\ LevelsSpread'
    BY <1>1, <1>2, <2>1, <2>2, SameFirsts, EnterSpread
  <2> QED BY <2>1, <2>3 DEF SpreadSoFar, InRound, Satisfying
<1>5. CASE bfs_try
  <2>1. /\ TryFunction("bfs") /\ pc = "extend" /\ pc' = "param" /\ caller' = "bfs"
        /\ UNCHANGED <<api_sequences, api_functions_visited>>
    BY <1>5 DEF bfs_try, TryFunction, Satisfy
  <2>2. InBfs /\ FirstsClean /\ LevelsSpread
    BY <1>1, <2>1 DEF InBfs, SpreadSoFar
  <2>3. FirstsClean' /\ LevelsSpread'
    BY <1>1, <1>2, <2>1, <2>2, SameFirsts, TrySpread
  <2> QED BY <2>1, <2>3 DEF SpreadSoFar, InRound, Satisfying
<1>6. CASE bfs_skip
  <2>1. /\ pc = "extend" /\ pc' = "extend"
        /\ UNCHANGED <<api_sequences, api_functions_visited>>
    BY <1>6 DEF bfs_skip
  <2>2. InBfs /\ FirstsClean /\ LevelsSpread
    BY <1>1, <2>1 DEF InBfs, SpreadSoFar
  <2>3. FirstsClean' /\ LevelsSpread'
    BY <1>1, <1>2, <1>6, <2>1, <2>2, SameFirsts, SkipSpread
  <2> QED BY <2>1, <2>3 DEF SpreadSoFar, InRound, Satisfying
<1>7. CASE bfs_return
  <2>1. /\ ReturnToLevel /\ pc' = "extend"
        /\ pc \in {"some", "none"} /\ caller = "bfs"
        /\ pc = "none" => UNCHANGED api_functions_visited
    BY <1>7 DEF bfs_return, ReturnToLevel
  <2>2. InBfs /\ FirstsClean /\ LevelsSpread
    BY <1>1, <2>1 DEF InBfs, SpreadSoFar, Satisfying
  <2>3. pc = "none" => ~Promised
    BY <1>1 DEF SuppliedSoFar
  <2>4. FirstsClean' /\ LevelsSpread'
    BY <1>1, <1>2, <2>1, <2>2, <2>3, ReturnSpread
  <2> QED BY <2>1, <2>4 DEF SpreadSoFar, InRound, Satisfying
<1>8. CASE bfs_next_sequence
  <2>1. /\ pc = "extend" /\ pc' = "extend"
        /\ UNCHANGED <<api_sequences, api_functions_visited>>
    BY <1>8 DEF bfs_next_sequence
  <2>2. InBfs /\ FirstsClean /\ LevelsSpread
    BY <1>1, <2>1 DEF InBfs, SpreadSoFar
  <2>3. FirstsClean' /\ LevelsSpread'
    BY <1>1, <1>2, <1>8, <2>1, <2>2, SameFirsts, NextSequenceSpread
  <2> QED BY <2>1, <2>3 DEF SpreadSoFar, InRound, Satisfying
<1>9. CASE bfs_next_level
  <2>1. /\ LeaveLevel /\ pc = "extend" /\ pc' = "level"
        /\ UNCHANGED <<api_sequences, api_functions_visited>>
    BY <1>9 DEF bfs_next_level, LeaveLevel
  <2>2. InBfs /\ FirstsClean /\ LevelsSpread
    BY <1>1, <2>1 DEF InBfs, SpreadSoFar
  <2>3. FirstsClean' /\ LevelsSpread'
    BY <1>1, <1>2, <2>1, <2>2, SameFirsts, LeaveSpread
  <2> QED BY <2>1, <2>3 DEF SpreadSoFar, InRound, Satisfying
<1>10. CASE bfs_end
  <2>1. /\ pc = "level" /\ pc' \in {"cover", "done"}
        /\ UNCHANGED <<api_sequences, api_functions_visited>>
    BY <1>10 DEF bfs_end
  <2>2. InBfs /\ FirstsClean /\ LevelsSpread /\ ~InBfs' /\ ~InRound'
    BY <1>1, <2>1 DEF InBfs, SpreadSoFar, InRound, Satisfying
  <2>3. FedAtEnd
    BY <1>1, <2>1, <2>2, SpreadAtEnd
  <2>4. FedAtEnd'
    BY <1>2, <2>1, <2>3, StableLeads, SameResults DEF FedAtEnd, FedWithin
  <2>5. FirstsClean'
    BY <1>2, <2>1, <2>2, SameFirsts
  <2> QED BY <2>1, <2>2, <2>4, <2>5 DEF SpreadSoFar
<1> QED BY <1>3, <1>4, <1>5, <1>6, <1>7, <1>8, <1>9, <1>10 DEF Bfs

\* A candidate leads to a function that its last call feeds.
LEMMA FedIsCovered ==
    ASSUME TypeOK, Unary, NEW g \in Funs, NEW n \in candidates,
           Feeds(last_api_func_index(api_sequences[n]), g)
    PROVE  CanBeCovered(g)
<1>1. PICK k \in Needed(g) : check_dependency(last_api_func_index(api_sequences[n]), g, k)
  BY DEF Feeds
<1>2. Needed(g) = {k}
  BY <1>1, UnaryNeeds
<1> QED BY <1>1, <1>2 DEF CanBeCovered, Suppliers

\* What the backward search accepts.
LEMMA RoundAccepts ==
    ASSUME SpreadInv, Unary, pc = "some", caller = "cover"
    PROVE  /\ ~contains_dead_code_except_last_one(new_sequence)
           /\ \A g \in unvisited_nodes : FedWithin(new_sequence, g) => CanBeCovered(g)
<1> DEFINE f == api_call.func
           t == new_sequence
<1>1. /\ TypeOK /\ VisitInv /\ InRound /\ RoundSpread /\ Linked(t)
      /\ t \in ApiSequences /\ f \in Funs /\ f \in unvisited_nodes
      /\ unvisited_nodes \subseteq Funs
  BY DEF SpreadInv, SpreadSoFar, UniqueInv, VisitInv, LinkInv, TypeInv, TypeOK, Located,
         LinkedSoFar, InRound, Satisfying, VisitedSoFar, Unvisited
<1>2. t.functions # <<>> /\ last_api_func_index(t) = f
  BY <1>1 DEF VisitInv, VisitedSoFar
<1>3. CASE Needed(f) = {}
  <2>1. t.functions = Append(<<>>, api_call)
    BY <1>1, <1>3 DEF RoundSpread, BuiltOn
  <2>2. 1 .. Len(t.functions) - 1 = {}
    BY <2>1
  <2> QED BY <2>2 DEF contains_dead_code_except_last_one, FedWithin
<1>4. CASE Needed(f) # {}
  <2>1. PICK n \in candidates : t.functions = Append(api_sequences[n].functions, api_call)
    BY <1>1, <1>4 DEF RoundSpread, BuiltOn
  <2> DEFINE s == api_sequences[n]
             x == s.functions
             y == t.functions
             l == Len(x)
  <2>2. /\ s \in ApiSequences /\ l \in Nat /\ Len(y) = l + 1
        /\ \A c \in 1 .. l : y[c] = x[c]
        /\ ~contains_dead_code_except_last_one(s)
        /\ \A g \in unvisited_nodes : ~FedWithin(s, g)
    <3>1. s \in ApiSequences
      BY <1>1 DEF TypeOK
    <3>2. x \in Seq(ApiCalls) /\ y = Append(x, api_call)
      BY <2>1, <3>1, LastCall
    <3>3. l \in Nat /\ Len(y) = l + 1 /\ \A c \in 1 .. l : y[c] = x[c]
      BY <3>2
    <3> QED BY <1>1, <3>1, <3>3 DEF RoundSpread
  <2>3. PICK r \in 1 .. Len(y) - 1 :
           r \in ReturnsUsedBy(t, Len(y)) /\ Feeds(y[r].func, f)
    BY <1>1, <1>2, <1>4, LastFed
  <2> HIDE DEF s, x, y, l
  <2>4. r = l
    <3>1. ASSUME r # l PROVE FedWithin(s, f)
      <4>1. r \in 1 .. l - 1 /\ r \in 1 .. l
        BY <2>2, <3>1
      <4>2. Feeds(x[r].func, f)
        BY <2>2, <2>3, <4>1
      <4> QED BY <4>1, <4>2 DEF FedWithin, x, l
    <3> QED BY <1>1, <2>2, <3>1
  <2>5. ~contains_dead_code_except_last_one(t)
    <3>1. t.functions = Append(s.functions, api_call)
      BY <2>1 DEF s
    <3>2. Len(s.functions) \in ReturnsUsedBy(t, Len(t.functions))
      BY <2>3, <2>4 DEF l, x, y
    <3> HIDE DEF t
    <3> QED BY <1>1, <2>2, <3>1, <3>2, AppendClean
  <2>6. ASSUME NEW g \in unvisited_nodes, FedWithin(t, g) PROVE CanBeCovered(g)
    <3>1. PICK c \in 1 .. Len(y) - 1 : Feeds(y[c].func, g)
      BY <2>6 DEF FedWithin, y
    <3>2. c \in 1 .. l /\ Feeds(x[c].func, g)
      BY <2>2, <3>1
    <3>3. c = l
      <4>1. ASSUME c # l PROVE FedWithin(s, g)
        <5>1. c \in 1 .. l - 1
          BY <2>2, <3>2, <4>1
        <5> QED BY <3>2, <5>1 DEF FedWithin, x, l
      <4> QED BY <2>2, <2>6, <4>1
    <3>4. Feeds(last_api_func_index(api_sequences[n]), g)
      BY <3>2, <3>3 DEF last_api_func_index, s, x, l
    <3> QED BY <1>1, <2>6, <3>4, FedIsCovered
  <2> QED BY <2>5, <2>6
<1> QED BY <1>3, <1>4

\* Keeping a sequence in a round.
LEMMA RoundReturnSpread ==
    ASSUME SpreadInv, Unary, cover_return
    PROVE  SpreadSoFar'
<1> USE DEF graphVars, resultVars, satVars, bfsVars, roundVars, mergeVars,
            coverVars
<1>1. /\ pc \in {"some", "none"} /\ caller = "cover" /\ pc' = "node"
      /\ UNCHANGED <<api_functions, api_dependencies, candidates, unvisited_nodes, todo>>
  BY DEF cover_return
<1>2. /\ TypeOK /\ VisitInv /\ InRound /\ RoundSpread /\ FirstsClean
      /\ candidates \subseteq DOMAIN api_sequences
  BY <1>1 DEF SpreadInv, SpreadSoFar, UniqueInv, VisitInv, LinkInv, TypeInv, TypeOK,
              InRound, Satisfying
<1>3. pc = "some"
  BY <1>1 DEF SpreadInv, RoundInv, SupplyInv, SuppliedSoFar, Promised
<1>4. PushNewSequence /\ covered' = covered \cup {api_call.func}
  BY <1>3 DEF cover_return
<1>k. PICK k : k = Len(api_sequences) + 1
  OBVIOUS
<1>5. /\ DOMAIN api_sequences' = DOMAIN api_sequences \cup {k}
      /\ api_sequences'[k] = new_sequence
      /\ \A i \in DOMAIN api_sequences : api_sequences'[i] = api_sequences[i]
  BY <1>2, <1>4, <1>k, PushedAt
<1>6. /\ ~contains_dead_code_except_last_one(new_sequence)
      /\ \A g \in unvisited_nodes : FedWithin(new_sequence, g) => CanBeCovered(g)
  BY <1>1, <1>3, RoundAccepts
<1>7. FirstsClean'
  <2>1. api_call.func \in Unvisited
    BY <1>1, <1>2, <1>3 DEF VisitInv, VisitedSoFar
  <2>2. ~InBfs' /\ pc' \notin {"collect", "filter", "bfs"}
    BY <1>1 DEF InBfs, Satisfying
  <2> QED BY <1>1, <1>2, <1>3, <1>4, <1>6, <2>1, <2>2, PushFirsts
<1>8. \A g : CanBeCovered(g)' <=> CanBeCovered(g)
  <2>1. \A g : Needed(g)' = Needed(g)
    BY <1>1 DEF Needed, InputsOf
  <2>2. \A n \in candidates : api_sequences'[n] = api_sequences[n]
    BY <1>2, <1>5
  <2>3. \A g, j : Suppliers(g, j)' = Suppliers(g, j)
    BY <1>1, <2>2 DEF Suppliers, check_dependency
  <2> QED BY <2>1, <2>3 DEF CanBeCovered
<1>9. \A s, g : FedWithin(s, g)' <=> FedWithin(s, g)
  BY <1>1, StableLeads DEF FedWithin
<1>10. (\A n \in candidates :
          /\ ~contains_dead_code_except_last_one(api_sequences[n])
          /\ \A f \in unvisited_nodes : ~FedWithin(api_sequences[n], f))'
  BY <1>1, <1>2, <1>5, <1>9, StableSequences DEF RoundSpread
<1>11. (\A n \in DOMAIN api_sequences :
          \A f \in unvisited_nodes :
             FedWithin(api_sequences[n], f) => CanBeCovered(f))'
  BY <1>1, <1>2, <1>5, <1>6, <1>8, <1>9 DEF RoundSpread
<1>12. (\A f \in unvisited_nodes \ (todo \cup covered) : ~CanBeCovered(f))'
  BY <1>1, <1>2, <1>4, <1>8 DEF RoundSpread
<1>13. RoundSpread'
  BY <1>1, <1>10, <1>11, <1>12 DEF RoundSpread
<1> QED BY <1>1, <1>7, <1>13 DEF SpreadSoFar, InBfs, Satisfying

LEMMA CoverSpread ==
    ASSUME SpreadInv, Unary, Cover
    PROVE  SpreadSoFar'
<1> USE DEF graphVars, resultVars, satVars, bfsVars, roundVars, mergeVars,
            coverVars
<1>0. UNCHANGED <<api_functions, api_dependencies>>
  BY DEF Cover, cover_start, cover_round, cover_skip, cover_node,
         merge_sequences, cover_try, cover_return, cover_end_round, cover_end
<1>1. /\ SpreadSoFar /\ VisitedSoFar /\ SuppliedSoFar /\ TypeOK
      /\ pc \notin {"collect", "filter", "bfs"} => FirstsClean
  BY DEF SpreadInv, SpreadSoFar, RoundInv, SupplyInv, VisitInv, LinkInv, TypeInv
<1>2. ASSUME UNCHANGED <<api_sequences, api_functions_visited>>, ~InBfs',
             pc \notin {"collect", "filter", "bfs"}
      PROVE  FirstsClean' /\ Unvisited' = Unvisited
  BY <1>0, <1>1, <1>2, SameFirsts, SameResults
<1>3. \A s, g : FedWithin(s, g)' <=> FedWithin(s, g)
  BY <1>0, StableLeads DEF FedWithin
<1>4. CASE cover_start
  <2>1. /\ pc = "cover" /\ pc' = "round"
        /\ UNCHANGED <<api_sequences, api_functions_visited>>
    BY <1>4 DEF cover_start
  <2>2. ~InBfs' /\ ~InRound'
    BY <2>1 DEF InBfs, InRound, Satisfying
  <2>3. FirstsClean' /\ Unvisited' = Unvisited
    BY <1>2, <2>1, <2>2
  <2>4. FedAtEnd'
    BY <1>1, <1>3, <2>1, <2>3 DEF SpreadSoFar, FedAtEnd
  <2> QED BY <2>1, <2>2, <2>3, <2>4 DEF SpreadSoFar
<1>5. CASE cover_round
  <2>1. /\ pc = "round" /\ pc' = "node" /\ covered' = {}
        /\ candidates' = choose_candidate_sequence_for_merge
        /\ todo' = unvisited_nodes
        /\ UNCHANGED <<unvisited_nodes, api_sequences, api_functions_visited>>
    BY <1>5 DEF cover_round
  <2>2. ~InBfs'
    BY <2>1 DEF InBfs, Satisfying
  <2>3. FirstsClean'
    BY <1>2, <2>1, <2>2
  <2>4. \A n \in DOMAIN api_sequences :
           \A f \in unvisited_nodes : ~FedWithin(api_sequences[n], f)
    BY <1>1, <2>1 DEF SpreadSoFar, FedAtEnd, VisitedSoFar
  <2>5. \A n \in candidates' :
           /\ n \in DOMAIN api_sequences
           /\ ~contains_dead_code_except_last_one(api_sequences[n])
    BY <2>1 DEF choose_candidate_sequence_for_merge
  <2>6. (\A n \in candidates :
           /\ ~contains_dead_code_except_last_one(api_sequences[n])
           /\ \A f \in unvisited_nodes : ~FedWithin(api_sequences[n], f))'
    BY <1>0, <1>3, <2>1, <2>4, <2>5, StableSequences
  <2>7. (\A n \in DOMAIN api_sequences :
           \A f \in unvisited_nodes :
              FedWithin(api_sequences[n], f) => CanBeCovered(f))'
    BY <1>3, <2>1, <2>4
  <2>8. RoundSpread'
    BY <2>1, <2>6, <2>7 DEF RoundSpread
  <2> QED BY <2>1, <2>2, <2>3, <2>8 DEF SpreadSoFar
<1>6. ASSUME NEW f \in todo, cover_skip(f) PROVE SpreadSoFar'
  <2>1. /\ pc = "node" /\ pc' = "node" /\ ~CanBeCovered(f) /\ todo' = todo \ {f}
        /\ UNCHANGED <<candidates, covered, unvisited_nodes, api_sequences,
                       api_functions_visited>>
    BY <1>6 DEF cover_skip
  <2>2. InRound /\ ~InBfs'
    BY <2>1 DEF InRound, InBfs, Satisfying
  <2>3. FirstsClean' /\ RoundSpread
    BY <1>1, <1>2, <2>1, <2>2 DEF SpreadSoFar
  <2>4. \A g \in unvisited_nodes \ (todo' \cup covered') : ~CanBeCovered(g)
    BY <2>1, <2>3 DEF RoundSpread
  <2>5. RoundSpread'
    BY <1>0, <2>1, <2>3, <2>4, RoundSpreadFrom
  <2> QED BY <2>1, <2>2, <2>3, <2>5 DEF SpreadSoFar
<1>7. ASSUME NEW f \in todo, cover_node(f) PROVE SpreadSoFar'
  <2>1. /\ pc = "node" /\ pc' = "merge" /\ CanBeCovered(f) /\ todo' = todo \ {f}
        /\ api_call'.func = f /\ to_merge' = Needed(f) /\ new_sequence' = NewSequence
        /\ dependents' = [k \in Needed(f) |-> ChosenSupplier(f, k)]
        /\ UNCHANGED <<candidates, covered, unvisited_nodes, api_sequences,
                       api_functions_visited>>
    BY <1>7 DEF cover_node, ApiCall
  <2>2. InRound /\ ~InBfs'
    BY <2>1 DEF InRound, InBfs, Satisfying
  <2>3. FirstsClean' /\ RoundSpread
    BY <1>1, <1>2, <2>1, <2>2 DEF SpreadSoFar
  <2>4. \A g \in unvisited_nodes \ (todo' \cup covered') :
           (pc' # "node" /\ g = api_call'.func) \/ ~CanBeCovered(g)
    BY <2>1, <2>3 DEF RoundSpread
  <2>5. \A k \in DOMAIN dependents' : dependents'[k] \in candidates
    <3>1. ASSUME NEW k \in Needed(f) PROVE ChosenSupplier(f, k) \in candidates
      BY <1>1, <2>1, ChosenSupplierType DEF CanBeCovered, TypeOK
    <3> QED BY <2>1, <3>1
  <2>6. to_merge' = {} => Needed(api_call'.func) = {} /\ BuiltOn(<<>>)'
    BY <2>1 DEF BuiltOn, NewSequence
  <2>7. RoundSpread'
    BY <1>0, <2>1, <2>3, <2>4, <2>5, <2>6, RoundSpreadFrom
  <2> QED BY <2>1, <2>2, <2>3, <2>7 DEF SpreadSoFar
<1>8. CASE merge_sequences
  <2>1. /\ pc = "merge" /\ pc' = "merge"
        /\ UNCHANGED <<candidates, covered, todo, unvisited_nodes, api_sequences,
                       api_functions_visited, api_call, dependents>>
    BY <1>8 DEF merge_sequences
  <2>2. InRound /\ ~InBfs'
    BY <2>1 DEF InRound, InBfs, Satisfying
  <2>3. FirstsClean' /\ RoundSpread
    BY <1>1, <1>2, <2>1, <2>2 DEF SpreadSoFar
  <2>4. \A g \in unvisited_nodes \ (todo' \cup covered') :
           (pc' # "node" /\ g = api_call'.func) \/ ~CanBeCovered(g)
    BY <2>1, <2>3 DEF RoundSpread
  <2>5. /\ \A k \in DOMAIN dependents' : dependents'[k] \in candidates
        /\ DOMAIN dependents = Needed(api_call.func)
    BY <1>1, <2>1, <2>3 DEF RoundSpread, SuppliedSoFar
  <2>6. Needed(api_call'.func) # {}
        /\ \E n \in candidates : BuiltOn(api_sequences[n].functions)'
    <3>1. PICK k \in to_merge :
             new_sequence' = IF to_merge = DOMAIN dependents
                             THEN api_sequences[dependents[k]]
                             ELSE MergeAnother(new_sequence, api_sequences[dependents[k]])
      BY <1>8 DEF merge_sequences
    <3>2. k \in Needed(api_call.func) /\ api_call.func \in Funs
          /\ to_merge \subseteq DOMAIN dependents
      BY <1>1, <2>1, <2>5 DEF TypeOK, SpreadInv, UniqueInv, VisitInv, LinkInv, TypeInv,
                              Located
    <3>3. Needed(api_call.func) = {k}
      BY <1>1, <3>2, UnaryNeeds
    <3>4. to_merge = DOMAIN dependents
      BY <2>5, <3>2, <3>3
    <3>5. new_sequence'.functions = api_sequences[dependents[k]].functions
      BY <3>1, <3>4
    <3>6. dependents[k] \in candidates
      BY <2>1, <2>5, <3>2
    <3> QED BY <2>1, <3>3, <3>5, <3>6 DEF BuiltOn
  <2>7. RoundSpread'
    BY <1>0, <2>1, <2>3, <2>4, <2>5, <2>6, RoundSpreadFrom
  <2> QED BY <2>1, <2>2, <2>3, <2>7 DEF SpreadSoFar
<1>9. CASE cover_try
  <2>1. /\ pc = "merge" /\ pc' = "param" /\ caller' = "cover" /\ to_merge = {}
        /\ UNCHANGED <<candidates, covered, todo, unvisited_nodes, api_sequences,
                       api_functions_visited>>
        /\ api_call'.func = api_call.func
        /\ new_sequence'.functions = new_sequence.functions
    BY <1>1, <1>9 DEF cover_try, Satisfy, ApiCall, TypeOK, ApiSequences
  <2>2. InRound /\ ~InBfs'
    BY <2>1 DEF InRound, InBfs, Satisfying
  <2>3. FirstsClean' /\ RoundSpread
    BY <1>1, <1>2, <2>1, <2>2 DEF SpreadSoFar
  <2>4. \A g \in unvisited_nodes \ (todo' \cup covered') :
           (pc' # "node" /\ g = api_call'.func) \/ ~CanBeCovered(g)
    BY <2>1, <2>3 DEF RoundSpread
  <2>5. IF Needed(api_call'.func) = {} THEN BuiltOn(<<>>)'
        ELSE \E n \in candidates : BuiltOn(api_sequences[n].functions)'
    BY <2>1, <2>3 DEF RoundSpread, BuiltOn
  <2>6. RoundSpread'
    BY <1>0, <2>1, <2>3, <2>4, <2>5, RoundSpreadFrom
  <2> QED BY <2>1, <2>2, <2>3, <2>6 DEF SpreadSoFar
<1>10. CASE cover_return
  BY <1>10, RoundReturnSpread
<1>11. CASE cover_end_round
  <2>1. /\ pc = "node" /\ todo = {}
        /\ UNCHANGED <<api_sequences, api_functions_visited>>
        /\ pc' = "done" \/ (pc' = "round" /\ unvisited_nodes' = unvisited_nodes \ covered)
    BY <1>11 DEF cover_end_round
  <2>2. InRound /\ ~InBfs' /\ ~InRound'
    BY <2>1 DEF InRound, InBfs, Satisfying
  <2>3. FirstsClean' /\ RoundSpread /\ Unvisited' = Unvisited
    BY <1>1, <1>2, <2>1, <2>2 DEF SpreadSoFar
  <2>4. FedAtEnd'
    <3>1. ASSUME NEW n \in DOMAIN api_sequences, NEW f \in Unvisited
          PROVE  ~FedWithin(api_sequences[n], f)
      <4>1. f \in unvisited_nodes \ (todo \cup covered)
        BY <1>1, <2>1, <2>2 DEF VisitedSoFar
      <4> QED BY <2>1, <2>3, <4>1 DEF RoundSpread
    <3> QED BY <1>3, <2>1, <2>3, <3>1 DEF FedAtEnd
  <2> QED BY <2>1, <2>2, <2>3, <2>4 DEF SpreadSoFar
<1>12. CASE cover_end
  <2>1. /\ pc = "round" /\ pc' = "done"
        /\ UNCHANGED <<api_sequences, api_functions_visited>>
    BY <1>12 DEF cover_end
  <2>2. ~InBfs' /\ ~InRound'
    BY <2>1 DEF InRound, InBfs, Satisfying
  <2> QED BY <1>2, <2>1, <2>2 DEF SpreadSoFar
<1> QED BY <1>4, <1>5, <1>6, <1>7, <1>8, <1>9, <1>10, <1>11, <1>12 DEF Cover

LEMMA StutterSpread ==
    ASSUME SpreadSoFar, UNCHANGED vars
    PROVE  SpreadSoFar'
<1> USE DEF vars, graphVars, resultVars, satVars, bfsVars, roundVars,
            mergeVars, coverVars
<1>1. (InBfs' <=> InBfs) /\ (InRound' <=> InRound)
  BY DEF InBfs, InRound, Satisfying
<1>2. FirstsClean => FirstsClean'
  BY <1>1, SameFirsts
<1>3. ASSUME InBfs, LevelsSpread PROVE LevelsSpread'
  <2>1. \A n, f : Tried(n, f)' <=> Tried(n, f)
    BY DEF Tried, FirstOf
  <2> QED BY <1>3, <2>1, SameLevels DEF LevelsSpread
<1>4. FedAtEnd => FedAtEnd'
  BY StableLeads, SameResults DEF FedAtEnd, FedWithin
<1>5. ASSUME RoundSpread PROVE RoundSpread'
  <2>1. \A fs : BuiltOn(fs)' <=> BuiltOn(fs)
    BY DEF BuiltOn
  <2> QED BY <1>5, <2>1, RoundSpreadFrom DEF RoundSpread
<1> QED BY <1>1, <1>2, <1>3, <1>4, <1>5 DEF SpreadSoFar

\* SpreadInv is inductive.
LEMMA SpreadStep == SpreadInv /\ [Next]_vars => SpreadInv'
<1> SUFFICES ASSUME SpreadInv, [Next]_vars PROVE SpreadInv'
  OBVIOUS
<1> USE DEF graphVars, resultVars, satVars, bfsVars, roundVars, mergeVars,
            coverVars
<1>1. RoundInv' /\ UniqueInv' /\ TypeOK
  BY RoundStep, UniqueStep DEF SpreadInv, UniqueInv, VisitInv, LinkInv, TypeInv
<1>2. CASE Collect
  <2>1. pc' \in {"collect", "filter", "bfs"}
    BY <1>1, <1>2 DEF Collect, add_api_function, filter_start, filter_function,
       find_all_dependencies, TypeOK
  <2> QED BY <1>1, <2>1 DEF SpreadInv, SpreadSoFar, InBfs, InRound, Satisfying
<1>3. CASE IsFunSatisfied
  <2>1. UNCHANGED <<api_functions, api_dependencies>>
    BY <1>3 DEF IsFunSatisfied, return_param, TakeReturn, fuzzable_param,
                refuse_param, add_fn
  <2> QED BY <1>1, <1>3, <2>1, IsFunSatisfiedSpread, StableLeads DEF SpreadInv
<1>4. CASE Bfs
  <2>1. UNCHANGED <<api_functions, api_dependencies>>
    BY <1>4 DEF Bfs, bfs_start, bfs_level, bfs_try, bfs_skip, bfs_return,
                bfs_next_sequence, bfs_next_level, bfs_end
  <2> QED BY <1>1, <1>4, <2>1, BfsSpread, StableLeads DEF SpreadInv
<1>5. CASE Cover
  <2>1. UNCHANGED <<api_functions, api_dependencies>>
    BY <1>5 DEF Cover, cover_start, cover_round, cover_skip, cover_node,
         merge_sequences, cover_try, cover_return, cover_end_round, cover_end
  <2> QED BY <1>1, <1>5, <2>1, CoverSpread, StableLeads DEF SpreadInv
<1>6. CASE UNCHANGED vars
  <2>1. UNCHANGED <<api_functions, api_dependencies>>
    BY <1>6 DEF vars
  <2> QED BY <1>1, <1>6, <2>1, StutterSpread, StableLeads DEF SpreadInv
<1> QED BY <1>2, <1>3, <1>4, <1>5, <1>6 DEF Next, Terminated

\* A set of visited functions that holds all that it supplies holds all that can
\* be called.
LEMMA ClosedIsCallable ==
    ASSUME \A g \in Funs :
             (\A k \in Needed(g) : \E o \in Funs :
                 api_functions_visited[o] /\ check_dependency(o, g, k))
               => api_functions_visited[g]
    PROVE  \A f \in Callable : api_functions_visited[f]
<1> DEFINE S == {f \in Funs : api_functions_visited[f]}
<1>1. \A g \in Funs :
        (\A k \in Needed(g) : \E o \in S : check_dependency(o, g, k)) => g \in S
  OBVIOUS
<1>2. S \in SUBSET Funs
  OBVIOUS
<1> HIDE DEF S
<1>3. \A f \in Callable : f \in S
  BY <1>1, <1>2 DEF Callable
<1> QED BY <1>3 DEF S

LEMMA SpreadCovers ==
    ASSUME SpreadInv, Unary, StopAtEnd, pc = "done"
    PROVE  \A f \in Callable : api_functions_visited[f]
<1>1. /\ FirstsClean /\ BackwardSearchComplete /\ api_dependencies = AllDependencies
  BY DEF SpreadInv, SpreadSoFar, RoundInv, VisitInv, LinkInv, TypeInv, Located
<1>2. ASSUME NEW g \in Funs, ~api_functions_visited[g],
             \A k \in Needed(g) : \E o \in Funs :
                api_functions_visited[o] /\ check_dependency(o, g, k)
      PROVE  FALSE
  <2>1. PICK k \in Needed(g) :
           \A n \in choose_candidate_sequence_for_merge :
              ~check_dependency(last_api_func_index(api_sequences[n]), g, k)
    BY <1>1, <1>2 DEF BackwardSearchComplete
  <2>2. PICK o \in Funs : api_functions_visited[o] /\ check_dependency(o, g, k)
    BY <1>2
  <2>3. PICK n \in DOMAIN api_sequences :
           Foremost(n, o) /\ ~contains_dead_code_except_last_one(api_sequences[n])
    BY <1>1, <2>2 DEF FirstsClean
  <2>4. EndsWith(api_sequences[n], o)
    BY <2>3 DEF Foremost
  <2>5. ~is_end_function(api_functions[o])
    BY <1>1, <2>2, FeedsNotEnd DEF Feeds
  <2>6. n \in choose_candidate_sequence_for_merge
    BY <2>3, <2>4, <2>5 DEF choose_candidate_sequence_for_merge, is_sequence_ended,
                            EndsWith
  <2> QED BY <2>1, <2>2, <2>4, <2>6 DEF EndsWith
<1> QED BY <1>2, ClosedIsCallable

\* If no function takes more than one value that another call has to produce,
\* the default search gives every function that can be called a target.
THEOREM UnaryIsCovered == Spec => []UnaryCoversCallable
<1>1. Init => SpreadInv
  <2> SUFFICES ASSUME Init PROVE SpreadInv
    OBVIOUS
  <2>1. RoundInv /\ UniqueInv /\ pc = "collect"
    BY InitRound, InitUnique DEF Init
  <2> QED BY <2>1 DEF SpreadInv, SpreadSoFar, InBfs, InRound, Satisfying
<1>2. SpreadInv => UnaryCoversCallable
  BY SpreadCovers DEF UnaryCoversCallable, CoversCallable
<1> QED BY <1>1, <1>2, SpreadStep, PTL DEF Spec
=============================================================================
