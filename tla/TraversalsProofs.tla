-------------------------- MODULE TraversalsProofs --------------------------
(***************************************************************************)
(* The random walks and the deep bfs.  They share the variables of ApiGraph*)
(* and is_fun_satisfied with the default generation, so that its           *)
(* invariants carry over once the steps of the traversals are sorted by    *)
(* what they do to these variables (Moves).                                *)
(***************************************************************************)
EXTENDS ApiGraphSearchProofs, Traversals

-----------------------------------------------------------------------------
(* The steps of the traversals                                             *)

Walking == {"walk", "choose", "write", "level", "extend"}

\* The traversal begins with no function visited.
Starts ==
    /\ pc = "bfs"
    /\ pc' \in Walking \cup {"done"}
    /\ api_functions_visited' = [f \in Funs |-> FALSE]
    /\ api_sequences' = <<>> \/ api_sequences' = <<NewSequence>>
    /\ UNCHANGED <<satVars, bfsVars>>

\* It moves on without a result.
Goes ==
    /\ pc \in Walking
    /\ pc' \in Walking \cup {"done"}
    /\ tmp_sequences' \subseteq DOMAIN api_sequences
    /\ len' \in Nat
    /\ next_fun' \in Nat
    /\ UNCHANGED <<resultVars, satVars>>

\* It asks whether a function can be called after a sequence.
Tries ==
    /\ pc \in Walking
    /\ \E n \in DOMAIN api_sequences, f \in Funs, who \in {"walk", "deep"} :
          Satisfy(api_sequences[n], f, who)
    /\ next_fun' \in Nat
    /\ UNCHANGED <<resultVars, len, tmp_sequences>>

\* It gets the answer.
Returns ==
    /\ pc \in {"some", "none"}
    /\ pc' \in Walking
    /\ IF pc = "some" THEN PushNewSequence ELSE UNCHANGED resultVars
    /\ UNCHANGED <<satVars, bfsVars>>

Moves ==
    /\ UNCHANGED <<items, graphVars, api_dependencies, fast_mode, coverVars>>
    /\ Starts \/ Goes \/ Tries \/ Returns

LEMMA WalkMoves ==
    ASSUME TypeOK, WalkSteps
    PROVE  Moves \/ UNCHANGED vars
<1> USE DEF vars, graphVars, resultVars, satVars, bfsVars, roundVars, mergeVars,
            coverVars, Walking
<1>1. CASE walk_start
  BY <1>1 DEF walk_start, Moves, Starts
<1>2. CASE walk_try
  <2>1. PICK n \in DOMAIN api_sequences, f \in Funs :
               Satisfy(api_sequences[n], f, "walk")
    BY <1>2 DEF walk_try
  <2> QED BY <1>2, <2>1 DEF walk_try, Moves, Tries, TypeOK
<1>3. CASE walk_return
  BY <1>3 DEF walk_return, Moves, Returns
<1>4. CASE walk_end \/ first_choose \/ first_choose_end \/ write_files
  BY <1>4 DEF walk_end, first_choose, first_choose_end, write_files, Moves, Goes, TypeOK
<1>5. CASE walk_continue \/ add_test_file
  BY <1>5 DEF walk_continue, add_test_file
<1> QED BY <1>1, <1>2, <1>3, <1>4, <1>5 DEF WalkSteps

LEMMA DeepMoves ==
    ASSUME TypeOK, DeepSteps
    PROVE  Moves
<1> USE DEF vars, graphVars, resultVars, satVars, bfsVars, roundVars, mergeVars,
            coverVars, Walking
<1>1. CASE deep_start
  BY <1>1 DEF deep_start, Moves, Starts
<1>2. CASE deep_try
  <2>1. PICK n \in tmp_sequences : Satisfy(api_sequences[n], next_fun, "deep")
    BY <1>2 DEF deep_try
  <2>2. n \in DOMAIN api_sequences /\ next_fun \in Funs /\ next_fun' \in Nat
    BY <1>2 DEF deep_try, TypeOK
  <2> QED BY <1>2, <2>1, <2>2 DEF deep_try, Moves, Tries
<1>3. CASE deep_return
  BY <1>3 DEF deep_return, Moves, Returns
<1>4. CASE deep_level
  BY <1>4 DEF deep_level, Moves, Goes, TypeOK, Level
<1>5. CASE bfs_next_sequence
  BY <1>5 DEF bfs_next_sequence, Moves, Goes, TypeOK
<1>6. CASE deep_next_level \/ deep_stop \/ deep_end
  BY <1>6 DEF deep_next_level, deep_stop, deep_end, Moves, Goes, TypeOK
<1> QED BY <1>1, <1>2, <1>3, <1>4, <1>5, <1>6 DEF DeepSteps

LEMMA TraverseMoves ==
    ASSUME TypeOK, [TraverseNext]_allVars
    PROVE  Collect \/ IsFunSatisfied \/ Moves \/ UNCHANGED vars
BY WalkMoves, DeepMoves DEF TraverseNext, Terminated, allVars

-----------------------------------------------------------------------------
(* The invariants of ApiGraph under these steps                            *)

LEMMA MovesType ==
    ASSUME TypeInv, Moves
    PROVE  TypeInv'
<1> USE DEF TypeInv, graphVars, resultVars, satVars, bfsVars, roundVars,
            mergeVars, coverVars, Walking
<1>0. UNCHANGED api_functions /\ UNCHANGED api_dependencies
  BY DEF Moves
<1>1. Funs' = Funs /\ AllDependencies' = AllDependencies
  BY <1>0, StableGraph
<1>2. CASE Starts
  <2>1. /\ pc = "bfs" /\ pc' \in Walking \cup {"done"}
    BY <1>2 DEF Starts
  <2>2. api_functions_visited' \in Seq(BOOLEAN)
    <3>1. api_functions_visited' \in [1 .. Len(api_functions) -> BOOLEAN]
      BY <1>2 DEF Starts, Funs, TypeOK
    <3>2. Len(api_functions) \in Nat
      BY DEF TypeOK
    <3> QED BY <3>1, <3>2, SeqOfFunction
  <2>3. api_sequences' \in Seq(ApiSequences)
    <3>1. NewSequence \in ApiSequences
      BY DEF NewSequence, ApiSequences
    <3>2. <<>> \in Seq(ApiSequences) /\ <<NewSequence>> \in Seq(ApiSequences)
      BY <3>1
    <3>3. api_sequences' = <<>> \/ api_sequences' = <<NewSequence>>
      BY <1>2 DEF Starts
    <3> QED BY <3>2, <3>3
  <2>4. /\ tmp_sequences = {} /\ candidates = {} /\ DOMAIN dependents = {}
        /\ api_dependencies = AllDependencies
    BY <2>1 DEF Located
  <2>5. TypeOK'
    BY <1>1, <1>2, <2>1, <2>2, <2>3, <2>4 DEF Moves, Starts, TypeOK
  <2>6. Located'
    BY <1>0, <1>1, <2>1, <2>4 DEF Located
  <2> QED BY <2>5, <2>6
<1>3. CASE Goes
  <2>1. TypeOK'
    BY <1>1, <1>3 DEF Moves, Goes, TypeOK
  <2>2. Located'
    BY <1>1, <1>3 DEF Moves, Goes, Located
  <2> QED BY <2>1, <2>2
<1>4. CASE Tries
  <2>1. PICK n \in DOMAIN api_sequences, f \in Funs, who \in {"walk", "deep"} :
               Satisfy(api_sequences[n], f, who)
    BY <1>4 DEF Tries
  <2>2. api_sequences[n] \in ApiSequences
    BY DEF TypeOK
  <2>3. /\ pc' = "param"
        /\ caller' \in Callers
        /\ api_call' \in ApiCalls
        /\ api_call'.func \in Funs
        /\ new_sequence' \in ApiSequences
        /\ moved_indexes' = {} /\ multi_mut' = {} /\ immutable_borrow' = {}
    BY <2>1, <2>2, SatisfyType DEF Callers, DefaultCallers
  <2>4. TypeOK'
    BY <1>1, <1>4, <2>3 DEF Moves, Tries, TypeOK
  <2>5. Located'
    BY <1>1, <1>4, <2>3 DEF Moves, Tries, Located
  <2> QED BY <2>4, <2>5
<1>5. CASE Returns
  <2>1. /\ api_sequences' \in Seq(ApiSequences)
        /\ api_functions_visited' \in Seq(BOOLEAN)
        /\ DOMAIN api_sequences \subseteq DOMAIN api_sequences'
    <3>1. CASE pc = "some"
      BY <1>5, <3>1, PushType DEF Returns
    <3>2. CASE pc # "some"
      BY <1>5, <3>2 DEF Returns, TypeOK
    <3> QED BY <3>1, <3>2
  <2>2. /\ tmp_sequences' \subseteq DOMAIN api_sequences'
        /\ candidates' \subseteq DOMAIN api_sequences'
        /\ \A k \in DOMAIN dependents' : dependents'[k] \in DOMAIN api_sequences'
    BY <1>5, <2>1 DEF Moves, Returns, TypeOK
  <2>3. TypeOK'
    BY <1>1, <1>5, <2>1, <2>2 DEF Moves, Returns, TypeOK
  <2>4. Located'
    BY <1>1, <1>5 DEF Moves, Returns, Located
  <2> QED BY <2>3, <2>4
<1> QED BY <1>2, <1>3, <1>4, <1>5 DEF Moves

LEMMA MovesLinked ==
    ASSUME LinkInv, Moves
    PROVE  LinkInv'
<1> USE DEF graphVars, resultVars, satVars, bfsVars, Walking
<1>0. UNCHANGED api_functions /\ UNCHANGED api_dependencies
  BY DEF Moves
<1>1. TypeInv' /\ TypeOK
  BY MovesType DEF LinkInv, TypeInv
<1>2. \A j \in DOMAIN api_sequences : Linked(api_sequences[j])
  BY DEF LinkInv, ArgumentsLinked, Generated
<1>3. CASE Starts
  <2>1. pc' \in Walking \cup {"done"}
    BY <1>3 DEF Starts
  <2>2. api_sequences' = <<>> \/ api_sequences' = <<NewSequence>>
    BY <1>3 DEF Starts
  <2>3. \A j \in DOMAIN api_sequences' : api_sequences'[j] = NewSequence
    BY <2>2
  <2>4. \A j \in DOMAIN api_sequences' : Linked(api_sequences'[j])
    BY <2>3, NewLinked
  <2> QED BY <1>0, <1>1, <2>1, <2>4, LinkInvFrom
<1>4. CASE Goes
  <2>1. pc' \in Walking \cup {"done"} /\ UNCHANGED api_sequences
    BY <1>4 DEF Goes
  <2> QED BY <1>0, <1>1, <1>2, <2>1, LinkInvFrom
<1>5. CASE Tries
  <2>1. PICK n \in DOMAIN api_sequences, f \in Funs, who \in {"walk", "deep"} :
               Satisfy(api_sequences[n], f, who)
    BY <1>5 DEF Tries
  <2>2. api_sequences[n] \in ApiSequences /\ Linked(api_sequences[n])
    BY <1>1, <1>2 DEF TypeOK
  <2>3. Linked(new_sequence') /\ DOMAIN api_call'.params = {}
    BY <1>1, <2>1, <2>2, SatisfyLinked
  <2>4. pc' = "param" /\ UNCHANGED api_sequences
    BY <1>5, <2>1 DEF Tries, Satisfy
  <2> QED BY <1>0, <1>1, <1>2, <2>3, <2>4, LinkInvFrom
<1>6. CASE Returns
  <2>1. pc' \in Walking
    BY <1>6 DEF Returns
  <2>2. \A j \in DOMAIN api_sequences' : Linked(api_sequences'[j])
    <3>1. CASE pc = "some"
      <4>1. PushNewSequence /\ Linked(new_sequence)
        BY <1>6, <3>1 DEF Returns, LinkInv, LinkedSoFar
      <4> QED BY <1>1, <4>1, PushLinked DEF LinkInv
    <3>2. CASE pc # "some"
      <4>1. UNCHANGED api_sequences
        BY <1>6, <3>2 DEF Returns
      <4> QED BY <1>2, <4>1
    <3> QED BY <3>1, <3>2
  <2> QED BY <1>0, <1>1, <2>1, <2>2, LinkInvFrom
<1> QED BY <1>3, <1>4, <1>5, <1>6 DEF Moves

LEMMA MovesCorrect ==
    ASSUME CorrectInv, Moves
    PROVE  CorrectInv'
<1> USE DEF graphVars, resultVars, satVars, bfsVars, Walking
<1>0. UNCHANGED api_functions
  BY DEF Moves
<1>1. LinkInv' /\ TypeOK
  BY MovesLinked DEF CorrectInv, LinkInv, TypeInv
<1>2. CASE Starts
  <2>1. pc' \in Walking \cup {"done"}
    BY <1>2 DEF Starts
  <2>2. api_sequences' = <<>> \/ api_sequences' = <<NewSequence>>
    BY <1>2 DEF Starts
  <2>3. \A n \in DOMAIN api_sequences' : api_sequences'[n] = NewSequence
    BY <2>2
  <2>4. \A n \in DOMAIN api_sequences' : CorrectTarget(api_sequences'[n])
    BY <2>3, NewCorrect
  <2> QED BY <1>0, <1>1, <2>1, <2>4, CorrectInvFrom
<1>3. CASE Goes
  <2>1. pc' \in Walking \cup {"done"} /\ UNCHANGED api_sequences
    BY <1>3 DEF Goes
  <2> QED BY <1>0, <1>1, <2>1, GeneratedCorrect, CorrectInvFrom
<1>4. CASE Tries
  <2>1. PICK n \in DOMAIN api_sequences, f \in Funs, who \in {"walk", "deep"} :
               Satisfy(api_sequences[n], f, who)
    BY <1>4 DEF Tries
  <2>2. api_sequences[n] \in ApiSequences /\ CorrectTarget(api_sequences[n])
    BY GeneratedCorrect
  <2>3. /\ CorrectTarget(PendingOf(new_sequence', api_call', moved_indexes'))
        /\ DOMAIN api_call'.params = {}
    BY <1>1, <2>1, <2>2, SatisfyCorrect DEF Callers, DefaultCallers
  <2>4. pc' = "param" /\ UNCHANGED api_sequences
    BY <1>4, <2>1 DEF Tries, Satisfy
  <2> QED BY <1>0, <1>1, <2>3, <2>4, GeneratedCorrect, CorrectInvFrom
<1>5. CASE Returns
  <2>1. pc' \in Walking
    BY <1>5 DEF Returns
  <2>2. \A n \in DOMAIN api_sequences' : CorrectTarget(api_sequences'[n])
    <3>1. CASE pc = "some"
      BY <1>5, <3>1, PushCorrect DEF Returns
    <3>2. CASE pc # "some"
      <4>1. UNCHANGED api_sequences
        BY <1>5, <3>2 DEF Returns
      <4> QED BY <4>1, GeneratedCorrect
    <3> QED BY <3>1, <3>2
  <2> QED BY <1>0, <1>1, <2>1, <2>2, CorrectInvFrom
<1> QED BY <1>2, <1>3, <1>4, <1>5 DEF Moves

LEMMA MovesVisit ==
    ASSUME VisitInv, Moves
    PROVE  VisitInv'
<1> USE DEF graphVars, resultVars, satVars, bfsVars, Walking
<1>0. UNCHANGED api_functions
  BY DEF Moves
<1>1. LinkInv' /\ TypeOK
  BY MovesLinked DEF VisitInv, LinkInv, TypeInv
<1>2. VisitedSoFar /\ VisitedIsCovered
  BY DEF VisitInv
<1>3. CASE Starts
  <2>1. /\ pc' \in Walking \cup {"done"}
        /\ api_functions_visited' = [f \in Funs |-> FALSE]
    BY <1>3 DEF Starts
  <2>2. api_sequences' = <<>> \/ api_sequences' = <<NewSequence>>
    BY <1>3 DEF Starts
  <2>3. \A s \in Generated' : s.functions = <<>>
    BY <2>2 DEF Generated, NewSequence
  <2>4. Funs' = Funs
    BY <1>0 DEF Funs
  <2>5. VisitedIsCovered'
    BY <2>1, <2>3, <2>4 DEF VisitedIsCovered
  <2>6. VisitedSoFar'
    BY <2>1, <2>4 DEF VisitedSoFar, InRound, Satisfying
  <2> QED BY <1>1, <2>5, <2>6 DEF VisitInv
<1>4. CASE Goes
  <2>1. /\ pc \in Walking /\ pc' \in Walking \cup {"done"}
        /\ UNCHANGED <<api_sequences, api_functions_visited>>
    BY <1>4 DEF Goes
  <2>2. VisitedIsCovered' /\ Funs' = Funs
    BY <1>0, <1>2, <2>1, SameResults
  <2>3. VisitedSoFar'
    BY <1>2, <2>1, <2>2 DEF VisitedSoFar, InRound, Satisfying
  <2> QED BY <1>1, <2>2, <2>3 DEF VisitInv
<1>5. CASE Tries
  <2>1. PICK n \in DOMAIN api_sequences, f \in Funs, who \in {"walk", "deep"} :
               Satisfy(api_sequences[n], f, who)
    BY <1>5 DEF Tries
  <2>2. pc \in Walking /\ pc' = "param" /\ caller' \in {"walk", "deep"}
        /\ UNCHANGED <<api_sequences, api_functions_visited>>
    BY <1>5, <2>1 DEF Tries, Satisfy
  <2>3. VisitedIsCovered' /\ Unvisited' = Unvisited /\ Funs' = Funs
    BY <1>0, <1>2, <2>2, SameResults
  <2>4. VisitedSoFar'
    BY <1>2, <2>2, <2>3 DEF VisitedSoFar, InRound, Satisfying
  <2> QED BY <1>1, <2>3, <2>4 DEF VisitInv
<1>6. CASE Returns
  <2>1. pc' \in Walking /\ pc \in {"some", "none"}
    BY <1>6 DEF Returns
  <2>2. VisitedIsCovered' /\ DOMAIN api_functions_visited' = Funs'
    <3>1. CASE pc = "some"
      BY <1>0, <1>6, <2>1, <3>1, PushVisited DEF Returns
    <3>2. CASE pc # "some"
      <4>1. UNCHANGED <<api_sequences, api_functions_visited>>
        BY <1>6, <3>2 DEF Returns
      <4> QED BY <1>0, <1>2, <2>1, <4>1, SameResults DEF VisitedSoFar
    <3> QED BY <3>1, <3>2
  <2>3. VisitedSoFar'
    BY <2>1, <2>2 DEF VisitedSoFar, InRound, Satisfying
  <2> QED BY <1>1, <2>2, <2>3 DEF VisitInv
<1> QED BY <1>3, <1>4, <1>5, <1>6 DEF Moves

-----------------------------------------------------------------------------
(* Every traversal makes correct targets                                   *)

LEMMA TraverseCorrectStep ==
    CorrectInv /\ [TraverseNext]_allVars => CorrectInv'
<1>1. CorrectInv => TypeOK
  BY DEF CorrectInv, LinkInv, TypeInv
<1> QED BY <1>1, TraverseMoves, CollectCorrect, IsFunSatisfiedCorrect, MovesCorrect,
           StutterCorrect

LEMMA TraverseVisitStep ==
    VisitInv /\ [TraverseNext]_allVars => VisitInv'
<1>1. VisitInv => TypeOK
  BY DEF VisitInv, LinkInv, TypeInv
<1> QED BY <1>1, TraverseMoves, CollectVisit, IsFunSatisfiedVisit, MovesVisit,
           StutterVisit

\* No target of a random walk or of the deep bfs is refused by the compiler for
\* what is_fun_satisfied keeps track of, whichever sequences are extended by
\* whichever functions.
THEOREM TraversedTargetsAreCorrect == TraverseSpec => []TargetsCorrect
<1>1. TraverseInit => CorrectInv
  BY InitCorrect DEF TraverseInit
<1>2. CorrectInv => TargetsCorrect
  BY DEF CorrectInv
<1> QED BY <1>1, <1>2, TraverseCorrectStep, PTL DEF TraverseSpec

-----------------------------------------------------------------------------
(* The refinement of TargetGrowth                                          *)

LEMMA MovesGrowth ==
    ASSUME GrowthInv, Moves
    PROVE  Growth!Next \/ UNCHANGED Growth!vars
<1> USE DEF graphVars, resultVars, satVars, bfsVars, Walking
<1>1. TypeOK /\ UNCHANGED <<api_functions, api_dependencies>>
  BY DEF Moves, GrowthInv, VisitInv, LinkInv, TypeInv
<1>2. CASE Starts
  <2>1. /\ pc = "bfs" /\ Idle'
        /\ api_functions_visited' = [f \in Funs |-> FALSE]
        /\ api_sequences' = <<>> \/ api_sequences' = <<NewSequence>>
    BY <1>2 DEF Starts, Idle
  <2> QED BY <1>1, <2>1, StartGrowth
<1>3. CASE Goes
  <2>1. /\ Idle /\ Idle' /\ UNCHANGED <<api_sequences, api_functions_visited>>
    BY <1>3 DEF Goes, Idle
  <2>2. GrowthBase' = GrowthBase
    BY <2>1 DEF GrowthBase, Idle
  <2> QED BY <1>1, <2>1, <2>2, SameGrowth DEF Idle
<1>4. CASE Tries
  <2>1. PICK n \in DOMAIN api_sequences, f \in Funs, who \in {"walk", "deep"} :
               Satisfy(api_sequences[n], f, who)
    BY <1>4 DEF Tries
  <2>2. Idle /\ UNCHANGED <<api_sequences, api_functions_visited>>
    BY <1>4 DEF Tries, Idle
  <2> QED BY <1>1, <2>1, <2>2, TakeGrowth
<1>5. CASE Returns
  <2>1. /\ pc \in {"some", "none"} /\ Idle'
        /\ IF pc = "some" THEN PushNewSequence
           ELSE UNCHANGED <<api_sequences, api_functions_visited>>
    BY <1>5 DEF Returns, Idle
  <2> QED BY <1>1, <2>1, ReturnGrowth
<1> QED BY <1>2, <1>3, <1>4, <1>5 DEF Moves

LEMMA TraverseGrowthInv ==
    GrowthInv /\ [TraverseNext]_allVars => GrowthInv'
<1> SUFFICES ASSUME GrowthInv, [TraverseNext]_allVars PROVE GrowthInv'
  OBVIOUS
<1> USE DEF graphVars, resultVars, satVars, bfsVars, roundVars, mergeVars,
            coverVars
<1>1. VisitInv' /\ TypeOK /\ GrowthSoFar
  BY TraverseVisitStep DEF GrowthInv, VisitInv, LinkInv, TypeInv
<1>2. CASE Collect
  BY <1>1, <1>2, CollectGrowthSoFar DEF GrowthInv
<1>3. CASE IsFunSatisfied
  <2>1. pc' \in {"param", "some", "none"}
    BY <1>3 DEF IsFunSatisfied, return_param, TakeReturn, fuzzable_param,
                refuse_param, add_fn
  <2> QED BY <1>1, <2>1 DEF GrowthInv, GrowthSoFar
<1>4. CASE Moves
  <2>1. pc' \in Walking \cup {"done", "param"}
    BY <1>4 DEF Moves, Starts, Goes, Tries, Returns, Satisfy
  <2> QED BY <1>1, <2>1 DEF GrowthInv, GrowthSoFar, Walking
<1>5. CASE UNCHANGED vars
  BY <1>1, <1>5 DEF vars, GrowthInv, GrowthSoFar
<1> QED BY <1>1, <1>2, <1>3, <1>4, <1>5, TraverseMoves

LEMMA TraverseGrowthStep ==
    GrowthInv /\ [TraverseNext]_allVars => [Growth!Next]_(Growth!vars)
<1>1. GrowthInv => TypeOK
  BY DEF GrowthInv, VisitInv, LinkInv, TypeInv
<1> QED BY <1>1, TraverseMoves, CollectGrowth, IsFunSatisfiedGrowth, MovesGrowth,
           StutterGrowth

\* The random walks and the deep bfs implement TargetGrowth too: each target is
\* one of the earlier ones and a function to which it hands every value it needs,
\* whatever the traversal picks.
THEOREM TraversalsGrowTargets == TraverseSpec => ImplementsTargetGrowth
<1>1. TraverseSpec => []GrowthInv
  <2>1. TraverseInit => GrowthInv
    BY InitGrowth DEF TraverseInit
  <2> QED BY <2>1, TraverseGrowthInv, PTL DEF TraverseSpec
<1>2. TraverseSpec => [][Growth!Next]_(Growth!vars)
  BY <1>1, TraverseGrowthStep, PTL DEF TraverseSpec
<1>3. TraverseInit => Growth!Init
  BY GrowthInit DEF TraverseInit
<1> QED BY <1>2, <1>3, PTL DEF TraverseSpec, ImplementsTargetGrowth, Growth!Spec

-----------------------------------------------------------------------------
(* End functions                                                           *)

LEMMA GoesEnds ==
    ASSUME EndsLast, EndsSoFar, Moves, Goes,
           \A n \in tmp_sequences' : NoEnd(api_sequences[n])
    PROVE  EndsLast' /\ EndsSoFar'
<1>1. /\ UNCHANGED <<api_functions, api_sequences, candidates, dependents>>
      /\ pc' \in Walking \cup {"done"}
  BY DEF Moves, Goes, graphVars, resultVars, coverVars, roundVars, mergeVars
<1>2. EndsLast'
  BY <1>1 DEF EndsLast, Generated
<1>3. EndsSoFar'
  BY <1>1, StableEnds DEF EndsSoFar, Walking
<1> QED BY <1>2, <1>3

LEMMA TriesEnds ==
    ASSUME TypeOK, EndsLast, EndsSoFar, Moves, Tries,
           NEW n \in DOMAIN api_sequences, NEW f, NEW who,
           Satisfy(api_sequences[n], f, who), NoEnd(api_sequences[n])
    PROVE  EndsLast' /\ EndsSoFar'
<1>1. /\ UNCHANGED <<api_functions, api_sequences, candidates, dependents,
                     tmp_sequences>>
      /\ pc' = "param"
  BY DEF Moves, Tries, graphVars, resultVars, coverVars, roundVars, mergeVars, Satisfy
<1>2. EndsLast'
  BY <1>1 DEF EndsLast, Generated
<1>3. NoEnd(new_sequence')
  <2>1. api_sequences[n] \in ApiSequences
    BY DEF TypeOK
  <2> QED BY <2>1, SatisfyEnd
<1>4. EndsSoFar'
  BY <1>1, <1>3, StableEnds DEF EndsSoFar
<1> QED BY <1>2, <1>4

LEMMA StartsEnds ==
    ASSUME LinkInv, Moves, Starts
    PROVE  EndsLast' /\ EndsSoFar'
<1>1. /\ UNCHANGED <<candidates, dependents, tmp_sequences>>
      /\ pc = "bfs" /\ pc' \in Walking \cup {"done"}
      /\ api_sequences' = <<>> \/ api_sequences' = <<NewSequence>>
  BY DEF Moves, Starts, bfsVars, coverVars, roundVars, mergeVars
<1>2. tmp_sequences' = {} /\ candidates' = {} /\ DOMAIN dependents' = {}
  BY <1>1 DEF LinkInv, TypeInv, Located
<1>3. \A s \in Generated' : s.functions = <<>>
  BY <1>1 DEF Generated, NewSequence
<1>4. EndsLast'
  BY <1>3 DEF EndsLast
<1> QED BY <1>1, <1>2, <1>4 DEF EndsSoFar, Walking

LEMMA ReturnsEnds ==
    ASSUME LinkInv, EndsLast, EndsSoFar, Moves, Returns
    PROVE  EndsLast' /\ EndsSoFar'
<1> USE DEF graphVars, resultVars, bfsVars, coverVars, roundVars, mergeVars
<1>1. /\ UNCHANGED <<api_functions, candidates, dependents, tmp_sequences>>
      /\ pc' \in Walking
  BY DEF Moves, Returns
<1>2. TypeOK
  BY DEF LinkInv, TypeInv
<1>3. /\ EndsLast'
      /\ \A n \in DOMAIN api_sequences : api_sequences'[n] = api_sequences[n]
  <2>1. CASE pc = "some"
    BY <1>1, <2>1, PushEnds DEF Returns
  <2>2. CASE pc # "some"
    <3>1. UNCHANGED api_sequences
      BY <2>2 DEF Returns
    <3> QED BY <1>1, <3>1 DEF EndsLast, Generated
  <2> QED BY <2>1, <2>2
<1>4. EndsSoFar'
  BY <1>1, <1>2, <1>3, StableEnds DEF EndsSoFar, TypeOK, Walking
<1> QED BY <1>3, <1>4

LEMMA WalkEnds ==
    ASSUME LinkInv, EndsLast, EndsSoFar, stop_at_end, WalkSteps
    PROVE  EndsLast' /\ EndsSoFar'
<1>1. TypeOK
  BY DEF LinkInv, TypeInv
<1>2. UNCHANGED tmp_sequences
  BY DEF WalkSteps, walk_start, walk_continue, walk_try, walk_return, walk_end,
     first_choose, first_choose_end, add_test_file, write_files, bfsVars, vars
<1>3. CASE Moves /\ Starts
  BY <1>3, StartsEnds
<1>4. CASE Moves /\ Goes
  BY <1>2, <1>4, GoesEnds DEF EndsSoFar
<1>5. CASE Moves /\ Tries
  <2>1. pc' = "param" /\ pc \in Walking
    BY <1>5 DEF Tries, Satisfy
  <2>2. walk_try
    BY <2>1 DEF WalkSteps, walk_start, walk_continue, walk_return, walk_end,
       first_choose, first_choose_end, add_test_file, write_files, vars, Walking
  <2>3. PICK n \in DOMAIN api_sequences, f \in Funs :
               ~Continue(api_sequences[n]) /\ Satisfy(api_sequences[n], f, "walk")
    BY <2>2 DEF walk_try
  <2>4. ~is_sequence_ended(api_sequences[n])
    BY <2>3 DEF Continue
  <2>5. NoEnd(api_sequences[n])
    BY <2>4, GeneratedEnds
  <2> QED BY <1>1, <1>5, <2>3, <2>5, TriesEnds
<1>6. CASE Moves /\ Returns
  BY <1>6, ReturnsEnds
<1>7. CASE UNCHANGED vars
  BY <1>7, StutterEnd
<1> QED BY <1>1, <1>3, <1>4, <1>5, <1>6, <1>7, WalkMoves DEF Moves

LEMMA DeepEnds ==
    ASSUME LinkInv, EndsLast, EndsSoFar, DeepSteps
    PROVE  EndsLast' /\ EndsSoFar'
<1>1. TypeOK
  BY DEF LinkInv, TypeInv
<1>2. CASE Moves /\ Starts
  BY <1>2, StartsEnds
<1>3. CASE Moves /\ Goes
  <2>1. \/ tmp_sequences' \subseteq tmp_sequences
        \/ tmp_sequences' = Level
    BY DEF DeepSteps, deep_start, deep_level, deep_try, deep_return,
       bfs_next_sequence, deep_next_level, deep_stop, deep_end, bfsVars
  <2>2. \A n \in Level : NoEnd(api_sequences[n])
    BY GeneratedEnds DEF Level
  <2> QED BY <1>3, <2>1, <2>2, GoesEnds DEF EndsSoFar
<1>4. CASE Moves /\ Tries
  <2>1. pc' = "param" /\ pc \in Walking
    BY <1>4 DEF Tries, Satisfy
  <2>2. deep_try
    BY <2>1 DEF DeepSteps, deep_start, deep_level, deep_return, bfs_next_sequence,
       deep_next_level, deep_stop, deep_end, Walking
  <2>3. PICK n \in tmp_sequences : Satisfy(api_sequences[n], next_fun, "deep")
    BY <2>2 DEF deep_try
  <2>4. n \in DOMAIN api_sequences /\ NoEnd(api_sequences[n])
    BY <1>1 DEF TypeOK, EndsSoFar
  <2> QED BY <1>1, <1>4, <2>3, <2>4, TriesEnds
<1>5. CASE Moves /\ Returns
  BY <1>5, ReturnsEnds
<1> QED BY <1>1, <1>2, <1>3, <1>4, <1>5, DeepMoves DEF Moves

\* LinkInv makes the traversals' own invariants inductive.
LEMMA TraverseLinkStep ==
    LinkInv /\ [TraverseNext]_allVars => LinkInv'
<1>1. LinkInv => TypeOK
  BY DEF LinkInv, TypeInv
<1> QED BY <1>1, TraverseMoves, CollectLinked, IsFunSatisfiedLinked, MovesLinked,
           StutterLinked

LEMMA StopStep == StopInv /\ [TraverseNext]_allVars => StopInv'
<1> SUFFICES ASSUME StopInv, [TraverseNext]_allVars
             PROVE  LinkInv' /\ (stop_at_end' => EndsLast' /\ EndsSoFar')
  BY DEF StopInv
<1>1. LinkInv /\ (stop_at_end => EndsLast /\ EndsSoFar)
  BY DEF StopInv
<1>2. LinkInv'
  BY <1>1, TraverseLinkStep
<1>3. stop_at_end' = stop_at_end
  BY DEF TraverseNext, WalkSteps, walk_start, walk_continue, walk_try, walk_return,
     walk_end, first_choose, first_choose_end, add_test_file, write_files, walkVars,
     allVars, stop_at_end
<1> QED BY <1>1, <1>2, <1>3, CollectEnd, IsFunSatisfiedEnd, WalkEnds, DeepEnds,
           StutterEnd DEF TraverseNext, Terminated, allVars

\* Every traversal that is asked to stop at end functions does: only the last
\* call of a target is one.
THEOREM TraversalsStopAtEnd == TraverseSpec => []StopsAtEnd
<1>1. TraverseInit => StopInv
  <2>1. Init => Generated = {} /\ tmp_sequences = {} /\ candidates = {}
                /\ DOMAIN dependents = {} /\ pc = "collect"
    BY DEF Init, Generated
  <2>2. Init => EndsLast /\ EndsSoFar
    BY <2>1 DEF EndsLast, EndsSoFar
  <2> QED BY <2>2, InitLinked DEF TraverseInit, StopInv
<1>2. StopInv => StopsAtEnd
  BY DEF StopInv, StopsAtEnd
<1> QED BY <1>1, <1>2, StopStep, PTL DEF TraverseSpec

-----------------------------------------------------------------------------
(* The deep bfs makes no target twice                                      *)

LEMMA DeepLevels ==
    ASSUME UniqueInv, pc = "bfs" => len = 0, DeepSteps
    PROVE  LevelsSoFar'
<1> USE DEF graphVars, resultVars, satVars, bfsVars, roundVars, mergeVars,
            coverVars
<1>1. TypeOK
  BY DEF UniqueInv, VisitInv, LinkInv, TypeInv
<1>2. LevelsSoFar
  BY DEF UniqueInv
<1>3. CASE deep_start
  <2>1. StartLevels
    BY <1>3 DEF deep_start, StartLevels
  <2> QED BY <2>1, StartLevelsStep
<1>4. CASE deep_level
  <2>1. EnterLevel
    BY <1>4 DEF deep_level, EnterLevel, Level
  <2> QED BY <1>1, <1>2, <2>1, EnterLevelStep
<1>5. CASE deep_try
  <2>1. TryFunction("deep")
    BY <1>5 DEF deep_try, TryFunction
  <2> QED BY <1>1, <1>2, <2>1, TryFunctionStep
<1>6. CASE deep_return
  <2>1. ReturnToLevel
    BY <1>6 DEF deep_return, ReturnToLevel
  <2> QED BY <2>1, ReturnToLevelStep
<1>7. CASE bfs_next_sequence
  BY <1>1, <1>2, <1>7, NextSequenceStep
<1>8. CASE deep_next_level
  <2>1. LeaveLevel
    BY <1>8 DEF deep_next_level, LeaveLevel
  <2> QED BY <1>1, <1>2, <2>1, LeaveLevelStep
<1>9. CASE deep_stop \/ deep_end
  <2>1. pc' = "done"
    BY <1>9 DEF deep_stop, deep_end
  <2> QED BY <2>1 DEF LevelsSoFar, InBfs, Satisfying
<1> QED BY <1>3, <1>4, <1>5, <1>6, <1>7, <1>8, <1>9 DEF DeepSteps

LEMMA DeepInvStep ==
    VisitInv /\ DeepInv /\ [TraverseNext]_allVars => DeepInv'
<1> SUFFICES ASSUME VisitInv, DeepInv, [TraverseNext]_allVars, algorithm = "deep"
             PROVE  /\ UniqueInv'
                    /\ pc' \in {"collect", "filter", "bfs"} =>
                         len' = 0 /\ already_covered_nodes' = {}
  BY DEF DeepInv, TraverseNext, allVars
<1>1. /\ UniqueInv
      /\ pc \in {"collect", "filter", "bfs"} => len = 0 /\ already_covered_nodes = {}
  BY DEF DeepInv
<1>2. VisitInv' /\ TypeOK
  BY TraverseVisitStep DEF VisitInv, LinkInv, TypeInv
<1> USE DEF graphVars, resultVars, satVars, bfsVars, roundVars, mergeVars,
            coverVars, deepVars
<1>3. CASE Collect /\ UNCHANGED deepVars
  <2>1. /\ pc \in {"collect", "filter"} /\ pc' \in {"collect", "filter", "bfs"}
        /\ UNCHANGED <<api_sequences, len, caller, already_covered_nodes>>
    BY <1>2, <1>3 DEF Collect, add_api_function, filter_start, filter_function,
       find_all_dependencies, TypeOK
  <2>2. LevelsSoFar' /\ NoDuplicateTargets'
    BY <1>1, <2>1, NoDuplicateStep DEF LevelsSoFar, InBfs, Satisfying
  <2> QED BY <1>1, <1>2, <2>1, <2>2 DEF UniqueInv
<1>4. CASE IsFunSatisfied
  <2>1. /\ pc' \in {"param", "some", "none"} /\ UNCHANGED <<api_sequences, caller>>
    BY <1>4 DEF IsFunSatisfied, return_param, TakeReturn, fuzzable_param,
         refuse_param, add_fn
  <2>2. LevelsSoFar' /\ NoDuplicateTargets'
    BY <1>1, <1>4, <2>1, IsFunSatisfiedLevels, NoDuplicateStep
  <2> QED BY <1>1, <1>2, <2>1, <2>2 DEF UniqueInv
<1>5. CASE DeepSteps
  <2>1. LevelsSoFar'
    BY <1>1, <1>5, DeepLevels
  <2>2. /\ pc' \notin {"collect", "filter", "bfs"}
        /\ caller' = caller \/ caller' = "deep"
        /\ \/ UNCHANGED api_sequences
           \/ api_sequences' = <<>> \/ api_sequences' = <<NewSequence>>
           \/ pc = "some" /\ PushNewSequence
    BY <1>5 DEF DeepSteps, deep_start, deep_level, deep_try, deep_return, Satisfy,
       bfs_next_sequence, deep_next_level, deep_stop, deep_end
  <2>3. NoDuplicateTargets'
    BY <1>1, <2>2, NoDuplicateStep
  <2> QED BY <1>1, <1>2, <2>1, <2>2, <2>3 DEF UniqueInv
<1>6. CASE UNCHANGED vars /\ UNCHANGED deepVars
  <2>1. LevelsSoFar'
    BY <1>1, <1>6 DEF vars, UniqueInv, LevelsSoFar, InBfs, Satisfying, FirstOf
  <2>2. NoDuplicateTargets'
    BY <1>1, <1>6, NoDuplicateStep DEF vars
  <2> QED BY <1>1, <1>2, <1>6, <2>1, <2>2 DEF UniqueInv, vars
<1> QED BY <1>3, <1>4, <1>5, <1>6 DEF TraverseNext, Terminated, allVars

\* No two targets of the deep bfs call the same functions in the same order: no
\* sequence is taken into two levels.
THEOREM DeepTargetsAreUnique == TraverseSpec => []NoneExtendedTwice
<1>1. TraverseInit => VisitInv /\ DeepInv
  BY InitVisit, InitUnique DEF TraverseInit, DeepInv, Init, DeepInit
<1> DEFINE Known == algorithm \in {"walk", "deep"}
<1>2. TraverseInit => Known
  BY DEF TraverseInit
<1>3. Known /\ [TraverseNext]_allVars => Known'
  BY DEF TraverseNext, allVars
<1>4. Known /\ DeepInv => NoneExtendedTwice
  BY DEF DeepInv, NoneExtendedTwice, UniqueInv
<1> HIDE DEF Known
<1> QED BY <1>1, <1>2, <1>3, <1>4, TraverseVisitStep, DeepInvStep, PTL
        DEF TraverseSpec

-----------------------------------------------------------------------------
(* What the deep bfs covers                                                *)

LEMMA DeepSupply ==
    ASSUME SupplyInv, DeepSteps
    PROVE  SupplyInv'
<1> USE DEF graphVars, resultVars, satVars, bfsVars, roundVars, mergeVars,
            coverVars
<1>1. CorrectInv /\ TypeOK
  BY DEF SupplyInv, CorrectInv, LinkInv, TypeInv
<1>2. CorrectInv'
  BY <1>1, DeepMoves, MovesCorrect
<1>3. UNCHANGED <<api_functions, api_dependencies, algorithm_error>>
  BY DEF DeepSteps, deep_start, deep_level, deep_try, deep_return,
         bfs_next_sequence, deep_next_level, deep_stop, deep_end
<1>4. Supported /\ NoAlgorithmError'
  BY <1>3 DEF SupplyInv, SuppliedSoFar, NoAlgorithmError
<1>5. CASE deep_try
  <2>1. TryFunction("deep") /\ next_fun \in Funs
    BY <1>5 DEF deep_try, TryFunction
  <2>2. pc' = "param" /\ caller' = "deep"
    BY <1>5 DEF deep_try, Satisfy
  <2>3. ~InRound'
    BY <2>2 DEF InRound, Satisfying
  <2>4. Promised' =>
          StillSupplied(new_sequence', api_call'.func, Needed(api_call'.func),
                        CurrentParam', moved_indexes' \cup multi_mut' \cup immutable_borrow')
    BY <1>1, <1>3, <2>1, TrySupplied
  <2> QED BY <1>2, <1>3, <1>4, <2>2, <2>3, <2>4, SupplyInvFrom
<1>6. CASE ~deep_try
  <2>1. pc' \in {"level", "extend", "done"}
    BY <1>6 DEF DeepSteps, deep_start, deep_level, deep_return, bfs_next_sequence,
                deep_next_level, deep_stop, deep_end
  <2>2. ~InRound'
    BY <2>1 DEF InRound, Satisfying
  <2> QED BY <1>2, <1>3, <1>4, <2>1, <2>2, SupplyInvFrom
<1> QED BY <1>5, <1>6

\* The levels of the deep bfs spread like those of bfs.
LEMMA DeepSpread ==
    ASSUME UniqueInv, SupplyInv, SpreadSoFar, Unary, pc = "bfs" => len = 0, DeepSteps
    PROVE  SpreadSoFar'
<1> USE DEF graphVars, resultVars, satVars, bfsVars, roundVars, mergeVars,
            coverVars
<1>1. /\ SuppliedSoFar /\ TypeInv /\ TypeOK /\ LevelsSoFar
  BY DEF UniqueInv, SupplyInv, VisitInv, LinkInv, TypeInv
<1>2. UNCHANGED <<api_functions, api_dependencies>>
  BY DEF DeepSteps, deep_start, deep_level, deep_try, deep_return,
         bfs_next_sequence, deep_next_level, deep_stop, deep_end
<1>3. CASE deep_start
  <2>1. /\ StartLevels /\ api_functions_visited' = [f \in Funs |-> FALSE]
        /\ pc' \in {"level", "done"}
    BY <1>3 DEF deep_start, StartLevels
  <2>2. FirstsClean' /\ (pc' = "level" => LevelsSpread')
    BY <1>2, <2>1, StartSpread
  <2> QED BY <2>1, <2>2 DEF SpreadSoFar, InBfs, InRound, Satisfying
<1>4. CASE deep_level
  <2>1. /\ EnterLevel /\ next_fun' = 1 /\ pc' = "extend" /\ pc = "level"
        /\ UNCHANGED <<api_sequences, api_functions_visited>>
        /\ \A n \in DOMAIN api_sequences :
             Len(api_sequences[n].functions) = len /\ ~is_sequence_ended(api_sequences[n])
               => n \in tmp_sequences'
    BY <1>4 DEF deep_level, EnterLevel, Level
  <2>2. InBfs /\ FirstsClean /\ LevelsSpread
    BY <2>1 DEF InBfs, SpreadSoFar
  <2>3. FirstsClean' /\ LevelsSpread'
    BY <1>1, <1>2, <2>1, <2>2, SameFirsts, EnterSpread
  <2> QED BY <2>1, <2>3 DEF SpreadSoFar, InRound, Satisfying
<1>5. CASE deep_try
  <2>1. /\ TryFunction("deep") /\ pc = "extend" /\ pc' = "param" /\ caller' = "deep"
        /\ UNCHANGED <<api_sequences, api_functions_visited>>
    BY <1>5 DEF deep_try, TryFunction, Satisfy
  <2>2. InBfs /\ FirstsClean /\ LevelsSpread
    BY <2>1 DEF InBfs, SpreadSoFar
  <2>3. FirstsClean' /\ LevelsSpread'
    BY <1>1, <1>2, <2>1, <2>2, SameFirsts, TrySpread
  <2> QED BY <2>1, <2>3 DEF SpreadSoFar, InRound, Satisfying
<1>6. CASE deep_return
  <2>1. /\ ReturnToLevel /\ pc' = "extend"
        /\ pc \in {"some", "none"} /\ caller = "deep"
        /\ pc = "none" => UNCHANGED api_functions_visited
    BY <1>6 DEF deep_return, ReturnToLevel
  <2>2. InBfs /\ FirstsClean /\ LevelsSpread
    BY <2>1 DEF InBfs, SpreadSoFar, Satisfying
  <2>3. pc = "none" => ~Promised
    BY <1>1 DEF SuppliedSoFar
  <2>4. FirstsClean' /\ LevelsSpread'
    BY <1>2, <2>1, <2>2, <2>3, ReturnSpread
  <2> QED BY <2>1, <2>4 DEF SpreadSoFar, InRound, Satisfying
<1>7. CASE bfs_next_sequence
  <2>1. /\ pc = "extend" /\ pc' = "extend"
        /\ UNCHANGED <<api_sequences, api_functions_visited>>
    BY <1>7 DEF bfs_next_sequence
  <2>2. InBfs /\ FirstsClean /\ LevelsSpread
    BY <2>1 DEF InBfs, SpreadSoFar
  <2>3. FirstsClean' /\ LevelsSpread'
    BY <1>1, <1>2, <1>7, <2>1, <2>2, SameFirsts, NextSequenceSpread
  <2> QED BY <2>1, <2>3 DEF SpreadSoFar, InRound, Satisfying
<1>8. CASE deep_next_level
  <2>1. /\ LeaveLevel /\ pc = "extend" /\ pc' = "level"
        /\ UNCHANGED <<api_sequences, api_functions_visited>>
    BY <1>8 DEF deep_next_level, LeaveLevel
  <2>2. InBfs /\ FirstsClean /\ LevelsSpread
    BY <2>1 DEF InBfs, SpreadSoFar
  <2>3. FirstsClean' /\ LevelsSpread'
    BY <1>1, <1>2, <2>1, <2>2, SameFirsts, LeaveSpread
  <2> QED BY <2>1, <2>3 DEF SpreadSoFar, InRound, Satisfying
<1>9. CASE deep_stop \/ deep_end
  <2>1. /\ pc \in {"level", "extend"} /\ pc' = "done"
        /\ UNCHANGED <<api_sequences, api_functions_visited>>
    BY <1>9 DEF deep_stop, deep_end
  <2>2. FirstsClean /\ ~InBfs' /\ ~InRound'
    BY <2>1 DEF SpreadSoFar, InBfs, InRound, Satisfying
  <2>3. FirstsClean'
    BY <1>2, <2>1, <2>2, SameFirsts
  <2> QED BY <2>1, <2>2, <2>3 DEF SpreadSoFar
<1> QED BY <1>3, <1>4, <1>5, <1>6, <1>7, <1>8, <1>9 DEF DeepSteps

\* Every function that a sequence calls is visited: it ends the beginning of the
\* sequence that it was called behind.
CallsVisited ==
    \A n \in DOMAIN api_sequences : \A c \in DOMAIN api_sequences[n].functions :
       /\ api_sequences[n].functions[c].func \in Funs
       /\ api_functions_visited[api_sequences[n].functions[c].func]

LEMMA CallsAreVisited ==
    VisitInv /\ InBfs /\ LevelsSpread => CallsVisited
<1> SUFFICES ASSUME VisitInv, InBfs, LevelsSpread,
                    NEW n \in DOMAIN api_sequences,
                    NEW c \in DOMAIN api_sequences[n].functions
             PROVE  /\ api_sequences[n].functions[c].func \in Funs
                    /\ api_functions_visited[api_sequences[n].functions[c].func]
  BY DEF CallsVisited
<1> DEFINE s == api_sequences[n]
           g == s.functions[c].func
<1>1. TypeOK /\ pc \notin {"collect", "filter", "bfs"}
  BY DEF VisitInv, LinkInv, TypeInv, InBfs, Satisfying
<1>2. s \in ApiSequences /\ Len(s.functions) \in Nat
      /\ DOMAIN s.functions = 1 .. Len(s.functions)
  BY <1>1, LevelTypes, LastCall
<1>3. g \in Funs
  BY DEF VisitInv, LinkInv, ArgumentsLinked, Generated, Linked, LinkedCall
<1>4. CASE c = Len(s.functions)
  <2>1. EndsWith(s, g)
    BY <1>2, <1>4, LastCall DEF EndsWith
  <2> QED BY <1>1, <1>3, <2>1, EndingIsVisited
<1>5. CASE c # Len(s.functions)
  <2>1. c \in 0 .. Len(s.functions) - 1 /\ c > 0
    BY <1>2, <1>5
  <2>2. PICK m \in DOMAIN api_sequences : EndsWith(api_sequences[m], g)
    BY <2>1 DEF LevelsSpread, Begun
  <2> QED BY <1>1, <1>3, <2>2, EndingIsVisited
<1> QED BY <1>3, <1>4, <1>5

\* A step that keeps no sequence and covers nothing.
LEMMA SameCoverage ==
    ASSUME UNCHANGED <<api_functions, api_sequences, api_functions_visited,
                       already_covered_nodes>>,
           NewCoverageSoFar, InBfs' => InBfs,
           InBfs' /\ pc' # "level" =>
             pc # "level" /\ UNCHANGED <<has_new_coverage_flag, len>>
    PROVE  NewCoverageSoFar'
<1>1. Funs' = Funs
  BY DEF Funs
<1> QED BY <1>1, StableSequences DEF NewCoverageSoFar

\* A sequence that covers nothing new ends with a function that is visited, and
\* so with one that a sequence of the level before ends with.
LEMMA DeepReturnCoverage ==
    ASSUME UniqueInv, VisitInv', SpreadSoFar', NewCoverageSoFar, deep_return
    PROVE  NewCoverageSoFar'
<1> USE DEF graphVars, resultVars, satVars, bfsVars, roundVars, mergeVars,
            coverVars, deepVars
<1>1. /\ pc \in {"some", "none"} /\ caller = "deep" /\ pc' = "extend"
      /\ UNCHANGED <<api_functions, len>>
  BY DEF deep_return
<1>2. /\ TypeOK /\ VisitInv /\ InBfs /\ InBfs' /\ Funs' = Funs
      /\ pc \notin {"collect", "filter", "bfs", "level"}
  BY <1>1 DEF UniqueInv, VisitInv, LinkInv, TypeInv, InBfs, Satisfying, Funs
<1>3. CASE pc = "none"
  <2>1. UNCHANGED <<api_sequences, api_functions_visited, already_covered_nodes,
                    has_new_coverage_flag>>
    BY <1>3 DEF deep_return
  <2> QED BY <1>1, <1>2, <2>1, SameCoverage
<1>4. CASE pc = "some"
  <2>1. /\ PushNewSequence
        /\ already_covered_nodes' = already_covered_nodes
             \cup get_contained_api_functions(new_sequence)
        /\ has_new_coverage_flag' =
             (has_new_coverage_flag \/ NewCoverage(new_sequence))
    BY <1>4 DEF deep_return
  <2>k. PICK k : k = Len(api_sequences) + 1
    OBVIOUS
  <2>2. /\ DOMAIN api_sequences' = DOMAIN api_sequences \cup {k}
        /\ api_sequences'[k] = new_sequence
        /\ \A i \in DOMAIN api_sequences : api_sequences'[i] = api_sequences[i]
    BY <1>2, <2>1, <2>k, PushedAt
  <2>f. PICK f : f = api_call.func
    OBVIOUS
  <2>3. /\ new_sequence \in ApiSequences /\ new_sequence.functions # <<>>
        /\ last_api_func_index(new_sequence) = f
    BY <1>2, <1>4, <2>f DEF TypeOK, VisitInv, VisitedSoFar
  <2>4. CallsVisited'
    <3>1. LevelsSpread'
      BY <1>2 DEF SpreadSoFar
    <3> QED BY <1>2, <3>1, CallsAreVisited, PTL
  <2>5. \A g \in Funs : api_functions_visited[g] => api_functions_visited'[g]
    <3>1. Unvisited' = Unvisited \ {f}
      BY <1>1, <1>2, <1>4, <2>1, <2>f, PushVisited
    <3> QED BY <1>2, <3>1 DEF Unvisited
  <2>6. ASSUME NEW g \in already_covered_nodes'
        PROVE  g \in Funs' /\ api_functions_visited'[g]
    <3>1. CASE g \in already_covered_nodes
      BY <1>2, <2>5, <3>1 DEF NewCoverageSoFar
    <3>2. CASE g \in get_contained_api_functions(new_sequence)
      BY <2>2, <2>4, <3>2 DEF get_contained_api_functions, CallsVisited
    <3> QED BY <2>1, <3>1, <3>2
  <2>7. \E n \in DOMAIN api_sequences' : api_sequences'[n].functions = <<>>
    BY <1>2, <2>2 DEF NewCoverageSoFar
  <2>8. ASSUME ~has_new_coverage_flag', NEW n \in DOMAIN api_sequences',
               api_sequences'[n].functions # <<>>
        PROVE  \E m \in DOMAIN api_sequences' :
                  /\ Len(api_sequences'[m].functions) <= len'
                  /\ EndsWith(api_sequences'[m],
                              last_api_func_index(api_sequences'[n]))
    <3>1. ~has_new_coverage_flag /\ ~NewCoverage(new_sequence)
      BY <2>1, <2>8
    <3>2. ASSUME NEW i \in DOMAIN api_sequences, api_sequences[i].functions # <<>>
          PROVE  \E m \in DOMAIN api_sequences :
                    /\ Len(api_sequences[m].functions) <= len
                    /\ EndsWith(api_sequences[m], last_api_func_index(api_sequences[i]))
      BY <1>2, <3>1, <3>2 DEF NewCoverageSoFar
    <3>3. PICK i \in DOMAIN api_sequences :
             /\ api_sequences[i].functions # <<>>
             /\ last_api_func_index(api_sequences[i])
                  = last_api_func_index(api_sequences'[n])
      <4>1. CASE n \in DOMAIN api_sequences
        BY <2>2, <2>8, <4>1
      <4>2. CASE n = k
        <5>1. f \in get_contained_api_functions(new_sequence)
          BY <2>3, LastCall DEF get_contained_api_functions
        <5>2. f \in Funs /\ api_functions_visited[f]
          BY <3>1, <5>1 DEF NewCoverage, NewCoverageSoFar
        <5>3. PICK i \in DOMAIN api_sequences :
                 /\ api_sequences[i].functions # <<>>
                 /\ last_api_func_index(api_sequences[i]) = f
          BY <1>2, <5>2 DEF VisitInv, VisitedIsCovered, Generated
        <5> QED BY <2>2, <2>3, <4>2, <5>3
      <4> QED BY <2>2, <2>8, <4>1, <4>2
    <3>4. PICK m \in DOMAIN api_sequences :
             /\ Len(api_sequences[m].functions) <= len
             /\ EndsWith(api_sequences[m], last_api_func_index(api_sequences[i]))
      BY <3>2, <3>3
    <3> QED BY <1>1, <2>2, <3>3, <3>4
  <2>9. (InBfs /\ pc # "level" /\ ~has_new_coverage_flag =>
           \A n \in DOMAIN api_sequences :
              api_sequences[n].functions # <<>> =>
                \E m \in DOMAIN api_sequences :
                   /\ Len(api_sequences[m].functions) <= len
                   /\ EndsWith(api_sequences[m],
                               last_api_func_index(api_sequences[n])))'
    BY <2>8, StableSequences, <1>1 DEF last_api_func_index
  <2> QED BY <2>6, <2>7, <2>9 DEF NewCoverageSoFar
<1> QED BY <1>1, <1>3, <1>4

LEMMA DeepCoverage ==
    ASSUME UniqueInv, VisitInv', SpreadSoFar', NewCoverageSoFar,
           pc = "bfs" => already_covered_nodes = {}, DeepSteps
    PROVE  NewCoverageSoFar'
<1> USE DEF graphVars, resultVars, satVars, bfsVars, roundVars, mergeVars,
            coverVars, deepVars
<1>1. TypeOK /\ LevelsSoFar
  BY DEF UniqueInv, VisitInv, LinkInv, TypeInv
<1>2. CASE deep_start
  <2>1. /\ already_covered_nodes' = {}
        /\ pc' = "done" \/ (pc' = "level" /\ api_sequences' = <<NewSequence>>)
    BY <1>2 DEF deep_start
  <2>2. InBfs' => \E n \in DOMAIN api_sequences' : api_sequences'[n].functions = <<>>
    <3>1. CASE pc' = "done"
      BY <3>1 DEF InBfs, Satisfying
    <3>2. CASE api_sequences' = <<NewSequence>>
      <4>1. 1 \in DOMAIN api_sequences' /\ api_sequences'[1].functions = <<>>
        BY <3>2 DEF NewSequence
      <4> QED BY <4>1
    <3> QED BY <2>1, <3>1, <3>2
  <2>3. ~(InBfs' /\ pc' # "level")
    BY <2>1 DEF InBfs, Satisfying
  <2> QED BY <2>1, <2>2, <2>3 DEF NewCoverageSoFar
<1>3. CASE deep_level
  <2>1. /\ pc = "level" /\ pc' = "extend"
        /\ UNCHANGED <<api_functions, api_sequences, api_functions_visited, len,
                       already_covered_nodes>>
    BY <1>3 DEF deep_level
  <2>2. InBfs /\ Funs' = Funs
    BY <2>1 DEF InBfs, Funs
  <2>3. ASSUME NEW n \in DOMAIN api_sequences, api_sequences[n].functions # <<>>
        PROVE  /\ Len(api_sequences[n].functions) <= len
               /\ EndsWith(api_sequences[n], last_api_func_index(api_sequences[n]))
    BY <1>1, <2>1, <2>2, <2>3 DEF LevelsSoFar, EndsWith
  <2> QED BY <2>1, <2>2, <2>3, StableSequences DEF NewCoverageSoFar
<1>4. CASE deep_return
  BY <1>4, DeepReturnCoverage
<1>5. CASE deep_try \/ (bfs_next_sequence /\ UNCHANGED deepVars)
  <2>1. /\ pc = "extend"
        /\ UNCHANGED <<api_functions, api_sequences, api_functions_visited, len,
                       already_covered_nodes, has_new_coverage_flag>>
    BY <1>5 DEF deep_try, bfs_next_sequence
  <2> QED BY <2>1, SameCoverage DEF InBfs
<1>6. CASE deep_next_level \/ deep_stop \/ deep_end
  <2>1. /\ pc \in {"level", "extend"} /\ pc' \in {"level", "done"}
        /\ UNCHANGED <<api_functions, api_sequences, api_functions_visited,
                       already_covered_nodes>>
    BY <1>6 DEF deep_next_level, deep_stop, deep_end
  <2> QED BY <2>1, SameCoverage DEF InBfs, Satisfying
<1> QED BY <1>2, <1>3, <1>4, <1>5, <1>6 DEF DeepSteps

\* What can be called only depends on the graph.
LEMMA StableCallable ==
    ASSUME UNCHANGED api_functions, UNCHANGED api_dependencies
    PROVE  Callable' = Callable
<1>1. Funs' = Funs /\ \A f : Needed(f)' = Needed(f)
  BY DEF Funs, Needed, InputsOf
<1>2. \A o, f, k : check_dependency(o, f, k)' <=> check_dependency(o, f, k)
  BY DEF check_dependency
<1> QED BY <1>1, <1>2 DEF Callable

\* If the empty sequence and one for each visited function have been tried with
\* all functions, nothing is left to be visited.
LEMMA TriedIsComplete ==
    ASSUME LevelsSpread,
           NEW e \in DOMAIN api_sequences, api_sequences[e].functions = <<>>,
           \A g \in Funs : Tried(e, g),
           \A o \in Funs : api_functions_visited[o] =>
              \E m \in DOMAIN api_sequences :
                 EndsWith(api_sequences[m], o) /\ \A g \in Funs : Tried(m, g)
    PROVE  AllCallableVisited
<1>1. ASSUME NEW g \in Funs,
             \A k \in Needed(g) : \E o \in Funs :
                api_functions_visited[o] /\ check_dependency(o, g, k)
      PROVE  api_functions_visited[g]
  <2>1. PICK m \in DOMAIN api_sequences : Tried(m, g) /\ Leads(api_sequences[m], g)
    <3>1. CASE Needed(g) = {}
      BY <3>1 DEF Leads
    <3>2. CASE Needed(g) # {}
      <4>1. PICK o \in Funs : api_functions_visited[o] /\ Feeds(o, g)
        BY <1>1, <3>2 DEF Feeds
      <4>2. PICK m \in DOMAIN api_sequences : EndsWith(api_sequences[m], o) /\ Tried(m, g)
        BY <4>1
      <4> QED BY <4>1, <4>2 DEF Leads, EndsWith
    <3> QED BY <3>1, <3>2
  <2> QED BY <2>1 DEF LevelsSpread
<1> QED BY <1>1, ClosedIsCallable DEF AllCallableVisited

\* A level without new coverage is the last that is needed.
LEMMA StopIsComplete ==
    ASSUME UniqueInv, SpreadSoFar, NewCoverageSoFar,
           pc = "extend", tmp_sequences = {}, ~has_new_coverage_flag
    PROVE  AllCallableVisited
<1>1. TypeOK /\ VisitInv /\ InBfs /\ LevelsSpread
  BY DEF UniqueInv, VisitInv, LinkInv, TypeInv, InBfs, SpreadSoFar
<1>2. ASSUME NEW m \in DOMAIN api_sequences, NEW g,
             Len(api_sequences[m].functions) <= len
      PROVE  Tried(m, g)
  <2>1. Len(api_sequences[m].functions) \in Nat /\ len \in Nat
    BY <1>1, LevelTypes
  <2>2. \/ Len(api_sequences[m].functions) < len
        \/ Len(api_sequences[m].functions) = len
    BY <1>2, <2>1
  <2> QED BY <2>2 DEF Tried
<1>3. PICK e \in DOMAIN api_sequences : api_sequences[e].functions = <<>>
  BY <1>1 DEF NewCoverageSoFar
<1>4. \A g \in Funs : Tried(e, g)
  <2>1. Len(api_sequences[e].functions) <= len
    BY <1>1, <1>3, LevelTypes
  <2> QED BY <1>2, <2>1
<1>5. ASSUME NEW o \in Funs, api_functions_visited[o]
      PROVE  \E m \in DOMAIN api_sequences :
                EndsWith(api_sequences[m], o) /\ \A g \in Funs : Tried(m, g)
  <2>1. PICK n \in DOMAIN api_sequences :
           api_sequences[n].functions # <<>> /\ last_api_func_index(api_sequences[n]) = o
    BY <1>1, <1>5 DEF VisitInv, VisitedIsCovered, Generated
  <2>2. PICK m \in DOMAIN api_sequences :
           Len(api_sequences[m].functions) <= len /\ EndsWith(api_sequences[m], o)
    BY <1>1, <2>1 DEF NewCoverageSoFar
  <2> QED BY <1>2, <2>2
<1> QED BY <1>1, <1>3, <1>4, <1>5, TriedIsComplete

\* A sequence without repetition that is as long as there are functions calls
\* them all.
LEMMA LongCallsAll ==
    ASSUME TypeOK, NEW s \in ApiSequences, NoRepetition(s),
           \A c \in DOMAIN s.functions : s.functions[c].func \in Funs,
           Len(s.functions) >= Len(api_functions)
    PROVE  \A f \in Funs : \E c \in DOMAIN s.functions : s.functions[c].func = f
<1> DEFINE C == 1 .. Len(s.functions)
           N == Len(api_functions)
           call == [c \in C |-> s.functions[c].func]
<1>1. /\ Len(s.functions) \in Nat /\ DOMAIN s.functions = C
      /\ N \in Nat /\ Funs = 1 .. N
  BY LastCall DEF TypeOK, Funs
<1>2. /\ IsFiniteSet(C) /\ Cardinality(C) = Len(s.functions)
      /\ IsFiniteSet(Funs) /\ Cardinality(Funs) = N
  <2>1. ASSUME NEW n \in Nat PROVE IsFiniteSet(1 .. n) /\ Cardinality(1 .. n) = n
    BY FS_Interval
  <2> QED BY <1>1, <2>1
<1>3. call \in Injection(C, Funs)
  BY <1>1 DEF Injection, IsInjective, NoRepetition
<1>4. Cardinality(C) = Cardinality(Funs)
  <2>1. Cardinality(C) <= Cardinality(Funs)
    BY <1>2, <1>3, FS_Injection
  <2> QED BY <1>1, <1>2, <2>1
<1>5. call \in Surjection(C, Funs)
  BY <1>2, <1>3, <1>4, FS_Injection
<1> QED BY <1>1, <1>5 DEF Surjection

\* So are the sequences that are as long as there are functions.
LEMMA EndIsComplete ==
    ASSUME UniqueInv, SpreadSoFar, NewCoverageSoFar, pc = "level", ~MoreLevels
    PROVE  AllCallableVisited
<1>1. /\ TypeOK /\ VisitInv /\ InBfs /\ LevelsSpread /\ FirstsClean /\ LevelsSoFar
  BY DEF UniqueInv, VisitInv, LinkInv, TypeInv, InBfs, SpreadSoFar
<1>2. CallsVisited
  BY <1>1, CallsAreVisited
<1>3. /\ len \in Nat /\ Len(api_functions) \in Nat /\ len >= Len(api_functions)
      /\ Funs = 1 .. Len(api_functions)
      /\ \A m \in DOMAIN api_sequences :
           /\ api_sequences[m] \in ApiSequences
           /\ Len(api_sequences[m].functions) \in Nat
           /\ Len(api_sequences[m].functions) <= len
  BY <1>1, LevelTypes DEF LevelsSoFar, TypeOK, Funs, MoreLevels
<1>4. CASE \E n \in DOMAIN api_sequences :
              NoRepetition(api_sequences[n]) /\ Len(api_sequences[n].functions) = len
  <2>1. PICK n \in DOMAIN api_sequences :
           NoRepetition(api_sequences[n]) /\ Len(api_sequences[n].functions) = len
    BY <1>4
  <2>2. \A f \in Funs : \E c \in DOMAIN api_sequences[n].functions :
           api_sequences[n].functions[c].func = f
    BY <1>1, <1>2, <1>3, <2>1, LongCallsAll DEF CallsVisited
  <2>3. \A f \in Funs : api_functions_visited[f]
    BY <1>2, <2>2 DEF CallsVisited
  <2> QED BY <2>3 DEF AllCallableVisited, Callable
<1>5. CASE \A n \in DOMAIN api_sequences :
              NoRepetition(api_sequences[n]) => Len(api_sequences[n].functions) # len
  <2>1. PICK e \in DOMAIN api_sequences : api_sequences[e].functions = <<>>
    BY <1>1 DEF NewCoverageSoFar
  <2>2. \A g \in Funs : Tried(e, g)
    <3>1. ASSUME NEW g \in Funs PROVE len > 0
      BY <1>3, <3>1
    <3> QED BY <2>1, <3>1 DEF Tried
  <2>3. ASSUME NEW o \in Funs, api_functions_visited[o]
        PROVE  \E m \in DOMAIN api_sequences :
                  EndsWith(api_sequences[m], o) /\ \A g \in Funs : Tried(m, g)
    <3>1. PICK m \in DOMAIN api_sequences :
             Foremost(m, o) /\ NoRepetition(api_sequences[m])
      BY <1>1, <2>3 DEF FirstsClean
    <3>2. Len(api_sequences[m].functions) < len
      BY <1>3, <1>5, <3>1
    <3> QED BY <3>1, <3>2 DEF Foremost, Tried
  <2> QED BY <1>1, <2>1, <2>2, <2>3, TriedIsComplete
<1> QED BY <1>4, <1>5

LEMMA DeepComplete ==
    ASSUME UniqueInv, SpreadSoFar, NewCoverageSoFar, Unary, DeepSteps
    PROVE  DeepCoversUnary'
<1> USE DEF graphVars, resultVars, satVars, bfsVars, roundVars, mergeVars,
            coverVars, deepVars
<1> SUFFICES ASSUME pc' = "done", ~TooMany' PROVE AllCallableVisited'
  BY DEF DeepCoversUnary
<1>1. CASE deep_start
  <2>1. api_functions' = <<>>
    BY <1>1 DEF deep_start
  <2>2. Funs' = {}
    BY <2>1 DEF Funs
  <2> QED BY <2>2 DEF AllCallableVisited, Callable
<1>2. CASE deep_stop \/ deep_end
  <2>1. UNCHANGED <<api_functions, api_dependencies, api_sequences,
                    api_functions_visited, len>>
    BY <1>2 DEF deep_stop, deep_end
  <2>2. TooMany' <=> TooMany
    BY <2>1 DEF TooMany, visited_nodes_num, Funs
  <2>3. AllCallableVisited
    <3>1. CASE deep_stop
      BY <3>1, StopIsComplete DEF deep_stop
    <3>2. CASE deep_end
      BY <2>2, <3>2, EndIsComplete DEF deep_end
    <3> QED BY <1>2, <3>1, <3>2
  <2> QED BY <2>1, <2>3, StableCallable DEF AllCallableVisited
<1>3. CASE ~(deep_start \/ deep_stop \/ deep_end)
  BY <1>3 DEF DeepSteps, deep_level, deep_try, deep_return, Satisfy,
     bfs_next_sequence, deep_next_level
<1> QED BY <1>1, <1>2, <1>3

\* DeepSpreadInv is inductive.
LEMMA DeepSpreadStep ==
    DeepSpreadInv /\ [TraverseNext]_allVars => DeepSpreadInv'
<1> SUFFICES ASSUME DeepSpreadInv, [TraverseNext]_allVars, algorithm = "deep"
             PROVE  /\ DeepInv' /\ SupplyInv'
                    /\ Unary' => SpreadSoFar' /\ NewCoverageSoFar'
                    /\ DeepCoversUnary'
  BY DEF DeepSpreadInv, TraverseNext, allVars
<1> USE DEF graphVars, resultVars, satVars, bfsVars, roundVars, mergeVars,
            coverVars, deepVars
<1>1. /\ DeepInv /\ UniqueInv /\ VisitInv /\ TypeOK /\ SupplyInv
      /\ pc \in {"collect", "filter", "bfs"} => len = 0 /\ already_covered_nodes = {}
      /\ Unary => SpreadSoFar /\ NewCoverageSoFar
      /\ DeepCoversUnary
  BY DEF DeepSpreadInv, DeepInv, UniqueInv, VisitInv, LinkInv, TypeInv
<1>2. DeepInv' /\ VisitInv'
  BY <1>1, DeepInvStep, TraverseVisitStep
<1>3. CASE Collect /\ UNCHANGED deepVars
  <2>1. /\ pc \in {"collect", "filter"} /\ pc' \in {"collect", "filter", "bfs"}
        /\ already_covered_nodes' = {}
    BY <1>1, <1>3 DEF Collect, add_api_function, filter_start, filter_function,
       find_all_dependencies, TypeOK
  <2>2. ~InBfs' /\ ~InRound'
    BY <2>1 DEF InBfs, InRound, Satisfying
  <2>3. SupplyInv'
    BY <1>1, <1>3, CollectSupply
  <2> QED BY <1>2, <2>1, <2>2, <2>3 DEF SpreadSoFar, NewCoverageSoFar, DeepCoversUnary
<1>4. CASE IsFunSatisfied /\ UNCHANGED deepVars
  <2>1. /\ UNCHANGED <<api_functions, api_dependencies, api_sequences,
                       api_functions_visited, len, caller>>
        /\ pc = "param" /\ pc' \in {"param", "some", "none"}
    BY <1>4 DEF IsFunSatisfied, return_param, TakeReturn, fuzzable_param,
         refuse_param, add_fn
  <2>2. SupplyInv' /\ (Unary' <=> Unary)
    BY <1>1, <1>4, <2>1, IsFunSatisfiedSupply, StableLeads
  <2>3. ASSUME Unary PROVE SpreadSoFar' /\ NewCoverageSoFar'
    <3>1. SpreadSoFar'
      BY <1>1, <1>4, <2>3, IsFunSatisfiedSpread
    <3>2. InBfs' => InBfs
      BY <2>1 DEF InBfs, Satisfying
    <3>3. NewCoverageSoFar'
      BY <1>1, <1>4, <2>1, <2>3, <3>2, SameCoverage
    <3> QED BY <3>1, <3>3
  <2> QED BY <1>2, <2>1, <2>2, <2>3 DEF DeepCoversUnary
<1>5. CASE DeepSteps
  <2>1. UNCHANGED <<api_functions, api_dependencies>>
    BY <1>5 DEF DeepSteps, deep_start, deep_level, deep_try, deep_return,
         bfs_next_sequence, deep_next_level, deep_stop, deep_end
  <2>2. SupplyInv' /\ (Unary' <=> Unary)
    BY <1>1, <1>5, <2>1, DeepSupply, StableLeads
  <2>3. ASSUME Unary PROVE SpreadSoFar' /\ NewCoverageSoFar' /\ DeepCoversUnary'
    <3>1. SpreadSoFar'
      BY <1>1, <1>5, <2>3, DeepSpread
    <3> QED BY <1>1, <1>2, <1>5, <2>3, <3>1, DeepCoverage, DeepComplete
  <2> QED BY <1>2, <2>2, <2>3 DEF DeepCoversUnary
<1>6. CASE UNCHANGED vars /\ UNCHANGED deepVars
  <2>1. /\ UNCHANGED <<api_functions, api_dependencies, api_sequences,
                       api_functions_visited, len, pc, caller>>
    BY <1>6 DEF vars
  <2>2. SupplyInv' /\ (Unary' <=> Unary)
    BY <1>1, <1>6, <2>1, StutterSupply, StableLeads
  <2>3. InBfs' <=> InBfs
    BY <2>1 DEF InBfs, Satisfying
  <2>4. Unary => SpreadSoFar' /\ NewCoverageSoFar'
    BY <1>1, <1>6, <2>1, <2>3, StutterSpread, SameCoverage
  <2>5. DeepCoversUnary'
    BY <1>1, <2>1, <2>2, StableCallable DEF DeepCoversUnary, AllCallableVisited,
       TooMany, visited_nodes_num, Funs
  <2> QED BY <1>2, <2>2, <2>4, <2>5
<1> QED BY <1>3, <1>4, <1>5, <1>6 DEF TraverseNext, Terminated, allVars

\* As long as no function needs two results, the deep bfs gives every function
\* that can be called a target before it gives up, unless the limit on its work
\* stops it: a level without new coverage has nothing to lead on, and a sequence
\* as long as there are functions calls them all.
THEOREM DeepSearchIsComplete == TraverseSpec => []DeepIsComplete
<1>1. TraverseInit => DeepSpreadInv
  <2> SUFFICES ASSUME TraverseInit PROVE DeepSpreadInv
    OBVIOUS
  <2>1. /\ UniqueInv /\ SupplyInv /\ pc = "collect" /\ len = 0
        /\ already_covered_nodes = {}
    BY InitUnique, InitSupply DEF TraverseInit, Init, DeepInit
  <2>2. ~InBfs /\ ~InRound
    BY <2>1 DEF InBfs, InRound, Satisfying
  <2> QED BY <2>1, <2>2 DEF DeepSpreadInv, DeepInv, SpreadSoFar, NewCoverageSoFar,
                            DeepCoversUnary
<1>2. DeepSpreadInv => DeepIsComplete
  BY DEF DeepSpreadInv, DeepIsComplete
<1> QED BY <1>1, <1>2, DeepSpreadStep, PTL DEF TraverseSpec

-----------------------------------------------------------------------------
(* The random walk is bounded                                              *)

\* The bound on one sequence.
WalkTypes ==
    /\ MaxSize \in Nat /\ steps_left \in Nat /\ steps_left <= MaxSize
    /\ max_depth \in Nat
    /\ Len(api_sequences) \in Nat /\ DOMAIN api_sequences = 1 .. Len(api_sequences)
    /\ \A n \in DOMAIN api_sequences : Len(api_sequences[n].functions) \in Nat
    /\ Len(new_sequence.functions) \in Nat

LEMMA WalkTypesHold ==
    ASSUME TypeOK, WalkedSoFar
    PROVE  WalkTypes
<1>1. api_sequences \in Seq(ApiSequences) /\ new_sequence \in ApiSequences
  BY DEF TypeOK
<1>2. strategy \in BOOLEAN \X Nat /\ MaxSize \in Nat /\ steps_left \in 0 .. MaxSize
  BY WalkAssumption DEF WalkedSoFar
<1>3. /\ \A n \in DOMAIN api_sequences : Len(api_sequences[n].functions) \in Nat
      /\ Len(new_sequence.functions) \in Nat
  BY <1>1, LastCall
<1>4. Len(api_sequences) \in Nat /\ DOMAIN api_sequences = 1 .. Len(api_sequences)
  BY <1>1
<1> QED BY <1>2, <1>3, <1>4 DEF WalkTypes, max_depth

\* The step keeps what has been generated.
LEMMA SameWalkBound ==
    ASSUME WalkTypes, WalkBound, UNCHANGED <<api_sequences, strategy>>,
           steps_left' = steps_left \/ steps_left' = steps_left - 1
    PROVE  WalkBound'
BY DEF WalkTypes, WalkBound, max_depth

LEMMA WalkStepBound ==
    ASSUME LinkInv, WalkBound, WalkedSoFar, WalkSteps
    PROVE  WalkBound' /\ WalkedSoFar'
<1> USE DEF vars, resultVars, satVars, walkVars
<1>1. TypeOK /\ WalkTypes
  BY WalkTypesHold DEF LinkInv, TypeInv
<1>2. UNCHANGED strategy
  BY DEF WalkSteps, walk_start, walk_continue, walk_try, walk_return, walk_end,
     first_choose, first_choose_end, add_test_file, write_files
<1>3. strategy' \in Strategies /\ max_depth' = max_depth
  BY <1>2 DEF WalkedSoFar, max_depth
<1>4. CASE walk_start
  <2>1. /\ pc' \in {"walk", "choose"} /\ steps_left' = MaxSize
        /\ api_sequences' = <<>> \/ api_sequences' = <<NewSequence>>
    BY <1>4 DEF walk_start
  <2>2. \A n \in DOMAIN api_sequences' : n = 1 /\ Len(api_sequences'[n].functions) = 0
    BY <2>1 DEF NewSequence
  <2>3. WalkBound'
    BY <1>1, <1>3, <2>1, <2>2 DEF WalkBound, WalkTypes
  <2> QED BY <1>1, <1>3, <2>1, <2>3 DEF WalkedSoFar, Satisfying, WalkTypes
<1>5. CASE walk_continue
  <2>1. /\ pc = "walk" /\ pc' = "walk" /\ steps_left' = steps_left - 1
        /\ steps_left > 0 /\ UNCHANGED api_sequences
    BY <1>5 DEF walk_continue
  <2>2. WalkBound'
    BY <1>1, <1>2, <2>1, SameWalkBound
  <2> QED BY <1>1, <1>3, <2>1, <2>2 DEF WalkedSoFar, Satisfying, WalkTypes
<1>6. CASE walk_try
  <2>1. PICK n \in DOMAIN api_sequences, f \in Funs :
               ~Continue(api_sequences[n]) /\ Satisfy(api_sequences[n], f, "walk")
    BY <1>6 DEF walk_try
  <2>2. /\ pc = "walk" /\ pc' = "param" /\ steps_left' = steps_left - 1
        /\ steps_left > 0 /\ UNCHANGED api_sequences
    BY <1>6, <2>1 DEF walk_try, Satisfy
  <2>3. WalkBound'
    BY <1>1, <1>2, <2>2, SameWalkBound
  <2>4. new_sequence'.functions = api_sequences[n].functions
    BY <1>1, <2>1 DEF Satisfy, ApiSequences, TypeOK
  <2> DEFINE d == Len(api_sequences[n].functions)
             k == Len(api_sequences)
  <2>5. /\ d \in Nat /\ k \in Nat /\ n \in 1 .. k /\ d <= n - 1
        /\ k <= MaxSize - steps_left + 1
    <3>1. k \in 1 .. k /\ k \in DOMAIN api_sequences
      BY <1>1 DEF WalkTypes
    <3> QED BY <1>1, <3>1 DEF WalkTypes, WalkBound
  <2>6. max_depth > 0 => d < max_depth
    <3>1. ~(max_depth > 0 /\ d >= max_depth)
      BY <2>1 DEF Continue
    <3> QED BY <1>1, <2>5, <3>1 DEF WalkTypes
  <2>7. Len(new_sequence'.functions) = d
    BY <2>4
  <2> HIDE DEF d
  <2>8. d < k /\ k <= MaxSize - steps_left' /\ steps_left' \in 0 .. MaxSize
    BY <1>1, <2>2, <2>5 DEF WalkTypes
  <2> QED BY <1>3, <2>2, <2>3, <2>6, <2>7, <2>8 DEF WalkedSoFar
<1>7. CASE walk_return
  <2>1. pc \in {"some", "none"} /\ pc' = "walk" /\ UNCHANGED steps_left
    BY <1>7 DEF walk_return
  <2>2. WalkBound'
    <3>1. CASE pc = "none"
      <4>1. UNCHANGED api_sequences
        BY <1>7, <3>1 DEF walk_return
      <4> QED BY <1>1, <1>2, <2>1, <4>1, SameWalkBound
    <3>2. CASE pc = "some"
      <4>1. PushNewSequence
        BY <1>7, <3>2 DEF walk_return
      <4> DEFINE m == Len(api_sequences) + 1
      <4>2. /\ DOMAIN api_sequences' = DOMAIN api_sequences \cup {m}
            /\ api_sequences'[m] = new_sequence
            /\ \A n \in DOMAIN api_sequences : api_sequences'[n] = api_sequences[n]
        BY <1>1, <4>1, PushedAt
      <4>3. /\ m <= MaxSize - steps_left + 1
            /\ Len(new_sequence.functions) <= m - 1
            /\ max_depth > 0 => Len(new_sequence.functions) <= max_depth
        BY <1>1, <3>2 DEF WalkedSoFar, WalkTypes, Satisfying
      <4> HIDE DEF m
      <4> QED BY <1>3, <2>1, <4>2, <4>3 DEF WalkBound
    <3> QED BY <2>1, <3>1, <3>2
  <2> QED BY <1>1, <1>3, <2>1, <2>2 DEF WalkedSoFar, Satisfying, WalkTypes
<1>8. CASE walk_end \/ first_choose \/ first_choose_end \/ add_test_file \/ write_files
  <2>1. /\ UNCHANGED <<api_sequences, steps_left>>
        /\ pc' \notin {"param", "some", "none"}
    BY <1>8 DEF walk_end, first_choose, first_choose_end, add_test_file, write_files
  <2>2. WalkBound'
    BY <1>1, <1>2, <2>1, SameWalkBound
  <2> QED BY <1>3, <2>1, <2>2 DEF WalkedSoFar, Satisfying
<1> QED BY <1>4, <1>5, <1>6, <1>7, <1>8 DEF WalkSteps

LEMMA IsFunSatisfiedBound ==
    ASSUME LinkInv, WalkBound, WalkedSoFar, IsFunSatisfied, UNCHANGED walkVars
    PROVE  WalkBound' /\ WalkedSoFar'
<1> USE DEF resultVars, satVars, walkVars
<1>1. TypeOK /\ WalkTypes
  BY WalkTypesHold DEF LinkInv, TypeInv
<1>2. /\ UNCHANGED <<api_sequences, strategy, steps_left>>
      /\ pc = "param" /\ pc' \in {"param", "some", "none"}
  BY DEF IsFunSatisfied, return_param, TakeReturn, fuzzable_param, refuse_param, add_fn
<1>3. WalkBound'
  BY <1>1, <1>2, SameWalkBound
<1> DEFINE x == new_sequence.functions
           y == new_sequence'.functions
<1>4. x \in Seq(ApiCalls) /\ api_call \in ApiCalls
  BY <1>1, SequenceFields DEF TypeOK
<1>5. pc' = "param" => y = x
  BY <1>1 DEF IsFunSatisfied, return_param, TakeReturn, WithReturn,
       fuzzable_param, refuse_param, add_fn, TypeOK, ApiSequences
<1>6. ASSUME pc' = "some" PROVE y = Append(x, api_call)
  <2>1. add_fn
    BY <1>2, <1>6 DEF IsFunSatisfied, return_param, TakeReturn, fuzzable_param,
                      refuse_param
  <2> QED BY <1>1, <2>1 DEF add_fn, TypeOK, ApiSequences
<1>7. /\ Len(x) < Len(api_sequences)
      /\ max_depth > 0 => Len(x) < max_depth
      /\ Len(api_sequences) <= MaxSize - steps_left
      /\ strategy \in Strategies /\ steps_left \in 0 .. MaxSize
  BY <1>2 DEF WalkedSoFar, Satisfying
<1> HIDE DEF x
<1>8. ASSUME pc' = "some" PROVE Len(y) = Len(x) + 1
  <2>1. y = Append(x, api_call)
    BY <1>6, <1>8
  <2> HIDE DEF y
  <2> QED BY <1>4, <2>1
<1> HIDE DEF y
<1>9. max_depth' = max_depth /\ max_depth \in Nat /\ Len(api_sequences) \in Nat
      /\ Len(x) \in Nat
  BY <1>1, <1>2 DEF max_depth, WalkTypes, x
<1>10. pc' = "some" => /\ Len(y) <= Len(api_sequences)
                       /\ max_depth > 0 => Len(y) <= max_depth
  BY <1>7, <1>8, <1>9
<1>11. pc' = "param" => /\ Len(y) < Len(api_sequences)
                        /\ max_depth > 0 => Len(y) < max_depth
  BY <1>5, <1>7 DEF x, y
<1>12. WalkedSoFar'
  BY <1>2, <1>7, <1>9, <1>10, <1>11 DEF WalkedSoFar, Satisfying, y
<1> QED BY <1>3, <1>12
-----------------------------------------------------------------------------
(* The files are the first sequences                                       *)

\* Steps that change neither the choice nor the files, nor the sequences the
\* choice is made from once it has begun.
LEMMA SameChosen ==
    ASSUME ChosenSoFar, TypeOK', UNCHANGED <<index, chosen, test_files>>,
           /\ pc \notin {"choose", "write", "done"}
           /\ pc' \notin {"write", "done"}
    PROVE  ChosenSoFar'
<1>1. /\ chosen' = <<>> /\ index' = 1 /\ test_files' = <<>>
      /\ pc' \notin {"write", "done"}
  BY DEF ChosenSoFar
<1>2. DOMAIN chosen' = {} /\ Len(chosen') = 0
      /\ DOMAIN test_files' = {} /\ Len(test_files') = 0
  BY <1>1
<1>3. chosen' \in Seq(DOMAIN api_sequences') /\ test_files' \in Seq(Nat)
      /\ index' \in Nat \ {0}
  BY <1>1
<1>4. ASSUME NEW n \in DOMAIN api_sequences', n < index' PROVE FALSE
  <2>1. api_sequences' \in Seq(ApiSequences)
    BY DEF TypeOK
  <2> QED BY <1>1, <1>4, <2>1
<1>5. 0 < RandomSize /\ 0 <= RandomSize /\ 0 <= MaxTestFiles
  BY WalkAssumption
<1> QED BY <1>1, <1>2, <1>3, <1>4, <1>5 DEF ChosenSoFar

\* A step that only moves on.
LEMMA KeptChosen ==
    ASSUME ChosenSoFar, UNCHANGED <<api_sequences, index, chosen, test_files>>,
           \/ pc' = pc
           \/ pc = "choose" /\ pc' = "write" /\ index \notin DOMAIN api_sequences
           \/ pc = "write" /\ pc' = "done" /\ ~MoreFiles
    PROVE  ChosenSoFar'
<1>1. MoreFiles' <=> MoreFiles
  BY DEF MoreFiles
<1> QED BY <1>1 DEF ChosenSoFar

LEMMA FirstChooseStep ==
    ASSUME TypeOK, ChosenSoFar, first_choose
    PROVE  ChosenSoFar'
<1> USE DEF resultVars
<1>1. /\ pc = "choose" /\ index \in DOMAIN api_sequences /\ index' = index + 1
      /\ UNCHANGED <<api_sequences, test_files>>
      /\ index \in Nat \ {0} /\ api_sequences \in Seq(ApiSequences)
  BY DEF first_choose, ChosenSoFar, TypeOK
<1>2. /\ chosen \in Seq(DOMAIN api_sequences) /\ test_files = <<>>
      /\ \A j \in DOMAIN chosen : chosen[j] < index
      /\ \A i, j \in DOMAIN chosen : i < j => chosen[i] < chosen[j]
      /\ \A n \in DOMAIN api_sequences :
           n < index => has_no_fuzzables(api_sequences[n])
                          \/ \E j \in DOMAIN chosen : chosen[j] = n
      /\ Len(chosen) < RandomSize
  BY <1>1 DEF ChosenSoFar
<1>3. DOMAIN api_sequences \subseteq Nat /\ RandomSize \in Nat /\ MaxTestFiles \in Nat
      /\ Len(chosen) \in Nat
  BY <1>1, <1>2, WalkAssumption
<1>4. /\ Len(test_files') = 0 /\ DOMAIN test_files' = {} /\ test_files' \in Seq(Nat)
      /\ index' \in Nat \ {0}
  BY <1>1, <1>2
<1>5. CASE has_no_fuzzables(api_sequences[index])
  <2>1. UNCHANGED <<chosen, pc>>
    BY <1>5 DEF first_choose
  <2>2. \A j \in DOMAIN chosen : chosen[j] < index + 1
    <3>1. \A j \in DOMAIN chosen : chosen[j] \in Nat
      BY <1>2, <1>3
    <3> QED BY <1>1, <1>2, <3>1
  <2>3. \A n \in DOMAIN api_sequences : n < index + 1 => n = index \/ n < index
    BY <1>1, <1>3
  <2>4. \A n \in DOMAIN api_sequences :
           n < index + 1 => has_no_fuzzables(api_sequences[n])
                              \/ \E j \in DOMAIN chosen : chosen[j] = n
    BY <1>2, <1>5, <2>3
  <2> QED BY <1>1, <1>2, <1>3, <1>4, <2>1, <2>2, <2>4 DEF ChosenSoFar
<1>6. CASE ~has_no_fuzzables(api_sequences[index])
  <2>1. chosen' = Append(chosen, index)
        /\ pc' = IF EnoughChosen(chosen') THEN "write" ELSE pc
    BY <1>6 DEF first_choose
  <2> DEFINE k == Len(chosen) + 1
  <2>2. /\ Len(chosen') = k /\ k \in Nat /\ DOMAIN chosen' = DOMAIN chosen \cup {k}
        /\ DOMAIN chosen = 1 .. k - 1
        /\ chosen'[k] = index /\ \A j \in DOMAIN chosen : chosen'[j] = chosen[j]
        /\ chosen' \in Seq(DOMAIN api_sequences)
    BY <1>1, <1>2, <2>1
  <2>3. k <= RandomSize
    BY <1>2, <1>3
  <2>4. \/ pc' = "write" /\ k = RandomSize
        \/ pc' = "choose" /\ k < RandomSize
    <3>1. EnoughChosen(chosen') <=> k >= RandomSize
      BY <2>2 DEF EnoughChosen
    <3> QED BY <1>1, <1>3, <2>1, <2>2, <2>3, <3>1
  <2> HIDE DEF k
  <2>5. \A j \in DOMAIN chosen : chosen[j] \in Nat
    BY <1>2, <1>3
  <2>6. \A j \in DOMAIN chosen' : chosen'[j] < index'
    BY <1>1, <1>2, <2>2, <2>5
  <2>7. ASSUME NEW i \in DOMAIN chosen', NEW j \in DOMAIN chosen', i < j
        PROVE  chosen'[i] < chosen'[j]
    <3>1. i \in DOMAIN chosen
      BY <2>2, <2>7
    <3>2. CASE j \in DOMAIN chosen
      BY <1>2, <2>2, <2>7, <3>1, <3>2
    <3>3. CASE j = k
      BY <1>2, <2>2, <3>1, <3>3
    <3> QED BY <2>2, <3>2, <3>3
  <2>8. ASSUME NEW n \in DOMAIN api_sequences, n < index'
        PROVE  \/ has_no_fuzzables(api_sequences[n])
               \/ \E j \in DOMAIN chosen' : chosen'[j] = n
    <3>1. n = index \/ n < index
      BY <1>1, <1>3, <2>8
    <3> QED BY <1>2, <2>2, <3>1
  <2> QED BY <1>1, <1>2, <1>3, <1>4, <2>2, <2>3, <2>4, <2>6, <2>7, <2>8 DEF ChosenSoFar
<1> QED BY <1>5, <1>6

LEMMA AddTestFileStep ==
    ASSUME ChosenSoFar, add_test_file, TypeOK
    PROVE  ChosenSoFar'
<1>1. /\ pc = "write" /\ UNCHANGED <<api_sequences, index, chosen, pc>>
      /\ Len(test_files) < Len(chosen) /\ Len(test_files) < MaxTestFiles
      /\ test_files' = Append(test_files, chosen[Len(test_files) + 1])
  BY DEF add_test_file, MoreFiles, vars, resultVars
<1>2. /\ chosen \in Seq(DOMAIN api_sequences) /\ test_files \in Seq(Nat)
      /\ \A j \in DOMAIN test_files : test_files[j] = chosen[j]
      /\ api_sequences \in Seq(ApiSequences)
  BY DEF ChosenSoFar, TypeOK
<1> DEFINE k == Len(test_files) + 1
<1>3. k \in DOMAIN chosen /\ k \in Nat /\ Len(chosen) \in Nat /\ chosen[k] \in Nat
  BY <1>1, <1>2
<1>4. /\ Len(test_files') = k /\ DOMAIN test_files' = DOMAIN test_files \cup {k}
      /\ test_files'[k] = chosen[k]
      /\ \A j \in DOMAIN test_files : test_files'[j] = test_files[j]
      /\ test_files' \in Seq(Nat)
  BY <1>1, <1>2, <1>3
<1>5. k <= Len(chosen) /\ k <= MaxTestFiles
  BY <1>1, <1>2, <1>3, WalkAssumption
<1> HIDE DEF k
<1>6. \A j \in DOMAIN test_files' : test_files'[j] = chosen[j]
  BY <1>2, <1>4
<1> QED BY <1>1, <1>4, <1>5, <1>6 DEF ChosenSoFar

LEMMA WalkStepChosen ==
    ASSUME TypeOK, TypeOK', ChosenSoFar, WalkSteps
    PROVE  ChosenSoFar'
<1> USE DEF vars, resultVars, walkVars
<1>1. CASE walk_start \/ walk_continue \/ walk_return \/ walk_end
  <2>1. /\ pc \notin {"choose", "write", "done"} /\ pc' \notin {"write", "done"}
        /\ UNCHANGED <<index, chosen, test_files>>
    BY <1>1 DEF walk_start, walk_continue, walk_return, walk_end
  <2> QED BY <2>1, SameChosen
<1>2. CASE walk_try
  <2>1. /\ pc = "walk" /\ pc' = "param" /\ UNCHANGED <<index, chosen, test_files>>
    BY <1>2 DEF walk_try, Satisfy
  <2> QED BY <2>1, SameChosen
<1>3. CASE first_choose
  BY <1>3, FirstChooseStep
<1>4. CASE first_choose_end \/ write_files
  <2>1. /\ UNCHANGED <<api_sequences, index, chosen, test_files>>
        /\ \/ pc = "choose" /\ pc' = "write" /\ index \notin DOMAIN api_sequences
           \/ pc = "write" /\ pc' = "done" /\ ~MoreFiles
    BY <1>4 DEF first_choose_end, write_files
  <2> QED BY <2>1, KeptChosen
<1>5. CASE add_test_file
  BY <1>5, AddTestFileStep
<1> QED BY <1>1, <1>2, <1>3, <1>4, <1>5 DEF WalkSteps

\* LinkInv and WalkInv are inductive together.
LEMMA WalkInvStep ==
    LinkInv /\ WalkInv /\ [TraverseNext]_allVars => WalkInv'
<1> SUFFICES ASSUME LinkInv, WalkInv, [TraverseNext]_allVars, algorithm = "walk"
             PROVE  WalkBound' /\ WalkedSoFar' /\ ChosenSoFar'
  BY DEF WalkInv, TraverseNext, allVars
<1>1. WalkBound /\ WalkedSoFar /\ ChosenSoFar
  BY DEF WalkInv
<1>2. LinkInv' /\ TypeOK /\ TypeOK'
  BY TraverseLinkStep DEF LinkInv, TypeInv
<1> USE DEF vars, resultVars, walkVars
<1>3. CASE Collect /\ UNCHANGED walkVars
  <2>1. /\ pc \in {"collect", "filter"} /\ pc' \in {"collect", "filter", "bfs"}
    BY <1>2, <1>3 DEF Collect, add_api_function, filter_start, filter_function,
       find_all_dependencies, TypeOK
  <2>2. api_sequences' = <<>>
    BY <1>2, <2>1 DEF LinkInv, LinkedSoFar
  <2>3. ChosenSoFar'
    BY <1>1, <1>2, <1>3, <2>1, SameChosen
  <2>4. WalkBound' /\ WalkedSoFar'
    BY <1>1, <1>3, <2>1, <2>2 DEF WalkBound, WalkedSoFar, Satisfying
  <2> QED BY <2>3, <2>4
<1>4. CASE IsFunSatisfied /\ UNCHANGED walkVars
  <2>1. pc = "param" /\ pc' \in {"param", "some", "none"}
    BY <1>4 DEF IsFunSatisfied, return_param, TakeReturn, fuzzable_param,
         refuse_param, add_fn
  <2>2. ChosenSoFar'
    BY <1>1, <1>2, <1>4, <2>1, SameChosen
  <2> QED BY <1>1, <1>4, <2>2, IsFunSatisfiedBound
<1>5. CASE WalkSteps
  BY <1>1, <1>2, <1>5, WalkStepBound, WalkStepChosen
<1>6. CASE UNCHANGED vars /\ UNCHANGED walkVars
  <2>1. UNCHANGED <<pc, api_sequences, new_sequence, index, chosen, test_files,
                    strategy, steps_left>>
    BY <1>6 DEF satVars
  <2>2. ChosenSoFar'
    BY <1>1, <2>1, KeptChosen
  <2>3. WalkBound' /\ WalkedSoFar'
    BY <1>1, <2>1 DEF WalkBound, WalkedSoFar, Satisfying, max_depth
  <2> QED BY <2>2, <2>3
<1> QED BY <1>3, <1>4, <1>5, <1>6 DEF TraverseNext, Terminated, allVars

LEMMA InitWalk == TraverseInit => LinkInv /\ WalkInv
<1> SUFFICES ASSUME TraverseInit PROVE LinkInv /\ WalkInv
  OBVIOUS
<1>1. LinkInv
  BY InitLinked DEF TraverseInit
<1>2. /\ pc = "collect" /\ api_sequences = <<>> /\ chosen = <<>> /\ test_files = <<>>
      /\ index = 1 /\ steps_left = 0 /\ strategy \in Strategies
  BY DEF TraverseInit, Init, WalkInit
<1>3. WalkBound /\ WalkedSoFar
  BY <1>2, WalkAssumption DEF WalkBound, WalkedSoFar, Satisfying
<1>4. ChosenSoFar
  <2>1. DOMAIN chosen = {} /\ Len(chosen) = 0 /\ DOMAIN test_files = {}
        /\ Len(test_files) = 0 /\ DOMAIN api_sequences = {}
        /\ chosen \in Seq(DOMAIN api_sequences) /\ test_files \in Seq(Nat)
    BY <1>2
  <2> QED BY <1>2, <2>1, WalkAssumption DEF ChosenSoFar
<1> QED BY <1>1, <1>3, <1>4 DEF WalkInv

\* A random walk makes no sequence deeper than its depth bound or its number of
\* steps, and no more sequences than steps.
THEOREM RandomWalkIsBounded == TraverseSpec => []WalkIsBounded
<1>1. WalkInv => WalkIsBounded
  BY DEF WalkInv, WalkIsBounded
<1> QED BY <1>1, InitWalk, TraverseLinkStep, WalkInvStep, PTL DEF TraverseSpec

LEMMA ChosenAreFirst ==
    ASSUME TypeOK, ChosenSoFar
    PROVE  FilesAreFirst
<1> SUFFICES ASSUME pc = "done"
             PROVE  /\ Len(test_files) <= RandomSize /\ Len(test_files) <= MaxTestFiles
                    /\ \A n \in DOMAIN api_sequences :
                         \/ n \in Files
                         \/ has_no_fuzzables(api_sequences[n])
                         \/ /\ Len(test_files) \in {RandomSize, MaxTestFiles}
                            /\ \A m \in Files : m < n
  BY DEF FilesAreFirst
<1>1. /\ chosen \in Seq(DOMAIN api_sequences) /\ test_files \in Seq(Nat)
      /\ api_sequences \in Seq(ApiSequences) /\ index \in Nat \ {0}
      /\ RandomSize \in Nat /\ MaxTestFiles \in Nat
  BY WalkAssumption DEF ChosenSoFar, TypeOK
<1>2. /\ \A j \in DOMAIN chosen : chosen[j] < index
      /\ \A i, j \in DOMAIN chosen : i < j => chosen[i] < chosen[j]
      /\ \A n \in DOMAIN api_sequences :
           n < index => has_no_fuzzables(api_sequences[n])
                          \/ \E j \in DOMAIN chosen : chosen[j] = n
      /\ Len(chosen) <= RandomSize
      /\ Len(chosen) = RandomSize \/ index \notin DOMAIN api_sequences
      /\ Len(test_files) <= Len(chosen) /\ Len(test_files) <= MaxTestFiles
      /\ \A j \in DOMAIN test_files : test_files[j] = chosen[j]
      /\ ~MoreFiles
  BY DEF ChosenSoFar
<1> DEFINE c == Len(chosen)
           t == Len(test_files)
<1>3. /\ c \in Nat /\ t \in Nat /\ DOMAIN chosen = 1 .. c /\ DOMAIN test_files = 1 .. t
      /\ \A j \in 1 .. c : chosen[j] \in DOMAIN api_sequences /\ chosen[j] \in Nat
  BY <1>1
<1>4. ~(t < c /\ t < MaxTestFiles) /\ c <= RandomSize /\ t <= c /\ t <= MaxTestFiles
  BY <1>2 DEF MoreFiles
<1> HIDE DEF c, t
<1>5. (t = c \/ t = MaxTestFiles) /\ t <= c /\ t <= MaxTestFiles /\ t <= RandomSize
  BY <1>1, <1>3, <1>4
<1>6. ASSUME NEW n \in DOMAIN api_sequences, ~has_no_fuzzables(api_sequences[n]),
             n \notin Files
      PROVE  t \in {RandomSize, MaxTestFiles} /\ \A m \in Files : m < n
  <2>1. \A m \in Files : \E i \in 1 .. t : i \in 1 .. c /\ m = chosen[i]
    BY <1>2, <1>3, <1>5 DEF Files
  <2>2. n \in Nat
    BY <1>1
  <2>3. CASE n < index
    <3>1. PICK j \in 1 .. c : chosen[j] = n
      BY <1>2, <1>3, <1>6, <2>3
    <3>2. ~(j <= t)
      <4>1. ASSUME j <= t PROVE FALSE
        <5>1. j \in DOMAIN test_files
          BY <1>3, <3>1, <4>1
        <5> QED BY <1>2, <1>6, <3>1, <5>1 DEF Files
      <4> QED BY <4>1
    <3>3. t = MaxTestFiles
      BY <1>3, <1>5, <3>1, <3>2
    <3>4. \A i \in 1 .. t : i < j
      BY <1>3, <3>1, <3>2
    <3>5. ASSUME NEW m \in Files PROVE m < n
      <4>1. PICK i \in 1 .. t : i \in 1 .. c /\ m = chosen[i]
        BY <2>1
      <4>2. i < j
        BY <3>4
      <4> QED BY <1>2, <1>3, <3>1, <4>1, <4>2
    <3> QED BY <3>3, <3>5
  <2>4. CASE ~(n < index)
    <3>1. index \in DOMAIN api_sequences
      BY <1>1, <1>6, <2>4
    <3>2. c = RandomSize
      BY <1>2, <3>1 DEF c
    <3>3. ASSUME NEW i \in 1 .. c PROVE chosen[i] < n
      <4>1. chosen[i] \in Nat /\ chosen[i] < index /\ index \in Nat
        BY <1>1, <1>2, <1>3
      <4> QED BY <2>2, <2>4, <4>1
    <3>4. \A m \in Files : m < n
      BY <2>1, <3>3
    <3> QED BY <1>5, <3>2, <3>4
  <2> QED BY <2>3, <2>4
<1> QED BY <1>5, <1>6 DEF t

\* The files of a random walk are the first of its sequences that have bytes to
\* fuzz, as many as the two limits allow.
THEOREM RandomFilesAreFirst == TraverseSpec => []WalkFilesAreFirst
<1>1. LinkInv /\ WalkInv => WalkFilesAreFirst
  BY ChosenAreFirst DEF WalkInv, WalkFilesAreFirst, LinkInv, TypeInv
<1> QED BY <1>1, InitWalk, TraverseLinkStep, WalkInvStep, PTL DEF TraverseSpec
=============================================================================
