------------------------------ MODULE DeepBfs -------------------------------
(***************************************************************************)
(* _try_deep_bfs (api_graph.rs): a breadth-first search without a fixed    *)
(* length.  It ends when a level covers no new function and no new edge,   *)
(* when sequences times visited functions reach a limit, or when the       *)
(* sequences are as long as there are functions.                           *)
(***************************************************************************)
EXTENDS ApiGraphProps

CONSTANT MaxSequenceNumber    \* max_sequence_number

ASSUME MaxSequenceNumberAssumption == MaxSequenceNumber \in Nat

VARIABLES
    already_covered_nodes,
    already_covered_edges,
    has_new_coverage_flag

deepVars == <<already_covered_nodes, already_covered_edges,
              has_new_coverage_flag>>

DeepInit ==
    /\ already_covered_nodes = {}
    /\ already_covered_edges = {}
    /\ has_new_coverage_flag = FALSE

-----------------------------------------------------------------------------
get_contained_api_functions(s) ==
    {s.functions[c].func : c \in DOMAIN s.functions}

visited_nodes_num ==
    Cardinality({f \in Funs : api_functions_visited[f]})

\* The sequences that were made so far already cost too much.
TooMany ==
    /\ len > 2
    /\ Len(api_sequences) * visited_nodes_num >= MaxSequenceNumber

deep_start ==
    /\ pc = "bfs"
    /\ api_functions_visited' = [f \in Funs |-> FALSE]
    /\ IF api_functions = <<>>
       THEN api_sequences' = <<>> /\ pc' = "done"
       ELSE api_sequences' = <<NewSequence>> /\ pc' = "level"
    /\ UNCHANGED <<items, graphVars, api_dependencies, fast_mode, satVars,
                   bfsVars, coverVars, deepVars>>

\* Fault: the longest chain is not tried.
OneLevelLess == len + 1 < Len(api_functions)

MoreLevels == len < Len(api_functions)

\* Fault: shorter sequences are extended again.
LevelAgain == {n \in DOMAIN api_sequences :
                 /\ ~is_sequence_ended(api_sequences[n])
                 /\ Len(api_sequences[n].functions) <= len}

Level == {n \in DOMAIN api_sequences :
            /\ ~is_sequence_ended(api_sequences[n])
            /\ Len(api_sequences[n].functions) = len}

deep_level ==
    /\ pc = "level"
    /\ MoreLevels
    /\ ~TooMany
    /\ has_new_coverage_flag' = FALSE
    /\ tmp_sequences' = Level
    /\ next_fun' = 1
    /\ pc' = "extend"
    /\ UNCHANGED <<items, graphVars, api_dependencies, fast_mode, resultVars,
                   satVars, len, coverVars, already_covered_nodes,
                   already_covered_edges>>

deep_try ==
    /\ pc = "extend"
    /\ next_fun \in Funs
    /\ next_fun' = next_fun + 1
    /\ \E n \in tmp_sequences :
          FirstOf(n) /\ Satisfy(api_sequences[n], next_fun, "deep")
    /\ UNCHANGED <<items, graphVars, api_dependencies, fast_mode, resultVars,
                   len, tmp_sequences, coverVars, deepVars>>

NewCoverage(s) ==
    \/ ~ (get_contained_api_functions(s) \subseteq already_covered_nodes)
    \/ ~ (s.covered_dependencies \subseteq already_covered_edges)

deep_return ==
    /\ pc \in {"some", "none"}
    /\ caller = "deep"
    /\ pc' = "extend"
    /\ IF pc = "some"
       THEN /\ PushNewSequence
            /\ already_covered_nodes' = already_covered_nodes
                 \cup get_contained_api_functions(new_sequence)
            /\ already_covered_edges' = already_covered_edges
                 \cup new_sequence.covered_dependencies
            /\ has_new_coverage_flag' =
                 (has_new_coverage_flag \/ NewCoverage(new_sequence))
       ELSE UNCHANGED <<resultVars, deepVars>>
    /\ UNCHANGED <<items, graphVars, api_dependencies, fast_mode, satVars,
                   bfsVars, coverVars>>

deep_next_level ==
    /\ pc = "extend"
    /\ tmp_sequences = {}
    /\ has_new_coverage_flag
    /\ len' = len + 1
    /\ pc' = "level"
    /\ UNCHANGED <<items, graphVars, api_dependencies, fast_mode, resultVars,
                   satVars, tmp_sequences, next_fun, coverVars, deepVars>>

\* "forward bfs can not find more."
deep_stop ==
    /\ pc = "extend"
    /\ tmp_sequences = {}
    /\ ~has_new_coverage_flag
    /\ pc' = "done"
    /\ UNCHANGED <<items, graphVars, api_dependencies, fast_mode, resultVars,
                   satVars, bfsVars, coverVars, deepVars>>

deep_end ==
    /\ pc = "level"
    /\ ~MoreLevels \/ TooMany
    /\ pc' = "done"
    /\ UNCHANGED <<items, graphVars, api_dependencies, fast_mode, resultVars,
                   satVars, bfsVars, coverVars, deepVars>>

DeepSteps ==
    \/ deep_start \/ deep_level \/ deep_try \/ deep_return
    \/ bfs_next_sequence /\ UNCHANGED deepVars
    \/ deep_next_level \/ deep_stop \/ deep_end

-----------------------------------------------------------------------------
(* Properties                                                              *)

AllCallableVisited == \A f \in Callable : api_functions_visited[f]

\* Giving up on a level without new coverage loses nothing as long as no
\* function needs two results: then, and when the length is exhausted, every
\* function that can be called has a target.  Only the limit may cut it off.
DeepCoversUnary ==
    pc = "done" /\ Unary /\ ~TooMany => AllCallableVisited

\* What makes it inductive besides SpreadSoFar: the empty sequence stays, and as
\* long as a level has found nothing new, each sequence of the next length ends
\* with a function that a shorter sequence ends with.
NewCoverageSoFar ==
    /\ \A f \in already_covered_nodes : f \in Funs /\ api_functions_visited[f]
    /\ InBfs => \E n \in DOMAIN api_sequences : api_sequences[n].functions = <<>>
    /\ InBfs /\ pc # "level" /\ ~has_new_coverage_flag =>
         \A n \in DOMAIN api_sequences :
            api_sequences[n].functions # <<>> =>
              \E m \in DOMAIN api_sequences :
                 /\ Len(api_sequences[m].functions) <= len
                 /\ EndsWith(api_sequences[m],
                             last_api_func_index(api_sequences[n]))
=============================================================================
