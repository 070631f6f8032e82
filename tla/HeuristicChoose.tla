-------------------------- MODULE HeuristicChoose ---------------------------
(***************************************************************************)
(* Which of the generated sequences become files: _heuristic_choose        *)
(* (api_graph.rs), a greedy choice that runs when the generation of        *)
(* ApiGraph has returned, and FileHelper::new (file_util.rs), which cuts   *)
(* its result off at MAX_TEST_FILE_NUMBER, for a crate that has a          *)
(* directory to write to (can_write_to_file).                              *)
(***************************************************************************)
EXTENDS ApiGraph

CONSTANTS
    MaxTestFiles,       \* MAX_TEST_FILE_NUMBER
    IsFixedLength(_)    \* _is_fixed_length of a FuzzableType

ASSUME MaxTestFilesAssumption == MaxTestFiles \in Nat

VARIABLES
    phase,                   \* "generate", "choose", "write" or "written"
    iterations_left,
    try_dynamic,             \* try_to_find_dynamic_length_flag
    sorted_chosen_sequences, \* positions in api_sequences
    already_covered_nodes,
    already_covered_edges,
    test_files               \* positions in api_sequences

chooseVars == <<phase, iterations_left, try_dynamic, sorted_chosen_sequences,
                already_covered_nodes, already_covered_edges, test_files>>
allVars == <<vars, chooseVars>>

-----------------------------------------------------------------------------
get_contained_api_functions(s) ==
    {s.functions[c].func : c \in DOMAIN s.functions}

is_fuzzables_fixed_length(s) ==
    \A z \in DOMAIN s.fuzzable_params : IsFixedLength(s.fuzzable_params[z])

\* A target has bytes to fuzz and no call in vain.
Valid == {n \in DOMAIN api_sequences :
            /\ ~has_no_fuzzables(api_sequences[n])
            /\ ~contains_dead_code_except_last_one(api_sequences[n])}

to_cover_nodes ==
    UNION {get_contained_api_functions(api_sequences[n]) : n \in Valid}

already_chosen_sequences ==
    {sorted_chosen_sequences[j] : j \in DOMAIN sorted_chosen_sequences}

\* Fault: the length is not looked at.
EligibleOfAnyLength == Valid \ already_chosen_sequences

\* What the scan over j looks at: first the sequences with a parameter of
\* dynamic length, later the others.
Eligible ==
    {n \in Valid \ already_chosen_sequences :
       is_fuzzables_fixed_length(api_sequences[n]) <=> ~try_dynamic}

\* Fault: the nodes that are covered already are counted too.
AllNodes(n) == Cardinality(get_contained_api_functions(api_sequences[n]))

NewNodes(n) == Cardinality(get_contained_api_functions(api_sequences[n])
                             \ already_covered_nodes)
NewEdges(n) == Cardinality(api_sequences[n].covered_dependencies
                             \ already_covered_edges)

\* The maxima start at 0, so that a sequence without a gain is never current.
Gainful == {n \in Eligible : NewNodes(n) > 0 \/ NewEdges(n) > 0}

\* m replaces n as the current sequence, or keeps n from replacing it: more
\* new nodes, then more new edges, then the shorter, then the first.
Better(m, n) ==
    LET lm == Len(api_sequences[m].functions)
        ln == Len(api_sequences[n].functions)
    IN \/ NewNodes(m) > NewNodes(n)
       \/ /\ NewNodes(m) = NewNodes(n)
          /\ \/ NewEdges(m) > NewEdges(n)
             \/ /\ NewEdges(m) = NewEdges(n)
                /\ lm < ln \/ (lm = ln /\ m < n)

IsBest(n) == n \in Gainful /\ \A m \in Gainful \ {n} : Better(n, m)

-----------------------------------------------------------------------------
ChooseInit ==
    /\ Init
    /\ phase = "generate"
    /\ iterations_left = 0
    /\ try_dynamic = TRUE
    /\ sorted_chosen_sequences = <<>>
    /\ already_covered_nodes = {}
    /\ already_covered_edges = {}
    /\ test_files = <<>>

\* Fault: no iteration for leaving the dynamic phase.
NoSpareIteration == MaxTestFiles

\* for _ in 0..max_size + 1
Iterations == MaxTestFiles + 1

choose_start ==
    /\ pc = "done"
    /\ StopAtEnd
    /\ phase = "generate"
    /\ iterations_left' = Iterations
    /\ phase' = IF Valid = {} THEN "write" ELSE "choose"
    /\ UNCHANGED <<try_dynamic, sorted_chosen_sequences,
                   already_covered_nodes, already_covered_edges, test_files>>

\* No sequence of dynamic length covers a new node.
choose_switch ==
    /\ phase = "choose"
    /\ iterations_left > 0
    /\ try_dynamic
    /\ \A n \in Eligible : NewNodes(n) = 0
    /\ try_dynamic' = FALSE
    /\ iterations_left' = iterations_left - 1
    /\ UNCHANGED <<phase, sorted_chosen_sequences, already_covered_nodes,
                   already_covered_edges, test_files>>

\* Everything is chosen, or every edge of the graph is covered, or every node.
StopAfter(chosen, nodes, edges) ==
    \/ Len(chosen) = Cardinality(Valid)
    \/ /\ api_dependencies # {}
       /\ Cardinality(edges) = Cardinality(api_dependencies)
    \/ Cardinality(nodes) = Cardinality(to_cover_nodes)

choose_sequence ==
    /\ phase = "choose"
    /\ iterations_left > 0
    /\ \E n \in Gainful :
         /\ IsBest(n)
         /\ try_dynamic => NewNodes(n) > 0
         /\ sorted_chosen_sequences' = Append(sorted_chosen_sequences, n)
         /\ already_covered_nodes' = already_covered_nodes
              \cup get_contained_api_functions(api_sequences[n])
         /\ already_covered_edges' = already_covered_edges
              \cup api_sequences[n].covered_dependencies
    /\ iterations_left' = iterations_left - 1
    /\ phase' = IF StopAfter(sorted_chosen_sequences', already_covered_nodes',
                             already_covered_edges')
                THEN "write" ELSE "choose"
    /\ UNCHANGED <<try_dynamic, test_files>>

\* No more gain, or no more iterations.
choose_end ==
    /\ phase = "choose"
    /\ \/ iterations_left = 0
       \/ ~try_dynamic /\ Gainful = {}
    /\ phase' = "write"
    /\ UNCHANGED <<iterations_left, try_dynamic, sorted_chosen_sequences,
                   already_covered_nodes, already_covered_edges, test_files>>

\* FileHelper::new stops at MAX_TEST_FILE_NUMBER.
MoreFiles ==
    /\ Len(test_files) < Len(sorted_chosen_sequences)
    /\ Len(test_files) < MaxTestFiles

add_test_file ==
    /\ phase = "write"
    /\ MoreFiles
    /\ test_files' = Append(test_files,
                            sorted_chosen_sequences[Len(test_files) + 1])
    /\ UNCHANGED <<phase, iterations_left, try_dynamic,
                   sorted_chosen_sequences, already_covered_nodes,
                   already_covered_edges>>

write_files ==
    /\ phase = "write"
    /\ ~MoreFiles
    /\ phase' = "written"
    /\ UNCHANGED <<iterations_left, try_dynamic, sorted_chosen_sequences,
                   already_covered_nodes, already_covered_edges, test_files>>

Choose == \/ choose_start \/ choose_switch \/ choose_sequence \/ choose_end
          \/ add_test_file \/ write_files

\* Without StopAtEnd the process has exited in bfs.
Written == /\ phase = "written" \/ (pc = "done" /\ ~StopAtEnd)
           /\ UNCHANGED allVars

\* The generation first, then the choice.
ChooseNext ==
    \/ (Collect \/ IsFunSatisfied \/ Bfs \/ Cover) /\ UNCHANGED chooseVars
    \/ Choose /\ UNCHANGED vars
    \/ Written

ChooseSpec == ChooseInit /\ [][ChooseNext]_allVars

-----------------------------------------------------------------------------
(* Properties                                                              *)

Files == {test_files[j] : j \in DOMAIN test_files}
NodesOf(S) == UNION {get_contained_api_functions(api_sequences[n]) : n \in S}
EdgesOf(S) == UNION {api_sequences[n].covered_dependencies : n \in S}

EarlierFiles(j) == {test_files[i] : i \in 1 .. j - 1}

\* Every file earns its place: it is a valid target that calls a function or
\* covers an edge the files before it do not.  (A scan that finds nothing
\* leaves index 0, the empty sequence, as the current one.)
FilesGain ==
    \A j \in DOMAIN test_files :
       LET s == api_sequences[test_files[j]] IN
       /\ test_files[j] \in Valid
       /\ \/ get_contained_api_functions(s) \ NodesOf(EarlierFiles(j)) # {}
          \/ s.covered_dependencies \ EdgesOf(EarlierFiles(j)) # {}

\* Targets of dynamic length come first.
DynamicFirst ==
    \A i, j \in DOMAIN test_files :
       /\ i < j
       /\ is_fuzzables_fixed_length(api_sequences[test_files[i]])
       => is_fuzzables_fixed_length(api_sequences[test_files[j]])

\* The choice only leaves a function without a file when the limit is reached
\* or when every edge of the graph is covered.
FilesCoverNodesOrEdges ==
    phase = "written" /\ Len(test_files) < MaxTestFiles =>
      \/ NodesOf(Files) = to_cover_nodes
      \/ EdgesOf(Files) = api_dependencies

\* What the searches keep true of the covered edges: they are edges of the
\* graph, also those of the sequence under construction.
EdgesSoFar ==
    /\ \A n \in DOMAIN api_sequences :
         api_sequences[n].covered_dependencies \subseteq api_dependencies
    /\ pc \in {"merge", "param", "some"} =>
         new_sequence.covered_dependencies \subseteq api_dependencies

\* Sequence n calls a function or covers an edge that those of S do not.
GainOver(n, S) ==
    \/ get_contained_api_functions(api_sequences[n]) \ NodesOf(S) # {}
    \/ api_sequences[n].covered_dependencies \ EdgesOf(S) # {}

ChosenBefore(j) == {sorted_chosen_sequences[i] : i \in 1 .. j - 1}

\* The choice works on sequences that do not change any more.
ChoicePhase ==
    /\ phase \in {"generate", "choose", "write", "written"}
    /\ iterations_left \in Nat
    /\ try_dynamic \in BOOLEAN
    /\ sorted_chosen_sequences \in Seq(Nat)
    /\ test_files \in Seq(Nat)
    /\ phase = "generate" => sorted_chosen_sequences = <<>> /\ try_dynamic
    /\ phase \in {"generate", "choose"} => test_files = <<>>
    /\ phase # "generate" => pc = "done"
    /\ phase = "written" => ~MoreFiles

\* The choice so far: each sequence gained something over those before it, the
\* two covered sets are exact, and the files are its beginning.
ChoiceGains ==
    /\ already_covered_nodes = NodesOf(already_chosen_sequences)
    /\ already_covered_edges = EdgesOf(already_chosen_sequences)
    /\ \A j \in DOMAIN sorted_chosen_sequences :
         /\ sorted_chosen_sequences[j] \in Valid
         /\ GainOver(sorted_chosen_sequences[j], ChosenBefore(j))
    /\ Len(test_files) <= Len(sorted_chosen_sequences)
    /\ \A j \in DOMAIN test_files : test_files[j] = sorted_chosen_sequences[j]

\* While try_dynamic is set nothing of fixed length is chosen; once it is not,
\* the sequences of dynamic length have nothing to add to the nodes.
ChoiceOrder ==
    /\ try_dynamic =>
         \A j \in DOMAIN sorted_chosen_sequences :
            ~is_fuzzables_fixed_length(api_sequences[sorted_chosen_sequences[j]])
    /\ \A i, j \in DOMAIN sorted_chosen_sequences :
         /\ i < j
         /\ is_fuzzables_fixed_length(api_sequences[sorted_chosen_sequences[i]])
         => is_fuzzables_fixed_length(api_sequences[sorted_chosen_sequences[j]])
    /\ ~try_dynamic =>
         \A n \in Valid :
            \/ is_fuzzables_fixed_length(api_sequences[n])
            \/ get_contained_api_functions(api_sequences[n])
                 \subseteq already_covered_nodes

\* The iterations suffice for MaxTestFiles sequences and the end of the dynamic
\* phase, and the choice only ends for one of three reasons.
ChoiceEnds ==
    /\ phase # "generate" =>
         iterations_left + Len(sorted_chosen_sequences)
           + (IF try_dynamic THEN 0 ELSE 1) = MaxTestFiles + 1
    /\ phase \in {"write", "written"} =>
         \/ already_covered_nodes = to_cover_nodes
         \/ already_covered_edges = api_dependencies
         \/ Len(sorted_chosen_sequences) >= MaxTestFiles

ChoiceSoFar == ChoicePhase /\ ChoiceGains /\ ChoiceOrder /\ ChoiceEnds
=============================================================================
