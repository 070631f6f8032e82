----------------------------- MODULE RandomWalk -----------------------------
(***************************************************************************)
(* The random strategy of render.rs: random_walk (api_graph.rs) extends a  *)
(* random sequence by a random function, a fixed number of times, and      *)
(* _first_choose takes the first sequences it made for the files.          *)
(* rng.gen_range is a choice of any element.                               *)
(***************************************************************************)
EXTENDS ApiGraphProps

CONSTANTS
    MaxSize,        \* max_size of random_walk
    Strategies,     \* <<stop_at_end_function, max_depth>>; 0 is "no depth bound"
    RandomSize,     \* RANDOM_TEST_FILE_NUMBERS or DEFAULT_RANDOM_FILE_NUMBER
    MaxTestFiles    \* MAX_TEST_FILE_NUMBER

ASSUME WalkAssumption ==
    /\ MaxSize \in Nat /\ Strategies \subseteq BOOLEAN \X Nat
    /\ RandomSize \in Nat \ {0} /\ MaxTestFiles \in Nat \ {0}

VARIABLES
    strategy,       \* a member of Strategies
    steps_left,     \* iterations of random_walk still to come
    index,          \* _first_choose: the sequence looked at
    chosen,         \* its result, positions in api_sequences
    test_files      \* positions in api_sequences

walkVars == <<strategy, steps_left, index, chosen, test_files>>

stop_at_end == strategy[1]
max_depth   == strategy[2]

WalkInit ==
    /\ strategy \in Strategies
    /\ steps_left = 0
    /\ index = 1
    /\ chosen = <<>>
    /\ test_files = <<>>

-----------------------------------------------------------------------------
walk_start ==
    /\ pc = "bfs"
    /\ api_functions_visited' = [f \in Funs |-> FALSE]
    /\ IF api_functions = <<>>
       THEN api_sequences' = <<>> /\ pc' = "choose"
       ELSE api_sequences' = <<NewSequence>> /\ pc' = "walk"
    /\ steps_left' = MaxSize
    /\ UNCHANGED <<items, graphVars, api_dependencies, fast_mode, satVars,
                   bfsVars, coverVars, strategy, index, chosen, test_files>>

\* Fault: a sequence of the greatest depth is extended once more.
ContinueTooLate(s) ==
    \/ stop_at_end /\ is_sequence_ended(s)
    \/ max_depth > 0 /\ Len(s.functions) > max_depth

\* Fault: end functions do not stop a sequence.
ContinuePastEnd(s) == max_depth > 0 /\ Len(s.functions) >= max_depth

\* The iteration is spent without a try.
Continue(s) ==
    \/ stop_at_end /\ is_sequence_ended(s)
    \/ max_depth > 0 /\ Len(s.functions) >= max_depth

walk_continue ==
    /\ pc = "walk"
    /\ steps_left > 0
    /\ {n \in DOMAIN api_sequences : Continue(api_sequences[n])} # {}
    /\ steps_left' = steps_left - 1
    /\ UNCHANGED <<vars, strategy, index, chosen, test_files>>

walk_try ==
    /\ pc = "walk"
    /\ steps_left > 0
    /\ \E n \in DOMAIN api_sequences, f \in Funs :
         /\ ~Continue(api_sequences[n])
         /\ Satisfy(api_sequences[n], f, "walk")
    /\ steps_left' = steps_left - 1
    /\ UNCHANGED <<items, graphVars, api_dependencies, fast_mode, resultVars,
                   bfsVars, coverVars, strategy, index, chosen, test_files>>

walk_return ==
    /\ pc \in {"some", "none"}
    /\ caller = "walk"
    /\ pc' = "walk"
    /\ IF pc = "some" THEN PushNewSequence ELSE UNCHANGED resultVars
    /\ UNCHANGED <<items, graphVars, api_dependencies, fast_mode, satVars,
                   bfsVars, coverVars, walkVars>>

\* That all functions are visited is printed, and the walk goes on.
walk_end ==
    /\ pc = "walk"
    /\ steps_left = 0
    /\ pc' = "choose"
    /\ UNCHANGED <<items, graphVars, api_dependencies, fast_mode, resultVars,
                   satVars, bfsVars, coverVars, walkVars>>

-----------------------------------------------------------------------------
\* Fault: the limit is tested before the sequence is added.
ChooseOneMore(c) == Len(c) > RandomSize

EnoughChosen(c) == Len(c) >= RandomSize

\* One sequence of the loop of _first_choose.
first_choose ==
    /\ pc = "choose"
    /\ index \in DOMAIN api_sequences
    /\ IF has_no_fuzzables(api_sequences[index])
       THEN UNCHANGED <<chosen, pc>>
       ELSE /\ chosen' = Append(chosen, index)
            /\ pc' = IF EnoughChosen(chosen') THEN "write" ELSE pc
    /\ index' = index + 1
    /\ UNCHANGED <<items, graphVars, api_dependencies, fast_mode, resultVars,
                   satVars, bfsVars, coverVars, strategy, steps_left,
                   test_files>>

first_choose_end ==
    /\ pc = "choose"
    /\ index \notin DOMAIN api_sequences
    /\ pc' = "write"
    /\ UNCHANGED <<items, graphVars, api_dependencies, fast_mode, resultVars,
                   satVars, bfsVars, coverVars, walkVars>>

\* FileHelper::new
MoreFiles ==
    Len(test_files) < Len(chosen) /\ Len(test_files) < MaxTestFiles

add_test_file ==
    /\ pc = "write"
    /\ MoreFiles
    /\ test_files' = Append(test_files, chosen[Len(test_files) + 1])
    /\ UNCHANGED <<vars, strategy, steps_left, index, chosen>>

write_files ==
    /\ pc = "write"
    /\ ~MoreFiles
    /\ pc' = "done"
    /\ UNCHANGED <<items, graphVars, api_dependencies, fast_mode, resultVars,
                   satVars, bfsVars, coverVars, walkVars>>

WalkSteps ==
    \/ walk_start \/ walk_continue \/ walk_try \/ walk_return \/ walk_end
    \/ first_choose \/ first_choose_end \/ add_test_file \/ write_files

-----------------------------------------------------------------------------
(* Properties                                                              *)

\* The walk never makes a sequence deeper than max_depth; with "no depth bound"
\* the number of steps bounds it, and every step adds at most one sequence.
WalkBound ==
    \A n \in DOMAIN api_sequences :
       LET depth == Len(api_sequences[n].functions) IN
       /\ max_depth > 0 => depth <= max_depth
       /\ depth <= n - 1
       /\ n <= MaxSize - steps_left + 1

Files == {test_files[j] : j \in DOMAIN test_files}

\* The files are the first sequences with bytes to fuzz: none of them is left
\* out for a later one, and below both limits none is left out.
FilesAreFirst ==
    pc = "done" =>
      /\ Len(test_files) <= RandomSize /\ Len(test_files) <= MaxTestFiles
      /\ \A n \in DOMAIN api_sequences :
           \/ n \in Files
           \/ has_no_fuzzables(api_sequences[n])
           \/ /\ Len(test_files) \in {RandomSize, MaxTestFiles}
              /\ \A m \in Files : m < n

\* What makes WalkBound inductive: the step that is being tried is counted, and
\* its sequence is no deeper than the number of those that are there.
WalkedSoFar ==
    /\ strategy \in Strategies
    /\ steps_left \in 0 .. MaxSize
    /\ Satisfying => Len(api_sequences) <= MaxSize - steps_left
    /\ pc = "param" =>
         /\ Len(new_sequence.functions) < Len(api_sequences)
         /\ max_depth > 0 => Len(new_sequence.functions) < max_depth
    /\ pc = "some" =>
         /\ Len(new_sequence.functions) <= Len(api_sequences)
         /\ max_depth > 0 => Len(new_sequence.functions) <= max_depth

\* What makes FilesAreFirst inductive: chosen holds, in order, exactly the
\* sequences before index that have bytes to fuzz, and the files are its first.
ChosenSoFar ==
    /\ chosen \in Seq(DOMAIN api_sequences)
    /\ test_files \in Seq(Nat)
    /\ index \in Nat \ {0}
    /\ pc \notin {"choose", "write", "done"} => chosen = <<>> /\ index = 1
    /\ pc \notin {"write", "done"} => test_files = <<>>
    /\ \A j \in DOMAIN chosen : chosen[j] < index
    /\ \A i, j \in DOMAIN chosen : i < j => chosen[i] < chosen[j]
    /\ \A n \in DOMAIN api_sequences :
         n < index => has_no_fuzzables(api_sequences[n])
                        \/ \E j \in DOMAIN chosen : chosen[j] = n
    /\ Len(chosen) <= RandomSize
    /\ pc = "choose" => Len(chosen) < RandomSize
    /\ pc \in {"write", "done"} =>
         Len(chosen) = RandomSize \/ index \notin DOMAIN api_sequences
    /\ Len(test_files) <= Len(chosen) /\ Len(test_files) <= MaxTestFiles
    /\ \A j \in DOMAIN test_files : test_files[j] = chosen[j]
    /\ pc = "done" => ~MoreFiles
=============================================================================
