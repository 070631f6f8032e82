---------------------------- MODULE Traversals ------------------------------
(***************************************************************************)
(* generate_all_possoble_sequences (api_graph.rs) with the traversals that *)
(* are not a bfs: the random walks and the deep bfs.  They share the       *)
(* collection of the functions and is_fun_satisfied; each walks its own    *)
(* way through the same graph.                                             *)
(***************************************************************************)
EXTENDS RandomWalk, DeepBfs

CONSTANT Tasks    \* <<algorithm, crate>>: what is run on which crate

VARIABLE algorithm    \* "walk" or "deep"

allVars == <<vars, walkVars, deepVars, algorithm>>

TraverseInit ==
    /\ Init
    /\ WalkInit
    /\ DeepInit
    /\ algorithm \in {"walk", "deep"}
    /\ <<algorithm, items>> \in Tasks
    /\ algorithm # "walk" => strategy = CHOOSE s \in Strategies : s[1]

TraverseNext ==
    /\ UNCHANGED algorithm
    /\ \/ (Collect \/ IsFunSatisfied \/ Terminated)
            /\ UNCHANGED <<walkVars, deepVars>>
       \/ algorithm = "walk" /\ WalkSteps /\ UNCHANGED deepVars
       \/ algorithm = "deep" /\ DeepSteps /\ UNCHANGED walkVars

TraverseSpec == TraverseInit /\ [][TraverseNext]_allVars

-----------------------------------------------------------------------------
(* Properties                                                              *)

\* Every traversal that is asked to stop at end functions does, each by its own
\* test (random_walk, _try_deep_bfs).
StopsAtEnd == stop_at_end => EndsLast

\* The deep bfs takes no sequence into two levels, so that no two targets call
\* the same functions in the same order.
NoneExtendedTwice == algorithm # "walk" => NoDuplicateTargets

\* The depth and the number of steps bound a random walk.
WalkIsBounded == algorithm = "walk" => WalkBound

\* Its files are its first sequences.
WalkFilesAreFirst == algorithm = "walk" => FilesAreFirst

\* What the deep bfs covers before it gives up.
DeepIsComplete == algorithm = "deep" => DeepCoversUnary

-----------------------------------------------------------------------------
(* What makes them inductive                                               *)

StopInv == LinkInv /\ (stop_at_end => EndsLast /\ EndsSoFar)

DeepInv ==
    algorithm = "deep" =>
      /\ UniqueInv
      /\ pc \in {"collect", "filter", "bfs"} => len = 0 /\ already_covered_nodes = {}

DeepSpreadInv ==
    algorithm = "deep" =>
      /\ DeepInv
      /\ SupplyInv
      /\ Unary => SpreadSoFar /\ NewCoverageSoFar
      /\ DeepCoversUnary

WalkInv == algorithm = "walk" => WalkBound /\ WalkedSoFar /\ ChosenSoFar
=============================================================================
