--------------------------- MODULE MCTraversals -----------------------------
(***************************************************************************)
(* The traversals on crates whose functions move, borrow and combine.      *)
(***************************************************************************)
EXTENDS MCApiGraph, Traversals

WalkCrates ==
  {Select(S) : S \in kSubset(2, {1, 2, 3, 4, 7, 8, 11})}
    \cup {<<Pool[1], Show>>, <<Pool[3], Pool[5], Pool[14]>>,
          <<Pool[1], Pool[4], Pool[12]>>, <<Pool[1], Pool[4], Pool[15]>>, <<>>}

DeepCrates ==
  {Select(S) : S \in UNION {kSubset(n, 1 .. Len(Pool)) : n \in 0 .. 2}}
    \cup {Select(S) : S \in kSubset(3, {1, 3, 4, 5, 8, 9, 12, 13, 14})}
    \cup EndCrates
    \cup {Chain4 \o <<Pool[4]>>, Select({1, 4, 12, 13}), Select({1, 4, 5, 8}),
          Select({1, 4, 5, 15})}

MCTasks == {<<"walk", c>> : c \in WalkCrates}
             \cup {<<"deep", c>> : c \in DeepCrates}
MCCrates == WalkCrates \cup DeepCrates

\* _RandomWalk, and a walk that stops at end functions and at a depth.
MCStrategies == {<<FALSE, 0>>, <<TRUE, 3>>}
=============================================================================
