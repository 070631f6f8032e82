------------------------- MODULE MCHeuristicChoose --------------------------
(***************************************************************************)
(* The choice of targets on the sequences generated for small crates.      *)
(***************************************************************************)
EXTENDS MCApiGraph, HeuristicChoose

\* Functions without an edge to the others, read from bytes of dynamic and of
\* fixed length.
Check  == Fn("check", <<<<"u32">>>>, <<"bool">>)
Digest == Fn("digest", <<Bytes>>, <<"u32">>)
Hash   == Fn("hash", <<Str>>, <<"usize">>)

\* Producers and users of T and U together with them.
ChooseCrates ==
  {Select(S) \o tail :
     S \in UNION {kSubset(n, {1, 3, 4, 5, 8, 12}) : n \in 1 .. 3},
     tail \in {<<>>, <<Check>>, <<Digest, Check>>, <<Digest, Hash>>}}
=============================================================================
