----------------------------- MODULE MCApiGraph -----------------------------
(***************************************************************************)
(* ApiGraph on small crates, with the type decisions of ApiUtil.           *)
(***************************************************************************)
EXTENDS ApiGraphProps, ApiUtil, SequencesExt

MCTraits  == {"Tr"}
MCNoTrait == "no trait"
MCNoOutput == <<>>

Fn(name, inputs, output) ==
    [full_name |-> name, inputs |-> inputs, output |-> output,
     unsafe |-> FALSE, trait |-> MCNoTrait]

T == <<"T">>
U == <<"U">>
V == <<"V">>
RefTo(t)    == <<"&">> \o t
MutRefTo(t) == <<"&mut">> \o t
OptionOf(t) == <<"Option">> \o t
Str   == <<"&", "str">>
Bytes == <<"&", "[]", "u8">>

\* Constructors, readers, consumers, mutators and combiners of the types T, U
\* and V.  Between them they use every branch of is_fun_satisfied.
Pool ==
  << Fn("new",      <<<<"i32">>>>, T),
     Fn("default",  <<>>, T),
     Fn("parse",    <<Str>>, OptionOf(T)),
     Fn("into_u",   <<T>>, U),
     Fn("to_u",     <<RefTo(T), Bytes>>, U),
     Fn("pair",     <<RefTo(T), RefTo(T)>>, U),
     Fn("join",     <<T, T>>, V),
     Fn("update",   <<MutRefTo(T), RefTo(T)>>, V),
     Fn("push",     <<MutRefTo(T), <<"&mut", "i32">>>>, MCNoOutput),
     Fn("swap",     <<MutRefTo(T), MutRefTo(T)>>, MCNoOutput),
     Fn("consume",  <<RefTo(T), T>>, MCNoOutput),
     [Fn("len",     <<RefTo(U)>>, <<"usize">>) EXCEPT !.trait = "Tr"],
     Fn("as_ptr",   <<RefTo(U)>>, <<"*const", "U">>),
     [Fn("release", <<U>>, MCNoOutput) EXCEPT !.unsafe = TRUE],
     Fn("finish",   <<U, V>>, V) >>

\* Functions that never become nodes of the graph.
Rejected ==
  << Fn("generic",   <<RefTo(<<"G">>)>>, T),
     Fn("matrix",    <<<<"&", "[]", "&", "str">>>>, T),
     Fn("fill",      <<<<"&mut", "[]", "u8">>>>, T),
     Fn("is_some",   <<>>, T),
     Fn("private",   <<>>, T) >>

MCPreludeFunction(fn)   == fn.full_name = "is_some"
MCInvisibleFunction(fn) == fn.full_name = "private"

\* The functions with the indexes in S, in their order.
Select(S) == [j \in 1 .. Cardinality(S) |-> Pool[SetToSortSeq(S, <)[j]]]

\* Every crate of at most three functions of the pool.
SmallCrates == {Select(S) : S \in UNION {kSubset(n, 1 .. Len(Pool)) : n \in 0 .. 3}}

\* The rejected functions in front of, between and behind two others.
MixedCrates ==
  {<<Rejected[i], Pool[a], Rejected[j], Pool[b], Rejected[5]>> :
      i, j \in 1 .. 4, a \in {1, 4}, b \in {4, 8}}

\* Chains that bfs(3) does not get to the end of, with a choice of producers.
Chain4 == << Fn("a", <<>>, <<"A">>), Fn("b", <<<<"A">>, <<"u8">>>>, <<"B">>),
             Fn("c", <<<<"B">>>>, T) >>
ChainCrates ==
  {Chain4 \o <<x, y>> : x, y \in {Pool[i] : i \in {4, 5, 7, 12, 13, 15}}}

\* An end function that can be the second call, with others around it.
Show == Fn("show", <<RefTo(T)>>, <<"usize">>)
EndCrates == {<<Pool[i], Show, Pool[j]>> : i \in 1 .. 3, j \in {4, 8, 9}}

\* A function that takes the same type twice at the end of a chain, and one
\* that needs its result.
PairChain == Chain4 \o << Pool[6], Pool[12] >>

MCNames == {Pool[j].full_name : j \in DOMAIN Pool}
             \cup {Rejected[j].full_name : j \in DOMAIN Rejected}
             \cup {"a", "b", "c", "wrap", "check", "digest", "hash", "show",
                   "peek", "mix"}
TypesOf(fn) == ToSet(fn.inputs) \cup ({fn.output} \ {MCNoOutput})
MCTypes == UNION {TypesOf(fn) : fn \in ToSet(Pool) \cup ToSet(Rejected)
                                         \cup ToSet(Chain4)}
             \cup {OptionOf(T), <<"u32">>, <<"bool">>}

DefaultCrates == SmallCrates \cup MixedCrates \cup ChainCrates \cup EndCrates

\* Crates of at most four functions, where the backward search alone has to
\* find the order.
BackwardCrates ==
  {Select(S) : S \in UNION {kSubset(n, 1 .. Len(Pool)) : n \in 1 .. 4}}
    \cup MixedCrates
    \cup {Select({1, 4, 7, 12, 15}), Select({3, 4, 7, 14, 15})}
PairChainCrate == {PairChain}

\* A function that takes two optional values.
OptionCrate == {<<Pool[1], Fn("wrap", <<OptionOf(T), OptionOf(T)>>, U)>>}

\* A method that returns a reference into its argument, and a function that
\* changes the argument while it reads through the reference.
LenderCrate == {<<Pool[1], Fn("peek", <<RefTo(T)>>, RefTo(U)),
                  Fn("mix", <<MutRefTo(T), RefTo(U)>>, MCNoOutput)>>}

BorrowCrates == OptionCrate \cup LenderCrate

MCIsMutBorrowType(t) == Head(t) \in MutTypes

-----------------------------------------------------------------------------
\* Rust moves a value that is not Copy when the innermost use of the variable
\* is neither a borrow nor a dereference.
Consumes(ty, ct) ==
    /\ ~copy_type(ty)
    /\ ct = DirectCall \/ ct[Len(ct)] \in {"ToOption", "ToResult",
                                           "UnwrapOption", "UnwrapResult"}

ConsumedAt(s, p) ==
    Consumes(api_functions[s.functions[IndexAt(s, p)].func].output,
             Arg(s, p[1], p[2]).call_type)

\* The sequences that may become files.
Candidates == {s \in Generated : /\ ~has_no_fuzzables(s)
                                /\ ~contains_dead_code_except_last_one(s)}

\* No value is used after Rust has moved it.
NoUseOfConsumedValue ==
    \A s \in Candidates : \A p, q \in ReturnPlaces(s) :
       /\ ConsumedAt(s, p)
       /\ IndexAt(s, p) = IndexAt(s, q)
       => ~Before(p, q)

OutputAt(s, c) == api_functions[s.functions[c].func].output

\* The result at r keeps the result at v borrowed: its call borrows only v,
\* and by lifetime elision a reference it returns lives as long as that borrow.
Lends(s, v, r) ==
    /\ OutputAt(s, r) # MCNoOutput /\ Head(OutputAt(s, r)) \in {"&", "&mut"}
    /\ {IndexAt(s, p) : p \in {q \in ReturnPlaces(s) :
           q[1] = r /\ (SharedAt(s, q) \/ MutablyAt(s, q))}} = {v}

\* No value is borrowed mutably while a reference into it is used by the same
\* or a later call.
NoBorrowWhileLent ==
    \A s \in Candidates : \A p, q \in ReturnPlaces(s) :
       /\ MutablyAt(s, p)
       /\ IndexAt(s, q) \in 1 .. p[1] - 1
       /\ Lends(s, IndexAt(s, p), IndexAt(s, q))
       => q[1] < p[1]

\* README.md:5: "Each generated target can be compiled successfully."  The
\* borrow checker refuses one that uses a moved or a borrowed value.
BorrowCheckPasses == NoUseOfConsumedValue /\ NoBorrowWhileLent
=============================================================================
