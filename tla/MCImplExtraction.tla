-------------------------- MODULE MCImplExtraction --------------------------
(* Impls of a local type, a local trait and foreign ones in small crates.  *)
EXTENDS ImplExtraction

MCDids == {"Foo", "Bar", "Tr", "ExtType", "ExtTrait", "()", "u8"}
MCKnown == {"Foo", "Bar", "Tr"}
MCWrappers == {"&", "Option", "tuple", "*const"}
MCSeenThrough == {"&", "Option"}

\* The output "()" stands for None.
M(name, inputs, output) ==
    [name |-> name, inputs |-> inputs, output |-> output, is_method |-> TRUE]

New   == M("new", <<<<"u8">>>>, <<"Self">>)
Get   == M("get", <<<<"&", "Self">>>>, <<"Option", "Self">>)
Join  == M("join", <<<<"Self">>, <<"Foo">>>>, <<"()">>)
Pair  == M("pair", <<<<"&", "Self">>>>, <<"tuple", "Self">>)
Const == [M("CONST", <<>>, <<"()">>) EXCEPT !.is_method = FALSE]

ItemLists == {<<New, Get>>, <<Get, Const, New>>, <<Join>>, <<Get, Pair>>}

ImplsWith(lists) ==
    {[for_ |-> f, trait_ |-> None, trait_args |-> {}, items |-> l] :
       f \in {<<"Foo">>, <<"Bar">>}, l \in lists}
    \cup {[for_ |-> f, trait_ |-> t, trait_args |-> a, items |-> l] :
            f \in {<<"Foo">>, <<"&", "Foo">>, <<"ExtType">>},
            t \in {"Tr", "ExtTrait"},
            a \in {{}, {"Foo"}, {"Bar", "ExtType"}}, l \in lists}

MCCrates == {<<i>> : i \in ImplsWith(ItemLists)}
            \cup {<<i, j>> : i, j \in ImplsWith({<<Get, Const, New>>})}
            \cup {<<i, j>> : i \in ImplsWith({<<New, Get>>}),
                             j \in ImplsWith({<<Join>>})}
=============================================================================
