---------------------------- MODULE MCAflLayout -----------------------------
(***************************************************************************)
(* The byte layout for targets of up to three parameters.                  *)
(***************************************************************************)
EXTENDS AflLayout

Types == INSTANCE ApiUtil

Leaves == {<<p>> : p \in DOMAIN PrimitiveLength}
            \cup {<<"RefStr">>, <<"RefSlice", "u8">>, <<"RefSlice", "u32">>}

\* Tuples of fixed, dynamic and mixed length, nested, and slices of tuples.
Tuples == { <<"Tuple", <<<<"u16">>, <<"bool">>>>>>,
            <<"Tuple", <<<<"RefStr">>, <<"u8">>, <<"RefSlice", "u16">>>>>>,
            <<"Tuple", <<<<"char">>,
                         <<"Tuple", <<<<"RefStr">>, <<"i16">>>>>>>>>>,
            <<"Tuple", <<>>>> }
SlicesOfTuples == { <<"RefSlice", "Tuple", <<<<"u8">>, <<"u16">>>>>>,
                    <<"RefSlice", "Tuple", <<>>>> }

\* One type of each width, fixed and dynamic.
Few == {<<"u8">>, <<"f32">>, <<"RefStr">>, <<"RefSlice", "u16">>}

\* fn f(s: &mut str, n: u8).  The graph takes the function: its parameters are
\* fuzzable and none is unsupported.
MutStr == {<<Types!fuzzable_type(<<"&mut", "str">>),
             Types!fuzzable_type(<<"u8">>)>>}

LayoutTargets ==
    {<<a>> : a \in Leaves \cup Tuples \cup SlicesOfTuples}
      \cup {<<a, b>> : a, b \in Leaves \ {<<"u128">>, <<"i128">>}}
      \cup {<<a, b, c>> : a, b, c \in Few \cup Tuples}
      \cup MutStr
=============================================================================
