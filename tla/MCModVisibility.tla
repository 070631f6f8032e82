-------------------------- MODULE MCModVisibility ---------------------------
(* Every crate with mods a, ab and a::b, up to four levels deep.           *)
EXTENDS ModVisibility

\* str::starts_with on the segments used here.
BeginsTable(s, t) == s = t \/ <<s, t>> = <<"ab", "a">>

SegmentSet == {"c", "d", "a", "ab", "b", "f", "T"}

C == <<"c">>
SomeMods == {<<"c", "a">>, <<"c", "ab">>, <<"c", "a", "b">>,
             <<"c", "a", "b", "a">>}

\* A function of each mod, one with the name of a mod beside it, and methods
\* whose trait is of another mod.
SomeFunctions ==
    <<[full_name |-> <<"c", "f">>,           trait |-> NoTrait],
      [full_name |-> <<"c", "a">>,           trait |-> NoTrait],
      [full_name |-> <<"c", "a", "f">>,      trait |-> NoTrait],
      [full_name |-> <<"c", "ab", "f">>,     trait |-> NoTrait],
      [full_name |-> <<"c", "a", "b", "f">>, trait |-> NoTrait],
      [full_name |-> <<"c", "T", "f">>,      trait |-> <<"c", "ab", "T">>],
      [full_name |-> <<"c", "T", "f">>,      trait |-> <<"c", "a", "b", "T">>],
      [full_name |-> <<"c", "T", "f">>,      trait |-> <<"d", "a", "T">>]>>

\* The mod of the function, or of a trait of this crate.
IsIn(fn, mods) ==
    LET path == IF fn.trait = NoTrait THEN fn.full_name ELSE fn.trait
    IN  Head(path) = "c" => get_parent_mod_name(path) \in mods

CrateOf(mods, public) ==
    [name      |-> C,
     mods      |-> [m \in mods |-> m \in public],
     functions |-> SelectSeq(SomeFunctions, LAMBDA fn : IsIn(fn, mods))]

WalkedMods ==
    {mods \in SUBSET (SomeMods \cup {C}) :
       /\ C \in mods
       /\ \A m \in mods \ {C} : get_parent_mod_name(m) \in mods}

AllCrates == UNION {{CrateOf(mods, public) : public \in SUBSET mods} :
                      mods \in WalkedMods}
=============================================================================
