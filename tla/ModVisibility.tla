--------------------------- MODULE ModVisibility ----------------------------
(***************************************************************************)
(* Which functions of a crate can be named from outside: the mods are      *)
(* collected with their visibility while the crate is walked (render.rs,   *)
(* another_analyse_item), get_invisible_mods propagates privacy down the   *)
(* tree (mod_visibility.rs), and filter_api_functions_by_mod_visibility    *)
(* drops the functions and traits below an invisible mod (api_graph.rs).   *)
(*                                                                         *)
(* A path is the sequence of its segments, e.g. crate::a::f.  The maps of  *)
(* the code are HashMaps: a pass over one takes its keys in any order.     *)
(***************************************************************************)
EXTENDS Sequences, Integers, FiniteSets

CONSTANTS
    Segments,       \* names between two "::"
    NoTrait,        \* the None of _trait_full_path
    Crates,         \* [name, mods, functions] the generator is run on
    Begins(_, _)    \* the text of the first segment begins with the second's

Paths == Seq(Segments) \ {<<>>}
ApiFunctions == [full_name : Paths, trait : Paths \cup {NoTrait}]

\* The mods around a mod are walked before it, the crate's own first
\* (Context.current is the stack of their names).
WellFormed(c) ==
    /\ c.name \in Paths /\ Len(c.name) = 1
    /\ c.mods \in [DOMAIN c.mods -> BOOLEAN]
    /\ IsFiniteSet(DOMAIN c.mods)
    /\ c.name \in DOMAIN c.mods
    /\ \A m \in DOMAIN c.mods :
         /\ m \in Paths
         /\ m # c.name => Len(m) > 1
         /\ \A n \in 1 .. Len(m) : SubSeq(m, 1, n) \in DOMAIN c.mods
    /\ c.functions \in Seq(ApiFunctions)

ASSUME CratesAssumption == \A c \in Crates : WellFormed(c)
ASSUME BeginsAssumption == \A s \in Segments : Begins(s, s)

VARIABLES
    pc,
    crate_,
    to_walk,             \* mods not yet met by the walk
    inner,               \* mod name -> is it Public
    new_mod_visibility,  \* mod name -> is it visible, as far as resolved
    passes_left,
    todo,                \* keys of inner that this pass has still to look at
    rest,                \* functions not yet filtered
    new_api_functions

vars == <<pc, crate_, to_walk, inner, new_mod_visibility, passes_left, todo,
          rest, new_api_functions>>

-----------------------------------------------------------------------------
get_parent_mod_name(m) == SubSeq(m, 1, Len(m) - 1)

\* HashMap::insert
Insert(map, key, value) ==
    [k \in DOMAIN map \cup {key} |-> IF k = key THEN value ELSE map[k]]

invisible_mods ==
    {m \in DOMAIN new_mod_visibility : ~new_mod_visibility[m]}

\* Fault: the mod's last segment is looked for anywhere in the path.
ContainsMod(path, prefix) ==
    \E n \in DOMAIN path : Begins(path[n], prefix[Len(prefix)])

\* str::starts_with on the joined names: the last segment may go on.
starts_with(path, prefix) ==
    /\ Len(prefix) <= Len(path)
    /\ \A n \in 1 .. Len(prefix) - 1 : path[n] = prefix[n]
    /\ Begins(path[Len(prefix)], prefix[Len(prefix)])

\* Fault: the trait is not looked at.
InvisibleByName(fn) ==
    \E m \in invisible_mods : starts_with(fn.full_name, m)

invisible_flag(fn) ==
    \E m \in invisible_mods :
       \/ starts_with(fn.full_name, m)
       \/ fn.trait # NoTrait /\ starts_with(fn.trait, m)

-----------------------------------------------------------------------------
Init ==
    /\ pc = "walk"
    /\ crate_ \in Crates
    /\ to_walk = DOMAIN crate_.mods
    /\ inner = [m \in {} |-> TRUE]
    /\ new_mod_visibility = [m \in {} |-> TRUE]
    /\ passes_left = 0
    /\ todo = {}
    /\ rest = <<>>
    /\ new_api_functions = <<>>

\* A mod is pushed on the work list when its parent is taken off it.
add_one_mod ==
    /\ pc = "walk"
    /\ \E m \in to_walk :
         /\ m = crate_.name \/ get_parent_mod_name(m) \notin to_walk
         /\ inner' = Insert(inner, m, crate_.mods[m])
         /\ to_walk' = to_walk \ {m}
    /\ UNCHANGED <<pc, crate_, new_mod_visibility, passes_left, todo, rest,
                   new_api_functions>>

\* panic!("No crate mod") if the map has no such key.
get_invisible_mods ==
    /\ pc = "walk"
    /\ to_walk = {}
    /\ crate_.name \in DOMAIN inner
    /\ new_mod_visibility' = Insert(new_mod_visibility, crate_.name, TRUE)
    /\ passes_left' = Cardinality(DOMAIN inner)
    /\ pc' = "pass"
    /\ UNCHANGED <<crate_, to_walk, inner, todo, rest, new_api_functions>>

start_pass ==
    /\ pc = "pass"
    /\ passes_left' = passes_left - 1
    /\ todo' = DOMAIN inner
    /\ pc' = "mods"
    /\ UNCHANGED <<crate_, to_walk, inner, new_mod_visibility, rest,
                   new_api_functions>>

\* Fault: the parent's visibility is not asked for.
OwnVisibility(m) == inner[m]

VisibilityOf(m) == inner[m] /\ new_mod_visibility[get_parent_mod_name(m)]

\* One mod of the pass: it is resolved already, or its parent is not, or it
\* is resolved now.
look_at_mod(m) ==
    /\ pc = "mods"
    /\ todo' = todo \ {m}
    /\ new_mod_visibility' =
         IF \/ m \in DOMAIN new_mod_visibility
            \/ get_parent_mod_name(m) \notin DOMAIN new_mod_visibility
         THEN new_mod_visibility
         ELSE Insert(new_mod_visibility, m, VisibilityOf(m))
    /\ UNCHANGED <<pc, crate_, to_walk, inner, passes_left, rest,
                   new_api_functions>>

\* Fault: the loop is left one mod too early.
AllButOneResolved ==
    Cardinality(DOMAIN new_mod_visibility) + 1 >= Cardinality(DOMAIN inner)

AllResolvedByCount ==
    Cardinality(DOMAIN new_mod_visibility) = Cardinality(DOMAIN inner)

\* The loop is left when all are resolved or after mod_number passes.
end_pass ==
    /\ pc = "mods"
    /\ todo = {}
    /\ pc' = IF AllResolvedByCount \/ passes_left = 0 THEN "resolved" ELSE "pass"
    /\ UNCHANGED <<crate_, to_walk, inner, new_mod_visibility, passes_left,
                   todo, rest, new_api_functions>>

filter_start ==
    /\ pc = "resolved"
    /\ rest' = crate_.functions
    /\ pc' = "filter"
    /\ UNCHANGED <<crate_, to_walk, inner, new_mod_visibility, passes_left,
                   todo, new_api_functions>>

filter_function ==
    /\ pc = "filter"
    /\ rest # <<>>
    /\ rest' = Tail(rest)
    /\ new_api_functions' = IF invisible_flag(Head(rest)) THEN new_api_functions
                            ELSE Append(new_api_functions, Head(rest))
    /\ UNCHANGED <<pc, crate_, to_walk, inner, new_mod_visibility, passes_left,
                   todo>>

filter_end ==
    /\ pc = "filter"
    /\ rest = <<>>
    /\ pc' = "done"
    /\ UNCHANGED <<crate_, to_walk, inner, new_mod_visibility, passes_left,
                   todo, rest, new_api_functions>>

Terminated == pc = "done" /\ UNCHANGED vars

Next == \/ add_one_mod \/ get_invisible_mods \/ start_pass
        \/ (\E m \in todo : look_at_mod(m))
        \/ end_pass \/ filter_start \/ filter_function \/ filter_end
        \/ Terminated

Spec == Init /\ [][Next]_vars

-----------------------------------------------------------------------------
(* Properties                                                              *)

\* What Rust says: a mod can be named if it and every mod around it is public;
\* the crate's own entry does not count.
Visible(m) ==
    \A n \in 2 .. Len(m) : crate_.mods[SubSeq(m, 1, n)]

\* Whatever the order of the HashMap, a mod that get_invisible_mods has
\* resolved is visible exactly when all mods around it are public.
VisibilityExact ==
    \A m \in DOMAIN new_mod_visibility : new_mod_visibility[m] = Visible(m)

\* The bounded number of passes and the early exit on the count never leave a
\* mod unresolved, which would count as visible.
AllModsResolved ==
    pc \in {"resolved", "filter", "done"} =>
      DOMAIN new_mod_visibility = DOMAIN crate_.mods

IsBelow(path, m) == Len(m) < Len(path) /\ SubSeq(path, 1, Len(m)) = m

CanBeNamed(path) ==
    \A m \in DOMAIN crate_.mods : IsBelow(path, m) => Visible(m)

\* No function is kept that a target could not name, or whose trait it could
\* not import.
KeptCanBeNamed ==
    \A j \in DOMAIN new_api_functions :
       LET fn == new_api_functions[j] IN
       /\ CanBeNamed(fn.full_name)
       /\ fn.trait # NoTrait => CanBeNamed(fn.trait)

Kept(fn) == \E j \in DOMAIN new_api_functions : new_api_functions[j] = fn

\* The path only looks like one below m: the name at the place of m's own
\* begins with it and goes on, or is a function's of the same name beside m.
LooksBelow(path, m) ==
    /\ ~IsBelow(path, m)
    /\ Len(m) <= Len(path)
    /\ get_parent_mod_name(m) = SubSeq(path, 1, Len(m) - 1)
    /\ Begins(path[Len(m)], m[Len(m)])

\* README.md:5 promises "to cover as many library APIs as possible": the filter
\* loses a function that can be named only to an invisible mod beside it or
\* beside one of the mods around it, whose name its name begins with.
LostToPrefixOnly ==
    pc = "done" =>
      \A j \in DOMAIN crate_.functions :
         LET fn == crate_.functions[j]
             paths == {fn.full_name} \cup ({fn.trait} \ {NoTrait}) IN
         \/ Kept(fn)
         \/ \E path \in paths : ~CanBeNamed(path)
         \/ \E path \in paths, m \in DOMAIN crate_.mods :
               ~Visible(m) /\ LooksBelow(path, m)
=============================================================================
