--------------------------- MODULE ImplExtraction ---------------------------
(***************************************************************************)
(* How methods reach the graph: rustdoc's cache lists every impl under the *)
(* types it is about (cache.rs), extract_impls_from_cache collects the     *)
(* impls of the types it can name, and _analyse_impl turns their methods   *)
(* into ApiFunctions (impl_util.rs).                                       *)
(*                                                                         *)
(* A def id stands for the item and for its name; the ids in Known are     *)
(* those full_name_map has a name for: the crate's own and the prelude's.  *)
(* A type is the sequence of its wrappers and, last, a def id or "Self".   *)
(***************************************************************************)
EXTENDS Sequences, Integers, FiniteSets

CONSTANTS
    Dids,           \* def ids of types and traits
    Known,          \* those with a name in full_name_map
    None,           \* no trait, no def id
    Wrappers,       \* "&", "Option", "tuple", ...
    SeenThrough,    \* wrappers is_param_self_type looks into
    Crates          \* sequences of impls

ASSUME KnownAssumption == Known \subseteq Dids /\ SeenThrough \subseteq Wrappers

Types == Seq(Wrappers \cup Dids \cup {"Self"}) \ {<<>>}

\* An impl is of a type or of a reference to one, and never of a trait for the
\* trait's own object type, which the compiler refuses (E0371).
ASSUME CratesAssumption ==
    \A c \in Crates :
       /\ DOMAIN c = 1 .. Len(c) /\ Len(c) \in Nat
       /\ \A i \in DOMAIN c :
            /\ c[i].for_ \in {<<d>> : d \in Dids} \cup {<<"&", d>> : d \in Dids}
            /\ c[i].trait_ \in Dids \cup {None}
            /\ c[i].trait_ \notin {c[i].for_[n] : n \in DOMAIN c[i].for_}
            /\ c[i].trait_args \subseteq Dids /\ IsFiniteSet(c[i].trait_args)
            /\ c[i].trait_ = None => c[i].trait_args = {}
            /\ DOMAIN c[i].items = 1 .. Len(c[i].items)
            /\ Len(c[i].items) \in Nat
            /\ \A k \in DOMAIN c[i].items :
                 \A n \in DOMAIN c[i].items[k].inputs :
                    c[i].items[k].inputs[n] \in Types

VARIABLES
    pc,
    crate_impls,            \* impls of the crate, in source order
    impls,                  \* cache.impls: def id -> positions in crate_impls
    to_list,                \* def ids whose impls are not collected yet
    did,                    \* the one whose impls are being collected, or None
    impl_types,             \* positions of impls without a trait
    impl_trait_for_types,   \* positions of impls of a trait
    at,                     \* where the loop is in the list it walks
    item,                   \* the item of the impl to be looked at
    api_functions           \* what add_api_function has been called with

vars == <<pc, crate_impls, impls, to_list, did, impl_types,
          impl_trait_for_types, at, item, api_functions>>

-----------------------------------------------------------------------------
\* The def id of a type that is one or refers to one; "Self" for Self.
Base(t) == t[Len(t)]

is_param_self_type(t) ==
    /\ Base(t) = "Self"
    /\ \A n \in 1 .. Len(t) - 1 : t[n] \in SeenThrough

replace_self_type(t, for_type) ==
    IF is_param_self_type(t) THEN SubSeq(t, 1, Len(t) - 1) \o for_type ELSE t

\* The types an impl is about: its own and the arguments of its trait.
KeysOf(i) == {Base(crate_impls[i].for_)} \cup crate_impls[i].trait_args

\* The impls being analysed: those without a trait come first.
ImplsNow == IF pc = "types" THEN impl_types ELSE impl_trait_for_types

Current == ImplsNow[at]
CurrentImpl == crate_impls[Current]
Method == CurrentImpl.items[item]

contains_self_type == \E k \in DOMAIN Method.inputs :
                         is_param_self_type(Method.inputs[k])

\* Fault: the trait's name is used for every method.
NameByTrait ==
    IF CurrentImpl.trait_ \in Known THEN {CurrentImpl.trait_}
    ELSE {Base(CurrentImpl.for_)} \cap Known

\* None if neither can be named.  A trait may stand for the type only if the
\* type can be inferred from an argument.
NameCandidates ==
    IF contains_self_type
    THEN IF CurrentImpl.trait_ \in Known THEN {CurrentImpl.trait_}
         ELSE {Base(CurrentImpl.for_)} \cap Known
    ELSE {Base(CurrentImpl.for_)} \cap Known

\* Fault: a method without an argument of the type is given up too early.
CanBeAddedWithSelf ==
    /\ contains_self_type
    /\ NameCandidates # {}
    /\ CurrentImpl.trait_ = None \/ CurrentImpl.trait_ \in Known

CanBeAdded ==
    /\ NameCandidates # {}
    /\ CurrentImpl.trait_ = None \/ CurrentImpl.trait_ \in Known

Init ==
    /\ pc = "cache"
    /\ crate_impls \in Crates
    /\ impls = [d \in Dids |-> <<>>]
    /\ to_list = {}
    /\ did = None
    /\ impl_types = <<>>
    /\ impl_trait_for_types = <<>>
    /\ at = 1
    /\ item = 1
    /\ api_functions = <<>>

\* Cache::fold_item for an impl item of the crate.  A key without an impl is
\* not in the HashMap.  Impls of a trait that the cache does not hold are listed
\* here too: the trait has no name, so that no method of theirs is added.
fold_item ==
    /\ pc = "cache"
    /\ at \in DOMAIN crate_impls
    /\ impls' = [d \in Dids |-> IF d \in KeysOf(at) THEN Append(impls[d], at)
                               ELSE impls[d]]
    /\ at' = at + 1
    /\ UNCHANGED <<pc, crate_impls, to_list, did, impl_types,
                   impl_trait_for_types, item, api_functions>>

folded ==
    /\ pc = "cache"
    /\ at \notin DOMAIN crate_impls
    /\ to_list' = Dids
    /\ pc' = "collect"
    /\ UNCHANGED <<crate_impls, impls, did, impl_types, impl_trait_for_types,
                   at, item, api_functions>>

\* One key of the HashMap; keys come in any order.  Only the impls of those
\* that have a name are collected.
list_impls(d) ==
    /\ pc = "collect"
    /\ d \in Known
    /\ pc' = "list"
    /\ to_list' = to_list \ {d}
    /\ did' = d
    /\ at' = 1
    /\ UNCHANGED <<crate_impls, impls, impl_types, impl_trait_for_types, item,
                   api_functions>>

skip_impls(d) ==
    /\ pc = "collect"
    /\ d \notin Known
    /\ to_list' = to_list \ {d}
    /\ UNCHANGED <<pc, crate_impls, impls, did, impl_types,
                   impl_trait_for_types, at, item, api_functions>>

add_impl ==
    /\ pc = "list"
    /\ at \in DOMAIN impls[did]
    /\ LET i == impls[did][at] IN
       IF crate_impls[i].trait_ = None
       THEN impl_types' = Append(impl_types, i) /\ UNCHANGED impl_trait_for_types
       ELSE /\ impl_trait_for_types' = Append(impl_trait_for_types, i)
            /\ UNCHANGED impl_types
    /\ at' = at + 1
    /\ UNCHANGED <<pc, crate_impls, impls, to_list, did, item, api_functions>>

listed ==
    /\ pc = "list"
    /\ at \notin DOMAIN impls[did]
    /\ pc' = "collect"
    /\ UNCHANGED <<crate_impls, impls, to_list, did, impl_types,
                   impl_trait_for_types, at, item, api_functions>>

collected ==
    /\ pc = "collect"
    /\ to_list = {}
    /\ pc' = "types"
    /\ at' = 1
    /\ UNCHANGED <<crate_impls, impls, to_list, did, impl_types,
                   impl_trait_for_types, item, api_functions>>

-----------------------------------------------------------------------------
Analysing == pc \in {"types", "traits"} /\ at \in DOMAIN ImplsNow

NextImpl == at' = at + 1 /\ item' = 1

\* A method becomes an ApiFunction, with Self replaced.
add_method ==
    /\ Analysing
    /\ item \in DOMAIN CurrentImpl.items
    /\ Method.is_method
    /\ CanBeAdded
    /\ \E d \in NameCandidates :
         api_functions' = Append(api_functions,
           [full_name |-> <<d, Method.name>>,
            inputs |-> [k \in DOMAIN Method.inputs |->
                          replace_self_type(Method.inputs[k], CurrentImpl.for_)],
            output |-> replace_self_type(Method.output, CurrentImpl.for_),
            trait  |-> CurrentImpl.trait_,
            from   |-> <<Current, item>>])
    /\ item' = item + 1
    /\ UNCHANGED <<pc, crate_impls, impls, to_list, did, impl_types,
                   impl_trait_for_types, at>>

\* A method that cannot be named returns from _analyse_impl.
leave_impl ==
    /\ Analysing
    /\ item \in DOMAIN CurrentImpl.items
    /\ Method.is_method
    /\ ~CanBeAdded
    /\ NextImpl
    /\ UNCHANGED <<pc, crate_impls, impls, to_list, did, impl_types,
                   impl_trait_for_types, api_functions>>

\* Associated types and constants.
skip_item ==
    /\ Analysing
    /\ item \in DOMAIN CurrentImpl.items
    /\ ~Method.is_method
    /\ item' = item + 1
    /\ UNCHANGED <<pc, crate_impls, impls, to_list, did, impl_types,
                   impl_trait_for_types, at, api_functions>>

end_impl ==
    /\ Analysing
    /\ item \notin DOMAIN CurrentImpl.items
    /\ NextImpl
    /\ UNCHANGED <<pc, crate_impls, impls, to_list, did, impl_types,
                   impl_trait_for_types, api_functions>>

\* The impls of traits are analysed after the others.
end_impls ==
    /\ pc \in {"types", "traits"}
    /\ at \notin DOMAIN ImplsNow
    /\ pc' = IF pc = "types" THEN "traits" ELSE "done"
    /\ at' = 1
    /\ UNCHANGED <<crate_impls, impls, to_list, did, impl_types,
                   impl_trait_for_types, item, api_functions>>

Terminated == pc = "done" /\ UNCHANGED vars

Next == \/ fold_item \/ folded
        \/ (\E d \in to_list : list_impls(d) \/ skip_impls(d))
        \/ add_impl \/ listed \/ collected
        \/ add_method \/ leave_impl \/ skip_item \/ end_impl \/ end_impls
        \/ Terminated

Spec == Init /\ [][Next]_vars

-----------------------------------------------------------------------------
(* Properties                                                              *)

AllMethods == UNION {{<<i, k>> : k \in {k \in DOMAIN crate_impls[i].items :
                                           crate_impls[i].items[k].is_method}} :
                       i \in DOMAIN crate_impls}

AddedAs(functions, m) == {j \in DOMAIN functions : functions[j].from = m}

TimesAdded(m) == Cardinality(AddedAs(api_functions, m))

ImplOf(m) == crate_impls[m[1]]
ItemOf(m) == crate_impls[m[1]].items[m[2]]

TakesSelf(m) == \E k \in DOMAIN ItemOf(m).inputs :
                   is_param_self_type(ItemOf(m).inputs[k])

\* A target can call the method by the name of its type or, if an argument
\* fixes the type, of its trait; and it can import the trait.
Nameable(m) ==
    LET trait == ImplOf(m).trait_ IN
    /\ trait \in Known \cup {None}
    /\ Base(ImplOf(m).for_) \in Known \/ (TakesSelf(m) /\ trait \in Known)

\* _analyse_impl gets as far as item k of impl i.
Reachable(i, k) ==
    \A n \in 1 .. k : <<i, n>> \in AllMethods => Nameable(<<i, n>>)

\* Whatever order the maps are walked in, a method is added once for each named
\* key that its impl is listed under, if it and the methods before it in the
\* impl can be named, and not at all otherwise.
AddedOncePerKey ==
    pc = "done" =>
      \A m \in AllMethods :
         TimesAdded(m) =
           IF Reachable(m[1], m[2]) THEN Cardinality(KeysOf(m[1]) \cap Known)
           ELSE 0

InfersSelf(fn) ==
    /\ fn.full_name[1] \in Known
    /\ fn.full_name[1] = fn.trait =>
         \E k \in DOMAIN fn.inputs :
            /\ Base(ItemOf(fn.from).inputs[k]) = "Self"
            /\ Base(fn.inputs[k]) = Base(ImplOf(fn.from).for_)

\* A call through a trait's name fixes the type: an added method that is named
\* by its trait has an argument in which Self was replaced by the type.
TraitCallsInferSelf ==
    \A j \in DOMAIN api_functions : InfersSelf(api_functions[j])

-----------------------------------------------------------------------------
(* What makes them inductive                                               *)

TypeOK ==
    /\ pc \in {"cache", "collect", "list", "types", "traits", "done"}
    /\ crate_impls \in Crates
    /\ impls \in [Dids -> Seq(DOMAIN crate_impls)]
    /\ to_list \subseteq Dids
    /\ pc = "list" => did \in Known \ to_list
    /\ impl_types \in Seq(DOMAIN crate_impls)
    /\ impl_trait_for_types \in Seq(DOMAIN crate_impls)
    /\ at \in Nat \ {0} /\ item \in Nat \ {0}
    /\ api_functions \in Seq({api_functions[j] : j \in DOMAIN api_functions})

\* The cache lists the impls it has seen in source order, each once under each
\* of its keys.
Cached(d) ==
    LET l == impls[d] IN
    /\ \A p, q \in DOMAIN l : p < q => l[p] < l[q]
    /\ \A p \in DOMAIN l : d \in KeysOf(l[p]) /\ (pc = "cache" => l[p] < at)
    /\ \A i \in DOMAIN crate_impls :
         d \in KeysOf(i) /\ (pc = "cache" => i < at) =>
            \E p \in DOMAIN l : l[p] = i

CachedSoFar == \A d \in Dids : Cached(d)

\* The list an impl is collected in, and the places it has there.
ListOf(i) == IF crate_impls[i].trait_ = None THEN impl_types
             ELSE impl_trait_for_types

PlacesIn(list, i) == {p \in DOMAIN list : list[p] = i}

Places(i) == PlacesIn(ListOf(i), i)

\* The keys under which it has been found.
KeysListed(i) ==
    {d \in KeysOf(i) \cap Known :
       /\ d \notin to_list
       /\ pc = "list" /\ d = did =>
            \E p \in DOMAIN impls[did] : p < at /\ impls[did][p] = i}

\* An impl has a place for each of these.
ListedSoFar ==
    /\ pc = "cache" => impl_types = <<>> /\ impl_trait_for_types = <<>>
    /\ pc \in {"types", "traits", "done"} => to_list = {}
    /\ pc # "cache" =>
         \A i \in DOMAIN crate_impls :
            Cardinality(Places(i)) = Cardinality(KeysListed(i))

\* The places of an impl at which _analyse_impl is done with item k.
Passed(i, k) ==
    {p \in Places(i) :
       \/ pc = "done"
       \/ pc = "traits" /\ crate_impls[i].trait_ = None
       \/ /\ pc = IF crate_impls[i].trait_ = None THEN "types" ELSE "traits"
          /\ p < at \/ (p = at /\ k < item)}

\* A method has been added once for each of them, if it is reached at all.
AddedSoFar ==
    /\ pc \in {"cache", "collect", "list"} => api_functions = <<>> /\ item = 1
    /\ pc \in {"types", "traits"} /\ at \notin DOMAIN ImplsNow => item = 1
    /\ Analysing => Reachable(Current, item - 1)
    /\ \A p \in DOMAIN impl_types : crate_impls[impl_types[p]].trait_ = None
    /\ \A p \in DOMAIN impl_trait_for_types :
         crate_impls[impl_trait_for_types[p]].trait_ # None
    /\ pc \in {"types", "traits", "done"} =>
         \A m \in AllMethods :
            TimesAdded(m) = IF Reachable(m[1], m[2])
                            THEN Cardinality(Passed(m[1], m[2])) ELSE 0

ImplInv == TypeOK /\ CachedSoFar /\ ListedSoFar /\ AddedSoFar
=============================================================================
