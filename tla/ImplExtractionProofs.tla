------------------------ MODULE ImplExtractionProofs ------------------------
(***************************************************************************)
(* The methods of the impls: how often each is added to the graph and by   *)
(* what name, whatever the order in which the HashMap is walked.           *)
(***************************************************************************)
EXTENDS ImplExtraction, FiniteSetTheorems,
        SequenceTheorems, TLAPS

-----------------------------------------------------------------------------
(* Sequences, impls and their keys                                         *)

LEMMA AppendIs ==
    ASSUME NEW S, NEW s \in Seq(S), NEW x
    PROVE  /\ Append(s, x) \in Seq(S \cup {x})
           /\ Len(s) \in Nat /\ DOMAIN s = 1 .. Len(s)
           /\ DOMAIN Append(s, x) = 1 .. Len(s) + 1
           /\ \A j \in 1 .. Len(s) : Append(s, x)[j] = s[j]
           /\ Append(s, x)[Len(s) + 1] = x
<1>1. s \in Seq(S \cup {x}) /\ x \in S \cup {x}
  OBVIOUS
<1> QED BY <1>1

\* A new place of y if y is appended, none otherwise.
LEMMA AppendPlaces ==
    ASSUME NEW S, NEW s \in Seq(S), NEW x, NEW y
    PROVE  /\ x = y => Cardinality(PlacesIn(Append(s, x), y)) = Cardinality(PlacesIn(s, y)) + 1
           /\ x # y => PlacesIn(Append(s, x), y) = PlacesIn(s, y)
<1> DEFINE n == Len(s)
           A == PlacesIn(s, y)
           B == PlacesIn(Append(s, x), y)
<1>1. /\ n \in Nat /\ DOMAIN s = 1 .. n /\ DOMAIN Append(s, x) = 1 .. n + 1
      /\ \A j \in 1 .. n : Append(s, x)[j] = s[j]
      /\ Append(s, x)[n + 1] = x
  BY AppendIs
<1>2. IsFiniteSet(A)
  <2>1. IsFiniteSet(1 .. n) /\ A \subseteq 1 .. n
    BY <1>1, FS_Interval DEF PlacesIn
  <2> QED BY <2>1, FS_Subset
<1>3. ASSUME x = y PROVE Cardinality(B) = Cardinality(A) + 1
  <2>1. n + 1 \notin A /\ B = A \cup {n + 1}
    BY <1>1, <1>3 DEF PlacesIn
  <2> QED BY <1>2, <2>1, FS_AddElement
<1>4. ASSUME x # y PROVE B = A
  BY <1>1, <1>4 DEF PlacesIn
<1> QED BY <1>3, <1>4

\* A method has been added once more if a function made from it is.
LEMMA AppendAdded ==
    ASSUME NEW S, NEW s \in Seq(S), NEW x, NEW y
    PROVE  /\ x.from = y => Cardinality(AddedAs(Append(s, x), y)) = Cardinality(AddedAs(s, y)) + 1
           /\ x.from # y => AddedAs(Append(s, x), y) = AddedAs(s, y)
<1> DEFINE n == Len(s)
           A == AddedAs(s, y)
           B == AddedAs(Append(s, x), y)
<1>1. /\ n \in Nat /\ DOMAIN s = 1 .. n /\ DOMAIN Append(s, x) = 1 .. n + 1
      /\ \A j \in 1 .. n : Append(s, x)[j] = s[j]
      /\ Append(s, x)[n + 1] = x
  BY AppendIs
<1>2. IsFiniteSet(A)
  <2>1. IsFiniteSet(1 .. n) /\ A \subseteq 1 .. n
    BY <1>1, FS_Interval DEF AddedAs
  <2> QED BY <2>1, FS_Subset
<1>3. ASSUME x.from = y PROVE Cardinality(B) = Cardinality(A) + 1
  <2>1. n + 1 \notin A /\ B = A \cup {n + 1}
    BY <1>1, <1>3 DEF AddedAs
  <2> QED BY <1>2, <2>1, FS_AddElement
<1>4. ASSUME x.from # y PROVE B = A
  BY <1>1, <1>4 DEF AddedAs
<1> QED BY <1>3, <1>4

LEMMA ForIs ==
    ASSUME NEW d \in Dids, NEW f, f = <<d>> \/ f = <<"&", d>>
    PROVE  /\ Base(f) = d /\ Len(f) \in DOMAIN f
           /\ f \in Seq(Dids \cup {"&"}) /\ f # <<>>
<1> DEFINE T == Dids \cup {"&"}
<1>1. d \in T /\ "&" \in T
  OBVIOUS
<1>2. CASE f = <<d>>
  <2>1. f \in Seq(T) /\ Len(f) = 1 /\ f[1] = d
    BY <1>1, <1>2
  <2> QED BY <2>1 DEF Base
<1>3. CASE f = <<"&", d>>
  <2>1. f \in Seq(T) /\ Len(f) = 2 /\ f[2] = d
    <3> HIDE DEF T
    <3> QED BY <1>1, <1>3
  <2>2. f # <<>> /\ Base(f) = d
    BY <1>3 DEF Base
  <2>3. Len(f) \in DOMAIN f
    BY <2>1
  <2> QED BY <2>1, <2>2, <2>3
<1> QED BY <1>2, <1>3

\* What the crates are.
LEMMA CrateIs ==
    ASSUME crate_impls \in Crates
    PROVE  /\ Len(crate_impls) \in Nat
           /\ DOMAIN crate_impls = 1 .. Len(crate_impls)
           /\ \A i \in DOMAIN crate_impls :
                /\ Base(crate_impls[i].for_) \in Dids
                /\ crate_impls[i].trait_ # Base(crate_impls[i].for_)
                /\ crate_impls[i].for_ \in Seq(Dids \cup {"&"})
                /\ crate_impls[i].for_ # <<>>
                /\ KeysOf(i) \subseteq Dids /\ IsFiniteSet(KeysOf(i))
                /\ Len(crate_impls[i].items) \in Nat
                /\ DOMAIN crate_impls[i].items = 1 .. Len(crate_impls[i].items)
                /\ \A k \in DOMAIN crate_impls[i].items :
                     \A n \in DOMAIN crate_impls[i].items[k].inputs :
                        crate_impls[i].items[k].inputs[n] \in Types
<1>1. Len(crate_impls) \in Nat /\ DOMAIN crate_impls = 1 .. Len(crate_impls)
  BY CratesAssumption
<1>2. ASSUME NEW i \in DOMAIN crate_impls
      PROVE  /\ Base(crate_impls[i].for_) \in Dids
             /\ crate_impls[i].trait_ # Base(crate_impls[i].for_)
             /\ crate_impls[i].for_ \in Seq(Dids \cup {"&"})
             /\ crate_impls[i].for_ # <<>>
             /\ KeysOf(i) \subseteq Dids /\ IsFiniteSet(KeysOf(i))
             /\ Len(crate_impls[i].items) \in Nat
             /\ DOMAIN crate_impls[i].items = 1 .. Len(crate_impls[i].items)
             /\ \A k \in DOMAIN crate_impls[i].items :
                  \A n \in DOMAIN crate_impls[i].items[k].inputs :
                     crate_impls[i].items[k].inputs[n] \in Types
  <2> DEFINE for_ == crate_impls[i].for_
             args == crate_impls[i].trait_args
  <2>1. /\ for_ \in {<<d>> : d \in Dids} \cup {<<"&", d>> : d \in Dids}
        /\ crate_impls[i].trait_ \notin {for_[n] : n \in DOMAIN for_}
        /\ args \subseteq Dids /\ IsFiniteSet(args)
        /\ Len(crate_impls[i].items) \in Nat
        /\ DOMAIN crate_impls[i].items = 1 .. Len(crate_impls[i].items)
        /\ \A k \in DOMAIN crate_impls[i].items :
             \A n \in DOMAIN crate_impls[i].items[k].inputs :
                crate_impls[i].items[k].inputs[n] \in Types
    BY CratesAssumption
  <2>2. PICK d \in Dids : for_ = <<d>> \/ for_ = <<"&", d>>
    BY <2>1
  <2>3. /\ Base(for_) = d /\ Len(for_) \in DOMAIN for_
        /\ for_ \in Seq(Dids \cup {"&"}) /\ for_ # <<>>
    BY <2>2, ForIs
  <2>4. crate_impls[i].trait_ # Base(for_)
    BY <2>1, <2>3 DEF Base
  <2>5. KeysOf(i) = args \cup {Base(for_)}
    BY DEF KeysOf
  <2>6. IsFiniteSet(KeysOf(i)) /\ KeysOf(i) \subseteq Dids
    BY <2>1, <2>3, <2>5, FS_AddElement
  <2> QED BY <2>1, <2>3, <2>4, <2>6
<1> QED BY <1>1, <1>2

-----------------------------------------------------------------------------
(* Types                                                                   *)

LEMMA InitType == Init => TypeOK
<1> SUFFICES ASSUME Init PROVE TypeOK
  OBVIOUS
<1>1. impls \in [Dids -> Seq(DOMAIN crate_impls)]
  BY DEF Init
<1>2. <<>> \in Seq({api_functions[j] : j \in DOMAIN api_functions})
  OBVIOUS
<1> QED BY <1>1, <1>2 DEF Init, TypeOK

\* Where api_functions is left alone.
LEMMA SameFunctions ==
    ASSUME TypeOK, UNCHANGED api_functions
    PROVE  api_functions' \in Seq({api_functions[j] : j \in DOMAIN api_functions}')
BY DEF TypeOK

LEMMA AddMethodIs ==
    ASSUME TypeOK, add_method
    PROVE  /\ Analysing /\ item \in DOMAIN CurrentImpl.items /\ Method.is_method
           /\ CanBeAdded
           /\ item' = item + 1
           /\ UNCHANGED <<pc, crate_impls, impls, to_list, did, impl_types,
                          impl_trait_for_types, at>>
           /\ Current \in DOMAIN crate_impls
           /\ \E fn :
                /\ api_functions' = Append(api_functions, fn)
                /\ fn.full_name[1] \in NameCandidates
                /\ fn.inputs = [k \in DOMAIN Method.inputs |->
                                 replace_self_type(Method.inputs[k],
                                                   CurrentImpl.for_)]
                /\ fn.trait = CurrentImpl.trait_
                /\ fn.from = <<Current, item>>
<1> DEFINE Fn(d) ==
      [full_name |-> <<d, Method.name>>,
       inputs |-> [k \in DOMAIN Method.inputs |->
                     replace_self_type(Method.inputs[k], CurrentImpl.for_)],
       output |-> replace_self_type(Method.output, CurrentImpl.for_),
       trait  |-> CurrentImpl.trait_,
       from   |-> <<Current, item>>]
<1>1. PICK d \in NameCandidates : api_functions' = Append(api_functions, Fn(d))
  BY DEF add_method
<1>2. /\ Fn(d).full_name[1] = d
      /\ Fn(d).inputs = [k \in DOMAIN Method.inputs |->
                          replace_self_type(Method.inputs[k], CurrentImpl.for_)]
      /\ Fn(d).trait = CurrentImpl.trait_
      /\ Fn(d).from = <<Current, item>>
  OBVIOUS
<1> HIDE DEF Fn
<1>3. Current \in DOMAIN crate_impls
  BY DEF add_method, Analysing, Current, ImplsNow, TypeOK
<1> QED BY <1>1, <1>2, <1>3 DEF add_method

LEMMA TypeStep == TypeOK /\ [Next]_vars => TypeOK'
<1> SUFFICES ASSUME TypeOK, [Next]_vars PROVE TypeOK'
  OBVIOUS
<1> DEFINE I == DOMAIN crate_impls
           R == {api_functions[j] : j \in DOMAIN api_functions}
<1>1. CASE fold_item
  <2>1. impls' \in [Dids -> Seq(I)]
    <3>1. ASSUME NEW d \in Dids
          PROVE  impls[d] \in Seq(I) /\ Append(impls[d], at) \in Seq(I)
      BY <1>1 DEF fold_item, TypeOK
    <3> QED BY <1>1, <3>1 DEF fold_item
  <2>2. at' \in Nat \ {0}
    BY <1>1 DEF fold_item, TypeOK
  <2> QED BY <1>1, <2>1, <2>2, SameFunctions DEF fold_item, TypeOK
<1>2. CASE folded
  BY <1>2, SameFunctions DEF folded, TypeOK
<1>3. ASSUME NEW d \in to_list, list_impls(d) PROVE TypeOK'
  BY <1>3, SameFunctions DEF list_impls, TypeOK
<1>4. ASSUME NEW d \in to_list, skip_impls(d) PROVE TypeOK'
  BY <1>4, SameFunctions DEF skip_impls, TypeOK
<1>5. CASE add_impl
  <2>1. impls[did][at] \in I
    BY <1>5, KnownAssumption DEF add_impl, TypeOK
  <2>2. impl_types' \in Seq(I) /\ impl_trait_for_types' \in Seq(I)
    <3> DEFINE i == impls[did][at]
    <3>1. /\ impl_types' = impl_types \/ impl_types' = Append(impl_types, i)
          /\ \/ impl_trait_for_types' = impl_trait_for_types
             \/ impl_trait_for_types' = Append(impl_trait_for_types, i)
      BY <1>5 DEF add_impl
    <3> HIDE DEF i
    <3>2. i \in I
      BY <2>1 DEF i
    <3>3. impl_types \in Seq(I) /\ impl_trait_for_types \in Seq(I)
      BY DEF TypeOK
    <3> HIDE DEF I
    <3>4. Append(impl_types, i) \in Seq(I) /\ Append(impl_trait_for_types, i) \in Seq(I)
      BY <3>2, <3>3
    <3> QED BY <3>1, <3>3, <3>4
  <2>3. at' \in Nat \ {0}
    BY <1>5 DEF add_impl, TypeOK
  <2> QED BY <1>5, <2>2, <2>3, SameFunctions DEF add_impl, TypeOK
<1>6. CASE listed
  BY <1>6, SameFunctions DEF listed, TypeOK
<1>7. CASE collected
  BY <1>7, SameFunctions DEF collected, TypeOK
<1>8. CASE add_method
  <2>1. PICK fn : api_functions' = Append(api_functions, fn)
    BY <1>8, AddMethodIs
  <2>2. api_functions \in Seq(R)
    BY DEF TypeOK
  <2>3. /\ Len(api_functions) \in Nat /\ DOMAIN api_functions = 1 .. Len(api_functions)
        /\ api_functions' \in Seq(R \cup {fn})
        /\ DOMAIN api_functions' = 1 .. Len(api_functions) + 1
        /\ \A j \in 1 .. Len(api_functions) : api_functions'[j] = api_functions[j]
        /\ api_functions'[Len(api_functions) + 1] = fn
    BY <2>1, <2>2, AppendIs
  <2>4. R \cup {fn} \subseteq {api_functions[j] : j \in DOMAIN api_functions}'
    <3>1. ASSUME NEW j \in DOMAIN api_functions
          PROVE  api_functions[j] \in {api_functions[k] : k \in DOMAIN api_functions}'
      <4>1. j \in DOMAIN api_functions' /\ api_functions'[j] = api_functions[j]
        BY <2>3
      <4> QED BY <4>1
    <3>2. Len(api_functions) + 1 \in DOMAIN api_functions'
      BY <2>3
    <3> QED BY <2>3, <3>1, <3>2
  <2>5. api_functions' \in Seq({api_functions[j] : j \in DOMAIN api_functions}')
    BY <2>3, <2>4
  <2>6. item' \in Nat \ {0}
    BY <1>8 DEF add_method, TypeOK
  <2> QED BY <1>8, <2>5, <2>6, AddMethodIs DEF TypeOK
<1>9. CASE skip_item \/ leave_impl \/ end_impl
  BY <1>9, SameFunctions DEF skip_item, leave_impl, end_impl, NextImpl, TypeOK
<1>10. CASE end_impls
  BY <1>10, SameFunctions DEF end_impls, TypeOK
<1>11. CASE UNCHANGED vars
  BY <1>11, SameFunctions DEF vars, TypeOK
<1> QED BY <1>1, <1>2, <1>3, <1>4, <1>5, <1>6, <1>7, <1>8, <1>9, <1>10, <1>11
        DEF Next, Terminated

-----------------------------------------------------------------------------
(* Names                                                                   *)

\* Self is replaced by the type of the impl.
LEMMA SelfIsReplaced ==
    ASSUME NEW t \in Types, is_param_self_type(t),
           NEW S, NEW f \in Seq(S), f # <<>>
    PROVE  Base(t) = "Self" /\ Base(replace_self_type(t, f)) = Base(f)
<1> DEFINE A == Wrappers \cup Dids \cup {"Self"}
           T == A \cup S
           u == SubSeq(t, 1, Len(t) - 1)
<1>1. t \in Seq(A) /\ Len(t) \in Nat /\ Len(t) >= 1
  BY DEF Types
<1>2. u \in Seq(A) /\ Len(u) = Len(t) - 1
  <2> DEFINE n == Len(t) - 1
  <2> HIDE DEF A
  <2>1. n \in Int /\ n >= 0 /\ \A i \in 1 .. n : t[i] \in A
    BY <1>1
  <2> HIDE DEF n
  <2>2. /\ SubSeq(t, 1, n) \in Seq(A)
        /\ Len(SubSeq(t, 1, n)) = IF 1 <= n THEN n - 1 + 1 ELSE 0
    BY <2>1, SubSeqProperties
  <2>3. Len(SubSeq(t, 1, n)) = n
    BY <2>1, <2>2
  <2> QED BY <2>2, <2>3 DEF n
<1>3. u \in Seq(T) /\ f \in Seq(T)
  BY <1>2
<1>4. Len(f) \in Nat /\ Len(f) >= 1
  OBVIOUS
<1> HIDE DEF u, A, T
<1>5. Len(u \o f) = Len(u) + Len(f) /\ (u \o f)[Len(u) + Len(f)] = f[Len(f)]
  BY <1>2, <1>3, <1>4
<1> QED BY <1>5 DEF is_param_self_type, replace_self_type, Base, u

LEMMA InfersStep ==
    TypeOK /\ TraitCallsInferSelf /\ [Next]_vars => TraitCallsInferSelf'
<1> SUFFICES ASSUME TypeOK, TraitCallsInferSelf, [Next]_vars
             PROVE  TraitCallsInferSelf'
  OBVIOUS
<1>1. UNCHANGED crate_impls
  BY DEF Next, Terminated, vars, fold_item, folded, list_impls, skip_impls, add_impl,
         listed, collected, add_method, leave_impl, skip_item, end_impl, end_impls
<1>2. ASSUME NEW fn PROVE InfersSelf(fn)' <=> InfersSelf(fn)
  BY <1>1 DEF InfersSelf, ItemOf, ImplOf
<1>3. CASE add_method
  <2>1. PICK fn :
                /\ api_functions' = Append(api_functions, fn)
                /\ fn.full_name[1] \in NameCandidates
                /\ fn.inputs = [k \in DOMAIN Method.inputs |->
                                 replace_self_type(Method.inputs[k],
                                                   CurrentImpl.for_)]
                /\ fn.trait = CurrentImpl.trait_
                /\ fn.from = <<Current, item>>
    BY <1>3, AddMethodIs
  <2> DEFINE d == fn.full_name[1]
  <2>2. Current \in DOMAIN crate_impls /\ item \in DOMAIN CurrentImpl.items
    BY <1>3, AddMethodIs
  <2>3. /\ CurrentImpl.trait_ # Base(CurrentImpl.for_)
        /\ CurrentImpl.for_ \in Seq(Dids \cup {"&"}) /\ CurrentImpl.for_ # <<>>
        /\ \A n \in DOMAIN Method.inputs : Method.inputs[n] \in Types
    BY <2>2, CrateIs DEF TypeOK, CurrentImpl, Method
  <2>4. ItemOf(fn.from) = Method /\ ImplOf(fn.from) = CurrentImpl
    BY <2>1 DEF ItemOf, ImplOf, Method, CurrentImpl
  <2>5. d \in Known
    BY <2>1 DEF NameCandidates
  <2>6. ASSUME d = CurrentImpl.trait_
        PROVE  \E k \in DOMAIN fn.inputs :
                  /\ Base(Method.inputs[k]) = "Self"
                  /\ Base(fn.inputs[k]) = Base(CurrentImpl.for_)
    <3>1. contains_self_type
      BY <2>1, <2>3, <2>6 DEF NameCandidates
    <3>2. PICK k \in DOMAIN Method.inputs : is_param_self_type(Method.inputs[k])
      BY <3>1 DEF contains_self_type
    <3>3. /\ Base(Method.inputs[k]) = "Self"
          /\ Base(replace_self_type(Method.inputs[k], CurrentImpl.for_))
               = Base(CurrentImpl.for_)
      BY <2>3, <3>2, SelfIsReplaced
    <3> QED BY <2>1, <3>2, <3>3
  <2>7. InfersSelf(fn)
    BY <2>1, <2>4, <2>5, <2>6 DEF InfersSelf
  <2>8. \A j \in DOMAIN api_functions' : api_functions'[j] = fn \/
           (j \in DOMAIN api_functions /\ api_functions'[j] = api_functions[j])
    <3> DEFINE R == {api_functions[j] : j \in DOMAIN api_functions}
    <3>1. api_functions \in Seq(R)
      BY DEF TypeOK
    <3> HIDE DEF R
    <3> QED BY <2>1, <3>1, AppendIs
  <2> QED BY <1>2, <2>7, <2>8 DEF TraitCallsInferSelf
<1>4. CASE UNCHANGED api_functions
  BY <1>2, <1>4 DEF TraitCallsInferSelf
<1> QED BY <1>3, <1>4 DEF Next, Terminated, vars, fold_item, folded, list_impls, skip_impls,
         add_impl, listed, collected, leave_impl, skip_item, end_impl, end_impls

\* A method that _analyse_impl names by its trait has an argument in which Self
\* was replaced by the type of the impl, so that the call can be resolved.
THEOREM TraitCallsFixTheType == Spec => []TraitCallsInferSelf
<1>1. Init => TraitCallsInferSelf
  BY DEF Init, TraitCallsInferSelf
<1> QED BY <1>1, InitType, TypeStep, InfersStep, PTL DEF Spec

-----------------------------------------------------------------------------
(* The cache                                                               *)

LEMMA SameCrate ==
    ASSUME [Next]_vars
    PROVE  UNCHANGED crate_impls
BY DEF Next, Terminated, vars, fold_item, folded, list_impls, skip_impls, add_impl,
       listed, collected, add_method, leave_impl, skip_item, end_impl, end_impls

LEMMA SameKeys ==
    ASSUME UNCHANGED crate_impls
    PROVE  \A i : KeysOf(i)' = KeysOf(i)
BY DEF KeysOf

LEMMA FoldItemCached ==
    ASSUME TypeOK, CachedSoFar, fold_item
    PROVE  CachedSoFar'
<1> SUFFICES ASSUME NEW d \in Dids PROVE Cached(d)'
  BY DEF CachedSoFar
<1> DEFINE l == impls[d]
           l1 == impls'[d]
           I == DOMAIN crate_impls
<1>1. /\ at \in I /\ pc = "cache" /\ pc' = "cache" /\ at' = at + 1
      /\ UNCHANGED crate_impls
      /\ l1 = IF d \in KeysOf(at) THEN Append(l, at) ELSE l
  BY DEF fold_item
<1>2. l \in Seq(I) /\ at \in Nat /\ I \subseteq Nat
  BY CrateIs DEF TypeOK
<1>3. /\ \A p, q \in DOMAIN l : p < q => l[p] < l[q]
      /\ \A p \in DOMAIN l : d \in KeysOf(l[p]) /\ l[p] < at
      /\ \A i \in I : d \in KeysOf(i) /\ i < at => \E p \in DOMAIN l : l[p] = i
  BY <1>1 DEF CachedSoFar, Cached
<1>4. \A i : KeysOf(i)' = KeysOf(i)
  BY <1>1, SameKeys
<1>5. CASE d \in KeysOf(at)
  <2> DEFINE n == Len(l)
  <2>1. l1 = Append(l, at)
    BY <1>1, <1>5
  <2>2. /\ n \in Nat /\ DOMAIN l = 1 .. n /\ DOMAIN l1 = 1 .. n + 1
        /\ \A j \in 1 .. n : l1[j] = l[j]
        /\ l1[n + 1] = at
    <3> HIDE DEF l, l1, I
    <3> QED BY <1>2, <2>1, AppendIs
  <2>3. ASSUME NEW p \in DOMAIN l1 PROVE d \in KeysOf(l1[p]) /\ l1[p] < at + 1
    <3>1. CASE p = n + 1
      <4>1. l1[p] = at /\ at < at + 1
        BY <1>2, <2>2, <3>1
      <4> QED BY <1>5, <4>1
    <3>2. CASE p # n + 1
      <4>1. p \in 1 .. n
        BY <2>2, <3>2
      <4>2. l1[p] = l[p] /\ p \in DOMAIN l /\ l[p] \in Nat
        BY <1>2, <2>2, <4>1
      <4>3. d \in KeysOf(l[p]) /\ l[p] < at
        BY <1>3, <4>2
      <4>4. l[p] < at + 1
        BY <1>2, <4>2, <4>3
      <4> QED BY <4>2, <4>3, <4>4
    <3> QED BY <3>1, <3>2
  <2>4. \A p, q \in DOMAIN l1 : p < q => l1[p] < l1[q]
    <3>1. ASSUME NEW p \in DOMAIN l1, NEW q \in DOMAIN l1, p < q
          PROVE  l1[p] < l1[q]
      <4>1. p \in 1 .. n /\ (q \in 1 .. n \/ q = n + 1)
        BY <2>2, <3>1
      <4> QED BY <1>3, <2>2, <3>1, <4>1
    <3> QED BY <3>1
  <2>5. ASSUME NEW i \in I, d \in KeysOf(i), i < at + 1
        PROVE  \E p \in DOMAIN l1 : l1[p] = i
    <3>1. CASE i = at
      <4>1. n + 1 \in DOMAIN l1
        BY <2>2
      <4> QED BY <2>2, <3>1, <4>1
    <3>2. CASE i # at
      <4>1. i < at
        BY <1>2, <2>5, <3>2
      <4>2. PICK p \in DOMAIN l : l[p] = i
        BY <1>3, <2>5, <4>1
      <4>3. p \in DOMAIN l1 /\ l1[p] = i
        BY <2>2, <4>2
      <4> QED BY <4>3
    <3> QED BY <3>1, <3>2
  <2> QED BY <1>1, <2>3, <2>4, <2>5 DEF Cached, KeysOf
<1>6. CASE d \notin KeysOf(at)
  <2>1. l1 = l
    BY <1>1, <1>6
  <2>2. \A p \in DOMAIN l : l[p] < at + 1
    BY <1>2, <1>3
  <2>3. \A i \in I : d \in KeysOf(i) /\ i < at + 1 => i < at
    BY <1>2, <1>6
  <2> QED BY <1>1, <1>3, <1>4, <2>1, <2>2, <2>3 DEF Cached
<1> QED BY <1>5, <1>6

LEMMA CachedStep == TypeOK /\ CachedSoFar /\ [Next]_vars => CachedSoFar'
<1> SUFFICES ASSUME TypeOK, CachedSoFar, [Next]_vars PROVE CachedSoFar'
  OBVIOUS
<1>1. UNCHANGED crate_impls /\ \A i : KeysOf(i)' = KeysOf(i)
  BY SameCrate, SameKeys
<1>2. CASE fold_item
  BY <1>2, FoldItemCached
<1>3. CASE folded
  <2>1. pc' # "cache" /\ UNCHANGED impls /\ at \notin DOMAIN crate_impls
    BY <1>3 DEF folded
  <2>2. \A i \in DOMAIN crate_impls : i < at
    BY <2>1, CrateIs DEF TypeOK
  <2> QED BY <1>1, <2>1, <2>2 DEF CachedSoFar, Cached
<1>4. CASE UNCHANGED <<impls, pc, at>>
  BY <1>1, <1>4 DEF CachedSoFar, Cached
<1>5. CASE pc # "cache" /\ pc' # "cache" /\ UNCHANGED impls
  BY <1>1, <1>5 DEF CachedSoFar, Cached
<1> QED BY <1>2, <1>3, <1>4, <1>5
        DEF Next, Terminated, vars, list_impls, skip_impls, add_impl, listed, collected,
            add_method, leave_impl, skip_item, end_impl, end_impls, Analysing

-----------------------------------------------------------------------------
(* The lists                                                               *)

LEMMA SamePlaces ==
    ASSUME UNCHANGED <<crate_impls, impl_types, impl_trait_for_types>>
    PROVE  \A i : ListOf(i)' = ListOf(i) /\ Places(i)' = Places(i)
BY DEF Places, PlacesIn, ListOf

LEMMA FiniteKeys ==
    ASSUME TypeOK, NEW i \in DOMAIN crate_impls
    PROVE  IsFiniteSet(KeysListed(i)) /\ Cardinality(KeysListed(i)) \in Nat
<1>1. KeysListed(i) \subseteq KeysOf(i) /\ IsFiniteSet(KeysOf(i))
  BY CrateIs DEF KeysListed, TypeOK
<1> QED BY <1>1, FS_Subset, FS_CardinalityType

LEMMA FinitePlaces ==
    ASSUME TypeOK, NEW i
    PROVE  IsFiniteSet(Places(i)) /\ Cardinality(Places(i)) \in Nat
<1>1. ListOf(i) \in Seq(DOMAIN crate_impls)
  BY DEF ListOf, TypeOK
<1>2. IsFiniteSet(1 .. Len(ListOf(i))) /\ Places(i) \subseteq 1 .. Len(ListOf(i))
  BY <1>1, FS_Interval DEF Places, PlacesIn
<1> QED BY <1>2, FS_Subset, FS_CardinalityType

\* An impl is appended to its list.
LEMMA AddImplPlaces ==
    ASSUME TypeOK, add_impl, NEW i
    PROVE  /\ i = impls[did][at] =>
                Cardinality(Places(i)') = Cardinality(Places(i)) + 1
           /\ i # impls[did][at] => Places(i)' = Places(i)
<1> DEFINE x == impls[did][at]
           None1 == crate_impls[x].trait_ = None
           S == DOMAIN crate_impls
<1>1. /\ UNCHANGED crate_impls
      /\ None1 => /\ impl_types' = Append(impl_types, x)
                  /\ impl_trait_for_types' = impl_trait_for_types
      /\ ~None1 => /\ impl_trait_for_types' = Append(impl_trait_for_types, x)
                   /\ impl_types' = impl_types
  BY DEF add_impl
<1>2. impl_types \in Seq(S) /\ impl_trait_for_types \in Seq(S)
  BY DEF TypeOK
<1>3. ListOf(i) \in Seq(S)
  BY <1>2 DEF ListOf
<1> HIDE DEF x, S
<1>4. \/ ListOf(i)' = Append(ListOf(i), x)
      \/ ListOf(i)' = ListOf(i) /\ i # x
  BY <1>1 DEF ListOf
<1>5. CASE ListOf(i)' = Append(ListOf(i), x)
  <2>1. Places(i)' = PlacesIn(Append(ListOf(i), x), i)
    BY <1>5 DEF Places, PlacesIn
  <2> QED BY <1>3, <2>1, AppendPlaces DEF Places, x
<1>6. CASE ListOf(i)' = ListOf(i) /\ i # x
  BY <1>6 DEF Places, PlacesIn, x
<1> QED BY <1>4, <1>5, <1>6

\* It has been found under one more key.
LEMMA AddImplKeys ==
    ASSUME TypeOK, CachedSoFar, add_impl, NEW i \in DOMAIN crate_impls
    PROVE  /\ i = impls[did][at] =>
                Cardinality(KeysListed(i)') = Cardinality(KeysListed(i)) + 1
           /\ i # impls[did][at] => KeysListed(i)' = KeysListed(i)
<1> DEFINE l == impls[did]
           x == l[at]
<1>1. /\ pc = "list" /\ pc' = "list" /\ at \in DOMAIN l /\ at' = at + 1
      /\ UNCHANGED <<crate_impls, impls, to_list, did>>
  BY DEF add_impl
<1>2. did \in Known /\ did \notin to_list /\ did \in Dids
  BY <1>1, KnownAssumption DEF TypeOK
<1>3. l \in Seq(DOMAIN crate_impls) /\ at \in Nat /\ DOMAIN crate_impls \subseteq Nat
  BY <1>2, CrateIs DEF TypeOK
<1>4. /\ \A p, q \in DOMAIN l : p < q => l[p] < l[q]
      /\ \A p \in DOMAIN l : did \in KeysOf(l[p])
  BY <1>2 DEF CachedSoFar, Cached
<1>5. \A j : KeysOf(j)' = KeysOf(j)
  BY <1>1, SameKeys
<1>6. KeysListed(i) = {d \in KeysOf(i) \cap Known :
                         /\ d \notin to_list
                         /\ d = did => \E p \in DOMAIN l : p < at /\ l[p] = i}
  BY <1>1 DEF KeysListed
<1>7. KeysListed(i)' = {d \in KeysOf(i) \cap Known :
                         /\ d \notin to_list
                         /\ d = did => \E p \in DOMAIN l : p < at + 1 /\ l[p] = i}
  BY <1>1, <1>5 DEF KeysListed
<1> HIDE DEF l
<1>8. ASSUME i # x PROVE KeysListed(i)' = KeysListed(i)
  <2>1. \A p \in DOMAIN l : l[p] = i => (p < at + 1 <=> p < at)
    BY <1>3, <1>8
  <2> QED BY <1>6, <1>7, <2>1
<1>9. ASSUME i = x PROVE Cardinality(KeysListed(i)') = Cardinality(KeysListed(i)) + 1
  <2>1. did \in KeysOf(i)
    BY <1>1, <1>4, <1>9
  <2>2. did \notin KeysListed(i)
    <3>1. \A p \in DOMAIN l : p < at => l[p] # i
      <4>1. ASSUME NEW p \in DOMAIN l, p < at PROVE l[p] # i
        <5>1. l[p] < l[at] /\ l[p] \in Nat /\ l[at] \in Nat
          BY <1>1, <1>3, <1>4, <4>1
        <5> QED BY <1>9, <5>1
      <4> QED BY <4>1
    <3> QED BY <1>6, <3>1
  <2>3. \E p \in DOMAIN l : p < at + 1 /\ l[p] = i
    BY <1>1, <1>3, <1>9
  <2>4. KeysListed(i)' = KeysListed(i) \cup {did}
    BY <1>2, <1>6, <1>7, <2>1, <2>3
  <2> QED BY <2>2, <2>4, FiniteKeys, FS_AddElement
<1> QED BY <1>8, <1>9 DEF l

LEMMA ListedStep ==
    TypeOK /\ CachedSoFar /\ ListedSoFar /\ [Next]_vars => ListedSoFar'
<1> SUFFICES ASSUME TypeOK, CachedSoFar, ListedSoFar, [Next]_vars
             PROVE  ListedSoFar'
  OBVIOUS
<1>1. UNCHANGED crate_impls /\ \A i : KeysOf(i)' = KeysOf(i)
  BY SameCrate, SameKeys
<1>2. CASE fold_item
  BY <1>2 DEF fold_item, ListedSoFar
<1>3. CASE folded
  <2>1. /\ pc = "cache" /\ pc' = "collect" /\ to_list' = Dids
        /\ impl_types' = <<>> /\ impl_trait_for_types' = <<>>
    BY <1>3 DEF folded, ListedSoFar
  <2>2. ASSUME NEW i \in DOMAIN crate_impls
        PROVE  Places(i)' = {} /\ KeysListed(i)' = {}
    <3>1. ListOf(i)' = <<>>
      BY <2>1 DEF ListOf
    <3>2. KeysOf(i) \subseteq Dids
      BY CrateIs DEF TypeOK
    <3> QED BY <1>1, <2>1, <3>1, <3>2 DEF Places, PlacesIn, KeysListed
  <2> QED BY <1>1, <2>1, <2>2 DEF ListedSoFar
<1>4. ASSUME pc # "cache", pc' # "cache",
             UNCHANGED <<impl_types, impl_trait_for_types>>,
             \A i \in DOMAIN crate_impls : KeysListed(i)' = KeysListed(i),
             pc' \in {"types", "traits", "done"} => to_list' = {}
      PROVE  ListedSoFar'
  <2>1. \A i : Places(i)' = Places(i)
    BY <1>1, <1>4, SamePlaces
  <2> QED BY <1>1, <1>4, <2>1 DEF ListedSoFar
<1>5. ASSUME NEW d \in to_list, list_impls(d) PROVE ListedSoFar'
  <2>1. /\ pc = "collect" /\ pc' = "list" /\ did' = d /\ at' = 1
        /\ to_list' = to_list \ {d}
        /\ UNCHANGED <<impls, impl_types, impl_trait_for_types>>
    BY <1>5 DEF list_impls
  <2>2. ASSUME NEW i \in DOMAIN crate_impls PROVE KeysListed(i)' = KeysListed(i)
    <3>1. d \in Dids /\ impls[d] \in Seq(DOMAIN crate_impls)
      BY DEF TypeOK
    <3>2. ~\E p \in DOMAIN impls[d] : p < 1 /\ impls[d][p] = i
      BY <3>1
    <3> QED BY <1>1, <2>1, <3>2 DEF KeysListed
  <2> QED BY <1>4, <2>1, <2>2
<1>6. ASSUME NEW d \in to_list, skip_impls(d) PROVE ListedSoFar'
  <2>1. /\ pc = "collect" /\ pc' = "collect" /\ d \notin Known
        /\ to_list' = to_list \ {d}
        /\ UNCHANGED <<impl_types, impl_trait_for_types>>
    BY <1>6 DEF skip_impls
  <2>2. \A i \in DOMAIN crate_impls : KeysListed(i)' = KeysListed(i)
    BY <1>1, <2>1 DEF KeysListed
  <2> QED BY <1>4, <2>1, <2>2
<1>7. CASE add_impl
  <2>1. pc = "list" /\ pc' = "list"
    BY <1>7 DEF add_impl
  <2>2. ASSUME NEW i \in DOMAIN crate_impls
        PROVE  Cardinality(Places(i)') = Cardinality(KeysListed(i)')
    <3>1. Cardinality(Places(i)) = Cardinality(KeysListed(i))
      BY <2>1 DEF ListedSoFar
    <3> QED BY <1>7, <3>1, AddImplPlaces, AddImplKeys
  <2>3. \A i \in DOMAIN crate_impls' : Cardinality(Places(i)') = Cardinality(KeysListed(i)')
    BY <1>1, <2>2
  <2> QED BY <2>1, <2>3 DEF ListedSoFar
<1>8. CASE listed
  <2>1. /\ pc = "list" /\ pc' = "collect" /\ at \notin DOMAIN impls[did]
        /\ UNCHANGED <<impls, to_list, did, impl_types, impl_trait_for_types>>
    BY <1>8 DEF listed
  <2>2. did \in Dids /\ impls[did] \in Seq(DOMAIN crate_impls) /\ at \in Nat \ {0}
    BY <2>1, KnownAssumption DEF TypeOK
  <2>3. \A p \in DOMAIN impls[did] : p < at
    BY <2>1, <2>2
  <2>4. \A i \in DOMAIN crate_impls :
           did \in KeysOf(i) => \E p \in DOMAIN impls[did] : impls[did][p] = i
    BY <2>1, <2>2 DEF CachedSoFar, Cached
  <2>5. \A i \in DOMAIN crate_impls : KeysListed(i)' = KeysListed(i)
    BY <1>1, <2>1, <2>3, <2>4 DEF KeysListed
  <2> QED BY <1>4, <2>1, <2>5
<1>9. CASE collected
  <2>1. /\ pc = "collect" /\ pc' = "types" /\ to_list = {}
        /\ UNCHANGED <<to_list, impl_types, impl_trait_for_types>>
    BY <1>9 DEF collected
  <2>2. \A i \in DOMAIN crate_impls : KeysListed(i)' = KeysListed(i)
    BY <1>1, <2>1 DEF KeysListed
  <2> QED BY <1>4, <2>1, <2>2
<1>10. CASE add_method \/ leave_impl \/ skip_item \/ end_impl \/ end_impls
  <2>1. /\ pc \in {"types", "traits"} /\ pc' \in {"types", "traits", "done"}
        /\ UNCHANGED <<to_list, impl_types, impl_trait_for_types>>
    BY <1>10 DEF add_method, leave_impl, skip_item, end_impl, end_impls, Analysing
  <2>2. to_list = {}
    BY <2>1 DEF ListedSoFar
  <2>3. \A i \in DOMAIN crate_impls : KeysListed(i)' = KeysListed(i)
    BY <1>1, <2>1 DEF KeysListed
  <2> QED BY <1>4, <2>1, <2>2, <2>3
<1>11. CASE UNCHANGED vars
  BY <1>11 DEF vars, ListedSoFar, Places, PlacesIn, ListOf, KeysListed, KeysOf
<1> QED BY <1>2, <1>3, <1>5, <1>6, <1>7, <1>8, <1>9, <1>10, <1>11 DEF Next, Terminated

-----------------------------------------------------------------------------
(* The methods                                                             *)

LEMMA MethodIs ==
    ASSUME TypeOK
    PROVE  /\ \A m \in AllMethods :
                /\ m = <<m[1], m[2]>> /\ m[1] \in DOMAIN crate_impls
                /\ m[2] \in DOMAIN crate_impls[m[1]].items
                /\ m[2] \in Nat /\ m[2] >= 1
           /\ \A i, k : <<i, k>> \in AllMethods <=>
                /\ i \in DOMAIN crate_impls
                /\ k \in DOMAIN crate_impls[i].items
                /\ crate_impls[i].items[k].is_method
<1>1. \A i \in DOMAIN crate_impls : \A k \in DOMAIN crate_impls[i].items :
         k \in Nat /\ k >= 1
  BY CrateIs DEF TypeOK
<1>2. ASSUME NEW m \in AllMethods
      PROVE  /\ m = <<m[1], m[2]>> /\ m[1] \in DOMAIN crate_impls
             /\ m[2] \in DOMAIN crate_impls[m[1]].items
             /\ crate_impls[m[1]].items[m[2]].is_method
  BY DEF AllMethods
<1>3. ASSUME NEW i, NEW k, <<i, k>> \in AllMethods
      PROVE  /\ i \in DOMAIN crate_impls
             /\ k \in DOMAIN crate_impls[i].items
             /\ crate_impls[i].items[k].is_method
  BY <1>3 DEF AllMethods
<1>4. ASSUME NEW i \in DOMAIN crate_impls, NEW k \in DOMAIN crate_impls[i].items,
             crate_impls[i].items[k].is_method
      PROVE  <<i, k>> \in AllMethods
  BY <1>4 DEF AllMethods
<1> QED BY <1>1, <1>2, <1>3, <1>4

\* A method is added if and only if it can be named.
LEMMA AddedIfNameable ==
    CanBeAdded <=> Nameable(<<Current, item>>)
<1>1. /\ ImplOf(<<Current, item>>) = CurrentImpl
      /\ ItemOf(<<Current, item>>) = Method
  BY DEF ImplOf, ItemOf, CurrentImpl, Method
<1>2. TakesSelf(<<Current, item>>) <=> contains_self_type
  BY <1>1 DEF TakesSelf, contains_self_type
<1> QED BY <1>1, <1>2 DEF CanBeAdded, Nameable, NameCandidates

LEMMA SameMethods ==
    ASSUME UNCHANGED crate_impls
    PROVE  /\ AllMethods' = AllMethods
           /\ \A i, k : Reachable(i, k)' <=> Reachable(i, k)
<1>1. AllMethods' = AllMethods
  BY DEF AllMethods
<1>2. \A m : Nameable(m)' <=> Nameable(m)
  BY DEF Nameable, TakesSelf, ImplOf, ItemOf
<1> QED BY <1>1, <1>2 DEF Reachable

LEMMA ReachableNext ==
    ASSUME NEW i, NEW k \in Nat, k >= 1
    PROVE  Reachable(i, k) <=> /\ Reachable(i, k - 1)
                               /\ <<i, k>> \in AllMethods => Nameable(<<i, k>>)
<1>1. 1 .. k = (1 .. k - 1) \cup {k}
  OBVIOUS
<1> QED BY <1>1 DEF Reachable

LEMMA ReachableBefore ==
    ASSUME NEW i, NEW k \in Nat, NEW n \in Nat, n <= k, Reachable(i, k)
    PROVE  Reachable(i, n)
<1>1. 1 .. n \subseteq 1 .. k
  OBVIOUS
<1> QED BY <1>1 DEF Reachable

\* The pass in which an impl is analysed.
Pass(i) == IF crate_impls[i].trait_ = None THEN "types" ELSE "traits"

\* The impl at hand is at one of its places; no other is, in this pass.
LEMMA CurrentPlace ==
    ASSUME TypeOK, AddedSoFar, Analysing
    PROVE  /\ Current \in DOMAIN crate_impls /\ Pass(Current) = pc
           /\ at \in Places(Current)
           /\ \A i \in DOMAIN crate_impls :
                i # Current /\ Pass(i) = pc => at \notin Places(i)
           /\ Places(Current) \subseteq Nat
<1>1. pc \in {"types", "traits"} /\ at \in DOMAIN ImplsNow
  BY DEF Analysing
<1>2. ImplsNow \in Seq(DOMAIN crate_impls)
  BY DEF ImplsNow, TypeOK
<1>3. Current \in DOMAIN crate_impls
  BY <1>1, <1>2 DEF Current
<1>4. Pass(Current) = pc
  BY <1>1 DEF Pass, Current, ImplsNow, AddedSoFar
<1>5. \A i : Pass(i) = pc => ListOf(i) = ImplsNow
  BY <1>1 DEF Pass, ListOf, ImplsNow
<1>6. at \in Places(Current)
  BY <1>1, <1>4, <1>5 DEF Places, PlacesIn, Current
<1>7. \A i \in DOMAIN crate_impls : i # Current /\ Pass(i) = pc => at \notin Places(i)
  BY <1>5 DEF Places, PlacesIn, Current
<1>8. Places(Current) \subseteq Nat
  BY <1>2, <1>4, <1>5 DEF Places, PlacesIn
<1> QED BY <1>3, <1>4, <1>6, <1>7, <1>8

LEMMA PassedIs ==
    ASSUME TypeOK, pc \in {"types", "traits"}, NEW i, NEW k
    PROVE  Passed(i, k) =
             IF Pass(i) = pc
             THEN {p \in Places(i) : p < at \/ (p = at /\ k < item)}
             ELSE IF pc = "traits" THEN Places(i) ELSE {}
BY DEF Passed, Pass

\* The same after a step.
LEMMA PassedNext ==
    ASSUME TypeOK, pc \in {"types", "traits"}, NEW i, NEW k,
           UNCHANGED <<pc, crate_impls, impl_types, impl_trait_for_types>>
    PROVE  Passed(i, k)' =
             IF Pass(i) = pc
             THEN {p \in Places(i) : p < at' \/ (p = at' /\ k < item')}
             ELSE IF pc = "traits" THEN Places(i) ELSE {}
<1>1. Places(i)' = Places(i)
  BY SamePlaces
<1>2. Passed(i, k)' =
        {p \in Places(i)' :
           \/ pc' = "done"
           \/ pc' = "traits" /\ crate_impls'[i].trait_ = None
           \/ /\ pc' = IF crate_impls'[i].trait_ = None THEN "types" ELSE "traits"
              /\ p < at' \/ (p = at' /\ k < item')}
  BY DEF Passed
<1> QED BY <1>1, <1>2 DEF Pass

-----------------------------------------------------------------------------
\* What has to be shown of a step of _analyse_impl.
LEMMA AddedFrom ==
    ASSUME TypeOK, AddedSoFar, pc \in {"types", "traits"},
           UNCHANGED <<pc, crate_impls, impl_types, impl_trait_for_types>>,
           Analysing' => Reachable(Current', item' - 1),
           at' \notin DOMAIN ImplsNow => item' = 1,
           \A m \in AllMethods :
              TimesAdded(m)' = IF Reachable(m[1], m[2])
                               THEN Cardinality(Passed(m[1], m[2])') ELSE 0
    PROVE  AddedSoFar'
<1>1. /\ AllMethods' = AllMethods
      /\ \A i, k : Reachable(i, k)' <=> Reachable(i, k)
  BY SameMethods
<1>2. ImplsNow' = ImplsNow
  BY DEF ImplsNow
<1>3. (Analysing => Reachable(Current, item - 1))'
  <2>1. SUFFICES ASSUME Analysing' PROVE Reachable(Current, item - 1)'
    OBVIOUS
  <2>2. Reachable(Current', item' - 1)
    BY <2>1
  <2> QED BY <2>2 DEF Reachable, AllMethods, Nameable, TakesSelf, ImplOf, ItemOf,
                  Base, is_param_self_type
<1>4. \A m \in AllMethods' :
         TimesAdded(m)' = IF Reachable(m[1], m[2])'
                          THEN Cardinality(Passed(m[1], m[2])') ELSE 0
  BY <1>1
<1> QED BY <1>2, <1>3, <1>4 DEF AddedSoFar

LEMMA AddMethodStep ==
    ASSUME TypeOK, AddedSoFar, add_method
    PROVE  AddedSoFar'
<1> DEFINE c == Current
<1>1. /\ Analysing /\ item \in DOMAIN CurrentImpl.items /\ Method.is_method
      /\ CanBeAdded /\ item' = item + 1 /\ c \in DOMAIN crate_impls
      /\ UNCHANGED <<pc, crate_impls, impls, to_list, did, impl_types,
                     impl_trait_for_types, at>>
      /\ pc \in {"types", "traits"} /\ at \in DOMAIN ImplsNow
  BY AddMethodIs DEF Analysing
<1>2. PICK fn : api_functions' = Append(api_functions, fn) /\ fn.from = <<c, item>>
  BY AddMethodIs
<1>3. /\ Pass(c) = pc /\ at \in Places(c)
      /\ \A i \in DOMAIN crate_impls : i # c /\ Pass(i) = pc => at \notin Places(i)
      /\ Places(c) \subseteq Nat /\ at \in Nat /\ item \in Nat /\ item >= 1
  BY <1>1, CurrentPlace DEF TypeOK
<1>4. <<c, item>> \in AllMethods /\ Nameable(<<c, item>>)
  <2>1. crate_impls[c] = CurrentImpl /\ crate_impls[c].items[item] = Method
    BY DEF CurrentImpl, Method
  <2> QED BY <1>1, <2>1, MethodIs, AddedIfNameable
<1>5. Reachable(c, item)
  BY <1>1, <1>3, <1>4, ReachableNext DEF AddedSoFar
<1>6. \A m : /\ m = <<c, item>> => TimesAdded(m)' = TimesAdded(m) + 1
             /\ m # <<c, item>> => TimesAdded(m)' = TimesAdded(m)
  <2> DEFINE R == {api_functions[j] : j \in DOMAIN api_functions}
  <2>1. api_functions \in Seq(R)
    BY DEF TypeOK
  <2> HIDE DEF R
  <2>2. \A m : AddedAs(api_functions, m)' = AddedAs(Append(api_functions, fn), m)
    BY <1>2 DEF AddedAs
  <2> QED BY <1>2, <2>1, <2>2, AppendAdded DEF TimesAdded
<1>7. ASSUME NEW m \in AllMethods
      PROVE  TimesAdded(m)' = IF Reachable(m[1], m[2])
                              THEN Cardinality(Passed(m[1], m[2])') ELSE 0
  <2> DEFINE i == m[1]
             k == m[2]
  <2>1. /\ m = <<i, k>> /\ i \in DOMAIN crate_impls /\ k \in Nat
        /\ TimesAdded(m) = IF Reachable(i, k) THEN Cardinality(Passed(i, k)) ELSE 0
    BY <1>1, MethodIs DEF AddedSoFar
  <2>2. Passed(i, k) = IF Pass(i) = pc
                       THEN {p \in Places(i) : p < at \/ (p = at /\ k < item)}
                       ELSE IF pc = "traits" THEN Places(i) ELSE {}
    BY <1>1, PassedIs
  <2>3. Passed(i, k)' = IF Pass(i) = pc
                        THEN {p \in Places(i) : p < at \/ (p = at /\ k < item + 1)}
                        ELSE IF pc = "traits" THEN Places(i) ELSE {}
    BY <1>1, PassedNext
  <2>4. CASE m = <<c, item>>
    <3>1. i = c /\ k = item
      BY <2>4
    <3>2. at \notin Passed(i, k) /\ Passed(i, k)' = Passed(i, k) \cup {at}
      BY <1>3, <2>2, <2>3, <3>1
    <3>3. IsFiniteSet(Passed(i, k))
      <4>1. Passed(i, k) \subseteq Places(i) /\ IsFiniteSet(Places(i))
        BY FinitePlaces DEF Passed
      <4> QED BY <4>1, FS_Subset
    <3>4. Cardinality(Passed(i, k)') = Cardinality(Passed(i, k)) + 1
      BY <3>2, <3>3, FS_AddElement
    <3> QED BY <1>5, <1>6, <2>1, <2>4, <3>1, <3>4
  <2>5. CASE m # <<c, item>>
    <3>1. i # c \/ k # item
      BY <2>1, <2>5
    <3>2. k # item => (k < item + 1 <=> k < item)
      BY <1>3, <2>1
    <3>3. Passed(i, k)' = Passed(i, k)
      BY <1>3, <2>1, <2>2, <2>3, <3>1, <3>2
    <3> QED BY <1>6, <2>1, <2>5, <3>3
  <2> QED BY <2>4, <2>5
<1>8. Reachable(Current', item' - 1)
  <2>1. Current' = c /\ item' - 1 = item
    BY <1>1, <1>3 DEF Current, ImplsNow
  <2> QED BY <1>5, <2>1
<1>9. at' \notin DOMAIN ImplsNow => item' = 1
  BY <1>1
<1> QED BY <1>1, <1>7, <1>8, <1>9, AddedFrom

LEMMA SkipItemStep ==
    ASSUME TypeOK, AddedSoFar, skip_item
    PROVE  AddedSoFar'
<1> DEFINE c == Current
<1>1. /\ Analysing /\ item \in DOMAIN CurrentImpl.items /\ ~Method.is_method
      /\ item' = item + 1
      /\ UNCHANGED <<pc, crate_impls, impl_types, impl_trait_for_types, at,
                     api_functions>>
      /\ pc \in {"types", "traits"} /\ at \in DOMAIN ImplsNow
  BY DEF Analysing, skip_item
<1>3. /\ Pass(c) = pc /\ at \in Places(c)
      /\ \A i \in DOMAIN crate_impls : i # c /\ Pass(i) = pc => at \notin Places(i)
      /\ Places(c) \subseteq Nat /\ at \in Nat /\ item \in Nat /\ item >= 1
  BY <1>1, CurrentPlace DEF TypeOK
<1>4. <<c, item>> \notin AllMethods
  <2>1. crate_impls[c].items[item] = Method
    BY DEF CurrentImpl, Method
  <2> QED BY <1>1, <2>1, MethodIs
<1>5. Reachable(c, item)
  BY <1>1, <1>3, <1>4, ReachableNext DEF AddedSoFar
<1>7. ASSUME NEW m \in AllMethods
      PROVE  TimesAdded(m)' = IF Reachable(m[1], m[2])
                              THEN Cardinality(Passed(m[1], m[2])') ELSE 0
  <2> DEFINE i == m[1]
             k == m[2]
  <2>1. /\ m = <<i, k>> /\ i \in DOMAIN crate_impls /\ k \in Nat
        /\ TimesAdded(m) = IF Reachable(i, k) THEN Cardinality(Passed(i, k)) ELSE 0
    BY <1>1, MethodIs DEF AddedSoFar
  <2>2. Passed(i, k) = IF Pass(i) = pc
                       THEN {p \in Places(i) : p < at \/ (p = at /\ k < item)}
                       ELSE IF pc = "traits" THEN Places(i) ELSE {}
    BY <1>1, PassedIs
  <2>3. Passed(i, k)' = IF Pass(i) = pc
                        THEN {p \in Places(i) : p < at \/ (p = at /\ k < item + 1)}
                        ELSE IF pc = "traits" THEN Places(i) ELSE {}
    BY <1>1, PassedNext
  <2>4. i # c \/ k # item
    BY <1>4, <2>1
  <2>5. k # item => (k < item + 1 <=> k < item)
    BY <1>3, <2>1
  <2>6. Passed(i, k)' = Passed(i, k)
    BY <1>3, <2>1, <2>2, <2>3, <2>4, <2>5
  <2>7. TimesAdded(m)' = TimesAdded(m)
    BY <1>1 DEF TimesAdded, AddedAs
  <2> QED BY <2>1, <2>6, <2>7
<1>8. Reachable(Current', item' - 1)
  <2>1. Current' = c /\ item' - 1 = item
    BY <1>1, <1>3 DEF Current, ImplsNow
  <2> QED BY <1>5, <2>1
<1>9. at' \notin DOMAIN ImplsNow => item' = 1
  BY <1>1
<1> QED BY <1>1, <1>7, <1>8, <1>9, AddedFrom

\* The rest of an impl is left when a method cannot be named or at the end.
LEMMA LeaveImplStep ==
    ASSUME TypeOK, AddedSoFar, leave_impl \/ end_impl
    PROVE  AddedSoFar'
<1> DEFINE c == Current
<1>1. /\ Analysing /\ at' = at + 1 /\ item' = 1
      /\ UNCHANGED <<pc, crate_impls, impl_types, impl_trait_for_types,
                     api_functions>>
      /\ pc \in {"types", "traits"} /\ at \in DOMAIN ImplsNow
  BY DEF Analysing, leave_impl, end_impl, NextImpl
<1>3. /\ c \in DOMAIN crate_impls /\ Pass(c) = pc /\ at \in Places(c)
      /\ \A i \in DOMAIN crate_impls : i # c /\ Pass(i) = pc => at \notin Places(i)
      /\ Places(c) \subseteq Nat /\ at \in Nat /\ item \in Nat /\ item >= 1
  BY <1>1, CurrentPlace DEF TypeOK
<1>4. ASSUME NEW k \in DOMAIN crate_impls[c].items, Reachable(c, k)
      PROVE  k < item
  <2>1. /\ Len(crate_impls[c].items) \in Nat
        /\ DOMAIN crate_impls[c].items = 1 .. Len(crate_impls[c].items)
    BY <1>3, CrateIs DEF TypeOK
  <2>2. crate_impls[c] = CurrentImpl /\ crate_impls[c].items[item] = Method
    BY DEF CurrentImpl, Method
  <2>3. CASE end_impl
    <3>1. item \notin DOMAIN crate_impls[c].items
      BY <2>2, <2>3 DEF end_impl
    <3> QED BY <1>3, <2>1, <3>1
  <2>4. CASE leave_impl
    <3>1. <<c, item>> \in AllMethods /\ ~Nameable(<<c, item>>)
      <4>1. item \in DOMAIN CurrentImpl.items /\ Method.is_method /\ ~CanBeAdded
        BY <2>4 DEF leave_impl
      <4> QED BY <1>3, <2>2, <4>1, MethodIs, AddedIfNameable
    <3>2. ~Reachable(c, item)
      BY <1>3, <3>1, ReachableNext
    <3>3. ~(item <= k)
      BY <1>3, <1>4, <2>1, <3>2, ReachableBefore
    <3> QED BY <1>3, <2>1, <3>3
  <2> QED BY <2>3, <2>4
<1>7. ASSUME NEW m \in AllMethods
      PROVE  TimesAdded(m)' = IF Reachable(m[1], m[2])
                              THEN Cardinality(Passed(m[1], m[2])') ELSE 0
  <2> DEFINE i == m[1]
             k == m[2]
  <2>1. /\ i \in DOMAIN crate_impls /\ k \in DOMAIN crate_impls[i].items
        /\ k \in Nat /\ k >= 1
        /\ TimesAdded(m) = IF Reachable(i, k) THEN Cardinality(Passed(i, k)) ELSE 0
    BY <1>1, MethodIs DEF AddedSoFar
  <2>2. TimesAdded(m)' = TimesAdded(m)
    BY <1>1 DEF TimesAdded, AddedAs
  <2>3. ASSUME Reachable(i, k) PROVE Passed(i, k)' = Passed(i, k)
    <3>1. Passed(i, k) = IF Pass(i) = pc
                         THEN {p \in Places(i) : p < at \/ (p = at /\ k < item)}
                         ELSE IF pc = "traits" THEN Places(i) ELSE {}
      BY <1>1, PassedIs
    <3>2. Passed(i, k)' = IF Pass(i) = pc
                          THEN {p \in Places(i) : p < at + 1 \/ (p = at + 1 /\ k < 1)}
                          ELSE IF pc = "traits" THEN Places(i) ELSE {}
      BY <1>1, PassedNext
    <3>3. ASSUME NEW p \in Places(i), Pass(i) = pc
          PROVE  (p < at + 1 \/ (p = at + 1 /\ k < 1))
                   <=> (p < at \/ (p = at /\ k < item))
      <4>1. p \in Nat
        BY DEF Places, PlacesIn, ListOf, TypeOK
      <4>2. p = at => i = c
        BY <1>3, <2>1, <3>3
      <4>3. i = c => k < item
        BY <1>4, <2>1, <2>3
      <4> HIDE DEF i, k, c
      <4> QED BY <1>3, <2>1, <4>1, <4>2, <4>3
    <3> QED BY <3>1, <3>2, <3>3
  <2> QED BY <2>1, <2>2, <2>3
<1>8. Reachable(Current', item' - 1)
  BY <1>1 DEF Reachable
<1> QED BY <1>1, <1>7, <1>8, AddedFrom

\* At the end of a pass all places of its impls have been passed.
LEMMA EndImplsStep ==
    ASSUME TypeOK, AddedSoFar, end_impls
    PROVE  AddedSoFar'
<1>1. /\ pc \in {"types", "traits"} /\ at \notin DOMAIN ImplsNow /\ at' = 1
      /\ pc' = IF pc = "types" THEN "traits" ELSE "done"
      /\ UNCHANGED <<crate_impls, impl_types, impl_trait_for_types, item,
                     api_functions>>
  BY DEF end_impls
<1>2. item = 1 /\ at \in Nat /\ at >= 1
  BY <1>1 DEF AddedSoFar, TypeOK
<1>3. /\ AllMethods' = AllMethods
      /\ \A i, k : Reachable(i, k)' <=> Reachable(i, k)
  BY <1>1, SameMethods
<1>4. \A i : Places(i)' = Places(i)
  BY <1>1, SamePlaces
<1>5. ASSUME NEW i, Pass(i) = pc, NEW p \in Places(i) PROVE p < at
  <2>1. ListOf(i) = ImplsNow /\ ImplsNow \in Seq(DOMAIN crate_impls)
    BY <1>1, <1>5 DEF Pass, ListOf, ImplsNow, TypeOK
  <2> QED BY <1>1, <1>2, <2>1 DEF Places, PlacesIn
<1>6. ASSUME NEW i, NEW k \in Nat, k >= 1
      PROVE  Passed(i, k)' = Passed(i, k)
  <2>1. Passed(i, k) = IF Pass(i) = pc
                       THEN {p \in Places(i) : p < at \/ (p = at /\ k < item)}
                       ELSE IF pc = "traits" THEN Places(i) ELSE {}
    BY <1>1, PassedIs
  <2>2. Passed(i, k) = IF Pass(i) = pc \/ pc = "traits" THEN Places(i) ELSE {}
    BY <1>5, <2>1
  <2>3. Passed(i, k)' =
          {p \in Places(i) :
             \/ pc' = "done"
             \/ pc' = "traits" /\ Pass(i) = "types"
             \/ pc' = Pass(i) /\ (p < at' \/ (p = at' /\ k < item'))}
    BY <1>1, <1>4 DEF Passed, Pass
  <2>4. \A p \in Places(i) : p \in Nat /\ p >= 1
    BY DEF Places, PlacesIn, ListOf, TypeOK
  <2>5. \A p \in Places(i) : ~(p < at' \/ (p = at' /\ k < item'))
    BY <1>1, <1>2, <1>6, <2>4
  <2>6. Pass(i) \in {"types", "traits"}
    BY DEF Pass
  <2> QED BY <1>1, <2>2, <2>3, <2>5, <2>6
<1>7. ASSUME NEW m \in AllMethods'
      PROVE  TimesAdded(m)' = IF Reachable(m[1], m[2])'
                              THEN Cardinality(Passed(m[1], m[2])') ELSE 0
  <2>1. m \in AllMethods /\ m[2] \in Nat /\ m[2] >= 1
    BY <1>3, <1>7, MethodIs
  <2>2. TimesAdded(m)' = TimesAdded(m)
    BY <1>1 DEF TimesAdded, AddedAs
  <2>3. Passed(m[1], m[2])' = Passed(m[1], m[2])
    BY <1>6, <2>1
  <2>4. TimesAdded(m) = IF Reachable(m[1], m[2])
                        THEN Cardinality(Passed(m[1], m[2])) ELSE 0
    BY <1>1, <2>1 DEF AddedSoFar
  <2> QED BY <1>3, <2>2, <2>3, <2>4
<1>8. (Analysing => Reachable(Current, item - 1))'
  <2>1. item' - 1 = 0
    BY <1>1, <1>2
  <2> QED BY <2>1 DEF Reachable
<1>9. /\ \A p \in DOMAIN impl_types : crate_impls[impl_types[p]].trait_ = None
      /\ \A p \in DOMAIN impl_trait_for_types :
           crate_impls[impl_trait_for_types[p]].trait_ # None
  BY DEF AddedSoFar
<1> QED BY <1>1, <1>2, <1>7, <1>8, <1>9 DEF AddedSoFar

LEMMA CollectedStep ==
    ASSUME TypeOK, AddedSoFar, collected
    PROVE  AddedSoFar'
<1>1. /\ pc = "collect" /\ pc' = "types" /\ at' = 1 /\ item = 1
      /\ api_functions = <<>>
      /\ UNCHANGED <<crate_impls, impl_types, impl_trait_for_types, item,
                     api_functions>>
  BY DEF collected, AddedSoFar
<1>2. ASSUME NEW m \in AllMethods'
      PROVE  TimesAdded(m)' = 0 /\ Cardinality(Passed(m[1], m[2])') = 0
  <2>1. AllMethods' = AllMethods
    BY <1>1, SameMethods
  <2>2. m[2] \in Nat /\ m[2] >= 1
    BY <1>2, <2>1, MethodIs
  <2>3. \A p \in Places(m[1])' : p \in Nat /\ p >= 1
    BY <1>1, SamePlaces DEF Places, PlacesIn, ListOf, TypeOK
  <2>4. Passed(m[1], m[2])' = {}
    BY <1>1, <2>2, <2>3 DEF Passed
  <2>5. AddedAs(api_functions, m)' = {}
    BY <1>1 DEF AddedAs
  <2> QED BY <2>4, <2>5, FS_EmptySet DEF TimesAdded
<1>3. (Analysing => Reachable(Current, item - 1))'
  BY <1>1 DEF Reachable
<1>4. /\ \A p \in DOMAIN impl_types : crate_impls[impl_types[p]].trait_ = None
      /\ \A p \in DOMAIN impl_trait_for_types :
           crate_impls[impl_trait_for_types[p]].trait_ # None
  BY DEF AddedSoFar
<1> QED BY <1>1, <1>2, <1>3, <1>4 DEF AddedSoFar

LEMMA AddImplStep ==
    ASSUME TypeOK, AddedSoFar, add_impl
    PROVE  AddedSoFar'
<1> DEFINE x == impls[did][at]
           S == DOMAIN crate_impls
<1>1. /\ pc = "list" /\ pc' = "list" /\ api_functions = <<>> /\ item = 1
      /\ UNCHANGED <<crate_impls, item, api_functions>>
      /\ \/ /\ crate_impls[x].trait_ = None
            /\ impl_types' = Append(impl_types, x)
            /\ impl_trait_for_types' = impl_trait_for_types
         \/ /\ crate_impls[x].trait_ # None
            /\ impl_trait_for_types' = Append(impl_trait_for_types, x)
            /\ impl_types' = impl_types
  BY DEF add_impl, AddedSoFar
<1>2. impl_types \in Seq(S) /\ impl_trait_for_types \in Seq(S)
  BY DEF TypeOK
<1>3. /\ \A p \in DOMAIN impl_types : crate_impls[impl_types[p]].trait_ = None
      /\ \A p \in DOMAIN impl_trait_for_types :
           crate_impls[impl_trait_for_types[p]].trait_ # None
  BY DEF AddedSoFar
<1> HIDE DEF x, S
<1>4. ASSUME NEW s \in Seq(S), NEW p \in DOMAIN Append(s, x)
      PROVE  Append(s, x)[p] = x \/ (p \in DOMAIN s /\ Append(s, x)[p] = s[p])
  BY AppendIs
<1>5. /\ \A p \in DOMAIN impl_types' : crate_impls[impl_types'[p]].trait_ = None
      /\ \A p \in DOMAIN impl_trait_for_types' :
           crate_impls[impl_trait_for_types'[p]].trait_ # None
  <2>1. CASE /\ crate_impls[x].trait_ = None
             /\ impl_types' = Append(impl_types, x)
             /\ impl_trait_for_types' = impl_trait_for_types
    <3>1. \A p \in DOMAIN impl_types' :
             impl_types'[p] = x \/ (p \in DOMAIN impl_types /\ impl_types'[p] = impl_types[p])
      BY <1>2, <1>4, <2>1
    <3> QED BY <1>3, <2>1, <3>1
  <2>2. CASE /\ crate_impls[x].trait_ # None
             /\ impl_trait_for_types' = Append(impl_trait_for_types, x)
             /\ impl_types' = impl_types
    <3>1. \A p \in DOMAIN impl_trait_for_types' :
             \/ impl_trait_for_types'[p] = x
             \/ /\ p \in DOMAIN impl_trait_for_types
                /\ impl_trait_for_types'[p] = impl_trait_for_types[p]
      BY <1>2, <1>4, <2>2
    <3> QED BY <1>3, <2>2, <3>1
  <2> QED BY <1>1, <2>1, <2>2
<1> QED BY <1>1, <1>5 DEF AddedSoFar, Analysing

LEMMA AddedStep == TypeOK /\ AddedSoFar /\ [Next]_vars => AddedSoFar'
<1> SUFFICES ASSUME TypeOK, AddedSoFar, [Next]_vars PROVE AddedSoFar'
  OBVIOUS
<1>1. CASE \/ fold_item \/ folded \/ listed
           \/ \E d \in to_list : list_impls(d) \/ skip_impls(d)
  <2>1. /\ pc \in {"cache", "collect", "list"} /\ pc' \in {"cache", "collect", "list"}
        /\ UNCHANGED <<crate_impls, impl_types, impl_trait_for_types, item,
                       api_functions>>
    BY <1>1 DEF fold_item, folded, listed, list_impls, skip_impls
  <2> QED BY <2>1 DEF AddedSoFar, Analysing
<1>2. CASE UNCHANGED vars
  <2>1. UNCHANGED <<pc, crate_impls, impls, to_list, did, impl_types,
                    impl_trait_for_types, at, item, api_functions>>
    BY <1>2 DEF vars
  <2>2. /\ AllMethods' = AllMethods /\ ImplsNow' = ImplsNow /\ Current' = Current
        /\ \A i, k : Reachable(i, k)' <=> Reachable(i, k)
    BY <2>1, SameMethods DEF ImplsNow, Current
  <2>3. Analysing' => Reachable(Current', item' - 1)
    BY <2>1, <2>2 DEF AddedSoFar, Analysing
  <2>4. \A m : TimesAdded(m)' = TimesAdded(m)
    BY <2>1 DEF TimesAdded, AddedAs
  <2>5. \A i, k : Passed(i, k)' = Passed(i, k)
    BY <2>1, SamePlaces DEF Passed
  <2>6. CASE pc \in {"types", "traits"}
    <3>1. \A m \in AllMethods :
             TimesAdded(m)' = IF Reachable(m[1], m[2])
                              THEN Cardinality(Passed(m[1], m[2])') ELSE 0
      BY <2>4, <2>5, <2>6 DEF AddedSoFar
    <3>2. at' \notin DOMAIN ImplsNow => item' = 1
      BY <2>1, <2>6 DEF AddedSoFar
    <3> QED BY <2>1, <2>3, <2>6, <3>1, <3>2, AddedFrom
  <2>7. CASE pc \notin {"types", "traits"}
    BY <2>1, <2>2, <2>4, <2>5, <2>7 DEF AddedSoFar, Analysing
  <2> QED BY <2>6, <2>7
<1> QED BY <1>1, <1>2, AddImplStep, CollectedStep, AddMethodStep, SkipItemStep,
           LeaveImplStep, EndImplsStep DEF Next, Terminated

-----------------------------------------------------------------------------
LEMMA InitImpl == Init => ImplInv
<1> SUFFICES ASSUME Init PROVE ImplInv
  OBVIOUS
<1>1. TypeOK
  BY InitType
<1>2. \A d \in Dids : impls[d] = <<>>
  BY DEF Init
<1>3. pc = "cache" /\ at = 1
  BY DEF Init
<1>4. \A i \in DOMAIN crate_impls : ~(i < 1)
  BY <1>1, CrateIs DEF TypeOK
<1>5. CachedSoFar
  BY <1>2, <1>3, <1>4 DEF CachedSoFar, Cached
<1>6. ListedSoFar
  BY DEF ListedSoFar, Init
<1>7. AddedSoFar
  BY DEF AddedSoFar, Init, Analysing
<1> QED BY <1>1, <1>5, <1>6, <1>7 DEF ImplInv

LEMMA ImplStep == ImplInv /\ [Next]_vars => ImplInv'
BY TypeStep, CachedStep, ListedStep, AddedStep DEF ImplInv

\* Whatever order the cache's maps are walked in, extract_impls_from_cache adds
\* each method that _analyse_impl reaches once for each of the named types that
\* its impl is listed under.
THEOREM MethodsAddedOncePerKey == Spec => []AddedOncePerKey
<1>1. ImplInv => AddedOncePerKey
  <2> SUFFICES ASSUME ImplInv, pc = "done", NEW m \in AllMethods
               PROVE  TimesAdded(m) =
                        IF Reachable(m[1], m[2])
                        THEN Cardinality(KeysOf(m[1]) \cap Known) ELSE 0
    BY DEF AddedOncePerKey
  <2>1. TypeOK /\ m[1] \in DOMAIN crate_impls
    BY MethodIs DEF ImplInv
  <2>2. Passed(m[1], m[2]) = Places(m[1])
    BY DEF Passed
  <2>3. KeysListed(m[1]) = KeysOf(m[1]) \cap Known
    BY DEF KeysListed, ImplInv, ListedSoFar
  <2>4. Cardinality(Places(m[1])) = Cardinality(KeysListed(m[1]))
    BY <2>1 DEF ImplInv, ListedSoFar
  <2> QED BY <2>2, <2>3, <2>4 DEF ImplInv, AddedSoFar
<1> QED BY <1>1, InitImpl, ImplStep, PTL DEF Spec
=============================================================================
