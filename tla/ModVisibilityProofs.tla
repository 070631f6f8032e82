------------------------ MODULE ModVisibilityProofs -------------------------
(* get_invisible_mods resolves every mod, and resolves it rightly, so that *)
(* no function is kept that cannot be named, and one that can be named is  *)
(* lost only to the prefix test: for every crate and every order of the    *)
(* HashMaps.                                                               *)
EXTENDS ModVisibility, TLAPS, SequenceTheorems, FiniteSetTheorems

\* What the maps hold: only mods of the crate, each with its own visibility,
\* and the crate itself once the passes have begun.
MapsOK ==
    /\ crate_ \in Crates
    /\ DOMAIN inner \subseteq DOMAIN crate_.mods
    /\ \A m \in DOMAIN inner : inner[m] = crate_.mods[m]
    /\ todo \subseteq DOMAIN inner
    /\ DOMAIN new_mod_visibility \subseteq DOMAIN inner
    /\ to_walk \subseteq DOMAIN crate_.mods
    /\ pc # "walk" => crate_.name \in DOMAIN new_mod_visibility

VisibilityInv == MapsOK /\ VisibilityExact

N == Cardinality(DOMAIN crate_.mods)

\* How far the passes have come: when n passes are over, every mod at most
\* n + 1 segments long is resolved, and the pass that runs adds the mods one
\* segment longer that it has looked at.
Progress ==
    /\ pc \in {"walk", "pass", "mods", "resolved", "filter", "done"}
    /\ pc = "walk" => DOMAIN inner = DOMAIN crate_.mods \ to_walk /\ todo = {}
    /\ pc # "walk" => DOMAIN inner = DOMAIN crate_.mods /\ passes_left \in 0 .. N
    /\ pc = "pass" =>
         /\ passes_left > 0
         /\ \A m \in DOMAIN crate_.mods :
              Len(m) <= N - passes_left + 1 => m \in DOMAIN new_mod_visibility
    /\ pc = "mods" =>
         \A m \in DOMAIN crate_.mods :
            \/ Len(m) <= N - passes_left
            \/ m \notin todo /\ Len(m) <= N - passes_left + 1
            => m \in DOMAIN new_mod_visibility
    /\ AllModsResolved

Inv2 == VisibilityInv /\ Progress

FilterInv ==
    /\ rest \in Seq(ApiFunctions)
    /\ new_api_functions \in Seq(ApiFunctions)
    /\ KeptCanBeNamed

-----------------------------------------------------------------------------
\* A prefix of the path to the parent is a prefix of the path.
LEMMA PrefixOfParent ==
    ASSUME NEW m \in Paths, Len(m) > 1, NEW n \in 1 .. Len(m) - 1
    PROVE  SubSeq(get_parent_mod_name(m), 1, n) = SubSeq(m, 1, n)
<1> DEFINE p == SubSeq(m, 1, Len(m) - 1)
<1>1. m \in Seq(Segments) /\ Len(m) \in Nat
  BY DEF Paths
<1>2. Len(p) = Len(m) - 1 /\ p \in Seq(Segments)
      /\ \A i \in 1 .. Len(m) - 1 : p[i] = m[i]
  BY <1>1
<1>3. Len(SubSeq(p, 1, n)) = n /\ \A i \in 1 .. n : SubSeq(p, 1, n)[i] = p[i]
  BY <1>1, <1>2
<1>4. Len(SubSeq(m, 1, n)) = n /\ \A i \in 1 .. n : SubSeq(m, 1, n)[i] = m[i]
  BY <1>1
<1>5. SubSeq(p, 1, n) \in Seq(Segments) /\ SubSeq(m, 1, n) \in Seq(Segments)
  BY <1>1, <1>2
<1>6. \A i \in 1 .. n : SubSeq(p, 1, n)[i] = SubSeq(m, 1, n)[i]
  BY <1>1, <1>2, <1>3, <1>4
<1> QED
  BY <1>3, <1>4, <1>5, <1>6, SeqEqual DEF get_parent_mod_name

\* The path up to its own length is the path.
LEMMA WholePrefix ==
    ASSUME NEW m \in Paths
    PROVE  SubSeq(m, 1, Len(m)) = m
BY DEF Paths

\* A mod is visible if it is public and its parent is visible.
LEMMA VisibleByParent ==
    ASSUME NEW m \in Paths, Len(m) > 1
    PROVE  Visible(m) <=> /\ crate_.mods[m]
                          /\ Visible(get_parent_mod_name(m))
<1> DEFINE p == get_parent_mod_name(m)
<1>1. Len(m) \in Nat /\ Len(p) = Len(m) - 1
  BY DEF Paths, get_parent_mod_name
<1>2. \A n \in 2 .. Len(p) : SubSeq(p, 1, n) = SubSeq(m, 1, n)
  BY <1>1, PrefixOfParent
<1>3. 2 .. Len(m) = (2 .. Len(p)) \cup {Len(m)}
  BY <1>1
<1>4. Visible(m) <=> /\ \A n \in 2 .. Len(p) : crate_.mods[SubSeq(m, 1, n)]
                     /\ crate_.mods[SubSeq(m, 1, Len(m))]
  BY <1>3, Zenon DEF Visible
<1>5. Visible(p) <=> \A n \in 2 .. Len(p) : crate_.mods[SubSeq(m, 1, n)]
  BY <1>2, Zenon DEF Visible
<1> QED
  BY <1>4, <1>5, WholePrefix, Zenon

\* The mods of a crate that is walked, other than its own, have a parent.
LEMMA ModHasParent ==
    ASSUME NEW c \in Crates, NEW m \in DOMAIN c.mods
    PROVE  /\ m \in Paths
           /\ m # c.name => Len(m) > 1
           /\ c.mods[m] \in BOOLEAN
<1>1. WellFormed(c)
  BY CratesAssumption
<1> QED
  BY <1>1 DEF WellFormed

\* The crate's own mod is visible.
LEMMA CrateIsVisible ==
    ASSUME crate_ \in Crates
    PROVE  crate_.name \in DOMAIN crate_.mods /\ Visible(crate_.name)
<1>1. WellFormed(crate_)
  BY CratesAssumption
<1>2. Len(crate_.name) = 1 /\ crate_.name \in DOMAIN crate_.mods
  BY <1>1 DEF WellFormed
<1>3. 2 .. Len(crate_.name) = {}
  BY <1>2
<1> QED
  BY <1>2, <1>3, Zenon DEF Visible

\* The invariant holds before the walk.
LEMMA InitVisibility == Init => VisibilityInv
BY DEF Init, VisibilityInv, MapsOK, VisibilityExact

\* A step that leaves the crate and the maps alone preserves the invariant.
LEMMA MapsUnchanged ==
    ASSUME VisibilityInv, UNCHANGED <<crate_, inner, new_mod_visibility>>,
           todo' \subseteq DOMAIN inner, to_walk' \subseteq DOMAIN crate_.mods,
           pc = "walk" => pc' = "walk"
    PROVE  VisibilityInv'
<1>1. MapsOK'
  BY DEF VisibilityInv, MapsOK
<1>2. VisibilityExact'
  BY Zenon DEF VisibilityInv, VisibilityExact, Visible
<1> QED
  BY <1>1, <1>2 DEF VisibilityInv

\* Every step preserves the invariant.
LEMMA NextVisibility == VisibilityInv /\ [Next]_vars => VisibilityInv'
<1> SUFFICES ASSUME VisibilityInv, [Next]_vars PROVE VisibilityInv'
  OBVIOUS
<1> USE DEF VisibilityInv
<1>1. CASE add_one_mod
  <2>1. PICK m \in to_walk :
          /\ inner' = Insert(inner, m, crate_.mods[m])
          /\ to_walk' = to_walk \ {m}
    BY <1>1 DEF add_one_mod
  <2>2. UNCHANGED <<pc, crate_, new_mod_visibility, todo>>
    BY <1>1 DEF add_one_mod
  <2>3. DOMAIN inner' = DOMAIN inner \cup {m}
        /\ \A k \in DOMAIN inner' :
             inner'[k] = IF k = m THEN crate_.mods[m] ELSE inner[k]
    BY <2>1 DEF Insert
  <2>4. MapsOK'
    BY <2>1, <2>2, <2>3 DEF MapsOK
  <2>5. VisibilityExact'
    BY <2>2, Zenon DEF VisibilityExact, Visible
  <2> QED
    BY <2>4, <2>5
<1>2. CASE get_invisible_mods
  <2>1. UNCHANGED <<crate_, to_walk, inner, todo>>
        /\ crate_.name \in DOMAIN inner
        /\ new_mod_visibility' = Insert(new_mod_visibility, crate_.name, TRUE)
    BY <1>2 DEF get_invisible_mods
  <2>2. DOMAIN new_mod_visibility' = DOMAIN new_mod_visibility \cup {crate_.name}
        /\ \A k \in DOMAIN new_mod_visibility' :
             new_mod_visibility'[k] =
               IF k = crate_.name THEN TRUE ELSE new_mod_visibility[k]
    BY <2>1 DEF Insert
  <2>3. MapsOK'
    BY <2>1, <2>2 DEF MapsOK
  <2>4. Visible(crate_.name)
    BY CrateIsVisible DEF MapsOK
  <2>5. \A k \in DOMAIN new_mod_visibility' :
          new_mod_visibility'[k] = Visible(k)
    BY <2>2, <2>4, Zenon DEF VisibilityExact
  <2>6. VisibilityExact'
    BY <2>1, <2>5, Zenon DEF VisibilityExact, Visible
  <2> QED
    BY <2>3, <2>6
<1>3. CASE \E m \in todo : look_at_mod(m)
  <2>1. PICK m \in todo : look_at_mod(m)
    BY <1>3
  <2>2. UNCHANGED <<pc, crate_, to_walk, inner>> /\ todo' \subseteq todo
    BY <2>1 DEF look_at_mod
  <2>3. CASE new_mod_visibility' = new_mod_visibility
    BY <2>2, <2>3, MapsUnchanged DEF MapsOK
  <2>4. CASE new_mod_visibility' # new_mod_visibility
    <3> DEFINE p == get_parent_mod_name(m)
    <3>1. /\ m \notin DOMAIN new_mod_visibility
          /\ p \in DOMAIN new_mod_visibility
          /\ new_mod_visibility' =
               Insert(new_mod_visibility, m, VisibilityOf(m))
      BY <2>1, <2>4 DEF look_at_mod
    <3>2. DOMAIN new_mod_visibility' = DOMAIN new_mod_visibility \cup {m}
          /\ \A k \in DOMAIN new_mod_visibility' :
               new_mod_visibility'[k] =
                 IF k = m THEN VisibilityOf(m) ELSE new_mod_visibility[k]
      BY <3>1 DEF Insert
    <3>3. MapsOK'
      BY <2>2, <3>2 DEF MapsOK
    <3>4. pc = "mods" /\ m # crate_.name /\ m \in DOMAIN crate_.mods
      BY <2>1, <3>1 DEF look_at_mod, MapsOK
    <3>5. m \in Paths /\ Len(m) > 1
      BY <3>4, ModHasParent DEF MapsOK
    <3>6. Visible(m) <=> crate_.mods[m] /\ Visible(p)
      BY <3>5, VisibleByParent
    <3>7. inner[m] = crate_.mods[m] /\ new_mod_visibility[p] = Visible(p)
      BY <3>1 DEF MapsOK, VisibilityExact
    <3>8. VisibilityOf(m) = Visible(m)
      BY <3>6, <3>7, Zenon DEF VisibilityOf, Visible
    <3>9. \A k \in DOMAIN new_mod_visibility' :
            new_mod_visibility'[k] = Visible(k)
      BY <3>2, <3>8, Zenon DEF VisibilityExact
    <3>10. VisibilityExact'
      BY <2>2, <3>9, Zenon DEF VisibilityExact, Visible
    <3> QED
      BY <3>3, <3>10
  <2> QED
    BY <2>3, <2>4
<1>4. CASE start_pass
  BY <1>4, MapsUnchanged DEF start_pass, MapsOK
<1>5. CASE end_pass
  BY <1>5, MapsUnchanged DEF end_pass, MapsOK
<1>6. CASE filter_start
  BY <1>6, MapsUnchanged DEF filter_start, MapsOK
<1>7. CASE filter_function
  BY <1>7, MapsUnchanged DEF filter_function, MapsOK
<1>8. CASE filter_end
  BY <1>8, MapsUnchanged DEF filter_end, MapsOK
<1>9. CASE UNCHANGED vars
  BY <1>9, MapsUnchanged DEF vars, MapsOK
<1> QED
  BY <1>1, <1>2, <1>3, <1>4, <1>5, <1>6, <1>7, <1>8, <1>9 DEF Next, Terminated

\* Whatever crate is walked and in whatever order get_invisible_mods takes the
\* keys of its map, a mod it has resolved is visible exactly when it and all
\* mods around it are public.
THEOREM VisibilityIsExact == Spec => []VisibilityExact
<1>1. VisibilityInv => VisibilityExact
  BY DEF VisibilityInv
<1> QED
  BY <1>1, InitVisibility, NextVisibility, PTL DEF Spec

-----------------------------------------------------------------------------
\* A path has as many prefixes as segments, all of them mods: no mod is
\* deeper than there are mods.
LEMMA DepthBounded ==
    ASSUME NEW c \in Crates, NEW m \in DOMAIN c.mods
    PROVE  Len(m) <= Cardinality(DOMAIN c.mods)
<1>1. /\ IsFiniteSet(DOMAIN c.mods)
      /\ m \in Seq(Segments)
      /\ \A n \in 1 .. Len(m) : SubSeq(m, 1, n) \in DOMAIN c.mods
  <2>1. WellFormed(c)
    BY CratesAssumption
  <2> QED
    BY <2>1 DEF WellFormed, Paths
<1> DEFINE S == 1 .. Len(m)
           f == [n \in S |-> SubSeq(m, 1, n)]
<1>2. f \in [S -> DOMAIN c.mods]
  BY <1>1
<1>3. \A n \in S : Len(SubSeq(m, 1, n)) = n
  BY <1>1
<1>4. \A n1, n2 \in S : f[n1] = f[n2] => n1 = n2
  <2> SUFFICES ASSUME NEW n1 \in S, NEW n2 \in S, f[n1] = f[n2]
               PROVE  n1 = n2
    OBVIOUS
  <2>1. SubSeq(m, 1, n1) = SubSeq(m, 1, n2)
    OBVIOUS
  <2>2. Len(SubSeq(m, 1, n1)) = n1 /\ Len(SubSeq(m, 1, n2)) = n2
    BY <1>3
  <2> HIDE DEF S, f
  <2> QED
    BY <2>1, <2>2
<1>5. f \in Injection(S, DOMAIN c.mods)
  BY <1>2, <1>4 DEF Injection, IsInjective
<1>6. Cardinality(S) <= Cardinality(DOMAIN c.mods)
  <2> HIDE DEF S, f
  <2> QED
    BY <1>1, <1>5, FS_Injection
<1>7. Len(m) \in Nat
  BY <1>1
<1>8. Cardinality(S) = Len(m)
  <2>1. 1 \in Int /\ Len(m) \in Int
    BY <1>7
  <2>2. Cardinality(1 .. Len(m)) = IF 1 > Len(m) THEN 0 ELSE Len(m) - 1 + 1
    BY <2>1, FS_Interval, Zenon
  <2> QED
    BY <1>7, <2>2, SMT
<1> QED
  BY <1>6, <1>8

\* Numbers of mods are numbers.
LEMMA ModsAreFinite ==
    ASSUME NEW c \in Crates
    PROVE  /\ IsFiniteSet(DOMAIN c.mods)
           /\ Cardinality(DOMAIN c.mods) \in Nat
           /\ Cardinality(DOMAIN c.mods) > 0
           /\ \A m \in DOMAIN c.mods : Len(m) \in Nat
<1>1. WellFormed(c)
  BY CratesAssumption
<1>2. IsFiniteSet(DOMAIN c.mods) /\ c.name \in DOMAIN c.mods /\ Len(c.name) = 1
      /\ \A m \in DOMAIN c.mods : Len(m) \in Nat
  BY <1>1 DEF WellFormed, Paths
<1>3. Cardinality(DOMAIN c.mods) \in Nat
  BY <1>2, FS_CardinalityType
<1>4. 1 <= Cardinality(DOMAIN c.mods)
  BY <1>2, DepthBounded
<1> QED
  BY <1>2, <1>3, <1>4

\* The passes come as far as Progress says.
LEMMA NextProgress ==
    ASSUME VisibilityInv, Progress, [Next]_vars
    PROVE  Progress'
<1> DEFINE mods == DOMAIN crate_.mods
<1> USE DEF Progress, AllModsResolved
<1>1. crate_ \in Crates /\ crate_' = crate_ /\ N' = N
  BY DEF VisibilityInv, MapsOK, Next, vars, N, add_one_mod, get_invisible_mods,
         start_pass, look_at_mod, end_pass, filter_start, filter_function,
         filter_end, Terminated
<1>2. N \in Nat /\ N > 0 /\ N = Cardinality(mods)
      /\ IsFiniteSet(mods) /\ \A m \in mods : Len(m) \in Nat /\ Len(m) <= N
  BY <1>1, ModsAreFinite, DepthBounded DEF N
<1>3. DOMAIN new_mod_visibility \subseteq mods /\ todo \subseteq mods
      /\ (pc # "walk" => crate_.name \in DOMAIN new_mod_visibility)
  BY DEF VisibilityInv, MapsOK
<1> HIDE DEF N
<1>4. CASE add_one_mod
  <2>1. PICK m \in to_walk :
          /\ inner' = Insert(inner, m, crate_.mods[m])
          /\ to_walk' = to_walk \ {m}
    BY <1>4 DEF add_one_mod
  <2>2. DOMAIN inner' = DOMAIN inner \cup {m}
    BY <2>1 DEF Insert
  <2>3. m \in mods
    BY DEF VisibilityInv, MapsOK
  <2> QED
    BY <1>1, <1>4, <2>1, <2>2, <2>3 DEF add_one_mod
<1>5. CASE get_invisible_mods
  <2>1. DOMAIN inner = mods /\ passes_left' = N /\ pc' = "pass"
    BY <1>2, <1>5 DEF get_invisible_mods
  <2>2. crate_.name \in DOMAIN new_mod_visibility'
    BY <1>5 DEF get_invisible_mods, Insert
  <2>3. \A m \in mods : Len(m) <= 1 => m = crate_.name
    BY <1>1, <1>2, ModHasParent
  <2>4. inner' = inner /\ N' - passes_left' + 1 = 1 /\ passes_left' \in 0 .. N'
        /\ passes_left' > 0
    BY <1>1, <1>2, <1>5, <2>1 DEF get_invisible_mods
  <2>5. \A m \in mods : Len(m) <= N' - passes_left' + 1
                        => m \in DOMAIN new_mod_visibility'
    BY <2>2, <2>3, <2>4
  <2> QED
    BY <1>1, <2>1, <2>4, <2>5
<1>6. CASE start_pass
  <2>1. /\ pc = "pass" /\ pc' = "mods" /\ todo' = mods
        /\ passes_left' = passes_left - 1
        /\ UNCHANGED <<new_mod_visibility, inner>>
    BY <1>6 DEF start_pass
  <2>2. passes_left' \in 0 .. N /\ N - passes_left' = N - passes_left + 1
    BY <1>2, <2>1
  <2> QED
    BY <1>1, <2>1, <2>2
<1>7. CASE \E m \in todo : look_at_mod(m)
  <2>1. PICK m \in todo : look_at_mod(m)
    BY <1>7
  <2>2. /\ pc = "mods" /\ pc' = "mods" /\ todo' = todo \ {m}
        /\ UNCHANGED <<passes_left, inner>>
        /\ DOMAIN new_mod_visibility \subseteq DOMAIN new_mod_visibility'
    BY <2>1 DEF look_at_mod, Insert
  <2>3. ASSUME Len(m) <= N - passes_left + 1
        PROVE  m \in DOMAIN new_mod_visibility'
    <3> DEFINE p == get_parent_mod_name(m)
    <3>1. CASE m = crate_.name
      BY <1>3, <2>2, <3>1
    <3>2. CASE m # crate_.name
      <4>1. m \in Paths /\ Len(m) > 1 /\ m \in mods
        BY <1>1, <1>3, <3>2, ModHasParent
      <4>2. Len(m) - 1 \in 1 .. Len(m)
        BY <1>2, <4>1
      <4>3. p \in mods
        BY <1>1, <4>1, <4>2, CratesAssumption DEF WellFormed, get_parent_mod_name
      <4>4. Len(p) = Len(m) - 1
        BY <4>1 DEF Paths, get_parent_mod_name
      <4>5. Len(p) <= N - passes_left
        BY <1>2, <2>2, <2>3, <4>1, <4>4
      <4>6. p \in DOMAIN new_mod_visibility
        BY <2>2, <4>3, <4>5
      <4> QED
        BY <2>1, <4>6 DEF look_at_mod, Insert
    <3> QED
      BY <3>1, <3>2
  <2>4. \A k \in mods :
           \/ Len(k) <= N - passes_left
           \/ k \notin todo' /\ Len(k) <= N - passes_left + 1
           => k \in DOMAIN new_mod_visibility'
    BY <2>2, <2>3
  <2> QED
    BY <1>1, <2>2, <2>4
<1>8. CASE end_pass
  <2>1. /\ pc = "mods" /\ todo = {}
        /\ pc' = IF AllResolvedByCount \/ passes_left = 0
                 THEN "resolved" ELSE "pass"
        /\ UNCHANGED <<inner, new_mod_visibility, passes_left>>
    BY <1>8 DEF end_pass
  <2>2. \A m \in mods :
          Len(m) <= N - passes_left + 1 => m \in DOMAIN new_mod_visibility
    BY <2>1
  <2>3. CASE AllResolvedByCount
    <3>1. DOMAIN new_mod_visibility = mods
      BY <1>2, <1>3, <2>1, <2>3, FS_Subset DEF AllResolvedByCount
    <3> QED
      BY <1>1, <2>1, <2>3, <3>1
  <2>4. CASE passes_left = 0
    <3>1. \A m \in mods : Len(m) <= N - passes_left + 1
      BY <1>2, <2>4
    <3>2. DOMAIN new_mod_visibility = mods
      BY <1>3, <2>2, <3>1
    <3> QED
      BY <1>1, <2>1, <2>4, <3>2
  <2>5. CASE ~AllResolvedByCount /\ passes_left # 0
    <3>1. pc' = "pass" /\ passes_left > 0
      BY <1>2, <2>1, <2>5
    <3> QED
      BY <1>1, <2>1, <2>2, <3>1
  <2> QED
    BY <2>3, <2>4, <2>5
<1>9. CASE filter_start \/ filter_function \/ filter_end
  BY <1>1, <1>9 DEF filter_start, filter_function, filter_end
<1>10. CASE UNCHANGED vars
  BY <1>1, <1>10 DEF vars
<1> QED
  BY <1>4, <1>5, <1>6, <1>7, <1>8, <1>9, <1>10 DEF Next, Terminated

\* The bounded number of passes over the HashMap, and leaving them when the
\* counts agree, always leaves get_invisible_mods with every mod resolved.
THEOREM AllModsAreResolved == Spec => []AllModsResolved
<1>1. Init => Inv2
  <2> SUFFICES ASSUME Init PROVE Progress
    BY InitVisibility DEF Inv2
  <2> QED
    BY DEF Init, Progress, AllModsResolved
<1>2. Inv2 /\ [Next]_vars => Inv2'
  BY NextVisibility, NextProgress DEF Inv2
<1>3. Inv2 => AllModsResolved
  BY DEF Inv2, Progress
<1> QED
  BY <1>1, <1>2, <1>3, PTL DEF Spec

-----------------------------------------------------------------------------
\* A path below a mod begins with its name.
LEMMA BelowStartsWith ==
    ASSUME NEW path \in Paths, NEW m \in Paths, IsBelow(path, m)
    PROVE  starts_with(path, m)
<1>1. path \in Seq(Segments) /\ m \in Seq(Segments)
      /\ Len(m) \in Nat /\ Len(path) \in Nat /\ Len(m) > 0
      /\ Len(m) < Len(path) /\ SubSeq(path, 1, Len(m)) = m
  BY DEF Paths, IsBelow
<1>2. \A n \in 1 .. Len(m) : SubSeq(path, 1, Len(m))[n] = path[n]
  BY <1>1
<1>3. \A n \in 1 .. Len(m) : m[n] = path[n] /\ m[n] \in Segments
  BY <1>1, <1>2
<1>4. Begins(path[Len(m)], m[Len(m)])
  BY <1>1, <1>3, BeginsAssumption
<1> QED
  BY <1>1, <1>3, <1>4 DEF starts_with

\* What does not begin with the name of an invisible mod can be named.
LEMMA VisibleCanBeNamed ==
    ASSUME VisibilityInv, DOMAIN new_mod_visibility = DOMAIN crate_.mods,
           NEW path \in Paths,
           \A m \in invisible_mods : ~starts_with(path, m)
    PROVE  CanBeNamed(path)
<1> SUFFICES ASSUME NEW m \in DOMAIN crate_.mods, IsBelow(path, m)
             PROVE  Visible(m)
  BY DEF CanBeNamed
<1>1. m \in Paths
  BY ModHasParent DEF VisibilityInv, MapsOK
<1>2. starts_with(path, m)
  BY <1>1, BelowStartsWith
<1>3. new_mod_visibility[m]
  BY <1>2 DEF invisible_mods
<1> QED
  BY <1>3, Zenon DEF VisibilityInv, VisibilityExact

\* Filtering keeps what it kept and adds what can be named.
LEMMA NextFilter ==
    ASSUME Inv2, FilterInv, [Next]_vars
    PROVE  FilterInv'
<1>1. crate_ \in Crates /\ crate_' = crate_
  BY DEF Inv2, VisibilityInv, MapsOK, Next, vars, add_one_mod,
         get_invisible_mods, start_pass, look_at_mod, end_pass, filter_start,
         filter_function, filter_end, Terminated
<1> DEFINE Named(fn) == /\ CanBeNamed(fn.full_name)
                        /\ fn.trait # NoTrait => CanBeNamed(fn.trait)
<1>2. \A j \in DOMAIN new_api_functions : Named(new_api_functions[j])
  BY DEF FilterInv, KeptCanBeNamed
<1>3. ASSUME new_api_functions' \in Seq(ApiFunctions),
             \A j \in DOMAIN new_api_functions' : Named(new_api_functions'[j])
      PROVE  KeptCanBeNamed'
  <2>1. \A path : CanBeNamed(path) => CanBeNamed(path)'
    BY <1>1 DEF CanBeNamed, Visible
  <2> QED
    BY <1>3, <2>1 DEF KeptCanBeNamed
<1>4. CASE filter_function
  <2> DEFINE fn == Head(rest)
  <2>1. pc = "filter" /\ rest # <<>> /\ rest' = Tail(rest)
        /\ new_api_functions' = IF invisible_flag(fn) THEN new_api_functions
                                ELSE Append(new_api_functions, fn)
    BY <1>4 DEF filter_function
  <2>2. fn \in ApiFunctions /\ rest' \in Seq(ApiFunctions)
        /\ new_api_functions \in Seq(ApiFunctions)
    BY <2>1 DEF FilterInv
  <2>3. CASE invisible_flag(fn)
    BY <1>2, <1>3, <2>1, <2>2, <2>3 DEF FilterInv
  <2>4. CASE ~invisible_flag(fn)
    <3>1. DOMAIN new_mod_visibility = DOMAIN crate_.mods
      BY <2>1 DEF Inv2, Progress, AllModsResolved
    <3>2. fn.full_name \in Paths /\ (fn.trait # NoTrait => fn.trait \in Paths)
      BY <2>2 DEF ApiFunctions
    <3>3. Named(fn)
      BY <2>4, <3>1, <3>2, VisibleCanBeNamed DEF Inv2, invisible_flag
    <3>4. new_api_functions' \in Seq(ApiFunctions)
          /\ \A j \in DOMAIN new_api_functions' :
                \/ j \in DOMAIN new_api_functions
                   /\ new_api_functions'[j] = new_api_functions[j]
                \/ new_api_functions'[j] = fn
      <4> HIDE DEF fn
      <4> QED
        BY <2>1, <2>2, <2>4
    <3>5. \A j \in DOMAIN new_api_functions' : Named(new_api_functions'[j])
      <4> HIDE DEF Named, fn
      <4> QED
        BY <1>2, <3>3, <3>4
    <3> QED
      BY <1>3, <2>2, <3>4, <3>5 DEF FilterInv
  <2> QED
    BY <2>3, <2>4
<1>5. CASE filter_start
  <2>1. crate_.functions \in Seq(ApiFunctions)
    BY <1>1, CratesAssumption DEF WellFormed
  <2>2. rest' = crate_.functions /\ new_api_functions' = new_api_functions
    BY <1>5 DEF filter_start
  <2> QED
    BY <1>2, <1>3, <2>1, <2>2 DEF FilterInv
<1>6. CASE UNCHANGED <<rest, new_api_functions>>
  BY <1>2, <1>3, <1>6 DEF FilterInv
<1> QED
  BY <1>4, <1>5, <1>6 DEF Next, vars, Terminated, add_one_mod,
     get_invisible_mods, start_pass, look_at_mod, end_pass, filter_end

\* No function below a private mod, and no method of a trait below one,
\* survives filter_api_functions_by_mod_visibility.
THEOREM KeptFunctionsCanBeNamed == Spec => []KeptCanBeNamed
<1>1. Init => Inv2 /\ FilterInv
  <2> SUFFICES ASSUME Init PROVE Progress /\ FilterInv
    BY InitVisibility DEF Inv2
  <2> QED
    BY DEF Init, Progress, AllModsResolved, FilterInv, KeptCanBeNamed
<1>2. Inv2 /\ FilterInv /\ [Next]_vars => (Inv2 /\ FilterInv)'
  BY NextVisibility, NextProgress, NextFilter DEF Inv2
<1>3. FilterInv => KeptCanBeNamed
  BY DEF FilterInv
<1> QED
  BY <1>1, <1>2, <1>3, PTL DEF Spec

-----------------------------------------------------------------------------
\* A path that begins with the name of a mod is below it or looks like it.
LEMMA StartsWithIsBelow ==
    ASSUME NEW path \in Paths, NEW m \in Paths, starts_with(path, m)
    PROVE  IsBelow(path, m) \/ LooksBelow(path, m)
<1> DEFINE k == Len(m) - 1
<1>1. /\ path \in Seq(Segments) /\ m \in Seq(Segments)
      /\ Len(m) \in Nat /\ Len(path) \in Nat /\ Len(m) > 0
      /\ Len(m) <= Len(path)
      /\ \A n \in 1 .. k : path[n] = m[n]
      /\ Begins(path[Len(m)], m[Len(m)])
  BY DEF Paths, starts_with
<1>2. k \in Nat /\ k <= Len(m) /\ k <= Len(path)
  BY <1>1
<1>3. /\ SubSeq(m, 1, k) \in Seq(Segments) /\ Len(SubSeq(m, 1, k)) = k
      /\ SubSeq(path, 1, k) \in Seq(Segments) /\ Len(SubSeq(path, 1, k)) = k
      /\ \A n \in 1 .. k : /\ SubSeq(m, 1, k)[n] = m[n]
                           /\ SubSeq(path, 1, k)[n] = path[n]
  <2> HIDE DEF k
  <2> QED BY <1>1, <1>2
<1>4. SubSeq(m, 1, k) = SubSeq(path, 1, k)
  <2> HIDE DEF k
  <2> QED BY <1>1, <1>3, SeqEqual
<1> QED BY <1>1, <1>4 DEF LooksBelow, get_parent_mod_name

\* A function that is not kept yet is still to be looked at, or an invisible
\* mod speaks against it.
InRest(fn) == \E j \in DOMAIN rest : rest[j] = fn

LossInv ==
    pc \in {"filter", "done"} =>
      \A i \in DOMAIN crate_.functions :
         LET fn == crate_.functions[i] IN
         Kept(fn) \/ invisible_flag(fn) \/ (pc = "filter" /\ InRest(fn))

\* Each function is looked at, and what is kept stays.
LEMMA NextLoss ==
    ASSUME Inv2, FilterInv, LossInv, [Next]_vars
    PROVE  LossInv'
<1>1. CASE filter_function
  <2>0. PICK first : first = Head(rest)
    OBVIOUS
  <2>1. /\ pc = "filter" /\ rest # <<>> /\ rest' = Tail(rest)
        /\ UNCHANGED <<pc, crate_, new_mod_visibility>>
        /\ new_api_functions' = IF invisible_flag(first) THEN new_api_functions
                                ELSE Append(new_api_functions, first)
    BY <1>1, <2>0 DEF filter_function
  <2>2. /\ rest \in Seq(ApiFunctions) /\ rest' \in Seq(ApiFunctions)
        /\ new_api_functions \in Seq(ApiFunctions) /\ first \in ApiFunctions
    BY <2>0, <2>1 DEF FilterInv
  <2>3. \A fn : InRest(fn) => fn = first \/ InRest(fn)'
    <3>1. \A j \in DOMAIN rest : j = 1 \/ (j - 1 \in DOMAIN Tail(rest)
                                            /\ Tail(rest)[j - 1] = rest[j])
      BY <2>1, <2>2
    <3>2. rest[1] = first
      BY <2>0, <2>1, <2>2
    <3> QED BY <2>1, <3>1, <3>2 DEF InRest
  <2>4. \A fn : Kept(fn) => Kept(fn)'
    <3>1. \A j \in DOMAIN new_api_functions :
            /\ j \in DOMAIN new_api_functions'
            /\ new_api_functions'[j] = new_api_functions[j]
      BY <2>1, <2>2
    <3> QED BY <3>1 DEF Kept
  <2>5. invisible_flag(first) \/ Kept(first)'
    <3>1. CASE ~invisible_flag(first)
      <4>1. \E k \in DOMAIN new_api_functions' : new_api_functions'[k] = first
        <5>1. new_api_functions' = Append(new_api_functions, first)
          BY <2>1, <3>1
        <5>2. /\ Len(new_api_functions) + 1 \in DOMAIN new_api_functions'
              /\ new_api_functions'[Len(new_api_functions) + 1] = first
          BY <2>2, <5>1
        <5> QED BY <5>2
      <4> QED BY <4>1 DEF Kept
    <3> QED BY <3>1
  <2>6. \A fn : invisible_flag(fn)' = invisible_flag(fn)
    BY <2>1 DEF invisible_flag, invisible_mods
  <2> QED BY <2>1, <2>3, <2>4, <2>5, <2>6 DEF LossInv
<1>2. CASE filter_start
  <2>1. rest' = crate_.functions /\ UNCHANGED crate_ /\ pc' = "filter"
    BY <1>2 DEF filter_start
  <2> QED BY <2>1 DEF LossInv, InRest
<1>3. CASE filter_end
  <2>1. /\ rest = <<>> /\ pc = "filter" /\ pc' = "done"
        /\ UNCHANGED <<crate_, new_mod_visibility, new_api_functions>>
    BY <1>3 DEF filter_end
  <2>2. \A fn : ~InRest(fn)
    BY <2>1 DEF InRest
  <2>3. \A fn : /\ invisible_flag(fn)' = invisible_flag(fn)
                /\ Kept(fn)' = Kept(fn)
    BY <2>1 DEF invisible_flag, invisible_mods, Kept
  <2> QED BY <2>1, <2>2, <2>3 DEF LossInv
<1>4. CASE UNCHANGED vars
  <2>1. \A fn : /\ invisible_flag(fn)' = invisible_flag(fn)
                /\ Kept(fn)' = Kept(fn) /\ InRest(fn)' = InRest(fn)
    BY <1>4 DEF vars, invisible_flag, invisible_mods, Kept, InRest
  <2> QED BY <1>4, <2>1 DEF LossInv, vars
<1>5. CASE \/ add_one_mod \/ get_invisible_mods \/ start_pass \/ end_pass
           \/ \E m \in todo : look_at_mod(m)
  <2>1. pc' \notin {"filter", "done"}
    BY <1>5 DEF add_one_mod, get_invisible_mods, start_pass, end_pass,
                look_at_mod
  <2> QED BY <2>1 DEF LossInv
<1> QED BY <1>1, <1>2, <1>3, <1>4, <1>5 DEF Next, Terminated

\* filter_api_functions_by_mod_visibility drops a function that can be named
\* only because starts_with takes its name for one below an invisible mod.
THEOREM OnlyPrefixesAreLost == Spec => []LostToPrefixOnly
<1>1. Init => Inv2 /\ FilterInv /\ LossInv
  <2> SUFFICES ASSUME Init PROVE Progress /\ FilterInv /\ LossInv
    BY InitVisibility DEF Inv2
  <2> QED
    BY DEF Init, Progress, AllModsResolved, FilterInv, KeptCanBeNamed, LossInv
<1>2. Inv2 /\ FilterInv /\ LossInv /\ [Next]_vars => (Inv2 /\ FilterInv /\ LossInv)'
  BY NextVisibility, NextProgress, NextFilter, NextLoss DEF Inv2
<1>3. ASSUME Inv2, LossInv PROVE LostToPrefixOnly
  <2> SUFFICES ASSUME pc = "done", NEW i \in DOMAIN crate_.functions,
                      ~Kept(crate_.functions[i])
               PROVE  LET fn == crate_.functions[i]
                          paths == {fn.full_name} \cup ({fn.trait} \ {NoTrait}) IN
                      \/ \E path \in paths : ~CanBeNamed(path)
                      \/ \E path \in paths, m \in DOMAIN crate_.mods :
                            ~Visible(m) /\ LooksBelow(path, m)
    BY DEF LostToPrefixOnly
  <2> DEFINE fn == crate_.functions[i]
             paths == {fn.full_name} \cup ({fn.trait} \ {NoTrait})
  <2>1. invisible_flag(fn)
    BY <1>3 DEF LossInv
  <2>2. fn \in ApiFunctions
    BY <1>3, CratesAssumption DEF Inv2, VisibilityInv, MapsOK, WellFormed
  <2>3. PICK m \in invisible_mods :
           \/ starts_with(fn.full_name, m)
           \/ fn.trait # NoTrait /\ starts_with(fn.trait, m)
    BY <2>1 DEF invisible_flag
  <2>4. m \in DOMAIN crate_.mods /\ m \in Paths
    BY <1>3, ModHasParent DEF invisible_mods, Inv2, VisibilityInv, MapsOK
  <2>5. ~Visible(m)
    BY <1>3, Zenon DEF invisible_mods, Inv2, VisibilityInv, VisibilityExact
  <2>6. PICK path \in paths : starts_with(path, m) /\ path \in Paths
    BY <2>2, <2>3 DEF ApiFunctions
  <2>7. IsBelow(path, m) \/ LooksBelow(path, m)
    BY <2>4, <2>6, StartsWithIsBelow
  <2> QED BY <2>4, <2>5, <2>6, <2>7 DEF CanBeNamed
<1> QED
  BY <1>1, <1>2, <1>3, PTL DEF Spec
=============================================================================
