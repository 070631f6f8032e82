------------------------ MODULE ApiGraphTargetProofs ------------------------
(***************************************************************************)
(* Every generated target is correct: the proof that TargetsCorrect is an  *)
(* invariant of ApiGraph.  A sequence changes in three ways: a call        *)
(* without arguments is put behind it, an argument is put behind those of  *)
(* the last call, another sequence is merged into it.  The first section   *)
(* says what each does to the places of the sequence, the second that each *)
(* keeps the sequence correct, the third applies this to the steps.        *)
(***************************************************************************)
EXTENDS ApiGraphProofs

-----------------------------------------------------------------------------
(* Places                                                                  *)

\* A place is a pair of a call and one of its parameters.
LEMMA PlaceFacts ==
    ASSUME NEW s
    PROVE  /\ \A c \in DOMAIN s.functions :
                \A k \in DOMAIN s.functions[c].params :
                   <<c, k>> \in ArgPlaces(s)
           /\ \A p \in ArgPlaces(s) :
                /\ p[1] \in DOMAIN s.functions
                /\ p[2] \in DOMAIN s.functions[p[1]].params
                /\ p = <<p[1], p[2]>>
<1>1. ASSUME NEW c \in DOMAIN s.functions,
             NEW k \in DOMAIN s.functions[c].params
      PROVE  <<c, k>> \in ArgPlaces(s)
  <2>1. k \in UNION {DOMAIN s.functions[d].params : d \in DOMAIN s.functions}
    OBVIOUS
  <2>2. <<c, k>> \in Places(s)
    BY <2>1 DEF Places
  <2> QED BY <2>2 DEF ArgPlaces
<1>2. ASSUME NEW p \in ArgPlaces(s)
      PROVE  /\ p[1] \in DOMAIN s.functions
             /\ p[2] \in DOMAIN s.functions[p[1]].params
             /\ p = <<p[1], p[2]>>
  <2>1. p \in Places(s) /\ p[2] \in DOMAIN s.functions[p[1]].params
    BY DEF ArgPlaces
  <2>2. PICK c \in DOMAIN s.functions,
             k \in UNION {DOMAIN s.functions[d].params : d \in DOMAIN s.functions} :
           p = <<c, k>>
    BY <2>1 DEF Places
  <2> QED BY <2>1, <2>2
<1> QED BY <1>1, <1>2

\* Place q of sequence t has the argument that place p of sequence s has, and
\* it is passed to a parameter of the same type.
SameAt(s, p, t, q) ==
    /\ Arg(t, q[1], q[2]) = Arg(s, p[1], p[2])
    /\ ArgType(t, q[1], q[2]) = ArgType(s, p[1], p[2])

\* The type of arguments.
LEMMA PlaceTypes ==
    ASSUME NEW s \in ApiSequences, NEW p \in ArgPlaces(s)
    PROVE  /\ p[1] \in 1 .. Len(s.functions)
           /\ p[2] \in Nat
           /\ Arg(s, p[1], p[2]) \in Params
<1>1. s.functions \in Seq(ApiCalls)
  BY SequenceFields
<1>2. p[1] \in DOMAIN s.functions /\ p[2] \in DOMAIN s.functions[p[1]].params
  BY PlaceFacts
<1>3. s.functions[p[1]] \in ApiCalls
  BY <1>1, <1>2
<1>4. s.functions[p[1]].params \in Seq(Params)
  BY <1>3 DEF ApiCalls
<1> QED BY <1>1, <1>2, <1>4 DEF Arg

\* A call without arguments adds no place.
LEMMA NewCallPlaces ==
    ASSUME NEW s \in ApiSequences, NEW t, NEW f,
           t.functions = Append(s.functions, ApiCall(f))
    PROVE  /\ ArgPlaces(t) = ArgPlaces(s)
           /\ \A p \in ArgPlaces(s) : SameAt(s, p, t, p)
<1> DEFINE n == Len(s.functions)
<1>1. s.functions \in Seq(ApiCalls) /\ n \in Nat
  BY SequenceFields
<1>2. /\ DOMAIN t.functions = 1 .. n + 1
      /\ DOMAIN s.functions = 1 .. n
      /\ \A i \in 1 .. n : t.functions[i] = s.functions[i]
      /\ t.functions[n + 1].params = <<>>
  BY <1>1 DEF ApiCall
<1> HIDE DEF n
<1>3. ASSUME NEW p \in ArgPlaces(s) PROVE p \in ArgPlaces(t) /\ SameAt(s, p, t, p)
  <2>1. p[1] \in 1 .. n /\ p[2] \in DOMAIN s.functions[p[1]].params
        /\ p = <<p[1], p[2]>>
    BY <1>2, PlaceFacts
  <2>2. t.functions[p[1]] = s.functions[p[1]] /\ p[1] \in DOMAIN t.functions
    BY <1>1, <1>2, <2>1
  <2>3. p \in ArgPlaces(t)
    BY <2>1, <2>2, PlaceFacts
  <2> QED BY <2>2, <2>3 DEF SameAt, Arg, ArgType
<1>4. ASSUME NEW p \in ArgPlaces(t) PROVE p \in ArgPlaces(s)
  <2>1. p[1] \in 1 .. n + 1 /\ p[2] \in DOMAIN t.functions[p[1]].params
        /\ p = <<p[1], p[2]>>
    BY <1>2, PlaceFacts
  <2>2. p[1] # n + 1
    BY <1>2, <2>1
  <2>3. p[1] \in 1 .. n
    BY <1>1, <2>1, <2>2
  <2>4. p[1] \in DOMAIN s.functions /\ p[2] \in DOMAIN s.functions[p[1]].params
    BY <1>2, <2>1, <2>3
  <2> QED BY <2>1, <2>4, PlaceFacts
<1> QED BY <1>3, <1>4

\* x is a new last place of t, and the others are those of s.
NewPlace(s, t, x) ==
    /\ ArgPlaces(t) = ArgPlaces(s) \cup {x}
    /\ \A p \in ArgPlaces(s) : /\ SameAt(s, p, t, p)
                               /\ p # x
                               /\ Before(p, x)
                               /\ ~Before(x, p)
    /\ ~Before(x, x)

\* Sequence t has argument a of the last call, with function f, at a new place
\* <<n, k>> behind those of s.
ArgAdded(s, t, n, k, f, a) ==
    /\ NewPlace(s, t, <<n, k>>)
    /\ Arg(t, n, k) = a
    /\ ArgType(t, n, k) = InputsOf(f)[k]

\* An argument is put behind those of the last call.
LEMMA NewArgPlaces ==
    ASSUME NEW fs \in Seq(ApiCalls), NEW call \in ApiCalls, NEW a \in Params,
           NEW call2 \in ApiCalls, call2.func = call.func,
           call2.params = Append(call.params, a),
           NEW s, s.functions = Append(fs, call),
           NEW t, t.functions = Append(fs, call2)
    PROVE  ArgAdded(s, t, Len(fs) + 1, Len(call.params) + 1, call.func, a)
<1> DEFINE n == Len(fs) + 1
           k == Len(call.params) + 1
           x == <<n, k>>
<1>1. call.params \in Seq(Params)
  BY DEF ApiCalls
<1>2. /\ n \in Nat /\ k \in Nat
      /\ DOMAIN s.functions = 1 .. n /\ DOMAIN t.functions = 1 .. n
      /\ \A i \in 1 .. n - 1 : t.functions[i] = s.functions[i]
      /\ s.functions[n] = call /\ t.functions[n] = call2
      /\ DOMAIN call.params = 1 .. k - 1
      /\ DOMAIN call2.params = 1 .. k
      /\ \A i \in 1 .. k - 1 : call2.params[i] = call.params[i]
      /\ call2.params[k] = a
  BY <1>1
<1>3. \A i \in 1 .. n - 1 : s.functions[i] \in ApiCalls
  <2>1. \A i \in 1 .. n - 1 : s.functions[i] = fs[i] /\ i \in DOMAIN fs
    OBVIOUS
  <2> QED BY <2>1
<1> HIDE DEF n, k
<1>4. ASSUME NEW p \in ArgPlaces(s)
      PROVE  /\ p \in ArgPlaces(t)
             /\ SameAt(s, p, t, p)
             /\ p # x
             /\ Before(p, x)
             /\ ~Before(x, p)
  <2>1. p[1] \in 1 .. n /\ p[2] \in DOMAIN s.functions[p[1]].params
        /\ p = <<p[1], p[2]>>
    BY <1>2, PlaceFacts
  <2>2. CASE p[1] # n
    <3>1. p[1] \in 1 .. n - 1
      BY <1>2, <2>1, <2>2
    <3>2. t.functions[p[1]] = s.functions[p[1]]
      BY <1>2, <3>1
    <3>3. p \in ArgPlaces(t)
      BY <1>2, <2>1, <3>2, PlaceFacts
    <3>4. p[1] < n
      BY <1>2, <3>1
    <3> QED BY <1>2, <2>1, <2>2, <3>2, <3>3, <3>4
            DEF SameAt, Arg, ArgType, Before
  <2>3. CASE p[1] = n
    <3>1. p[2] \in 1 .. k - 1
      BY <1>2, <2>1, <2>3
    <3>2. p[2] \in DOMAIN t.functions[n].params
      BY <1>2, <3>1
    <3>3. p \in ArgPlaces(t)
      BY <1>2, <2>1, <2>3, <3>2, PlaceFacts
    <3>4. SameAt(s, p, t, p)
      BY <1>2, <2>3, <3>1 DEF SameAt, Arg, ArgType
    <3>5. p[2] < k /\ p[2] # k /\ ~(k < p[2]) /\ ~(n < n)
      BY <1>2, <3>1
    <3> QED BY <2>1, <2>3, <3>3, <3>4, <3>5 DEF Before
  <2> QED BY <2>2, <2>3
<1>5. x \in ArgPlaces(t)
  <2>1. n \in DOMAIN t.functions /\ k \in DOMAIN t.functions[n].params
    BY <1>2
  <2> QED BY <2>1, PlaceFacts
<1>6. ASSUME NEW p \in ArgPlaces(t) PROVE p \in ArgPlaces(s) \/ p = x
  <2>1. p[1] \in 1 .. n /\ p[2] \in DOMAIN t.functions[p[1]].params
        /\ p = <<p[1], p[2]>>
    BY <1>2, PlaceFacts
  <2>2. CASE p[1] # n
    <3>1. p[1] \in 1 .. n - 1
      BY <1>2, <2>1, <2>2
    <3>2. p[1] \in DOMAIN s.functions /\ p[2] \in DOMAIN s.functions[p[1]].params
      BY <1>2, <2>1, <3>1
    <3> QED BY <2>1, <3>2, PlaceFacts
  <2>3. CASE p[1] = n /\ p[2] # k
    <3>1. p[2] \in 1 .. k - 1
      BY <1>2, <2>1, <2>3
    <3>2. p[1] \in DOMAIN s.functions /\ p[2] \in DOMAIN s.functions[p[1]].params
      BY <1>2, <2>1, <2>3, <3>1
    <3> QED BY <2>1, <3>2, PlaceFacts
  <2> QED BY <2>1, <2>2, <2>3
<1>7. ~Before(x, x)
  BY <1>2 DEF Before
<1>8. NewPlace(s, t, x)
  BY <1>4, <1>5, <1>6, <1>7 DEF NewPlace
<1>9. Arg(t, n, k) = a /\ ArgType(t, n, k) = InputsOf(call.func)[k]
  BY <1>2 DEF Arg, ArgType
<1> QED BY <1>8, <1>9 DEF n, k, ArgAdded

\* Where place p of the other sequence is in a merged sequence.
Shifted(a, p) == <<Len(a.functions) + p[1], p[2]>>

\* Place q of t has the argument of place p of b, renumbered behind a.
ShiftedAt(a, b, p, t, q) ==
    /\ KindAt(t, q) = KindAt(b, p)
    /\ Arg(t, q[1], q[2]).call_type = Arg(b, p[1], p[2]).call_type
    /\ ArgType(t, q[1], q[2]) = ArgType(b, p[1], p[2])
    /\ IndexAt(t, q) = IndexAt(b, p) + (IF KindAt(b, p) = "fuzzable"
                                        THEN Len(a.fuzzable_params)
                                        ELSE Len(a.functions))

\* The places of a merged sequence are those of both, the other's behind.
MergedPlaces(a, b, t) ==
    /\ ArgPlaces(t) = ArgPlaces(a) \cup {Shifted(a, p) : p \in ArgPlaces(b)}
    /\ \A p \in ArgPlaces(a) : SameAt(a, p, t, p)
    /\ \A p \in ArgPlaces(b) : ShiftedAt(a, b, p, t, Shifted(a, p))
    /\ \A p \in ArgPlaces(a), q \in ArgPlaces(b) :
          /\ p[1] # Shifted(a, q)[1]
          /\ Before(p, Shifted(a, q))
          /\ ~Before(Shifted(a, q), p)
    /\ \A p, q \in ArgPlaces(b) :
          /\ Before(Shifted(a, p), Shifted(a, q)) <=> Before(p, q)
          /\ Shifted(a, p)[1] = Shifted(a, q)[1] <=> p[1] = q[1]
          /\ Shifted(a, p)[2] = p[2]

LEMMA MergePlaces ==
    ASSUME NEW a \in ApiSequences, NEW b \in ApiSequences
    PROVE  MergedPlaces(a, b, MergeAnother(a, b))
<1> DEFINE t  == MergeAnother(a, b)
           nf == Len(a.functions)
           nz == Len(a.fuzzable_params)
           m  == Len(b.functions)
<1>1. a.functions \in Seq(ApiCalls) /\ b.functions \in Seq(ApiCalls)
  BY SequenceFields
<1>2. /\ nf \in Nat /\ m \in Nat
      /\ DOMAIN a.functions = 1 .. nf /\ DOMAIN b.functions = 1 .. m
  BY <1>1
<1>3. /\ DOMAIN t.functions = 1 .. nf + m
      /\ \A i \in DOMAIN a.functions : t.functions[i] = a.functions[i]
      /\ \A i \in DOMAIN b.functions :
            /\ t.functions[nf + i] = ShiftCall(b.functions[i], nf, nz)
            /\ t.functions[nf + i].func = b.functions[i].func
  BY MergeFunctions, Zenon
<1>4. \A p : Shifted(a, p) = <<nf + p[1], p[2]>>
  BY DEF Shifted
<1> HIDE DEF t, nf, nz, m
<1>5. ASSUME NEW c \in 1 .. m
      PROVE  /\ DOMAIN t.functions[nf + c].params = DOMAIN b.functions[c].params
             /\ \A k \in DOMAIN b.functions[c].params :
                  LET p == b.functions[c].params[k]
                      q == t.functions[nf + c].params[k]
                  IN /\ q.kind = p.kind
                     /\ q.call_type = p.call_type
                     /\ q.index = p.index + (IF p.kind = "fuzzable"
                                             THEN nz ELSE nf)
  <2> DEFINE old == b.functions[c]
             new == t.functions[nf + c]
  <2>0. c \in DOMAIN b.functions
    BY <1>2
  <2>1. old \in ApiCalls /\ new = ShiftCall(old, nf, nz)
    <3>1. old \in ApiCalls
      BY <1>1, <2>0
    <3>2. new = ShiftCall(old, nf, nz)
      BY <1>3, <2>0
    <3> QED BY <3>1, <3>2
  <2>2. old.params \in Seq(Params)
    BY <2>1 DEF ApiCalls
  <2>3. new.params = [k \in DOMAIN old.params |->
             [old.params[k] EXCEPT !.index =
                 @ + (IF old.params[k].kind = "fuzzable" THEN nz ELSE nf)]]
    BY <2>1 DEF ShiftCall, ApiCalls
  <2> HIDE DEF old, new
  <2>4. /\ DOMAIN new.params = DOMAIN old.params
        /\ \A k \in DOMAIN old.params :
             new.params[k] =
               [old.params[k] EXCEPT !.index =
                  @ + (IF old.params[k].kind = "fuzzable" THEN nz ELSE nf)]
    BY <2>3, Zenon
  <2>5. \A k \in DOMAIN old.params :
            /\ new.params[k].kind = old.params[k].kind
            /\ new.params[k].call_type = old.params[k].call_type
            /\ new.params[k].index = old.params[k].index
                  + (IF old.params[k].kind = "fuzzable" THEN nz ELSE nf)
    <3> SUFFICES ASSUME NEW k \in DOMAIN old.params
                 PROVE  /\ new.params[k].kind = old.params[k].kind
                        /\ new.params[k].call_type = old.params[k].call_type
                        /\ new.params[k].index = old.params[k].index
                              + (IF old.params[k].kind = "fuzzable" THEN nz ELSE nf)
      OBVIOUS
    <3>1. old.params[k] \in Params
      BY <2>2
    <3> DEFINE p == old.params[k]
               q == new.params[k]
               d == IF p.kind = "fuzzable" THEN nz ELSE nf
    <3>2. p \in Params /\ q = [p EXCEPT !.index = @ + d]
      BY <2>4, <3>1
    <3> HIDE DEF p, q, d
    <3>3. q.kind = p.kind /\ q.call_type = p.call_type /\ q.index = p.index + d
      BY <3>2 DEF Params
    <3> QED BY <3>3 DEF p, q, d
  <2> QED BY <2>4, <2>5 DEF old, new
<1>6. ASSUME NEW p \in ArgPlaces(a) PROVE p \in ArgPlaces(t) /\ SameAt(a, p, t, p)
  <2>1. p[1] \in 1 .. nf /\ p[2] \in DOMAIN a.functions[p[1]].params
        /\ p = <<p[1], p[2]>>
    BY <1>2, PlaceFacts
  <2>2. t.functions[p[1]] = a.functions[p[1]] /\ p[1] \in DOMAIN t.functions
    BY <1>2, <1>3, <2>1
  <2>3. p \in ArgPlaces(t)
    BY <2>1, <2>2, PlaceFacts
  <2> QED BY <2>2, <2>3 DEF SameAt, Arg, ArgType
<1>7. ASSUME NEW p \in ArgPlaces(b)
      PROVE  /\ Shifted(a, p) \in ArgPlaces(t)
             /\ ShiftedAt(a, b, p, t, Shifted(a, p))
  <2>1. p[1] \in 1 .. m /\ p[2] \in DOMAIN b.functions[p[1]].params
    BY <1>2, PlaceFacts
  <2>2. nf + p[1] \in DOMAIN t.functions
    BY <1>2, <1>3, <2>1
  <2>3. p[2] \in DOMAIN t.functions[nf + p[1]].params
    BY <1>5, <2>1
  <2>4. Shifted(a, p) \in ArgPlaces(t)
    BY <1>4, <2>2, <2>3, PlaceFacts
  <2>5. t.functions[nf + p[1]].func = b.functions[p[1]].func
    BY <1>2, <1>3, <2>1
  <2>6. LET u == b.functions[p[1]].params[p[2]]
            v == t.functions[nf + p[1]].params[p[2]]
        IN /\ v.kind = u.kind
           /\ v.call_type = u.call_type
           /\ v.index = u.index + (IF u.kind = "fuzzable" THEN nz ELSE nf)
    BY <1>5, <2>1
  <2>7. Shifted(a, p)[1] = nf + p[1] /\ Shifted(a, p)[2] = p[2]
    BY <1>4
  <2>8. ShiftedAt(a, b, p, t, Shifted(a, p))
    BY <2>5, <2>6, <2>7 DEF ShiftedAt, KindAt, IndexAt, Arg, ArgType, nf, nz
  <2> QED BY <2>4, <2>8
<1>8. ASSUME NEW p \in ArgPlaces(t)
      PROVE  p \in ArgPlaces(a) \/ \E q \in ArgPlaces(b) : p = Shifted(a, q)
  <2>1. p[1] \in 1 .. nf + m /\ p[2] \in DOMAIN t.functions[p[1]].params
        /\ p = <<p[1], p[2]>>
    BY <1>3, PlaceFacts
  <2>2. CASE p[1] <= nf
    <3>1. p[1] \in DOMAIN a.functions /\ p[2] \in DOMAIN a.functions[p[1]].params
      BY <1>2, <1>3, <2>1, <2>2
    <3> QED BY <2>1, <3>1, PlaceFacts
  <2>3. CASE ~(p[1] <= nf)
    <3> DEFINE c == p[1] - nf
    <3>1. c \in 1 .. m /\ nf + c = p[1]
      BY <1>2, <2>1, <2>3
    <3> HIDE DEF c
    <3>2. p[2] \in DOMAIN b.functions[c].params
      BY <1>5, <2>1, <3>1
    <3>3. <<c, p[2]>> \in ArgPlaces(b)
      BY <1>2, <3>1, <3>2, PlaceFacts
    <3>4. p = Shifted(a, <<c, p[2]>>)
      BY <1>4, <2>1, <3>1
    <3> QED BY <3>3, <3>4
  <2> QED BY <2>2, <2>3
<1>9. ASSUME NEW p \in ArgPlaces(a), NEW q \in ArgPlaces(b)
      PROVE  /\ p[1] # Shifted(a, q)[1]
             /\ Before(p, Shifted(a, q))
             /\ ~Before(Shifted(a, q), p)
  <2>1. p[1] \in 1 .. nf /\ q[1] \in 1 .. m
    BY <1>2, PlaceFacts
  <2>2. Shifted(a, q)[1] = nf + q[1]
    BY <1>4
  <2>3. p[1] < nf + q[1]
    BY <1>2, <2>1
  <2> QED BY <1>2, <2>1, <2>2, <2>3 DEF Before
<1>10. ASSUME NEW p \in ArgPlaces(b), NEW q \in ArgPlaces(b)
       PROVE  /\ Before(Shifted(a, p), Shifted(a, q)) <=> Before(p, q)
              /\ Shifted(a, p)[1] = Shifted(a, q)[1] <=> p[1] = q[1]
              /\ Shifted(a, p)[2] = p[2]
  <2>1. p[1] \in 1 .. m /\ q[1] \in 1 .. m
    BY <1>2, PlaceFacts
  <2>2. /\ Shifted(a, p)[1] = nf + p[1] /\ Shifted(a, p)[2] = p[2]
        /\ Shifted(a, q)[1] = nf + q[1] /\ Shifted(a, q)[2] = q[2]
    BY <1>4
  <2>3. /\ nf + p[1] < nf + q[1] <=> p[1] < q[1]
        /\ nf + p[1] = nf + q[1] <=> p[1] = q[1]
    BY <1>2, <2>1
  <2> QED BY <2>2, <2>3 DEF Before
<1>11. ArgPlaces(t) = ArgPlaces(a) \cup {Shifted(a, p) : p \in ArgPlaces(b)}
  BY <1>6, <1>7, <1>8
<1>12. MergedPlaces(a, b, t)
  BY <1>6, <1>7, <1>9, <1>10, <1>11 DEF MergedPlaces
<1> QED BY <1>12 DEF t

-----------------------------------------------------------------------------
(* Correct sequences                                                       *)

\* The same argument for the same type does the same to its value.
LEMMA SameFacts ==
    ASSUME NEW s, NEW p, NEW t, NEW q, SameAt(s, p, t, q)
    PROVE  /\ KindAt(t, q) = KindAt(s, p)
           /\ IndexAt(t, q) = IndexAt(s, p)
           /\ MovesAt(t, q) = MovesAt(s, p)
           /\ MutablyAt(t, q) = MutablyAt(s, p)
           /\ SharedAt(t, q) = SharedAt(s, p)
           /\ Arg(t, q[1], q[2]).call_type = Arg(s, p[1], p[2]).call_type
BY DEF SameAt, KindAt, IndexAt, MovesAt, MutablyAt, SharedAt

\* So does the renumbered one, to the renumbered value.
LEMMA ShiftedFacts ==
    ASSUME NEW a, NEW b, NEW p, NEW t, NEW q, ShiftedAt(a, b, p, t, q)
    PROVE  /\ KindAt(t, q) = KindAt(b, p)
           /\ MovesAt(t, q) = MovesAt(b, p)
           /\ MutablyAt(t, q) = MutablyAt(b, p)
           /\ SharedAt(t, q) = SharedAt(b, p)
           /\ Arg(t, q[1], q[2]).call_type = Arg(b, p[1], p[2]).call_type
           /\ KindAt(b, p) = "return" =>
                IndexAt(t, q) = IndexAt(b, p) + Len(a.functions)
           /\ KindAt(b, p) = "fuzzable" =>
                IndexAt(t, q) = IndexAt(b, p) + Len(a.fuzzable_params)
BY DEF ShiftedAt, KindAt, IndexAt, MovesAt, MutablyAt, SharedAt

\* The places with arguments of one kind.
LEMMA KindPlaces ==
    ASSUME NEW s, NEW p
    PROVE  /\ p \in ReturnPlaces(s)
                <=> p \in ArgPlaces(s) /\ KindAt(s, p) = "return"
           /\ p \in FuzzablePlaces(s)
                <=> p \in ArgPlaces(s) /\ KindAt(s, p) = "fuzzable"
BY DEF ReturnPlaces, FuzzablePlaces

\* Two sequences with the same arguments.
LEMMA SamePlacesCorrect ==
    ASSUME NEW s, NEW t, ArgPlaces(t) = ArgPlaces(s),
           \A p \in ArgPlaces(s) : SameAt(s, p, t, p)
    PROVE  /\ MovedOnce(s) /\ t.moved = s.moved => MovedOnce(t)
           /\ BorrowedOnce(s) => BorrowedOnce(t)
           /\ SlotsInOrder(s) /\ t.fuzzable_params = s.fuzzable_params
                => SlotsInOrder(t)
<1>1. ReturnPlaces(t) = ReturnPlaces(s) /\ FuzzablePlaces(t) = FuzzablePlaces(s)
  <2>1. \A p \in ArgPlaces(s) : KindAt(t, p) = KindAt(s, p)
    BY SameFacts
  <2> QED BY <2>1 DEF ReturnPlaces, FuzzablePlaces
<1>2. \A p \in ArgPlaces(s) :
         /\ IndexAt(t, p) = IndexAt(s, p)
         /\ MovesAt(t, p) = MovesAt(s, p)
         /\ MutablyAt(t, p) = MutablyAt(s, p)
         /\ SharedAt(t, p) = SharedAt(s, p)
  BY SameFacts
<1>3. \A p : p \in ReturnPlaces(s) \/ p \in FuzzablePlaces(s) => p \in ArgPlaces(s)
  BY KindPlaces
<1>4. {IndexAt(t, p) : p \in {q \in ReturnPlaces(t) : MovesAt(t, q)}}
        = {IndexAt(s, p) : p \in {q \in ReturnPlaces(s) : MovesAt(s, q)}}
  BY <1>1, <1>2, <1>3
<1>5. {IndexAt(t, p) : p \in FuzzablePlaces(t)}
        = {IndexAt(s, p) : p \in FuzzablePlaces(s)}
  BY <1>1, <1>2, <1>3
<1>6. MovedOnce(s) /\ t.moved = s.moved => MovedOnce(t)
  BY <1>1, <1>2, <1>3, <1>4 DEF MovedOnce
<1>7. BorrowedOnce(s) => BorrowedOnce(t)
  BY <1>1, <1>2, <1>3 DEF BorrowedOnce
<1>8. SlotsInOrder(s) /\ t.fuzzable_params = s.fuzzable_params => SlotsInOrder(t)
  BY <1>1, <1>2, <1>3, <1>5 DEF SlotsInOrder
<1> QED BY <1>6, <1>7, <1>8

\* What a new last argument changes.
LEMMA NewPlaceFacts ==
    ASSUME NEW s, NEW t, NEW x, NewPlace(s, t, x)
    PROVE  /\ \A p \in ArgPlaces(s) :
                /\ KindAt(t, p) = KindAt(s, p)
                /\ IndexAt(t, p) = IndexAt(s, p)
                /\ MovesAt(t, p) = MovesAt(s, p)
                /\ MutablyAt(t, p) = MutablyAt(s, p)
                /\ SharedAt(t, p) = SharedAt(s, p)
                /\ Arg(t, p[1], p[2]).call_type = Arg(s, p[1], p[2]).call_type
           /\ ReturnPlaces(t) = ReturnPlaces(s)
                \cup (IF KindAt(t, x) = "return" THEN {x} ELSE {})
           /\ FuzzablePlaces(t) = FuzzablePlaces(s)
                \cup (IF KindAt(t, x) = "fuzzable" THEN {x} ELSE {})
           /\ ReturnPlaces(s) \subseteq ArgPlaces(s)
           /\ FuzzablePlaces(s) \subseteq ArgPlaces(s)
<1>1. \A p \in ArgPlaces(s) : SameAt(s, p, t, p)
  BY DEF NewPlace
<1>2. ArgPlaces(t) = ArgPlaces(s) \cup {x}
  BY DEF NewPlace
<1>3. \A p \in ArgPlaces(s) :
         /\ KindAt(t, p) = KindAt(s, p)
         /\ IndexAt(t, p) = IndexAt(s, p)
         /\ MovesAt(t, p) = MovesAt(s, p)
         /\ MutablyAt(t, p) = MutablyAt(s, p)
         /\ SharedAt(t, p) = SharedAt(s, p)
         /\ Arg(t, p[1], p[2]).call_type = Arg(s, p[1], p[2]).call_type
  BY <1>1, SameFacts
<1>4. \A p : p \in ReturnPlaces(t)
               <=> p \in ReturnPlaces(s) \/ (p = x /\ KindAt(t, x) = "return")
  <2>1. x \notin ArgPlaces(s)
    BY DEF NewPlace
  <2> QED BY <1>2, <1>3, <2>1, KindPlaces
<1>5. \A p : p \in FuzzablePlaces(t)
               <=> p \in FuzzablePlaces(s) \/ (p = x /\ KindAt(t, x) = "fuzzable")
  <2>1. x \notin ArgPlaces(s)
    BY DEF NewPlace
  <2> QED BY <1>2, <1>3, <2>1, KindPlaces
<1> QED BY <1>3, <1>4, <1>5, KindPlaces

\* A new last argument takes no moved value, and is noted if it moves its own.
LEMMA NewPlaceMoved ==
    ASSUME NEW s, NEW t, NEW x, NewPlace(s, t, x), MovedOnce(s),
           KindAt(t, x) = "return" => IndexAt(t, x) \notin s.moved,
           t.moved = s.moved \cup (IF KindAt(t, x) = "return" /\ MovesAt(t, x)
                                   THEN {IndexAt(t, x)} ELSE {})
    PROVE  MovedOnce(t)
<1> DEFINE Old == {IndexAt(s, p) : p \in {q \in ReturnPlaces(s) : MovesAt(s, q)}}
           New == {IndexAt(t, p) : p \in {q \in ReturnPlaces(t) : MovesAt(t, q)}}
<1>1. s.moved = Old
  BY DEF MovedOnce
<1>2. New = Old \cup (IF KindAt(t, x) = "return" /\ MovesAt(t, x)
                      THEN {IndexAt(t, x)} ELSE {})
  BY NewPlaceFacts
<1>3. ASSUME NEW p \in ReturnPlaces(t), NEW q \in ReturnPlaces(t),
             MovesAt(t, p), IndexAt(t, p) = IndexAt(t, q)
      PROVE  ~Before(p, q)
  <2>1. CASE p \in ReturnPlaces(s) /\ q \in ReturnPlaces(s)
    BY <1>3, <2>1, NewPlaceFacts DEF MovedOnce
  <2>2. CASE p \in ReturnPlaces(s) /\ q = x /\ KindAt(t, x) = "return"
    <3>1. IndexAt(t, p) \in s.moved
      BY <1>1, <1>3, <2>2, NewPlaceFacts
    <3> QED BY <1>3, <2>2, <3>1
  <2>3. CASE p = x
    <3>1. q \in ArgPlaces(s) \/ q = x
      BY NewPlaceFacts
    <3> QED BY <2>3, <3>1 DEF NewPlace
  <2> QED BY <2>1, <2>2, <2>3, NewPlaceFacts
<1> HIDE DEF Old, New
<1>4. t.moved = New
  BY <1>1, <1>2
<1> QED BY <1>3, <1>4 DEF MovedOnce, New

\* A new last argument does not conflict with what its call borrows or moves.
LEMMA NewPlaceBorrowed ==
    ASSUME NEW s, NEW t, NEW x, NewPlace(s, t, x), BorrowedOnce(s),
           KindAt(t, x) = "return" =>
             \A p \in ReturnPlaces(s) :
                p[1] = x[1] /\ IndexAt(s, p) = IndexAt(t, x) =>
                  /\ MutablyAt(t, x) =>
                       ~(MovesAt(s, p) \/ MutablyAt(s, p) \/ SharedAt(s, p))
                  /\ MutablyAt(s, p) =>
                       ~(MovesAt(t, x) \/ MutablyAt(t, x) \/ SharedAt(t, x))
    PROVE  BorrowedOnce(t)
<1> SUFFICES ASSUME NEW p \in ReturnPlaces(t), NEW q \in ReturnPlaces(t),
                    p[1] = q[1], p[2] # q[2], IndexAt(t, p) = IndexAt(t, q),
                    MutablyAt(t, p)
             PROVE  ~(MovesAt(t, q) \/ MutablyAt(t, q) \/ SharedAt(t, q))
  BY DEF BorrowedOnce
<1>1. CASE p \in ReturnPlaces(s) /\ q \in ReturnPlaces(s)
  BY <1>1, NewPlaceFacts DEF BorrowedOnce
<1>2. CASE p \in ReturnPlaces(s) /\ q = x /\ KindAt(t, x) = "return"
  BY <1>2, NewPlaceFacts
<1>3. CASE p = x /\ KindAt(t, x) = "return" /\ q \in ReturnPlaces(s)
  BY <1>3, NewPlaceFacts
<1> QED BY <1>1, <1>2, <1>3, NewPlaceFacts

\* A new last argument gets the next slot.
LEMMA NewPlaceSlots ==
    ASSUME NEW s \in ApiSequences, NEW t, NEW x, NewPlace(s, t, x),
           SlotsInOrder(s),
           \/ /\ KindAt(t, x) = "fuzzable"
              /\ IndexAt(t, x) = Len(s.fuzzable_params) + 1
              /\ \E z : t.fuzzable_params = Append(s.fuzzable_params, z)
           \/ /\ KindAt(t, x) = "return"
              /\ t.fuzzable_params = s.fuzzable_params
    PROVE  SlotsInOrder(t)
<1> DEFINE n == Len(s.fuzzable_params)
           Old == {IndexAt(s, p) : p \in FuzzablePlaces(s)}
           New == {IndexAt(t, p) : p \in FuzzablePlaces(t)}
<1>1. s.fuzzable_params \in Seq(FuzzableTypes)
  BY SequenceFields
<1>2. n \in Nat /\ DOMAIN s.fuzzable_params = 1 .. n /\ Old = 1 .. n
  <2>1. Old = DOMAIN s.fuzzable_params
    BY DEF SlotsInOrder
  <2> HIDE DEF Old
  <2> QED BY <1>1, <2>1
<1>3. CASE KindAt(t, x) = "return"
  <2>1. FuzzablePlaces(t) = FuzzablePlaces(s)
    <3>1. FuzzablePlaces(t) = FuzzablePlaces(s)
            \cup (IF KindAt(t, x) = "fuzzable" THEN {x} ELSE {})
      BY NewPlaceFacts
    <3> QED BY <1>3, <3>1
  <2>2. New = Old
    BY <2>1, NewPlaceFacts
  <2>3. t.fuzzable_params = s.fuzzable_params
    BY <1>3
  <2> QED BY <2>1, <2>2, <2>3, NewPlaceFacts DEF SlotsInOrder
<1>4. CASE KindAt(t, x) = "fuzzable"
  <2>1. FuzzablePlaces(t) = FuzzablePlaces(s) \cup {x}
    BY <1>4, NewPlaceFacts
  <2>2. IndexAt(t, x) = n + 1 /\ DOMAIN t.fuzzable_params = 1 .. n + 1
    <3>1. PICK z : t.fuzzable_params = Append(s.fuzzable_params, z)
      BY <1>4
    <3> QED BY <1>1, <1>4, <3>1
  <2>3. New = Old \cup {n + 1}
    BY <2>1, <2>2, NewPlaceFacts
  <2>4. \A p \in FuzzablePlaces(s) : IndexAt(t, p) \in 1 .. n
    BY <1>2, NewPlaceFacts
  <2> HIDE DEF n, Old, New
  <2>5. New = DOMAIN t.fuzzable_params
    BY <1>2, <2>2, <2>3
  <2>6. ASSUME NEW p \in FuzzablePlaces(t), NEW q \in FuzzablePlaces(t),
               Before(p, q)
        PROVE  IndexAt(t, p) < IndexAt(t, q)
    <3>1. CASE p \in FuzzablePlaces(s) /\ q \in FuzzablePlaces(s)
      BY <2>6, <3>1, NewPlaceFacts DEF SlotsInOrder
    <3>2. CASE p \in FuzzablePlaces(s) /\ q = x
      BY <1>2, <2>2, <2>4, <3>2
    <3>3. CASE p = x
      <4>1. q \in ArgPlaces(s) \/ q = x
        BY <2>1, NewPlaceFacts
      <4> QED BY <2>6, <3>3, <4>1 DEF NewPlace
    <3> QED BY <2>1, <3>1, <3>2, <3>3
  <2> QED BY <2>5, <2>6 DEF SlotsInOrder, New
<1> QED BY <1>3, <1>4

\* The functions a sequence calls.
Called(s) == {s.functions[c].func : c \in DOMAIN s.functions}

\* TagsExact in terms of the functions that are called and the arguments.
LEMMA TagsOf ==
    ASSUME NEW s
    PROVE  TagsExact(s) <=>
             /\ s.function_mut_tag =
                  {IndexAt(s, p) : p \in {q \in ReturnPlaces(s) :
                                     NeedMutTag(Arg(s, q[1], q[2]).call_type)}}
             /\ s.fuzzable_mut_tag =
                  {IndexAt(s, p) : p \in {q \in FuzzablePlaces(s) :
                                     NeedMutTag(Arg(s, q[1], q[2]).call_type)}}
             /\ s.unsafe_tag <=>
                  \/ \E f \in Called(s) : api_functions[f].unsafe
                  \/ \E p \in ReturnPlaces(s) :
                       UnsafeCall(Arg(s, p[1], p[2]).call_type)
             /\ {s.using_traits[j] : j \in DOMAIN s.using_traits} =
                  {api_functions[f].trait : f \in Called(s)} \ {NoTrait}
<1>1. (\E c \in DOMAIN s.functions : api_functions[s.functions[c].func].unsafe)
        <=> (\E f \in Called(s) : api_functions[f].unsafe)
  BY DEF Called
<1>2. {api_functions[s.functions[c].func].trait : c \in DOMAIN s.functions}
        = {api_functions[f].trait : f \in Called(s)}
  BY DEF Called
<1> QED BY <1>1, <1>2, Zenon DEF TagsExact

\* Entering is_fun_satisfied notes what the called function itself needs.
LEMMA NewCallTags ==
    ASSUME NEW s \in ApiSequences, NEW t, NEW f, TagsExact(s),
           ArgPlaces(t) = ArgPlaces(s),
           \A p \in ArgPlaces(s) : SameAt(s, p, t, p),
           Called(t) = Called(s) \cup {f},
           t.function_mut_tag = s.function_mut_tag,
           t.fuzzable_mut_tag = s.fuzzable_mut_tag,
           t.unsafe_tag = (s.unsafe_tag \/ api_functions[f].unsafe),
           t.using_traits = IF api_functions[f].trait = NoTrait
                            THEN s.using_traits
                            ELSE Append(s.using_traits, api_functions[f].trait)
    PROVE  TagsExact(t)
<1>1. ReturnPlaces(t) = ReturnPlaces(s) /\ FuzzablePlaces(t) = FuzzablePlaces(s)
  <2>1. \A p \in ArgPlaces(s) : KindAt(t, p) = KindAt(s, p)
    BY SameFacts
  <2> QED BY <2>1 DEF ReturnPlaces, FuzzablePlaces
<1>2. \A p \in ArgPlaces(s) :
         /\ IndexAt(t, p) = IndexAt(s, p)
         /\ Arg(t, p[1], p[2]).call_type = Arg(s, p[1], p[2]).call_type
  BY SameFacts
<1>3. ReturnPlaces(s) \subseteq ArgPlaces(s) /\ FuzzablePlaces(s) \subseteq ArgPlaces(s)
  BY KindPlaces
<1>4. t.function_mut_tag =
        {IndexAt(t, p) : p \in {q \in ReturnPlaces(t) :
                           NeedMutTag(Arg(t, q[1], q[2]).call_type)}}
  BY <1>1, <1>2, <1>3 DEF TagsExact
<1>5. t.fuzzable_mut_tag =
        {IndexAt(t, p) : p \in {q \in FuzzablePlaces(t) :
                           NeedMutTag(Arg(t, q[1], q[2]).call_type)}}
  BY <1>1, <1>2, <1>3 DEF TagsExact
<1>6. t.unsafe_tag <=>
        \/ \E g \in Called(t) : api_functions[g].unsafe
        \/ \E p \in ReturnPlaces(t) : UnsafeCall(Arg(t, p[1], p[2]).call_type)
  <2>1. s.unsafe_tag <=>
          \/ \E g \in Called(s) : api_functions[g].unsafe
          \/ \E p \in ReturnPlaces(s) : UnsafeCall(Arg(s, p[1], p[2]).call_type)
    BY TagsOf
  <2>2. (\E p \in ReturnPlaces(t) : UnsafeCall(Arg(t, p[1], p[2]).call_type))
          <=> \E p \in ReturnPlaces(s) : UnsafeCall(Arg(s, p[1], p[2]).call_type)
    BY <1>1, <1>2, <1>3
  <2> QED BY <2>1, <2>2
<1>7. {t.using_traits[j] : j \in DOMAIN t.using_traits} =
        {api_functions[g].trait : g \in Called(t)} \ {NoTrait}
  <2>1. {s.using_traits[j] : j \in DOMAIN s.using_traits} =
          {api_functions[g].trait : g \in Called(s)} \ {NoTrait}
    BY TagsOf
  <2>2. s.using_traits \in Seq(Traits)
    BY SequenceFields
  <2>3. CASE api_functions[f].trait = NoTrait
    BY <2>1, <2>3
  <2>4. CASE api_functions[f].trait # NoTrait
    <3> DEFINE u == s.using_traits
               v == Append(u, api_functions[f].trait)
    <3>1. /\ DOMAIN v = DOMAIN u \cup {Len(u) + 1}
          /\ \A j \in DOMAIN u : v[j] = u[j]
          /\ v[Len(u) + 1] = api_functions[f].trait
      BY <2>2
    <3> HIDE DEF u, v
    <3>2. {v[j] : j \in DOMAIN v} = {u[j] : j \in DOMAIN u} \cup {api_functions[f].trait}
      BY <3>1
    <3>3. t.using_traits = v
      BY <2>4 DEF u, v
    <3>4. {api_functions[g].trait : g \in Called(t)} \ {NoTrait} =
            ({api_functions[g].trait : g \in Called(s)} \ {NoTrait})
              \cup {api_functions[f].trait}
      BY <2>4, Zenon
    <3>5. {u[j] : j \in DOMAIN u} = {api_functions[g].trait : g \in Called(s)} \ {NoTrait}
      BY <2>1 DEF u
    <3>6. {t.using_traits[j] : j \in DOMAIN t.using_traits} = {v[j] : j \in DOMAIN v}
      BY <3>3, Zenon
    <3> QED BY <3>2, <3>4, <3>5, <3>6
  <2> QED BY <2>3, <2>4
<1> QED BY <1>4, <1>5, <1>6, <1>7, TagsOf

\* A new last argument is noted if it needs a tag.
LEMMA NewPlaceTags ==
    ASSUME NEW s, NEW t, NEW x, NewPlace(s, t, x), TagsExact(s),
           KindAt(t, x) \in {"return", "fuzzable"},
           Called(t) = Called(s), t.using_traits = s.using_traits,
           NEW tag, tag = NeedMutTag(Arg(t, x[1], x[2]).call_type),
           t.function_mut_tag = s.function_mut_tag
             \cup (IF KindAt(t, x) = "return" /\ tag THEN {IndexAt(t, x)} ELSE {}),
           t.fuzzable_mut_tag = s.fuzzable_mut_tag
             \cup (IF KindAt(t, x) = "fuzzable" /\ tag THEN {IndexAt(t, x)} ELSE {}),
           t.unsafe_tag = (s.unsafe_tag
             \/ (KindAt(t, x) = "return" /\ UnsafeCall(Arg(t, x[1], x[2]).call_type)))
    PROVE  TagsExact(t)
<1>1. t.function_mut_tag =
        {IndexAt(t, p) : p \in {q \in ReturnPlaces(t) :
                           NeedMutTag(Arg(t, q[1], q[2]).call_type)}}
  <2>1. s.function_mut_tag =
        {IndexAt(s, p) : p \in {q \in ReturnPlaces(s) :
                           NeedMutTag(Arg(s, q[1], q[2]).call_type)}}
    BY DEF TagsExact
  <2> QED BY <2>1, NewPlaceFacts
<1>2. t.fuzzable_mut_tag =
        {IndexAt(t, p) : p \in {q \in FuzzablePlaces(t) :
                           NeedMutTag(Arg(t, q[1], q[2]).call_type)}}
  <2>1. s.fuzzable_mut_tag =
        {IndexAt(s, p) : p \in {q \in FuzzablePlaces(s) :
                           NeedMutTag(Arg(s, q[1], q[2]).call_type)}}
    BY DEF TagsExact
  <2> QED BY <2>1, NewPlaceFacts
<1>3. t.unsafe_tag <=>
        \/ \E g \in Called(t) : api_functions[g].unsafe
        \/ \E p \in ReturnPlaces(t) : UnsafeCall(Arg(t, p[1], p[2]).call_type)
  <2>1. s.unsafe_tag <=>
          \/ \E g \in Called(s) : api_functions[g].unsafe
          \/ \E p \in ReturnPlaces(s) : UnsafeCall(Arg(s, p[1], p[2]).call_type)
    BY TagsOf
  <2>2. (\E p \in ReturnPlaces(t) : UnsafeCall(Arg(t, p[1], p[2]).call_type))
          <=> \/ \E p \in ReturnPlaces(s) :
                    UnsafeCall(Arg(s, p[1], p[2]).call_type)
              \/ /\ KindAt(t, x) = "return"
                 /\ UnsafeCall(Arg(t, x[1], x[2]).call_type)
    BY NewPlaceFacts
  <2> QED BY <2>1, <2>2
<1>4. {t.using_traits[j] : j \in DOMAIN t.using_traits} =
        {api_functions[g].trait : g \in Called(t)} \ {NoTrait}
  <2>1. {s.using_traits[j] : j \in DOMAIN s.using_traits} =
          {api_functions[g].trait : g \in Called(s)} \ {NoTrait}
    BY TagsOf
  <2> QED BY <2>1
<1> QED BY <1>1, <1>2, <1>3, <1>4, TagsOf

\* What being linked says of a place.
LEMMA LinkedPlaces ==
    ASSUME NEW s \in ApiSequences, Linked(s), NEW p \in ArgPlaces(s)
    PROVE  /\ KindAt(s, p) \in {"return", "fuzzable"}
           /\ KindAt(s, p) = "return" => IndexAt(s, p) \in 1 .. Len(s.functions) - 1
           /\ KindAt(s, p) = "fuzzable" =>
                IndexAt(s, p) \in 1 .. Len(s.fuzzable_params)
<1>1. s.functions \in Seq(ApiCalls) /\ s.fuzzable_params \in Seq(FuzzableTypes)
  BY SequenceFields
<1>2. p[1] \in 1 .. Len(s.functions)
  BY PlaceTypes
<1>3. p[1] \in DOMAIN s.functions /\ p[2] \in DOMAIN s.functions[p[1]].params
  BY PlaceFacts
<1>4. LinkedArg(s, p[1], s.functions[p[1]].func, p[2], Arg(s, p[1], p[2]))
  BY <1>3 DEF Linked, LinkedCall
<1>5. CASE KindAt(s, p) = "return"
  <2>1. IndexAt(s, p) \in 1 .. p[1] - 1
    BY <1>4, <1>5 DEF LinkedArg, KindAt, IndexAt
  <2> QED BY <1>1, <1>2, <1>5, <2>1
<1>6. CASE KindAt(s, p) = "fuzzable"
  <2>1. IndexAt(s, p) \in DOMAIN s.fuzzable_params
    BY <1>4, <1>6 DEF LinkedArg, KindAt, IndexAt
  <2> QED BY <1>1, <1>6, <2>1
<1>7. KindAt(s, p) \in {"return", "fuzzable"}
  BY <1>4 DEF LinkedArg, KindAt
<1> QED BY <1>5, <1>6, <1>7

\* The arguments of a merged sequence, by kind.
LEMMA MergedFacts ==
    ASSUME NEW a \in ApiSequences, NEW b \in ApiSequences, NEW t,
           MergedPlaces(a, b, t), Linked(a), Linked(b)
    PROVE  LET nf == Len(a.functions)
               nz == Len(a.fuzzable_params)
           IN /\ nf \in Nat /\ nz \in Nat
              /\ ReturnPlaces(t) = ReturnPlaces(a)
                   \cup {Shifted(a, p) : p \in ReturnPlaces(b)}
              /\ FuzzablePlaces(t) = FuzzablePlaces(a)
                   \cup {Shifted(a, p) : p \in FuzzablePlaces(b)}
              /\ \A p \in ReturnPlaces(a) : IndexAt(a, p) \in 1 .. nf
              /\ \A p \in FuzzablePlaces(a) : IndexAt(a, p) \in 1 .. nz
              /\ \A p \in ReturnPlaces(b) :
                   /\ IndexAt(b, p) \in Nat \ {0}
                   /\ IndexAt(t, Shifted(a, p)) = IndexAt(b, p) + nf
              /\ \A p \in FuzzablePlaces(b) :
                   /\ IndexAt(b, p) \in Nat \ {0}
                   /\ IndexAt(t, Shifted(a, p)) = IndexAt(b, p) + nz
<1> DEFINE nf == Len(a.functions)
           nz == Len(a.fuzzable_params)
<1>1. nf \in Nat /\ nz \in Nat
  BY SequenceFields
<1>2. \A p \in ReturnPlaces(a) : IndexAt(a, p) \in 1 .. nf
  BY <1>1, LinkedPlaces, KindPlaces
<1>3. \A p \in FuzzablePlaces(a) : IndexAt(a, p) \in 1 .. nz
  BY <1>1, LinkedPlaces, KindPlaces
<1>4. /\ \A p \in ArgPlaces(a) : KindAt(t, p) = KindAt(a, p)
      /\ \A p \in ArgPlaces(b) :
            /\ KindAt(t, Shifted(a, p)) = KindAt(b, p)
            /\ KindAt(b, p) = "return" =>
                 IndexAt(t, Shifted(a, p)) = IndexAt(b, p) + nf
            /\ KindAt(b, p) = "fuzzable" =>
                 IndexAt(t, Shifted(a, p)) = IndexAt(b, p) + nz
  <2>1. \A p \in ArgPlaces(a) : SameAt(a, p, t, p)
    BY DEF MergedPlaces
  <2>2. \A p \in ArgPlaces(b) : ShiftedAt(a, b, p, t, Shifted(a, p))
    BY DEF MergedPlaces
  <2>3. \A p \in ArgPlaces(a) : KindAt(t, p) = KindAt(a, p)
    BY <2>1, SameFacts
  <2> QED BY <2>2, <2>3, ShiftedFacts
<1>5. ArgPlaces(t) = ArgPlaces(a) \cup {Shifted(a, p) : p \in ArgPlaces(b)}
  BY DEF MergedPlaces
<1>6. ReturnPlaces(t) = ReturnPlaces(a) \cup {Shifted(a, p) : p \in ReturnPlaces(b)}
  BY <1>4, <1>5 DEF ReturnPlaces
<1>7. FuzzablePlaces(t) = FuzzablePlaces(a)
        \cup {Shifted(a, p) : p \in FuzzablePlaces(b)}
  BY <1>4, <1>5 DEF FuzzablePlaces
<1>8. /\ \A p \in ReturnPlaces(b) : IndexAt(b, p) \in Nat \ {0}
      /\ \A p \in FuzzablePlaces(b) : IndexAt(b, p) \in Nat \ {0}
  BY LinkedPlaces, KindPlaces
<1>9. /\ \A p \in ReturnPlaces(b) : IndexAt(t, Shifted(a, p)) = IndexAt(b, p) + nf
      /\ \A p \in FuzzablePlaces(b) : IndexAt(t, Shifted(a, p)) = IndexAt(b, p) + nz
  BY <1>4, KindPlaces
<1> HIDE DEF nf, nz
<1> QED BY <1>1, <1>2, <1>3, <1>6, <1>7, <1>8, <1>9 DEF nf, nz

\* What they do to their values.
LEMMA MergedEffects ==
    ASSUME NEW a, NEW b, NEW t, MergedPlaces(a, b, t)
    PROVE  /\ \A p \in ArgPlaces(a) :
                /\ IndexAt(t, p) = IndexAt(a, p)
                /\ MovesAt(t, p) = MovesAt(a, p)
                /\ MutablyAt(t, p) = MutablyAt(a, p)
                /\ SharedAt(t, p) = SharedAt(a, p)
                /\ Arg(t, p[1], p[2]).call_type = Arg(a, p[1], p[2]).call_type
           /\ \A p \in ArgPlaces(b) :
                LET q == Shifted(a, p) IN
                /\ MovesAt(t, q) = MovesAt(b, p)
                /\ MutablyAt(t, q) = MutablyAt(b, p)
                /\ SharedAt(t, q) = SharedAt(b, p)
                /\ Arg(t, q[1], q[2]).call_type = Arg(b, p[1], p[2]).call_type
           /\ ReturnPlaces(a) \subseteq ArgPlaces(a)
           /\ ReturnPlaces(b) \subseteq ArgPlaces(b)
           /\ FuzzablePlaces(a) \subseteq ArgPlaces(a)
           /\ FuzzablePlaces(b) \subseteq ArgPlaces(b)
<1>1. \A p \in ArgPlaces(a) : SameAt(a, p, t, p)
  BY DEF MergedPlaces
<1>2. \A p \in ArgPlaces(b) : ShiftedAt(a, b, p, t, Shifted(a, p))
  BY DEF MergedPlaces
<1>3. \A p \in ArgPlaces(a) :
         /\ IndexAt(t, p) = IndexAt(a, p)
         /\ MovesAt(t, p) = MovesAt(a, p)
         /\ MutablyAt(t, p) = MutablyAt(a, p)
         /\ SharedAt(t, p) = SharedAt(a, p)
         /\ Arg(t, p[1], p[2]).call_type = Arg(a, p[1], p[2]).call_type
  BY <1>1, SameFacts
<1>4. ASSUME NEW p \in ArgPlaces(b)
      PROVE  LET q == Shifted(a, p) IN
                /\ MovesAt(t, q) = MovesAt(b, p)
                /\ MutablyAt(t, q) = MutablyAt(b, p)
                /\ SharedAt(t, q) = SharedAt(b, p)
                /\ Arg(t, q[1], q[2]).call_type = Arg(b, p[1], p[2]).call_type
  BY <1>2, ShiftedFacts
<1> QED BY <1>3, <1>4, KindPlaces

\* The values of the two sequences are different ones, so that neither uses
\* what the other moves.
LEMMA MergeMoved ==
    ASSUME NEW a \in ApiSequences, NEW b \in ApiSequences, NEW t,
           MergedPlaces(a, b, t), Linked(a), Linked(b),
           MovedOnce(a), MovedOnce(b),
           t.moved = a.moved \cup Shift(b.moved, Len(a.functions))
    PROVE  MovedOnce(t)
<1> DEFINE nf == Len(a.functions)
           MovedIn(s) == {IndexAt(s, p) : p \in {q \in ReturnPlaces(s) : MovesAt(s, q)}}
<1>0. /\ nf \in Nat
      /\ ReturnPlaces(t) = ReturnPlaces(a) \cup {Shifted(a, p) : p \in ReturnPlaces(b)}
      /\ \A p \in ReturnPlaces(a) : IndexAt(a, p) \in 1 .. nf
      /\ \A p \in ReturnPlaces(b) : /\ IndexAt(b, p) \in Nat \ {0}
                                    /\ IndexAt(t, Shifted(a, p)) = IndexAt(b, p) + nf
  BY MergedFacts
<1> HIDE DEF nf
<1>1. /\ \A p \in ReturnPlaces(a) : IndexAt(t, p) = IndexAt(a, p)
                                    /\ MovesAt(t, p) = MovesAt(a, p)
      /\ \A p \in ReturnPlaces(b) : MovesAt(t, Shifted(a, p)) = MovesAt(b, p)
  BY MergedEffects
<1>2. MovedIn(t) = MovedIn(a) \cup {i + nf : i \in MovedIn(b)}
  <2>1. ASSUME NEW i \in MovedIn(t)
        PROVE  i \in MovedIn(a) \cup {j + nf : j \in MovedIn(b)}
    BY <1>0, <1>1
  <2>2. ASSUME NEW i \in MovedIn(a) PROVE i \in MovedIn(t)
    BY <1>0, <1>1
  <2>3. ASSUME NEW i \in MovedIn(b) PROVE i + nf \in MovedIn(t)
    <3>1. PICK p \in ReturnPlaces(b) : MovesAt(b, p) /\ i = IndexAt(b, p)
      OBVIOUS
    <3>2. Shifted(a, p) \in ReturnPlaces(t) /\ MovesAt(t, Shifted(a, p))
          /\ IndexAt(t, Shifted(a, p)) = i + nf
      BY <1>0, <1>1, <3>1
    <3> QED BY <3>2
  <2> QED BY <2>1, <2>2, <2>3
<1>3. a.moved = MovedIn(a) /\ b.moved = MovedIn(b)
  BY DEF MovedOnce
<1>4. t.moved = MovedIn(t)
  <2> HIDE DEF MovedIn
  <2> QED BY <1>2, <1>3 DEF Shift, nf
<1>5. ASSUME NEW p \in ReturnPlaces(t), NEW q \in ReturnPlaces(t),
             MovesAt(t, p), IndexAt(t, p) = IndexAt(t, q)
      PROVE  ~Before(p, q)
  <2>1. CASE p \in ReturnPlaces(a) /\ q \in ReturnPlaces(a)
    BY <1>1, <1>5, <2>1 DEF MovedOnce
  <2>2. ASSUME NEW u \in ReturnPlaces(b), p = Shifted(a, u),
               q \in ReturnPlaces(a)
        PROVE  FALSE
    BY <1>0, <1>1, <1>5, <2>2
  <2>3. ASSUME NEW v \in ReturnPlaces(b), q = Shifted(a, v),
               p \in ReturnPlaces(a)
        PROVE  FALSE
    BY <1>0, <1>1, <1>5, <2>3
  <2>4. ASSUME NEW u \in ReturnPlaces(b), NEW v \in ReturnPlaces(b),
               p = Shifted(a, u), q = Shifted(a, v)
        PROVE  ~Before(p, q)
    <3>1. MovesAt(b, u) /\ IndexAt(b, u) + nf = IndexAt(b, v) + nf
      BY <1>0, <1>1, <1>5, <2>4
    <3>2. IndexAt(b, u) = IndexAt(b, v)
      BY <1>0, <3>1
    <3>3. ~Before(u, v)
      BY <3>1, <3>2 DEF MovedOnce
    <3>4. u \in ArgPlaces(b) /\ v \in ArgPlaces(b)
      BY MergedEffects
    <3> QED BY <2>4, <3>3, <3>4 DEF MergedPlaces
  <2> QED BY <1>0, <2>1, <2>2, <2>3, <2>4
<1> QED BY <1>4, <1>5 DEF MovedOnce

\* Two arguments of one call are of the same sequence.
LEMMA MergeBorrowed ==
    ASSUME NEW a \in ApiSequences, NEW b \in ApiSequences, NEW t,
           MergedPlaces(a, b, t), Linked(a), Linked(b),
           BorrowedOnce(a), BorrowedOnce(b)
    PROVE  BorrowedOnce(t)
<1> SUFFICES ASSUME NEW p \in ReturnPlaces(t), NEW q \in ReturnPlaces(t),
                    p[1] = q[1], p[2] # q[2], IndexAt(t, p) = IndexAt(t, q),
                    MutablyAt(t, p)
             PROVE  ~(MovesAt(t, q) \/ MutablyAt(t, q) \/ SharedAt(t, q))
  BY DEF BorrowedOnce
<1> DEFINE nf == Len(a.functions)
<1>1. /\ nf \in Nat
      /\ ReturnPlaces(t) = ReturnPlaces(a) \cup {Shifted(a, u) : u \in ReturnPlaces(b)}
      /\ \A u \in ReturnPlaces(b) : /\ IndexAt(b, u) \in Nat
                                    /\ IndexAt(t, Shifted(a, u)) = IndexAt(b, u) + nf
  BY MergedFacts
<1> HIDE DEF nf
<1>2. ReturnPlaces(a) \subseteq ArgPlaces(a) /\ ReturnPlaces(b) \subseteq ArgPlaces(b)
  BY KindPlaces
<1>3. CASE p \in ReturnPlaces(a) /\ q \in ReturnPlaces(a)
  BY <1>2, <1>3, MergedEffects DEF BorrowedOnce
<1>4. ASSUME NEW u \in ReturnPlaces(b), NEW v \in ReturnPlaces(b),
             p = Shifted(a, u), q = Shifted(a, v)
      PROVE  ~(MovesAt(t, q) \/ MutablyAt(t, q) \/ SharedAt(t, q))
  <2>1. u[1] = v[1] /\ u[2] # v[2]
    BY <1>2, <1>4 DEF MergedPlaces
  <2>2. IndexAt(b, u) = IndexAt(b, v)
    <3>1. IndexAt(b, u) + nf = IndexAt(b, v) + nf
      BY <1>1, <1>4
    <3> QED BY <1>1, <3>1
  <2>3. MutablyAt(b, u)
    BY <1>2, <1>4, MergedEffects
  <2>4. ~(MovesAt(b, v) \/ MutablyAt(b, v) \/ SharedAt(b, v))
    BY <2>1, <2>2, <2>3 DEF BorrowedOnce
  <2> QED BY <1>2, <1>4, <2>4, MergedEffects
<1>5. ASSUME NEW u \in ReturnPlaces(b),
             \/ p \in ReturnPlaces(a) /\ q = Shifted(a, u)
             \/ q \in ReturnPlaces(a) /\ p = Shifted(a, u)
      PROVE  FALSE
  BY <1>2, <1>5 DEF MergedPlaces
<1> QED BY <1>1, <1>3, <1>4, <1>5

\* The slots of the second sequence come behind those of the first, and so do
\* the arguments that use them.
LEMMA MergeSlots ==
    ASSUME NEW a \in ApiSequences, NEW b \in ApiSequences, NEW t,
           MergedPlaces(a, b, t), Linked(a), Linked(b),
           SlotsInOrder(a), SlotsInOrder(b),
           t.fuzzable_params = a.fuzzable_params \o b.fuzzable_params
    PROVE  SlotsInOrder(t)
<1> DEFINE nz == Len(a.fuzzable_params)
           m  == Len(b.fuzzable_params)
           Slots(s) == {IndexAt(s, p) : p \in FuzzablePlaces(s)}
<1>1. /\ nz \in Nat
      /\ FuzzablePlaces(t) = FuzzablePlaces(a)
           \cup {Shifted(a, p) : p \in FuzzablePlaces(b)}
      /\ \A p \in FuzzablePlaces(a) : IndexAt(a, p) \in 1 .. nz
      /\ \A p \in FuzzablePlaces(b) :
           /\ IndexAt(b, p) \in Nat \ {0}
           /\ IndexAt(t, Shifted(a, p)) = IndexAt(b, p) + nz
  BY MergedFacts
<1>2. \A p \in FuzzablePlaces(a) : IndexAt(t, p) = IndexAt(a, p)
  BY MergedEffects
<1>3. m \in Nat /\ Slots(a) = 1 .. nz /\ Slots(b) = 1 .. m
  <2>1. Slots(a) = DOMAIN a.fuzzable_params /\ Slots(b) = DOMAIN b.fuzzable_params
    BY DEF SlotsInOrder
  <2>2. /\ a.fuzzable_params \in Seq(FuzzableTypes)
        /\ b.fuzzable_params \in Seq(FuzzableTypes)
    BY SequenceFields
  <2> HIDE DEF Slots
  <2> QED BY <2>1, <2>2
<1>4. DOMAIN t.fuzzable_params = 1 .. nz + m
  <2> DEFINE x == a.fuzzable_params
             y == b.fuzzable_params
  <2>1. x \in Seq(FuzzableTypes) /\ y \in Seq(FuzzableTypes)
    BY SequenceFields
  <2> HIDE DEF x, y
  <2>2. DOMAIN (x \o y) = 1 .. Len(x) + Len(y)
    BY <2>1, ConcatIndex
  <2> QED BY <2>2 DEF x, y
<1> HIDE DEF nz, m
<1>5. Slots(t) = 1 .. nz + m
  <2>1. ASSUME NEW i \in Slots(t) PROVE i \in 1 .. nz + m
    <3>1. PICK p \in FuzzablePlaces(t) : i = IndexAt(t, p)
      OBVIOUS
    <3>2. CASE p \in FuzzablePlaces(a)
      BY <1>1, <1>2, <1>3, <3>1, <3>2
    <3>3. ASSUME NEW q \in FuzzablePlaces(b), p = Shifted(a, q)
          PROVE  i \in 1 .. nz + m
      <4>1. IndexAt(b, q) \in 1 .. m
        BY <1>3
      <4>2. i = IndexAt(b, q) + nz
        BY <1>1, <3>1, <3>3
      <4> QED BY <1>1, <1>3, <4>1, <4>2
    <3> QED BY <1>1, <3>2, <3>3
  <2>2. ASSUME NEW i \in 1 .. nz PROVE i \in Slots(t)
    <3>1. PICK p \in FuzzablePlaces(a) : i = IndexAt(a, p)
      BY <1>3
    <3>2. p \in FuzzablePlaces(t) /\ IndexAt(t, p) = i
      BY <1>1, <1>2, <3>1
    <3> QED BY <3>2
  <2>3. ASSUME NEW i \in 1 .. m PROVE i + nz \in Slots(t)
    <3>1. PICK p \in FuzzablePlaces(b) : i = IndexAt(b, p)
      BY <1>3
    <3>2. /\ Shifted(a, p) \in FuzzablePlaces(t)
          /\ IndexAt(t, Shifted(a, p)) = i + nz
      BY <1>1, <3>1
    <3> QED BY <3>2
  <2> HIDE DEF Slots
  <2>4. ASSUME NEW i \in 1 .. nz + m PROVE i \in Slots(t)
    <3>1. CASE i <= nz
      BY <1>1, <2>2, <3>1
    <3>2. CASE ~(i <= nz)
      <4>1. i - nz \in 1 .. m /\ (i - nz) + nz = i
        BY <1>1, <1>3, <3>2
      <4> QED BY <2>3, <4>1
    <3> QED BY <3>1, <3>2
  <2> QED BY <2>1, <2>4
<1>6. ASSUME NEW p \in FuzzablePlaces(t), NEW q \in FuzzablePlaces(t), Before(p, q)
      PROVE  IndexAt(t, p) < IndexAt(t, q)
  <2>0. FuzzablePlaces(a) \subseteq ArgPlaces(a)
        /\ FuzzablePlaces(b) \subseteq ArgPlaces(b)
    BY KindPlaces
  <2>1. CASE p \in FuzzablePlaces(a) /\ q \in FuzzablePlaces(a)
    BY <1>2, <1>6, <2>1 DEF SlotsInOrder
  <2>2. ASSUME NEW u \in FuzzablePlaces(b), p = Shifted(a, u),
               q \in FuzzablePlaces(a)
        PROVE  FALSE
    BY <1>6, <2>0, <2>2 DEF MergedPlaces
  <2>3. ASSUME NEW v \in FuzzablePlaces(b), q = Shifted(a, v),
               p \in FuzzablePlaces(a)
        PROVE  IndexAt(t, p) < IndexAt(t, q)
    <3>1. IndexAt(t, p) \in 1 .. nz
      BY <1>1, <1>2, <2>3
    <3>2. IndexAt(t, q) = IndexAt(b, v) + nz /\ IndexAt(b, v) \in Nat \ {0}
      BY <1>1, <2>3
    <3> QED BY <1>1, <3>1, <3>2
  <2>4. ASSUME NEW u \in FuzzablePlaces(b), NEW v \in FuzzablePlaces(b),
               p = Shifted(a, u), q = Shifted(a, v)
        PROVE  IndexAt(t, p) < IndexAt(t, q)
    <3>1. Before(u, v)
      BY <1>6, <2>0, <2>4 DEF MergedPlaces
    <3>2. IndexAt(b, u) < IndexAt(b, v)
      BY <3>1 DEF SlotsInOrder
    <3> QED BY <1>1, <2>4, <3>2
  <2> QED BY <1>1, <2>1, <2>2, <2>3, <2>4
<1>7. Slots(t) = DOMAIN t.fuzzable_params
  <2> HIDE DEF Slots
  <2> QED BY <1>4, <1>5
<1> QED BY <1>6, <1>7 DEF SlotsInOrder

\* The traits of two sets of functions.
LEMMA TraitsUnion ==
    ASSUME NEW A, NEW B
    PROVE  {api_functions[f].trait : f \in A \cup B} \ {NoTrait} =
             ({api_functions[f].trait : f \in A} \ {NoTrait})
               \cup ({api_functions[f].trait : f \in B} \ {NoTrait})
OBVIOUS

\* The tags of a merged sequence are those of both.
LEMMA MergeTags ==
    ASSUME NEW a \in ApiSequences, NEW b \in ApiSequences, NEW t,
           MergedPlaces(a, b, t), Linked(a), Linked(b),
           TagsExact(a), TagsExact(b),
           Called(t) = Called(a) \cup Called(b),
           t.using_traits = a.using_traits \o b.using_traits,
           t.unsafe_tag = (a.unsafe_tag \/ b.unsafe_tag),
           t.fuzzable_mut_tag = a.fuzzable_mut_tag
             \cup Shift(b.fuzzable_mut_tag, Len(a.fuzzable_params)),
           t.function_mut_tag = a.function_mut_tag
             \cup Shift(b.function_mut_tag, Len(a.functions))
    PROVE  TagsExact(t)
<1> DEFINE nf == Len(a.functions)
           nz == Len(a.fuzzable_params)
           Needs(s, p) == NeedMutTag(Arg(s, p[1], p[2]).call_type)
           R(s) == {IndexAt(s, p) : p \in {q \in ReturnPlaces(s) : Needs(s, q)}}
           F(s) == {IndexAt(s, p) : p \in {q \in FuzzablePlaces(s) : Needs(s, q)}}
           Unsafe(s) == \E p \in ReturnPlaces(s) :
                           UnsafeCall(Arg(s, p[1], p[2]).call_type)
<1>1. /\ ReturnPlaces(t) = ReturnPlaces(a)
           \cup {Shifted(a, p) : p \in ReturnPlaces(b)}
      /\ FuzzablePlaces(t) = FuzzablePlaces(a)
           \cup {Shifted(a, p) : p \in FuzzablePlaces(b)}
      /\ \A p \in ReturnPlaces(b) :
           IndexAt(t, Shifted(a, p)) = IndexAt(b, p) + nf
      /\ \A p \in FuzzablePlaces(b) :
           IndexAt(t, Shifted(a, p)) = IndexAt(b, p) + nz
  BY MergedFacts
<1>2. /\ \A p \in ArgPlaces(a) :
           /\ IndexAt(t, p) = IndexAt(a, p)
           /\ Arg(t, p[1], p[2]).call_type = Arg(a, p[1], p[2]).call_type
      /\ \A p \in ArgPlaces(b) :
           LET q == Shifted(a, p) IN
           Arg(t, q[1], q[2]).call_type = Arg(b, p[1], p[2]).call_type
  BY MergedEffects
<1>3. /\ ReturnPlaces(a) \subseteq ArgPlaces(a)
      /\ ReturnPlaces(b) \subseteq ArgPlaces(b)
      /\ FuzzablePlaces(a) \subseteq ArgPlaces(a)
      /\ FuzzablePlaces(b) \subseteq ArgPlaces(b)
  BY KindPlaces
<1>4. /\ \A p \in ArgPlaces(a) : Needs(t, p) = Needs(a, p)
      /\ \A p \in ArgPlaces(b) : Needs(t, Shifted(a, p)) = Needs(b, p)
  BY <1>2
<1>5. Unsafe(t) <=> Unsafe(a) \/ Unsafe(b)
  <2>1. ASSUME Unsafe(t) PROVE Unsafe(a) \/ Unsafe(b)
    <3>1. PICK p \in ReturnPlaces(t) : UnsafeCall(Arg(t, p[1], p[2]).call_type)
      BY <2>1
    <3>2. CASE p \in ReturnPlaces(a)
      BY <1>2, <1>3, <3>1, <3>2
    <3>3. ASSUME NEW q \in ReturnPlaces(b), p = Shifted(a, q) PROVE Unsafe(b)
      BY <1>2, <1>3, <3>1, <3>3
    <3> QED BY <1>1, <3>2, <3>3
  <2>2. ASSUME Unsafe(a) PROVE Unsafe(t)
    BY <1>1, <1>2, <1>3, <2>2
  <2>3. ASSUME Unsafe(b) PROVE Unsafe(t)
    <3>1. PICK p \in ReturnPlaces(b) : UnsafeCall(Arg(b, p[1], p[2]).call_type)
      BY <2>3
    <3> DEFINE q == Shifted(a, p)
    <3>2. q \in ReturnPlaces(t) /\ UnsafeCall(Arg(t, q[1], q[2]).call_type)
      BY <1>1, <1>2, <1>3, <3>1
    <3> QED BY <3>2
  <2> QED BY <2>1, <2>2, <2>3
<1> HIDE DEF nf, nz, Needs, Unsafe
<1>6. R(t) = R(a) \cup {i + nf : i \in R(b)}
  <2>1. ASSUME NEW i \in R(t) PROVE i \in R(a) \cup {j + nf : j \in R(b)}
    BY <1>1, <1>2, <1>3, <1>4
  <2>2. ASSUME NEW i \in R(a) PROVE i \in R(t)
    BY <1>1, <1>2, <1>3, <1>4
  <2>3. ASSUME NEW i \in R(b) PROVE i + nf \in R(t)
    <3>1. PICK p \in ReturnPlaces(b) : Needs(b, p) /\ i = IndexAt(b, p)
      OBVIOUS
    <3>2. Shifted(a, p) \in ReturnPlaces(t) /\ Needs(t, Shifted(a, p))
          /\ IndexAt(t, Shifted(a, p)) = i + nf
      BY <1>1, <1>3, <1>4, <3>1
    <3> QED BY <3>2
  <2> QED BY <2>1, <2>2, <2>3
<1>7. F(t) = F(a) \cup {i + nz : i \in F(b)}
  <2>1. ASSUME NEW i \in F(t) PROVE i \in F(a) \cup {j + nz : j \in F(b)}
    BY <1>1, <1>2, <1>3, <1>4
  <2>2. ASSUME NEW i \in F(a) PROVE i \in F(t)
    BY <1>1, <1>2, <1>3, <1>4
  <2>3. ASSUME NEW i \in F(b) PROVE i + nz \in F(t)
    <3>1. PICK p \in FuzzablePlaces(b) : Needs(b, p) /\ i = IndexAt(b, p)
      OBVIOUS
    <3>2. Shifted(a, p) \in FuzzablePlaces(t) /\ Needs(t, Shifted(a, p))
          /\ IndexAt(t, Shifted(a, p)) = i + nz
      BY <1>1, <1>3, <1>4, <3>1
    <3> QED BY <3>2
  <2> QED BY <2>1, <2>2, <2>3
<1> HIDE DEF R, F
<1>8. \A s : TagsExact(s) <=>
         /\ s.function_mut_tag = R(s)
         /\ s.fuzzable_mut_tag = F(s)
         /\ s.unsafe_tag <=> (\E f \in Called(s) : api_functions[f].unsafe) \/ Unsafe(s)
         /\ {s.using_traits[j] : j \in DOMAIN s.using_traits} =
              {api_functions[f].trait : f \in Called(s)} \ {NoTrait}
  BY TagsOf, Zenon DEF R, F, Unsafe, Needs
<1>9. t.function_mut_tag = R(t) /\ t.fuzzable_mut_tag = F(t)
  BY <1>6, <1>7, <1>8 DEF Shift, nf, nz
<1>10. t.unsafe_tag <=> (\E f \in Called(t) : api_functions[f].unsafe) \/ Unsafe(t)
  BY <1>5, <1>8
<1>11. {t.using_traits[j] : j \in DOMAIN t.using_traits} =
         {api_functions[f].trait : f \in Called(t)} \ {NoTrait}
  <2> DEFINE x == a.using_traits
             y == b.using_traits
             Of(z) == {z[j] : j \in DOMAIN z}
  <2>1. x \in Seq(Traits) /\ y \in Seq(Traits)
    BY SequenceFields
  <2>2. /\ Of(x) = {api_functions[f].trait : f \in Called(a)} \ {NoTrait}
        /\ Of(y) = {api_functions[f].trait : f \in Called(b)} \ {NoTrait}
    BY <1>8
  <2>3. t.using_traits = x \o y
    OBVIOUS
  <2> HIDE DEF x, y
  <2>4. Of(x \o y) = Of(x) \cup Of(y)
    <3>1. /\ DOMAIN (x \o y) = 1 .. Len(x) + Len(y)
          /\ \A i \in DOMAIN x : (x \o y)[i] = x[i]
          /\ \A i \in DOMAIN y : (x \o y)[Len(x) + i] = y[i]
      BY <2>1, ConcatIndex
    <3>2. /\ DOMAIN x = 1 .. Len(x) /\ DOMAIN y = 1 .. Len(y)
          /\ Len(x) \in Nat /\ Len(y) \in Nat
      BY <2>1
    <3> DEFINE w == x \o y
               n1 == Len(x)
               n2 == Len(y)
    <3>3. /\ DOMAIN w = 1 .. n1 + n2
          /\ \A i \in 1 .. n1 : w[i] = x[i]
          /\ \A i \in 1 .. n2 : w[n1 + i] = y[i]
          /\ DOMAIN x = 1 .. n1 /\ DOMAIN y = 1 .. n2 /\ n1 \in Nat /\ n2 \in Nat
      BY <3>1, <3>2
    <3> HIDE DEF w, n1, n2
    <3>4. ASSUME NEW i \in DOMAIN w PROVE w[i] \in Of(x) \cup Of(y)
      <4>1. CASE i <= n1
        BY <3>3, <4>1
      <4>2. CASE ~(i <= n1)
        <5>1. i - n1 \in 1 .. n2 /\ n1 + (i - n1) = i
          BY <3>3, <4>2
        <5>2. w[i] = y[i - n1]
          BY <3>3, <5>1
        <5> QED BY <3>3, <5>1, <5>2
      <4> QED BY <4>1, <4>2
    <3>5. ASSUME NEW i \in DOMAIN x PROVE x[i] \in Of(w)
      <4>1. i \in DOMAIN w /\ w[i] = x[i]
        BY <3>3
      <4> QED BY <4>1
    <3>6. ASSUME NEW i \in DOMAIN y PROVE y[i] \in Of(w)
      <4>1. n1 + i \in DOMAIN w /\ w[n1 + i] = y[i]
        BY <3>3
      <4> QED BY <4>1
    <3>7. Of(w) = Of(x) \cup Of(y)
      BY <3>4, <3>5, <3>6
    <3> QED BY <3>7 DEF w
  <2>5. Called(t) = Called(a) \cup Called(b)
    OBVIOUS
  <2> HIDE DEF Of
  <2>6. Of(t.using_traits) = {api_functions[f].trait : f \in Called(t)} \ {NoTrait}
    BY <2>2, <2>3, <2>4, <2>5, TraitsUnion
  <2> QED BY <2>6 DEF Of
<1> QED BY <1>8, <1>9, <1>10, <1>11

\* _merge_another_sequence keeps both sequences correct.
LEMMA MergeCorrect ==
    ASSUME NEW a \in ApiSequences, NEW b \in ApiSequences, Linked(a), Linked(b),
           CorrectTarget(a), CorrectTarget(b)
    PROVE  CorrectTarget(MergeAnother(a, b))
<1> DEFINE t == MergeAnother(a, b)
<1>1. MergedPlaces(a, b, t)
  BY MergePlaces
<1>2. /\ t.moved = a.moved \cup Shift(b.moved, Len(a.functions))
      /\ t.fuzzable_params = a.fuzzable_params \o b.fuzzable_params
      /\ t.using_traits = a.using_traits \o b.using_traits
      /\ t.unsafe_tag = (a.unsafe_tag \/ b.unsafe_tag)
      /\ t.fuzzable_mut_tag = a.fuzzable_mut_tag
           \cup Shift(b.fuzzable_mut_tag, Len(a.fuzzable_params))
      /\ t.function_mut_tag = a.function_mut_tag
           \cup Shift(b.function_mut_tag, Len(a.functions))
  BY DEF MergeAnother
<1>3. Called(t) = Called(a) \cup Called(b)
  <2> DEFINE nf == Len(a.functions)
             m  == Len(b.functions)
  <2>1. a.functions \in Seq(ApiCalls) /\ b.functions \in Seq(ApiCalls)
    BY SequenceFields
  <2>2. /\ nf \in Nat /\ m \in Nat
        /\ DOMAIN a.functions = 1 .. nf /\ DOMAIN b.functions = 1 .. m
    BY <2>1
  <2>3. /\ DOMAIN t.functions = 1 .. nf + m
        /\ \A i \in DOMAIN a.functions : t.functions[i] = a.functions[i]
        /\ \A i \in DOMAIN b.functions : t.functions[nf + i].func = b.functions[i].func
    BY MergeFunctions, Zenon
  <2> HIDE DEF t, nf, m
  <2>4. ASSUME NEW i \in DOMAIN t.functions
        PROVE  t.functions[i].func \in Called(a) \cup Called(b)
    <3>1. CASE i <= nf
      BY <2>2, <2>3, <3>1 DEF Called
    <3>2. CASE ~(i <= nf)
      <4>1. i - nf \in 1 .. m /\ nf + (i - nf) = i
        BY <2>2, <2>3, <3>2
      <4>2. t.functions[i].func = b.functions[i - nf].func
        BY <2>2, <2>3, <4>1
      <4> QED BY <2>2, <4>1, <4>2 DEF Called
    <3> QED BY <3>1, <3>2
  <2>5. ASSUME NEW i \in DOMAIN a.functions PROVE a.functions[i].func \in Called(t)
    <3>1. i \in DOMAIN t.functions /\ t.functions[i] = a.functions[i]
      BY <2>2, <2>3
    <3> QED BY <3>1 DEF Called
  <2>6. ASSUME NEW i \in DOMAIN b.functions PROVE b.functions[i].func \in Called(t)
    <3>1. nf + i \in DOMAIN t.functions /\ t.functions[nf + i].func = b.functions[i].func
      BY <2>2, <2>3
    <3> QED BY <3>1 DEF Called
  <2> QED BY <2>4, <2>5, <2>6 DEF Called
<1> HIDE DEF t
<1>4. /\ MovedOnce(a) /\ BorrowedOnce(a) /\ SlotsInOrder(a) /\ TagsExact(a)
      /\ MovedOnce(b) /\ BorrowedOnce(b) /\ SlotsInOrder(b) /\ TagsExact(b)
  BY DEF CorrectTarget
<1>5. MovedOnce(t)
  BY <1>1, <1>2, <1>4, MergeMoved
<1>6. BorrowedOnce(t)
  BY <1>1, <1>4, MergeBorrowed
<1>7. SlotsInOrder(t)
  BY <1>1, <1>2, <1>4, MergeSlots
<1>8. TagsExact(t)
  BY <1>1, <1>2, <1>3, <1>4, MergeTags
<1> QED BY <1>5, <1>6, <1>7, <1>8 DEF CorrectTarget, t

\* The empty sequence.
LEMMA NewCorrect == CorrectTarget(NewSequence)
<1> DEFINE s == NewSequence
<1>1. /\ s.functions = <<>> /\ s.fuzzable_params = <<>> /\ s.using_traits = <<>>
      /\ s.unsafe_tag = FALSE /\ s.moved = {} /\ s.fuzzable_mut_tag = {}
      /\ s.function_mut_tag = {}
  BY DEF NewSequence
<1> HIDE DEF s
<1>2. ArgPlaces(s) = {}
  BY <1>1 DEF ArgPlaces, Places
<1>3. ReturnPlaces(s) = {} /\ FuzzablePlaces(s) = {}
  BY <1>2 DEF ReturnPlaces, FuzzablePlaces
<1>4. MovedOnce(s)
  BY <1>1, <1>3 DEF MovedOnce
<1>5. BorrowedOnce(s)
  BY <1>3 DEF BorrowedOnce
<1>6. SlotsInOrder(s)
  BY <1>1, <1>3 DEF SlotsInOrder
<1>7. TagsExact(s)
  BY <1>1, <1>3 DEF TagsExact
<1> QED BY <1>4, <1>5, <1>6, <1>7 DEF CorrectTarget, s

\* Being correct only depends on the functions of the graph.
LEMMA StableCorrect ==
    ASSUME UNCHANGED api_functions
    PROVE  /\ \A s : CorrectTarget(s)' <=> CorrectTarget(s)
           /\ \A f : InputsOf(f)' = InputsOf(f)
<1>1. \A f : InputsOf(f)' = InputsOf(f)
  BY DEF InputsOf
<1>2. ASSUME NEW s
      PROVE  /\ MovedOnce(s)' <=> MovedOnce(s)
             /\ BorrowedOnce(s)' <=> BorrowedOnce(s)
             /\ SlotsInOrder(s)' <=> SlotsInOrder(s)
             /\ TagsExact(s)' <=> TagsExact(s)
  <2>1. /\ ReturnPlaces(s)' = ReturnPlaces(s)
        /\ FuzzablePlaces(s)' = FuzzablePlaces(s)
    BY DEF ReturnPlaces, FuzzablePlaces, ArgPlaces, Places, KindAt, Arg
  <2>2. \A p : /\ IndexAt(s, p)' = IndexAt(s, p)
               /\ MovesAt(s, p)' = MovesAt(s, p)
               /\ MutablyAt(s, p)' = MutablyAt(s, p)
               /\ SharedAt(s, p)' = SharedAt(s, p)
    BY <1>1 DEF IndexAt, MovesAt, MutablyAt, SharedAt, Arg, ArgType
  <2>3. MovedOnce(s)' <=> MovedOnce(s)
    BY <2>1, <2>2, Zenon DEF MovedOnce
  <2>4. BorrowedOnce(s)' <=> BorrowedOnce(s)
    BY <2>1, <2>2, Zenon DEF BorrowedOnce
  <2>5. SlotsInOrder(s)' <=> SlotsInOrder(s)
    BY <2>1, <2>2, Zenon DEF SlotsInOrder
  <2>6. TagsExact(s)' <=> TagsExact(s)
    BY <2>1, <2>2, Zenon DEF TagsExact, Arg
  <2> QED BY <2>3, <2>4, <2>5, <2>6
<1> QED BY <1>1, <1>2 DEF CorrectTarget

\* The sequence that appending a call with these moves gives.
PendingOf(s, call, moves) ==
    [s EXCEPT !.functions = Append(@, call), !.moved = @ \cup moves]

LEMMA PendingFields ==
    ASSUME NEW s \in ApiSequences, NEW call \in ApiCalls, NEW moves \in SUBSET Nat
    PROVE  LET t == PendingOf(s, call, moves) IN
           /\ t \in ApiSequences
           /\ t.functions = Append(s.functions, call)
           /\ t.moved = s.moved \cup moves
           /\ t.fuzzable_params = s.fuzzable_params
           /\ t.using_traits = s.using_traits
           /\ t.unsafe_tag = s.unsafe_tag
           /\ t.fuzzable_mut_tag = s.fuzzable_mut_tag
           /\ t.function_mut_tag = s.function_mut_tag
<1>1. s.functions \in Seq(ApiCalls) /\ s.moved \subseteq Nat
  BY SequenceFields
<1>2. Append(s.functions, call) \in Seq(ApiCalls)
  BY <1>1
<1>3. s.moved \cup moves \subseteq Nat
  BY <1>1
<1> QED BY <1>2, <1>3 DEF PendingOf, ApiSequences

\* The functions called once a call is appended.
LEMMA CalledAppend ==
    ASSUME NEW s \in ApiSequences, NEW call, NEW t,
           t.functions = Append(s.functions, call)
    PROVE  Called(t) = Called(s) \cup {call.func}
<1> DEFINE x == s.functions
           y == Append(x, call)
           n == Len(x)
<1>1. x \in Seq(ApiCalls)
  BY SequenceFields
<1>2. /\ n \in Nat /\ DOMAIN x = 1 .. n /\ DOMAIN y = 1 .. n + 1
      /\ \A i \in 1 .. n : y[i] = x[i]
      /\ y[n + 1] = call
  BY <1>1
<1> HIDE DEF x, y, n
<1>3. DOMAIN y = DOMAIN x \cup {n + 1}
  BY <1>2
<1>4. {y[c].func : c \in DOMAIN y} = {x[c].func : c \in DOMAIN x} \cup {call.func}
  BY <1>2, <1>3
<1> QED BY <1>4 DEF Called, x, y

-----------------------------------------------------------------------------
(* The steps                                                               *)

\* Argument a for a parameter of type t is in the borrow sets if it borrows.
Noted(t, a, muts, borrows) ==
    a.kind = "return" =>
      /\ MutableBorrow(t, a.call_type) => a.index \in muts
      /\ ImmutableBorrow(t, a.call_type) => a.index \in borrows

\* This holds of all arguments of a call of f so far.
AllNoted(f, ps, muts, borrows) ==
    \A k \in DOMAIN ps : Noted(InputsOf(f)[k], ps[k], muts, borrows)

\* What has to be shown of a step once the graph is built.
LEMMA CorrectInvFrom ==
    ASSUME LinkInv', UNCHANGED api_functions,
           \A n \in DOMAIN api_sequences' : CorrectTarget(api_sequences'[n]),
           pc' \in {"merge", "some"} => CorrectTarget(new_sequence'),
           pc' = "param" =>
             /\ CorrectTarget(PendingOf(new_sequence', api_call', moved_indexes'))
             /\ \A k \in DOMAIN api_call'.params :
                  Noted(InputsOf(api_call'.func)[k], api_call'.params[k],
                        multi_mut', immutable_borrow')
    PROVE  CorrectInv'
<1>1. TargetsCorrect'
  <2>1. \A n \in DOMAIN api_sequences' : CorrectTarget(api_sequences[n])'
    BY StableCorrect
  <2> QED BY <2>1 DEF TargetsCorrect, NoUseAfterMove, NoBorrowConflict,
                      SlotsUsedOnce, TagsCorrect, Generated, CorrectTarget, LinkInv
<1>2. CorrectSoFar'
  <2>1. pc' \in {"merge", "param", "some"} => CorrectTarget(Pending)'
    <3>1. CASE pc' \in {"merge", "some"}
      <4>1. Pending' = new_sequence' /\ CorrectTarget(new_sequence')
        BY <3>1 DEF Pending
      <4> QED BY <4>1, StableCorrect
    <3>2. CASE pc' = "param"
      <4>1. /\ Pending' = PendingOf(new_sequence', api_call', moved_indexes')
            /\ CorrectTarget(PendingOf(new_sequence', api_call', moved_indexes'))
        BY <3>2 DEF Pending, PendingOf
      <4> QED BY <4>1, StableCorrect
    <3> QED BY <3>1, <3>2
  <2>2. ASSUME pc' = "param"
        PROVE  (\A k \in DOMAIN api_call.params :
                  LET a == api_call.params[k]
                      t == InputsOf(api_call.func)[k]
                  IN a.kind = "return" =>
                       /\ MutableBorrow(t, a.call_type) => a.index \in multi_mut
                       /\ ImmutableBorrow(t, a.call_type)
                            => a.index \in immutable_borrow)'
    BY <2>2, StableCorrect DEF Noted
  <2> QED BY <2>1, <2>2 DEF CorrectSoFar
<1> QED BY <1>1, <1>2 DEF CorrectInv

\* Entering is_fun_satisfied with a correct sequence.
LEMMA SatisfyCorrect ==
    ASSUME TypeOK, NEW s \in ApiSequences, NEW f \in Funs, NEW who \in Callers,
           Satisfy(s, f, who), CorrectTarget(s)
    PROVE  /\ CorrectTarget(PendingOf(new_sequence', api_call', moved_indexes'))
           /\ DOMAIN api_call'.params = {}
<1> DEFINE u == new_sequence'
           t == PendingOf(new_sequence', api_call', moved_indexes')
<1>1. u \in ApiSequences /\ api_call' \in ApiCalls /\ moved_indexes' = {}
  BY SatisfyType
<1>2. /\ u.functions = s.functions /\ u.moved = s.moved
      /\ u.fuzzable_params = s.fuzzable_params
      /\ u.fuzzable_mut_tag = s.fuzzable_mut_tag
      /\ u.function_mut_tag = s.function_mut_tag
      /\ u.unsafe_tag = (s.unsafe_tag \/ api_functions[f].unsafe)
      /\ u.using_traits = IF api_functions[f].trait = NoTrait THEN s.using_traits
                          ELSE Append(s.using_traits, api_functions[f].trait)
  BY DEF Satisfy, ApiSequences
<1>3. api_call' = ApiCall(f)
  BY DEF Satisfy
<1> HIDE DEF u
<1>4. /\ t.functions = Append(s.functions, ApiCall(f))
      /\ t.moved = s.moved
      /\ t.fuzzable_params = s.fuzzable_params
      /\ t.fuzzable_mut_tag = s.fuzzable_mut_tag
      /\ t.function_mut_tag = s.function_mut_tag
      /\ t.unsafe_tag = (s.unsafe_tag \/ api_functions[f].unsafe)
      /\ t.using_traits = IF api_functions[f].trait = NoTrait THEN s.using_traits
                          ELSE Append(s.using_traits, api_functions[f].trait)
  <2> DEFINE call == ApiCall(f)
             none == {}
  <2>1. /\ u \in ApiSequences /\ t = PendingOf(u, call, none)
        /\ call \in ApiCalls /\ none \in SUBSET Nat
    BY <1>1, <1>3 DEF u
  <2> HIDE DEF t, call, none
  <2>2. /\ t.functions = Append(u.functions, call)
        /\ t.moved = u.moved \cup none
        /\ t.fuzzable_params = u.fuzzable_params
        /\ t.using_traits = u.using_traits
        /\ t.unsafe_tag = u.unsafe_tag
        /\ t.fuzzable_mut_tag = u.fuzzable_mut_tag
        /\ t.function_mut_tag = u.function_mut_tag
    BY <2>1, PendingFields
  <2> QED BY <1>2, <2>2 DEF call, none
<1> HIDE DEF t
<1>5. ArgPlaces(t) = ArgPlaces(s) /\ \A p \in ArgPlaces(s) : SameAt(s, p, t, p)
  BY <1>4, NewCallPlaces
<1>6. Called(t) = Called(s) \cup {f}
  <2>1. Called(t) = Called(s) \cup {ApiCall(f).func}
    BY <1>4, CalledAppend
  <2> QED BY <2>1 DEF ApiCall
<1>7. MovedOnce(s) /\ BorrowedOnce(s) /\ SlotsInOrder(s) /\ TagsExact(s)
  BY DEF CorrectTarget
<1>8. MovedOnce(t) /\ BorrowedOnce(t) /\ SlotsInOrder(t)
  BY <1>4, <1>5, <1>7, SamePlacesCorrect
<1>9. TagsExact(t)
  BY <1>4, <1>5, <1>6, <1>7, NewCallTags
<1>10. CorrectTarget(t)
  BY <1>8, <1>9 DEF CorrectTarget
<1> QED BY <1>3, <1>10 DEF t, ApiCall

\* An argument is added to the call under construction.
LEMMA NotedAdded ==
    ASSUME NEW f, NEW ps \in Seq(Params), NEW a, NEW qs, qs = Append(ps, a),
           NEW muts, NEW borrows, NEW muts2, NEW borrows2,
           muts \subseteq muts2, borrows \subseteq borrows2,
           AllNoted(f, ps, muts, borrows),
           Noted(InputsOf(f)[Len(ps) + 1], a, muts2, borrows2)
    PROVE  AllNoted(f, qs, muts2, borrows2)
<1> DEFINE m == Len(ps)
<1>1. /\ m \in Nat /\ DOMAIN ps = 1 .. m /\ DOMAIN qs = 1 .. m + 1
      /\ \A k \in 1 .. m : qs[k] = ps[k]
      /\ qs[m + 1] = a
  OBVIOUS
<1>2. \A k \in 1 .. m : Noted(InputsOf(f)[k], qs[k], muts2, borrows2)
  BY <1>1 DEF Noted, AllNoted
<1>3. Noted(InputsOf(f)[m + 1], qs[m + 1], muts2, borrows2)
  BY <1>1
<1> HIDE DEF m
<1>4. \A k \in 1 .. m + 1 : k \in 1 .. m \/ k = m + 1
  BY <1>1
<1> QED BY <1>1, <1>2, <1>3, <1>4 DEF AllNoted

\* The sequence with the new argument and what it is added to.
LEMMA NewArgument ==
    ASSUME NEW ns \in ApiSequences, NEW call \in ApiCalls, NEW ms \in SUBSET Nat,
           NEW ns2 \in ApiSequences, NEW call2 \in ApiCalls, NEW ms2 \in SUBSET Nat,
           NEW a \in Params, ns2.functions = ns.functions,
           call2.func = call.func, call2.params = Append(call.params, a)
    PROVE  LET s == PendingOf(ns, call, ms)
               t == PendingOf(ns2, call2, ms2)
           IN /\ ArgAdded(s, t, Len(ns.functions) + 1, Len(call.params) + 1, call.func, a)
              /\ Called(t) = Called(s)
<1> DEFINE s == PendingOf(ns, call, ms)
           t == PendingOf(ns2, call2, ms2)
<1>1. s.functions = Append(ns.functions, call)
  BY PendingFields
<1>2. t.functions = Append(ns.functions, call2)
  BY PendingFields
<1>3. call2.func = call.func /\ call2.params = Append(call.params, a)
  OBVIOUS
<1>4. ns.functions \in Seq(ApiCalls)
  BY SequenceFields
<1> HIDE DEF s, t
<1>5. Called(t) = Called(s)
  <2>1. Called(s) = Called(ns) \cup {call.func}
    BY <1>1, CalledAppend
  <2>2. Called(t) = Called(ns) \cup {call2.func}
    BY <1>2, CalledAppend
  <2> QED BY <1>3, <2>1, <2>2
<1>6. ArgAdded(s, t, Len(ns.functions) + 1, Len(call.params) + 1, call.func, a)
  BY <1>1, <1>2, <1>3, <1>4, NewArgPlaces
<1> QED BY <1>5, <1>6 DEF s, t

\* The parts of CorrectInv about the call under construction.
LEMMA AtParam ==
    ASSUME CorrectInv, pc = "param"
    PROVE  /\ new_sequence \in ApiSequences
           /\ api_call \in ApiCalls
           /\ api_call.params \in Seq(Params)
           /\ moved_indexes \in SUBSET Nat
           /\ CorrectTarget(PendingOf(new_sequence, api_call, moved_indexes))
           /\ \A k \in DOMAIN api_call.params :
                Noted(InputsOf(api_call.func)[k], api_call.params[k], multi_mut,
                      immutable_borrow)
<1>1. TypeOK /\ CorrectSoFar
  BY DEF CorrectInv, LinkInv, TypeInv
<1>2. Pending = PendingOf(new_sequence, api_call, moved_indexes)
  BY DEF Pending, PendingOf
<1>3. CorrectTarget(PendingOf(new_sequence, api_call, moved_indexes))
  BY <1>1, <1>2 DEF CorrectSoFar
<1>4. api_call \in ApiCalls /\ api_call.params \in Seq(Params)
  BY <1>1 DEF TypeOK, ApiCalls
<1> QED BY <1>1, <1>3, <1>4 DEF CorrectSoFar, Noted, TypeOK

LEMMA ReturnCorrect ==
    ASSUME CorrectInv, return_param, TypeInv'
    PROVE  /\ CorrectTarget(PendingOf(new_sequence', api_call', moved_indexes'))
           /\ \A k \in DOMAIN api_call'.params :
                Noted(InputsOf(api_call'.func)[k], api_call'.params[k],
                      multi_mut', immutable_borrow')
<1> DEFINE s  == PendingOf(new_sequence, api_call, moved_indexes)
           t  == PendingOf(new_sequence', api_call', moved_indexes')
           f  == api_call.func
           ps == api_call.params
           n  == Len(new_sequence.functions) + 1
           k  == Len(ps) + 1
           x  == <<n, k>>
<1>1. PICK r \in DOMAIN new_sequence.functions : TakeReturn(r)
  BY DEF return_param
<1> DEFINE ct == CallTypeFrom(r)
           a  == Param("return", r, ct)
<1>2. /\ pc = "param" /\ new_sequence \in ApiSequences /\ api_call \in ApiCalls
      /\ ps \in Seq(Params) /\ moved_indexes \in SUBSET Nat
      /\ CorrectTarget(s)
      /\ \A j \in DOMAIN ps : Noted(InputsOf(f)[j], ps[j], multi_mut, immutable_borrow)
  BY AtParam DEF return_param
<1>3. /\ new_sequence' \in ApiSequences /\ api_call' \in ApiCalls
      /\ moved_indexes' \in SUBSET Nat
  BY DEF TypeInv, TypeOK
<1>4. /\ api_call' = [api_call EXCEPT !.params = Append(@, a)]
      /\ new_sequence' = WithReturn(r, ct)
      /\ moved_indexes' = IF MoveCondition(CurrentType, ct)
                          THEN moved_indexes \cup {r} ELSE moved_indexes
      /\ multi_mut' = IF MutableBorrow(CurrentType, ct)
                      THEN multi_mut \cup {r} ELSE multi_mut
      /\ immutable_borrow' = IF ImmutableBorrow(CurrentType, ct)
                             THEN immutable_borrow \cup {r} ELSE immutable_borrow
  BY <1>1 DEF TakeReturn
<1>5. /\ new_sequence'.functions = new_sequence.functions
      /\ new_sequence'.moved = new_sequence.moved
      /\ new_sequence'.fuzzable_params = new_sequence.fuzzable_params
      /\ new_sequence'.using_traits = new_sequence.using_traits
      /\ new_sequence'.fuzzable_mut_tag = new_sequence.fuzzable_mut_tag
      /\ new_sequence'.function_mut_tag =
            IF NeedMutTag(ct) THEN new_sequence.function_mut_tag \cup {r}
            ELSE new_sequence.function_mut_tag
      /\ new_sequence'.unsafe_tag = (new_sequence.unsafe_tag \/ UnsafeCall(ct))
  BY <1>2, <1>4 DEF WithReturn, ApiSequences
<1>6. a \in Params
  <2>1. api_call'.params = Append(ps, a)
    BY <1>2, <1>4 DEF ApiCalls
  <2>2. api_call'.params \in Seq(Params) /\ k \in DOMAIN api_call'.params
        /\ api_call'.params[k] = a
    <3>1. api_call'.params \in Seq(Params)
      BY <1>3 DEF ApiCalls
    <3> HIDE DEF a
    <3> QED BY <1>2, <2>1, <3>1
  <2> HIDE DEF a, k
  <2> QED BY <2>2
<1>7. CurrentType = InputsOf(f)[k]
  BY DEF CurrentType, CurrentParam
<1>8. Fits(r)
  BY <1>1 DEF TakeReturn
<1>9. a.kind = "return" /\ a.index = r /\ a.call_type = ct
  BY DEF Param
<1> HIDE DEF a, ct
<1>10. /\ NewPlace(s, t, x) /\ Arg(t, n, k) = a
       /\ ArgType(t, n, k) = InputsOf(f)[k] /\ Called(t) = Called(s)
  <2>1. /\ new_sequence \in ApiSequences /\ api_call \in ApiCalls
        /\ moved_indexes \in SUBSET Nat
        /\ new_sequence'.functions = new_sequence.functions
    BY <1>2, <1>5
  <2>2. api_call'.func = api_call.func /\ api_call'.params = Append(api_call.params, a)
    BY <1>2, <1>4 DEF ApiCalls
  <2>3. ArgAdded(s, t, n, k, f, a) /\ Called(t) = Called(s)
    BY <1>3, <1>6, <2>1, <2>2, NewArgument
  <2> HIDE DEF s, t, f, n, k
  <2> QED BY <2>3 DEF ArgAdded
<1>11. /\ s \in ApiSequences
       /\ s.functions = Append(new_sequence.functions, api_call)
       /\ s.moved = new_sequence.moved \cup moved_indexes
       /\ s.fuzzable_params = new_sequence.fuzzable_params
       /\ s.using_traits = new_sequence.using_traits
       /\ s.unsafe_tag = new_sequence.unsafe_tag
       /\ s.fuzzable_mut_tag = new_sequence.fuzzable_mut_tag
       /\ s.function_mut_tag = new_sequence.function_mut_tag
  BY <1>2, PendingFields
<1>12. /\ t.moved = new_sequence'.moved \cup moved_indexes'
       /\ t.fuzzable_params = new_sequence'.fuzzable_params
       /\ t.using_traits = new_sequence'.using_traits
       /\ t.unsafe_tag = new_sequence'.unsafe_tag
       /\ t.fuzzable_mut_tag = new_sequence'.fuzzable_mut_tag
       /\ t.function_mut_tag = new_sequence'.function_mut_tag
  BY <1>3, PendingFields
<1>13. n \in Nat /\ k \in Nat /\ new_sequence.functions \in Seq(ApiCalls)
  <2>1. new_sequence.functions \in Seq(ApiCalls)
    BY <1>2, SequenceFields
  <2> QED BY <1>2, <2>1
<1>14. s.functions[n] = api_call
  BY <1>11, <1>13
<1> HIDE DEF s, t, f, ps, n, k
<1>15. /\ KindAt(t, x) = "return" /\ IndexAt(t, x) = r
       /\ Arg(t, x[1], x[2]).call_type = ct
       /\ MovesAt(t, x) = MoveCondition(CurrentType, ct)
       /\ MutablyAt(t, x) = MutableBorrow(CurrentType, ct)
       /\ SharedAt(t, x) = ImmutableBorrow(CurrentType, ct)
  BY <1>7, <1>9, <1>10 DEF KindAt, IndexAt, MovesAt, MutablyAt, SharedAt
<1>16. MovedOnce(s) /\ BorrowedOnce(s) /\ SlotsInOrder(s) /\ TagsExact(s)
  BY <1>2 DEF CorrectTarget
<1>17. r \notin s.moved
  BY <1>8, <1>11 DEF Fits, Available
<1>18. MovedOnce(t)
  <2>1. t.moved = s.moved \cup (IF KindAt(t, x) = "return" /\ MovesAt(t, x)
                                THEN {IndexAt(t, x)} ELSE {})
    BY <1>4, <1>5, <1>11, <1>12, <1>15
  <2> HIDE DEF x
  <2> QED BY <1>10, <1>15, <1>16, <1>17, <2>1, NewPlaceMoved DEF x
<1>19. BorrowedOnce(t)
  <2>1. ASSUME NEW p \in ReturnPlaces(s), p[1] = x[1], IndexAt(s, p) = r
        PROVE  /\ ~MovesAt(s, p)
               /\ MutablyAt(s, p) => r \in multi_mut
               /\ SharedAt(s, p) => r \in immutable_borrow
    <3>1. ~MovesAt(s, p)
      BY <1>16, <1>17, <2>1 DEF MovedOnce
    <3>2. p \in ArgPlaces(s) /\ KindAt(s, p) = "return"
      BY KindPlaces
    <3>3. p[1] = n /\ p[2] \in DOMAIN ps
      BY <1>14, <2>1, <3>2, PlaceFacts DEF ps
    <3>4. Arg(s, p[1], p[2]) = ps[p[2]] /\ ArgType(s, p[1], p[2]) = InputsOf(f)[p[2]]
      BY <1>14, <3>3 DEF Arg, ArgType, ps, f
    <3>5. Noted(InputsOf(f)[p[2]], ps[p[2]], multi_mut, immutable_borrow)
      BY <1>2, <3>3
    <3> QED BY <2>1, <3>1, <3>2, <3>4, <3>5
            DEF Noted, MutablyAt, SharedAt, KindAt, IndexAt
  <2>2. ~Conflict(r)
    BY <1>8 DEF Fits
  <2>3. \A p \in ReturnPlaces(s) :
           p[1] = x[1] /\ IndexAt(s, p) = IndexAt(t, x) =>
             /\ MutablyAt(t, x) =>
                  ~(MovesAt(s, p) \/ MutablyAt(s, p) \/ SharedAt(s, p))
             /\ MutablyAt(s, p) =>
                  ~(MovesAt(t, x) \/ MutablyAt(t, x) \/ SharedAt(t, x))
    BY <1>15, <2>1, <2>2 DEF Conflict, ct
  <2> QED BY <1>10, <1>16, <2>3, NewPlaceBorrowed
<1>20. SlotsInOrder(t)
  BY <1>5, <1>10, <1>11, <1>12, <1>15, <1>16, NewPlaceSlots
<1>21. TagsExact(t)
  <2> DEFINE tag == NeedMutTag(Arg(t, x[1], x[2]).call_type)
  <2>1. /\ t.function_mut_tag = s.function_mut_tag
             \cup (IF KindAt(t, x) = "return" /\ tag THEN {IndexAt(t, x)} ELSE {})
        /\ t.fuzzable_mut_tag = s.fuzzable_mut_tag
             \cup (IF KindAt(t, x) = "fuzzable" /\ tag THEN {IndexAt(t, x)} ELSE {})
        /\ t.unsafe_tag = (s.unsafe_tag
             \/ (KindAt(t, x) = "return" /\ UnsafeCall(Arg(t, x[1], x[2]).call_type)))
        /\ t.using_traits = s.using_traits
    BY <1>5, <1>11, <1>12, <1>15
  <2> QED BY <1>10, <1>15, <1>16, <2>1, NewPlaceTags
<1>22. CorrectTarget(t)
  BY <1>18, <1>19, <1>20, <1>21 DEF CorrectTarget
<1>23. \A j \in DOMAIN api_call'.params :
          Noted(InputsOf(f)[j], api_call'.params[j], multi_mut', immutable_borrow')
  <2>1. api_call'.params = Append(ps, a)
    BY <1>2, <1>4 DEF ApiCalls, ps
  <2>2. multi_mut \subseteq multi_mut' /\ immutable_borrow \subseteq immutable_borrow'
    BY <1>4
  <2>3. Noted(InputsOf(f)[Len(ps) + 1], a, multi_mut', immutable_borrow')
    BY <1>4, <1>7, <1>9 DEF Noted, k
  <2>4. ps \in Seq(Params) /\ AllNoted(f, ps, multi_mut, immutable_borrow)
    BY <1>2 DEF AllNoted
  <2>5. AllNoted(f, api_call'.params, multi_mut', immutable_borrow')
    BY <2>1, <2>2, <2>3, <2>4, NotedAdded
  <2> QED BY <2>5 DEF AllNoted
<1>24. api_call'.func = f
  BY <1>2, <1>4 DEF ApiCalls, f
<1> QED BY <1>22, <1>23, <1>24 DEF t

LEMMA FuzzableCorrect ==
    ASSUME CorrectInv, fuzzable_param, TypeInv'
    PROVE  /\ CorrectTarget(PendingOf(new_sequence', api_call', moved_indexes'))
           /\ \A k \in DOMAIN api_call'.params :
                Noted(InputsOf(api_call'.func)[k], api_call'.params[k],
                      multi_mut', immutable_borrow')
<1> DEFINE s  == PendingOf(new_sequence, api_call, moved_indexes)
           t  == PendingOf(new_sequence', api_call', moved_indexes')
           f  == api_call.func
           ps == api_call.params
           n  == Len(new_sequence.functions) + 1
           k  == Len(ps) + 1
           x  == <<n, k>>
           z  == NextSlot(new_sequence)
           ct == FuzzableCallOf(CurrentType)
           a  == Param("fuzzable", z, ct)
<1>2. /\ pc = "param" /\ new_sequence \in ApiSequences /\ api_call \in ApiCalls
      /\ ps \in Seq(Params) /\ moved_indexes \in SUBSET Nat
      /\ CorrectTarget(s)
      /\ \A j \in DOMAIN ps : Noted(InputsOf(f)[j], ps[j], multi_mut, immutable_borrow)
  BY AtParam DEF fuzzable_param
<1>3. /\ new_sequence' \in ApiSequences /\ api_call' \in ApiCalls
      /\ moved_indexes' \in SUBSET Nat
  BY DEF TypeInv, TypeOK
<1>4. /\ api_call' = [api_call EXCEPT !.params = Append(@, a)]
      /\ new_sequence' =
            [new_sequence EXCEPT
               !.fuzzable_params = Append(@, FuzzableTypeOf(CurrentType)),
               !.fuzzable_mut_tag = IF NeedMutTag(ct) THEN @ \cup {z} ELSE @]
      /\ UNCHANGED <<moved_indexes, multi_mut, immutable_borrow>>
  BY DEF fuzzable_param
<1>5. /\ new_sequence'.functions = new_sequence.functions
      /\ new_sequence'.moved = new_sequence.moved
      /\ new_sequence'.fuzzable_params =
            Append(new_sequence.fuzzable_params, FuzzableTypeOf(CurrentType))
      /\ new_sequence'.using_traits = new_sequence.using_traits
      /\ new_sequence'.fuzzable_mut_tag =
            IF NeedMutTag(ct) THEN new_sequence.fuzzable_mut_tag \cup {z}
            ELSE new_sequence.fuzzable_mut_tag
      /\ new_sequence'.function_mut_tag = new_sequence.function_mut_tag
      /\ new_sequence'.unsafe_tag = new_sequence.unsafe_tag
  BY <1>2, <1>4 DEF ApiSequences
<1>6. a \in Params
  <2>1. api_call'.params = Append(ps, a)
    BY <1>2, <1>4 DEF ApiCalls
  <2>2. api_call'.params \in Seq(Params) /\ k \in DOMAIN api_call'.params
        /\ api_call'.params[k] = a
    <3>1. api_call'.params \in Seq(Params)
      BY <1>3 DEF ApiCalls
    <3> HIDE DEF a
    <3> QED BY <1>2, <2>1, <3>1
  <2> HIDE DEF a, k
  <2> QED BY <2>2
<1>9. a.kind = "fuzzable" /\ a.index = z /\ a.call_type = ct
  BY DEF Param
<1> HIDE DEF a, ct
<1>10. /\ NewPlace(s, t, x) /\ Arg(t, n, k) = a
       /\ ArgType(t, n, k) = InputsOf(f)[k] /\ Called(t) = Called(s)
  <2>1. /\ new_sequence \in ApiSequences /\ api_call \in ApiCalls
        /\ moved_indexes \in SUBSET Nat
        /\ new_sequence'.functions = new_sequence.functions
    BY <1>2, <1>5
  <2>2. api_call'.func = api_call.func /\ api_call'.params = Append(api_call.params, a)
    BY <1>2, <1>4 DEF ApiCalls
  <2>3. ArgAdded(s, t, n, k, f, a) /\ Called(t) = Called(s)
    BY <1>3, <1>6, <2>1, <2>2, NewArgument
  <2> HIDE DEF s, t, f, n, k
  <2> QED BY <2>3 DEF ArgAdded
<1>11. /\ s \in ApiSequences
       /\ s.moved = new_sequence.moved \cup moved_indexes
       /\ s.fuzzable_params = new_sequence.fuzzable_params
       /\ s.using_traits = new_sequence.using_traits
       /\ s.unsafe_tag = new_sequence.unsafe_tag
       /\ s.fuzzable_mut_tag = new_sequence.fuzzable_mut_tag
       /\ s.function_mut_tag = new_sequence.function_mut_tag
  BY <1>2, PendingFields
<1>12. /\ t.moved = new_sequence'.moved \cup moved_indexes'
       /\ t.fuzzable_params = new_sequence'.fuzzable_params
       /\ t.using_traits = new_sequence'.using_traits
       /\ t.unsafe_tag = new_sequence'.unsafe_tag
       /\ t.fuzzable_mut_tag = new_sequence'.fuzzable_mut_tag
       /\ t.function_mut_tag = new_sequence'.function_mut_tag
  BY <1>3, PendingFields
<1> HIDE DEF s, t, f, n, k
<1>15. /\ KindAt(t, x) = "fuzzable" /\ IndexAt(t, x) = z
       /\ Arg(t, x[1], x[2]).call_type = ct
  BY <1>9, <1>10 DEF KindAt, IndexAt
<1>16. MovedOnce(s) /\ BorrowedOnce(s) /\ SlotsInOrder(s) /\ TagsExact(s)
  BY <1>2 DEF CorrectTarget
<1>18. MovedOnce(t)
  <2>1. t.moved = s.moved \cup (IF KindAt(t, x) = "return" /\ MovesAt(t, x)
                                THEN {IndexAt(t, x)} ELSE {})
    BY <1>4, <1>5, <1>11, <1>12, <1>15
  <2> HIDE DEF x
  <2> QED BY <1>10, <1>15, <1>16, <2>1, NewPlaceMoved DEF x
<1>19. BorrowedOnce(t)
  BY <1>10, <1>15, <1>16, NewPlaceBorrowed
<1>20. SlotsInOrder(t)
  <2>1. IndexAt(t, x) = Len(s.fuzzable_params) + 1
    BY <1>11, <1>15 DEF z, NextSlot
  <2>2. \E y : t.fuzzable_params = Append(s.fuzzable_params, y)
    BY <1>5, <1>11, <1>12
  <2> QED BY <1>10, <1>11, <1>15, <1>16, <2>1, <2>2, NewPlaceSlots
<1>21. TagsExact(t)
  <2> DEFINE tag == NeedMutTag(Arg(t, x[1], x[2]).call_type)
  <2>1. /\ t.function_mut_tag = s.function_mut_tag
             \cup (IF KindAt(t, x) = "return" /\ tag THEN {IndexAt(t, x)} ELSE {})
        /\ t.fuzzable_mut_tag = s.fuzzable_mut_tag
             \cup (IF KindAt(t, x) = "fuzzable" /\ tag THEN {IndexAt(t, x)} ELSE {})
        /\ t.using_traits = s.using_traits
    BY <1>5, <1>11, <1>12, <1>15
  <2>2. t.unsafe_tag = (s.unsafe_tag
             \/ (KindAt(t, x) = "return" /\ UnsafeCall(Arg(t, x[1], x[2]).call_type)))
    <3>1. t.unsafe_tag = s.unsafe_tag /\ s.unsafe_tag \in BOOLEAN
      BY <1>2, <1>5, <1>11, <1>12, SequenceFields
    <3> QED BY <1>15, <3>1
  <2> QED BY <1>10, <1>15, <1>16, <2>1, <2>2, NewPlaceTags
<1>22. CorrectTarget(t)
  BY <1>18, <1>19, <1>20, <1>21 DEF CorrectTarget
<1>23. \A j \in DOMAIN api_call'.params :
          Noted(InputsOf(f)[j], api_call'.params[j], multi_mut', immutable_borrow')
  <2>1. api_call'.params = Append(ps, a)
    BY <1>2, <1>4 DEF ApiCalls
  <2>2. multi_mut \subseteq multi_mut' /\ immutable_borrow \subseteq immutable_borrow'
    BY <1>4
  <2>3. Noted(InputsOf(f)[Len(ps) + 1], a, multi_mut', immutable_borrow')
    BY <1>9 DEF Noted
  <2>4. ps \in Seq(Params) /\ AllNoted(f, ps, multi_mut, immutable_borrow)
    BY <1>2 DEF AllNoted
  <2> HIDE DEF ps
  <2>5. AllNoted(f, api_call'.params, multi_mut', immutable_borrow')
    BY <2>1, <2>2, <2>3, <2>4, NotedAdded
  <2> QED BY <2>5 DEF AllNoted
<1>24. api_call'.func = f
  BY <1>2, <1>4 DEF ApiCalls, f
<1> QED BY <1>22, <1>23, <1>24 DEF t

LEMMA InitCorrect == Init => CorrectInv
<1> SUFFICES ASSUME Init PROVE CorrectInv
  OBVIOUS
<1>1. LinkInv
  BY InitLinked
<1>2. Generated = {} /\ pc = "collect"
  BY DEF Generated, Init
<1>3. TargetsCorrect
  BY <1>2 DEF TargetsCorrect, ArgumentsLinked, NoUseAfterMove, NoBorrowConflict,
              SlotsUsedOnce, TagsCorrect
<1> QED BY <1>1, <1>2, <1>3 DEF CorrectInv, CorrectSoFar

LEMMA CollectCorrect ==
    ASSUME CorrectInv, Collect
    PROVE  CorrectInv'
<1>1. LinkInv'
  BY CollectLinked DEF CorrectInv
<1>2. pc' \in {"collect", "filter", "bfs"}
  BY DEF Collect, add_api_function, filter_start, filter_function,
         find_all_dependencies, CorrectInv, LinkInv, TypeInv, TypeOK
<1>3. api_sequences' = <<>>
  BY <1>1, <1>2 DEF LinkInv, LinkedSoFar
<1>4. Generated' = {}
  BY <1>3 DEF Generated
<1>5. TargetsCorrect'
  BY <1>4 DEF TargetsCorrect, ArgumentsLinked, NoUseAfterMove, NoBorrowConflict,
              SlotsUsedOnce, TagsCorrect
<1> QED BY <1>1, <1>2, <1>5 DEF CorrectInv, CorrectSoFar

\* The targets that are there already.
LEMMA GeneratedCorrect ==
    ASSUME CorrectInv
    PROVE  \A n \in DOMAIN api_sequences :
              /\ CorrectTarget(api_sequences[n])
              /\ Linked(api_sequences[n])
              /\ api_sequences[n] \in ApiSequences
<1>1. api_sequences \in Seq(ApiSequences)
  BY DEF CorrectInv, LinkInv, TypeInv, TypeOK
<1>2. \A n \in DOMAIN api_sequences : api_sequences[n] \in Generated
  BY DEF Generated
<1>3. \A s \in Generated : CorrectTarget(s) /\ Linked(s)
  BY DEF CorrectInv, TargetsCorrect, ArgumentsLinked, NoUseAfterMove,
         NoBorrowConflict, SlotsUsedOnce, TagsCorrect, CorrectTarget
<1> QED BY <1>1, <1>2, <1>3

LEMMA IsFunSatisfiedCorrect ==
    ASSUME CorrectInv, IsFunSatisfied
    PROVE  CorrectInv'
<1> USE DEF graphVars, resultVars, satVars, bfsVars, roundVars, mergeVars,
            coverVars
<1>1. LinkInv' /\ TypeInv'
  BY IsFunSatisfiedLinked DEF CorrectInv, LinkInv
<1>2. UNCHANGED api_functions /\ UNCHANGED api_sequences /\ pc = "param"
  BY DEF IsFunSatisfied, return_param, TakeReturn, fuzzable_param,
         refuse_param, add_fn
<1>3. \A n \in DOMAIN api_sequences' : CorrectTarget(api_sequences'[n])
  BY <1>2, GeneratedCorrect
<1>4. CASE return_param
  <2>1. pc' = "param"
    BY <1>4, <1>2 DEF return_param, TakeReturn
  <2> QED BY <1>1, <1>2, <1>3, <1>4, <2>1, ReturnCorrect, CorrectInvFrom
<1>5. CASE fuzzable_param
  <2>1. pc' = "param"
    BY <1>5, <1>2 DEF fuzzable_param
  <2> QED BY <1>1, <1>2, <1>3, <1>5, <2>1, FuzzableCorrect, CorrectInvFrom
<1>6. CASE refuse_param
  <2>1. pc' = "none"
    BY <1>6 DEF refuse_param
  <2> QED BY <1>1, <1>2, <1>3, <2>1, CorrectInvFrom
<1>7. CASE add_fn
  <2>1. pc' \in {"some", "none"}
    BY <1>7 DEF add_fn
  <2>2. new_sequence' = PendingOf(new_sequence, api_call, moved_indexes)
    BY <1>7 DEF add_fn, PendingOf
  <2>3. CorrectTarget(new_sequence')
    BY <1>2, <2>2, AtParam
  <2> QED BY <1>1, <1>2, <1>3, <2>1, <2>3, CorrectInvFrom
<1> QED BY <1>4, <1>5, <1>6, <1>7 DEF IsFunSatisfied

\* Keeping an accepted sequence.
LEMMA PushCorrect ==
    ASSUME CorrectInv, pc = "some", PushNewSequence
    PROVE  \A n \in DOMAIN api_sequences' : CorrectTarget(api_sequences'[n])
<1>1. /\ api_sequences \in Seq(ApiSequences) /\ new_sequence \in ApiSequences
      /\ api_sequences' = Append(api_sequences, new_sequence)
  BY DEF CorrectInv, LinkInv, TypeInv, TypeOK, PushNewSequence
<1>2. \A n \in DOMAIN api_sequences' :
         \/ n \in DOMAIN api_sequences /\ api_sequences'[n] = api_sequences[n]
         \/ api_sequences'[n] = new_sequence
  BY <1>1
<1>3. CorrectTarget(new_sequence)
  BY DEF CorrectInv, CorrectSoFar, Pending
<1> QED BY <1>2, <1>3, GeneratedCorrect

LEMMA BfsCorrect ==
    ASSUME CorrectInv, Bfs
    PROVE  CorrectInv'
<1> USE DEF graphVars, resultVars, satVars, bfsVars, roundVars, mergeVars,
            coverVars
<1>0. UNCHANGED api_functions
  BY DEF Bfs, bfs_start, bfs_level, bfs_try, bfs_skip, bfs_return,
         bfs_next_sequence, bfs_next_level, bfs_end
<1>1. LinkInv' /\ TypeOK
  BY BfsLinked DEF CorrectInv, LinkInv, TypeInv
<1>2. CASE bfs_start
  <2>1. pc' \in {"cover", "level"}
    BY <1>2 DEF bfs_start
  <2>2. api_sequences' = <<>> \/ api_sequences' = <<NewSequence>>
    BY <1>2 DEF bfs_start
  <2>3. \A n \in DOMAIN api_sequences' : api_sequences'[n] = NewSequence
    BY <2>2
  <2>4. \A n \in DOMAIN api_sequences' : CorrectTarget(api_sequences'[n])
    BY <2>3, NewCorrect
  <2> QED BY <1>0, <1>1, <2>1, <2>4, CorrectInvFrom
<1>3. CASE bfs_try
  <2>1. PICK n \in tmp_sequences : Satisfy(api_sequences[n], next_fun, "bfs")
    BY <1>3 DEF bfs_try
  <2>2. /\ n \in DOMAIN api_sequences /\ next_fun \in Funs
    BY <1>1, <1>3, <2>1 DEF bfs_try, TypeOK
  <2>3. api_sequences[n] \in ApiSequences /\ CorrectTarget(api_sequences[n])
    BY <2>2, GeneratedCorrect
  <2>4. /\ CorrectTarget(PendingOf(new_sequence', api_call', moved_indexes'))
        /\ DOMAIN api_call'.params = {}
    BY <1>1, <2>1, <2>2, <2>3, SatisfyCorrect DEF Callers, DefaultCallers
  <2>5. pc' = "param" /\ UNCHANGED api_sequences
    BY <1>3, <2>1 DEF bfs_try, Satisfy
  <2> QED BY <1>0, <1>1, <2>4, <2>5, GeneratedCorrect, CorrectInvFrom
<1>4. CASE bfs_return
  <2>1. pc' = "extend"
    BY <1>4 DEF bfs_return
  <2>2. \A n \in DOMAIN api_sequences' : CorrectTarget(api_sequences'[n])
    <3>1. CASE pc = "some"
      BY <1>4, <3>1, PushCorrect DEF bfs_return
    <3>2. CASE pc # "some"
      <4>1. UNCHANGED api_sequences
        BY <1>4, <3>2 DEF bfs_return
      <4> QED BY <4>1, GeneratedCorrect
    <3> QED BY <3>1, <3>2
  <2> QED BY <1>0, <1>1, <2>1, <2>2, CorrectInvFrom
<1>5. CASE bfs_level \/ bfs_skip \/ bfs_next_sequence \/ bfs_next_level \/ bfs_end
  <2>1. /\ pc' \in {"extend", "level", "cover", "done"}
        /\ UNCHANGED api_sequences
    BY <1>5 DEF bfs_level, bfs_skip, bfs_next_sequence, bfs_next_level, bfs_end
  <2> QED BY <1>0, <1>1, <2>1, GeneratedCorrect, CorrectInvFrom
<1> QED BY <1>2, <1>3, <1>4, <1>5 DEF Bfs

LEMMA CoverCorrect ==
    ASSUME CorrectInv, Cover
    PROVE  CorrectInv'
<1> USE DEF graphVars, resultVars, satVars, bfsVars, roundVars, mergeVars,
            coverVars
<1>0. UNCHANGED api_functions
  BY DEF Cover, cover_start, cover_round, cover_skip, cover_node,
         merge_sequences, cover_try, cover_return, cover_end_round, cover_end
<1>1. LinkInv' /\ TypeOK
  BY CoverLinked DEF CorrectInv, LinkInv, TypeInv
<1>2. ASSUME pc = "merge"
      PROVE  CorrectTarget(new_sequence) /\ Linked(new_sequence)
             /\ new_sequence \in ApiSequences
  BY <1>1, <1>2 DEF CorrectInv, CorrectSoFar, Pending, LinkInv, LinkedSoFar, TypeOK
<1>3. ASSUME NEW f \in todo, cover_node(f) PROVE CorrectInv'
  <2>1. /\ pc' = "merge" /\ UNCHANGED api_sequences
        /\ new_sequence' = NewSequence
    BY <1>3 DEF cover_node
  <2>2. CorrectTarget(new_sequence')
    BY <2>1, NewCorrect
  <2> QED BY <1>0, <1>1, <2>1, <2>2, GeneratedCorrect, CorrectInvFrom
<1>4. CASE merge_sequences
  <2>1. PICK k \in to_merge :
           new_sequence' =
                IF to_merge = DOMAIN dependents
                THEN api_sequences[dependents[k]]
                ELSE MergeAnother(new_sequence, api_sequences[dependents[k]])
    BY <1>4 DEF merge_sequences
  <2> DEFINE s == api_sequences[dependents[k]]
  <2>2. dependents[k] \in DOMAIN api_sequences
    BY <1>1, <2>1 DEF TypeOK
  <2>3. s \in ApiSequences /\ Linked(s) /\ CorrectTarget(s)
    BY <2>2, GeneratedCorrect
  <2>4. pc = "merge" /\ pc' = "merge" /\ UNCHANGED api_sequences
    BY <1>4 DEF merge_sequences
  <2>5. CorrectTarget(MergeAnother(new_sequence, s))
    <3> HIDE DEF s
    <3> QED BY <1>2, <2>3, <2>4, MergeCorrect
  <2>6. CorrectTarget(new_sequence')
    BY <2>1, <2>3, <2>5
  <2> QED BY <1>0, <1>1, <2>4, <2>6, GeneratedCorrect, CorrectInvFrom
<1>5. CASE cover_try
  <2>1. Satisfy(new_sequence, api_call.func, "cover")
    BY <1>5 DEF cover_try
  <2>2. api_call.func \in Funs /\ pc = "merge"
    BY <1>5 DEF cover_try, CorrectInv, LinkInv, TypeInv, Located
  <2>3. /\ CorrectTarget(PendingOf(new_sequence', api_call', moved_indexes'))
        /\ DOMAIN api_call'.params = {}
    BY <1>1, <1>2, <2>1, <2>2, SatisfyCorrect DEF Callers, DefaultCallers
  <2>4. pc' = "param" /\ UNCHANGED api_sequences
    BY <1>5, <2>1 DEF cover_try, Satisfy
  <2> QED BY <1>0, <1>1, <2>3, <2>4, GeneratedCorrect, CorrectInvFrom
<1>6. CASE cover_return
  <2>1. pc' = "node"
    BY <1>6 DEF cover_return
  <2>2. \A n \in DOMAIN api_sequences' : CorrectTarget(api_sequences'[n])
    <3>1. CASE pc = "some"
      BY <1>6, <3>1, PushCorrect DEF cover_return
    <3>2. CASE pc # "some"
      <4>1. UNCHANGED api_sequences
        BY <1>6, <3>2 DEF cover_return
      <4> QED BY <4>1, GeneratedCorrect
    <3> QED BY <3>1, <3>2
  <2> QED BY <1>0, <1>1, <2>1, <2>2, CorrectInvFrom
<1>7. CASE \/ cover_start \/ cover_round \/ cover_end_round \/ cover_end
           \/ \E f \in todo : cover_skip(f)
  <2>1. /\ pc' \in {"round", "node", "done"}
        /\ UNCHANGED api_sequences
    BY <1>7 DEF cover_start, cover_round, cover_end_round, cover_end, cover_skip
  <2> QED BY <1>0, <1>1, <2>1, GeneratedCorrect, CorrectInvFrom
<1> QED BY <1>3, <1>4, <1>5, <1>6, <1>7 DEF Cover

LEMMA StutterCorrect ==
    ASSUME CorrectInv, UNCHANGED vars
    PROVE  CorrectInv'
<1> USE DEF vars, graphVars, resultVars, satVars, bfsVars, roundVars,
            mergeVars, coverVars
<1>1. LinkInv'
  BY StutterLinked DEF CorrectInv
<1>2. /\ UNCHANGED api_functions /\ UNCHANGED api_sequences
      /\ UNCHANGED new_sequence /\ UNCHANGED api_call /\ UNCHANGED pc
      /\ UNCHANGED moved_indexes /\ UNCHANGED multi_mut
      /\ UNCHANGED immutable_borrow
  OBVIOUS
<1>3. pc \in {"merge", "some"} => CorrectTarget(new_sequence)
  BY DEF CorrectInv, CorrectSoFar, Pending
<1> QED BY <1>1, <1>2, <1>3, AtParam, GeneratedCorrect, CorrectInvFrom

\* CorrectInv is inductive.
LEMMA CorrectStep == CorrectInv /\ [Next]_vars => CorrectInv'
BY CollectCorrect, IsFunSatisfiedCorrect, BfsCorrect, CoverCorrect, StutterCorrect
   DEF Next, Terminated

\* No target that bfs or the backward search generates is refused by the
\* compiler for what is_fun_satisfied and the merge keep track of: arguments,
\* moves, borrows within a call, slots and tags.
THEOREM TargetsAreCorrect == Spec => []TargetsCorrect
<1>1. CorrectInv => TargetsCorrect
  BY DEF CorrectInv
<1> QED BY <1>1, InitCorrect, CorrectStep, PTL DEF Spec

\* No target uses a value after the call that moved it, and the moved set that
\* decides about later calls is exact, through renumbering and merging.
THEOREM NothingUsedAfterMove == Spec => []NoUseAfterMove
<1>1. TargetsCorrect => NoUseAfterMove
  BY DEF TargetsCorrect
<1> QED BY <1>1, TargetsAreCorrect, PTL

\* No call of a target takes a value mutably and once more.
THEOREM BorrowsDoNotConflict == Spec => []NoBorrowConflict
<1>1. TargetsCorrect => NoBorrowConflict
  BY DEF TargetsCorrect
<1> QED BY <1>1, TargetsAreCorrect, PTL

\* Every slot of a target is passed exactly once, in the order in which the
\* generated code reads the slots.
THEOREM SlotsAreUsedOnce == Spec => []SlotsUsedOnce
<1>1. TargetsCorrect => SlotsUsedOnce
  BY DEF TargetsCorrect
<1> QED BY <1>1, TargetsAreCorrect, PTL

\* The mut, unsafe and trait tags of a target are exactly those its calls need.
THEOREM TagsAreCorrect == Spec => []TagsCorrect
<1>1. TargetsCorrect => TagsCorrect
  BY DEF TargetsCorrect
<1> QED BY <1>1, TargetsAreCorrect, PTL
=============================================================================
