-------------------------- MODULE ArgumentEmission --------------------------
(***************************************************************************)
(* How one argument of a generated call is printed (api_sequence.rs,       *)
(* _generate_function_body_string; call_type.rs,                           *)
(* _split_at_unwrap_call_type and _to_call_string): the call type is cut   *)
(* at its unwraps, each piece but the last becomes a `let` of a helper     *)
(* variable, and the last piece is the argument itself.                    *)
(*                                                                         *)
(* A printed expression is a call type and the variable it is applied to.  *)
(* The second half of the module says which of them the Rust compiler      *)
(* accepts, and with which type.                                           *)
(***************************************************************************)
EXTENDS ApiUtil, SequencesExt, FiniteSets

CONSTANTS
    Arguments,    \* [var_type, param_type, call_type] of the arguments
    FullNames     \* the structs that full_name_map has a usable path for

VARIABLES
    pc,
    arg,
    split,            \* call_type_array
    k,                \* loop counter, from 1
    former_param,     \* 0 is the variable of arg, n the helper of line n
    former_line,      \* former_helper_line: at most one line, not yet printed
    lines,            \* the helper lines printed
    param_string      \* the expression passed to the call: at most one

vars == <<pc, arg, split, k, former_param, former_line, lines, param_string>>

-----------------------------------------------------------------------------
(* call_type.rs                                                            *)

Unwraps == {"UnwrapOption", "UnwrapResult"}
is_unwrap_call_type(ct) == TopIs(ct, Unwraps)

\* Where a piece of the call type begins.
Cuts(ct) == {n \in DOMAIN ct : n = 1 \/ ct[n] \in Unwraps}

Piece(ct, n) ==
    LET later == {m \in Cuts(ct) : m > n}
        end == IF later = {} THEN Len(ct) ELSE Min(later) - 1
    IN SubSeq(ct, n, end)


\* The pieces, innermost first; behind a last piece that is an unwrap the
\* helper variable is passed as it is.
split_at_unwrap_call_type(ct) ==
    IF ~contains_move_call_type(ct) THEN <<ct>>
    ELSE LET starts == SetToSortSeq(Cuts(ct), >)
             pieces == [j \in DOMAIN starts |-> Piece(ct, starts[j])]
         IN IF is_unwrap_call_type(ct) THEN Append(pieces, DirectCall)
                                       ELSE pieces

\* prelude_type.rs, _from_call_type: the unwrap functions that the target
\* defines for this argument.
prelude_helpers(ct) == {ct[n] : n \in DOMAIN ct} \cap Unwraps

\* _to_type_string: the type of _param{i} in the header of the test function.
to_type_string(ft) ==
    CASE ft[1] = "RefStr" -> <<"&", "str">>
      [] ft[1] = "RefSlice" -> <<"&", "[]">> \o Tail(ft)
      [] OTHER -> ft

\* The clean::Type that a raw-pointer wrapper carries, its pointee: the
\* wrappers down to the n-th stand for as many layers of the parameter's type.
carried_type(n) == SubSeq(arg.param_type, n + 1, Len(arg.param_type))

\* GetDefId of a Type goes through references to the type below them.
RECURSIVE Referent(_)
Referent(t) == IF Head(t) \in SharedRefs \cup {"&mut"} THEN Referent(Tail(t))
               ELSE t

Unsupported == <<"Currently not supported">>

\* _type_name, as the type that the text stands for.  A path in full_name_map
\* is printed without its type arguments and without references to it, any
\* other reference without its mut.
RECURSIVE type_name(_)
type_name(t) ==
    CASE Head(Referent(t)) \in FullNames \cup {"Option", "Result"} ->
           <<Head(Referent(t))>>
      [] Head(t) \in Primitives \cup {GenericBase} -> t
      [] Head(t) \in SharedRefs \cup {"&mut"} -> <<"&">> \o type_name(Tail(t))
      [] OTHER -> Unsupported

-----------------------------------------------------------------------------
Line(ct, of, mut) == [call |-> ct, of |-> of, mut |-> mut]

Init ==
    /\ pc = "split"
    /\ arg \in Arguments
    /\ split = <<>>
    /\ k = 1
    /\ former_param = 0
    /\ former_line = <<>>
    /\ lines = <<>>
    /\ param_string = <<>>

split_call_type ==
    /\ pc = "split"
    /\ split' = split_at_unwrap_call_type(arg.call_type)
    /\ pc' = "lines"
    /\ UNCHANGED <<arg, k, former_param, former_line, lines, param_string>>

\* The line before, printed with `mut` only if what uses it borrows mutably.
FormerUsedBy(ct) ==
    [j \in DOMAIN former_line |->
        [former_line[j] EXCEPT !.mut = need_mut_tag(ct)]]

helper_line ==
    /\ pc = "lines"
    /\ k < Len(split)
    /\ lines' = lines \o FormerUsedBy(split[k])
    /\ former_line' = <<Line(split[k], former_param, TRUE)>>
    /\ former_param' = k
    /\ k' = k + 1
    /\ UNCHANGED <<pc, arg, split, param_string>>

last_piece ==
    /\ pc = "lines"
    /\ k = Len(split)
    /\ lines' = lines \o FormerUsedBy(split[k])
    /\ former_line' = <<>>
    /\ param_string' = <<Line(split[k], former_param, FALSE)>>
    /\ pc' = "done"
    /\ UNCHANGED <<arg, split, k, former_param>>

Terminated == pc = "done" /\ UNCHANGED vars

Next == split_call_type \/ helper_line \/ last_piece \/ Terminated

Spec == Init /\ [][Next]_vars

-----------------------------------------------------------------------------
(* What rustc makes of it.  An expression is a variable, a place behind a  *)
(* pointer, or a value.                                                    *)

NoType == <<"no type">>

RECURSIVE IsCopy(_)
IsCopy(t) ==
    \/ copy_type(t)
    \/ Head(t) = "Option" /\ IsCopy(Tail(t))

Expr(t, kind, ptr, problems) ==
    [type |-> t, kind |-> kind, ptr |-> ptr, problems |-> problems]
Value(t, e, problems) ==
    Expr(t, "value", "none", e.problems \cup problems)

\* Moving out of a place behind a pointer is an error, copying is not.
MoveProblem(e) == IF e.kind = "place" /\ ~IsCopy(e.type) THEN {"move"} ELSE {}
TypeProblem(ok) == IF ok THEN {} ELSE {"type"}

\* A variable can be borrowed mutably if it is declared `mut`, a place if it
\* is behind a mutable pointer.
MutProblem(e, mut) ==
    IF \/ e.kind = "variable" /\ ~mut
       \/ e.kind = "place" /\ e.ptr \notin MutTypes
    THEN {"mut"} ELSE {}

Pointers == SharedRefs \cup {"&mut"} \cup RawPointers

\* A raw pointer is dereferenced, and the argument has not asked for the
\* unsafe block around the body.
UnsafeProblem(e) ==
    IF Head(e.type) \in RawPointers /\ ~unsafe_call_type(arg.call_type)
    THEN {"unsafe"} ELSE {}

Peel(t) == IF Len(t) > 1 THEN Tail(t) ELSE NoType

\* _unwrap_option and _unwrap_result are functions of the target.
HelperProblem(w) ==
    IF w \in prelude_helpers(arg.call_type) THEN {} ELSE {"helper"}

\* `&(e) as *const N` and `&(e) as *mut N`: a reference can only be cast to a
\* shared pointer to what it refers to.
CastProblem(e, ptr, printed) ==
    IF ptr = "*const" /\ printed = e.type THEN {} ELSE {"cast"}
Cast(e, ptr, printed) ==
    Value(<<ptr>> \o printed, e, CastProblem(e, ptr, printed))

\* One wrapper of _to_call_string around expression e; ty is the type that it
\* carries if it is a raw pointer.
Apply(w, ty, e, mut) ==
    CASE w = "BorrowedRef"     -> Value(<<"&">> \o e.type, e, {})
      [] w = "MutBorrowedRef"  -> Value(<<"&mut">> \o e.type, e,
                                        MutProblem(e, mut))
      [] w = "ConstRawPointer" -> Cast(e, "*const", type_name(ty))
      [] w = "MutRawPointer"   -> Cast(e, "*mut", type_name(ty))
      [] w = "ToOption" -> Value(<<"Option">> \o e.type, e, MoveProblem(e))
      [] w = "ToResult" -> Value(<<"Result">> \o e.type, e, MoveProblem(e))
      [] w = "UnwrapOption" ->
           Value(Peel(e.type), e,
                 MoveProblem(e) \cup HelperProblem(w)
                   \cup TypeProblem(Head(e.type) = "Option"))
      [] w = "UnwrapResult" ->
           Value(Peel(e.type), e,
                 MoveProblem(e) \cup HelperProblem(w)
                   \cup TypeProblem(Head(e.type) = "Result"))
      \* both are printed as `*(e)`
      [] w \in {"Deref", "UnsafeDeref"} ->
           Expr(Peel(e.type), "place", Head(e.type),
                e.problems \cup UnsafeProblem(e)
                  \cup TypeProblem(Head(e.type) \in Pointers))
      [] w = "AsConvert" ->
           Value(<<arg.param_type[Len(arg.param_type)]>>, e,
                 TypeProblem(Head(e.type) \in Primitives \ {"str"}))

\* The expression a line or the argument consists of, in an environment that
\* gives the variables their types and mut flags.
ExprOf(line, env) ==
    FoldRight(LAMBDA n, e : Apply(line.call[n], carried_type(n), e,
                                  env[line.of].mut),
              [n \in DOMAIN line.call |-> n],
              Expr(env[line.of].type, "variable", "none", {}))

Used(e) == [e EXCEPT !.problems = @ \cup MoveProblem(e)]

\* The variables after the lines so far, and the problems met on the way.
DeclareAll ==
    FoldLeft(LAMBDA env, line :
               LET e == Used(ExprOf(line, env.vars)) IN
               [vars |-> [j \in 0 .. Cardinality(DOMAIN env.vars) |->
                            IF j \in DOMAIN env.vars THEN env.vars[j]
                            ELSE [type |-> e.type, mut |-> line.mut]],
                problems |-> env.problems \cup e.problems],
             [vars |-> [j \in {0} |-> [type |-> arg.var_type,
                                       mut |-> need_mut_tag(arg.call_type)]],
              problems |-> {}],
             lines)

\* The errors in the printed argument.
Problems ==
    IF pc # "done" THEN {}
    ELSE LET env == DeclareAll
             e == Used(ExprOf(param_string[1], env.vars))
         IN env.problems \cup e.problems
              \cup TypeProblem(e.type = arg.param_type)
-----------------------------------------------------------------------------
(* Properties                                                              *)

Wrappers(ct) == {ct[n] : n \in DOMAIN ct}
Layered == Unwraps \cup {"Deref", "UnsafeDeref"}

\* The elements of a slice are themselves references, pointers or options.
SliceOfWrapped(t) ==
    \E n \in 1 .. Len(t) - 1 : t[n] = "[]" /\ t[n + 1] \notin Primitives

\* A struct with a path, a primitive, or shared references to a primitive.
Printable(t) ==
    LET base == t[Len(t)] IN
    \/ Len(t) = 1 /\ base \in FullNames
    \/ base \in Primitives /\ \A n \in 1 .. Len(t) - 1 : t[n] \in SharedRefs

\* The arguments that print as the parameter asks: no cast to *mut, only casts
\* to *const of types that have a name, no raw pointer to read through, the
\* layers of the result all of one kind, no slice of wrapped elements, and a
\* mutable borrow outermost or of a nameless value.
Plain(a) ==
    LET ct == a.call_type IN
    /\ Wrappers(ct) \cap {"MutRawPointer", "UnsafeDeref"} = {}
    /\ \A n \in DOMAIN ct : ct[n] = "ConstRawPointer" =>
         Printable(SubSeq(a.param_type, n + 1, Len(a.param_type)))
    /\ Cardinality(Wrappers(ct) \cap Layered) <= 1
    /\ ~SliceOfWrapped(a.param_type)
    /\ \A n \in DOMAIN ct :
         ct[n] = "MutBorrowedRef" /\ ~need_mut_tag(ct)
           => n < Len(ct) /\ ct[n + 1] \notin Layered

=============================================================================
