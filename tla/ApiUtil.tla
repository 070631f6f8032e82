------------------------------ MODULE ApiUtil -------------------------------
(***************************************************************************)
(* The type-level half of the generator: when the result of one API can be *)
(* passed to a parameter of another and how (api_util.rs), and which       *)
(* parameters are read from the fuzzer's bytes instead (fuzzable_type.rs,  *)
(* prelude_type.rs).                                                       *)
(*                                                                         *)
(* A clean::Type with one type argument is the path of its constructors,   *)
(* e.g. <<"&mut", "Option", "T">>: references, raw pointers, Option,       *)
(* Result (only its Ok type, as _get_final_type), slices and arrays around *)
(* a base.  A base is a primitive, the generic parameter, or otherwise a   *)
(* struct, enum or union (ResolvedPath).  Tuples, function pointers, QPath *)
(* and impl Trait are not represented.  "&static" is a reference with the  *)
(* 'static lifetime, the only lifetime the code looks at.                  *)
(***************************************************************************)
EXTENDS CallType

Integral   == {"i8", "u8", "i32", "u32", "usize"}
Floats     == {"f64"}
Primitives == Integral \cup Floats \cup {"char", "bool", "str"}
GenericBase == "G"

SharedRefs == {"&", "&static"}
RawPointers == {"*const", "*mut"}

--------------------------------------------------------------------------
(* The mutability a BorrowedRef or RawPointer parameter asks for.          *)
MutTypes  == {"&mut", "*mut"}
SharedTypes == {"&", "&static", "*const"}

is_generic_type(t) == t[Len(t)] = GenericBase

\* A type after which a sequence needs no further call.
RECURSIVE is_end_type(_)
is_end_type(t) ==
    \/ Head(t) \in Primitives
    \/ /\ Len(t) > 1
       /\ is_end_type(Tail(t))

\* Passed by copying.  Structs and slices never are, whatever they derive.
RECURSIVE copy_type(_)
copy_type(t) ==
    \/ Head(t) \in Primitives \ {"str"}
    \/ Head(t) \in SharedTypes \cup {"*mut"}
    \/ /\ Head(t) = "[n]"
       /\ copy_type(Tail(t))

--------------------------------------------------------------------------
(* Compatibility of an output type o with an input type i.                 *)

\* The wrapper is only added around a compatible inner call.
Around(wrapper, inner) ==
    IF inner = NotCompatibleCall THEN inner ELSE <<wrapper>> \o inner

\* An `as` cast between numbers; char only to and from u8.  The equal types
\* were dealt with before.
same_type_primitive(p, i) ==
    IF \/ {p, i} \subseteq Integral \cup Floats
       \/ {p, i} = {"char", "u8"}
    THEN AsConvert ELSE NotCompatibleCall

\* Input references and pointers are peeled first, then an input Option or
\* Result, and only then the layers of the output type.
RECURSIVE same_type(_, _)
same_type(o, i) ==
    CASE o = i -> DirectCall
      [] Head(i) \in SharedRefs -> Around("BorrowedRef", same_type(o, Tail(i)))
      [] Head(i) = "&mut"   -> Around("MutBorrowedRef", same_type(o, Tail(i)))
      [] Head(i) = "*const" -> Around("ConstRawPointer", same_type(o, Tail(i)))
      [] Head(i) = "*mut"   -> Around("MutRawPointer", same_type(o, Tail(i)))
      [] Head(i) = "Option" -> Around("ToOption", same_type(o, Tail(i)))
      [] Head(i) = "Result" -> Around("ToResult", same_type(o, Tail(i)))
      [] OTHER ->
         CASE Head(o) = "Option" -> Around("UnwrapOption", same_type(Tail(o), i))
           [] Head(o) = "Result" -> Around("UnwrapResult", same_type(Tail(o), i))
           [] Head(o) \in RawPointers ->
                  Around("UnsafeDeref", same_type(Tail(o), i))
           [] Head(o) \in SharedRefs \cup {"&mut"} ->
                  IF copy_type(Tail(o))
                  THEN Around("Deref", same_type(Tail(o), i))
                  ELSE NotCompatibleCall
           [] Head(o) \in Primitives ->
                  same_type_primitive(Head(o), Head(i))
           [] OTHER -> NotCompatibleCall

--------------------------------------------------------------------------
(* What passing a result to an input of type i does to the result.         *)

move_condition(i, ct) ==
    \/ contains_move_call_type(ct)
    \/ /\ ~copy_type(i)
       /\ \/ ct = DirectCall
          \/ TopIs(ct, {"Deref", "UnsafeDeref", "UnwrapOption", "UnwrapResult"})

is_mutable_borrow_occurs(i, ct) ==
    /\ ~contains_move_call_type(ct)
    /\ Head(i) \in MutTypes
    /\ \/ ct = DirectCall
       \/ TopIs(ct, {"MutBorrowedRef", "MutRawPointer"})

is_immutable_borrow_occurs(i, ct) ==
    /\ Head(i) \in SharedTypes
    /\ \/ ct = DirectCall
       \/ TopIs(ct, {"BorrowedRef", "ConstRawPointer"})

need_mut_tag(ct) == TopIs(ct, {"MutBorrowedRef", "MutRawPointer"})

--------------------------------------------------------------------------
(* Parameters filled from the fuzzer's bytes (fuzzable_type.rs).           *)

\* fuzzable_call_type(t) # NoFuzzable.
RECURSIVE is_fuzzable_type(_)
is_fuzzable_type(t) ==
    CASE t = <<"&static", "str">> -> FALSE
      [] Head(t) \in Primitives -> TRUE
      [] Len(t) = 1 -> FALSE
      [] Head(t) = "Result" -> FALSE
      [] OTHER -> is_fuzzable_type(Tail(t))

NoFuzzable == <<"NoFuzzable">>

\* generate_fuzzable_type_and_call_type: the pair of the type that is read
\* from the bytes and the way the variable is passed.  A slice behind a
\* shared reference is read whole; any other slice or array cannot be read.
RECURSIVE generate_fuzzable_type_and_call_type(_)
generate_fuzzable_type_and_call_type(t) ==
    LET none == <<NoFuzzable, NotCompatibleCall>>
        inner == generate_fuzzable_type_and_call_type(Tail(t))
        Wrap(wrapper) == IF inner[1] = NoFuzzable THEN none
                         ELSE <<inner[1], <<wrapper>> \o inner[2]>>
    IN CASE ~is_fuzzable_type(t) -> none
         [] Head(t) \in Primitives -> <<t, DirectCall>>
         [] Head(t) \in {"[]", "[n]"} -> none
         [] Head(t) \in SharedRefs /\ t[2] = "str" -> <<<<"RefStr">>, DirectCall>>
         [] Head(t) \in SharedRefs /\ t[2] = "[]" ->
              LET elem == generate_fuzzable_type_and_call_type(Tail(Tail(t)))
              IN IF elem[1] = NoFuzzable THEN none
                 ELSE << <<"RefSlice">> \o elem[1], DirectCall >>
         [] Head(t) \in SharedRefs -> Wrap("BorrowedRef")
         [] Head(t) = "&mut"   -> Wrap("MutBorrowedRef")
         [] Head(t) = "*const" -> Wrap("ConstRawPointer")
         [] Head(t) = "*mut"   -> Wrap("MutRawPointer")
         [] Head(t) = "Option" -> Wrap("ToOption")

fuzzable_type(t) == generate_fuzzable_type_and_call_type(t)[1]
fuzzable_call(t) == generate_fuzzable_type_and_call_type(t)[2]

is_fixed_length(ft) == Head(ft) \notin {"RefSlice", "RefStr"}

is_multiple_dynamic_length(ft) ==
    Head(ft) = "RefSlice" /\ ~is_fixed_length(Tail(ft))
=============================================================================
