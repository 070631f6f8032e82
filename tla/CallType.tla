------------------------------ MODULE CallType ------------------------------
(***************************************************************************)
(* How a generated call passes a variable as an argument (call_type.rs).   *)
(*                                                                         *)
(* The enum CallType is a chain of wrappers around a leaf.  Here it is the *)
(* sequence of the wrappers' names, outermost first, as                    *)
(* _call_type_to_array lists them; the leaf _DirectCall is left out, so    *)
(* DirectCall is the empty sequence and _BorrowedRef(_UnwrapOption(        *)
(* _DirectCall)) is <<"BorrowedRef", "UnwrapOption">>.  The clean::Type    *)
(* that a raw-pointer wrapper carries is the rest of the parameter's type  *)
(* below it and is left out (carried_type in ArgumentEmission).            *)
(***************************************************************************)
EXTENDS Sequences, Integers

\* The two other leaves.  NotCompatible never occurs below a wrapper.
NotCompatibleCall == <<"NotCompatible">>
AsConvert  == <<"AsConvert">>
DirectCall == <<>>

\* The match on the outermost constructor, as call_type.rs and api_util.rs
\* do it everywhere.
TopIs(ct, names) == ct # <<>> /\ ct[1] \in names

\* _contains_unwrap_call_type descends through every wrapper;
\* _contains_move_call_type is the same test.
contains_move_call_type(ct) ==
    \E n \in DOMAIN ct : ct[n] \in {"UnwrapOption", "UnwrapResult"}

\* Only the outermost wrapper is inspected.
unsafe_call_type(ct) == TopIs(ct, {"UnsafeDeref"})
=============================================================================
