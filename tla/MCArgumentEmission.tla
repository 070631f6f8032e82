------------------------- MODULE MCArgumentEmission -------------------------
(***************************************************************************)
(* The arguments that the generator passes, for types of up to two layers. *)
(***************************************************************************)
EXTENDS ArgumentEmission

Layers == {"&", "&mut", "*const", "*mut", "Option", "Result"}
TypesOver(base) == {<<base>>} \cup {<<a, base>> : a \in Layers}
                     \cup {<<a, b, base>> : a, b \in Layers}
\* T is a struct of the crate, E one of another crate.
Outputs == TypesOver("T") \cup TypesOver("E") \cup TypesOver("i32") \cup {<<"u8">>}
Inputs  == {i \in TypesOver("T") \cup TypesOver("E") \cup TypesOver("i32") :
              ~is_fuzzable_type(i)}

ReturnArguments ==
    {a \in {[var_type |-> o, param_type |-> i, call_type |-> same_type(o, i)] :
              o \in Outputs, i \in Inputs} :
       a.call_type # NotCompatibleCall}

\* The parameters that are read from the bytes and not refused as unsupported;
\* a bare str has no size (see MCAflLayout).
FuzzableInputs ==
    {i \in TypesOver("i32") \cup {<<a, "&", "str">> : a \in Layers}
            \cup {<<"&", "[]">> \o t : t \in TypesOver("i32")}
            \cup {<<a, "&", "[]", "u8">> : a \in Layers} :
       /\ is_fuzzable_type(i)
       /\ fuzzable_type(i) # NoFuzzable
       /\ ~is_multiple_dynamic_length(fuzzable_type(i))}
FuzzableArguments ==
    {[var_type |-> to_type_string(fuzzable_type(i)), param_type |-> i,
      call_type |-> fuzzable_call(i)] : i \in FuzzableInputs}

AllArguments == ReturnArguments \cup FuzzableArguments
=============================================================================
