------------------------------ MODULE Exchange ------------------------------
(***************************************************************************)
(* The code of a function as bytecode (compile_lir_bytecode), and through  *)
(* the JSON exchange format to another process: qy export writes it with   *)
(* serialize_bytecode_json, run_bytecode_json reads it with                *)
(* load_bytecode_json.                                                     *)
(*                                                                         *)
(* A constant is a value [k, a]: nil, T, none, the host's None, a scalar   *)
(* of the host (int, string), a symbol, a chain of head and tail, a tuple  *)
(* or list of the host, a value of qy.sem.core (a class and its fields),   *)
(* or any other object of the host.  A payload is [type, class, value]:    *)
(* class is "" where JSON has none, value the payloads inside.  The end of *)
(* a proper chain is JSON's null.  Operands that are registers, targets    *)
(* and symbols are numbers and names in JSON too, and stay as they are.    *)
(***************************************************************************)
EXTENDS LirVerify

\* The value classes, their type_name, and the host value in their field.
SemanticClasses == [IntValue |-> "int", StringValue |-> "string", TupleValue |-> "tuple"]

Payload(type, class, value) == [type |-> type, class |-> class, value |-> value]
Null == Payload("null", "", <<>>)
ChainNode(head, tail) == Payload("node", "", <<head, tail>>)    \* {"head", "tail"}

-----------------------------------------------------------------------------
(* serialize_bytecode_json. *)

RECURSIVE encode_value(_)
RECURSIVE encode_chain(_)

encode_chain(v) ==
    CASE v \in {PyNone, Nil} -> Null
      [] v.k = "chain" -> ChainNode(encode_value(v.a[1]), encode_chain(v.a[2]))
      [] OTHER -> encode_value(v)

encode_value(v) ==
    LET inner == [i \in DOMAIN v.a |-> encode_value(v.a[i])]
    IN CASE v \in {PyNone, Nil} -> Payload("nil", "", <<>>)
         [] v.k \in {"t", "none", "int", "string", "symbol"} -> Payload(v.k, "", <<>>)
         [] v.k = "chain" -> Payload("chain", "", <<encode_chain(v)>>)
         [] v.k \in {"list", "tuple"} -> Payload(v.k, "", inner)
         [] v.k \in DOMAIN SemanticClasses -> Payload(SemanticClasses[v.k], v.k, inner)
         [] OTHER -> Payload("unknown", "", <<>>)

-----------------------------------------------------------------------------
(* load_bytecode_json.  Decoding an unknown payload raises; the error is    *)
(* the value Raised, wherever in the constant it comes up.                  *)

Raised == X("raised", <<>>)

RECURSIVE decode_value(_)
RECURSIVE decode_chain(_)

\* Mutation of decode_chain: whatever is not null is taken for a node of the chain.
MutDecodeAnyNode(p) ==
    IF p = Null THEN Nil
    ELSE IF p.type # "node" THEN X("chain", <<PyNone, Nil>>)
    ELSE X("chain", <<decode_value(p.value[1]), decode_chain(p.value[2])>>)

decode_chain(p) ==
    CASE p = Null -> Nil
      [] p.type # "node" -> decode_value(p)
      [] OTHER -> X("chain", <<decode_value(p.value[1]), decode_chain(p.value[2])>>)

\* A payload with a class is a value of that class, whatever its type says: the
\* type names of the classes are those of host values as well.
decode_value(p) ==
    LET inner == [i \in DOMAIN p.value |-> decode_value(p.value[i])]
    IN CASE p.class # "" -> X(p.class, inner)
         [] p.type = "chain" -> decode_chain(p.value[1])
         [] p.type = "unknown" -> Raised
         [] OTHER -> X(p.type, inner)

RECURSIVE HasPart(_, _)
HasPart(v, part) == v = part \/ \E i \in DOMAIN v.a : HasPart(v.a[i], part)

-----------------------------------------------------------------------------
(* Bytecode: constant i is the operand of instruction i. *)

_BYTECODE_OPCODES ==
    {"LOAD_HOST", "LOAD_ENV", "MOVE", "CALL", "TAIL_CALL", "CALL_BUILTIN", "ENTER_SCOPE", "EXIT_SCOPE",
     "STORE_LOCAL", "HANDLE", "PERFORM", "JUMP", "JUMP_IF_FALSE", "RETURN", "RAISE_EFFECT",
     "MAKE_FUNCTION", "CALL_BODY", "CALL_HANDLER"} \cup _ABSTRACT_MACHINE_ONLY_OPCODES
_COMPAT_ONLY_LIR_OPCODES == {"LOAD_NIL", "LOAD_T"}
Supported(dialect) ==
    (_BYTECODE_OPCODES \ (IF dialect = "compat" THEN _ABSTRACT_MACHINE_ONLY_OPCODES ELSE {}))
    \cup _COMPAT_ONLY_LIR_OPCODES

_unsupported_opcode_diagnostics(f, dialect) ==
    {i \in DOMAIN f.code : f.code[i].op \notin Supported(dialect)}

_lir_to_bytecode_operands(ins, consts) ==
    CASE ins.op = "LOAD_NIL" -> Nil
      [] ins.op = "LOAD_T" -> T
      [] ins.op = "LOAD_HOST" -> consts[ins.ref]
      [] OTHER -> Unset

_encode_instruction(ins, i) ==
    IF ins.op \in _COMPAT_ONLY_LIR_OPCODES \cup {"LOAD_HOST"}
    THEN [ins EXCEPT !.op = "LOAD_HOST", !.ref = i] ELSE ins

\* A program with an opcode the VM does not have becomes an empty one.
compile_lir_bytecode(f, dialect) ==
    IF _unsupported_opcode_diagnostics(f, dialect) # {} THEN [f EXCEPT !.code = <<>>, !.consts = <<>>]
    ELSE [f EXCEPT !.code = [i \in DOMAIN @ |-> _encode_instruction(@[i], i)],
                   !.consts = [i \in DOMAIN f.code |-> _lir_to_bytecode_operands(f.code[i], f.consts)]]

serialize_bytecode_json(f) ==
    [f EXCEPT !.consts = [i \in DOMAIN @ |-> encode_value(@[i])]]
load_bytecode_json(json) ==
    [json EXCEPT !.consts = [i \in DOMAIN @ |->
        IF json.code[i].op = "LOAD_HOST" THEN decode_value(@[i]) ELSE Unset]]

\* The loader raises on the first constant it cannot decode.
LoadRaises(f) == \E i \in DOMAIN f.consts : HasPart(f.consts[i], Raised)
=============================================================================
