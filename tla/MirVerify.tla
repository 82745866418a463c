------------------------------ MODULE MirVerify ------------------------------
(***************************************************************************)
(* verify_mir: the checks mir.validate makes on a MIR program before it is *)
(* optimised.  Errors reject the program, warnings do not.  Blocks are     *)
(* numbered by their places, so that no two can have one number.           *)
(***************************************************************************)
EXTENDS MirInline

\* What an instruction holds: whether it writes a register, how many it reads
\* (at least, for those with a tuple), whether it names a symbol, an index.
Holds(writes, reads, sym, ref) == [writes |-> writes, reads |-> reads, sym |-> sym, ref |-> ref]
OPERANDS ==
    [op \in {"LOAD_CONST", "LOAD_ENV", "MAKE_FUNCTION", "ALL_GATHER", "MOVE", "CALL", "BUILD_TUPLE",
             "STORE_LOCAL", "DEFINE_ONCE", "APPEND_RESULT", "ENTER_SCOPE", "EXIT_SCOPE"} |->
        CASE op \in {"LOAD_CONST", "MAKE_FUNCTION", "ALL_GATHER"} -> Holds(TRUE, 0, FALSE, TRUE)
          [] op = "LOAD_ENV" -> Holds(TRUE, 0, TRUE, FALSE)
          [] op \in {"MOVE", "CALL"} -> Holds(TRUE, 1, FALSE, FALSE)
          [] op = "BUILD_TUPLE" -> Holds(TRUE, 0, FALSE, FALSE)
          [] op \in {"STORE_LOCAL", "DEFINE_ONCE"} -> Holds(FALSE, 1, TRUE, FALSE)
          [] op = "APPEND_RESULT" -> Holds(FALSE, 1, FALSE, FALSE)
          [] OTHER -> Holds(FALSE, 0, FALSE, FALSE)]
WithTuple == {"CALL", "BUILD_TUPLE"}

_check_operand_arity(ins) ==
    LET holds == OPERANDS[ins.op]
    IN /\ (ins.dst # 0) = holds.writes
       /\ IF ins.op \in WithTuple THEN Len(ins.uses) >= holds.reads ELSE Len(ins.uses) = holds.reads
       /\ (ins.sym # "") = holds.sym /\ (ins.ref # 0) = holds.ref

_check_register(f, ins) == (Reads(ins) \cup {ins.dst}) \ {0} \subseteq 1..f.regs
_check_block_target(f, term) == Targets(term) \subseteq DOMAIN f.blocks

_verify_instruction(f, ins) ==
    ins.op \in DOMAIN OPERANDS /\ _check_operand_arity(ins) /\ _check_register(f, ins)

\* A return may be empty; a tail call has its operator.
TERMINATORS == [op \in {"JUMP", "BRANCH", "RETURN", "TAIL_CALL"} |->
    CASE op = "JUMP" -> [uses |-> {0}, to |-> 1] [] op = "BRANCH" -> [uses |-> {1}, to |-> 2]
      [] op = "RETURN" -> [uses |-> {0, 1}, to |-> 0] [] OTHER -> [uses |-> 1..9, to |-> 0]]
_verify_terminator(f, term) ==
    /\ term.op \in DOMAIN TERMINATORS
    /\ Len(term.uses) \in TERMINATORS[term.op].uses /\ Len(term.to) = TERMINATORS[term.op].to
    /\ _check_register(f, term) /\ _check_block_target(f, term)

_verify_function(f) ==
    /\ 1 \in DOMAIN f.blocks
    /\ \A b \in ToSet(f.blocks) : /\ \A ins \in ToSet(b.instrs) : _verify_instruction(f, ins)
                                  /\ _verify_terminator(f, b.term)

\* No error.
verify_mir(p) == p.main \in DOMAIN p.functions /\ \A f \in ToSet(p.functions) : _verify_function(f)

-----------------------------------------------------------------------------
(* Warnings. *)

_verify_reachability(f) == FindReachable(f.blocks, {1}) = DOMAIN f.blocks

\* m10_scope_nesting: over the blocks in their order, whatever the control flow.
m10_scope_nesting(f) ==
    LET change(ins) == CASE ins.op = "ENTER_SCOPE" -> 1 [] ins.op = "EXIT_SCOPE" -> -1 [] OTHER -> 0
        step(st, ins) == LET d == st.depth + change(ins) IN [depth |-> Max({d, 0}), ok |-> st.ok /\ d >= 0]
        end == Fold(step, [depth |-> 0, ok |-> TRUE], Instrs(f))
    IN end.ok /\ end.depth = 0

\* _verify_def_use: the registers written on every path to a block, from the
\* parameters (taken to be the first registers) on; a block that is not reached
\* starts with the parameters.
Written(instrs) == {ins.dst : ins \in ToSet(instrs)} \ {0}
RECURSIVE Incoming(_, _, _)
Incoming(f, reached, in) ==
    LET out(b) == in[b] \cup Written(f.blocks[b].instrs)
        next == [b \in DOMAIN in |->
                    {r \in in[b] : \A p \in PredecessorIds(f, b) \cap reached : r \in out(p)}]
    IN IF next = in THEN in ELSE Incoming(f, reached, next)

DefinedAt(f) ==
    LET reached == FindReachable(f.blocks, {1})
        params == 1..Len(f.params)
    IN Incoming(f, reached, [b \in DOMAIN f.blocks |->
                                IF b = 1 \/ b \notin reached THEN params ELSE 1..f.regs])

\* The instructions and terminators that read a register before it is written.
ReadsBeforeWrite(f) ==
    LET in == DefinedAt(f)
        early(b, k) == LET code == Append(f.blocks[b].instrs, f.blocks[b].term)
                       IN ~(Reads(code[k]) \subseteq in[b] \cup Written(SubSeq(code, 1, k - 1)))
    IN UNION {{Append(f.blocks[b].instrs, f.blocks[b].term)[k] :
                  k \in {k \in 1..(Len(f.blocks[b].instrs) + 1) : early(b, k)}} : b \in DOMAIN f.blocks}
=============================================================================
