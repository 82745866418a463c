-------------------------------- MODULE Forms --------------------------------
(***************************************************************************)
(* Syntax data (qy/core/syntax.py): a Form is a Symbol or a chain, nil is  *)
(* the empty chain.  The hygiene pass tells symbols apart by id(), so a    *)
(* symbol carries its name n and the identity o of its Python object.      *)
(* g and w are ghosts: the number of the macro expansion that introduced   *)
(* the symbol, 0 for the source, and the word it was written as.  No       *)
(* definition that models code reads them.                                 *)
(***************************************************************************)
EXTENDS Integers, Sequences, TLC

\* A name: b, wrapped in __qy_<category>_..._<counter> once for every entry
\* <<category, counter>> of i.
Name(b) == [b |-> b, i |-> <<>>]
NoName == Name("")

Sym(n, o, g) == [k |-> "sym", n |-> n, o |-> o, g |-> g, w |-> n.b, xs |-> <<>>]
Form(k, xs) == [k |-> k, n |-> NoName, o |-> <<>>, g |-> 0, w |-> "", xs |-> xs]
Lst(xs) == Form("list", xs)
CapturedForm(f) == Form("cap", <<f>>)
nil == Lst(<<>>)

is_symbol(f) == f.k = "sym"
is_nil(f) == f = nil
_is_list_form(f) == f.k = "list" /\ f.xs # <<>>
Items(f) == IF f.k = "list" THEN f.xs ELSE <<>>
Nth(f, i) == IF i \in DOMAIN Items(f) THEN f.xs[i] ELSE nil
From(f, i) == SubSeq(Items(f), i, Len(Items(f)))

\* (word ...): the operator is the Symbol with that name.
_is_special_form(f, word) == _is_list_form(f) /\ is_symbol(f.xs[1]) /\ f.xs[1].n = Name(word)

\* A symbol of the core itself, as desugaring makes it.
Word(b) == Sym(Name(b), <<>>, 0)

RECURSIVE expand_quasiquote(_, _)
RECURSIVE _expand_chain(_, _)

\* Mutation of _expand_chain: a spliced list becomes one element.
MutSpliceAsCons(f, depth) ==
    IF is_nil(f) THEN Lst(<<Word("quote"), nil>>)
    ELSE LET head == f.xs[1]
             e == IF _is_special_form(head, "unquote-splicing") /\ Len(head.xs) = 2 THEN head.xs[2]
                  ELSE expand_quasiquote(head, depth)
         IN Lst(<<Word("cons"), e, _expand_chain(Lst(Tail(f.xs)), depth)>>)

\* qy/core/quasiquote.py: a template becomes calls of cons, append, list, quote.
expand_quasiquote(f, depth) ==
    CASE _is_special_form(f, "unquote") ->
            IF Len(f.xs) # 2 THEN f
            ELSE IF depth = 0 THEN f.xs[2]
            ELSE Lst(<<Word("list"), Word("unquote"), expand_quasiquote(f.xs[2], depth - 1)>>)
      [] _is_special_form(f, "quasiquote") ->
            IF Len(f.xs) # 2 THEN f
            ELSE Lst(<<Word("list"), Word("quasiquote"), expand_quasiquote(f.xs[2], depth + 1)>>)
      [] _is_list_form(f) -> _expand_chain(f, depth)
      [] OTHER -> Lst(<<Word("quote"), f>>)

_expand_chain(f, depth) ==
    IF is_nil(f) THEN Lst(<<Word("quote"), nil>>)
    ELSE LET head == f.xs[1]
             rest == _expand_chain(Lst(Tail(f.xs)), depth)
         IN IF _is_special_form(head, "unquote-splicing") /\ depth = 0
            THEN Lst(<<Word("append"), IF Len(head.xs) = 2 THEN head.xs[2] ELSE head, rest>>)
            ELSE Lst(<<Word("cons"), expand_quasiquote(head, depth), rest>>)

RECURSIVE SymbolsOf(_)
\* The symbols of a form, in no order.
SymbolsOf(f) ==
    IF is_symbol(f) THEN {f} ELSE UNION {SymbolsOf(f.xs[i]) : i \in DOMAIN f.xs}

RECURSIVE Relabel(_, _)
\* A form as the reader builds it: every symbol is an object of its own.
Relabel(f, path) ==
    IF is_symbol(f) THEN [f EXCEPT !.o = path]
    ELSE [f EXCEPT !.xs = [i \in DOMAIN f.xs |-> Relabel(f.xs[i], Append(path, i))]]
=============================================================================
