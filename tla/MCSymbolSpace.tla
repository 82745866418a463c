--------------------------- MODULE MCSymbolSpace ---------------------------
(***************************************************************************)
(* SymbolSpace twice: a root and two more layers (siblings or a chain of   *)
(* three) with one user name, one hygiene name and one literal, for        *)
(* scoping; and a root and a child with two user names, for imports.       *)
(***************************************************************************)
EXTENDS SymbolSpace

MCLiteralOf == [s \in Literals |-> "v1"]

Exporting(names, v) == [s \in Symbols |-> IF s \in names THEN Val(v) ELSE MISSING]
\* Modules that export x and a macro y, x alone, and both.
MCModules == {[exports |-> Exporting({"x"}, "v1"), macro_exports |-> {"y"}],
              [exports |-> Exporting({"x"}, "v2"), macro_exports |-> {}],
              [exports |-> Exporting({"x", "y"}, "v2"), macro_exports |-> {}]}
MCNameLists == {<<"x">>, <<"y", "x">>, <<"x", "y">>}
\* No aliases, x and y swapped, and both imported as y.
MCAliases == {[s \in Symbols |-> s],
              [s \in Symbols |-> CASE s = "x" -> "y" [] s = "y" -> "x" [] OTHER -> s],
              [s \in Symbols |-> IF s = "x" THEN "y" ELSE s]}
\* No prefix, and a prefix that makes y of x and z of y.
MCPrefixes == {[s \in Symbols |-> s],
               [s \in Symbols |-> CASE s = "x" -> "y" [] s = "y" -> "z" [] OTHER -> "x"]}
=============================================================================
