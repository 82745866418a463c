----------------------------- MODULE MCModuleLoad -----------------------------
(***************************************************************************)
(* Sessions of two or three forms over a small disk: two packages a and b, *)
(* a package a/x inside the path of a, files that define one module name   *)
(* twice, a module form with the name of a package, and a file that        *)
(* imports itself.                                                         *)
(***************************************************************************)
EXTENDS ModuleLoad

Plain(s) == Name("plain", <<s>>)
FileName(s) == Name("file", <<s>>)
Pkg(p) == Name("package", p)
From(n) == [op |-> "from", name |-> n]
Mod(n) == [op |-> "module", name |-> n]

A == <<"a">>
AX == <<"a", "x">>
B == <<"b">>
M == Plain("m")

Library ==
    [f \in {"f", "g", "h", "c", "a_mod", "a_x", "a_w", "a_z", "b_mod", "b_y", "b_w", "ax_mod",
             "local_mod", "local_y", "local_w", "local_x"} |->
       CASE f \in {"f", "g"} -> <<Mod(M)>>
         [] f = "h" -> <<Mod(Pkg(B))>>
         [] f = "c" -> <<From(FileName("c"))>>
         [] f = "a_mod" -> <<From(Pkg(AX)), Mod(Pkg(A))>>
         [] f = "b_y" -> <<From(Pkg(A))>>
         [] OTHER -> <<>>]

Dir(listed, mods, src) == [state |-> "package", listed |-> listed, modules |-> mods, src |-> src]
PackageA == Dir(FALSE, {}, [s \in {<<>>, <<"x">>, <<"x", "w">>, <<"internal", "z">>} |->
                  CASE s = <<>> -> "a_mod" [] s = <<"x">> -> "a_x" [] s = <<"x", "w">> -> "a_w" [] OTHER -> "a_z"])
PackageAX == Dir(FALSE, {}, [s \in {<<>>} |-> "ax_mod"])
PackageB == Dir(TRUE, {<<"y">>}, [s \in {<<>>, <<"y">>, <<"w">>} |->
                  CASE s = <<>> -> "b_mod" [] s = <<"y">> -> "b_y" [] OTHER -> "b_w"])
\* The package b at the path of [replace].
LocalB == Dir(TRUE, {<<"y">>}, [s \in {<<>>, <<"y">>, <<"w">>} |->
                CASE s = <<>> -> "local_mod" [] s = <<"y">> -> "local_y" [] OTHER -> "local_w"])
\* The package a/x there, which does not export w.
LocalAX == Dir(TRUE, {}, [s \in {<<>>, <<"w">>} |-> "local_x"])
Absent == [state |-> "absent"]
Bare == [state |-> "bare"]

SessionForms ==
    {From(n) : n \in {Pkg(A), Pkg(AX), Pkg(<<"a", "internal", "z">>), Pkg(<<"a", "x", "w">>), Pkg(B), Pkg(<<"b", "y">>),
                      Pkg(<<"b", "w">>), M, Plain("std"), FileName("f"), FileName("g"), FileName("h"), FileName("c"),
                      FileName("nowhere")}} \cup {Mod(M), Mod(Plain("std"))}
Sessions == {<<x, y>> : x \in SessionForms, y \in SessionForms}
              \cup {<<Mod(M), x, From(M)>> : x \in SessionForms}

\* qy.toml: what it declares and replaces, and what is at the replaced path.
Setups == {[manifest |-> TRUE, deps |-> d, replaces |-> {}, b |-> Absent] : d \in {{A}, {A, B}, {A, AX, B}}}
            \cup {[manifest |-> TRUE, deps |-> d, replaces |-> {B}, b |-> l] :
                    d \in {{A}, {A, B}}, l \in {Absent, Bare, LocalB}}
            \cup {[manifest |-> TRUE, deps |-> {A, AX}, replaces |-> {AX}, b |-> Absent]}
            \cup {[manifest |-> FALSE, deps |-> {}, replaces |-> {}, b |-> Absent]}

World(s, p) ==
    [forms |-> [f \in {"main"} \cup {g \in DOMAIN Library : g = "c" => From(FileName("c")) \in Range(s)} |->
                  IF f = "main" THEN s ELSE Library[f]],
     builtins |-> {Plain("std")}, manifest |-> p.manifest, deps |-> p.deps, replaces |-> p.replaces,
     local |-> [q \in {AX, B} |-> IF q = B THEN p.b ELSE LocalAX],
     cache |-> [q \in {A, AX, B} |-> CASE q = A -> PackageA [] q = AX -> PackageAX [] OTHER -> PackageB]]
MCWorlds == {World(s, p) : s \in Sessions, p \in Setups}
=============================================================================
