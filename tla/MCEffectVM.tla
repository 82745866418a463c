----------------------------- MODULE MCEffectVM -----------------------------
(* Programs for EffectAgreement: every combination of a main, a handled      *)
(* body, a handler, the body of an inner handle, and whether effect e can be *)
(* resumed.                                                                  *)
EXTENDS EffectAgreement

Load(d, v) == [op |-> "LOAD_HOST", dst |-> d, val |-> v]
Get(d, n) == [op |-> "LOAD_ENV", dst |-> d, name |-> n]
Store(n, s) == [op |-> "STORE_LOCAL", name |-> n, src |-> s]
Once(n, s) == [op |-> "DEFINE_ONCE", name |-> n, src |-> s]
Defeffect(n, r) == [op |-> "DEFEFFECT", name |-> n, resumable |-> r]
Lambda(d, f) == [op |-> "MAKE_FUNCTION", dst |-> d, fn |-> f]
Plus(d, rs) == [op |-> "CALL_BUILTIN", dst |-> d, args |-> rs]
Scoped == [op |-> "ENTER_SCOPE"]
Leave == [op |-> "EXIT_SCOPE"]
CallOf(d, r) == [op |-> "CALL", dst |-> d, callee |-> r, args |-> <<>>]
TailOf(r) == [op |-> "TAIL_CALL", callee |-> r, args |-> <<>>]
Do(d, e, r) == [op |-> "PERFORM", dst |-> d, eff |-> e, arg |-> r]
Handling(d, b, ss) == [op |-> "HANDLE", dst |-> d, body |-> b, specs |-> ss]
On(e, f) == [eff |-> e, fn |-> f]
Res(d, k, v) == [op |-> "RESUME", dst |-> d, cont |-> k, val |-> v]
Ret(s) == [op |-> "RETURN", src |-> s]
Fun(ps, code) == [params |-> ps, code |-> code]

Mains == <<
    <<Handling(1, 2, <<On("e", 3)>>), Ret(1)>>,
    <<Handling(1, 2, <<On("g", 6), On("e", 3)>>), Plus(2, <<1>>), Ret(2)>>,
    <<Handling(1, 7, <<On("e", 6), On("g", 6)>>), Ret(1)>>,
    <<Handling(1, 2, <<On("e", 3)>>), Load(2, 5), Res(3, 1, 2), Ret(3)>>>>

Bodies == <<
    <<Load(1, 1), Do(2, "e", 1), Plus(3, <<2, 1>>), Ret(3)>>,
    <<Load(1, 1), Do(2, "e", 1), Do(3, "e", 2), Plus(4, <<2, 3>>), Ret(4)>>,
    <<Load(1, 1), Do(2, "g", 1), Do(3, "e", 2), Ret(3)>>,
    <<Lambda(1, 4), CallOf(2, 1), Plus(3, <<2>>), Ret(3)>>,
    <<Lambda(1, 4), TailOf(1)>>,
    <<Load(1, 1), Do(2, "e", 1), Lambda(3, 4), TailOf(3)>>,
    <<Load(1, 1), Scoped, Do(2, "e", 1), Store("x", 2), Get(3, "x"), Leave, Plus(4, <<3>>), Ret(4)>>,
    <<Load(1, 1), Do(2, "e", 1), Once("x", 2), Get(3, "x"), Ret(3)>>,
    <<Load(1, 1), Store("e", 1), Do(2, "e", 1), Ret(2)>>,
    <<Handling(1, 5, <<On("g", 6)>>), Plus(2, <<1>>), Ret(2)>>,
    <<CallOf(2, 1), Ret(2)>>,
    <<TailOf(1)>>,
    <<Lambda(1, 3), TailOf(1)>>,
    <<Lambda(1, 8), Do(2, "e", 1), Store("x", 2), Ret(1)>>,
    <<Lambda(1, 8), Load(2, 1), Do(3, "e", 2), Store("x", 3), CallOf(2, 1), Ret(1)>>>>

Inner == <<
    <<Load(1, 2), Do(2, "g", 1), Plus(3, <<2>>), Ret(3)>>,
    <<Load(1, 2), Do(2, "e", 1), Do(3, "g", 2), Ret(3)>>>>

Handlers == <<
    <<Get(1, "a"), Ret(1)>>,
    <<Get(1, "a"), Get(2, "k"), Res(3, 2, 1), Ret(3)>>,
    <<Get(1, "a"), Get(2, "k"), Res(3, 2, 1), Plus(4, <<3>>), Ret(4)>>,
    <<Get(1, "a"), Get(2, "k"), Res(3, 2, 1), Res(4, 2, 3), Ret(4)>>,
    <<Get(1, "k"), Ret(1)>>,
    <<Get(1, "a"), Do(2, "e", 1), Ret(2)>>,
    <<Get(1, "a"), Do(2, "g", 1), Get(3, "k"), Res(4, 3, 2), Ret(4)>>,
    <<Get(1, "x"), Ret(1)>>,
    <<Get(1, "a"), Res(2, 1, 1), Ret(2)>>,
    <<Get(1, "a"), Get(2, "k"), Res(3, 2, 2), CallOf(4, 1), Ret(4)>>,
    <<Get(2, "k"), Load(1, 2), Res(3, 2, 1), CallOf(4, 3), Ret(4)>>>>

Params == <<<<"a", "k">>, <<"a">>>>

HelperFun == Fun(<<>>, <<Load(1, 3), Do(2, "e", 1), Plus(3, <<2>>), Ret(3)>>)
TailResume == Fun(<<"a", "k">>, <<Get(1, "a"), Get(2, "k"), Res(3, 2, 1), Ret(3)>>)
SeesX == Fun(<<>>, <<Get(1, "x"), Ret(1)>>)
WrapFun == Fun(<<>>, <<Handling(1, 2, <<On("e", 3)>>), Ret(1)>>)

MCPrograms ==
    [p \in [main : DOMAIN Mains, body : DOMAIN Bodies, handler : DOMAIN Handlers,
            params : {1}, inner : DOMAIN Inner, resumable : BOOLEAN]
          \cup [main : {1}, body : {1}, handler : {1, 2}, params : {2}, inner : {1},
                resumable : {TRUE}] |->
        <<Fun(<<>>, <<Defeffect("e", p.resumable), Defeffect("g", TRUE)>> \o Mains[p.main]),
          Fun(<<>>, Bodies[p.body]), Fun(Params[p.params], Handlers[p.handler]),
          HelperFun, Fun(<<>>, Inner[p.inner]), TailResume, WrapFun, SeesX>>]

=============================================================================
