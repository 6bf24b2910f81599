----------------------------- MODULE MCDispatch -----------------------------
(***************************************************************************)
(* Four sites for DispatchRun: the entry of a closure that captured one    *)
(* name, and three match sites, over lists, over maps, structs and         *)
(* bitstrings, and over guards that call helpers.                          *)
(***************************************************************************)
EXTENDS DispatchRun

int(n) == <<"int", n>>
tup(vs) == <<"tuple", vs>>
lst(vs) == <<"list", vs>>

Wild == <<"wild">>
Var(n) == <<"var", n>>
Lit(n) == <<"lit", int(n)>>
Pin(n) == <<"pin", n>>
Name(n) == <<"name", n>>

Row(ps, g) == [patterns |-> ps, types |-> <<>>, guard |-> g]
Typed(ps, ts) == [patterns |-> ps, types |-> ts, guard |-> NoGuard]
Eq(a, b) == <<"eq", a, b>>

\* An entry: the captured name c first, then the argument.
Closure(p, g) == Row(<<Var("c"), p>>, g)

EntrySite ==
    [door |-> "entry", count |-> 2, prematch |-> "c" :> 1, scope |-> <<>>,
     rows |-> {Closure(<<"tuple", <<Lit(1), Var("y")>>>>, NoGuard),
               Closure(<<"tuple", <<Pin("c"), Wild>>>>, NoGuard),
               Closure(<<"tuple", <<Var("x"), Var("y")>>>>, Eq(Name("y"), Name("c"))),
               Closure(<<"tuple", <<<<"tuple", <<Var("x"), Lit(2)>>>>, Wild>>>>, NoGuard),
               Typed(<<Var("c"), Var("x")>>, <<<<2, "int">>>>),
               Closure(Pin("d"), NoGuard),
               Closure(<<"as", "w", Wild>>, NoGuard)},
     calls |-> {<<c, a>> : c \in {int(1), int(2)},
                           a \in {int(1), tup(<<int(1), int(2)>>), tup(<<int(2), int(1)>>),
                                  tup(<<tup(<<int(1), int(2)>>), int(1)>>),
                                  tup(<<tup(<<int(1), int(1)>>), int(2)>>)}}]

ListSite ==
    [door |-> "site", count |-> 1, prematch |-> <<>>, scope |-> "p" :> int(2),
     rows |-> {Row(<<<<"list", <<>>, NoTail>>>>, NoGuard),
               Row(<<<<"list", <<Lit(1)>>, Var("t")>>>>, NoGuard),
               Row(<<<<"list", <<Var("h")>>, NoTail>>>>, NoGuard),
               Row(<<<<"list", <<Wild, Pin("p")>>, Var("t")>>>>, NoGuard),
               Row(<<<<"list", <<Var("h")>>, <<"list", <<Var("k")>>, NoTail>>>>>>,
                   <<"not", Eq(Name("h"), Name("k"))>>),
               Row(<<<<"as", "l", <<"list", <<Var("h")>>, Wild>>>>>>, Eq(Name("h"), Name("p")))},
     calls |-> {<<v>> : v \in {int(1), lst(<<>>), lst(<<int(1)>>), lst(<<int(2)>>),
                               lst(<<int(1), int(1)>>), lst(<<int(1), int(2)>>),
                               lst(<<int(2), int(1)>>), lst(<<int(2), int(2), int(1)>>)}}]

Field(kind, size, p) == [kind |-> kind, size |-> size, pattern |-> p]
NoSize == <<"none">>
bits(bytes) == <<"bits", bytes>>
point(x) == <<"struct", "Point", "x" :> int(x)>>

KeyedSite ==
    [door |-> "site", count |-> 1, prematch |-> <<>>, scope |-> "p" :> int(2),
     rows |-> {Row(<<<<"map", <<<<"a", Lit(1)>>>>>>>>, NoGuard),
               Row(<<<<"map", <<<<"a", Var("x")>>, <<"b", Pin("p")>>>>>>>>, NoGuard),
               Row(<<<<"struct", "Point", <<<<"x", Lit(1)>>>>>>>>, NoGuard),
               Row(<<<<"struct", "Point", <<<<"x", Var("x")>>>>>>>>, Eq(Name("x"), Name("p"))),
               Row(<<<<"bits", <<Field("integer", NoSize, Var("n")),
                                 Field("binary", <<"var", "n">>, Var("b")),
                                 Field("binary", NoSize, Wild)>>>>>>, NoGuard),
               Row(<<<<"bits", <<Field("integer", NoSize, <<"as", "k", Lit(2)>>),
                                 Field("binary", NoSize, Var("r"))>>>>>>, NoGuard),
               Row(<<<<"bits", <<Field("integer", NoSize, Lit(1)),
                                 Field("binary", NoSize, Var("r"))>>>>>>, NoGuard),
               Row(<<<<"bits", <<Field("binary", <<"var", "p">>, Var("b")),
                                 Field("integer", NoSize, Lit(1))>>>>>>, NoGuard),
               Row(<<<<"map", <<>>>>>>, NoGuard)},
     calls |-> {<<v>> : v \in {int(1), <<"map", <<>>>>, <<"map", "a" :> int(1)>>,
                               <<"map", "a" :> int(2) @@ "b" :> int(2)>>,
                               point(1), point(2), bits(<<>>), bits(<<1, 2>>), bits(<<2, 1>>),
                               bits(<<2, 2, 1>>)}}]

\* small?(1) -> true; small?({x, _}) -> x == 1
MCHelpers ==
    "small" :> [arity |-> 1,
                rows |-> <<Row(<<Lit(1)>>, NoGuard), Row(<<<<"tuple", <<Var("x"), Wild>>>>>>, NoGuard)>>,
                bodies |-> <<<<"const", True>>, Eq(Name("x"), <<"const", int(1)>>)>>]

Small(e) == <<"call", "small", <<e>>>>

GuardSite ==
    [door |-> "site", count |-> 2, prematch |-> <<>>, scope |-> "p" :> int(2),
     rows |-> {Row(<<Var("x"), Wild>>, Small(Name("x"))),
               Row(<<<<"tuple", <<Var("a"), Var("b")>>>>, Var("y")>>, <<"and", Small(Name("b")), Small(Name("y"))>>),
               Row(<<<<"tuple", <<Var("a"), Wild>>>>, Var("y")>>,
                   <<"or", Eq(<<"add", Name("a"), Name("y")>>, Name("p")), Eq(Name("y"), <<"const", int(2)>>)>>),
               Row(<<Var("x"), Lit(1)>>, <<"not", Small(Name("x"))>>),
               Row(<<Wild, <<"tuple", <<Wild, Var("b")>>>>>>, NoGuard)},
     calls |-> {<<a, b>> : a, b \in {int(1), int(2), tup(<<int(1), int(1)>>), tup(<<int(2), int(1)>>)}}]

MCSites == {EntrySite, ListSite, KeyedSite, GuardSite}

MCTypes == "int" :> {int(1), int(2)} @@ "Point" :> {point(1), point(2)}
=============================================================================
