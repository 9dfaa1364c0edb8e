------------------------------ MODULE MCPreproc ------------------------------
(***************************************************************************)
(* Small C programs for the scanner, in three families: what one #if can   *)
(* say, how conditions nest, and where headers are found.                  *)
(***************************************************************************)
EXTENDS CPreprocessor

A == <<"a.h">>
B == <<"b.h">>
SubB == <<"sub", "b.h">>
Main == <<"main.c">>

Include1(f) == [Raw EXCEPT !.kind = "include", !.form = "quote", !.path = f]
Angle(f) == [Include1(f) EXCEPT !.form = "angle"]
Import(f) == [Include1(f) EXCEPT !.kind = "import"]
Macro(toks) == [Raw EXCEPT !.kind = "include", !.form = "macro", !.toks = toks]
DefineLine(name, toks) == [Raw EXCEPT !.kind = "define", !.name = name, !.toks = toks]
DefineFun(name, params, toks) == [DefineLine(name, toks) EXCEPT !.fun = TRUE, !.params = params]
Named1(kind, name) == [Raw EXCEPT !.kind = kind, !.name = name]
Cond(kind, toks) == [Raw EXCEPT !.kind = kind, !.toks = toks]
Bare(kind) == [Raw EXCEPT !.kind = kind]
Once == Named1("pragma", "once")
Hidden(l) == [l EXCEPT !.code = FALSE]

Program(main, a, b) ==
  [sources |-> <<Main>>, unreadable |-> {}, nodepaths |-> <<<<"inc">>>>, deflines |-> <<>>,
   files |-> Main :> main @@ A :> a @@ B :> b]

Zero == <<Literal(0)>>
One == <<Literal(1)>>
Two == <<Literal(2)>>
NotZero == <<Op("~"), Literal(0)>>

----------------------------------------------------------------------------
\* 1. expressions: chains of operands, with M defined as 1, N as 0, F(x, y) as x + y and C as M
Operands == {Zero, Two, <<Ident("X")>>, <<Ident("defined"), Ident("M")>>}
More == Operands \cup {One, <<Hexadecimal(0)>>, <<Ident("not"), Ident("M")>>, <<Op("!"), Literal(0)>>, <<Op("-"), Literal(1)>>, NotZero,
         <<Ident("M")>>, <<Ident("N")>>, <<Ident("C")>>,
         <<Ident("defined"), Op("("), Ident("X"), Op(")")>>,
         <<Op("("), Literal(0), Op("||"), Ident("M"), Op(")")>>,
         <<Op("!"), Op("("), Ident("X"), Op("&&"), Literal(0), Op(")")>>,
         <<Ident("F"), Op("("), Ident("N"), Op(","), Literal(1), Op(")")>>,
         <<Ident("F"), Op("("), Op("("), Ident("M"), Op("+"), Literal(1), Op(")"), Op(","), Literal(1), Op(")")>>}
Few == {Zero, Two, <<Ident("defined"), Ident("M")>>}
Ops == {"&&", "||", "==", "+", "<"}
Words == {"and", "or", "bitand"}
Chains == UNION {
  More,
  {x \o <<Op(o)>> \o y : x \in More, o \in Ops \cup {"*", "!=", ">", "-"}, y \in More},
  {x \o <<Op(o)>> \o y : x \in Operands, o \in {"&", "|", "^", "<<"}, y \in Few},
  {x \o <<Ident(o)>> \o y : x \in Operands, o \in Words, y \in Few},
  {x \o <<Op(o)>> \o Two : x \in Operands, o \in {"/", "%"}},
  {x \o <<Op(o)>> \o y \o <<Op(q)>> \o z : x \in Operands, o \in Ops, y \in Operands, q \in Ops, z \in Operands},
  {Zero \o <<Op(o)>> \o y \o <<Op(q)>> \o z \o <<Op(r)>> \o w :
     o \in Ops, y \in Few, q \in Ops, z \in Few, r \in Ops, w \in Few}}

Expressions ==
  {[Program(<<Cond("if", e), Include1(A), Bare("else"), Include1(B), Bare("endif")>>, <<>>, <<>>)
     EXCEPT !.deflines = <<DefineLine("M", One), DefineLine("N", Zero), DefineLine("C", <<Ident("M")>>),
                           DefineFun("F", <<"x", "y">>, <<Ident("x"), Op("+"), Ident("y")>>)>>] : e \in Chains}

----------------------------------------------------------------------------
\* 2. conditions in conditions, branches that define and undefine
Conditions == {Zero, One, NotZero, <<Ident("M")>>}
Blocks == {<<>>, <<Include1(A)>>, <<DefineLine("M", One)>>,
           <<Named1("ifndef", "M"), Include1(A), Bare("else"), Include1(B), Bare("endif")>>,
           <<Cond("if", Zero), Include1(A), Cond("elif", <<Ident("M")>>), Include1(B), Bare("endif")>>}
NestedMain(c1, c2, x, y, z) ==
  <<Cond("if", c1)>> \o x \o <<Cond("elif", c2)>> \o y \o <<Bare("else")>> \o z \o <<Bare("endif")>>
Nestings ==
  {[Program(NestedMain(c1, c2, x, y, z) \o t, h, <<>>) EXCEPT !.deflines = d] :
     c1 \in Conditions, c2 \in Conditions, x \in Blocks, y \in Blocks, z \in {<<>>, <<Include1(B)>>},
     t \in {<<Named1("ifdef", "M"), Include1(B), Bare("endif")>>, <<Bare("endif"), Bare("else"), Include1(A)>>},
     h \in {<<>>, <<Named1("undef", "M")>>}, d \in {<<>>, <<DefineLine("M", One)>>}}

----------------------------------------------------------------------------
\* 3. directories, guards, names made by macros, a generated header, two sources
IncludeLines == {Include1(A), Include1(SubB), Angle(A), Angle(B), Import(A), Macro(<<Ident("H")>>),
                 Macro(<<Ident("S"), Op("("), Ident("b.h"), Op(")")>>), Include1(<<"moc">>), Hidden(Include1(B)),
                 Angle(<<"stdio.h">>)}
HeaderLines == {<<>>, <<Once>>, <<Include1(B)>>, <<Once, Include1(B)>>, <<Include1(B), Once>>, <<Include1(A)>>,
                <<Once, Include1(A), Named1("undef", "G"), Include1(B)>>,
                <<Named1("ifndef", "G"), DefineLine("G", <<>>), Include1(A), Include1(B), Bare("endif")>>}
SubLines == {<<>>, <<Include1(<<"c.h">>)>>, <<Include1(<<"c.h">>), Angle(A), Include1(<<"c.h">>)>>}
Faults == {<<<<Main>>, {}>>, <<<<Main>>, {A}>>, <<<<Main, <<"other.c">>>>, {}>>}
Searches ==
  {[sources |-> f[1], unreadable |-> f[2], nodepaths |-> <<<<"inc">>, <<>>>>,
    deflines |-> <<DefineLine("H", <<Str("a.h")>>), DefineFun("S", <<"x">>, <<Op("#"), Ident("x")>>)>>,
    files |-> Main :> <<i, j>> @@ <<"other.c">> :> <<Include1(SubB), i>> @@ A :> a @@ SubB :> b
              @@ <<"inc", "b.h">> :> <<Named1("pragma", "pack")>> @@ <<"inc", "c.h">> :> <<>>
              @@ <<"sub", "c.h">> :> <<Include1(A)>> @@ <<"moc">> :> <<>>] :
     f \in Faults, i \in IncludeLines, j \in IncludeLines, a \in HeaderLines, b \in SubLines}

MCFamilies == {Expressions, Nestings, Searches}
=============================================================================
