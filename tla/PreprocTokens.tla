---------------------------- MODULE PreprocTokens ----------------------------
(***************************************************************************)
(* The expression half of Tools/preproc.py, by which waf decides the #if   *)
(* of a C file: macros are replaced in a list of tokens (reduce_tokens)    *)
(* and the list is then reduced to one number (get_term, get_num).  An     *)
(* exception of the Python code, whatever its type, is the result Failed:  *)
(* c_parser.start catches it and gives up the line.                        *)
(*                                                                         *)
(* A token is a type p and a text v; a number also has its value n.  A     *)
(* decimal literal stays a text (tokenize), which Python takes for true    *)
(* even when it is "0"; a computed number has no text.                     *)
(***************************************************************************)
EXTENDS Integers, SequencesExt
LOCAL INSTANCE Bitwise

NUM == "i"
OP == "O"
IDENT == "T"
STR == "s"

Token(p, v, n) == [p |-> p, v |-> v, n |-> n]
Op(v) == Token(OP, v, 0)
Ident(v) == Token(IDENT, v, 0)
Str(v) == Token(STR, v, 0)
Literal(n) == Token(NUM, ToString(n), n)
Num(n) == Token(NUM, "", n)
Bool(b) == Num(IF b THEN 1 ELSE 0)
Truthy(num) == num.v # "" \/ num.n # 0

Failed == [ok |-> FALSE]

g_optrans == [not |-> "!", and |-> "&&", bitand |-> "&", and_eq |-> "&=", or |-> "||", bitor |-> "|",
              or_eq |-> "|=", xor |-> "^", xor_eq |-> "^=", compl |-> "~"]

\* what a word of the text becomes; a number in hexadecimal or octal has the value it spells
Hexadecimal(n) == Token(NUM, "0x", n)
Convert(t) ==
  CASE t.p = IDENT /\ t.v \in DOMAIN g_optrans -> Op(g_optrans[t.v])
    [] t.p = IDENT /\ t.v \in {"true", "TRUE"} -> Num(1)
    [] t.p = IDENT /\ t.v \in {"false", "FALSE"} -> Num(0)
    [] t.p = NUM /\ t.v = "0x" -> Num(t.n)
    [] t = Op("%:") -> Op("#")
    [] t = Op("%:%:") -> Op("##")
    [] OTHER -> t
Tokenize(s) == [i \in DOMAIN s |-> Convert(s[i])]

----------------------------------------------------------------------------
(* The value of an expression: a number and the tokens that follow it.     *)

Got(num, rest) == [ok |-> TRUE, num |-> num, rest |-> rest]

Levels == <<{"*", "/", "%"}, {"+", "-"}, {"<<", ">>"}, {"<", "<=", ">=", ">"}, {"==", "!="},
            {"&", "|", "^"}, {"&&", "||"}, {","}>>
prec == [v \in UNION Range(Levels) |-> CHOOSE x \in DOMAIN Levels : v \in Levels[x]]

ReduceNums(a, b, d) ==
  LET Sign == IF b < 0 THEN -1 ELSE 1
      Test(c) == Got(Bool(c), <<>>)
      Value(n) == Got(Num(n), <<>>)
  IN  CASE d \in {"%", "/"} /\ b = 0 -> Failed
        [] d \in {"<<", ">>"} /\ b < 0 -> Failed
        [] d = "%" -> Value(Sign * ((Sign * a) % (Sign * b)))
        [] d = "/" -> Value((Sign * a) \div (Sign * b))
        [] d = "+" -> Value(a + b)
        [] d = "-" -> Value(a - b)
        [] d = "*" -> Value(a * b)
        [] d = "&" -> Value(a & b)
        [] d = "|" -> Value(a | b)
        [] d = "^" -> Value(a ^^ b)
        [] d = "<<" -> Value(a * 2^b)
        [] d = ">>" -> Value(a \div 2^b)
        [] d = "||" -> Test(a # 0 \/ b # 0)
        [] d = "&&" -> Test(a # 0 /\ b # 0)
        [] d = "==" -> Test(a = b)
        [] d = "!=" -> Test(a # b)
        [] d = "<=" -> Test(a <= b)
        [] d = "<" -> Test(a < b)
        [] d = ">" -> Test(a > b)
        [] d = ">=" -> Test(a >= b)
        [] OTHER -> Value(0)

\* the first place in l, not before i, where v stands outside parentheses; 0 if there is none
Depth(l, i) == Cardinality({k \in 1..i : l[k] = Op("(")}) - Cardinality({k \in 1..i : l[k] = Op(")")})
Outside(l, i, v, d) ==
  LET at == {k \in i..Len(l) : l[k] = Op(v) /\ Depth(l, k) = d} IN IF at = {} THEN 0 ELSE Min(at)

RECURSIVE GetNum(_), GetTerm(_)

GetNum(l) ==
  IF l = <<>> THEN Failed ELSE
  LET t == Head(l)
      close == Outside(l, 1, ")", 0)
      inner == GetTerm(SubSeq(l, 2, close - 1))
      after == GetNum(Tail(l))
  IN  CASE t = Op("(") /\ close > 0 -> IF inner.ok THEN Got(inner.num, SubSeq(l, close + 1, Len(l))) ELSE Failed
        [] t = Op("+") -> after
        [] t = Op("-") -> IF after.ok THEN Got(Num(-after.num.n), after.rest) ELSE Failed
        [] t = Op("!") -> IF after.ok THEN Got(Bool(after.num.n = 0), after.rest) ELSE Failed
        [] t.p = NUM -> Got(t, Tail(l))
        [] t.p = IDENT -> Got(Num(0), Tail(l))
        [] OTHER -> Failed    \* "~" reads num before it is assigned

\* num d num2 ..., where d is no short cut: the next operator is looked at, and only that one
GetOperation(num, d, l) ==
  LET second == GetNum(l)
      both == ReduceNums(num.n, second.num.n, d)
      d2 == Head(second.rest)
      third == GetNum(Tail(second.rest))
      tight == ReduceNums(second.num.n, third.num.n, d2.v)
  IN  CASE ~second.ok -> Failed
        [] second.rest = <<>> -> both
        [] d2.p # OP \/ {d, d2.v} \ DOMAIN prec # {} -> Failed
        [] prec[d2.v] >= prec[d] -> IF both.ok THEN GetTerm(<<both.num>> \o second.rest) ELSE Failed
        [] OTHER -> IF third.ok /\ tight.ok THEN GetTerm(<<num, Op(d), tight.num>> \o third.rest) ELSE Failed

GetTerm(l) ==
  LET first == GetNum(l)
      num == first.num
      t == Head(first.rest)
      l2 == Tail(first.rest)
      colon == Outside(l2, 1, ":", 0)
  IN  CASE l = <<>> \/ ~first.ok -> Failed
        [] first.rest = <<>> -> Got(num, <<>>)
        [] t.p # OP -> Failed
        [] t.v = "&&" /\ ~Truthy(num) -> Got(num, <<>>)
        [] t.v = "||" /\ Truthy(num) -> Got(num, <<>>)
        [] t.v = "," -> GetTerm(l2)
        [] t.v = "?" -> CASE colon = 0 -> Failed
                          [] num.n # 0 -> GetTerm(SubSeq(l2, 1, colon - 1))
                          [] OTHER -> GetTerm(SubSeq(l2, colon + 1, Len(l2)))
        [] OTHER -> GetOperation(num, t.v, l2)

----------------------------------------------------------------------------
(* Macros.  The text of a #define is parsed when it is first used: a       *)
(* definition is its name, whether "(" follows it at once, the parameters  *)
(* and the body.                                                           *)

Merged(toks) == [ok |-> TRUE, toks |-> toks]

Stringize(toks) == FoldLeft(LAMBDA s, t : s \o (IF t.v = "" THEN ToString(t.n) ELSE t.v), "", toks)

PasteTokens(t1, t2) ==
  CASE t1.p = OP /\ t2.p = OP -> Merged(<<Op(t1.v \o t2.v)>>)
    [] t1.p = IDENT /\ t2.p \in {IDENT, NUM} /\ t2.v # "" -> Merged(<<Ident(t1.v \o t2.v)>>)
    [] t1.p = NUM /\ t2.p = NUM /\ t1.v # "" /\ t2.v # "" -> Merged(<<Token(NUM, t1.v \o t2.v, 10^Len(t2.v) * t1.n + t2.n)>>)
    [] t1.p = NUM /\ t2.p = NUM /\ t1.v = "" /\ t2.v = "" -> Merged(<<Num(t1.n + t2.n)>>)
    [] OTHER -> Failed

\* "..." in the parameters is refused: "not implemented"
ExtractMacro(def) == IF def.fun /\ "..." \in Range(def.params) THEN Failed
                     ELSE [ok |-> TRUE, fun |-> def.fun, params |-> def.params, body |-> Tokenize(def.body)]

\* the arguments of a call, from the token after its "(": [args, next]
RECURSIVE CollectArgs(_, _, _, _, _)
CollectArgs(l, k, depth, one, args) ==
  LET t == l[k]
      change == IF t.v = "(" THEN 1 ELSE IF t.v = ")" THEN -1 ELSE 0
  IN  CASE k > Len(l) -> Failed
        [] k <= Len(l) /\ depth = 0 /\ t = Op(")") ->
             [ok |-> TRUE, args |-> IF one = <<>> THEN args ELSE Append(args, one), next |-> k + 1]
        [] k <= Len(l) /\ depth = 0 /\ t = Op(",") ->
             IF one = <<>> THEN Failed ELSE CollectArgs(l, k + 1, 0, <<>>, Append(args, one))
        [] OTHER -> CollectArgs(l, k + 1, depth + change, Append(one, t), args)

\* what ## __VA_ARGS__ puts at the end of accu: the arguments from python's index pt - st + 1
VaArgs(st, args, accu) ==
  LET pt == Len(args)
      from == IF pt - st + 1 >= 0 THEN pt - st + 1 ELSE Max({0, 2 * pt - st + 1})
      va == FoldLeft(LAMBDA s, x : IF s = <<>> THEN x ELSE s \o <<Op(",")>> \o x, <<>>, SubSeq(args, from + 1, pt))
      kept == CASE Len(accu) < 2 \/ Last(accu).v # "##" -> accu
                [] Last(Front(accu)).v = "," /\ pt < st -> Front(Front(accu))
                [] OTHER -> Front(accu)
  IN  kept \o va

RECURSIVE ReduceTokens(_, _, _, _), Substitute(_, _, _, _, _, _)

\* the body of a macro from its j-th token, with its arguments, put after accu
Substitute(m, j, args, accu, defs, fuel) ==
  LET t == m.body[j]
      next == m.body[j + 1]
      Index(v) == CHOOSE i \in DOMAIN m.params : m.params[i] = v
      Param(tok) == tok.p = IDENT /\ tok.v \in Range(m.params)
      Missing(tok) == Index(tok.v) > Len(args)
      Arg(tok) == args[Index(tok.v)]
      More == j < Len(m.body)
      Join(toks) == LET pasted == PasteTokens(Last(accu), Head(toks))
                    IN  IF pasted.ok THEN Substitute(m, j + 2, args, Front(accu) \o pasted.toks \o Tail(toks), defs, fuel)
                        ELSE Failed
      reduced == ReduceTokens(Arg(t), 1, defs, fuel - 1)
  IN  CASE j > Len(m.body) -> Merged(accu)
        [] t = Op("#") /\ More /\ Param(next) ->
             IF Missing(next) THEN Failed
             ELSE Substitute(m, j + 2, args, Append(accu, Str(Stringize(Arg(next)))), defs, fuel)
        [] t = Op("##") /\ accu # <<>> /\ More ->
             CASE Param(next) -> IF Missing(next) THEN Failed ELSE Join(Arg(next))
               [] next = Ident("__VA_ARGS__") ->
                    Substitute(m, j + 2, args, VaArgs(Len(m.params), args, accu), defs, fuel)
               [] OTHER -> Join(<<next>>)
        [] Param(t) ->
             IF Missing(t) \/ ~reduced.ok THEN Failed
             ELSE Substitute(m, j + 1, [args EXCEPT ![Index(t.v)] = reduced.toks], accu \o reduced.toks, defs, fuel)
        [] OTHER -> Substitute(m, j + 1, args, Append(accu, t), defs, fuel)

\* the list with its macros replaced from the i-th token on; fuel is what is left of Python's stack
ReduceTokens(l, i, defs, fuel) ==
  LET t == l[i]
      before == SubSeq(l, 1, i - 1)
      From(k) == SubSeq(l, k, Len(l))
      Defined(v) == Bool(v \in DOMAIN defs)
      m == ExtractMacro(defs[t.v])
      call == CollectArgs(l, i + 2, 0, <<>>, <<>>)
      accu == Substitute(m, 1, call.args, <<>>, defs, fuel)
      result == ReduceTokens(accu.toks, 1, defs, fuel - 1)
  IN  CASE fuel = 0 -> Failed
        [] i > Len(l) -> Merged(l)
        [] t = Ident("defined") /\ i = Len(l) -> Merged(before)
        [] t = Ident("defined") /\ i < Len(l) ->
             CASE l[i + 1].p = IDENT -> ReduceTokens(before \o <<Defined(l[i + 1].v)>> \o From(i + 2), i + 1, defs, fuel)
               [] l[i + 1] = Op("(") /\ i + 3 <= Len(l) ->
                    ReduceTokens(before \o <<Defined(l[i + 2].v)>> \o From(i + 4), i + 1, defs, fuel)
               [] OTHER -> Failed
        [] t.p = IDENT /\ t.v \in DOMAIN defs ->
             CASE ~m.ok -> Failed
               [] ~m.fun -> ReduceTokens(before \o m.body \o From(i + 1), i + Len(m.body) + 1, defs, fuel)
               [] i = Len(l) \/ l[i + 1] # Op("(") \/ ~call.ok -> Failed
               [] ~accu.ok \/ ~result.ok -> Failed
               [] OTHER -> ReduceTokens(before \o result.toks \o From(call.next), i + 1, defs, fuel)
        [] OTHER -> ReduceTokens(l, i + 1, defs, fuel)

StackLimit == 6    \* Python's recursion limit

\* TRUE or FALSE, or an error
EvalMacro(toks, defs) ==
  LET reduced == ReduceTokens(toks, 1, defs, StackLimit)
      result == GetTerm(reduced.toks)
  IN  IF ~reduced.ok \/ ~result.ok THEN Failed ELSE [ok |-> TRUE, holds |-> result.num.n # 0]
=============================================================================
