---------------------------- MODULE CPreprocessor ----------------------------
(***************************************************************************)
(* What a C compiler reads of the programs of Preproc: the reference that  *)
(* the scan is compared with.  It says nothing about waf's code.           *)
(*                                                                         *)
(* fault is set when the compiler meets, on a line that is alive, one of   *)
(* the constructs that preproc.py is known to take otherwise (the README   *)
(* lists them), or an error; both when it meets a condition that           *)
(* preproc.py cannot evaluate, so that it scans every branch.              *)
(***************************************************************************)
EXTENDS Preproc

Loosest == <<{"||"}, {"&&"}, {"|"}, {"^"}, {"&"}, {"==", "!="}, {"<", ">", "<=", ">="}, {"<<"},
             {"+", "-"}, {"*", "/", "%"}>>

\* the places of the binary operators of e that are in no parentheses
Binary(e) == {k \in 2..(Len(e) - 1) : e[k].p = OP /\ e[k].v \notin {"(", ")", "!", "~"} /\ Depth(e, k) = 0
                                       /\ (e[k - 1].p # OP \/ e[k - 1].v = ")")}

OneIf(b) == IF b THEN 1 ELSE 0
Bits(n) == {i \in 0..3 : (n \div 2^i) % 2 = 1}
OfBits(s) == CHOOSE n \in 0..15 : Bits(n) = s
Apply(v, a, b) ==
  CASE v = "||" -> OneIf(a # 0 \/ b # 0)
    [] v = "&&" -> OneIf(a # 0 /\ b # 0)
    [] v = "==" -> OneIf(a = b)
    [] v = "!=" -> OneIf(a # b)
    [] v = "<" -> OneIf(a < b)
    [] v = ">" -> OneIf(a > b)
    [] v = "<=" -> OneIf(a <= b)
    [] v = ">=" -> OneIf(a >= b)
    [] v = "+" -> a + b
    [] v = "-" -> a - b
    [] v = "*" -> a * b
    [] v = "/" -> IF a < 0 THEN -((-a) \div b) ELSE a \div b
    [] v = "%" -> IF a < 0 THEN -((-a) % b) ELSE a % b
    [] v = "<<" -> a * 2^b
    [] v = "&" -> OfBits(Bits(a) \cap Bits(b))
    [] v = "|" -> OfBits(Bits(a) \cup Bits(b))
    [] v = "^" -> OfBits((Bits(a) \cup Bits(b)) \ (Bits(a) \cap Bits(b)))

\* the operator done last: of the loosest ones, the last
Root(e) == LET At(ops) == {k \in Binary(e) : e[k].v \in ops}
           IN  Max(At(Loosest[Min({x \in DOMAIN Loosest : At(Loosest[x]) # {}})]))

RECURSIVE Value(_), ValueAt(_, _)
ValueAt(e, k) == Apply(e[k].v, Value(SubSeq(e, 1, k - 1)), Value(SubSeq(e, k + 1, Len(e))))
Value(e) ==
  CASE Binary(e) # {} -> ValueAt(e, Root(e))
    [] Binary(e) = {} /\ e[1].p = NUM -> e[1].n
    [] Binary(e) = {} /\ e[1].p = IDENT -> 0
    [] Binary(e) = {} /\ e[1].v = "(" -> Value(SubSeq(e, 2, Len(e) - 1))
    [] Binary(e) = {} /\ e[1].v = "!" -> OneIf(Value(Tail(e)) = 0)
    [] Binary(e) = {} /\ e[1].v = "-" -> -Value(Tail(e))
    [] Binary(e) = {} /\ e[1].v = "~" -> -Value(Tail(e)) - 1

\* macros are replaced in what they expand to, but never within themselves
Closing(e) == Min({k \in 2..Len(e) : e[k] = Op(")") /\ Depth(e, k) = 0})
\* the arguments of the call at the start of e, whose parentheses are at 2 and at close
Arguments(e, close) ==
  LET ends == SetToSortSeq({2, close} \cup {k \in 2..close : e[k] = Op(",") /\ Depth(e, k) = 1}, <)
  IN  [i \in 1..(Len(ends) - 1) |-> SubSeq(e, ends[i] + 1, ends[i + 1] - 1)]

RECURSIVE Expand(_, _), ExpandCall(_, _, _), Body(_, _, _)
Body(m, args, d) ==
  LET Arg(v) == args[CHOOSE i \in DOMAIN m.params : m.params[i] = v]
  IN  FlattenSeq([j \in DOMAIN m.body |->
        CASE m.body[j] = Op("#") -> <<>>
          [] m.body[j].v \notin Range(m.params) /\ m.body[j] # Op("#") -> <<m.body[j]>>
          [] OTHER -> IF j > 1 /\ m.body[j - 1] = Op("#") THEN <<Str(Stringize(Arg(m.body[j].v)))>>
                      ELSE Expand(Arg(m.body[j].v), d)])
Hide(e, d) == Restrict(d, DOMAIN d \ {e[1].v})
ExpandCall(e, close, d) ==
  Expand(Body(d[e[1].v], Arguments(e, close), d), Hide(e, d)) \o Expand(SubSeq(e, close + 1, Len(e)), d)
Expand(e, d) ==
  CASE e = <<>> -> <<>>
    [] e # <<>> /\ e[1] = Ident("defined") /\ e[2] = Op("(") ->
         <<Bool(e[3].v \in DOMAIN d)>> \o Expand(SubSeq(e, 5, Len(e)), d)
    [] e # <<>> /\ e[1] = Ident("defined") /\ e[2] # Op("(") ->
         <<Bool(e[2].v \in DOMAIN d)>> \o Expand(SubSeq(e, 3, Len(e)), d)
    [] e # <<>> /\ e[1].p = IDENT /\ e[1].v \in DOMAIN d /\ ~d[e[1].v].fun ->
         Expand(d[e[1].v].body, Hide(e, d)) \o Expand(Tail(e), d)
    [] e # <<>> /\ e[1].p = IDENT /\ e[1].v \in DOMAIN d /\ d[e[1].v].fun /\ Len(e) > 1 /\ e[2] = Op("(") ->
         ExpandCall(e, Closing(e), d)
    [] OTHER -> <<e[1]>> \o Expand(Tail(e), d)

Text(l, d) == Expand(Tokenize(l.toks), d)

Holds(l, d) == CASE l.kind = "ifdef" -> l.name \in DOMAIN d
                 [] l.kind = "ifndef" -> l.name \notin DOMAIN d
                 [] OTHER -> Value(Text(l, d)) # 0

----------------------------------------------------------------------------
(* Expressions and macros on which preproc.py is known to differ.          *)

Groups(e) == {e} \cup {SubSeq(e, p[1] + 1, p[2] - 1) : p \in {q \in (1..Len(e)) \X (1..Len(e)) :
               q[1] < q[2] /\ e[q[1]] = Op("(") /\ e[q[2]] = Op(")") /\ Depth(e, q[2]) = Depth(e, q[1] - 1)
               /\ \A k \in q[1]..(q[2] - 1) : Depth(e, k) > Depth(e, q[2])}}

\* a plain 0 at the start is true; && drops an || after it; an operator that has to wait
\* for a tighter one does not let that one wait; & ^ | are one level
Odd(e) ==
  LET ops == SetToSortSeq(Binary(e), <)
      Level(i) == prec[e[ops[i]].v]
      V(i) == e[ops[i]].v
      n == Len(ops)
  IN  \/ n > 0 /\ V(1) = "||" /\ {e[k] : k \in 1..(ops[1] - 1)} \subseteq {Op("("), Op(")"), Op("+"), Literal(0)}
      \/ \E i, j \in 1..n : i < j /\ V(i) = "&&" /\ V(j) = "||"
      \/ \E i, j \in 1..n : /\ i < j - 1
                            /\ \A k \in (i + 1)..j : Level(k) < Level(i)
                            /\ Level(j) < Level(j - 1)
      \/ Cardinality({V(i) : i \in 1..n} \cap {"&", "^", "|"}) > 1
OddExpression(e) == \E g \in Groups(e) : Odd(g)

\* the body of a macro without parameters is not looked at again
Chained(e, d) == \E t \in Range(e) :
  /\ t.p = IDENT /\ t.v \in DOMAIN d
  /\ \E b \in Range(d[t.v].body) : b.p = IDENT /\ b.v \in DOMAIN d

OddCondition(l, d) == l.kind \in {"if", "elif"} /\ (Chained(l.toks, d) \/ OddExpression(Text(l, d)))
Unsupported(l, d) == l.kind \in {"if", "elif"} /\ Op("~") \in Range(Text(l, d))

----------------------------------------------------------------------------
(* The compiler: work is a sequence of lines with their file, c what it    *)
(* has come to.                                                            *)

Work(p, file) == LET raw == SelectSeq(p.files[file], LAMBDA l : l.code)
                 IN  [i \in DOMAIN raw |-> [file |-> file, line |-> raw[i], first |-> i = 1]]

Alive(conds) == \A i \in DOMAIN conds : conds[i].live

Resolve(p, l, file) ==
  LET dirs == (IF l.form = "angle" THEN <<>> ELSE <<Front(file)>>) \o p.nodepaths
      at == {k \in DOMAIN dirs : dirs[k] \o l.path \in DOMAIN p.files}
  IN  IF at = {} THEN NoSource ELSE dirs[Min(at)] \o l.path

\* the include line with its name, when macros make it
Spelt(l, e) == IF Len(e) = 1 THEN [l EXCEPT !.form = "quote", !.path = <<e[1].v>>] ELSE l
Named(l, d) == IF l.form = "macro" THEN Spelt(l, Text(l, d)) ELSE l

\* bans go by name, and a pragma is taken for the last name searched for
SameName(p, file) == \E f \in DOMAIN p.files : f # file /\ Last(f) = Last(file)

\* c after a line of a condition; holds is its value
OpenIf(c, l, live, holds) ==
  [c EXCEPT !.conds = Append(@, [live |-> holds, taken |-> ~live \/ holds]),
            !.both = @ \/ (live /\ Unsupported(l, c.defs)),
            !.fault = @ \/ (live /\ OddCondition(l, c.defs))]
OtherIf(c, l, asked, holds) ==
  [c EXCEPT !.conds = Append(Front(@), [live |-> holds, taken |-> Last(@).taken \/ holds]),
            !.fault = @ \/ (asked /\ l.kind = "elif" /\ (OddCondition(l, c.defs) \/ Unsupported(l, c.defs)))]
Asked(c) == Alive(Front(c.conds)) /\ ~Last(c.conds).taken

Conditional(c, l, live, asked) ==
  CASE l.kind \in Ifs -> OpenIf(c, l, live, live /\ Holds(l, c.defs))
    [] l.kind = "elif" -> OtherIf(c, l, asked, asked /\ Holds(l, c.defs))
    [] l.kind = "else" -> OtherIf(c, l, asked, asked)
    [] l.kind = "endif" -> [c EXCEPT !.conds = Front(@)]

\* c after an include of found, or of nothing
Opening(p, c, l, inc, file, found) ==
  IF found = NoSource THEN [c EXCEPT !.fault = @ \/ inc.form = "macro"]
  ELSE [c EXCEPT
          !.opened = @ \cup {found},
          !.once = IF l.kind = "import" THEN @ \cup {found} ELSE @,
          !.n = IF found \in c.once THEN @ ELSE @ + 1,
          !.fault = @ \/ found \in p.unreadable \/ Last(found) \in Moc \/ c.n = FileLimit
                      \/ (l.kind = "import" /\ SameName(p, found))
                      \/ (inc.form = "angle" /\ Resolve(p, [inc EXCEPT !.form = "quote"], file) # found)
                      \/ Chained(l.toks, c.defs)]

Directive(p, c, first, l, file) ==
  CASE l.kind = "define" ->
         [c EXCEPT !.defs = (l.name :> [fun |-> l.fun, params |-> l.params, body |-> Tokenize(l.toks)]) @@ @]
    [] l.kind = "undef" -> [c EXCEPT !.defs = Restrict(@, DOMAIN @ \ {l.name})]
    [] l.kind = "pragma" /\ l.name = "once" ->
         [c EXCEPT !.once = @ \cup {file}, !.fault = @ \/ ~first \/ SameName(p, file)]
    [] OTHER -> c

RECURSIVE Compile(_, _, _), Enter(_, _, _, _, _)
\* the lines of found come next, unless they were read once for all
Enter(p, rest, c, found, next) ==
  Compile(p, IF found = NoSource \/ found \in c.once \/ next.fault THEN rest ELSE Work(p, found) \o rest, next)

Compile(p, work, c) ==
  LET l == Head(work).line
      file == Head(work).file
      Step(next) == Compile(p, Tail(work), next)
  IN  CASE work = <<>> -> c
        [] work # <<>> /\ l.kind \in Ifs \cup {"elif", "else", "endif"} ->
             Step(Conditional(c, l, Alive(c.conds), Asked(c)))
        [] work # <<>> /\ Alive(c.conds) /\ l.kind \in {"include", "import"} ->
             LET inc == Named(l, c.defs) IN
             Enter(p, Tail(work), c, Resolve(p, inc, file), Opening(p, c, l, inc, file, Resolve(p, inc, file)))
        [] work # <<>> /\ Alive(c.conds) /\ l.kind \notin {"include", "import"} ->
             Step(Directive(p, c, Head(work).first, l, file))
        [] OTHER -> Step(c)

\* every file closes the conditions it opens
Balanced(raw) ==
  LET Deep(i) == Cardinality({k \in 1..i : raw[k].kind \in Ifs}) - Cardinality({k \in 1..i : raw[k].kind = "endif"})
  IN  Deep(Len(raw)) = 0 /\ \A i \in DOMAIN raw : Deep(i) >= (IF raw[i].kind \in {"else", "elif"} THEN 1 ELSE 0)

HasEffects(p) == \E f \in DOMAIN p.files : \E i \in DOMAIN p.files[f] :
                   p.files[f][i].kind \in {"define", "undef", "pragma", "import"}

Judged(p, c) == [c EXCEPT !.fault = @ \/ (c.both /\ HasEffects(p))]
Compiled(p, s) ==
  LET start == [defs |-> <<>>, conds |-> <<>>, opened |-> {}, once |-> {}, fault |-> FALSE, both |-> FALSE, n |-> 1]
      deflines == [i \in DOMAIN p.deflines |-> [file |-> s, line |-> p.deflines[i], first |-> FALSE]]
  IN  IF \A f \in DOMAIN p.files : Balanced(SelectSeq(p.files[f], LAMBDA l : l.code))
      THEN Judged(p, Compile(p, deflines \o Work(p, s), start))
      ELSE [start EXCEPT !.fault = TRUE]

----------------------------------------------------------------------------
TypeOK ==
  /\ Range(todo) \subseteq Range(program.sources)
  /\ source \in Range(program.sources) \cup {NoSource}
  /\ DOMAIN deps \subseteq Range(program.sources)
  /\ DOMAIN parse_cache \subseteq DOMAIN program.files
  /\ Range(state) \subseteq {accepted, ignored, undefined, skipped}
  /\ Range(nodes) \subseteq DOMAIN program.files
  /\ count_files \in Nat

(* Quoted names are looked for in the directory of the file whose lines    *)
(* are read, and then in those of the files that include it: the stack of  *)
(* directories matches the ends of files still in lines, as long as no     *)
(* file failed to be read (preproc.py:633-660, 679-682).                   *)
Ends == Reverse(SelectSeq(lines, LAMBDA l : l.kind = POPFILE))
AllRead == count_files <= FileLimit /\ program.unreadable \cap Range(nodes) = {}
NestingKept == AllRead /\ source # NoSource => currentnode_stack = [i \in DOMAIN Ends |-> Ends[i].path]

(* Every scan ends, a header that includes itself or not: a step takes a   *)
(* line off, or reads a file that counts and is within the limit           *)
(* (preproc.py:638-653, 678-679).                                          *)
ScanAdvances == [][source # NoSource /\ source' = source =>
                     \/ Len(lines') < Len(lines)
                     \/ count_files < count_files' /\ count_files' <= FileLimit]_scanvars

(* The headers the scan finds are those the compiler opens.  No header is  *)
(* missed, so an edit of one rebuilds the object, even when a condition    *)
(* cannot be evaluated (preproc.py:662-748); and no header is taken that   *)
(* the compiler does not open, when all the conditions can be evaluated,   *)
(* so an edit of it rebuilds nothing (preproc.py:11, reason 4).            *)
Complete(c, found) == ~c.fault => c.opened \subseteq found
Needed(c, found) == ~c.fault /\ ~c.both => found \subseteq c.opened
Exact(c, found) == Complete(c, found) /\ Needed(c, found)
HeadersExact == \A s \in DOMAIN deps : Exact(Compiled(program, s), Range(deps[s].nodes))

(* What holds at every step of the scan: the lists are of the program's    *)
(* files, and the stack of directories is that of the files being read.    *)
ScanInv == TypeOK /\ NestingKept
=============================================================================
