----------------------------- MODULE MCNodeTree -----------------------------
(***************************************************************************)
(* A source folder in three shapes, and what a script may ask of it.       *)
(***************************************************************************)
EXTENDS NodeTree, TLC

In(names) == srcnode \o names
Dirs(ps) == [p \in ps |-> "dir"]
Files(ps) == [p \in ps |-> "file"]
Always == Dirs({Root, srcnode, bldnode, In(<<"lib">>)}) @@ Files({In(<<"a.c">>), bldnode \o <<"a.c">>})
MCDisks ==
  {Always @@ Files({In(<<"lib", "b.c">>)}),
   Always @@ Dirs({In(<<"lib", "sub">>)}) @@ Files({In(<<"lib", "sub", "b.c">>), In(<<"lib", "a.c">>)}),
   [p \in DOMAIN Always \ {In(<<"lib">>)} |-> Always[p]]}
MCLookups ==
  {<<"a.c">>, <<"a.o">>, <<"lib">>, <<"lib", "b.c">>, <<"lib", "sub", "b.c">>, <<"..", "a.c">>, <<"gen", "a.c">>}
Sources == {"a.c", "b.c"}
MCPatterns ==
  {<<{<<AnyDepth, Sources>>}, {}>>, <<{<<AnyDepth>>}, {<<{"lib"}, {"sub"}>>}>>,
   <<{<<Sources>>, <<{"lib"}, AnyDepth>>}, {<<AnyDepth, {"a.c"}>>}>>,
   <<{<<AnyDepth, {"a.o", "a.c"}>>}, {<<{"lib"}>>}>>,
   <<{<<AnyDepth, {"sub"}, Sources>>}, {<<{"lib"}, {"sub"}, AnyDepth>>}>>}
NoNodes == disk = <<>> /\ tree = EmptyTree /\ answer = NoAnswer /\ declared = {} /\ fresh = FALSE /\ calls = 0
=============================================================================
