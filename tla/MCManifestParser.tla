-------------------------- MODULE MCManifestParser --------------------------
(***************************************************************************)
(* Manifests: every sequence of a few statements from an alphabet, after a *)
(* rule, with every one of a few files to include.                         *)
(***************************************************************************)
EXTENDS ManifestParser

Vars == Reserved \cup {"in", "out", "flags"}
Atoms == {"a", "b", "c", "cc", "x", Dot, "sub.ninja", "p"}

P(atom) == <<Raw(atom)>>
Let(key, value) == [key |-> key, value |-> value]

Base == [kind |-> "bad", name |-> "", lets |-> <<>>, outs |-> <<>>, implicit_outs |-> 0,
         ins |-> <<>>, implicit |-> 0, order_only |-> 0, validations |-> <<>>, paths |-> <<>>]
VarIs(name, value) == [Base EXCEPT !.kind = "let", !.name = name, !.lets = <<Let(name, value)>>]
Pool(name, lets) == [Base EXCEPT !.kind = "pool", !.name = name, !.lets = lets]
RuleOf(name, lets) == [Base EXCEPT !.kind = "rule", !.name = name, !.lets = lets]
Build(outs, rule, ins) ==
    [Base EXCEPT !.kind = "build", !.name = rule, !.outs = outs, !.ins = ins]
Default(paths) == [Base EXCEPT !.kind = "default", !.paths = paths]
Read1(kind, path) == [Base EXCEPT !.kind = kind, !.paths = <<path>>]

CC == RuleOf("cc", <<Let("command", <<Raw("cc"), Special("flags"), Special("in")>>)>>)
\* The text b stands for a number below 0, which flags may hold.
Negatives == {<<"b">>}
Depth == Let("depth", <<Special("flags")>>)
Sub == P("sub.ninja")

\* Statements that do not depend on themselves.
Common == {
    Base,
    VarIs("flags", <<Special("flags"), Raw("b")>>),
    Pool("p", <<Depth>>),
    RuleOf("phony", <<Let("command", P("x"))>>),
    Build(<<P("a")>>, "cc", <<P("b"), <<Special("flags")>>>>),
    Build(<<P("b"), P("c")>>, "cc", <<>>),
    Build(<<<<Raw(Dot), Raw("c")>>>>, "cc", <<P("a"), P("a")>>),
    [Build(<<P("b")>>, "phony", <<P("a")>>) EXCEPT !.order_only = 1],
    [Build(<<P("x")>>, "cc", <<P("a")>>) EXCEPT !.validations = <<P("c")>>, !.implicit = 1,
        !.lets = <<Let("pool", P("p")), Let("flags", P("c"))>>],
    Default(<<P("a")>>),
    Read1("include", Sub),
    Read1("subninja", Sub) }

SubFiles == {
    <<VarIs("flags", P("c"))>>,
    <<CC, Build(<<P("c")>>, "cc", <<P("x")>>)>>,
    <<Pool("p", <<Depth>>), Read1("include", Sub)>> }

UpTo(k, S) == UNION {[1..n -> S] : n \in 0..k}
ProgramsOf(k, S, subs) ==
    {(Main :> (<<CC>> \o s)) @@ (<<"sub.ninja">> :> sub) : s \in UpTo(k, S), sub \in subs}

Manifests == ProgramsOf(3, Common, SubFiles)
CommandLines == {<<>>, <<[path |-> <<"a">>, caret |-> FALSE], [path |-> <<"b">>, caret |-> TRUE]>>}
NoArgs == {<<>>}

\* Phony edges, and bindings that the edge, the rule and the file have.
Self(ins) == Build(<<P("a")>>, "phony", ins)
OrderOnlySelf == [Self(<<P("a")>>) EXCEPT !.order_only = 1]
Once == { Self(<<P("b")>>), Self(<<P("a")>>), Self(<<P("b"), P("a")>>), OrderOnlySelf,
          [Self(<<P("b"), P("a")>>) EXCEPT !.implicit = 1, !.outs = <<P("b")>>],
          Build(<<P("b")>>, "cc", <<P("a")>>), Build(<<P("b")>>, "cc", <<>>), Build(<<P("c"), P("x")>>, "phony", <<P("c")>>),
          RuleOf("x", <<Let("command", P("x")), Let("rspfile", P("x"))>>),
          RuleOf("x", <<Let("command", P("x")), Let("pool", <<Special("pool")>>)>>),
          Build(<<P("x")>>, "x", <<>>) }
NoSub == {<<>>}
PhonyManifests == ProgramsOf(3, Once, NoSub)
TwiceManifests == ProgramsOf(1, {Self(<<P("a"), P("a")>>)}, NoSub)
OrderOnlyManifests == ProgramsOf(1, {OrderOnlySelf}, NoSub)
DyndepManifests == ProgramsOf(1,
    {[Build(<<P("a")>>, "cc", <<P("b")>>) EXCEPT !.lets = <<Let("dyndep", P("b"))>>]}, NoSub)
CommandManifests == ProgramsOf(2,
    {VarIs("command", P("x")), Build(<<P("a")>>, "cc", <<P("b")>>)}, NoSub)
ClaimManifests == TwiceManifests \cup OrderOnlyManifests \cup CommandManifests
AllManifests == Manifests \cup PhonyManifests \cup DyndepManifests
=============================================================================
