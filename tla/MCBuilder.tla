----------------------------- MODULE MCBuilder -----------------------------
(***************************************************************************)
(* Small manifests for TLC.  A manifest is a function from edge names to   *)
(* what the build statement says; the constants of BuildGraph are read off *)
(* the one a configuration picks.                                          *)
(***************************************************************************)
EXTENDS Builder, FiniteSetsExt

CONSTANT Manifest

\* A build statement: inputs, order-only inputs, outputs, pool, properties.
Stmt(ins, oo, outs, pool, props) ==
    [ins |-> ins, oo |-> oo, outs |-> outs, pool |-> pool, props |-> props]

\* A generator step with two outputs, four compilations (one of them with the
\* header as an order-only input), and a link behind a phony collection, which once
\* named itself.
Compile == [
    gen  |-> Stmt(<<"table">>, {}, <<"header", "table.c">>, "default", {}),
    cc1  |-> Stmt(<<"a.c">>, {"header"}, <<"a.o">>, "default", {"deps"}),
    cc2  |-> Stmt(<<"b.c", "header">>, {}, <<"b.o">>, "default", {"deps"}),
    cc3  |-> Stmt(<<"table.c", "header">>, {}, <<"t.o">>, "default", {"deps"}),
    cc4  |-> Stmt(<<"main.c">>, {}, <<"main.o">>, "default", {"deps"}),
    objs |-> Stmt(<<"a.o", "b.o", "t.o">>, {}, <<"objs">>, "default", {"phony", "self"}),
    link |-> Stmt(<<"objs", "main.o">>, {}, <<"app">>, "default", {"target"})]

\* A step with two outputs, one of whose users takes both.
Diamond == [
    split |-> Stmt(<<"in">>, {}, <<"left", "right">>, "default", {}),
    l     |-> Stmt(<<"left">>, {}, <<"l">>, "default", {}),
    r     |-> Stmt(<<"right", "left">>, {}, <<"r">>, "default", {}),
    join  |-> Stmt(<<"l", "r">>, {}, <<"out">>, "default", {"target"})]

\* A generator edge with two inputs, one of them from a restat step, and a step
\* after it that it may take out of the plan as well.
RestatJoin == [
    touch |-> Stmt(<<"in">>, {}, <<"stamp">>, "default", {"restat"}),
    other |-> Stmt(<<"src">>, {}, <<"obj">>, "default", {}),
    conf  |-> Stmt(<<"stamp", "obj">>, {}, <<"conf">>, "default", {"generator"}),
    final |-> Stmt(<<"conf", "obj">>, {"stamp"}, <<"final">>, "default", {"target"})]

\* Two links that share a pool of one.
PoolPair == [
    ld1  |-> Stmt(<<"x.o">>, {}, <<"x">>, "link_pool", {}),
    ld2  |-> Stmt(<<"y.o">>, {}, <<"y">>, "link_pool", {"deps"}),
    pack |-> Stmt(<<"x", "y">>, {}, <<"pkg">>, "default", {"target"})]

\* A restat step, a generator that it may take out of the plan, and after it the first of
\* two links that share a pool of one.
RestatAndPool == [
    touch |-> Stmt(<<"in">>, {}, <<"stamp">>, "default", {"restat"}),
    obj   |-> Stmt(<<"src">>, {}, <<"obj">>, "default", {}),
    conf  |-> Stmt(<<"stamp", "obj">>, {}, <<"conf">>, "default", {"generator"}),
    ld1   |-> Stmt(<<"conf", "obj">>, {"stamp"}, <<"app1">>, "link_pool", {"target"}),
    ld2   |-> Stmt(<<"obj">>, {}, <<"app2">>, "link_pool", {"deps", "target"})]

MCEdge == DOMAIN Manifest
MCIns == [e \in MCEdge |-> Manifest[e].ins]
MCOrderOnly == [e \in MCEdge |-> Manifest[e].oo]
MCOuts == [e \in MCEdge |-> Manifest[e].outs]
MCNode == UNION {ToSet(MCIns[e]) \cup MCOrderOnly[e] \cup ToSet(MCOuts[e]) : e \in MCEdge}

\* The manifest lists its edges in some order, and out_edges_ follows it.
EdgeOrder == FoldSet(LAMBDA e, s : Append(s, e), <<>>, MCEdge)
MCOutEdges == [n \in MCNode |->
    SelectSeq(EdgeOrder, LAMBDA e :
        \/ n \in ToSet(MCIns[e]) \cup MCOrderOnly[e]
        \/ "self" \in Manifest[e].props /\ n \in ToSet(MCOuts[e]))]

MCPool == {"default", "link_pool"}
MCPoolOf == [e \in MCEdge |-> Manifest[e].pool]
DepthOne == [p \in MCPool |-> IF p = "default" THEN 0 ELSE 1]

With(prop) == {e \in MCEdge : prop \in Manifest[e].props}
MCPhony == With("phony")
MCGenerator == With("generator")
MCRestat == With("restat")
MCDepsTyped == With("deps")
MCTargets == UNION {ToSet(MCOuts[e]) : e \in With("target")}

AnyHeadroom == -1..6
=============================================================================
