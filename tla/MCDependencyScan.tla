-------------------------- MODULE MCDependencyScan --------------------------
(* Three edges, of which "a" is a generator, "b" has two outputs and "c" is phony,  *)
(* and so never in the log; x is a source, h a header.  Some of the graphs have     *)
(* cycles, in the manifest or through deps.                                         *)
EXTENDS DependencyScan, TLC

Outputs == [a |-> <<"oa">>, b |-> <<"ob", "ob2">>, c |-> <<"oc">>]
NoDeps == [e \in Edge |-> <<>>]

InsA == {<<"ob">>, <<"ob", "oc">>, <<"oc", "ob">>, <<"x", "ob2">>}
InsB == {<<"x">>, <<"oc">>, <<"oc", "x">>, <<"oa">>}
InsC == {<<>>, <<"x">>, <<"ob">>, <<"oc">>}
Found == {<<"h">>, <<"oc">>, <<"oa">>}

LogOf(a, b) == [a |-> a, b |-> b, c |-> "none"]
Logs == {LogOf("command", "same"), LogOf("same", "none"), LogOf("same", "inputs")}

\* No output exists yet, so that no stat fails.  A c without inputs has named itself as an
\* order-only one.
ManyGraphs ==
    {[ins |-> [a |-> ia, b |-> ib, c |-> ic],
      order_only |-> [a |-> 0, b |-> ob, c |-> IF ic = <<>> THEN 1 ELSE 0],
      validations |-> [a |-> v, b |-> <<>>, c |-> <<>>],
      load |-> [a |-> "none", b |-> lf[1], c |-> "none"],
      found |-> [NoDeps EXCEPT !.b = lf[2]],
      targets |-> t, present |-> p, log |-> lg] :
        ia \in InsA, ib \in InsB, ic \in InsC, ob \in 0..1,
        v \in {<<>>, <<"oc">>},
        lf \in ({"log"} \X Found) \cup {<<"none", <<>>>>, <<"stale", <<>>>>},
        t \in {<<"oa">>, <<"oc", "oa">>, <<"ob", "oa">>},
        p \in {{"x", "h"}, {"h"}}, lg \in Logs}

\* One graph: a compilation b with an order-only input oc, and a after it.
Chain == [ins |-> [a |-> <<"ob">>, b |-> <<"x", "oc">>, c |-> <<>>],
          order_only |-> [a |-> 0, b |-> 1, c |-> 0],
          validations |-> NoDeps, load |-> [a |-> "none", b |-> "none", c |-> "none"],
          found |-> NoDeps, targets |-> <<"oa">>, present |-> {"x", "h"}, log |-> LogOf("same", "same")]

ValidationGraphs == {[Chain EXCEPT !.validations.b = <<"oc">>, !.ins.b = <<"x">>,
                                   !.order_only.b = 0, !.ins.c = <<"x">>]}
\* The header is generated by c, which is out of date.
DepsGraphs == {[Chain EXCEPT !.load.b = "log", !.found.b = <<"oc">>, !.ins.b = <<"x", "h">>,
                             !.ins.c = <<"x">>]}
MissingGraphs == {[Chain EXCEPT !.load.b = "log", !.found.b = <<"h">>, !.order_only.b = 0,
                                !.ins.b = <<"x">>, !.present = {"x"}]}
ClaimGraphs == ValidationGraphs \cup MissingGraphs
\* Everything that may go wrong: malformed depfiles, depfiles together with order-only
\* inputs, outputs whose inputs are missing, and then other targets.
FailingGraphs ==
    {[Chain EXCEPT !.ins.a = ia, !.ins.b = ib, !.order_only.b = ob, !.load.b = l,
                   !.found.b = f, !.targets = t, !.present = p, !.log = LogOf("none", "none")] :
        ia \in {<<"ob">>, <<"oc", "ob">>}, ib \in {<<"x", "oc">>, <<"oc">>}, ob \in 0..1,
        l \in {"none", "error", "depfile", "log"},
        f \in {<<>>, <<"h">>, <<"h", "x">>, <<"h", "h", "x">>},
        t \in {<<"oa">>, <<"oa", "oa">>, <<"ob", "oa">>, <<"oc", "ob", "oa">>},
        p \in {{"x", "h"}, {"x", "h", "oa"}, {"x", "h", "ob2"}, {"x", "h", "oc", "ob", "ob2"}}}
AllGraphs == ManyGraphs \cup FailingGraphs
=============================================================================
