---------------------------- MODULE MCNinjaMain ----------------------------
(* Instances of NinjaMain: three versions of the source, which are edited in their  *)
(* order or in any, and a manifest whose rule is the same in each or changes.       *)
EXTENDS NinjaMain, TLC

Versions == 1..3
Forward == {<<v, w>> \in Versions \X Versions : v < w}
Reverting == {<<v, w>> \in Versions \X Versions : v # w}
AllPlain == [v \in Versions |-> "plain"]
AllRestat == [v \in Versions |-> "restat"]
Mixed == (1 :> "plain") @@ (2 :> "generator") @@ (3 :> "none")
Kinds == (1 :> "plain") @@ (2 :> "restat") @@ (3 :> "generator")

AllWorlds == [rules : {AllPlain, AllRestat, Mixed, Kinds}, edits : {Forward, Reverting},
              racing : BOOLEAN, cached : BOOLEAN, failing : BOOLEAN]
=============================================================================
