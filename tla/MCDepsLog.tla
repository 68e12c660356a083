------------------------------ MODULE MCDepsLog ------------------------------
(* Two objects, a header of one of them and a header that both may include. *)
EXTENDS DepsLog

MCNode == {"a.o", "b.o", "a.h", "common.h"}
MCOutput == {"a.o", "b.o"}
MCDepLists == {<<"a.h">>, <<"common.h">>, <<"a.h", "common.h">>, <<>>}
=============================================================================
