--------------------------- MODULE BuildSchedule ---------------------------
(***************************************************************************)
(* What a build promises, without plan, pools or queues: the commands of   *)
(* |todo| run at most once each, no more than Parallelism at a time, and   *)
(* none before everything it needs has been built.                         *)
(***************************************************************************)
EXTENDS Naturals, FiniteSets

CONSTANTS
    Edge,
    Parallelism,
    DependsOn   \* the edges that produce an edge's inputs

VARIABLES
    todo,    \* the edges whose command is to be run; fixed
    active,  \* those being run
    done,    \* those that have succeeded
    broken   \* those that have failed

svars == <<todo, active, done, broken>>

\* What e needs has been built: some set of edges that contains e's producers,
\* theirs and so on, has nothing left to do.
Satisfied(e) ==
    \E S \in SUBSET Edge :
        /\ DependsOn[e] \subseteq S
        /\ \A d \in S : DependsOn[d] \subseteq S
        /\ S \cap todo \subseteq done

SInit ==
    /\ todo \in SUBSET Edge
    /\ active = {} /\ done = {} /\ broken = {}

Start(e) ==
    /\ e \in todo \ (active \cup done \cup broken)
    /\ Satisfied(e)
    /\ Cardinality(active) < Parallelism
    /\ active' = active \cup {e}
    /\ UNCHANGED <<todo, done, broken>>

Succeed(e) ==
    /\ e \in active
    /\ active' = active \ {e}
    /\ done' = done \cup {e}
    /\ UNCHANGED <<todo, broken>>

Fail(e) ==
    /\ e \in active
    /\ active' = active \ {e}
    /\ broken' = broken \cup {e}
    /\ UNCHANGED <<todo, done>>

SNext == \E e \in Edge : Start(e) \/ Succeed(e) \/ Fail(e)

SSpec == SInit /\ [][SNext]_svars
=============================================================================
