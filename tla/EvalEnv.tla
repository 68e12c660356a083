------------------------------ MODULE EvalEnv ------------------------------
(***************************************************************************)
(* Variables and scopes: EvalString, BindingEnv and EdgeEnv.  A value is a *)
(* sequence of atoms and concatenation is \o; an EvalString is a sequence  *)
(* of tokens, each raw text or a variable.  Scopes are numbered in the     *)
(* order they are made, and 0 is a nil parent.                             *)
(***************************************************************************)
EXTENDS Naturals, Sequences, SequencesExt

CONSTANTS
    Var,     \* the names of variables
    Atom     \* the pieces of text

Value == Seq(Atom)
Empty == <<>>
\* What a variable that is defined by itself gives: log.Fatal.
Cycle == <<"cycle in rule variables">>

Raw(text) == [special |-> FALSE, text |-> text]
Special(name) == [special |-> TRUE, text |-> name]

\* EvalString.Evaluate in the environment whose LookupVariable is the function lookup.  A
\* cycle met on the way ends the program, and with it the evaluation.
Evaluate(eval, lookup) ==
    LET piece == [i \in DOMAIN eval |->
                      IF eval[i].special THEN lookup[eval[i].text] ELSE <<eval[i].text>>]
    IN  IF \E i \in DOMAIN piece : piece[i] = Cycle THEN Cycle ELSE FlattenSeq(piece)

-----------------------------------------------------------------------------
(* BindingEnv *)

NewBindingEnv(parent) == [parent |-> parent, bindings |-> <<>>, rules |-> <<>>]

\* bindings and rules are functions on the names they define.
Bind(f, name, value) == [x \in DOMAIN f \cup {name} |-> IF x = name THEN value ELSE f[x]]

\* The scopes from s outwards, innermost first.
Outwards(envs, s) ==
    LET chain[t \in 0..Len(envs)] ==
            IF t = 0 THEN <<>> ELSE <<t>> \o chain[envs[t].parent]
    IN  chain[s]

\* The first of some scopes that has a definition, or 0.
Nearest(scopes, Defines(_)) ==
    LET hits == SelectSeq(scopes, Defines) IN IF hits = <<>> THEN 0 ELSE Head(hits)

LookupVariable(envs, s, name) ==
    LET scope == Nearest(Outwards(envs, s), LAMBDA t : name \in DOMAIN envs[t].bindings)
    IN  IF scope = 0 THEN Empty ELSE envs[scope].bindings[name]

\* The scope whose rule of that name is meant, or 0.
LookupRule(envs, s, name) ==
    Nearest(Outwards(envs, s), LAMBDA t : name \in DOMAIN envs[t].rules)

-----------------------------------------------------------------------------
(* EdgeEnv *)

\* $in and $out: the explicit paths, one after the other.
ExplicitInputs(edge) ==
    FlattenSeq(SubSeq(edge.inputs_, 1,
        Len(edge.inputs_) - edge.implicit_deps_ - edge.order_only_deps_))
ExplicitOutputs(edge) ==
    FlattenSeq(SubSeq(edge.outputs_, 1, Len(edge.outputs_) - edge.implicit_outs_))

\* LookupVariable of an edge with LookupWithFallback: the scope of the edge, the rule's
\* binding expanded here, and then the scopes around it.  The first name is not put into
\* lookups_.
EdgeLookup(envs, edge, name) ==
    LET lookup[x \in Var \X (SUBSET Var) \X BOOLEAN] ==
            LET v == x[1]
                lookups == x[2]
                recursive == x[3]
                inner == IF recursive /\ v \in DOMAIN edge.rule.bindings
                         THEN lookups \cup {v} ELSE lookups
                expand == [w \in Var |-> lookup[<<w, inner, TRUE>>]]
                own == envs[edge.env_].bindings
            IN  IF v = "in" THEN ExplicitInputs(edge)
                ELSE IF v = "out" THEN ExplicitOutputs(edge)
                ELSE IF recursive /\ v \in lookups THEN Cycle
                ELSE IF v \in DOMAIN own THEN own[v]
                ELSE IF v \in DOMAIN edge.rule.bindings
                     THEN Evaluate(edge.rule.bindings[v], expand)
                ELSE LookupVariable(envs, envs[edge.env_].parent, v)
    IN  lookup[<<name, {}, FALSE>>]
=============================================================================
