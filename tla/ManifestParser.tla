--------------------------- MODULE ManifestParser ---------------------------
(***************************************************************************)
(* From the text of the manifest to the graph: ManifestParser and the      *)
(* construction side of State.  A file is a sequence of statements, each   *)
(* read in one step; a statement that the lexer or ExpectToken refuses is  *)
(* "bad".  A frame is one activation of Parse, of a file that is included  *)
(* by the one below.  After Load, RunBuild collects its targets.           *)
(***************************************************************************)
EXTENDS EvalEnv, FiniteSets

CONSTANTS
    Programs,     \* the sets of files considered: functions from paths to files
    Args,         \* the command lines considered
    Negative,     \* the values that strconv.Atoi makes a number below 0
    PhonyCycleAction, \* "warn" or "error"
    MaxDepth      \* bound: nested files; ninja's own bound is its stack

\* A statement has: kind; name, of what it defines; lets, its indented lines, and for a
\* "let" its own; outs, ins, validations and paths, sequences of EvalStrings; and the
\* counts implicit_outs, implicit and order_only.  Main is the manifest.
IsSeq(s) == s \in Seq(ToSet(s))
WellFormed(prog) ==
    \A f \in DOMAIN prog :
        /\ IsSeq(prog[f])
        /\ \A i \in DOMAIN prog[f] :
              IsSeq(prog[f][i].outs) /\ IsSeq(prog[f][i].ins) /\ IsSeq(prog[f][i].validations)
Main == <<"build.ninja">>
Reserved == {"command", "depfile", "dyndep", "description", "deps", "generator", "pool",
             "restat", "rspfile", "rspfile_content", "msvc_deps_prefix"}
Dot == "./"

ASSUME ManifestParserAssumption ==
    /\ PhonyCycleAction \in {"warn", "error"} /\ MaxDepth \in Nat \ {0}
    /\ Reserved \subseteq Var

ASSUME ProgramsAssumption == \A prog \in Programs : Main \in DOMAIN prog /\ WellFormed(prog)

VARIABLES
    program,  \* the files; they do not change
    frames,   \* the activations of Parse: file, pos, env, and the enclosing scope as it
              \* was when a subninja began (saved, a history)
    envs,     \* the scopes made so far; the first is State.bindings_
    pools_, edges_, defaults_,
    nodes,    \* State.paths_: path -> in_edge and out_edges
    args,     \* the command line
    targets,  \* the set of nodes to build; their order does not matter here
    status    \* "parse", "loaded", "run", or how it ended: "error", "fatal", "panic",
              \* "overflow"

vars == <<program, frames, envs, pools_, edges_, defaults_, nodes, args, targets, status>>
state == <<pools_, edges_, defaults_, nodes>>

Top == Last(frames)
Known == DOMAIN nodes
Files == DOMAIN program

\* The state's own; a rule of that name that a subninja declares is another.
PhonyRule == [name |-> "phony", bindings |-> <<>>]

TypeOK ==
    /\ \A i \in DOMAIN frames :
           frames[i].file \in Files /\ frames[i].env \in DOMAIN envs
           /\ frames[i].pos \in 1..(Len(program[frames[i].file]) + 1)
    /\ \A s \in DOMAIN envs : envs[s].parent \in 0..(s - 1)
    /\ \A e \in DOMAIN edges_ :
           /\ ToSet(edges_[e].inputs_) \cup ToSet(edges_[e].outputs_) \subseteq Known
           /\ edges_[e].env_ \in DOMAIN envs /\ edges_[e].pool_ \in pools_
    /\ \A n \in Known : nodes[n].in_edge \in 0..Len(edges_)
    /\ ToSet(defaults_) \cup targets \subseteq Known
    /\ status \in {"parse", "loaded", "run", "error", "fatal", "panic", "overflow"}

Init ==
    /\ program \in Programs /\ args \in Args
    /\ envs = <<[NewBindingEnv(0) EXCEPT !.rules = Bind(<<>>, "phony", PhonyRule)]>>
    /\ frames = <<[file |-> Main, pos |-> 1, env |-> 1, saved |-> {}]>>
    /\ pools_ = {Empty, <<"console">>} /\ edges_ = <<>> /\ defaults_ = <<>> /\ nodes = <<>>
    /\ targets = {} /\ status = "parse"

-----------------------------------------------------------------------------
(* State *)

CanonicalizePath(path) == SelectSeq(path, LAMBDA a : a # Dot)

NewNode == [in_edge |-> 0, out_edges |-> <<>>]
GetNode(n) == IF n \in Known THEN nodes[n] ELSE NewNode

Occurrences(x, seq) == Cardinality({i \in DOMAIN seq : seq[i] = x})

\* Mutant of AddInCalls: a validation is counted among the node's out_edges.
AddInCallsAndValidations(n, edge) == Occurrences(n, edge.inputs_ \o edge.validations_)

\* How often AddIn is called for node n, AddValidation not being of use here.
AddInCalls(n, edge) == Occurrences(n, edge.inputs_)

\* What AddOut and AddIn leave of a node's in_edge_ and out_edges_.
AddOut(n, edge, e) == IF n \in ToSet(edge.outputs_) THEN e ELSE GetNode(n).in_edge
AddIn(n, edge, e) == GetNode(n).out_edges \o [i \in 1..AddInCalls(n, edge) |-> e]

\* Mutant of MultipleRules: an output is taken from the edge that has it.
MultipleRulesNever(outs) == FALSE

\* Outputs that another edge has, or this one has twice.
MultipleRules(outs) ==
    \/ \E n \in ToSet(outs) \cap Known : nodes[n].in_edge # 0
    \/ \E i, j \in DOMAIN outs : i # j /\ outs[i] = outs[j]

RootNodes == {n \in UNION {ToSet(edges_[e].outputs_) : e \in DOMAIN edges_} :
                  nodes[n].out_edges = <<>>}

-----------------------------------------------------------------------------
(* Statements *)

Statement == program[Top.file][Top.pos]

\* The statement at hand is read, and is of this kind.
Read(kind) ==
    /\ status = "parse" /\ frames # <<>>
    /\ Top.pos <= Len(program[Top.file]) /\ Statement.kind = kind
Advanced == [frames EXCEPT ![Len(frames)].pos = @ + 1]

Evaluated(eval, s) == Evaluate(eval, [v \in Var |-> LookupVariable(envs, s, v)])

Ends(how) ==
    /\ status' = how
    /\ UNCHANGED <<program, frames, envs, state, args, targets>>

ParseBad == Read("bad") /\ Ends("error")

\* An IDENT at the start of a line.
ParseLet ==
    /\ Read("let")
    /\ envs' = [envs EXCEPT ![Top.env].bindings =
                    Bind(@, Statement.name, Evaluated(Statement.lets[1].value, Top.env))]
    /\ frames' = Advanced
    /\ UNCHANGED <<program, state, args, targets, status>>

\* A duplicate, something other than depth, a negative depth, or none at all; a depth that
\* is no number is 0.
PoolIsRefused(pool) ==
    \/ <<pool.name>> \in pools_
    \/ \E l \in ToSet(pool.lets) : l.key # "depth" \/ Evaluated(l.value, Top.env) \in Negative
    \/ Len(pool.lets) = 0

ParsePool ==
    /\ Read("pool")
    /\ IF PoolIsRefused(Statement) THEN Ends("error")
       ELSE IF <<Statement.name>> \in pools_ THEN Ends("panic")
       ELSE /\ pools_' = pools_ \cup {<<Statement.name>>}
            /\ frames' = Advanced
            /\ UNCHANGED <<program, envs, edges_, defaults_, nodes, args, targets, status>>

\* A later line for the same key replaces an earlier one.
LastLet(lets) ==
    LET keys == {l.key : l \in ToSet(lets)}
    IN  [k \in keys |-> SelectLastInSeq(lets, LAMBDA l : l.key = k)]
Bindings(lets) == [k \in DOMAIN LastLet(lets) |-> lets[LastLet(lets)[k]].value]

RuleIsRefused(rule) ==
    LET keys == {l.key : l \in ToSet(rule.lets)}
    IN  \/ rule.name \in DOMAIN envs[Top.env].rules
        \/ ~(keys \subseteq Reserved)
        \/ ("rspfile" \in keys) # ("rspfile_content" \in keys)
        \/ "command" \notin keys

ParseRule ==
    /\ Read("rule")
    /\ IF RuleIsRefused(Statement) THEN Ends("error")
       ELSE /\ envs' = [envs EXCEPT ![Top.env].rules = Bind(@, Statement.name,
                  [name |-> Statement.name, bindings |-> Bindings(Statement.lets)])]
            /\ frames' = Advanced
            /\ UNCHANGED <<program, state, args, targets, status>>

-----------------------------------------------------------------------------
(* ParseEdge *)

\* Its own scope, made only when there are bindings; these are evaluated outside of it.
EdgeScopes(build) ==
    IF build.lets = <<>> THEN envs
    ELSE Append(envs, [NewBindingEnv(Top.env) EXCEPT
             !.bindings = [k \in DOMAIN Bindings(build.lets) |->
                               Evaluated(Bindings(build.lets)[k], Top.env)]])
EdgeScope(build) == IF build.lets = <<>> THEN Top.env ELSE Len(envs) + 1

\* A path's value, before it is made canonical, in the edge's scope.
PathValues(build, evals) ==
    [i \in DOMAIN evals |->
        Evaluate(evals[i],
            [v \in Var |-> LookupVariable(EdgeScopes(build), EdgeScope(build), v)])]
Paths(build, evals) ==
    [i \in DOMAIN evals |-> CanonicalizePath(PathValues(build, evals)[i])]

\* A phony edge with one output that names itself: its first mention goes, and the counts
\* and out_edges stay.
WithoutItself(edge) ==
    LET phonycycle == /\ PhonyCycleAction = "warn" /\ edge.rule = PhonyRule
                      /\ Len(edge.outputs_) = 1 /\ edge.implicit_outs_ = 0
                      /\ edge.implicit_deps_ = 0
    IN  IF phonycycle /\ Contains(edge.inputs_, edge.outputs_[1])
        THEN [edge EXCEPT !.inputs_ = RemoveFirst(@, edge.outputs_[1])]
        ELSE edge

\* The edge as AddEdge, AddOut, AddIn and AddValidation leave it.
EdgeOf(build) ==
    LET rule == envs[LookupRule(envs, Top.env, build.name)].rules[build.name]
    IN  [rule |-> rule, env_ |-> EdgeScope(build), pool_ |-> Empty,
         outputs_ |-> Paths(build, build.outs), implicit_outs_ |-> build.implicit_outs,
         inputs_ |-> Paths(build, build.ins), implicit_deps_ |-> build.implicit,
         order_only_deps_ |-> build.order_only,
         validations_ |-> Paths(build, build.validations),
         own_scope |-> build.lets # <<>>]   \* a history

Mentioned(edge) ==
    ToSet(edge.outputs_) \cup ToSet(edge.inputs_) \cup ToSet(edge.validations_)
NodesWith(edge, e) ==
    [n \in Known \cup Mentioned(edge) |->
        [in_edge |-> AddOut(n, edge, e), out_edges |-> AddIn(n, edge, e)]]

\* The name of the pool is looked up while the edge has no paths yet.
PoolName(build) ==
    EdgeLookup(EdgeScopes(build), [EdgeOf(build) EXCEPT !.inputs_ = <<>>, !.outputs_ = <<>>],
               "pool")
Dyndep(build) == EdgeLookup(EdgeScopes(build), WithoutItself(EdgeOf(build)), "dyndep")

NoPath(build) == build.outs = <<>>
HasEmptyPath(build) ==
    \E evals \in {build.outs, build.ins, build.validations} :
        \E v \in ToSet(PathValues(build, evals)) : v = Empty

\* How the statement ends the program, in the order of the code's tests.  No node has
\* generated_by_dep_loader_, so that a dyndep file among the inputs is a panic.
EdgeVerdict(build) ==
    IF NoPath(build) \/ LookupRule(envs, Top.env, build.name) = 0 THEN "error"
    ELSE IF PoolName(build) = Cycle THEN "fatal"
    ELSE IF \/ PoolName(build) \notin pools_ \/ HasEmptyPath(build)
            \/ MultipleRules(Paths(build, build.outs)) THEN "error"
    ELSE IF Dyndep(build) = Cycle THEN "fatal"
    ELSE IF Dyndep(build) # Empty
         THEN IF Contains(WithoutItself(EdgeOf(build)).inputs_, CanonicalizePath(Dyndep(build)))
              THEN "panic" ELSE "error"
    ELSE "added"

ParseEdge ==
    /\ Read("build")
    /\ IF EdgeVerdict(Statement) # "added" THEN Ends(EdgeVerdict(Statement))
       ELSE LET edge == [EdgeOf(Statement) EXCEPT !.pool_ = PoolName(Statement)]
            IN  /\ envs' = EdgeScopes(Statement)
                /\ nodes' = NodesWith(edge, Len(edges_) + 1)
                /\ edges_' = Append(edges_, WithoutItself(edge))
                /\ frames' = Advanced
                /\ UNCHANGED <<program, pools_, defaults_, args, targets, status>>

-----------------------------------------------------------------------------
(* Defaults, files, targets *)

\* No target, an empty one, or one that no statement so far has mentioned.
DefaultIsRefused(values) ==
    \/ values = <<>> \/ Contains(values, Empty)
    \/ \E v \in ToSet(values) : CanonicalizePath(v) \notin Known

ParseDefault ==
    /\ Read("default")
    /\ LET values == [i \in DOMAIN Statement.paths |-> Evaluated(Statement.paths[i], Top.env)]
           paths  == [i \in DOMAIN values |-> CanonicalizePath(values[i])]
       IN  IF DefaultIsRefused(values) THEN Ends("error")
           ELSE /\ defaults_' = defaults_ \o paths
                /\ frames' = Advanced
                /\ UNCHANGED <<program, envs, pools_, edges_, nodes, args, targets, status>>

\* Mutant of NewScope: a subninja is read in the scope of the file that has it.
NewScopeNever(kind) == FALSE

NewScope(kind) == kind = "subninja"

\* The path is not made canonical.
ParseFileInclude(kind) ==
    /\ Read(kind)
    /\ LET file == Evaluated(Statement.paths[1], Top.env)
           env  == IF NewScope(kind) THEN Len(envs) + 1 ELSE Top.env
           saved == IF kind = "subninja" THEN {envs[Top.env]} ELSE {}
       IN  IF file \notin Files THEN Ends("error")
           ELSE IF Len(frames) = MaxDepth THEN Ends("overflow")
           ELSE /\ frames' = Append(Advanced,
                       [file |-> file, pos |-> 1, env |-> env, saved |-> saved])
                /\ envs' = IF NewScope(kind) THEN Append(envs, NewBindingEnv(Top.env)) ELSE envs
                /\ UNCHANGED <<program, state, args, targets, status>>

EndOfFile ==
    /\ status = "parse" /\ Top.pos > Len(program[Top.file])
    /\ frames' = Front(frames)
    /\ status' = IF Len(frames) = 1 THEN "loaded" ELSE "parse"
    /\ UNCHANGED <<program, envs, state, args, targets>>

\* foo^ is the first output of the first edge that uses foo.  The deps log, where
\* CollectTarget also looks for such an edge, is taken to be empty here.
CollectTarget(arg) ==
    LET n == CanonicalizePath(arg.path)
    IN  IF arg.path = Empty \/ n \notin Known THEN {}
        ELSE IF ~arg.caret THEN {n}
        ELSE IF nodes[n].out_edges = <<>> THEN {}
        ELSE {Head(edges_[Head(nodes[n].out_edges)].outputs_)}

DefaultNodes == IF defaults_ = <<>> THEN RootNodes ELSE ToSet(defaults_)

NoRoots == defaults_ = <<>> /\ edges_ # <<>> /\ RootNodes = {}

CollectTargetsFromArgs ==
    /\ status = "loaded"
    /\ IF args = <<>>
       THEN IF NoRoots THEN Ends("error")
            ELSE /\ targets' = DefaultNodes /\ status' = "run"
                 /\ UNCHANGED <<program, frames, envs, state, args>>
       ELSE IF \E i \in DOMAIN args : CollectTarget(args[i]) = {} THEN Ends("error")
            ELSE /\ targets' = UNION {CollectTarget(args[i]) : i \in DOMAIN args}
                 /\ status' = "run"
                 /\ UNCHANGED <<program, frames, envs, state, args>>

Done == status \notin {"parse", "loaded"} /\ UNCHANGED vars

Next ==
    \/ ParseBad \/ ParseLet \/ ParsePool \/ ParseRule \/ ParseEdge \/ ParseDefault
    \/ ParseFileInclude("include") \/ ParseFileInclude("subninja")
    \/ EndOfFile \/ CollectTargetsFromArgs \/ Done

Spec == Init /\ [][Next]_vars

-----------------------------------------------------------------------------
(* Properties *)

Edges == DOMAIN edges_

\* A phony edge that named itself: its output keeps it among its out_edges_.
NamedItself(e) ==
    \E n \in Known : /\ edges_[e].rule = PhonyRule /\ edges_[e].outputs_ = <<n>>
                     /\ Occurrences(e, nodes[n].out_edges) > Occurrences(n, edges_[e].inputs_)

\* Nodes and edges agree: a node's in_edge is the edge it is an output of, and its out_edges
\* are the edges that use it as an input, as often as they do; but for the output of a phony
\* edge that named itself.
NodesAgreeWithEdges ==
    \A n \in Known, e \in Edges :
        /\ nodes[n].in_edge = e <=> Occurrences(n, edges_[e].outputs_) = 1
        /\ nodes[n].in_edge # e <=> Occurrences(n, edges_[e].outputs_) = 0
        /\ \/ Occurrences(e, nodes[n].out_edges) = Occurrences(n, edges_[e].inputs_)
           \/ NamedItself(e) /\ edges_[e].outputs_ = <<n>>

\* The two counts leave room for the explicit inputs, before which they are counted.
KindsFit ==
    \A e \in Edges : edges_[e].implicit_deps_ + edges_[e].order_only_deps_
                       <= Len(edges_[e].inputs_)

\* What a subninja declares stays in it: the scope that reads it is as it was.
SubninjaContained ==
    \A i \in DOMAIN frames :
        frames[i].saved # {} => frames[i].saved = {envs[frames[i - 1].env]}

Uses(e, f) == ToSet(edges_[e].inputs_) \cap ToSet(edges_[f].outputs_) # {}
Acyclic == \A S \in (SUBSET Edges) \ {{}} : \E f \in S : \A e \in S : ~Uses(e, f)

\* Without targets and defaults everything is built: each edge of a graph without a cycle
\* is one that a target needs.  What is no root because its edge named itself is left out,
\* with all that only it needs.
RootsReachAll ==
    status = "run" /\ args = <<>> /\ defaults_ = <<>> /\ Acyclic =>
        \A S \in SUBSET Edges :
            /\ \A e \in Edges : \/ ToSet(edges_[e].outputs_) \cap targets # {}
                                \/ NamedItself(e)
                                => e \in S
            /\ \A e \in S, f \in Edges : Uses(e, f) => f \in S
            => S = Edges

\* A phony edge that the old CMake would write does not depend on itself.
SelfReferenceIgnored ==
    \A e \in Edges :
        /\ PhonyCycleAction = "warn" /\ edges_[e].rule = PhonyRule
        /\ Len(edges_[e].outputs_) = 1 /\ edges_[e].implicit_outs_ = 0
        /\ edges_[e].implicit_deps_ = 0
        => ~Contains(edges_[e].inputs_, edges_[e].outputs_[1])

\* The order of lookup that edges want: the edge's own bindings, its rule's expanded for
\* the edge, and the enclosing scopes.
BindingOrder ==
    \A e \in Edges, v \in Reserved :
        LET edge  == edges_[e]
            scope == edge.env_
            own   == IF edge.own_scope THEN envs[scope].bindings ELSE <<>>
        IN  v \in DOMAIN edge.rule.bindings /\ v \notin DOMAIN own
                => EdgeLookup(envs, edge, v) =
                       Evaluate(edge.rule.bindings[v], [w \in Var |-> EdgeLookup(envs, edge, w)])
=============================================================================
