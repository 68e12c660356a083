------------------------------- MODULE DepsLog -------------------------------
(***************************************************************************)
(* The deps log of deps_log.go: the table ninja_deps and what a process    *)
(* keeps of it in memory, over processes that crash and start again, and   *)
(* with the signal handler that closes the log while it is written.        *)
(*                                                                         *)
(* The table has one row per node; the row says of which output the node   *)
(* was found to be a dependency.  SQLite commits every INSERT on its own.  *)
(* Ids count from 1 here, so that they are the positions of the rows, and  *)
(* 0 stands for -1 (no id, no parent).  The row with id -2, which holds    *)
(* the signature, is the last value of |table|.                            *)
(***************************************************************************)
EXTENDS Integers, Sequences, FiniteSets, SequencesExt

CONSTANTS
    Node,         \* the nodes of State.paths_
    Output,       \* those of them whose edge has deps = gcc or msvc
    DepLists,     \* the lists of inputs that depfiles may name
    Mtimes,       \* what DiskInterface.StatNode says of an output
    MaxCalls,     \* bound: calls of RecordDeps
    MaxProcesses  \* bound: processes

ASSUME DepsLogAssumption ==
    /\ Output \subseteq Node
    /\ DepLists \subseteq Seq(Node)
    /\ MaxCalls \in Nat /\ MaxProcesses \in Nat

None == 0
NoDeps == [nodes |-> <<>>]  \* nil: it has no mtime, and so is no Deps
Idle == [at |-> "idle"]

VARIABLES
    table,     \* how far the file has got: "absent", "file", "table", "signed"
    rows,      \* its rows but the signature's: [path, mtime, pid]
    up,        \* a process runs
    file_,     \* its connection: "closed", "opening", "open"; "broken" is one that is
               \* being opened and has been closed already
    nodes_,    \* id -> node
    id_,       \* node -> id
    deps_,     \* id -> Deps, or NoDeps for nil
    call,      \* the call of RecordDeps in progress
    signalled, \* the signal handler of this process has run
    told,      \* history: what each output's calls have named, finished or not
    recorded,  \* history: what each output's finished calls have named
    latest,    \* history: each output's last finished call of this process
    calls, processes

vars == <<table, rows, up, file_, nodes_, id_, deps_, call, signalled, told, recorded,
          latest, calls, processes>>
diskVars == <<table, rows>>
memoryVars == <<nodes_, id_, deps_>>
history == <<told, recorded, latest>>
bounds == <<calls, processes>>

Row == [path : Node, mtime : Mtimes \cup {0}, pid : Nat]
Deps == [mtime : Mtimes \cup {0}, nodes : Seq(Node)]

TypeOK ==
    /\ table \in {"absent", "file", "table", "signed"}
    /\ rows \in Seq(Row)
    /\ up \in BOOLEAN /\ signalled \in BOOLEAN
    /\ file_ \in {"closed", "opening", "open", "broken"}
    /\ nodes_ \in Seq(Node) /\ id_ \in [Node -> Nat] /\ deps_ \in Seq(Deps \cup {NoDeps})
    /\ call = Idle \/ call.at \in {"ids", "insert", "update"}
    /\ told \in [Output -> SUBSET Node]
    /\ recorded \in [Output -> SUBSET Node]
    /\ latest \in [Output -> Deps \cup {NoDeps}]

Init ==
    /\ table = "absent" /\ rows = <<>>
    /\ up = FALSE /\ file_ = "closed" /\ signalled = FALSE
    /\ nodes_ = <<>> /\ id_ = [n \in Node |-> None] /\ deps_ = <<>>
    /\ call = Idle
    /\ told = [o \in Output |-> {}] /\ recorded = [o \in Output |-> {}]
    /\ latest = [o \in Output |-> NoDeps]
    /\ calls = 0 /\ processes = 0

-----------------------------------------------------------------------------
(* Loading *)

\* The rows that name row i as their parent.
Children(i) == {k \in DOMAIN rows : rows[k].pid = i}

\* The k-th of a set of row numbers.
Nth(S, k) == CHOOSE i \in S : Cardinality({j \in S : j <= i}) = k

\* Mutant of LoadedDeps: takes the position of the parent for the node's own.
LoadedDepsShifted(i) ==
    IF \E r \in DOMAIN rows : rows[r].pid = i
    THEN [mtime |-> rows[i].mtime,
          nodes |-> [k \in 1..Cardinality(Children(i)) |-> rows[k].path]]
    ELSE NoDeps

\* The Deps that Load builds for the node of row i: the nodes of its children, in id
\* order; nil when there is none.
LoadedDeps(i) ==
    IF Children(i) = {} THEN NoDeps
    ELSE [mtime |-> rows[i].mtime,
          nodes |-> [k \in 1..Cardinality(Children(i)) |-> rows[Nth(Children(i), k)].path]]

LoadedIds == [n \in Node |->
    IF \E i \in DOMAIN rows : rows[i].path = n
    THEN CHOOSE i \in DOMAIN rows : rows[i].path = n ELSE None]

\* A process starts and loads the log.  Without a file there is nothing to load;
\* a file without a signature gets one.
Load ==
    /\ ~up /\ processes < MaxProcesses
    /\ table # "file"
    /\ up' = TRUE /\ processes' = processes + 1
    /\ IF table = "absent" THEN UNCHANGED <<table, file_>>
                           ELSE table' = "signed" /\ file_' = "open"
    /\ nodes_' = [i \in 1..Len(rows) |-> rows[i].path]
    /\ id_' = LoadedIds
    /\ deps_' = [i \in 1..Len(rows) |-> LoadedDeps(i)]
    /\ latest' = [o \in Output |-> NoDeps]
    /\ UNCHANGED <<rows, call, signalled, told, recorded, calls>>

\* A file without the table makes every later process panic in Prepare: it is
\* created only when the file itself is missing.
LoadPanics ==
    /\ ~up /\ processes < MaxProcesses
    /\ table = "file"
    /\ processes' = processes + 1
    /\ UNCHANGED <<diskVars, up, file_, memoryVars, call, signalled, history, calls>>

-----------------------------------------------------------------------------
(* Opening: OpenForWriteIfNeeded when file_ is nil *)

NeedsFile == up /\ call # Idle /\ call.at \in {"ids", "update"}

\* OpenConn; file_ is set at once.
OpenConn ==
    /\ NeedsFile /\ file_ = "closed"
    /\ file_' = "opening"
    /\ table' = IF table = "absent" THEN "file" ELSE table
    /\ UNCHANGED <<rows, up, memoryVars, call, signalled, history, bounds>>

CreateTable ==
    /\ up /\ file_ = "opening" /\ table = "file"
    /\ table' = "table"
    /\ UNCHANGED <<rows, up, file_, memoryVars, call, signalled, history, bounds>>

\* The statements are prepared and a missing signature is written.
Sign ==
    /\ up /\ file_ = "opening" /\ table \in {"table", "signed"}
    /\ table' = "signed" /\ file_' = "open"
    /\ UNCHANGED <<rows, up, memoryVars, call, signalled, history, bounds>>

-----------------------------------------------------------------------------
(* RecordDeps(o, m, ins) *)

RecordDeps(o, m, ins) ==
    /\ up /\ call = Idle /\ calls < MaxCalls
    /\ call' = [at |-> "ids", node |-> o, mtime |-> m, ins |-> ins, changed |-> FALSE]
    /\ calls' = calls + 1
    /\ told' = [told EXCEPT ![o] = @ \cup ToSet(ins)]
    /\ UNCHANGED <<diskVars, up, file_, memoryVars, signalled, recorded, latest, processes>>

\* The nodes of the call, the output first, and the places of those without an id.
Asked == <<call.node>> \o call.ins
Unnumbered == {k \in DOMAIN Asked : id_[Asked[k]] = None}

\* RecordId has seen that the log is open.
RecordIdChecked ==
    /\ up /\ call # Idle /\ call.at = "ids"
    /\ Unnumbered # {} /\ file_ = "open"
    /\ call' = [call EXCEPT !.at = "insert"]
    /\ UNCHANGED <<diskVars, up, file_, memoryVars, signalled, history, bounds>>

\* Mutant of RowOf: every dependency is its own parent's successor.
RowOfNext(n) ==
    IF n = call.node THEN [path |-> n, mtime |-> call.mtime, pid |-> None]
                     ELSE [path |-> n, mtime |-> 0, pid |-> Len(rows)]

\* The row of an output has no parent; that of an input has the output's id.
RowOf(n) ==
    IF n = call.node THEN [path |-> n, mtime |-> call.mtime, pid |-> None]
                     ELSE [path |-> n, mtime |-> 0, pid |-> id_[call.node]]

\* The INSERT.
RecordId ==
    /\ up /\ call # Idle /\ call.at = "insert" /\ file_ = "open"
    /\ \E k \in Unnumbered :
        /\ \A j \in Unnumbered : k <= j
        /\ rows' = Append(rows, RowOf(Asked[k]))
        /\ nodes_' = Append(nodes_, Asked[k])
        /\ id_' = [id_ EXCEPT ![Asked[k]] = Len(nodes_) + 1]
    /\ call' = [call EXCEPT !.at = "ids", !.changed = TRUE]
    /\ UNCHANGED <<table, up, file_, deps_, signalled, history, bounds>>

GetDeps(n) == IF id_[n] = None \/ id_[n] > Len(deps_) THEN NoDeps ELSE deps_[id_[n]]

\* Mutant of SameDeps: compares the number of nodes only.
SameDepsCount ==
    /\ GetDeps(call.node) # NoDeps
    /\ Len(GetDeps(call.node).nodes) = Len(call.ins)

\* The new data is that of memory already.
SameDeps == GetDeps(call.node) = [mtime |-> call.mtime, nodes |-> call.ins]

\* The call ends here when there is no new info.
NothingNew ==
    /\ up /\ call # Idle /\ call.at = "ids" /\ Unnumbered = {}
    /\ ~call.changed /\ SameDeps
    /\ call' = Idle
    /\ recorded' = [recorded EXCEPT ![call.node] = @ \cup ToSet(call.ins)]
    /\ latest' = [latest EXCEPT ![call.node] = [mtime |-> call.mtime, nodes |-> call.ins]]
    /\ UNCHANGED <<diskVars, up, file_, memoryVars, signalled, told, bounds>>

SomethingNew ==
    /\ up /\ call # Idle /\ call.at = "ids" /\ Unnumbered = {}
    /\ call.changed \/ ~SameDeps
    /\ call' = [call EXCEPT !.at = "update"]
    /\ UNCHANGED <<diskVars, up, file_, memoryVars, signalled, history, bounds>>

\* UpdateDeps: memory only.
UpdateDeps ==
    /\ up /\ call # Idle /\ call.at = "update" /\ file_ = "open"
    /\ LET i == id_[call.node]
           d == [mtime |-> call.mtime, nodes |-> call.ins]
       IN  deps_' = [k \in 1..(IF i > Len(deps_) THEN i ELSE Len(deps_)) |->
                       IF k = i THEN d ELSE IF k \in DOMAIN deps_ THEN deps_[k] ELSE NoDeps]
    /\ call' = Idle
    /\ recorded' = [recorded EXCEPT ![call.node] = @ \cup ToSet(call.ins)]
    /\ latest' = [latest EXCEPT ![call.node] = [mtime |-> call.mtime, nodes |-> call.ins]]
    /\ UNCHANGED <<diskVars, up, file_, nodes_, id_, signalled, told, bounds>>

-----------------------------------------------------------------------------
(* The end of a process, expected or not *)

Down ==
    /\ up' = FALSE /\ file_' = "closed" /\ call' = Idle /\ signalled' = FALSE
    /\ nodes_' = <<>> /\ id_' = [n \in Node |-> None] /\ deps_' = <<>>
    /\ UNCHANGED <<diskVars, told, recorded, latest, bounds>>

\* A crash, or os.Exit: neither closes the log.
Exit == up /\ Down

\* NinjaMain.Release, from the goroutine of the signal handler, as one step: Close
\* opens a log that is closed, and ninja goes on.
SignalClose ==
    /\ up /\ ~signalled
    /\ signalled' = TRUE
    /\ file_' = IF file_ = "opening" THEN "broken" ELSE "closed"
    /\ table' = IF file_ = "closed" THEN "signed" ELSE table
    /\ UNCHANGED <<rows, up, memoryVars, call, history, bounds>>

\* The statements of a connection that the handler has closed do not work any more.
ClosedUnderneath ==
    /\ up
    /\ file_ = "broken" \/ (file_ = "closed" /\ call # Idle /\ call.at = "insert")
    /\ Down

Next ==
    \/ Load \/ LoadPanics
    \/ OpenConn \/ CreateTable \/ Sign
    \/ \E o \in Output, m \in Mtimes, ins \in DepLists : RecordDeps(o, m, ins)
    \/ RecordIdChecked \/ RecordId \/ NothingNew \/ SomethingNew \/ UpdateDeps
    \/ Exit \/ SignalClose \/ ClosedUnderneath

Spec == Init /\ [][Next]_vars

-----------------------------------------------------------------------------
(* Properties *)

\* The position of a node's row, or None.
RowNumber(n) == LoadedIds[n]

\* Load never reports a dependency that no depfile of that output has named.
NoInventedDeps ==
    \A o \in Output : RowNumber(o) # None =>
        ToSet(LoadedDeps(RowNumber(o)).nodes) \subseteq told[o]

\* Every input that a finished RecordDeps has named is still a dependency of that
\* output for every later process, unless another output has named it too or it is
\* an output itself: a row has room for one parent only.
UnsharedDepsSurvive ==
    \A o \in Output : \A h \in recorded[o] :
        /\ RowNumber(h) # None
        /\ h \notin Output /\ (\A p \in Output \ {o} : h \notin told[p])
             => h \in ToSet(LoadedDeps(RowNumber(o)).nodes)

\* What RecordDeps was last told of an output is what GetDeps answers for the rest
\* of the process, also when it found nothing new to write.
MemoryIsLatest ==
    \A o \in Output :
        up /\ latest[o] # NoDeps => GetDeps(o) = latest[o]

\* The dependencies that RecordDeps has accepted are those that the next process
\* loads for that modification time: new data is recorded.
NewDataIsRecorded ==
    \A o \in Output : up /\ latest[o] # NoDeps /\ call = Idle =>
        ToSet(LoadedDeps(RowNumber(o)).nodes) = ToSet(latest[o].nodes)
=============================================================================
