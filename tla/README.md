# A TLA+ model of ninja-build-go

`src/ninja-go` is a port of the ninja build tool to Go. It reads a manifest, finds out which
outputs are out of date, and runs the commands that make them, several at a time, each after
everything it depends on. `src/ninja-rbe` is a server that caches outputs for several builders.

This directory holds TLA+ modules translated from that code, TLC configurations that check them
on small manifests, and proofs, checked by TLAPS, that hold for every manifest.

## The system

| Component | State | Operations | Talks to |
|---|---|---|---|
| Build graph (`graph_h.go`, `graph.go`, `state.go`) | edges, nodes, `in_edge_`, `out_edges_`, pools | `AddEdge`, `AddIn`, `AddOut`, `AddPool`, `Reset` | filled by the parser, read by everything |
| Dependency scan (`graph.go`) | `mark_`, `dirty_`, `outputs_ready_`, `deps_missing_`, a stack of nodes | `RecomputeDirty`, `RecomputeNodeDirty`, `VerifyDAG`, `RecomputeOutputsDirty` | build log, deps log, remote cache, disk |
| Plan (`build_plan.go`) | `want_`, `ready_`, `wanted_edges_`, `command_edges_` | `AddTarget`, `PrepareQueue`, `FindWork`, `EdgeFinished`, `NodeFinished`, `EdgeMaybeReady`, `ScheduleWork`, `CleanNode` | pools, scan; called by the build loop |
| Pools (`state.go`) | `current_use_`, `delayed_` | `DelayEdge`, `EdgeScheduled`, `RetrieveReadyEdges`, `EdgeFinished` | called by the plan |
| Build loop (`build.go`) | `pending_commands`, `failures_allowed`, `capacity`, `running_edges_` | `Build`, `StartEdge`, `FinishCommand`, `Cleanup` | plan, command runner, logs |
| Command runner (`real_command_runner.go`, `subprocess.go`) | `running_`, `finished_`, `subproc_to_edge_` | `CanRunMore`, `StartCommand`, `WaitForCommand`, `Abort` | child processes |
| Build log (`build_log.go`) | `entries_`, the open file | `Load`, `RecordCommand`, `Close`, `Recompact`, `Restat` | build loop, scan, signal handler |
| Deps log (`deps_log.go`) | node ids, deps per node, an SQLite table | `Load`, `RecordId`, `RecordDeps`, `Recompact` | scan, build loop |
| Remote cache client (`build_log_rbe.go`) | none | `LookupByOutputRbe`, `RbeDownload`, `UpdateRbeCache` | asked by the scan and by `CleanNode` |
| Main loop (`main.go`, `ninja.go`) | the current `NinjaMain` | load, `RebuildManifest`, `RunBuild`, up to 100 cycles; `TerminateHandler` in a goroutine of its own | everything |
| Remote cache server (`src/ninja-rbe`) | the `log_entry` table, the stored files, `cleanRunning` | `HandleUpload` (check, save, insert), `HandleQuery`, downloads, scheduled cleaning | many clients at once |
| Manifest parser, scopes (`manifest_parser_h.go`, `eval_env.go`, `state.go`) | the scopes, rules, pools, `paths_`, `edges_`, `defaults_` | `Load`, one function per kind of statement; `LookupVariable`; `RootNodes`, `DefaultNodes` | fills the build graph |
| Status output (`status_printer.go`, `line_printer.go`) | counters, a sliding rate, the lock of the console and two buffers | `EdgeAddedToPlan`, `EdgeRemovedFromPlan`, `BuildStarted`, `BuildEdgeStarted`, `BuildEdgeFinished`, `BuildFinished` | called back by the plan and the build loop |
| Lexer, depfile parser, dyndep, cleaner, other tools | - | text in, graph or text out | - |

One goroutine builds. What makes it hard is not threads but re-entrancy and order: the children
exit whenever they like, but the loop reaps them oldest first; `EdgeFinished` calls itself
through `NodeFinished` and `EdgeMaybeReady`, `CleanNode` calls itself, and all of them change
`want_`, `outputs_ready_` and the counters under loops that are still running; a failure must
contain exactly what depends on it; and `more_to_do()` ends the build on two counters that are
kept in four places. The signal handler and the cache server are concurrent in the usual sense.

What makes each component correct:

- plan and build loop: dependencies before dependents; nothing runs twice; nothing is
  forgotten; a failed edge's dependents do not run; success means that everything was built;
  the loop ends; `-j`, `-k`, `-l` and pool depths are kept;
- scan: the verdict is the one solution of its equations; every cycle is found; a node reached
  twice gets one verdict;
- logs: what was recorded is what the next process reads, also after a crash between two writes;
- remote cache: an output is never half a file; the file of a row is whole, and what was answered
  with success is in the tables, or what went wrong is one of the things that are named;
- main loop: targets are built by the manifest that is on disk and up to date, and the loop ends;
- manifest parser: nodes and edges agree about each other, scopes do not leak, the roots reach all;
- status output: the counters fit the plan, and what is held back while a command has the console
  comes out later, all of it and in order.

## Modules

| Module | Models | In terms of |
|---|---|---|
| `BuildGraph` | the graph as constants, with assumptions; what the scan makes of it | - |
| `Pools` | `Pool` | `BuildGraph` |
| `Plan` | `Plan` | `Pools` |
| `CommandRunner` | `RealCommandRunner`, `SubprocessSet`, the children | `BuildGraph` |
| `Builder` | `Builder.Build`, and the composition of all of the above | `Plan`, `CommandRunner` |
| `BuildSchedule` | what a build promises, without plan or queues | - |
| `MCBuilder` | five manifests and the constants they give | `Builder` |
| `BuilderProofs` | the theorems on building, for every manifest: what each operation and each step may do, the life of an edge, the refinement of `BuildSchedule`, progress | `Builder` |
| `CriticalPath` | `ComputeCriticalPath`, `TopoSort`, and the order in which the first edges are polled | - |
| `DependencyScan` | `RecomputeDirty` and `AddTarget` for each target of a command line | - |
| `DepsLog` | the deps log, its table, and processes that crash | - |
| `BuildLog` | the build log's file and entries, the build goroutine and the signal handler | - |
| `RbeServer` | requests and cleanings on the cache server | - |
| `RbeClient` | the lookups and downloads of one ninja | - |
| `NinjaMain` | `real_main`'s loop and the rebuilding of the manifest | - |
| `EvalEnv` | `EvalString`, `BindingEnv`, `EdgeEnv` as operators | - |
| `ManifestParser` | the parser's statements, `State`, and the choice of targets | `EvalEnv` |
| `StatusPrinter` | `StatusPrinter`, `SlidingRateInfo`, `LinePrinter` | - |
| `ScanProofs` | the theorems on the scan and on what it plans, for every graph | `DependencyScan` |
| `ManifestProofs` | the theorems on the parser, for every set of files | `ManifestParser` |
| `DepsLogProofs`, `BuildLogProofs`, `RbeServerProofs`, `RbeClientProofs`, `NinjaMainProofs` | the theorems of these modules | the module of that name |
| `MC...` | the instances; `RbeClient` needs none | the module of that name |

The modules meet where one takes as given what another shows. `DependencyScan` checks that its
verdict is a solution of the equations that `BuildGraph` states (`VerdictIsSolution`) and that what
it plans is what `PlanInit` allows (`PlanIsReachable`); `ManifestParser` builds the graph that both
assume; `NinjaMain` takes a build as one outcome and `Builder` says which there are; `StatusPrinter`
takes the callbacks in the orders in which `Builder` makes them: first started first reaped, and a
console command is started again once it has finished, as its pool does to it (`PoolPanic`).

### Building: `Builder` and what it extends

**How state corresponds.** Variables have the names of the fields, without the trailing
underscore. `ready` is `ready_` as a bag: `FindWork` may take any queued edge, because the
external priority queue orders by edge id and no property of these modules depends on the order
(`CriticalPath` looks at it). Sets stand for flags: `outputs_ready` is the set of edges with `outputs_ready_`, `dirty`
the nodes with `dirty_`. `running` is `running_` with the exit of each child. `calls` is the Go
call stack of the plan's recursion: each element is one call or one loop iteration that is still
to come, so that `NodeFinished` pushes one `EdgeMaybeReady` per out edge and `EdgeFinished` one
`NodeFinished` per output, and each looks its edge up in `want_` only when its turn comes, as the
Go code does. `pc` says where `Build` is; it moves on when `calls` is empty. `planned`, `started`,
`built` and `failed` are history variables that no action reads.

**How actions correspond.** `PrepareQueue`, `LoopTop` (lines 326-330 of `build.go`), `StartPhony`,
`StartEdge`, `StartEdgeFails`, `StartDone` (the inner loop and its break), `FinishCommandSucceeds`
and `FinishCommandFails` (`WaitForCommand` and `FinishCommand` as far as the plan), `PlanCall`,
`RestatOutput` and `RecordCommand` (what `FinishCommand` does after it), `NoProgress`. The ways a
build ends are values of `pc`: the messages of `Build`, and "fatal" and "panic" for `log.Fatal`
and `panic`. `ChildExit` is the environment's.

**Data left out.** Command lines, paths, times and hashes. Whether a command's outputs are out of
date (those of a generator rule: if a build of the manifest by this process recorded them, `Recorded`),
whether the remote cache knows them, and whether a restat command changed its output, are
free choices where the code asks; so is every failure of the file system that `Faults` allows.
"interrupted by user" is not an outcome: `DoWork` reports an interrupt only when nothing is
running, and `ParallelismKept` shows that the loop never waits then. Edges that no target reaches
are never in the plan; `PlanInit` gives them a verdict too, which nothing reads.

**Not the code's doing.** `BuildGraph`'s assumptions say that a manifest has no cycle (`VerifyDAG`
rejects one) and no two producers of a node (`AddOut` rejects them), and that both ends of every
link are set (`AddIn`), but for a phony edge that named itself: its output still has it among its
`out_edges_` (`manifest_parser_h.go:450`). `NodesAgreeWithEdges` shows that the parser leaves no other.

### The other modules

Variables have the names of the fields they stand for, here with the underscore, and `pc` or `at`
says where a function is between two steps. A step is as long as nothing else can come between.

- `CriticalPath`: `stack` is Go's stack of `TopoSort.Visit`; `PropagateWeight` is one turn of the
  reverse loop. Inputs without a producer are left out. Which end of its order the external queue
  polls is a choice (`least_first`).
- `DependencyScan`: a frame is one activation of `RecomputeNodeDirty`, with the index of the input it
  is at; `walk` holds the calls of `AddSubTarget` still to come. A graph of `Graphs` says what the
  logs and depfiles hold and which files exist; loading deps changes `inputs_` as the code does, also
  where it overwrites one.
- `DepsLog`: each row of SQLite's table is a step, since every INSERT commits on its own. `Crash` may
  fall between any two; `SignalHandler` closes the log between any two.
- `BuildLog`: the two goroutines step at every read or write of `log_file_` and every system call,
  and each call may fail: opening, `os.Stat` (which leaves the file open), the flush of the signature,
  whose error nobody looks at, writing, `Sync`.
- `RbeServer`: an upload is check, save, insert, deps. Saving creates the file, which empties one of
  that name, and copies it part by part, or renames one that the form reader has put on the disk. A
  cleaning is test, set, find, remove, update. Each statement and each call on a file may fail, and
  `Crash` loses what is between. Keys stand for what `HashEntry` hashes. Nothing is assumed of the output
  hash that a client sends, although the cleaning makes a path of it: it may be empty, or be the name of a
  file. `HandleQuery` reads only and is no action. That its answer can be downloaded is no property, for
  it is not so: the raw bytes of the hash that names the file go through JSON
  (`rbe_rest_service.go:69`), which replaces those that are no UTF-8, and ninja asks for
  the output hash (`build_log_rbe.go:209`), under which nothing is stored.
- `RbeClient`: a file is a sequence of parts, copied one at a time to the `.tmp` path; the server
  may answer anything or nothing, and ninja may be killed at each step. The scan makes one lookup
  after the other, so that there is one at a time.
- `NinjaMain`: the manifest is identified with the version of the source that it was generated from.
  `loaded` is what `State_` was parsed from, `disk` what the file now holds. The build log that a
  cycle opens is empty, because `BuildLog.Load` reads nothing: without a remote cache a manifest
  whose rule is no generator is dirty in every cycle, and one whose rule is a generator in none.
- `ManifestParser`: a file is a sequence of statements, as the lexer gives them, and `frames` the
  activations of `Parse` for included files and subninjas. `log.Fatal`, a panic and the overflow of
  the stack by a file that includes itself are values of `status`.
- `StatusPrinter`: `count` holds the counters, `printer` the fields of `LinePrinter` and the terminal
  (`console_`). A text is a sequence of items (a FAILED line, a command, an error, a status line with
  the values of its placeholders, a newline). `smart_terminal_` and `supports_color_` are false,
  because `NewStatusPrinter` leaves `printer_` at its zero value; no option gives the verbosity QUIET.
  What a build tells is `todo`, `running` and `done`; `EdgeRemovedFromPlan` comes once per input, as
  `CleanNode` sends it, and the instances have edges of one input (`RestatCount` shows the rest).
  `place` is the one place of the console pool: its edge stays in `delayed_`, so that when it has
  finished, `RetrieveReadyEdges` lets it in and the loop starts it again while other work remains; its
  second completion is counted (`again`) and then panics (`FinishedTwice`), unless the build ends first.

## Checks

Twelve configurations are the project's runs; eleven pass and one, `ScanOrderOnly`, ends in a
violation by design. Thirteen more configurations, in the table below, reproduce further
disagreements between the code and what it says of itself.

| Run | Checks | Shows |
|---|---|---|
| `Compile` | `TypeOK`, `DependencyOrder`, `ReadyMeansBuilt`, `WantedCount`, `SuccessMeansBuilt`, `FailureContained`, `NothingLost`, `NeverStuck`, `FailureBudget`, `RunsOnce`, `ParallelismKept`, `ImplementsSchedule` | the scheduling is right when commands start and finish in any order, their dependencies cannot be extracted, and system calls fail; every step of the builder is a step of `BuildSchedule` or none |
| `Restat` | `UnwantedIsIdle`, `PoolDepthKept`, `Terminates` | an edge that `CleanNode` drops is never queued or running, a pool's count is never above its depth nor below what runs, and the loop ends under every fault and every load |
| `CriticalPath` | `WeightIsHeaviestPath` | for every acyclic graph of four edges, with the inputs in every order, the weights are those of the heaviest paths, defined over all paths |
| `Scan` | `VerdictIsSolution`, `PlanIsReachable`, `CycleIsReal`, `PlannedIsScanned`, `Ends` | the search gives the one solution of the equations, or a cycle that is there; what it plans is what the targets need; also after a scan that failed half way |
| `DepsRecovery` | `NoInventedDeps`, `UnsharedDepsSurvive`, `MemoryIsLatest` | three processes that crash anywhere or lose the log to the signal handler invent nothing, and lose shared dependencies only |
| `LogWriters` | `OneHeader`, `AckedIsWritten`, `NoClosedFile` | every interleaving of recording, closing for a generator and the signal handler, with system calls that fail: a log begins with its header unless the flush of it failed, and has all that was acknowledged; what a signal can spoil is stated |
| `CacheLookup` | `OutputIsWhole`, `NilKeepsOutput`, `LookupEndsOrAwaits` | outputs are never half written, a lookup without an answer changes nothing, and every lookup ends or waits for a server that has stopped answering a download |
| `ServerRaces` | `RowsFileIsWhole`, `SuccessIsStored` | two clients and two cleanings that overlap, with failures and a crash: what the answers "success" and "already exists." are good for, and all that can spoil the file of a row |
| `Manifest` | `LoadedIsOnDisk`, `ManifestIsCurrent`, `GivesUpOnlyIfEdited` | in 64 surroundings the targets are built by the manifest that is on disk and up to date, but for the ways that the properties name |
| `Parse` | `NodesAgreeWithEdges`, `SubninjaContained`, `RootsReachAll` | every manifest of a rule and up to three statements, with each of three files to include, gives a consistent graph or an error |
| `Status` | `NothingLost`, `CountersAgree` | the two buffers lose and reorder nothing, and the counters fit the plan and the runner, also after a build of the manifest and when a console command is started again |
| `ScanOrderOnly` | `DepsDirtyTheirEdge` (violated) | recorded deps are put behind the order-only inputs, which are counted from the end (`graph_h.go:316`) |

`TypeOK` is defined in most modules and checked for `Builder`, where a counter that goes below zero
is a hazard and where it is a theorem; elsewhere the other properties fail on a value of a wrong type.

### The manifests of `MCBuilder`

- `Compile`: a generator command with two outputs, four compilations (with deps; one has the
  header as an order-only input, one needs nothing generated), a phony collection that once named
  itself, a link that takes the collection and one object beside it, so that it is offered twice.
- `RestatAndPool`: a restat step, a generator edge that `CleanNode` may take out of the plan after
  it, and two links in a pool of depth one.
- `Diamond`, `RestatJoin`, `PoolPair`: smaller ones for the configurations of the last table.

Both runs start from every verdict the scan may reach: every subset of edges that can be dirty
of themselves, and so every plan. That matters more than larger manifests: the smallest dirty
sets exercise the edges that are in the plan without being wanted.

### Disagreements

Each is reproduced by a configuration that TLC finds violated
(`tlc -config PoolPanic.cfg MCBuilder.tla`; with `-continue` where a configuration has several
properties, each of which is violated), or is an exception that a passing property names: without that
clause of it, the run fails.

| Configuration | Violates | Because |
|---|---|---|
| `PoolPanic` | `NoPanic` | `RetrieveReadyEdges` shadows its index (`state.go:68`) and never takes an edge out of `delayed_`: it runs again, and its second completion panics |
| `RestatUnwant` | `UnwantOnlyClean` | `CleanNode` acts when an input is dirty instead of when all are clean (`build_plan.go:194`) |
| `RestatCount` | `WantedCount` | `CleanNode` counts an edge down once per input (`build_plan.go:197-213`) |
| `LoadStuck` | `NeverStuck` | a headroom below one is truncated after the test that is to guarantee progress (`real_command_runner.go:32-37`) |
| `KeepGoing` | `KeepsGoing` | a command that exits badly makes `DoWork` call `log.Fatalln` (`subprocess.go:139-142`) |
| `DryRun` | `NoPanic` | `DryRunCommandRunner` has no `CanRunMore` (`build.go:158-183`) |
| `Priority` (`MCCriticalPath`) | `HighestPriorityFirst` | the ready queue's comparator looks at ids only (`graph_h.go:60`) |
| `ScanClaims` (`MCDependencyScan`) | `ValidationsArePlanned` | `RecomputeDirty` appends to its own copy of the slice (`graph.go:403`) |
| `ScanClaims` | `MissingDepIsNoError` | no node is marked as coming from a deps loader (`graph.go:21`) |
| `DepsShared` (`MCDepsLog`) | `NewDataIsRecorded` | a row is written only for a node without an id (`deps_log.go:104`) |
| `LogLoad` (`MCBuildLog`) | `LogIsLoaded` | `Load` returns at once (`build_log.go:109`) |
| `CacheStatus` (`RbeClient`) | `OverwrittenByItsFile` | the status code of a download is not looked at (`build_log_rbe.go:212`) |
| `ParserClaims` (`MCManifestParser`) | `SelfReferenceIgnored` | one self reference of two is filtered out (`manifest_parser_h.go:443`) |
| `ParserClaims` | `KindsFit` | the count of order-only inputs is not adjusted (`manifest_parser_h.go:450`) |
| `ParserClaims` | `BindingOrder` | an edge without bindings sees the file's variables before its rule's (`eval_env.go:120`) |
| `StatusClaims` (`MCStatusPrinter`) | `UnknownIsUnpredictable` | an unknown elapsed time is 0, and the test is for -1 (`status_printer.go:84`) |
| `StatusClaims` | `OutputIntact` | the text is the format of an `Fprintf` (`line_printer.go:170`) |
| `StatusClaims` | `OutputReported` | `CombinedOutput` refuses a command that has a `Stderr` (`subprocess.go:97`) |

| Exception in | What it admits | Because |
|---|---|---|
| `LoadedIsOnDisk` | a restat rule | a restat rule that rewrites the manifest leaves the node clean (`build.go:554`) |
| `LoadedIsOnDisk` | "downloaded" | the scan downloads a manifest over the one that was loaded (`ninja.go:273`) |
| `LoadedIsOnDisk`, `ManifestIsCurrent` | "failed" | a failure without a message is no failure to `real_main` (`main.go:102`) |
| `ManifestIsCurrent` | "raced" | inputs are hashed when the command has ended (`build.go:547`) |
| `GivesUpOnlyIfEdited` | a plain rule without a cache | the log is never loaded, so that it is dirty in every cycle (`main.go:111`) |
| `CycleIsReal` | marks on edges that are not being visited | a scan that gives up leaves its marks (`graph.go:472`) |
| `NodesAgreeWithEdges` | a phony edge that named itself | the node keeps the edge in `out_edges_` (`manifest_parser_h.go:450`) |
| `RootsReachAll` | a phony edge that named itself | its output is no root, and nothing else asks for it (`manifest_parser_h.go:450`) |
| `CountersAgree` | the total that an earlier build has left | `total_edges_` is not reset between builds (`status_printer.go:194`) |
| `CountersAgree` | the repeated starts of a console command | it is never taken out of `delayed_` (`state.go:68`), so that it is started again after it has finished |
| `OneHeader` | the lines of a file whose signature was not flushed | `OpenForWriteIfNeeded` discards the error of `Flush` and uses the file (`build_log.go:380`); a reopened log that has lines never gets a signature |
| `RowsFileIsWhole` | an upload of the same file that is writing | a second upload that has passed the check empties the file and copies it again (`rbe_rest_service.go:86`) |
| `RowsFileIsWhole` | such an upload that broke off | an error or a crash leaves the file short, and its row stays |
| `RowsFileIsWhole` | a cleaning | it removes the path of the output hash that the client sent (`clean_expired_service.go:31`), not that of the file of the row; if that is empty, it is the whole directory |
| `SuccessIsStored` | "already exists." for a row without deps | the row is inserted outside of the transaction, and the answer is HTTP 200 like "success" (`log_entry_service.go:14`, `rbe_rest_service.go:93`) |
| `AckedIsWritten`, `OneHeader`, `NoClosedFile` | a signal | the handler closes the log under `RecordCommand` (`main.go:18`) |
| `UnsharedDepsSurvive` | shared headers | a row has one parent (`deps_log.go:76`) |

The disagreements also bound what the passing runs can claim. `ReadyMeansBuilt`,
`SuccessMeansBuilt` and `WantedCount` are checked without restat rules; `RunsOnce` and the refinement
without pools; `NeverStuck` without `-l`. A command fails for the plan only when its dependencies
cannot be extracted (`FinishCommandFails`), because a bad exit ends the process. In `Scan`, the large
set of graphs has no depfiles and no output on disk, and the one edge with order-only inputs is not
`a`; the set with failures has an empty log.

### Bounds

Nothing is cut off by a state constraint. Where a model could go on for ever it ends where a count in
a guard says so; the counts are the constants `Max...`, and `CycleLimit`, which is 100 in the code
and 4 here: the loop has no other memory of its cycles.

- `Builder`: `Parallelism` is 2 (two commands beside each other, and a third that waits),
  `FailuresAllowed` 2 (one failure that goes on, one that stops), pools are one deep, `Headroom` runs
  from -1/2 to 3 in halves, which covers no room, a fraction, and more than `-j`.
- `DependencyScan`: 23,040 graphs of three edges, with cycles, deps recorded and stale, validations
  and overlapping targets, and 2,048 in which stats and depfiles fail. Three edges are enough for a
  cycle, a shared input and a node that is reached twice; two targets, so that the second meets the
  marks of the first.
- `DepsLog`: two outputs share one header and have one each, so that a record can be of known,
  new or mixed nodes; three calls are a first record, a change and one after a restart.
- `BuildLog`: one command and one close by each goroutine already overlap at every step; the second
  command and the second process find what the first has left. The theorems have no such bound.
- `RbeServer`: two uploads race for one key, and a third, or one after a failure, finds what they left;
  files of two parts can be short; two cleaners overlap, with one row each (`Limit`), so that one row is
  left to the next; one crash falls at any step. The hash of one key's output is the name of the other
  key's file, that of the other is empty. That two keys may have one command, of which the unique
  index lets in one, is left to the theorems. Clients are interchangeable, and so are cleaners (`SYMMETRY`).
- `RbeClient`: files of two parts can be half written; two kills and three lookups leave and find one.
- `NinjaMain`: three versions of the source; the 64 surroundings are four assignments of rules to
  them, edits that go forward only or back too, during the command or not, with a cache or without,
  with silent failures or without.
- `ManifestParser`: three statements after a rule are an edge, a variable it uses, and a statement
  that changes one of them; files nest three deep. One alphabet is of everything, one of phony edges.
- `StatusPrinter`: a console command and two others, under `-j2`, two of them needed by the manifest;
  the console command is started again once; a clock of two values; two malformed values of `$NINJA_STATUS` and
  one with every placeholder.
- `CriticalPath`: four edges make every diamond, with a chain above or below it.

### Fairness

- `Builder`: weak fairness of `BuildStep` (the one goroutine is scheduled) and of `ChildExit` (every
  child that runs exits sooner or later). Nothing is assumed about which child exits or how.
  `Terminates` needs both; it says that the loop ends in one of its outcomes, which includes "fatal".
- `DependencyScan`: its one goroutine goes on; what the file system answers is part of its steps.
- `RbeClient`: the query ends, since its client has a timeout of three seconds, and ninja takes its own
  steps. Nothing is assumed of the download: `http.Get` uses the default client, which has no
  timeout (`build_log_rbe.go:210`), so that a silent server keeps the lookup for ever, as
  `LookupEndsOrAwaits` admits. Nothing is assumed of kills either.
- `NinjaMain` states weak fairness of its own steps; no run checks its liveness: `GivesUpOnlyIfEdited`
  says when the loop comes to its limit.

## Proofs

TLC checks the properties on the instances above; the theorems state them for all values of the
constants. Of the forty properties of the passing runs, thirty-four are theorems.

| Theorem | States | For |
|---|---|---|
| `BuilderProofs!TypeCorrect` | `Spec => []TypeOK` | every manifest, `-j`, `-k`, `-l`, fault and order of exits |
| `BuilderProofs!DependencyOrderHolds` | `[]DependencyOrder` | the same |
| `BuilderProofs!ParallelismHolds` | `[]ParallelismKept` | the same |
| `BuilderProofs!FailureBudgetHolds` | `[]FailureBudget` | the same |
| `BuilderProofs!PoolDepthHolds` | `[]PoolDepthKept` | the same |
| `BuilderProofs!NothingLostHolds` | `[]NothingLost` | the same |
| `BuilderProofs!WantedCountHolds` | `[]WantedCount` | no restat rules (`NoRestat`) |
| `BuilderProofs!ReadyMeansBuiltHolds` | `[]ReadyMeansBuilt` | `NoRestat` |
| `BuilderProofs!SuccessMeansBuiltHolds` | `[]SuccessMeansBuilt` | `NoRestat` |
| `BuilderProofs!RunsOnceHolds` | `[]RunsOnce` | no limited pools (`Unpooled`) |
| `BuilderProofs!UnwantedIsIdleHolds` | `[]UnwantedIsIdle` | `Unpooled` |
| `BuilderProofs!FailureContainedHolds` | `[]FailureContained` | `Unpooled` |
| `BuilderProofs!ImplementsScheduleHolds` | `Spec => ImplementsSchedule` | `Unpooled`, `NoRestat` |
| `BuilderProofs!NeverStuckHolds` | `[]NeverStuck` | `Unpooled`, no `-l` |
| `ScanProofs!VerdictIsSolutionHolds` | `[]VerdictIsSolution` | every graph, with or without cycles, every content of the logs, every list of targets |
| `ScanProofs!PlannedIsScannedHolds` | `[]PlannedIsScanned` | the same |
| `ScanProofs!PlanIsReachableHolds` | `[]PlanIsReachable` | the same |
| `ScanProofs!CycleIsRealHolds` | `[]CycleIsReal` | the same |
| `ManifestProofs!SubninjaContainedHolds` | `[]SubninjaContained` | every set of files, also those that include themselves |
| `ManifestProofs!NodesAgreeWithEdgesHolds` | `[]NodesAgreeWithEdges` | the same |
| `ManifestProofs!RootsReachAllHolds` | `[]RootsReachAll` | the same |
| `DepsLogProofs!NoInventedDepsHolds`, `UnsharedDepsSurviveHolds`, `MemoryIsLatestHolds` | the log's three | any nodes, lists of dependencies, crashes and processes |
| `RbeServerProofs!RowsFileIsWholeHolds`, `SuccessIsStoredHolds` | the server's two | any number of clients, cleaners, parts, crashes; any keys and output hashes |
| `RbeClientProofs!OutputIsWholeHolds`, `NilKeepsOutputHolds` | the client's two | files of any number of parts, any failures and kills |
| `BuildLogProofs!OneHeaderHolds`, `AckedIsWrittenHolds`, `NoClosedFileHolds` | the log's three | any edges, number of commands, closes, signals and processes |
| `NinjaMainProofs!LoadedIsOnDiskHolds`, `ManifestIsCurrentHolds`, `GivesUpOnlyIfEditedHolds` | the main loop's three | all surroundings, any number of versions, any cycle limit |

**The hypotheses** are where the code itself draws the line, each shown by a configuration of the
table of disagreements. A rule with `restat` makes `CleanNode` count an edge down once per input
(`RestatCount`) and take a dirty edge out of the plan (`RestatUnwant`), so that the counter and what
"built" means hold without such rules only. An edge that was delayed by a pool of limited depth stays
in `delayed_` and runs again (`PoolPanic`), so that nothing that speaks of one run of a command, of
what comes after it, or of an edge that is idle once it is not wanted, holds with one; on the one
instance with a pool, where nothing depends on the pooled edges, TLC finds `UnwantedIsIdle` true.
A load limit lets `CanRunMore` answer 0 when nothing runs (`LoadStuck`). Everything else is
unconditional. The assumptions on constants are those of the modules: `GraphAssumption` (finiteness,
types, and what the parser leaves of the links), `AcyclicAssumption` (`VerifyDAG` rejects a cycle;
only `NeverStuck` uses it), `RunnerAssumption`, `BuilderAssumption`, and of the others types and
non-emptiness (`RbeServerAssumption`: there is a key, and nothing of output hashes; `BuildLogAssumption`: an edge's outputs are a
sequence; `DepsLogAssumption`, `NinjaMainAssumption`). `GraphsAssumption` says of each graph the scan
starts from that its links are typed and that a node has one producer; cycles, empty edges and
targets that are leaves are all admitted. `ProgramsAssumption` says that each set of files has a main
file and that each statement has the fields that the lexer gives it; what it says is free.

### Types, order, bounds (`BuilderProofs`)

`TypeOK` is inductive. `DependencyOrder` is inductive with it: an edge gets into a queue only
through `AllInputsReady`, `outputs_ready` only grows, and everything that may still be finished
(queued, delayed, running, or a pending `EdgeFinished`) is covered. There is one lemma
per operation of the plan for types and one for order (`PlanOrder`), with the set of ready edges
as a parameter so that they can speak of the state after a step; `DependencyOrderParts` splits the
property into the plan's part and the runner's. That the theorem covers pools and restat is worth
a note: the defects above make commands run too often or not at all, never too early.

`ParallelismKept` is not inductive. `RunnerInv` adds that the capacity still to be used fits under
`-j`, and that `finished_` is empty whenever a new round of starts begins: `CanRunMore` answers 1
when nothing is running, even if failed starts fill every place, and only the fatal wait in
between keeps that from mattering. `BudgetInv` relates the failures to the budget, with the
commands that are running when it is used up; it needs `ParallelismKept` to bound those.

The second half of `BuilderProofs` is for what follows: it looks at the call stack as a set
(`Pending`) and proves that every step is of one of ten kinds (`NextKinds`), so that the invariants
on the life of an edge are proved kind by kind and not action by action.

### The pools

`PoolDepthKept` holds in every manifest, also where a pool runs its edges again. `PoolInv` counts
everything that a limited pool has let in: each copy of its edges in the queue, each of its commands
that runs and the edge whose `EdgeFinished` is pending has a place of its own in `current_use_`. An
edge that is let in a second time is counted a second time, so that its copies cost commands and not
the limit. That the first k edges of `delayed_` are exactly k copies more (`QueuedGrows`) needs
`delayed_` to be without duplicates, as a set is; that a finished command gives up one place and not
two, that one `EdgeFinished` at most is ever pending (`OneEnds`), which the order of calls gives
(`InTurn`). The place of a copy that is polled goes to the command it starts; a phony edge gives it
back at once (`FitsPolled`).

### The life of an edge

`NothingLost` speaks of the head of the loop, where no call is pending. `KeptInv` says it of every
state: an edge that is queued by `want_` is in some queue or hand, and one whose inputs are all ready
is there or will be offered by a pending `EdgeMaybeReady` or `NodeFinished`. That the last input to
become ready offers it is the case that matters: `outputs_ready_` is set before the calls are made.

`CountInv` counts: a wanted edge is in `want_` until it is built, a pending `EdgeFinished` is of a
command that has succeeded, and no cleaning call is ever pending when no rule is restat.

`LifeInv` and `IdleInv` are for unlimited pools: the copies in the queue and the starts of an edge
are at most one together, and an edge that is queued or running is one that `want_` has as
kWantToFinish. With restat rules that depends on the order of calls (`InTurn`): `FinishCommand`
cleans before it updates the plan, so that whatever `CleanNode` reaches still waits for an input and
is in no queue.

### The schedule, and progress

The refinement maps `todo`, `active` and `done` of `BuildSchedule` to history variables. Each kind of
step is one of its steps or a stutter (`InitSched`, `NextSched`); that a started command is new, that
all it depends on is done, and that there is a place for it are `LifeInv`, `DependencyOrder` and
`ActiveInv`, which counts the active commands against the runner's.

`NeverStuck`: the loop calls itself stuck when it waits for a command, none is pending, and no
failure has been counted. `LoopInv` says that it comes there with an empty queue and something wanted;
`StuckInv` that an edge of the plan depends on edges that are in the plan or ready, also after
`CleanNode`; and in a graph without cycles some edge of the plan waits for no other (`FrontEdge`). By
`KeptInv` that one is queued, running, failed or offered, and nothing of this is left.

### The scan (`ScanProofs`)

`VerdictIsSolution` speaks of the end of a scan; `ScanInv` of every step of it. A node is `Settled`
when its edge is marked done or when it is a leaf that was looked at, and what is known of a settled
node never changes again (`Grows`, `EdgeStays`). `EdgesInv` says of a finished edge that its inputs
are settled and that `dirty_` and `outputs_ready_` are what the equations make of them; `StackInv`
says the same of each activation up to the input it has come to, that all activations but the
innermost wait for the next one, and that an edge is on the stack once. `DirtyInv` is what makes a
leaf of `dirty_` safe to read: nothing is dirty that was not visited. That a cycle is found exactly
when there is one needs two sides: the marks on the stack are closed under "some input is also
marked" when the search comes back to one of them (`StackCloses`), and the finished edges have no
cycle (`AcyclicInv`), because all that a finished edge depends on was finished before it. After a scan
that failed the marks stay behind, so `MarksInv` promises nothing then; the exception in
`CycleIsReal` is this one.

`PlanInv` follows `AddSubTarget`: whatever is in `want_` is finished, not ready and has an input or
a target for its reason (`WantInv`), and each node met so far is `Covered` or still to be walked
(`CoverInv`). Its sets are the least that contain the targets, which `PlanIsReachable` asks for, only
because of the reason; `WantInv` says which.

### The parser (`ManifestProofs`)

`SubninjaContained` follows from where scopes are made: each file is read in a scope that is at least
as new as its parent's, that of a subninja is newer (`ScopesInv`), and a statement changes no scope
but that of the innermost file (`ScopesKept`), so that the scope of a waiting parent is as it was.

`NodesAgreeWithEdges` counts occurrences, and an edge may name a node several times, so the proof
rests on lemmas about counting: what `AddIn` adds to a sequence (`AddInLemma`), what one removal takes
away (`RemoveFirstFacts`), and that the outputs of an edge are distinct, since `AddOut` refuses the
second (`OccursOnce`). `EdgesInv` adds who is known: a path gets a node before the first edge that
names it. A phony edge that names itself is the one place where the two sides part (`LostItself`).

`RootsReachAll` takes a set of edges that holds what the targets name and is closed under
dependencies, and shows it whole: otherwise the rest has an edge that no other edge of the rest uses,
whose outputs no edge uses at all; by `NodesAgreeWithEdges` they are roots, hence targets
(`RootsInv`), or the edge has named itself.

### The caches, the logs and the main loop

- `DepsLogProofs`: `LogInv`. A node has one row, and the ids of a process are the positions of the
  rows (`IdsInv`): a process that loads the log and one that writes it count alike, which is what a row's
  `pid` relies on. A row's parent was told of it (`TableInv`), and so is the call in progress
  (`CallInv`); no row is ever deleted, so that what was recorded and is not shared is found again
  (`RecordedInv`). That a node's rows are loaded in the order they were written is `NthEnumerates`.
- `RbeServerProofs`: `ServerInv`. `FilesOK` says of every file that is relied on, by a row or by an upload
  that is to insert one (`Wanted`), what `RowsFileIsWhole` says of a row's: it is whole, or whoever
  emptied it last is still writing to it, with all the parts up to its own in place, or it is in `torn`
  or `removed`. Two uploads that write one file do not disturb this: each part goes where it belongs,
  and an upload that creates the file starts it afresh. A removal takes the name from a file that is
  being written (`linked`), so that what is written then goes nowhere. `AnswersOK` and `DepsOK` follow an
  upload from the check to its answer: the row is there before its deps and they before the answer, and
  a row whose deps are missing is in `cut` or has its upload still at work. Rows are never deleted, only
  marked.
- `RbeClientProofs`: `DownloadInv` says that what is at the `.tmp` path and what is still to be read
  are a file together, and that the output is the file that the lookup found until the rename. A kill
  may leave any part of a file at the `.tmp` path; the next download starts by truncating it.
- `BuildLogProofs`: four layers. `JobInv` holds whatever the two goroutines do; `FileInv` too: lines are
  written through `log_file_` only, which is set when the header is there, by whoever came first, or
  when the flush of it has failed, which `unsigned` remembers.
  `QuietInv` holds until the first signal, `ObjectInv` in every process in which none has come yet;
  without them the findings of one goroutine are stale when it acts on them, which is what the
  exceptions of the three properties admit.
- `NinjaMainProofs`: `ManifestInv` ties what is loaded, what is on disk and what the cache knows, but
  for what `happened` names. `CyclesFit` bounds the cycles by the edits: with a cache the source is
  looked up as it is now, so that there is one rebuild more than edits, and two only if the last is in
  the cache; without one only restat rules come to an end.

Model-checked only:

- `Terminates`, `Ends`, `LookupEndsOrAwaits`: liveness under fairness is out of the prover's reach.
- `WeightIsHeaviestPath`: the reference is a recursive definition over all paths.
- `NothingLost` of the status output filters and joins sequences, `CountersAgree` sums over sets;
  what such an operator does to a longer argument is an induction over data.

## Not modelled

- The lexer and the depfile parser, which are generated, and `CLParser`: text to statements or
  paths. A statement they refuse is a "bad" one in `ManifestParser`; a depfile they refuse is the
  load result "error" in `DependencyScan`.
- Dyndep: `ParseEdge` panics on every `dyndep` binding whose file is an input
  (`manifest_parser_h.go:470`; `Parse` has such manifests, which end in "panic") and refuses every other, so that `dyndep_pending()`
  is false in every build and the code behind it is unreachable.
- The cleaner, the missing-deps tool and all other tools of `-t`: `ChooseTool` binds each to a
  `NinjaMain` of its own that is empty (`ninja.go:1495`), so that their first look at `State_` is at
  nil. The cleaner would remove nothing even so: `IsAlreadyRemoved` (`clean.go:79`) answers the
  opposite of its name, and `Remove` asks it first.
- Validations in a plan: none is ever added (`ScanClaims.cfg`).
- `Recompact` and `Restat` of the build log, which nothing reaches (`LogLoad.cfg`), and `Recompact` of
  the deps log, which does nothing.
- File system access and hashing: what they may return is a choice of the modules that use them.
- Wording, eliding, colours and the smart terminal of the status output; explanations, which
  `LookupAndAppend` collects into a copy (`explanations.go:43`) and nobody prints; `ninja_required_version`.
