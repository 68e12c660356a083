------------------------------ MODULE Builder ------------------------------
(***************************************************************************)
(* Builder.Build (build.go): the loop that starts the commands of ready    *)
(* edges, waits for the oldest of them and updates the plan.  |pc| is      *)
(* where the loop is; what a call to EdgeFinished or CleanNode still has   *)
(* to do is in Plan's |calls|, and the loop goes on when that is empty.    *)
(***************************************************************************)
EXTENDS Plan, CommandRunner

CONSTANTS
    FailuresAllowed,  \* -k
    DryRun,           \* -n
    Faults            \* the environment's faults that may occur

VARIABLES
    pc,                  \* where the loop is, or how the build has ended
    capacity,            \* the local variables of Build
    pending_commands,
    failures_allowed,
    planned,  \* history: the edges wanted when the build began
    started,  \* history: edge -> how often its command was started
    built,    \* history: the edges whose command has succeeded
    failed    \* history: the edges that have finished as failed

loopVars == <<pc, capacity, pending_commands, failures_allowed>>
history == <<planned, started, built, failed>>
vars == <<planVars, runnerVars, loopVars, history>>

Outcome == {"succeeded", "subcommand failed", "cannot make progress", "stuck",
            "start error", "finish error", "fatal", "panic"}
FaultKind == {"start", "spawn", "stat", "log", "loadavg"}

ASSUME BuilderAssumption ==
    /\ FailuresAllowed \in Nat \ {0}
    /\ DryRun \in BOOLEAN
    /\ Faults \subseteq FaultKind

TypeOK ==
    /\ PlanTypeOK
    /\ RunnerTypeOK
    /\ pc \in {"prepare", "loop", "start", "reap"} \cup Outcome
    /\ capacity \in Int
    /\ pending_commands \in Int
    /\ failures_allowed \in Nat
    /\ planned \subseteq Edge
    /\ started \in [Edge -> Nat]
    /\ built \subseteq Edge /\ failed \subseteq Edge

\* Build is called when AlreadyUpToDate() is false.
Init ==
    /\ PlanInit
    /\ more_to_do
    /\ RunnerInit
    /\ pc = "prepare" /\ capacity = 0 /\ pending_commands = 0
    /\ failures_allowed = FailuresAllowed
    /\ planned = {e \in Edge : Wanted(e)}
    /\ started = [e \in Edge |-> 0]
    /\ built = {} /\ failed = {}

\* The next pending call is op(x).
NextCall(op, x) ==
    pc \notin Outcome /\ calls # <<>> /\ Head(calls) = [op |-> op, arg |-> x]

AtLoop(where) == pc = where /\ calls = <<>>

\* The build ends while commands may be running: Cleanup aborts them.
CleanupAndStop(outcome) ==
    /\ pc' = outcome
    /\ Abort
    /\ UNCHANGED <<capacity, pending_commands, failures_allowed, history>>

\* The process ends where it is: a panic, or log.Fatal.
Die(outcome) ==
    /\ pc' = outcome
    /\ UNCHANGED <<planVars, runnerVars, capacity, pending_commands,
                   failures_allowed, history>>

-----------------------------------------------------------------------------
PrepareQueue ==
    /\ pc = "prepare"
    /\ ScheduleInitialEdges
    /\ pc' = "loop"
    /\ UNCHANGED <<runnerVars, capacity, pending_commands, failures_allowed, history>>

\* The head of the loop: is there more to do, and how much may be started?
\* DryRunCommandRunner has no CanRunMore, so that the call goes to a nil
\* interface.
LoopTop ==
    /\ AtLoop("loop")
    /\ \/ /\ ~more_to_do
          /\ pc' = "succeeded" /\ UNCHANGED capacity
       \/ /\ more_to_do /\ failures_allowed = 0
          /\ pc' = "reap" /\ UNCHANGED capacity
       \/ /\ more_to_do /\ failures_allowed # 0
          /\ IF DryRun
             THEN pc' = "panic" /\ UNCHANGED capacity
             ELSE /\ pc' = "start"
                  /\ capacity' \in CanRunMore(Len(running), unstarted)
    /\ UNCHANGED <<planVars, runnerVars, pending_commands, failures_allowed, history>>

\* GetLoadAverage calls log.Fatal when the load cannot be read.
LoadUnknown ==
    /\ AtLoop("loop") /\ more_to_do /\ failures_allowed # 0 /\ ~DryRun
    /\ LoadLimited /\ "loadavg" \in Faults
    /\ Die("fatal")

CanStart(e) == AtLoop("start") /\ capacity > 0 /\ FindWork(e)

Polled(e) == [ready EXCEPT ![e] = @ - 1]

\* A phony edge is started and finished at once.
StartPhony(e) ==
    /\ CanStart(e) /\ e \in Phony
    /\ EdgeFinishedSucceeded(e, Polled(e), <<>>)
    /\ UNCHANGED <<runnerVars, loopVars, history>>

\* StartEdge of an edge with a command, and the new capacity; the load is read
\* once more for it.
StartEdge(e) ==
    /\ CanStart(e) /\ e \notin Phony
    /\ ready' = Polled(e)
    /\ \/ StartCommand(e)
       \/ "spawn" \in Faults /\ StartCommandFails
    /\ pending_commands' = pending_commands + 1
    /\ \/ /\ \E c \in CanRunMore(Len(running'), unstarted') :
               capacity' = IF c < capacity - 1 THEN c ELSE capacity - 1
          /\ pc' = "start"
       \/ /\ LoadLimited /\ "loadavg" \in Faults
          /\ pc' = "fatal" /\ UNCHANGED capacity
    /\ started' = [started EXCEPT ![e] = @ + 1]
    /\ UNCHANGED <<use, delayed, want, outputs_ready, dirty, deps_missing, wanted_edges,
                   command_edges, calls, failures_allowed, planned, built, failed>>

\* StartEdge cannot make a directory or write the response file.
StartEdgeFails(e) ==
    /\ CanStart(e) /\ e \notin Phony
    /\ "start" \in Faults
    /\ ready' = Polled(e)
    /\ CleanupAndStop("start error")
    /\ UNCHANGED <<use, delayed, want, outputs_ready, dirty, deps_missing, wanted_edges,
                   command_edges, calls>>

\* No capacity or no ready edge is left.
StartDone ==
    /\ AtLoop("start")
    /\ capacity <= 0 \/ \A e \in Edge : ~FindWork(e)
    /\ pc' = IF pending_commands = 0 /\ ~more_to_do THEN "succeeded" ELSE "reap"
    /\ UNCHANGED <<planVars, runnerVars, capacity, pending_commands, failures_allowed,
                   history>>

-----------------------------------------------------------------------------
(***************************************************************************)
(* FinishCommand: dependencies are extracted first, and a failure to do so *)
(* makes the command fail.  After a success the outputs of a restat edge   *)
(* that have not changed are cleaned, then the plan is updated, and only   *)
(* then is the command recorded in the logs.                               *)
(***************************************************************************)
Reaped(e) ==
    /\ AtLoop("reap") /\ pending_commands # 0
    /\ unstarted = 0 /\ ReapHead
    /\ Head(running).edge = e
    /\ pending_commands' = pending_commands - 1
    /\ pc' = "loop"

\* Mutant of FinishCommandSucceeds: updates the plan before it cleans the outputs.
FinishCommandThenClean(e) ==
    /\ Reaped(e)
    /\ calls' = <<[op |-> "EdgeFinished", arg |-> e]>> \o CallEach("RestatOutput", Outs[e])
    /\ built' = built \cup {e}
    /\ UNCHANGED <<use, delayed, want, ready, outputs_ready, dirty, deps_missing,
                   wanted_edges, command_edges, capacity, failures_allowed, planned,
                   started, failed>>

FinishCommandSucceeds(e) ==
    /\ Reaped(e)
    /\ calls' = CallEach("RestatOutput", Outs[e])
                \o <<[op |-> "EdgeFinished", arg |-> e], [op |-> "RecordCommand", arg |-> e]>>
    /\ built' = built \cup {e}
    /\ UNCHANGED <<use, delayed, want, ready, outputs_ready, dirty, deps_missing,
                   wanted_edges, command_edges, capacity, failures_allowed, planned,
                   started, failed>>

\* Mutants of AfterFailure: no check for zero; failures are not counted.
AfterFailureUnchecked == failures_allowed - 1
AfterFailureUncounted == failures_allowed

\* failures_allowed after one more failure.
AfterFailure == IF failures_allowed # 0 THEN failures_allowed - 1 ELSE 0

\* ExtractDeps has failed.
FinishCommandFails(e) ==
    /\ Reaped(e) /\ e \in DepsTyped
    /\ EdgeFinishedFailed(e)
    /\ failures_allowed' = AfterFailure
    /\ failed' = failed \cup {e}
    /\ UNCHANGED <<capacity, planned, started, built>>

\* EdgeFinished panics when the edge has no entry in want_.
FinishUnplanned(e) ==
    /\ want[e] = Absent
    /\ \/ CanStart(e) /\ e \in Phony
       \/ /\ AtLoop("reap") /\ unstarted = 0 /\ e \in DepsTyped
          /\ running # <<>> /\ Head(running) = [edge |-> e, exit |-> ExitOk]
       \/ NextCall("EdgeFinished", e)
    /\ Die("panic")

\* Wait fails: log.Fatal ends ninja, whatever -k says.
WaitFails ==
    /\ AtLoop("reap") /\ pending_commands # 0 /\ WaitIsFatal
    /\ Die("fatal")

\* Mutant of NoProgress: starts the loop over.
NoProgressContinues ==
    /\ AtLoop("reap") /\ pending_commands = 0
    /\ pc' = "loop"
    /\ UNCHANGED <<planVars, runnerVars, capacity, pending_commands, failures_allowed,
                   history>>

\* Nothing is pending and nothing more can be started.
NoProgress ==
    /\ AtLoop("reap") /\ pending_commands = 0
    /\ pc' = IF failures_allowed = 0 THEN "subcommand failed"
             ELSE IF failures_allowed < FailuresAllowed THEN "cannot make progress"
             ELSE "stuck"
    /\ UNCHANGED <<planVars, runnerVars, capacity, pending_commands, failures_allowed,
                   history>>

\* A call of the plan's that the loop waits for.
PlanCall ==
    /\ \/ \E n \in Node : NextCall("NodeFinished", n) /\ NodeFinished(n, Tail(calls))
       \/ \E e \in Edge : NextCall("EdgeMaybeReady", e) /\ EdgeMaybeReady(e, Tail(calls))
       \/ \E n \in Node : NextCall("CleanNode", n) /\ CleanNode(n, Tail(calls))
       \/ \E e \in Edge : NextCall("CleanOutEdge", e) /\ CleanOutEdge(e, Tail(calls))
       \/ \E e \in Edge :
             NextCall("RecomputeOutputsDirty", e) /\ RecomputeOutputsDirty(e, Tail(calls))
       \/ \E e \in Edge : NextCall("Unwant", e) /\ Unwant(e, Tail(calls))
       \/ \E e \in Edge :
             NextCall("EdgeFinished", e) /\ EdgeFinishedSucceeded(e, ready, Tail(calls))
    /\ UNCHANGED <<runnerVars, loopVars, history>>

\* FinishCommand looks at one output again: an unchanged output of a restat edge
\* is cleaned, any other is left as it is.
RestatOutput(n) ==
    /\ NextCall("RestatOutput", n)
    /\ \/ calls' = Tail(calls)
       \/ /\ \E e \in Restat : n \in ToSet(Outs[e])
          /\ calls' = <<[op |-> "CleanNode", arg |-> n]>> \o Tail(calls)
    /\ UNCHANGED <<use, delayed, want, ready, outputs_ready, dirty, deps_missing,
                   wanted_edges, command_edges, runnerVars, loopVars, history>>

\* The build log and the deps log get their entries.
RecordCommand(e) ==
    /\ NextCall("RecordCommand", e)
    /\ calls' = Tail(calls)
    /\ UNCHANGED <<use, delayed, want, ready, outputs_ready, dirty, deps_missing,
                   wanted_edges, command_edges, runnerVars, loopVars, history>>

\* An output cannot be examined, or a log cannot be written.
FinishCommandAborts ==
    /\ \/ "stat" \in Faults /\ \E n \in Node : NextCall("RestatOutput", n)
       \/ "log" \in Faults /\ \E e \in Edge : NextCall("RecordCommand", e)
    /\ CleanupAndStop("finish error")
    /\ UNCHANGED planVars

-----------------------------------------------------------------------------
ChildExit == \E i \in DOMAIN running, x \in {ExitOk, ExitBad} :
    ChildExits(i, x) /\ UNCHANGED <<planVars, loopVars, history>>

\* The one goroutine that builds.
BuildStep ==
    \/ PrepareQueue \/ LoopTop \/ LoadUnknown \/ StartDone
    \/ \E e \in Edge : \/ StartPhony(e) \/ StartEdge(e) \/ StartEdgeFails(e)
                       \/ FinishCommandSucceeds(e) \/ FinishCommandFails(e)
                       \/ FinishUnplanned(e) \/ RecordCommand(e)
    \/ \E n \in Node : RestatOutput(n)
    \/ WaitFails \/ NoProgress \/ PlanCall \/ FinishCommandAborts

\* The build has ended.
Ended == pc \in Outcome /\ UNCHANGED vars

Next == BuildStep \/ ChildExit \/ Ended

Spec == Init /\ [][Next]_vars

\* ninja runs, and every child exits sooner or later.
FairSpec == Spec /\ WF_vars(BuildStep) /\ WF_vars(ChildExit)

-----------------------------------------------------------------------------
(* Properties *)

Executing(e) == \E i \in DOMAIN running : running[i].edge = e

Finishing(e) == \E i \in DOMAIN calls : calls[i] = [op |-> "EdgeFinished", arg |-> e]

Scheduled(e) ==
    \/ ready[e] > 0
    \/ \E p \in Pool : e \in ToSet(delayed[p])
    \/ Executing(e)
    \/ Finishing(e)

\* A command is queued, run or finished only when every edge that produces one of its
\* inputs, order-only ones included, has its outputs ready; and an edge's outputs
\* are never ready before those of the edges it depends on.  EdgeMaybeReady,
\* ScheduleInitialEdges, RetrieveReadyEdges and StartEdge keep this between them,
\* whatever restat cleans meanwhile.
DependencyOrder ==
    /\ \A e \in Edge : Scheduled(e) => DependsOn[e] \subseteq outputs_ready
    /\ \A e \in outputs_ready : DependsOn[e] \subseteq outputs_ready

\* Without restat rules, an edge that was wanted has its outputs ready only once
\* its command has run and succeeded: neither the kWantNothing path of EdgeMaybeReady nor a failure
\* makes outputs of planned commands ready.
ReadyMeansBuilt == planned \cap outputs_ready \subseteq built \cup Phony

\* wanted_edges_ is the number of edges that want_ still wants: more_to_do()
\* ends the loop on this counter alone.
WantedCount == wanted_edges = Cardinality({e \in Edge : Wanted(e)})

\* Without restat rules, Build returns true only when every command that was
\* wanted has succeeded.
SuccessMeansBuilt == pc = "succeeded" => planned \subseteq built \cup Phony

\* No command starts after an edge it depends on has failed, however many
\* failures -k allows.
FailureContained ==
    \A e \in failed, x \in Edge :
        e \in DependsOn[x] => started[x] = 0 /\ x \notin outputs_ready

\* No command is started twice in a build, although several of an edge's inputs
\* may offer it to ScheduleWork.
RunsOnce == \A e \in Edge : started[e] <= 1

\* The loop's own count of commands is the runner's, and the capacity that is
\* carried through the start loop never exceeds -j.
ParallelismKept ==
    /\ Len(running) + unstarted <= Parallelism
    /\ pc \notin Outcome => pending_commands = Len(running) + unstarted

\* At most depth_ commands of a pool are queued to run or running.
PoolDepthKept ==
    \A p \in Pool : Depth[p] # 0 =>
        /\ use[p] \in 0..Depth[p]
        /\ Cardinality({i \in DOMAIN running : PoolOf[running[i].edge] = p}) <= use[p]

\* When the loop looks for more work, every wanted edge whose inputs are ready is
\* queued, delayed, running, or has failed: no completion order loses one.
NothingLost ==
    AtLoop("loop") => \A e \in Edge :
        Wanted(e) /\ DependsOn[e] \subseteq outputs_ready =>
            Scheduled(e) \/ e \in failed \/ unstarted > 0

\* The loop does not end with "stuck [this is a bug]".
NeverStuck == pc # "stuck"

\* With -k N a build sees at most N failures and those of the commands that were
\* already running when the N-th came.
FailureBudget == Cardinality(failed) <= FailuresAllowed + Parallelism - 1

\* An edge that CleanNode has taken out of the plan is in no queue and has no
\* command running: the clean state cannot overtake the scheduling.
UnwantedIsIdle == \A e \in Edge : want[e] = kWantNothing => ~Scheduled(e)

\* The assertion of Plan.EdgeFinished holds, and no interface is nil: the build
\* does not end in a panic.
NoPanic == pc # "panic"

\* CleanNode takes an edge out of the plan only when all its non-order-only inputs
\* are clean.
UnwantOnlyClean ==
    [][\A e \in Edge : Wanted(e) /\ want'[e] = kWantNothing
                        => ToSet(Ins[e]) \cap dirty = {}]_vars

\* With -k N the build goes on until N commands have failed.
KeepsGoing == pc = "fatal" => failures_allowed <= 1

\* A build that is started ends, one way or another.
Terminates == <>(pc \in Outcome)

Schedule == INSTANCE BuildSchedule WITH
    todo <- planned \ Phony,
    active <- {e \in Edge : started[e] > 0} \ (built \cup failed),
    done <- built,
    broken <- failed

\* The builder implements the abstract schedule.
ImplementsSchedule == Schedule!SSpec
=============================================================================
