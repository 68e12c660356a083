--------------------------- MODULE CommandRunner ---------------------------
(***************************************************************************)
(* RealCommandRunner and the SubprocessSet under it                        *)
(* (real_command_runner.go, subprocess.go).  The children are processes of *)
(* their own: each exits, well or badly, whenever it likes; ninja waits    *)
(* for the oldest one.                                                     *)
(***************************************************************************)
EXTENDS BuildGraph

CONSTANTS
    Parallelism,  \* -j
    LoadLimited,  \* whether -l gave a MaxLoadAverage
    Headroom      \* the values, in halves, of MaxLoadAverage - GetLoadAverage()

ASSUME RunnerAssumption ==
    /\ Parallelism \in Nat \ {0}
    /\ LoadLimited \in BOOLEAN
    /\ Headroom \subseteq Int

VARIABLES
    running,   \* running_, oldest first: the edge and how its command has exited
    unstarted  \* how many subprocesses of finished_ have failed to start

runnerVars == <<running, unstarted>>

Live == "live"
ExitOk == "ok"
ExitBad == "bad"

RunnerTypeOK ==
    /\ running \in Seq([edge : Edge, exit : {Live, ExitOk, ExitBad}])
    /\ unstarted \in Nat

RunnerInit == running = <<>> /\ unstarted = 0

\* A child exits; ninja notices when it waits for it.
ChildExits(i, x) ==
    /\ running[i].exit = Live
    /\ running' = [running EXCEPT ![i].exit = x]
    /\ UNCHANGED unstarted

\* Mutant of Places: off by one.
PlacesOneMore(r, u) == Parallelism - (r + u) + 1

\* The places that -j leaves.
Places(r, u) == Parallelism - (r + u)

(***************************************************************************)
(* CanRunMore.  The capacity is a float until the return truncates it, so  *)
(* it is kept in halves here; headroom h is only looked at under -l.       *)
(* |r| and |u| are the sizes of running_ and finished_.                    *)
(***************************************************************************)
HalfCapacity(r, u, h) ==
    LET places == 2 * Places(r, u)
        limited == IF LoadLimited /\ h < places THEN h ELSE places
    IN  IF limited < 0 THEN 0 ELSE limited

Capacity(r, u, h) ==
    IF HalfCapacity(r, u, h) = 0 /\ r = 0 THEN 1
    ELSE HalfCapacity(r, u, h) \div 2

CanRunMore(r, u) ==
    IF LoadLimited THEN {Capacity(r, u, h) : h \in Headroom}
    ELSE {Capacity(r, u, 0)}

\* StartCommand: Subprocess.Start may fail, and StartCommand returns true then
\* as well; the subprocess goes to finished_.
StartCommand(e) ==
    /\ running' = Append(running, [edge |-> e, exit |-> Live])
    /\ UNCHANGED unstarted

StartCommandFails ==
    /\ unstarted' = unstarted + 1
    /\ UNCHANGED running

\* DoWork waits for the head of running_ and WaitForCommand hands it on.  (A
\* command that exits badly makes DoWork call log.Fatalln instead.)
ReapHead ==
    /\ running # <<>> /\ Head(running).exit = ExitOk
    /\ running' = Tail(running)
    /\ UNCHANGED unstarted

\* finished_ is served first and Finish() calls Wait, which returns an error
\* for a process that never started: log.Fatalf.  A bad exit is fatal as well.
WaitIsFatal ==
    \/ unstarted > 0
    \/ running # <<>> /\ Head(running).exit = ExitBad

\* Abort: Clear interrupts the children and waits for each of them.
Abort ==
    /\ running' = <<>>
    /\ UNCHANGED unstarted
=============================================================================
