------------------------------ MODULE BuildLog ------------------------------
(***************************************************************************)
(* The build log of build_log.go: the entries a process keeps, the file it *)
(* appends them to, and the two goroutines that use both.  "build" records *)
(* commands and closes the log before a generator command; "handler" is    *)
(* TerminateHandler, which closes the log when a signal comes, after which *)
(* ninja goes on.  Nothing is locked: every read and write of log_file_    *)
(* and every system call is a step.                                        *)
(*                                                                         *)
(* Load returns before it reads anything, so that needs_recompaction_ is   *)
(* never set and Recompact is never called.                                *)
(***************************************************************************)
EXTENDS Integers, Sequences, FiniteSets, SequencesExt

CONSTANTS
    OutputsOf,     \* edge -> the sequence of its outputs
    MayFail,       \* a system call on the log, or hashing an output for the cache, may fail
    MaxRecords,    \* bound: commands recorded
    MaxCloses,     \* bound: generator commands
    MaxProcesses   \* bound: processes

Edge == DOMAIN OutputsOf
Output == UNION {ToSet(OutputsOf[e]) : e \in Edge}

ASSUME BuildLogAssumption ==
    /\ \A e \in Edge : OutputsOf[e] \in Seq(Output)
    /\ MayFail \in BOOLEAN
    /\ MaxRecords \in Nat /\ MaxCloses \in Nat /\ MaxProcesses \in Nat

Goroutine == {"build", "handler"}

NoEntry == 0
Nil == 0

Line(o, n) == [output |-> o, command |-> n]
Header == Line("signature", 0)  \* "# ninja log v7"

VARIABLES
    file,       \* the lines of the log file; none when it does not exist
    up,         \* a process runs
    entries_,   \* output -> its entry: the number of the command that wrote it
    log_file_,  \* the file object in use, or Nil; objects are numbered
    opened,     \* how many file objects this process has opened
    closed,     \* those of them that are closed
    job,        \* what each goroutine does: "none", "record", "close"
    at,         \* where it is in it
    fd,         \* the file object it has at hand
    empty,      \* its finding that the file has size 0
    todo,       \* the outputs that the build goroutine has still to record
    signalled,  \* the handler has run in this process
    stopped,    \* RecordCommand has returned false, and the build ends
    acked,      \* history: the entries of commands whose recording succeeded
    unsigned,   \* history: the file objects whose signature could not be written
    records, closes, processes, signals   \* how many there have been

vars == <<file, up, entries_, log_file_, opened, closed, job, at, fd, empty, todo, signalled,
          stopped, acked, unsigned, records, closes, processes, signals>>
bounds == <<records, closes, processes>>

TypeOK ==
    /\ file \in Seq({Header} \cup [output : Output, command : Nat])
    /\ up \in BOOLEAN /\ signalled \in BOOLEAN /\ stopped \in BOOLEAN
    /\ entries_ \in [Output -> Nat]
    /\ log_file_ \in 0..opened /\ closed \subseteq 1..opened
    /\ job \in [Goroutine -> {"none", "record", "close"}]
    /\ at \in [Goroutine -> {"idle", "entry", "open", "stat", "header", "assign", "test",
                             "read", "write", "sync", "close", "clear"}]
    /\ \A g \in Goroutine : at[g] \in {"close", "clear"} => job[g] = "close"
    /\ fd \in [Goroutine -> 0..opened] /\ empty \in [Goroutine -> BOOLEAN]
    /\ unsigned \subseteq 1..opened
    /\ todo \in Seq(Output)

NoEntries == [o \in Output |-> NoEntry]
Each(value) == [g \in Goroutine |-> value]

Init ==
    /\ file = <<>> /\ up = FALSE
    /\ entries_ = NoEntries /\ log_file_ = Nil /\ opened = 0 /\ closed = {}
    /\ job = Each("none") /\ at = Each("idle") /\ fd = Each(Nil) /\ empty = Each(FALSE)
    /\ todo = <<>> /\ signalled = FALSE /\ stopped = FALSE
    /\ acked = {} /\ unsigned = {}
    /\ records = 0 /\ closes = 0 /\ processes = 0 /\ signals = 0

-----------------------------------------------------------------------------
(* Processes *)

\* OpenBuildLog: Load reads nothing, OpenForWrite only remembers the path.
OpenBuildLog ==
    /\ ~up /\ processes < MaxProcesses
    /\ up' = TRUE /\ processes' = processes + 1
    /\ UNCHANGED <<file, entries_, log_file_, opened, closed, job, at, fd, empty, todo,
                   signalled, stopped, acked, unsigned, records, closes, signals>>

\* A crash, or os.Exit.
Exit ==
    /\ up /\ up' = FALSE
    /\ entries_' = NoEntries /\ log_file_' = Nil /\ opened' = 0 /\ closed' = {}
    /\ job' = Each("none") /\ at' = Each("idle") /\ fd' = Each(Nil) /\ empty' = Each(FALSE)
    /\ todo' = <<>> /\ signalled' = FALSE /\ stopped' = FALSE
    /\ unsigned' = {}
    /\ UNCHANGED <<file, acked, bounds, signals>>

-----------------------------------------------------------------------------
(* Calls *)

\* RecordCommand for an edge: the next output's entry is next.
RecordCommand(e) ==
    /\ up /\ ~stopped /\ job["build"] = "none" /\ records < MaxRecords
    /\ records' = records + 1
    /\ job' = [job EXCEPT !["build"] = "record"]
    /\ at' = [at EXCEPT !["build"] = "entry"]
    /\ todo' = OutputsOf[e]
    /\ UNCHANGED <<file, up, entries_, log_file_, opened, closed, fd, empty, signalled,
                   stopped, acked, unsigned, closes, processes, signals>>

\* Close opens the log first, so that the file exists even if nothing was recorded.
Close(g) ==
    /\ job' = [job EXCEPT ![g] = "close"]
    /\ at' = [at EXCEPT ![g] = "open"]

\* The build is about to start a generator command.
CloseForGenerator ==
    /\ up /\ ~stopped /\ job["build"] = "none" /\ closes < MaxCloses
    /\ closes' = closes + 1
    /\ Close("build")
    /\ UNCHANGED <<file, up, entries_, log_file_, opened, closed, fd, empty, todo, signalled,
                   stopped, acked, unsigned, records, processes, signals>>

\* NinjaMain.Release in the signal handler.
TerminateHandler ==
    /\ up /\ ~signalled
    /\ signalled' = TRUE /\ signals' = signals + 1
    /\ Close("handler")
    /\ UNCHANGED <<file, up, entries_, log_file_, opened, closed, fd, empty, todo, stopped,
                   acked, unsigned, bounds>>

-----------------------------------------------------------------------------
(* OpenForWriteIfNeeded *)

At(g, where) == up /\ job[g] # "none" /\ at[g] = where

GoTo(g, where) == at' = [at EXCEPT ![g] = where]

Opened(g) == IF job[g] = "record" THEN "test" ELSE "close"

AlreadyOpen(g) ==
    /\ At(g, "open") /\ log_file_ # Nil
    /\ GoTo(g, Opened(g))
    /\ UNCHANGED <<file, up, entries_, log_file_, opened, closed, job, fd, empty, todo,
                   signalled, stopped, acked, unsigned, bounds, signals>>

\* false is returned: RecordCommand returns false as well, and Close takes no notice.
GivesUp(g) ==
    IF job[g] = "record"
    THEN stopped' = TRUE /\ job' = [job EXCEPT ![g] = "none"] /\ GoTo(g, "idle")
    ELSE UNCHANGED <<stopped, job>> /\ GoTo(g, "close")

\* The log cannot be opened, or once it is open os.Stat fails: then it is left open.
OpenFails(g) ==
    /\ MayFail
    /\ \/ At(g, "open") /\ log_file_ = Nil
       \/ At(g, "stat")
    /\ GivesUp(g)
    /\ UNCHANGED <<file, up, entries_, log_file_, opened, closed, fd, empty, todo, signalled,
                   acked, unsigned, bounds, signals>>

\* os.OpenFile with O_APPEND and O_CREATE.
OpenFile(g) ==
    /\ At(g, "open") /\ log_file_ = Nil
    /\ opened' = opened + 1
    /\ fd' = [fd EXCEPT ![g] = opened + 1]
    /\ GoTo(g, "stat")
    /\ UNCHANGED <<file, up, entries_, log_file_, closed, job, empty, todo, signalled,
                   stopped, acked, unsigned, bounds, signals>>

Stat(g) ==
    /\ At(g, "stat")
    /\ empty' = [empty EXCEPT ![g] = (file = <<>>)]
    /\ GoTo(g, "header")
    /\ UNCHANGED <<file, up, entries_, log_file_, opened, closed, job, fd, todo, signalled,
                   stopped, acked, unsigned, bounds, signals>>

\* Mutant of HeaderLines: a header on every opening.
HeaderLinesAlways(g) == <<Header>>

\* A file of size 0 gets the signature.
HeaderLines(g) == IF empty[g] THEN <<Header>> ELSE <<>>

WriteHeader(g) ==
    /\ At(g, "header")
    /\ file' = file \o HeaderLines(g)
    /\ GoTo(g, "assign")
    /\ UNCHANGED <<up, entries_, log_file_, opened, closed, job, fd, empty, todo, signalled,
                   stopped, acked, unsigned, bounds, signals>>

\* The error of logFile.Flush is ignored: the object is assigned all the same.
FlushFails(g) ==
    /\ MayFail
    /\ At(g, "header") /\ empty[g]
    /\ unsigned' = unsigned \cup {fd[g]}
    /\ GoTo(g, "assign")
    /\ UNCHANGED <<file, up, entries_, log_file_, opened, closed, job, fd, empty, todo,
                   signalled, stopped, acked, bounds, signals>>

Assign(g) ==
    /\ At(g, "assign")
    /\ log_file_' = fd[g]
    /\ GoTo(g, Opened(g))
    /\ UNCHANGED <<file, up, entries_, opened, closed, job, fd, empty, todo, signalled,
                   stopped, acked, unsigned, bounds, signals>>

-----------------------------------------------------------------------------
(* The rest of Close *)

CloseFile(g) ==
    /\ At(g, "close")
    /\ closed' = IF log_file_ # Nil THEN closed \cup {log_file_} ELSE closed
    /\ GoTo(g, "clear")
    /\ UNCHANGED <<file, up, entries_, log_file_, opened, job, fd, empty, todo, signalled,
                   stopped, acked, unsigned, bounds, signals>>

\* Mutant of Cleared: the closed file stays in use.
ClearedNot == log_file_

Cleared == Nil

ClearFile(g) ==
    /\ At(g, "clear")
    /\ log_file_' = Cleared
    /\ job' = [job EXCEPT ![g] = "none"]
    /\ GoTo(g, "idle")
    /\ UNCHANGED <<file, up, entries_, opened, closed, fd, empty, todo, signalled, stopped,
                   acked, unsigned, bounds, signals>>

-----------------------------------------------------------------------------
(* The rest of RecordCommand, one output after the other *)

\* Mutant of NewEntry: an entry that exists is left as it is.
NewEntryOnce(o) == IF entries_[o] = NoEntry THEN records ELSE entries_[o]

NewEntry(o) == records

SetEntry ==
    /\ At("build", "entry") /\ todo # <<>>
    /\ entries_' = [entries_ EXCEPT ![Head(todo)] = NewEntry(Head(todo))]
    /\ GoTo("build", "open")
    /\ UNCHANGED <<file, up, log_file_, opened, closed, job, fd, empty, todo, signalled,
                   stopped, acked, unsigned, bounds, signals>>

\* Every output has been recorded.
Recorded ==
    /\ At("build", "entry") /\ todo = <<>>
    /\ job' = [job EXCEPT !["build"] = "none"]
    /\ GoTo("build", "idle")
    /\ UNCHANGED <<file, up, entries_, log_file_, opened, closed, fd, empty, todo, signalled,
                   stopped, acked, unsigned, bounds, signals>>

NextOutput ==
    /\ todo' = Tail(todo)
    /\ acked' = acked \cup {Line(Head(todo), records)}
    /\ GoTo("build", "entry")

\* if this.log_file_ != nil: without a file nothing is written, and that is no error.
TestFile ==
    /\ At("build", "test")
    /\ IF log_file_ = Nil
       THEN NextOutput
       ELSE GoTo("build", "read") /\ UNCHANGED <<todo, acked>>
    /\ UNCHANGED <<file, up, entries_, log_file_, opened, closed, job, fd, empty, signalled,
                   stopped, unsigned, bounds, signals>>

\* log_file_ is read again to write to it: by now it may be another, or Nil.
ReadFile ==
    /\ At("build", "read")
    /\ fd' = [fd EXCEPT !["build"] = log_file_]
    /\ GoTo("build", "write")
    /\ UNCHANGED <<file, up, entries_, log_file_, opened, closed, job, empty, todo, signalled,
                   stopped, acked, unsigned, bounds, signals>>

Written == Line(Head(todo), entries_[Head(todo)])

\* WriteEntry.
WriteEntry ==
    /\ At("build", "write") /\ fd["build"] # Nil /\ fd["build"] \notin closed
    /\ file' = Append(file, Written)
    /\ GoTo("build", "sync")
    /\ UNCHANGED <<up, entries_, log_file_, opened, closed, job, fd, empty, todo, signalled,
                   stopped, acked, unsigned, bounds, signals>>

\* Sync is called on what log_file_ is by now.
Sync ==
    /\ At("build", "sync") /\ log_file_ # Nil /\ log_file_ \notin closed
    /\ NextOutput
    /\ UNCHANGED <<file, up, entries_, log_file_, opened, closed, job, fd, empty, signalled,
                   stopped, unsigned, bounds, signals>>

\* The file is closed underneath, or gone, or it cannot be written, or the output cannot
\* be hashed once its line is written: RecordCommand returns false.
RecordFails ==
    /\ \/ At("build", "write") /\ (fd["build"] = Nil \/ fd["build"] \in closed \/ MayFail)
       \/ At("build", "sync") /\ (log_file_ = Nil \/ log_file_ \in closed \/ MayFail)
    /\ stopped' = TRUE
    /\ job' = [job EXCEPT !["build"] = "none"]
    /\ GoTo("build", "idle")
    /\ UNCHANGED <<file, up, entries_, log_file_, opened, closed, fd, empty, todo, signalled,
                   acked, unsigned, bounds, signals>>

Next ==
    \/ OpenBuildLog \/ Exit
    \/ \E e \in Edge : RecordCommand(e)
    \/ CloseForGenerator \/ TerminateHandler
    \/ \E g \in Goroutine : \/ AlreadyOpen(g) \/ OpenFile(g) \/ OpenFails(g) \/ Stat(g)
                            \/ WriteHeader(g) \/ FlushFails(g) \/ Assign(g)
                            \/ CloseFile(g) \/ ClearFile(g)
    \/ SetEntry \/ Recorded \/ TestFile \/ ReadFile \/ WriteEntry \/ Sync \/ RecordFails

Spec == Init /\ [][Next]_vars

-----------------------------------------------------------------------------
(* Properties *)

\* The command of the last line for an output: what a reader of the log would take.
LastLine(o) ==
    LET own == SelectSeq(file, LAMBDA l : l # Header /\ l.output = o)
    IN  IF own = <<>> THEN NoEntry ELSE own[Len(own)].command

\* What begins a log is its signature, whoever opened it and found it empty: lines go to
\* log_file_ only, and the header is flushed before log_file_ is assigned.  Only after a
\* flush that failed does a command begin it, through the object of that opening.  And no
\* signature follows another line, however often the log is closed for a generator
\* command and opened again, unless the signal handler opened it at the same time.
OneHeader ==
    [][ file' # file =>
           /\ file = <<>> => file' = <<Header>> \/ fd["build"] \in unsigned
           /\ file # <<>> => Last(file') # Header \/ signals > 0 ]_vars

\* An entry whose recording succeeded is a line of the file, unless a signal came:
\* then RecordCommand may find no file and report success all the same.
AckedIsWritten ==
    \A l \in acked : (\E i \in DOMAIN file : file[i] = l) \/ signals > 0

\* The log is never left with a file object that is closed, once both goroutines
\* are idle, so that the next command can be recorded; but for a signal.
NoClosedFile ==
    up /\ (\A g \in Goroutine : job[g] = "none") /\ ~signalled => log_file_ \notin closed

\* Opening a log that exists loads it: the entries of earlier processes are found
\* again by LookupByOutput.
LogIsLoaded ==
    \A o \in Output : up /\ ~signalled /\ LastLine(o) # NoEntry => entries_[o] # NoEntry
=============================================================================
