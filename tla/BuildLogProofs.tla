--------------------------- MODULE BuildLogProofs ---------------------------
(***************************************************************************)
(* The build log under its two goroutines: what holds whatever they do at  *)
(* the same time, what holds as long as no signal has come at all, and     *)
(* what holds in every process in which none has.                          *)
(***************************************************************************)
EXTENDS BuildLog, SequenceTheorems, FiniteSetTheorems, TLAPS

\* The lines of the file.
Entry == {Header} \cup [output : Output, command : Nat]

\* Types, and which job a goroutine has where it is.  What a goroutine is recording is
\* what it has last put in entries_.
JobInv ==
    /\ TypeOK /\ records \in Nat /\ signals \in Nat /\ opened \in Nat
    /\ \A g \in Goroutine :
         /\ job[g] = "none" <=> at[g] = "idle"
         /\ at[g] \in {"close", "clear"} => job[g] = "close"
         /\ at[g] \in {"entry", "test", "read", "write", "sync"} => job[g] = "record"
         /\ at[g] \in {"stat", "header", "assign"} => fd[g] # Nil
    /\ job["handler"] # "record"
    /\ job["build"] = "record" => records > 0
    /\ job["build"] = "record" /\ at["build"] # "entry" =>
           todo # <<>> /\ entries_[Head(todo)] = records
    /\ ~signalled => job["handler"] = "none"
    /\ signals = 0 => ~signalled

\* Lines are written to log_file_ only, and the header is there before it is set, or its
\* flush has failed.
FileInv ==
    /\ log_file_ # Nil => file # <<>> \/ log_file_ \in unsigned
    /\ \A g \in Goroutine : /\ at[g] = "header" => empty[g] \/ file # <<>>
                            /\ at[g] = "assign" => file # <<>> \/ fd[g] \in unsigned
    /\ at["build"] = "write" => file # <<>> \/ fd["build"] \in unsigned \/ fd["build"] = Nil

\* Until there is a signal, the build goroutine's findings are still true when it acts
\* on them.
QuietInv == signals = 0 =>
    /\ at["build"] = "header" => (empty["build"] <=> file = <<>>)
    /\ at["build"] \in {"test", "read", "write", "sync"} => log_file_ # Nil
    /\ at["build"] = "sync" => \E i \in DOMAIN file : file[i] = Line(Head(todo), records)
    /\ \A l \in acked : \E i \in DOMAIN file : file[i] = l

\* In a process without a signal, a file object that is in use is open.
ObjectInv == ~signalled =>
    /\ log_file_ \in closed => at["build"] = "clear"
    /\ at["build"] \in {"stat", "header", "assign"} => fd["build"] \notin closed

\* The inductive invariant.
LogInv == JobInv /\ FileInv /\ QuietInv /\ ObjectInv

\* The first process finds no file.
LEMMA InitLog == Init => LogInv
<1>1. SUFFICES ASSUME Init PROVE LogInv
  OBVIOUS
<1>2. file \in Seq(Entry) /\ todo \in Seq(Output) /\ DOMAIN file = {}
  BY <1>1, EmptySeq DEF Init
<1>3. empty \in [Goroutine -> BOOLEAN]
  BY <1>1, Zenon DEF Init, Each
<1>4. /\ fd \in [Goroutine -> 0..opened] /\ entries_ \in [Output -> Nat]
      /\ job \in [Goroutine -> {"none", "record", "close"}]
      /\ \A g \in Goroutine : job[g] = "none" /\ at[g] = "idle"
  BY <1>1 DEF Init, Each, Nil, NoEntries, NoEntry
<1>5. at \in [Goroutine -> {"idle", "entry", "open", "stat", "header", "assign", "test",
                            "read", "write", "sync", "close", "clear"}]
  BY <1>1 DEF Init, Each
<1>6. TypeOK
  <2>1. up \in BOOLEAN /\ signalled \in BOOLEAN /\ stopped \in BOOLEAN
    BY <1>1, Zenon DEF Init
  <2>2. log_file_ \in 0..opened /\ closed \subseteq 1..opened /\ unsigned \subseteq 1..opened
    BY <1>1 DEF Init, Nil
  <2>3. \A g \in Goroutine : at[g] \in {"close", "clear"} => job[g] = "close"
    BY <1>4
  <2>. QED  BY <1>2, <1>3, <1>4, <1>5, <2>1, <2>2, <2>3, Zenon DEF TypeOK, Entry
<1>. QED
  BY <1>1, <1>2, <1>4, <1>6 DEF Init, LogInv, JobInv, FileInv, QuietInv, ObjectInv, Nil, Goroutine

\* A line that was recorded is not the header, and typed.
LEMMA WrittenType ==
    ASSUME JobInv, at["build"] \in {"write", "sync", "test"}
    PROVE  /\ Head(todo) \in Output /\ Tail(todo) \in Seq(Output)
           /\ Written = Line(Head(todo), records)
           /\ Written \in Entry /\ Written # Header
<1>1. todo \in Seq(Output) /\ todo # <<>> /\ records \in Nat /\ records > 0 /\ Written = Line(Head(todo), records)
  BY DEF JobInv, TypeOK, Written, Goroutine
<1>2. Head(todo) \in Output /\ Tail(todo) \in Seq(Output)
  BY <1>1, HeadTailProperties
<1>. QED  BY <1>1, <1>2 DEF Line, Header, Entry

\* What the steps do to jobs, lines and entries, action by action.
LEMMA CallJobs ==
    ASSUME JobInv,
           \/ OpenBuildLog \/ Exit \/ (\E e \in Edge : RecordCommand(e))
           \/ CloseForGenerator \/ TerminateHandler \/ UNCHANGED vars
    PROVE  JobInv'
<1>1. CASE OpenBuildLog
  BY <1>1 DEF OpenBuildLog, JobInv, TypeOK
<1>2. CASE Exit
  <2>1. /\ empty' \in [Goroutine -> BOOLEAN] /\ up' \in BOOLEAN /\ signalled' \in BOOLEAN
        /\ stopped' \in BOOLEAN
    BY <1>2, Zenon DEF Exit, Each
  <2>2. /\ fd' \in [Goroutine -> 0..opened'] /\ entries_' \in [Output -> Nat]
        /\ log_file_' \in 0..opened' /\ closed' \subseteq 1..opened' /\ unsigned' \subseteq 1..opened'
        /\ job' \in [Goroutine -> {"none", "record", "close"}]
        /\ \A g \in Goroutine : job'[g] = "none" /\ at'[g] = "idle"
    BY <1>2 DEF Exit, Each, Nil, NoEntries, NoEntry
  <2>3. at' \in [Goroutine -> {"idle", "entry", "open", "stat", "header", "assign", "test",
                               "read", "write", "sync", "close", "clear"}]
    BY <1>2 DEF Exit, Each
  <2>4. \A g \in Goroutine : at'[g] \in {"close", "clear"} => job'[g] = "close"
    BY <2>2
  <2>5. todo' \in Seq(Output) /\ file' \in Seq({Header} \cup [output : Output, command : Nat])
    BY <1>2 DEF Exit, JobInv, TypeOK
  <2>6. TypeOK'
    BY <2>1, <2>2, <2>3, <2>4, <2>5, Zenon DEF TypeOK
  <2>7. UNCHANGED <<records, signals>> /\ opened' = 0
    BY <1>2 DEF Exit, bounds
  <2>. QED  BY <2>2, <2>6, <2>7, <1>2 DEF JobInv, Goroutine, Exit
<1>3. ASSUME NEW e \in Edge, RecordCommand(e) PROVE JobInv'
  BY <1>3, BuildLogAssumption DEF RecordCommand, JobInv, TypeOK, Goroutine
<1>4. CASE CloseForGenerator
  BY <1>4 DEF CloseForGenerator, Close, JobInv, TypeOK, Goroutine
<1>5. CASE TerminateHandler
  BY <1>5 DEF TerminateHandler, Close, JobInv, TypeOK, Goroutine, bounds
<1>6. CASE UNCHANGED vars
  BY <1>6 DEF vars, JobInv, TypeOK
<1>. QED  BY <1>1, <1>2, <1>3, <1>4, <1>5, <1>6

\* The same for the steps of OpenForWriteIfNeeded and Close, by either goroutine.
LEMMA OpenJobs ==
    ASSUME JobInv, NEW g \in Goroutine,
           \/ AlreadyOpen(g) \/ OpenFile(g) \/ OpenFails(g) \/ Stat(g) \/ WriteHeader(g)
           \/ FlushFails(g) \/ Assign(g) \/ CloseFile(g) \/ ClearFile(g)
    PROVE  JobInv'
<1>1. CASE AlreadyOpen(g)
  BY <1>1 DEF AlreadyOpen, At, GoTo, Opened, JobInv, TypeOK, Goroutine, bounds
<1>2. CASE OpenFile(g)
  <2>1. /\ opened' = opened + 1 /\ opened' \in Nat /\ 0..opened \subseteq 0..opened'
        /\ opened' \in 0..opened' /\ 1..opened \subseteq 1..opened'
    BY <1>2 DEF OpenFile, JobInv
  <2>2. fd' \in [Goroutine -> 0..opened'] /\ log_file_' \in 0..opened' /\ closed' \subseteq 1..opened'
    BY <1>2, <2>1 DEF OpenFile, JobInv, TypeOK
  <2>3. job[g] # "none" /\ at' = [at EXCEPT ![g] = "stat"] /\ at[g] = "open"
    BY <1>2 DEF OpenFile, At, GoTo
  <2>4. UNCHANGED <<file, up, entries_, closed, unsigned, job, empty, todo, signalled, stopped, records, signals>>
    BY <1>2 DEF OpenFile, bounds
  <2>5. TypeOK'
    BY <2>1, <2>2, <2>3, <2>4 DEF JobInv, TypeOK
  <2>6. fd' = [fd EXCEPT ![g] = opened + 1] /\ opened + 1 # Nil
    BY <1>2 DEF OpenFile, JobInv, Nil
  <2>. QED  BY <2>1, <2>3, <2>4, <2>5, <2>6 DEF JobInv, TypeOK, Goroutine
<1>3. CASE Stat(g)
  <2>1. job[g] # "none" /\ at' = [at EXCEPT ![g] = "header"] /\ at[g] = "stat"
    BY <1>3 DEF Stat, At, GoTo
  <2>2. UNCHANGED <<file, up, entries_, log_file_, opened, closed, job, fd, todo, signalled, stopped,
                    unsigned, records, signals>>
    BY <1>3 DEF Stat, bounds
  <2>3. empty' = [empty EXCEPT ![g] = (file = <<>>)] /\ empty \in [Goroutine -> BOOLEAN]
    BY <1>3, Zenon DEF Stat, JobInv, TypeOK
  <2>4. empty' \in [Goroutine -> BOOLEAN]
    BY <2>3
  <2>5. TypeOK'
    BY <2>1, <2>2, <2>4 DEF JobInv, TypeOK
  <2>. QED  BY <2>1, <2>2, <2>5 DEF JobInv, TypeOK, Goroutine
<1>4. CASE WriteHeader(g)
  <2>1. job[g] # "none" /\ at' = [at EXCEPT ![g] = "assign"] /\ at[g] = "header"
    BY <1>4 DEF WriteHeader, At, GoTo
  <2>2. UNCHANGED <<up, entries_, log_file_, opened, closed, job, fd, empty, todo, signalled, stopped,
                    unsigned, records, signals>>
    BY <1>4 DEF WriteHeader, bounds
  <2>3. HeaderLines(g) \in Seq(Entry)
    <3>1. Header \in Entry
      BY DEF Entry
    <3>2. <<Header>> \in Seq(Entry) /\ <<>> \in Seq(Entry)
      BY <3>1, EmptySeq
    <3>. QED  BY <3>2 DEF HeaderLines
  <2>4. file' \in Seq({Header} \cup [output : Output, command : Nat])
    BY <1>4, <2>3, ConcatProperties DEF WriteHeader, JobInv, TypeOK, Entry
  <2>5. TypeOK'
    BY <2>1, <2>2, <2>4 DEF JobInv, TypeOK
  <2>. QED  BY <2>1, <2>2, <2>5 DEF JobInv, TypeOK, Goroutine
<1>5. CASE Assign(g)
  <2>1. /\ job[g] # "none" /\ at[g] = "assign" /\ log_file_' = fd[g]
        /\ at' = [at EXCEPT ![g] = IF job[g] = "record" THEN "test" ELSE "close"]
    BY <1>5 DEF Assign, At, GoTo, Opened
  <2>2. UNCHANGED <<file, up, entries_, opened, closed, job, fd, empty, todo, signalled, stopped,
                    unsigned, records, signals>>
    BY <1>5 DEF Assign, bounds
  <2>3. TypeOK'
    BY <2>1, <2>2 DEF JobInv, TypeOK
  <2>. QED  BY <2>1, <2>2, <2>3 DEF JobInv, TypeOK, Goroutine
<1>6. CASE CloseFile(g)
  <2>1. closed' \subseteq 1..opened
    BY <1>6 DEF CloseFile, JobInv, TypeOK, Nil
  <2>2. TypeOK'
    BY <1>6, <2>1 DEF CloseFile, At, GoTo, JobInv, TypeOK, bounds
  <2>. QED  BY <1>6, <2>2 DEF CloseFile, At, GoTo, JobInv, TypeOK, Goroutine, bounds
<1>7. CASE ClearFile(g)
  BY <1>7 DEF ClearFile, Cleared, At, GoTo, JobInv, TypeOK, Goroutine, bounds, Nil
<1>8. CASE OpenFails(g)
  <2>1. /\ at[g] # "idle" /\ job[g] # "none"
        /\ UNCHANGED <<file, up, entries_, log_file_, opened, closed, fd, empty, todo, signalled,
                       unsigned, records, signals>>
    BY <1>8 DEF OpenFails, At, bounds
  <2>2. CASE job[g] = "record"
    <3>1. /\ stopped' = TRUE /\ job' = [job EXCEPT ![g] = "none"] /\ at' = [at EXCEPT ![g] = "idle"]
      BY <1>8, <2>2 DEF OpenFails, GivesUp, GoTo
    <3>2. TypeOK'
      BY <2>1, <3>1 DEF JobInv, TypeOK
    <3>. QED  BY <2>1, <3>1, <3>2 DEF JobInv, TypeOK, Goroutine
  <2>3. CASE job[g] # "record"
    <3>1. /\ UNCHANGED <<stopped, job>> /\ at' = [at EXCEPT ![g] = "close"]
      BY <1>8, <2>3 DEF OpenFails, GivesUp, GoTo
    <3>2. job[g] = "close"
      BY <2>1, <2>3 DEF JobInv, TypeOK
    <3>3. TypeOK'
      BY <2>1, <3>1, <3>2 DEF JobInv, TypeOK
    <3>. QED  BY <2>1, <3>1, <3>2, <3>3 DEF JobInv, TypeOK, Goroutine
  <2>. QED  BY <2>2, <2>3
<1>9. CASE FlushFails(g)
  <2>1. /\ job[g] # "none" /\ at' = [at EXCEPT ![g] = "assign"] /\ at[g] = "header"
        /\ unsigned' = unsigned \cup {fd[g]}
    BY <1>9 DEF FlushFails, At, GoTo
  <2>2. UNCHANGED <<file, up, entries_, log_file_, opened, closed, job, fd, empty, todo, signalled,
                    stopped, records, signals>>
    BY <1>9 DEF FlushFails, bounds
  <2>3. fd[g] \in 1..opened
    BY <2>1 DEF JobInv, TypeOK, Nil
  <2>4. TypeOK'
    BY <2>1, <2>2, <2>3 DEF JobInv, TypeOK
  <2>. QED  BY <2>1, <2>2, <2>4 DEF JobInv, TypeOK, Goroutine
<1>. QED  BY <1>1, <1>2, <1>3, <1>4, <1>5, <1>6, <1>7, <1>8, <1>9

\* The same for the steps of RecordCommand.
LEMMA RecordJobs ==
    ASSUME JobInv, SetEntry \/ Recorded \/ TestFile \/ ReadFile \/ WriteEntry \/ Sync \/ RecordFails
    PROVE  JobInv'
<1>1. CASE SetEntry
  <2>1. Head(todo) \in Output /\ entries_' = [entries_ EXCEPT ![Head(todo)] = records]
    BY <1>1, HeadTailProperties DEF SetEntry, NewEntry, JobInv, TypeOK
  <2>2. entries_' \in [Output -> Nat] /\ entries_'[Head(todo)] = records
    BY <2>1 DEF JobInv, TypeOK
  <2>3. TypeOK'
    BY <1>1, <2>2 DEF SetEntry, At, GoTo, JobInv, TypeOK, bounds
  <2>. QED  BY <1>1, <2>2, <2>3 DEF SetEntry, At, GoTo, JobInv, TypeOK, Goroutine, bounds
<1>2. CASE Recorded
  BY <1>2 DEF Recorded, At, GoTo, JobInv, TypeOK, Goroutine, bounds
<1>3. CASE TestFile
  <2>1. /\ at["build"] = "test" /\ job["build"] # "none"
        /\ UNCHANGED <<file, up, entries_, log_file_, opened, closed, job, fd, empty, signalled, stopped,
                       unsigned, records, signals>>
    BY <1>3 DEF TestFile, At, bounds
  <2>2. todo' \in Seq(Output)
    BY <1>3, <2>1, WrittenType DEF TestFile, NextOutput, JobInv, TypeOK
  <2>3. \/ at' = [at EXCEPT !["build"] = "entry"]
        \/ at' = [at EXCEPT !["build"] = "read"] /\ todo' = todo
    BY <1>3 DEF TestFile, NextOutput, GoTo
  <2>4. TypeOK'
    BY <2>1, <2>2, <2>3 DEF JobInv, TypeOK, Goroutine
  <2>. QED  BY <2>1, <2>3, <2>4 DEF JobInv, TypeOK, Goroutine
<1>7. CASE ReadFile
  <2>1. /\ at["build"] = "read" /\ job["build"] # "none" /\ at' = [at EXCEPT !["build"] = "write"]
        /\ fd' = [fd EXCEPT !["build"] = log_file_]
        /\ UNCHANGED <<file, up, entries_, log_file_, opened, closed, job, empty, todo, signalled,
                       stopped, unsigned, records, signals>>
    BY <1>7 DEF ReadFile, At, GoTo, bounds
  <2>2. TypeOK'
    BY <2>1 DEF JobInv, TypeOK, Goroutine
  <2>. QED  BY <2>1, <2>2 DEF JobInv, TypeOK, Goroutine
<1>4. CASE WriteEntry
  <2>1. file' \in Seq({Header} \cup [output : Output, command : Nat])
    BY <1>4, WrittenType, AppendProperties DEF WriteEntry, At, JobInv, TypeOK, Entry
  <2>2. at["build"] = "write" /\ at' = [at EXCEPT !["build"] = "sync"] /\ job["build"] # "none"
    BY <1>4 DEF WriteEntry, At, GoTo
  <2>3. UNCHANGED <<up, entries_, log_file_, opened, closed, job, fd, empty, todo, signalled,
                    stopped, unsigned, records, signals>>
    BY <1>4 DEF WriteEntry, bounds
  <2>4. TypeOK'
    BY <2>1, <2>2, <2>3 DEF JobInv, TypeOK, Goroutine
  <2>. QED  BY <2>2, <2>3, <2>4 DEF JobInv, TypeOK, Goroutine
<1>5. CASE Sync
  BY <1>5, WrittenType DEF Sync, NextOutput, At, GoTo, JobInv, TypeOK, Goroutine, bounds
<1>6. CASE RecordFails
  BY <1>6 DEF RecordFails, At, GoTo, JobInv, TypeOK, Goroutine, bounds
<1>. QED  BY <1>1, <1>2, <1>3, <1>4, <1>5, <1>6, <1>7

\* So every step keeps types and jobs.
LEMMA NextJobs == ASSUME JobInv, [Next]_vars PROVE JobInv'
BY CallJobs, OpenJobs, RecordJobs DEF Next

\* The file only grows, and only by the two steps that write to it.
LEMMA FileSteps ==
    ASSUME JobInv, [Next]_vars
    PROVE  \/ file' = file
           \/ /\ WriteEntry /\ file' = Append(file, Written)
              /\ file' \in Seq(Entry) /\ Len(file') = Len(file) + 1 /\ file'[Len(file')] = Written
              /\ \A i \in DOMAIN file : i \in DOMAIN file' /\ file'[i] = file[i]
              /\ DOMAIN file' = DOMAIN file \cup {Len(file')}
           \/ \E g \in Goroutine :
                /\ WriteHeader(g) /\ empty[g]
                /\ file' = Append(file, Header)
                /\ Len(file') = Len(file) + 1 /\ file'[Len(file')] = Header
                /\ \A i \in DOMAIN file : i \in DOMAIN file' /\ file'[i] = file[i]
                /\ DOMAIN file' = DOMAIN file \cup {Len(file')}
<1>1. file \in Seq(Entry) /\ Header \in Entry
  BY DEF JobInv, TypeOK, Entry
<1>2. ASSUME NEW l \in Entry
      PROVE  /\ Append(file, l) \in Seq(Entry) /\ Len(Append(file, l)) = Len(file) + 1
             /\ Append(file, l)[Len(file) + 1] = l
             /\ \A i \in DOMAIN file : i \in DOMAIN Append(file, l) /\ Append(file, l)[i] = file[i]
             /\ DOMAIN Append(file, l) = DOMAIN file \cup {Len(file) + 1}
  <2>1. /\ Append(file, l) \in Seq(Entry) /\ Len(Append(file, l)) = Len(file) + 1
        /\ \A i \in 1..Len(file) : Append(file, l)[i] = file[i]
        /\ Append(file, l)[Len(file) + 1] = l
    BY <1>1, AppendProperties
  <2>2. /\ DOMAIN file = 1..Len(file) /\ Len(file) \in Nat
        /\ DOMAIN Append(file, l) = 1..(Len(file) + 1)
    BY <1>1, <2>1
  <2>. QED  BY <2>1, <2>2
<1>3. CASE WriteEntry
  <2>1. Written \in Entry /\ file' = Append(file, Written)
    BY <1>3, WrittenType DEF WriteEntry, At
  <2>. QED  BY <1>2, <1>3, <2>1
<1>4. ASSUME NEW g \in Goroutine, WriteHeader(g), empty[g]
      PROVE  /\ file' = Append(file, Header)
             /\ Len(file') = Len(file) + 1 /\ file'[Len(file')] = Header
             /\ \A i \in DOMAIN file : i \in DOMAIN file' /\ file'[i] = file[i]
             /\ DOMAIN file' = DOMAIN file \cup {Len(file')}
  <2>1. file' = file \o <<Header>>
    BY <1>4 DEF WriteHeader, HeaderLines
  <2>2. file' = Append(file, Header)
    BY <1>1, <2>1, AppendIsConcat
  <2>. QED  BY <1>1, <1>2, <2>2
<1>5. ASSUME NEW g \in Goroutine, WriteHeader(g), ~empty[g] PROVE file' = file
  <2>1. file' = file \o <<>>
    BY <1>5 DEF WriteHeader, HeaderLines
  <2>. QED  BY <1>1, <2>1, ConcatEmptySeq
<1>6. CASE UNCHANGED file
  BY <1>6
<1>7. \/ WriteEntry \/ (\E g \in Goroutine : WriteHeader(g)) \/ UNCHANGED file
  BY DEF Next, vars, OpenBuildLog, Exit, RecordCommand, CloseForGenerator, TerminateHandler, AlreadyOpen,
         OpenFile, OpenFails, GivesUp, Stat, FlushFails, Assign, CloseFile, ClearFile, SetEntry, Recorded,
         TestFile, ReadFile, Sync, RecordFails
<1>. QED  BY <1>3, <1>4, <1>5, <1>6, <1>7

\* What is in the file stays where it is.
LEMMA FileKept ==
    ASSUME JobInv, [Next]_vars
    PROVE  /\ file # <<>> => file' # <<>>
           /\ \A i \in DOMAIN file : i \in DOMAIN file' /\ file'[i] = file[i]
<1>1. file \in Seq(Entry) /\ file' \in Seq(Entry) /\ Len(file) \in Nat
  BY NextJobs DEF JobInv, TypeOK, Entry
<1>2. \A i \in DOMAIN file : i \in DOMAIN file' /\ file'[i] = file[i]
  BY FileSteps
<1>3. ASSUME file # <<>> PROVE 1 \in DOMAIN file
  BY <1>1, <1>3, EmptySeq, LenProperties
<1>. QED  BY <1>1, <1>2, <1>3, EmptySeq

\* Every step leaves a header in the file of whoever writes to it.
LEMMA NextFile == ASSUME JobInv, FileInv, [Next]_vars PROVE FileInv'
<1>1. file # <<>> => file' # <<>>
  BY FileKept
<1>2. CASE Exit
  BY <1>1, <1>2 DEF Exit, FileInv, Each, Goroutine
<1>3. ASSUME \/ OpenBuildLog \/ (\E e \in Edge : RecordCommand(e)) \/ CloseForGenerator
             \/ TerminateHandler \/ UNCHANGED vars
      PROVE  FileInv'
  BY <1>1, <1>3 DEF OpenBuildLog, RecordCommand, CloseForGenerator, TerminateHandler, Close, vars,
         JobInv, TypeOK, FileInv, Goroutine
<1>4. ASSUME NEW g \in Goroutine,
             \/ AlreadyOpen(g) \/ OpenFile(g) \/ OpenFails(g) \/ Stat(g) \/ WriteHeader(g)
             \/ FlushFails(g) \/ Assign(g) \/ CloseFile(g) \/ ClearFile(g)
      PROVE  FileInv'
  <2>1. CASE AlreadyOpen(g)
    BY <1>1, <2>1 DEF AlreadyOpen, At, GoTo, Opened, JobInv, TypeOK, FileInv, Goroutine
  <2>2. CASE OpenFile(g)
    BY <1>1, <2>2 DEF OpenFile, At, GoTo, JobInv, TypeOK, FileInv, Goroutine
  <2>3. CASE Stat(g)
    <3>1. empty' = [empty EXCEPT ![g] = (file = <<>>)] /\ empty \in [Goroutine -> BOOLEAN]
      BY <2>3, Zenon DEF Stat, JobInv, TypeOK
    <3>2. /\ empty'[g] <=> file = <<>>
          /\ \A h \in Goroutine \ {g} : empty'[h] = empty[h]
      BY <3>1
    <3>3. at' = [at EXCEPT ![g] = "header"] /\ UNCHANGED <<file, log_file_, fd, unsigned>>
      BY <2>3 DEF Stat, GoTo
    <3>. QED  BY <1>1, <3>2, <3>3 DEF JobInv, TypeOK, FileInv
  <2>4. CASE WriteHeader(g)
    <3>1. at' = [at EXCEPT ![g] = "assign"] /\ UNCHANGED <<log_file_, empty>>
      BY <2>4 DEF WriteHeader, GoTo
    <3>2. file' # <<>>
      <4>1. CASE file # <<>>
        BY <1>1, <4>1
      <4>2. CASE file = <<>>
        <5>1. empty[g]
          BY <2>4, <4>2 DEF WriteHeader, At, FileInv
        <5>2. file' = <<>> \o <<Header>>
          BY <2>4, <4>2, <5>1 DEF WriteHeader, HeaderLines
        <5>3. Len(file') = 1
          BY <5>2
        <5>. QED  BY <5>3, EmptySeq
      <4>. QED  BY <4>1, <4>2
    <3>. QED  BY <1>1, <3>1, <3>2 DEF JobInv, TypeOK, FileInv
  <2>5. CASE Assign(g)
    BY <1>1, <2>5 DEF Assign, At, GoTo, Opened, JobInv, TypeOK, FileInv, Goroutine
  <2>8. CASE OpenFails(g)
    BY <1>1, <2>8 DEF OpenFails, GivesUp, At, GoTo, JobInv, TypeOK, FileInv, Goroutine
  <2>9. CASE FlushFails(g)
    BY <1>1, <2>9 DEF FlushFails, At, GoTo, JobInv, TypeOK, FileInv, Goroutine
  <2>6. CASE CloseFile(g)
    BY <1>1, <2>6 DEF CloseFile, At, GoTo, JobInv, TypeOK, FileInv, Goroutine
  <2>7. CASE ClearFile(g)
    BY <1>1, <2>7 DEF ClearFile, Cleared, At, GoTo, JobInv, TypeOK, FileInv, Goroutine
  <2>. QED  BY <1>4, <2>1, <2>2, <2>3, <2>4, <2>5, <2>6, <2>7, <2>8, <2>9
<1>5. CASE SetEntry \/ Recorded \/ TestFile \/ ReadFile \/ WriteEntry \/ Sync \/ RecordFails
  <2>1. CASE TestFile
    BY <1>1, <2>1 DEF TestFile, NextOutput, At, GoTo, JobInv, TypeOK, FileInv, Goroutine
  <2>2. CASE ReadFile
    BY <1>1, <2>2 DEF ReadFile, At, GoTo, JobInv, TypeOK, FileInv, Goroutine
  <2>4. CASE WriteEntry
    BY <1>1, <2>4 DEF WriteEntry, At, GoTo, JobInv, TypeOK, FileInv, Goroutine
  <2>3. CASE SetEntry \/ Recorded \/ Sync \/ RecordFails
    BY <1>1, <2>3 DEF SetEntry, Recorded, Sync, RecordFails, NextOutput, At, GoTo, JobInv, TypeOK,
           FileInv, Goroutine
  <2>. QED  BY <1>5, <2>1, <2>2, <2>3, <2>4
<1>. QED  BY <1>2, <1>3, <1>4, <1>5 DEF Next

\* A goroutine that is at a step is doing something, and without a signal it is not the
\* handler.
LEMMA BuildOnly ==
    ASSUME JobInv, ~signalled, NEW g \in Goroutine, job[g] # "none"
    PROVE  g = "build"
BY DEF JobInv, Goroutine

\* Every step of a process without a signal leaves an open object in use.
LEMMA NextObject == ASSUME JobInv, ObjectInv, [Next]_vars PROVE ObjectInv'
<1>. SUFFICES ASSUME ~signalled' PROVE ObjectInv'
  BY DEF ObjectInv
<1>1. CASE Exit
  BY <1>1 DEF Exit, ObjectInv, Each, Goroutine, Nil
<1>. SUFFICES ASSUME ~Exit PROVE ObjectInv'
  BY <1>1
<1>. USE DEF ObjectInv
<1>2. ~signalled
  BY DEF Next, vars, OpenBuildLog, Exit, RecordCommand, CloseForGenerator, TerminateHandler,
         AlreadyOpen, OpenFile, OpenFails, GivesUp, Stat, WriteHeader, FlushFails, Assign, CloseFile, ClearFile, SetEntry, Recorded,
         TestFile, ReadFile, WriteEntry, Sync, RecordFails
<1>3. \A g \in Goroutine : job[g] # "none" => g = "build"
  BY <1>2, BuildOnly
<1>4. closed \subseteq 1..opened /\ opened \in Nat /\ "build" \in Goroutine /\ at["build"] # "idle" => job["build"] # "none"
  BY DEF JobInv, TypeOK, Goroutine
<1>5. ASSUME \/ OpenBuildLog \/ (\E e \in Edge : RecordCommand(e)) \/ CloseForGenerator
             \/ TerminateHandler \/ UNCHANGED vars
      PROVE  ObjectInv'
  BY <1>2, <1>5 DEF OpenBuildLog, RecordCommand, CloseForGenerator, TerminateHandler, Close, vars,
         JobInv, TypeOK, Goroutine
<1>6. ASSUME NEW g \in Goroutine,
             \/ AlreadyOpen(g) \/ OpenFile(g) \/ OpenFails(g) \/ Stat(g) \/ WriteHeader(g)
             \/ FlushFails(g) \/ Assign(g) \/ CloseFile(g) \/ ClearFile(g)
      PROVE  ObjectInv'
  <2>0. g = "build"
    BY <1>3, <1>6 DEF AlreadyOpen, OpenFile, OpenFails, GivesUp, Stat, WriteHeader, FlushFails, Assign, CloseFile, ClearFile, At
  <2>1. CASE AlreadyOpen(g)
    BY <1>2, <2>0, <2>1 DEF AlreadyOpen, At, GoTo, Opened, JobInv, TypeOK, Goroutine
  <2>2. CASE OpenFile(g)
    <3>1. /\ fd'["build"] = opened + 1 /\ at'["build"] = "stat" /\ UNCHANGED <<closed, log_file_>>
          /\ log_file_ = Nil
      BY <2>0, <2>2 DEF OpenFile, GoTo, JobInv, TypeOK, Goroutine
    <3>2. opened + 1 \notin closed /\ opened + 1 # Nil /\ Nil \notin closed
      BY DEF JobInv, TypeOK, Nil
    <3>. QED  BY <3>1, <3>2
  <2>3. CASE Stat(g) \/ WriteHeader(g) \/ FlushFails(g)
    BY <1>2, <2>0, <2>3 DEF Stat, WriteHeader, FlushFails, At, GoTo, JobInv, TypeOK, Goroutine
  <2>4. CASE Assign(g)
    BY <1>2, <2>0, <2>4 DEF Assign, At, GoTo, Opened, JobInv, TypeOK, Goroutine
  <2>5. CASE CloseFile(g)
    BY <1>2, <2>0, <2>5 DEF CloseFile, At, GoTo, JobInv, TypeOK, Goroutine
  <2>6. CASE ClearFile(g)
    <3>1. Nil \notin closed
      BY DEF JobInv, TypeOK, Nil
    <3>. QED  BY <1>2, <2>0, <2>6, <3>1 DEF ClearFile, Cleared, At, GoTo, JobInv, TypeOK, Goroutine
  <2>7. CASE OpenFails(g)
    BY <1>2, <2>0, <2>7 DEF OpenFails, GivesUp, At, GoTo, JobInv, TypeOK, Goroutine
  <2>. QED  BY <1>6, <2>1, <2>2, <2>3, <2>4, <2>5, <2>6, <2>7
<1>7. CASE SetEntry \/ Recorded \/ TestFile \/ ReadFile \/ WriteEntry \/ Sync \/ RecordFails
  BY <1>2, <1>7 DEF SetEntry, Recorded, TestFile, ReadFile, WriteEntry, Sync, RecordFails, NextOutput, At,
         GoTo, JobInv, TypeOK, Goroutine
<1>. QED  BY <1>5, <1>6, <1>7 DEF Next

\* Every step before the first signal acknowledges what is written.
LEMMA NextQuiet ==
    ASSUME JobInv, FileInv, QuietInv, ObjectInv, [Next]_vars
    PROVE  QuietInv'
<1>. SUFFICES ASSUME signals' = 0 PROVE QuietInv'
  BY DEF QuietInv
<1>1. CASE TerminateHandler
  BY <1>1 DEF TerminateHandler, JobInv
<1>. SUFFICES ASSUME ~TerminateHandler PROVE QuietInv'
  BY <1>1
<1>2. signals = 0
  BY DEF Next, vars, OpenBuildLog, Exit, RecordCommand, CloseForGenerator, AlreadyOpen, OpenFile,
         OpenFails, GivesUp, Stat, WriteHeader, FlushFails, Assign, CloseFile, ClearFile, SetEntry, Recorded, TestFile, ReadFile, WriteEntry,
         Sync, RecordFails
<1>3. /\ ~signalled
      /\ \A g \in Goroutine : job[g] # "none" => g = "build"
  BY <1>2, BuildOnly DEF JobInv
<1>4. /\ at["build"] = "header" => (empty["build"] <=> file = <<>>)
      /\ at["build"] \in {"test", "read", "write", "sync"} => log_file_ # Nil
      /\ at["build"] = "sync" => \E i \in DOMAIN file : file[i] = Line(Head(todo), records)
      /\ \A l \in acked : \E i \in DOMAIN file : file[i] = l
      /\ at["build"] \in {"stat", "header", "assign"} => fd["build"] # Nil
  BY <1>2, <1>3 DEF QuietInv, JobInv, Goroutine
<1>5. "build" \in Goroutine /\ at \in [Goroutine -> {"idle", "entry", "open", "stat", "header", "assign", "test",
                            "read", "write", "sync", "close", "clear"}]
  BY DEF JobInv, TypeOK, Goroutine
<1>6. \A i \in DOMAIN file : i \in DOMAIN file' /\ file'[i] = file[i]
  BY FileKept
\* What the build goroutine goes by.
<1>8. (at["build"] = "header" => (empty["build"] <=> file = <<>>))'
  <2>1. CASE Stat("build")
    <3>1. empty' = [empty EXCEPT !["build"] = (file = <<>>)] /\ empty \in [Goroutine -> BOOLEAN]
      BY <2>1, Zenon DEF Stat, JobInv, TypeOK
    <3>2. empty'["build"] <=> file = <<>>
      BY <1>5, <3>1
    <3>. QED  BY <2>1, <3>2 DEF Stat
  <2>2. CASE ~Stat("build") /\ at'["build"] = "header"
    <3>1. \A g \in Goroutine : ~Stat(g)
      BY <1>3, <2>2 DEF Stat, At
    <3>2. \A g \in Goroutine : At(g, "header") => g = "build"
      BY <1>3 DEF At
    <3>3. at["build"] = "header" /\ UNCHANGED <<empty, file>>
      BY <1>3, <1>5, <2>2, <3>1, <3>2 DEF Next, vars, OpenBuildLog, Exit, RecordCommand, CloseForGenerator, Close,
             TerminateHandler, AlreadyOpen, OpenFile, OpenFails, GivesUp, Stat, WriteHeader, FlushFails, Assign, CloseFile, ClearFile,
             SetEntry, Recorded, TestFile, ReadFile, WriteEntry, Sync, RecordFails, NextOutput, GoTo, Opened,
             Each, Goroutine
    <3>. QED  BY <1>4, <3>3
  <2>. QED  BY <2>1, <2>2
<1>9. (at["build"] \in {"test", "read", "write", "sync"} => log_file_ # Nil)'
  <2>1. CASE Exit
    BY <1>5, <2>1 DEF Exit, Each
  <2>2. ASSUME \/ OpenBuildLog \/ (\E e \in Edge : RecordCommand(e)) \/ CloseForGenerator \/ UNCHANGED vars
        PROVE  (at["build"] \in {"test", "read", "write", "sync"} => log_file_ # Nil)'
    BY <1>4, <1>5, <2>2 DEF OpenBuildLog, RecordCommand, CloseForGenerator, Close, vars
  <2>3. ASSUME NEW g \in Goroutine,
               \/ AlreadyOpen(g) \/ OpenFile(g) \/ OpenFails(g) \/ Stat(g) \/ WriteHeader(g)
               \/ FlushFails(g) \/ Assign(g) \/ CloseFile(g) \/ ClearFile(g)
        PROVE  (at["build"] \in {"test", "read", "write", "sync"} => log_file_ # Nil)'
    <3>0. g = "build"
      BY <1>3, <2>3 DEF AlreadyOpen, OpenFile, OpenFails, GivesUp, Stat, WriteHeader, FlushFails, Assign, CloseFile, ClearFile, At
    <3>. QED  BY <1>4, <1>5, <2>3, <3>0 DEF AlreadyOpen, OpenFile, OpenFails, GivesUp, Stat, WriteHeader, FlushFails, Assign, CloseFile, ClearFile,
                  At, GoTo
  <2>4. CASE SetEntry \/ Recorded \/ TestFile \/ ReadFile \/ WriteEntry \/ Sync \/ RecordFails
    BY <1>4, <1>5, <2>4 DEF SetEntry, Recorded, TestFile, ReadFile, WriteEntry, Sync, RecordFails, NextOutput, At, GoTo
  <2>. QED  BY <2>1, <2>2, <2>3, <2>4 DEF Next
\* What has been written, and what is acknowledged after it.
<1>10. (at["build"] = "sync" => \E i \in DOMAIN file : file[i] = Line(Head(todo), records))'
  <2>1. CASE WriteEntry
    <3>1. Written = Line(Head(todo), records) /\ UNCHANGED <<todo, records>>
      BY <2>1, WrittenType DEF WriteEntry, At, bounds
    <3>2. Len(file') \in DOMAIN file' /\ file'[Len(file')] = Written
      BY <2>1, FileSteps, NextJobs, <1>5 DEF WriteEntry, WriteHeader, At, GoTo
    <3>. QED  BY <3>1, <3>2
  <2>2. CASE ~WriteEntry /\ at'["build"] = "sync"
    <3>1. at["build"] = "sync" /\ UNCHANGED <<todo, records>>
      BY <1>3, <1>5, <2>2 DEF Next, vars, bounds, OpenBuildLog, Exit, RecordCommand, CloseForGenerator,
             Close, TerminateHandler, AlreadyOpen, OpenFile, OpenFails, GivesUp, Stat, WriteHeader, FlushFails, Assign, CloseFile,
             ClearFile, SetEntry, Recorded, TestFile, ReadFile, Sync, RecordFails, NextOutput, GoTo, Opened,
             Each, Goroutine, At
    <3>. QED  BY <1>4, <1>6, <3>1
  <2>. QED  BY <2>1, <2>2
<1>11. \A l \in acked' : \E i \in DOMAIN file' : file'[i] = l
  <2>1. \A l \in acked' : l \in acked \/ (at["build"] = "sync" /\ l = Line(Head(todo), records))
    BY <1>4 DEF Next, vars, OpenBuildLog, Exit, RecordCommand, CloseForGenerator, TerminateHandler,
           AlreadyOpen, OpenFile, OpenFails, GivesUp, Stat, WriteHeader, FlushFails, Assign, CloseFile, ClearFile, SetEntry, Recorded,
           TestFile, ReadFile, WriteEntry, Sync, RecordFails, NextOutput, At
  <2>. QED  BY <1>4, <1>6, <2>1
<1>. QED  BY <1>8, <1>9, <1>10, <1>11 DEF QuietInv

\* The build log keeps its invariant in every process, whatever signals come.
THEOREM LogHolds == Spec => []LogInv
<1>1. LogInv /\ [Next]_vars => LogInv'
  BY NextJobs, NextFile, NextQuiet, NextObject DEF LogInv
<1>. QED  BY InitLog, <1>1, PTL DEF Spec

\* A log begins with its signature, unless its flush failed, and has no other until there
\* is a signal.
THEOREM OneHeaderHolds == Spec => OneHeader
<1>1. ASSUME LogInv, [Next]_vars, file' # file
      PROVE  /\ file = <<>> => file' = <<Header>> \/ fd["build"] \in unsigned
             /\ file # <<>> => Last(file') # Header \/ signals > 0
  <2>1. JobInv /\ FileInv /\ file \in Seq(Entry) /\ Last(file') = file'[Len(file')]
    BY <1>1 DEF LogInv, JobInv, TypeOK, Entry, Last
  \* A command is written through an object whose signature is there, or failed.
  <2>2. CASE WriteEntry
    <3>1. /\ file = <<>> => fd["build"] \in unsigned
          /\ ~\E g \in Goroutine : WriteHeader(g)
      BY <2>1, <2>2 DEF WriteEntry, WriteHeader, At, GoTo, FileInv, JobInv, TypeOK, Goroutine
    <3>2. file'[Len(file')] = Written /\ Written # Header
      BY <1>1, <2>1, <2>2, <3>1, FileSteps, WrittenType DEF WriteEntry, At
    <3>. QED  BY <2>1, <3>1, <3>2
  \* A signature is written to a file that was empty, and without a signal still is.
  <2>3. ASSUME NEW g \in Goroutine, WriteHeader(g), empty[g], file' = Append(file, Header)
        PROVE  /\ file = <<>> => file' = <<Header>>
               /\ file # <<>> => signals > 0
    <3>1. file = <<>> => file' = <<Header>>
      BY <2>3
    <3>2. ASSUME signals = 0 PROVE file = <<>>
      <4>1. g = "build" /\ at[g] = "header"
        BY <2>1, <2>3, <3>2, BuildOnly DEF WriteHeader, At, JobInv
      <4>. QED  BY <1>1, <2>3, <3>2, <4>1 DEF LogInv, QuietInv
    <3>. QED  BY <2>1, <3>1, <3>2 DEF JobInv
  <2>. QED  BY <1>1, <2>1, <2>2, <2>3, FileSteps
<1>2. LogInv /\ [Next]_vars => [file' # file =>
           /\ file = <<>> => file' = <<Header>> \/ fd["build"] \in unsigned
           /\ file # <<>> => Last(file') # Header \/ signals > 0]_vars
  BY <1>1
<1>. QED  BY <1>2, LogHolds, PTL DEF Spec, OneHeader

\* What is acknowledged is in the file, until there is a signal.
THEOREM AckedIsWrittenHolds == Spec => []AckedIsWritten
<1>1. LogInv => AckedIsWritten
  BY DEF LogInv, JobInv, QuietInv, AckedIsWritten
<1>. QED  BY <1>1, LogHolds, PTL

\* Between two jobs the log has no closed file object, in a process without a signal.
THEOREM NoClosedFileHolds == Spec => []NoClosedFile
<1>1. LogInv => NoClosedFile
  BY DEF LogInv, JobInv, ObjectInv, NoClosedFile, Goroutine
<1>. QED  BY <1>1, LogHolds, PTL
=============================================================================
