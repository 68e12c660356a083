--------------------------- MODULE StatusPrinter ---------------------------
(***************************************************************************)
(* StatusPrinter and the LinePrinter under it (status_printer.go,          *)
(* line_printer.go), driven by the callbacks of the builds of one process: *)
(* those that renew the manifest, and the one of the targets.  A text is a *)
(* sequence of items; what reaches the terminal is kept in |console_|.     *)
(*                                                                         *)
(* An edge is in the pool "console" or in none.  That pool has one place,  *)
(* and the edge that takes it is never removed from delayed_: when it      *)
(* finishes it is let in again, and started again if the loop goes on,     *)
(* while no other edge of the pool ever is.                                *)
(***************************************************************************)
EXTENDS Integers, FiniteSets, SequencesExt

CONSTANTS
    Edge,         \* the edges that have a command
    OfManifest,   \* those that the manifest is made by
    UseConsole,   \* those of the pool "console", whose depth is 1
    InputCount,   \* how many inputs each of them has
    Logged,       \* the elapsed times that the build log knows
    Percent,      \* the edges whose outputs, command or error contain a '%'
    Noisy,        \* the edges whose command writes to its stdout
    Verbosities,  \* the verbosities explored; the command line sets no QUIET
    Formats,      \* the values of $NINJA_STATUS explored: their placeholders
    Parallelism,  \* -j
    MaxRebuilds,  \* bound: how many builds renew the manifest
    MaxAgain,     \* bound: how often a build starts an edge that has finished in it
    MaxTime       \* bound: the clock of a NinjaMain

ASSUME StatusAssumption ==
    /\ OfManifest \cup UseConsole \subseteq Edge /\ Percent \subseteq Edge /\ Noisy \subseteq Edge
    /\ InputCount \in [Edge -> Nat \ {0}]
    /\ DOMAIN Logged \subseteq Edge /\ \A e \in DOMAIN Logged : Logged[e] \in Nat
    /\ Verbosities \subseteq {"NO_STATUS_UPDATE", "NORMAL", "VERBOSE"}
    /\ Parallelism \in Nat \ {0} /\ MaxRebuilds \in Nat
    /\ MaxAgain \in Nat /\ MaxTime \in Nat

VARIABLES
    verbosity, format,    \* of the configuration
    count,                \* the counters of StatusPrinter
    times_, last_update_, \* current_rate_
    printer,              \* printer_, and the terminal
    said,                 \* history: the items given to PrintOnNewLine
    pc, phase, rebuilds,  \* where the process is, and which build it does
    todo, running,        \* the plan: edges to start, and started (oldest first)
    done, failed,         \* those that this build has finished, well and badly
    place,                \* the edge that has the place in the pool "console"
    carried,              \* history: total_edges_ when this build's planning began
    again,                \* history: the starts (of this build) and finishes beyond an edge's first
    now                   \* milliseconds since NinjaMain was created

statusVars == <<count, times_, last_update_, printer, said>>
planVars == <<todo, running, done, failed, place, carried, again>>
processVars == <<pc, phase, rebuilds, planVars, now>>
vars == <<verbosity, format, statusVars, processVars>>

-----------------------------------------------------------------------------
(* LinePrinter *)

ItemOf(what, e, values) == [what |-> what, edge |-> e, values |-> values, intact |-> TRUE]
Item(what, e) == ItemOf(what, e, <<>>)
NewLine == Item("newline", "")

\* Fprintf takes the data for its format: a '%' in it comes out garbled.
Fprintf(text) ==
    [i \in DOMAIN text |->
        [text[i] EXCEPT !.intact = @ /\ text[i].edge \notin Percent]]

PrintOrBuffer(p, text) ==
    IF p.console_locked_ THEN [p EXCEPT !.output_buffer_ = @ \o text]
    ELSE [p EXCEPT !.console_ = @ \o Fprintf(text)]

\* Print.  smart_terminal_ is FALSE: NewStatusPrinter leaves printer_ at its zero value.
PrintLine(p, line) ==
    IF p.console_locked_ THEN [p EXCEPT !.line_buffer_ = line]
    ELSE [p EXCEPT !.console_ = @ \o line \o <<NewLine>>]

FlushLine(p) ==
    IF p.console_locked_ /\ p.line_buffer_ # <<>>
    THEN [p EXCEPT !.output_buffer_ = @ \o p.line_buffer_ \o <<NewLine>>,
                   !.line_buffer_ = <<>>]
    ELSE p

PrintOnNewLine(p, text) ==
    LET q == FlushLine(p)
        r == IF q.have_blank_line_ THEN q ELSE PrintOrBuffer(q, <<NewLine>>)
    IN  [PrintOrBuffer(r, text) EXCEPT
            !.have_blank_line_ = text = <<>> \/ Last(text) = NewLine]

\* Mutant of Unlock: the buffers are cleared first.
UnlockCleared(p) ==
    [p EXCEPT !.console_locked_ = FALSE, !.output_buffer_ = <<>>, !.line_buffer_ = <<>>]

Unlock(p) ==
    LET q == PrintOnNewLine([p EXCEPT !.console_locked_ = FALSE], p.output_buffer_)
        r == IF q.line_buffer_ = <<>> THEN q ELSE PrintLine(q, q.line_buffer_)
    IN  [r EXCEPT !.output_buffer_ = <<>>, !.line_buffer_ = <<>>]

SetConsoleLocked(p, locked) ==
    IF locked = p.console_locked_ THEN p
    ELSE IF locked THEN [PrintOnNewLine(p, <<>>) EXCEPT !.console_locked_ = TRUE]
    ELSE Unlock(p)

-----------------------------------------------------------------------------
(* The counters, the rate and the status line *)

\* prev_elapsed_time_millis: 0, not -1, until ParsePreviousElapsedTimes finds an entry.
PrevElapsed(e) == IF phase = "targets" /\ e \in DOMAIN Logged THEN Logged[e] ELSE 0

\* Mutant of CountRemaining: the time is left out when an edge goes.
CountRemainingEdges(c, e, n) ==
    [c EXCEPT !.eta_predictable_edges_remaining_ = @ + n,
              !.eta_predictable_cpu_time_remaining_millis_ =
                  IF n > 0 THEN @ + PrevElapsed(e) ELSE @]

\* n is 1 or -1.
CountRemaining(c, e, n) ==
    IF PrevElapsed(e) # -1
    THEN [c EXCEPT !.eta_predictable_edges_remaining_ = @ + n,
                   !.eta_predictable_cpu_time_remaining_millis_ = @ + n * PrevElapsed(e)]
    ELSE [c EXCEPT !.eta_unpredictable_edges_remaining_ = @ + n]

CountPlanned(c, e, n) ==
    LET d == [CountRemaining(c, e, n) EXCEPT !.total_edges_ = @ + n]
    IN  IF PrevElapsed(e) # -1
        THEN [d EXCEPT !.eta_predictable_edges_total_ = @ + n,
                       !.eta_predictable_cpu_time_total_millis_ = @ + n * PrevElapsed(e)]
        ELSE d

PrintsStatus == verbosity # "NO_STATUS_UPDATE"

UpdatesRate(c) ==
    PrintsStatus /\ "c" \in ToSet(format) /\ c.finished_edges_ # last_update_

\* UpdateRate: a window of the last N samples.
Window(ts, t) == Append(IF Len(ts) = Parallelism THEN Tail(ts) ELSE ts, t)

RateTimes(c, t) == IF UpdatesRate(c) THEN Window(times_, t) ELSE times_

UpdateRate(c, t) ==
    /\ times_' = RateTimes(c, t)
    /\ last_update_' = IF UpdatesRate(c) THEN c.finished_edges_ ELSE last_update_

\* A rate is a number of samples and the time they span; "?" when there is none.
RateOf(ts) == IF Len(ts) > 1 THEN <<Len(ts), Last(ts) - Head(ts)>> ELSE "?"

Percentage(c) ==
    IF c.finished_edges_ # 0 /\ c.total_edges_ # 0
    THEN (100 * c.finished_edges_) \div c.total_edges_ ELSE 0

Placeholders == {"s", "t", "r", "u", "f", "o", "c", "p", "e", "E", "w", "W", "P"}

\* time_predicted_percentage_ stays 0: RecalculateProgressPrediction is empty.
ValueOf(x, c, t) ==
    CASE x = "s" -> c.started_edges_
      [] x = "t" -> c.total_edges_
      [] x = "r" -> c.running_edges_
      [] x = "u" -> c.total_edges_ - c.started_edges_
      [] x = "f" -> c.finished_edges_
      [] x = "o" -> <<c.finished_edges_, t>>
      [] x = "c" -> RateOf(RateTimes(c, t))
      [] x = "p" -> Percentage(c)
      [] x \in {"e", "w"} -> t \div 1000
      [] x \in {"E", "W"} -> "?"
      [] OTHER -> 0

FormatProgressStatus(c, t) == [i \in DOMAIN format |-> ValueOf(format[i], c, t)]

\* log.Fatalln for an unknown placeholder, a panic for a '%' at the end.
FormatIsBad == PrintsStatus /\ \E i \in DOMAIN format : format[i] \notin Placeholders

\* LookupAndAppend fills a copy of the slice: no explanation is ever printed.
PrintStatus(p, e, c, t) ==
    IF PrintsStatus THEN PrintLine(p, <<ItemOf("status", e, FormatProgressStatus(c, t))>>) ELSE p

-----------------------------------------------------------------------------
NoCount == [
    total_edges_ |-> 0, started_edges_ |-> 0, finished_edges_ |-> 0, running_edges_ |-> 0,
    eta_predictable_edges_total_ |-> 0, eta_predictable_cpu_time_total_millis_ |-> 0,
    eta_predictable_edges_remaining_ |-> 0,
    eta_predictable_cpu_time_remaining_millis_ |-> 0,
    eta_unpredictable_edges_remaining_ |-> 0]

\* The process: NewStatusPrinter, then real_main's first cycle.
Init ==
    /\ verbosity \in Verbosities /\ format \in Formats
    /\ count = NoCount
    /\ times_ = <<>> /\ last_update_ = -1
    /\ printer = [console_locked_ |-> FALSE, have_blank_line_ |-> FALSE,
                  line_buffer_ |-> <<>>, output_buffer_ |-> <<>>, console_ |-> <<>>]
    /\ said = <<>>
    /\ pc = "plan" /\ phase = "manifest" /\ rebuilds = 0
    /\ todo = {} /\ running = <<>> /\ done = {} /\ failed = {} /\ now = 0
    /\ place = "free" /\ carried = 0 /\ again = [starts |-> 0, finishes |-> 0, time |-> 0]

EdgeAddedToPlan(e) ==
    /\ pc = "plan" /\ e \notin todo
    /\ phase = "manifest" => e \in OfManifest /\ rebuilds < MaxRebuilds
    /\ count' = CountPlanned(count, e, 1)
    /\ todo' = todo \cup {e}
    /\ UNCHANGED <<verbosity, format, times_, last_update_, printer, said,
                   pc, phase, rebuilds, running, done, failed, place, carried, again, now>>

\* The manifest is up to date: ParsePreviousElapsedTimes, then RunBuild.
ManifestUpToDate ==
    /\ pc = "plan" /\ phase = "manifest" /\ todo = {}
    /\ phase' = "targets"
    /\ UNCHANGED <<verbosity, format, statusVars, pc, rebuilds, planVars, now>>

NoWorkToDo ==
    /\ pc = "plan" /\ phase = "targets" /\ todo = {}
    /\ pc' = "exit"
    /\ UNCHANGED <<verbosity, format, statusVars, phase, rebuilds, planVars, now>>

BuildStarted ==
    /\ pc = "plan" /\ todo # {}
    /\ count' = [count EXCEPT !.started_edges_ = 0, !.finished_edges_ = 0,
                              !.running_edges_ = 0]
    /\ pc' = "build" /\ done' = {} /\ failed' = {}
    /\ again' = [again EXCEPT !.starts = 0]
    /\ rebuilds' = IF phase = "manifest" THEN rebuilds + 1 ELSE rebuilds
    /\ UNCHANGED <<verbosity, format, times_, last_update_, printer, said,
                   phase, todo, running, place, carried, now>>

Finished == done \cup failed

MayStart(e) ==
    /\ pc = "build" /\ Len(running) < Parallelism
    /\ IF e \in UseConsole
       THEN /\ place \in {"free", e} /\ e \notin ToSet(running)
            /\ e \in todo \/ (e \in Finished /\ again.starts < MaxAgain)
       ELSE e \in todo

\* The console edge shows its status line, then it has the terminal to itself.
BuildEdgeStarted(e, t) ==
    LET c == [count EXCEPT !.started_edges_ = @ + 1, !.running_edges_ = @ + 1]
    IN  /\ MayStart(e) /\ (FormatIsBad => e \notin UseConsole)
        /\ count' = c
        /\ IF e \in UseConsole
           THEN /\ UpdateRate(c, t)
                /\ printer' = SetConsoleLocked(PrintStatus(printer, e, c, t), TRUE)
           ELSE UNCHANGED <<times_, last_update_, printer>>
        /\ place' = IF e \in UseConsole THEN e ELSE place
        /\ again' = IF e \in Finished THEN [again EXCEPT !.starts = @ + 1] ELSE again
        /\ todo' = todo \ {e} /\ running' = Append(running, e) /\ now' = t
        /\ UNCHANGED <<verbosity, format, said, pc, phase, rebuilds, done, failed, carried>>

\* GetOutput: CombinedOutput refuses a command that was given a Stderr, and the
\* buffer it returns is empty.
GetOutput(e) == <<>>

\* What is said of a command whose dependencies could not be extracted.
FailureTexts(e) ==
    <<<<Item("failed", e), NewLine>>, <<Item("command", e), NewLine>>,
      GetOutput(e) \o <<Item("error", e)>>>>

PrintAll(p, texts) == FoldLeft(PrintOnNewLine, p, texts)

BuildEdgeFinished(t, success) ==
    LET e == Head(running)
        c == [CountRemaining(count, e, -1) EXCEPT !.finished_edges_ = @ + 1]
        texts == IF ~success THEN FailureTexts(e)
                 ELSE IF GetOutput(e) = <<>> THEN <<>> ELSE <<GetOutput(e)>>
    IN  /\ pc = "build" /\ running # <<>>
        /\ FormatIsBad => e \in UseConsole
        /\ IF e \in UseConsole
           THEN /\ printer' = PrintAll(SetConsoleLocked(printer, FALSE), texts)
                /\ UNCHANGED <<times_, last_update_>>
           ELSE /\ printer' = PrintAll(PrintStatus(printer, e, c, t), texts)
                /\ UpdateRate(c, t)
        /\ said' = said \o SelectSeq(FlattenSeq(texts), LAMBDA i : i # NewLine)
        /\ count' = [c EXCEPT !.running_edges_ = @ - 1]
        /\ running' = Tail(running) /\ now' = t
        /\ again' = IF e \in Finished THEN [again EXCEPT !.finishes = @ + 1,
                                                        !.time = @ + PrevElapsed(e)]
                    ELSE again
        /\ IF e \in done THEN pc' = "twice" /\ UNCHANGED <<done, failed>>
           ELSE /\ done' = IF success THEN done \cup {e} ELSE done
                /\ failed' = IF success THEN failed \ {e} ELSE failed \cup {e}
                /\ UNCHANGED pc
        /\ UNCHANGED <<verbosity, format, phase, rebuilds, todo, place, carried>>

\* EdgeFinished for an edge that is no longer in want_: panic.
FinishedTwice ==
    /\ pc = "twice"
    /\ pc' = "dead"
    /\ UNCHANGED <<verbosity, format, statusVars, phase, rebuilds, planVars, now>>

\* $NINJA_STATUS ends the process at its first status line.
FormatEndsProcess ==
    /\ FormatIsBad
    /\ \/ \E e \in UseConsole : MayStart(e)
       \/ pc = "build" /\ running # <<>> /\ Head(running) \notin UseConsole
    /\ pc' = "dead"
    /\ UNCHANGED <<verbosity, format, statusVars, phase, rebuilds, planVars, now>>

\* A restat edge has left its output as it was: CleanNode unwants one that
\* follows, and tells so once per input.
EdgeRemovedFromPlan(e) ==
    /\ pc \in {"build", "twice"} /\ done # {} /\ e \in todo
    /\ count' = FoldLeft(LAMBDA c, i : CountPlanned(c, e, -1), count,
                         [i \in 1..InputCount[e] |-> i])
    /\ todo' = todo \ {e}
    /\ UNCHANGED <<verbosity, format, times_, last_update_, printer, said,
                   pc, phase, rebuilds, running, done, failed, place, carried, again, now>>

FinishPrinting(p) == PrintOnNewLine(SetConsoleLocked(p, FALSE), <<>>)

\* An edge that was started again is left behind.
BuildSucceeds ==
    /\ pc = "build" /\ todo = {} /\ failed = {} /\ ToSet(running) \subseteq done
    /\ printer' = FinishPrinting(printer)
    /\ pc' = "built" /\ running' = <<>>
    /\ UNCHANGED <<verbosity, format, count, times_, last_update_, said,
                   phase, rebuilds, todo, done, failed, place, carried, again, now>>

\* StartEdge or FinishCommand has failed, or too many commands have, or nothing can start.
BuildStops ==
    /\ pc \in {"build", "twice"}
    /\ count.started_edges_ > 0 \/ ~\E e \in Edge : MayStart(e)
    /\ printer' = FinishPrinting(printer)
    /\ pc' = "exit" /\ running' = <<>>
    /\ UNCHANGED <<verbosity, format, count, times_, last_update_, said,
                   phase, rebuilds, todo, done, failed, place, carried, again, now>>

\* A command exits badly: DoWork calls log.Fatalln.
CommandEndsProcess ==
    /\ pc = "build" /\ running # <<>>
    /\ pc' = "dead"
    /\ UNCHANGED <<verbosity, format, statusVars, phase, rebuilds, planVars, now>>

\* After the build of the manifest: a new NinjaMain, with a State and a clock of its
\* own, or RunBuild with the same one when the manifest was cleaned by a restat: then the
\* place in the pool stays taken by an edge that is in no queue.
AfterBuild ==
    /\ pc = "built"
    /\ IF phase = "targets" THEN pc' = "exit" /\ UNCHANGED <<phase, now, place>>
       ELSE /\ pc' = "plan"
            /\ \/ phase' = "manifest" /\ now' = 0 /\ place' = "free"
               \/ /\ phase' = "targets" /\ now' = now
                  /\ place' = IF place = "free" THEN "free" ELSE "lost"
    /\ carried' = count.total_edges_
    /\ UNCHANGED <<verbosity, format, statusVars, rebuilds, todo, running, done, failed, again>>

Ended == pc \in {"exit", "dead"} /\ UNCHANGED vars

Callback ==
    \/ \E e \in Edge : EdgeAddedToPlan(e) \/ EdgeRemovedFromPlan(e)
    \/ BuildStarted
    \/ \E e \in Edge, t \in now..MaxTime : BuildEdgeStarted(e, t)
    \/ \E t \in now..MaxTime, success \in BOOLEAN : BuildEdgeFinished(t, success)
    \/ BuildSucceeds
    \/ BuildStops

Next ==
    \/ Callback
    \/ ManifestUpToDate
    \/ NoWorkToDo
    \/ FinishedTwice
    \/ FormatEndsProcess
    \/ CommandEndsProcess
    \/ AfterBuild
    \/ Ended

Spec == Init /\ [][Next]_vars

-----------------------------------------------------------------------------
\* The edges that have not finished in this build.
Unfinished == todo \cup (ToSet(running) \ Finished)

\* The variables have their types.  A counter may fall below 0.
TypeOK ==
    /\ verbosity \in Verbosities /\ format \in Formats
    /\ \A f \in DOMAIN count : count[f] \in Int
    /\ \A i \in DOMAIN times_ : times_[i] \in 0..MaxTime
    /\ last_update_ \in Int
    /\ printer.console_locked_ \in BOOLEAN /\ printer.have_blank_line_ \in BOOLEAN
    /\ pc \in {"plan", "build", "twice", "built", "exit", "dead"}
    /\ phase \in {"manifest", "targets"}
    /\ todo \cup ToSet(running) \cup done \cup failed \subseteq Edge
    /\ place \in {"free", "lost"} \cup UseConsole

\* The counters that a build moves up and down (BuildEdgeStarted,
\* BuildEdgeFinished, EdgeAddedToPlan, EdgeRemovedFromPlan) agree with the plan
\* and the runner at every moment of it, but for what nothing takes back: the total,
\* from which %u is computed, keeps the edges of the builds before, as it is not set to
\* 0; and an edge of the console pool that is started again counts once more at each
\* start and finish, so that %u and what remains are too low by that.
CountersAgree ==
    /\ pc = "build" =>
          /\ count.total_edges_ - count.started_edges_ =
                carried + Cardinality(todo) - again.starts
          /\ count.running_edges_ = Len(running)
          /\ count.started_edges_ = count.finished_edges_ + count.running_edges_
    /\ pc \in {"plan", "build", "built"} =>
          /\ count.eta_predictable_edges_remaining_
                + count.eta_unpredictable_edges_remaining_ =
                   Cardinality(Unfinished) - again.finishes
          /\ count.eta_predictable_cpu_time_remaining_millis_ =
                FoldSet(LAMBDA e, sum : sum + PrevElapsed(e), 0, Unfinished) - again.time

\* An edge counts as unpredictable exactly when no previous run time is known
\* (the comments of the fields eta_..._edges_remaining_).
UnknownIsUnpredictable ==
    pc = "build" =>
        count.eta_unpredictable_edges_remaining_ =
            Cardinality({e \in Unfinished : phase = "manifest" \/ e \notin DOMAIN Logged})

Plain(text) ==
    LET kept == SelectSeq(text, LAMBDA i : i.what \notin {"newline", "status"})
    IN  [i \in DOMAIN kept |-> [kept[i] EXCEPT !.intact = TRUE]]

\* What was printed on new lines is on the terminal or behind it in the buffer,
\* all of it, once and in order; the buffers are empty while the console is
\* unlocked, and a build that returns has unlocked it (BuildFinished).
NothingLost ==
    /\ Plain(printer.console_ \o printer.output_buffer_) = said
    /\ ~printer.console_locked_ => printer.output_buffer_ = <<>> /\ printer.line_buffer_ = <<>>
    /\ pc \in {"plan", "built", "exit"} => ~printer.console_locked_

\* What is printed comes out as it was given (PrintOrBuffer: "Avoid printf").
OutputIntact == \A i \in DOMAIN printer.console_ : printer.console_[i].intact

\* What a command wrote to its stdout is printed when it finishes
\* (BuildEdgeFinished: "ninja sets stdout and stderr of subprocesses to a pipe").
OutputReported ==
    \A e \in done \cap Noisy :
        \E i \in DOMAIN said : said[i].what = "output" /\ said[i].edge = e
=============================================================================
