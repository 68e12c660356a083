------------------------------ MODULE RbeClient ------------------------------
(***************************************************************************)
(* A lookup in the remote cache as ninja makes it: LookupByOutputRbe asks  *)
(* the server for a row, compares its hash with the output's file and      *)
(* downloads the file when they differ.  The scan makes one lookup after   *)
(* the other; ninja may be killed at any step and started again, and what  *)
(* a download left behind is then still on the disk.                       *)
(*                                                                         *)
(* A file is the sequence of its parts.  The server is external: it may    *)
(* answer anything, late, or never.                                        *)
(***************************************************************************)
EXTENDS Integers, Sequences, SequencesExt

CONSTANTS
    Output,         \* paths of outputs
    Hash,           \* the hashes of complete files; a file is known by its hash
    None,           \* no output, no row
    Parts,          \* how many parts a file arrives in
    MaxLookups, MaxCrashes   \* bounds

ASSUME RbeClientAssumption ==
    /\ None \notin Output \cup Hash
    /\ Parts \in Nat \ {0} /\ MaxLookups \in Nat /\ MaxCrashes \in Nat

Complete(h) == [i \in 1..Parts |-> [of |-> h, part |-> i]]
ErrorPage == <<[of |-> "error", part |-> 1]>>
Body == {Complete(h) : h \in Hash} \cup {ErrorPage}
Missing == <<>>

\* Mutant of TmpOf: the file is downloaded to its own path.
TmpOfItself(o) == <<o, "file">>

TmpOf(o) == <<o, "tmp">>

FileOf(o) == <<o, "file">>
Path == Output \X {"file", "tmp"}

VARIABLES
    disk,      \* path -> its file, or Missing
    output,    \* the output whose lookup is under way, or None
    at,        \* where LookupByOutputRbe or RbeDownload is
    row,       \* the hash in the row that the server answered with
    body,      \* what has still to be read of the response to the download
    before,    \* history: the output's file when the lookup began
    result,    \* output -> "none", "nil" or "entry": what its last lookup returned
    lookups, crashes

vars == <<disk, output, at, row, body, before, result, lookups, crashes>>

Whole == {Missing} \cup Body

TypeOK ==
    /\ \A p \in Path : \E b \in Body : IsPrefix(disk[p], b)
    /\ output \in Output \cup {None}
    /\ at \in {"idle", "query", "create", "get", "copy", "rename", "entry"}
    /\ (at = "idle") = (output = None)
    /\ row \in Hash \cup {None}
    /\ \E b \in Body : IsSuffix(body, b)
    /\ result \in [Output -> {"none", "nil", "entry"}]

Init ==
    /\ disk \in {d \in [Path -> Whole] : \A o \in Output : d[<<o, "tmp">>] = Missing}
    /\ output = None /\ at = "idle" /\ row = None /\ body = <<>> /\ before = Missing
    /\ result = [o \in Output |-> "none"]
    /\ lookups = 0 /\ crashes = 0

-----------------------------------------------------------------------------
(* LookupByOutputRbe *)

Lookup(o) ==
    /\ at = "idle" /\ lookups < MaxLookups
    /\ lookups' = lookups + 1
    /\ at' = "query" /\ output' = o /\ before' = disk[FileOf(o)]
    /\ UNCHANGED <<disk, row, body, result, crashes>>

Return(value) ==
    /\ result' = [result EXCEPT ![output] = value]
    /\ at' = "idle" /\ output' = None

\* Mutant of Timeout: the client waits as long as it takes.
TimeoutNone == FALSE

\* The client gives up after 3 seconds.
Timeout == TRUE

\* No answer in time, an answer other than 200, or one that is not a row.
QueryFails ==
    /\ at = "query" /\ Timeout
    /\ Return("nil")
    /\ UNCHANGED <<disk, row, body, before, lookups, crashes>>

\* A file that is missing, differs or cannot be hashed is downloaded; one that is equal,
\* or that os.Stat cannot look at, is not.
QueryAnswers(h) ==
    /\ at = "query"
    /\ row' = h
    /\ \/ at' = "create"
       \/ disk[FileOf(output)] # Missing /\ at' = "entry"
    /\ UNCHANGED <<disk, output, body, before, result, lookups, crashes>>

ReturnEntry ==
    /\ at = "entry"
    /\ Return("entry")
    /\ UNCHANGED <<disk, row, body, before, lookups, crashes>>

-----------------------------------------------------------------------------
(* RbeDownload *)

Created == Missing

CreateTmp ==
    /\ at = "create" /\ at' = "get"
    /\ disk' = [disk EXCEPT ![TmpOf(output)] = Created]
    /\ UNCHANGED <<output, row, body, before, result, lookups, crashes>>

\* http.Get returns no error for a status other than 200, and the status is not read.
GetFile ==
    /\ at = "get" /\ at' = "copy"
    /\ body' \in {Complete(row), ErrorPage}
    /\ UNCHANGED <<disk, output, row, before, result, lookups, crashes>>

CopyPart ==
    /\ at = "copy" /\ body # <<>>
    /\ disk' = [disk EXCEPT ![TmpOf(output)] = Append(@, Head(body))]
    /\ body' = Tail(body)
    /\ UNCHANGED <<output, at, row, before, result, lookups, crashes>>

CopyDone ==
    /\ at = "copy" /\ body = <<>> /\ at' = "rename"
    /\ UNCHANGED <<disk, output, row, body, before, result, lookups, crashes>>

RenameTmp ==
    /\ at = "rename" /\ at' = "entry"
    /\ disk' = [disk EXCEPT ![TmpOf(output)] = Missing,
                            ![FileOf(output)] = disk[TmpOf(output)]]
    /\ UNCHANGED <<output, row, body, before, result, lookups, crashes>>

\* Mutant of AfterError: the error of io.Copy is not looked at.
AfterErrorIgnored == at' = "rename" /\ UNCHANGED <<output, result>>

AfterError == Return("nil")

\* Any step of the download fails: an error of the file system, a connection lost.
DownloadFails ==
    /\ at \in {"create", "get", "copy", "rename"}
    /\ AfterError
    /\ body' = <<>>
    /\ UNCHANGED <<disk, row, before, lookups, crashes>>

-----------------------------------------------------------------------------

\* The lookup has returned nil, so that the edge is dirty and its command runs; or
\* somebody changes or deletes the file.
Replace(o, file) ==
    /\ at = "idle" /\ result[o] # "none"
    /\ disk' = [disk EXCEPT ![FileOf(o)] = file]
    /\ result' = [result EXCEPT ![o] = "none"]
    /\ UNCHANGED <<output, at, row, body, before, lookups, crashes>>

Crash ==
    /\ crashes < MaxCrashes
    /\ crashes' = crashes + 1
    /\ output' = None /\ at' = "idle" /\ row' = None /\ body' = <<>>
    /\ result' = [o \in Output |-> "none"]
    /\ UNCHANGED <<disk, before, lookups>>

Next ==
    \/ \E o \in Output : Lookup(o) \/ \E file \in Whole \ {ErrorPage} : Replace(o, file)
    \/ QueryFails \/ \E h \in Hash : QueryAnswers(h)
    \/ ReturnEntry
    \/ CreateTmp \/ GetFile \/ CopyPart \/ CopyDone \/ RenameTmp \/ DownloadFails
    \/ Crash

\* The query has a timeout, and ninja goes on with what is its own to do.  http.Get has
\* none: nothing makes the server answer a download, or send the rest of a file.
Fairness ==
    /\ WF_vars(QueryFails) /\ WF_vars(ReturnEntry)
    /\ WF_vars(CreateTmp) /\ WF_vars(CopyDone) /\ WF_vars(RenameTmp)

Spec == Init /\ [][Next]_vars
FairSpec == Spec /\ Fairness

-----------------------------------------------------------------------------
(* Properties *)

\* An output is never a part of a file, nor made of two, at whatever step ninja is
\* killed or the connection is lost, and whatever an earlier ninja left in the .tmp.
OutputIsWhole == \A o \in Output : disk[FileOf(o)] \in Whole

\* A lookup that returns nil has left the output's file as it was.
NilKeepsOutput ==
    [][\A o \in Output :
         output = o /\ result'[o] = "nil" /\ output' = None => disk'[FileOf(o)] = before]_vars

\* A lookup that returns an entry for a file that was there to be read has put the
\* row's file in its place: an output is overwritten only by a file that was
\* downloaded fully.
OverwrittenByItsFile ==
    [][\A o \in Output : disk'[FileOf(o)] # disk[FileOf(o)] /\ output = o =>
             disk'[FileOf(o)] = Complete(row)]_vars

AwaitsServer == at = "get" \/ (at = "copy" /\ body # <<>>)

\* A lookup ends, also when the cache does not answer the query; the one thing that can
\* keep it for ever is a server that stops answering in a download (RbeDownload).
LookupEndsOrAwaits == at = "query" ~> (at = "idle" \/ []AwaitsServer)
=============================================================================
