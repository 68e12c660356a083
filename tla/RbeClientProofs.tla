-------------------------- MODULE RbeClientProofs --------------------------
(***************************************************************************)
(* What a lookup in the remote cache does to the outputs on the disk, for  *)
(* any answers of the server, failures of any step, and kills of ninja     *)
(* that leave any part of a file at the .tmp path.                         *)
(***************************************************************************)
EXTENDS RbeClient, SequenceTheorems, TLAPS

\* The parts of all files.
Part == [of : Hash \cup {"error"}, part : Nat]

\* Where a lookup has not yet touched its output.
BeforeRename == {"query", "create", "get", "copy", "rename"}

\* What is at the .tmp path and what is still to be read are a file together; and until
\* the rename the output's file is the one that the lookup has found.
DownloadInv ==
    /\ disk \in [Path -> Seq(Part)]
    /\ output \in Output \cup {None} /\ (at = "idle" <=> output = None)
    /\ at \in BeforeRename => disk[FileOf(output)] = before
    /\ at \in {"create", "get"} => row \in Hash
    /\ at = "get" => disk[TmpOf(output)] = <<>>
    /\ at = "copy" => body \in Seq(Part) /\ disk[TmpOf(output)] \o body \in Body
    /\ at = "rename" => disk[TmpOf(output)] \in Body
    /\ DOMAIN result = Output

\* The inductive invariant.
ClientInv == DownloadInv /\ OutputIsWhole

\* Files are sequences of parts.
LEMMA WholeType == Whole \subseteq Seq(Part) /\ <<>> \in Whole /\ Body \subseteq Whole
<1>1. \A h \in Hash : Complete(h) \in Seq(Part)
  BY RbeClientAssumption DEF Complete, Part
<1>2. ErrorPage \in Seq(Part)
  BY DEF ErrorPage, Part
<1>3. <<>> \in Seq(Part)
  BY EmptySeq
<1>. QED  BY <1>1, <1>2, <1>3 DEF Whole, Body, Missing

\* The two paths of an output.
LEMMA PathsDiffer ==
    /\ \A o \in Output : FileOf(o) \in Path /\ TmpOf(o) \in Path /\ FileOf(o) # TmpOf(o)
    /\ \A o, x \in Output : FileOf(o) # TmpOf(x) /\ (FileOf(o) = FileOf(x) => o = x)
  BY DEF FileOf, TmpOf, Path

\* Copying a part moves it from what is to be read to what is on the disk.
LEMMA CopyMoves ==
    ASSUME NEW s \in Seq(Part), NEW b \in Seq(Part), b # <<>>
    PROVE  /\ Append(s, Head(b)) \in Seq(Part) /\ Tail(b) \in Seq(Part)
           /\ Append(s, Head(b)) \o Tail(b) = s \o b
<1>1. Head(b) \in Part /\ Tail(b) \in Seq(Part) /\ Append(s, Head(b)) \in Seq(Part)
  BY HeadTailProperties, AppendProperties
<1>2. b = <<Head(b)>> \o Tail(b)
  BY HeadTailProperties, ConcatProperties
<1>3. Append(s, Head(b)) = s \o <<Head(b)>>
  BY <1>1, AppendIsConcat
<1>4. (s \o <<Head(b)>>) \o Tail(b) = s \o (<<Head(b)>> \o Tail(b))
  BY <1>1, ConcatAssociative
<1>. QED  BY <1>1, <1>2, <1>3, <1>4

\* Ninja starts with whole outputs, and with no lookup under way.
LEMMA InitClient == Init => ClientInv
<1>1. SUFFICES ASSUME Init PROVE ClientInv
  OBVIOUS
<1>2. disk \in [Path -> Whole]
  BY <1>1 DEF Init
<1>3. disk \in [Path -> Seq(Part)]
  BY <1>2, WholeType
<1>4. OutputIsWhole
  BY <1>2, PathsDiffer DEF OutputIsWhole
<1>. QED  BY <1>1, <1>3, <1>4 DEF Init, ClientInv, DownloadInv, BeforeRename

\* Steps between which the disk does not change.
LEMMA StillClient ==
    ASSUME ClientInv,
           \/ \E o \in Output : Lookup(o)
           \/ QueryFails \/ \E h \in Hash : QueryAnswers(h)
           \/ ReturnEntry \/ GetFile \/ CopyDone \/ DownloadFails \/ Crash \/ UNCHANGED vars
    PROVE  ClientInv'
<1>0. DownloadInv /\ disk' = disk /\ OutputIsWhole' /\ None \notin Output
  BY RbeClientAssumption DEF ClientInv, OutputIsWhole, Lookup, QueryFails, QueryAnswers,
     ReturnEntry, GetFile, CopyDone, DownloadFails, Crash, vars
<1>1. ASSUME at' \in {"idle", "entry"}, DOMAIN result' = Output,
             at' = "idle" <=> output' = None, output' \in Output \cup {None}
      PROVE  DownloadInv'
  BY <1>0, <1>1 DEF DownloadInv, BeforeRename
<1>2. ASSUME NEW o \in Output, Lookup(o) PROVE DownloadInv'
  BY <1>0, <1>2 DEF Lookup, DownloadInv, BeforeRename
<1>3. ASSUME QueryFails \/ DownloadFails \/ ReturnEntry PROVE DownloadInv'
  BY <1>0, <1>1, <1>3 DEF QueryFails, DownloadFails, AfterError, ReturnEntry, Return, DownloadInv
<1>4. ASSUME NEW h \in Hash, QueryAnswers(h) PROVE DownloadInv'
  BY <1>0, <1>4 DEF QueryAnswers, DownloadInv, BeforeRename
<1>5. ASSUME GetFile PROVE DownloadInv'
  <2>1. /\ at = "get" /\ at' = "copy" /\ UNCHANGED <<output, before, result, row>>
        /\ body' \in Body
    BY <1>0, <1>5 DEF GetFile, Body, DownloadInv
  <2>2. body' \in Seq(Part) /\ <<>> \o body' = body'
    BY <2>1, WholeType, ConcatEmptySeq
  <2>. QED  BY <1>0, <2>1, <2>2 DEF DownloadInv, BeforeRename
<1>6. ASSUME CopyDone PROVE DownloadInv'
  <2>1. /\ at = "copy" /\ at' = "rename" /\ UNCHANGED <<output, before, result, row>>
        /\ body = <<>> /\ output \in Output
    BY <1>0, <1>6 DEF CopyDone, DownloadInv
  <2>2. disk[TmpOf(output)] \o <<>> = disk[TmpOf(output)]
    BY <1>0, <2>1, PathsDiffer, ConcatEmptySeq DEF DownloadInv
  <2>. QED  BY <1>0, <2>1, <2>2 DEF DownloadInv, BeforeRename
<1>7. ASSUME Crash PROVE DownloadInv'
  BY <1>0, <1>1, <1>7 DEF Crash
<1>8. ASSUME UNCHANGED vars PROVE DownloadInv'
  BY <1>0, <1>8 DEF vars, DownloadInv
<1>. QED  BY <1>0, <1>2, <1>3, <1>4, <1>5, <1>6, <1>7, <1>8 DEF ClientInv

\* Steps that write a file.
LEMMA WritingClient ==
    ASSUME ClientInv,
           \/ CreateTmp \/ CopyPart \/ RenameTmp
           \/ \E o \in Output, file \in Whole \ {ErrorPage} : Replace(o, file)
    PROVE  ClientInv'
<1>0. DownloadInv /\ OutputIsWhole /\ disk \in [Path -> Seq(Part)] /\ None \notin Output
  BY RbeClientAssumption DEF ClientInv, DownloadInv
<1>1. CASE CreateTmp
  <2>1. /\ at = "create" /\ at' = "get" /\ output \in Output
        /\ UNCHANGED <<output, row, body, before, result>>
        /\ disk' = [disk EXCEPT ![TmpOf(output)] = <<>>]
    BY <1>0, <1>1 DEF CreateTmp, Created, Missing, DownloadInv
  <2>2. /\ disk' \in [Path -> Seq(Part)] /\ disk'[TmpOf(output)] = <<>>
        /\ \A o \in Output : disk'[FileOf(o)] = disk[FileOf(o)]
    BY <1>0, <2>1, PathsDiffer, EmptySeq
  <2>. QED  BY <1>0, <2>1, <2>2 DEF ClientInv, DownloadInv, OutputIsWhole, BeforeRename
<1>2. CASE CopyPart
  <2>. DEFINE s == disk[TmpOf(output)]
  <2>1. /\ at = "copy" /\ at' = "copy" /\ output \in Output /\ body # <<>>
        /\ UNCHANGED <<output, row, before, result>> /\ body' = Tail(body)
        /\ disk' = [disk EXCEPT ![TmpOf(output)] = Append(s, Head(body))]
    BY <1>0, <1>2 DEF CopyPart, DownloadInv
  <2>2. s \in Seq(Part) /\ body \in Seq(Part) /\ s \o body \in Body
    BY <1>0, <2>1, PathsDiffer DEF DownloadInv
  <2>3. /\ Append(s, Head(body)) \in Seq(Part) /\ Tail(body) \in Seq(Part)
        /\ Append(s, Head(body)) \o Tail(body) = s \o body
    BY <2>1, <2>2, CopyMoves
  <2>. HIDE DEF s
  <2>4. /\ disk' \in [Path -> Seq(Part)] /\ disk'[TmpOf(output)] = Append(s, Head(body))
        /\ \A o \in Output : disk'[FileOf(o)] = disk[FileOf(o)]
    BY <1>0, <2>1, <2>3, PathsDiffer
  <2>. QED  BY <1>0, <2>1, <2>2, <2>3, <2>4 DEF ClientInv, DownloadInv, OutputIsWhole, BeforeRename
<1>3. CASE RenameTmp
  <2>1. /\ at = "rename" /\ at' = "entry" /\ output \in Output
        /\ UNCHANGED <<output, row, body, before, result>>
        /\ disk' = [disk EXCEPT ![TmpOf(output)] = <<>>, ![FileOf(output)] = disk[TmpOf(output)]]
    BY <1>0, <1>3 DEF RenameTmp, Missing, DownloadInv
  <2>2. disk[TmpOf(output)] \in Body /\ disk[TmpOf(output)] \in Seq(Part)
    BY <1>0, <2>1, PathsDiffer DEF DownloadInv
  <2>3. /\ disk' \in [Path -> Seq(Part)] /\ disk'[FileOf(output)] = disk[TmpOf(output)]
        /\ \A o \in Output : o # output => disk'[FileOf(o)] = disk[FileOf(o)]
    BY <1>0, <2>1, <2>2, PathsDiffer, EmptySeq
  <2>. QED  BY <1>0, <2>1, <2>2, <2>3, WholeType
            DEF ClientInv, DownloadInv, OutputIsWhole, BeforeRename
<1>4. ASSUME NEW o \in Output, NEW file \in Whole \ {ErrorPage}, Replace(o, file) PROVE ClientInv'
  <2>1. /\ at = "idle" /\ at' = "idle" /\ output = None /\ output' = None
        /\ disk' = [disk EXCEPT ![FileOf(o)] = file] /\ DOMAIN result' = Output
    BY <1>0, <1>4 DEF Replace, DownloadInv
  <2>2. /\ disk' \in [Path -> Seq(Part)] /\ disk'[FileOf(o)] = file
        /\ \A x \in Output : x # o => disk'[FileOf(x)] = disk[FileOf(x)]
    BY <1>0, <2>1, PathsDiffer, WholeType
  <2>3. DownloadInv'
    BY <2>1, <2>2 DEF DownloadInv, BeforeRename
  <2>4. OutputIsWhole'
    BY <1>0, <2>2 DEF OutputIsWhole
  <2>. QED  BY <2>3, <2>4 DEF ClientInv
<1>. QED  BY <1>1, <1>2, <1>3, <1>4

\* Every step is of one of the two kinds.
LEMMA NextClient == ClientInv /\ [Next]_vars => ClientInv'
  BY StillClient, WritingClient DEF Next

\* At whatever step ninja is killed or the connection is lost, and whatever a killed
\* ninja has left at the .tmp path: no output is ever a part of a file or of two files.
THEOREM OutputIsWholeHolds == Spec => []OutputIsWhole
<1>1. ClientInv => OutputIsWhole
  BY DEF ClientInv
<1>. QED  BY <1>1, InitClient, NextClient, PTL DEF Spec

\* A lookup that returns nil, after however much of a download, has left the output's
\* file as it found it: what the edge's command then replaces is not half a download.
THEOREM NilKeepsOutputHolds == Spec => NilKeepsOutput
<1>1. ASSUME ClientInv, [Next]_vars, NEW o \in Output, output = o, result'[o] = "nil", output' = None
      PROVE  disk'[FileOf(o)] = before
  <2>0. DownloadInv /\ None \notin Output
    BY <1>1, RbeClientAssumption DEF ClientInv
  <2>1. QueryFails \/ DownloadFails
    BY <1>1, <2>0 DEF Next, Lookup, Replace, QueryAnswers, ReturnEntry, Return, CreateTmp, GetFile,
       CopyPart, CopyDone, RenameTmp, Crash, vars, DownloadInv
  <2>2. at \in BeforeRename /\ disk' = disk
    BY <2>1 DEF QueryFails, DownloadFails, BeforeRename
  <2>. QED  BY <1>1, <2>0, <2>2 DEF DownloadInv
<1>2. ClientInv /\ [Next]_vars =>
        [\A o \in Output : output = o /\ result'[o] = "nil" /\ output' = None
                             => disk'[FileOf(o)] = before]_vars
  BY <1>1
<1>. QED  BY <1>2, InitClient, NextClient, PTL DEF Spec, NilKeepsOutput
=============================================================================
