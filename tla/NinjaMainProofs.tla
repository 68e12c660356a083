-------------------------- MODULE NinjaMainProofs --------------------------
(***************************************************************************)
(* real_main's loop, for every set of surroundings, number of versions of  *)
(* the manifest's source, and cycle limit: which manifest the targets are  *)
(* built by, and when the loop gives up.                                   *)
(***************************************************************************)
EXTENDS NinjaMain, TLAPS

\* Between the load of a manifest and the end of its rebuilding.
Starting == {"builddir", "buildlog", "depslog", "scan", "command"}

\* The types that the proofs need.
MainTypeOK ==
    /\ world \in World
    /\ {source, disk, loaded, scanned, read} \subseteq Version
    /\ cache \subseteq [hash : Version, output : Version]
    /\ cycle \in Nat /\ edited \in Nat /\ edited <= CycleLimit

\* Until the targets are built the manifest in memory is the one on disk; a command that
\* runs has read what the scan saw; and what the cache knows of a source was made from it.
\* Each holds but for what |happened| tells.
ManifestInv ==
    /\ pc \in Starting => loaded = disk
    /\ pc = "command" => read = scanned /\ (source = read \/ "raced" \in happened)
    /\ \A entry \in cache : entry.hash = entry.output \/ "raced" \in happened
    /\ LoadedIsOnDisk /\ ManifestIsCurrent

\* How many cycles there have been for the edits that were made.  With a cache the source
\* is looked up as it is now, so that one rebuild more than edits is possible only if the
\* last one is in the cache; without, only restat rules come to an end, and they start
\* over when the source has changed under the command.
NoEnd == ~world.cached /\ \E v \in Version : world.rules[v] = "plain"

\* The cycles fit the edits.
CyclesFit ==
    IF world.cached
    THEN cycle <= edited + (IF Hits = {} \/ pc = "command" THEN 1 ELSE 2)
    ELSE cycle <= edited + (IF pc = "command" /\ source # scanned THEN 0 ELSE 1)

\* They do so as long as fewer edits were made than the limit, if the world has an end.
CycleInv ==
    /\ edited = CycleLimit \/ NoEnd \/ CyclesFit
    /\ ~world.cached /\ pc = "command" => world.rules[loaded] \in {"plain", "restat"}
    /\ GivesUpOnlyIfEdited

\* The inductive invariant.
MainInv == MainTypeOK /\ ManifestInv /\ CycleInv

\* Before the first cycle nothing has happened.
LEMMA InitMain == Init => MainInv
<1>1. SUFFICES ASSUME Init PROVE MainInv
  OBVIOUS
<1>2. MainTypeOK
  BY <1>1, NinjaMainAssumption DEF Init, MainTypeOK
<1>3. ManifestInv
  BY <1>1 DEF Init, ManifestInv, Starting, LoadedIsOnDisk, ManifestIsCurrent
<1>4. CycleInv
  BY <1>1 DEF Init, CycleInv, CyclesFit, GivesUpOnlyIfEdited
<1>. QED  BY <1>2, <1>3, <1>4 DEF MainInv

\* The types, step by step.
LEMMA NextMainType == MainTypeOK /\ [Next]_vars => MainTypeOK'
<1>1. SUFFICES ASSUME MainTypeOK, [Next]_vars PROVE MainTypeOK'
  OBVIOUS
<1>2. CASE Load \/ StillDirty \/ StartupFails \/ RunBuild \/ Ended \/ UNCHANGED vars
  BY <1>1, <1>2 DEF Load, StillDirty, StartupFails, RunBuild, Exit, Ended, vars, MainTypeOK
<1>3. CASE EnsureBuildDirExists \/ OpenBuildLog \/ OpenDepsLog
  BY <1>1, <1>3 DEF EnsureBuildDirExists, OpenBuildLog, OpenDepsLog, GoOn, MainTypeOK
<1>4. CASE UpToDate
  <2>1. Hits # {} => (CHOOSE entry \in Hits : TRUE) \in Hits
    OBVIOUS
  <2>2. disk' \in Version
    BY <1>1, <1>4, <2>1 DEF UpToDate, Hits, MainTypeOK
  <2>. QED  BY <1>1, <1>4, <2>2 DEF UpToDate, MainTypeOK
<1>5. CASE StartRebuild \/ RebuildFails \/ RebuildFailsSilently
  BY <1>1, <1>5 DEF StartRebuild, RebuildFails, RebuildFailsSilently, Exit, MainTypeOK
<1>6. CASE FinishRebuild
  BY <1>1, <1>6 DEF FinishRebuild, Recorded, AfterRebuild, MainTypeOK
<1>7. CASE Edit
  BY <1>1, <1>7, NinjaMainAssumption DEF Edit, MainTypeOK
<1>. QED  BY <1>1, <1>2, <1>3, <1>4, <1>5, <1>6, <1>7 DEF Next, Main

\* An entry that a scan finds is one of the cache's for the source as it is.
LEMMA HitFound ==
    ASSUME Hits # {}
    PROVE  /\ (CHOOSE entry \in Hits : TRUE) \in cache
           /\ (CHOOSE entry \in Hits : TRUE).hash = source
  BY DEF Hits

\* The manifest, step by step.
LEMMA NextManifest ==
    ASSUME MainTypeOK, MainTypeOK', ManifestInv, [Next]_vars
    PROVE  ManifestInv'
<1>1. CASE Load
  BY <1>1 DEF Load, ManifestInv, Starting, LoadedIsOnDisk, ManifestIsCurrent
<1>2. CASE StillDirty \/ StartupFails \/ RunBuild \/ RebuildFails
  BY <1>2 DEF StillDirty, StartupFails, RunBuild, RebuildFails, Exit, ManifestInv, Starting,
              LoadedIsOnDisk, ManifestIsCurrent
<1>3. CASE EnsureBuildDirExists \/ OpenBuildLog \/ OpenDepsLog \/ Ended \/ UNCHANGED vars
  BY <1>3 DEF EnsureBuildDirExists, OpenBuildLog, OpenDepsLog, GoOn, Ended, vars, ManifestInv,
              Starting, LoadedIsOnDisk, ManifestIsCurrent
<1>4. CASE UpToDate
  <2>1. /\ pc = "scan" /\ pc' = "run" /\ scanned' = source /\ loaded = disk
        /\ UNCHANGED <<world, source, loaded, cache>> /\ happened \subseteq happened'
        /\ disk' # disk => "downloaded" \in happened'
    BY <1>4 DEF UpToDate, ManifestInv, Starting
  <2>2. ASSUME world.rules[loaded] \notin {"none", "generator"}, "raced" \notin happened'
        PROVE  disk' = source
    <3>1. Hits # {} /\ disk' = (CHOOSE entry \in Hits : TRUE).output
      BY <1>4, <2>2 DEF UpToDate, Dirty
    <3>. QED  BY <2>1, <2>2, <3>1, HitFound DEF ManifestInv
  <2>. QED  BY <2>1, <2>2 DEF ManifestInv, Starting, LoadedIsOnDisk, ManifestIsCurrent
<1>5. CASE StartRebuild
  BY <1>5 DEF StartRebuild, Exit, ManifestInv, Starting, LoadedIsOnDisk, ManifestIsCurrent
<1>6. CASE FinishRebuild
  <2>1. /\ pc = "command" /\ pc' \in {"run", "load"} /\ disk' = read /\ read = scanned
        /\ UNCHANGED <<world, loaded, scanned, happened>>
        /\ pc' = "run" => world.rules[loaded] = "restat"
        /\ source = read \/ "raced" \in happened
    BY <1>6 DEF FinishRebuild, AfterRebuild, Cleaned, ManifestInv
  <2>2. \A entry \in cache' : entry.hash = entry.output \/ "raced" \in happened
    BY <1>6, <2>1 DEF FinishRebuild, Recorded, ManifestInv
  <2>. QED  BY <2>1, <2>2 DEF ManifestInv, Starting, LoadedIsOnDisk, ManifestIsCurrent
<1>7. CASE RebuildFailsSilently
  BY <1>7 DEF RebuildFailsSilently, ManifestInv, Starting, LoadedIsOnDisk, ManifestIsCurrent
<1>8. CASE Edit
  BY <1>8 DEF Edit, ManifestInv, Starting, LoadedIsOnDisk, ManifestIsCurrent
<1>. QED  BY <1>1, <1>2, <1>3, <1>4, <1>5, <1>6, <1>7, <1>8 DEF Next, Main

\* The cycles, step by step.
LEMMA NextCycles ==
    ASSUME MainTypeOK, MainTypeOK', ManifestInv, CycleInv, [Next]_vars
    PROVE  CycleInv'
<1>0. /\ cycle \in Nat /\ edited \in Nat /\ edited <= CycleLimit /\ CycleLimit \in Nat
      /\ world.rules[loaded] \in Rule /\ (NoEnd' <=> NoEnd) /\ UNCHANGED world
      /\ world.rules[loaded] = "plain" /\ ~world.cached => NoEnd
  <2>1. UNCHANGED world
    BY DEF Next, Main, Load, StillDirty, StartupFails, EnsureBuildDirExists, OpenBuildLog,
           OpenDepsLog, GoOn, UpToDate, StartRebuild, FinishRebuild, RebuildFails,
           RebuildFailsSilently, RunBuild, Edit, Ended, vars
  <2>. QED  BY <2>1, NinjaMainAssumption DEF MainTypeOK, World, NoEnd
<1>1. ASSUME UNCHANGED <<source, cache, cycle, edited, gave_up>>, pc' # "command", pc # "command"
      PROVE  CycleInv'
  <2>1. Hits' = Hits
    BY <1>0, <1>1 DEF Hits
  <2>. QED  BY <1>0, <1>1, <2>1 DEF CycleInv, CyclesFit, GivesUpOnlyIfEdited, NoEnd
<1>2. ASSUME UNCHANGED <<source, cache, cycle, edited, gave_up>>, pc' # "command", pc = "command"
      PROVE  CycleInv'
  <2>1. Hits' = Hits
    BY <1>0, <1>2 DEF Hits
  <2>. QED  BY <1>0, <1>2, <2>1 DEF CycleInv, CyclesFit, GivesUpOnlyIfEdited, NoEnd
<1>3. CASE \/ Load \/ StartupFails \/ EnsureBuildDirExists \/ OpenBuildLog \/ OpenDepsLog
           \/ UpToDate \/ RebuildFails \/ RebuildFailsSilently \/ RunBuild
  <2>1. UNCHANGED <<source, cache, cycle, edited, gave_up>> /\ pc' # "command"
    BY <1>3 DEF Load, StartupFails, EnsureBuildDirExists, OpenBuildLog, OpenDepsLog, GoOn,
       UpToDate, RebuildFails, RebuildFailsSilently, RunBuild, Exit
  <2>. QED  BY <1>1, <1>2, <2>1
<1>4. CASE Ended \/ UNCHANGED vars
  BY <1>0, <1>4 DEF Ended, vars, CycleInv, CyclesFit, GivesUpOnlyIfEdited, NoEnd, Hits
<1>5. CASE StillDirty
  <2>1. /\ cycle > CycleLimit /\ UNCHANGED <<source, cache, cycle, edited>> /\ pc' = "exit"
        /\ pc = "load"
    BY <1>5 DEF StillDirty, Exit
  <2>2. edited >= CycleLimit - 1 \/ NoEnd
    BY <1>0, <2>1 DEF CycleInv, CyclesFit
  <2>3. Hits' = Hits
    BY <1>0, <2>1 DEF Hits
  <2>. QED  BY <1>0, <2>1, <2>2, <2>3 DEF CycleInv, CyclesFit, GivesUpOnlyIfEdited, NoEnd
<1>6. CASE StartRebuild
  <2>1. /\ UNCHANGED <<source, cache, cycle, edited, gave_up, loaded>> /\ pc = "scan"
        /\ scanned' = source /\ Hits = {} /\ world.rules[loaded] \in {"plain", "restat"}
    BY <1>0, <1>6 DEF StartRebuild, Exit, Dirty, Rule
  <2>2. Hits' = Hits
    BY <1>0, <2>1 DEF Hits
  <2>. QED  BY <1>0, <2>1, <2>2 DEF CycleInv, CyclesFit, GivesUpOnlyIfEdited, NoEnd
<1>7. CASE FinishRebuild
  <2>1. /\ pc = "command" /\ pc' # "command" /\ UNCHANGED <<source, edited, gave_up>>
        /\ cache' = Recorded /\ cycle' \in {cycle, cycle + 1}
        /\ cycle' = cycle \/ ~(world.rules[loaded] = "restat" /\ source = scanned)
    BY <1>7 DEF FinishRebuild, AfterRebuild, Cleaned
  <2>2. ASSUME world.cached PROVE Hits' # {}
    <3>1. \E entry \in cache' : entry.hash = source
      <4>1. CASE Hits # {}
        BY <2>1, <2>2, <4>1 DEF Recorded, Hits
      <4>2. CASE Hits = {}
        <5>1. [hash |-> source, output |-> read] \in cache'
          BY <2>1, <2>2, <4>2 DEF Recorded
        <5>. QED  BY <5>1
      <4>. QED  BY <4>1, <4>2
    <3>. QED  BY <1>0, <2>1, <2>2, <3>1 DEF Hits
  <2>3. ASSUME ~world.cached, ~NoEnd, cycle' = cycle + 1 PROVE source # scanned
    BY <1>0, <2>1, <2>3 DEF CycleInv
  <2>. QED  BY <1>0, <2>1, <2>2, <2>3 DEF CycleInv, CyclesFit, GivesUpOnlyIfEdited, NoEnd
<1>8. CASE Edit
  <2>1. /\ UNCHANGED <<cache, cycle, gave_up, pc, loaded, scanned>>
        /\ edited' = IF edited = CycleLimit THEN edited ELSE edited + 1
    BY <1>8 DEF Edit
  <2>. QED  BY <1>0, <2>1 DEF CycleInv, CyclesFit, GivesUpOnlyIfEdited, NoEnd
<1>. QED  BY <1>3, <1>4, <1>5, <1>6, <1>7, <1>8 DEF Next, Main

\* Every step of the loop, of the rebuild and of an editor keeps it.
LEMMA NextMain == MainInv /\ [Next]_vars => MainInv'
  BY NextMainType, NextManifest, NextCycles DEF MainInv

\* So it always holds.
LEMMA MainHolds == Spec => []MainInv
  BY InitMain, NextMain, PTL DEF Spec

\* The targets are built by the manifest that is on disk, but for the three ways that the
\* property names.
THEOREM LoadedIsOnDiskHolds == Spec => []LoadedIsOnDisk
<1>1. MainInv => LoadedIsOnDisk
  BY DEF MainInv, ManifestInv
<1>. QED  BY <1>1, MainHolds, PTL

\* That manifest is the one that the source gives, unless a rebuild has failed silently or
\* somebody has edited the source while it was read.
THEOREM ManifestIsCurrentHolds == Spec => []ManifestIsCurrent
<1>1. MainInv => ManifestIsCurrent
  BY DEF MainInv, ManifestInv
<1>. QED  BY <1>1, MainHolds, PTL

\* For every cycle limit: the loop runs to its end only when the source was edited that
\* often, or when there is neither a cache nor a restat binding to tell that the manifest
\* has been rebuilt.
THEOREM GivesUpOnlyIfEditedHolds == Spec => []GivesUpOnlyIfEdited
<1>1. MainInv => GivesUpOnlyIfEdited
  BY DEF MainInv, CycleInv
<1>. QED  BY <1>1, MainHolds, PTL
=============================================================================
