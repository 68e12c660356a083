----------------------------- MODULE NinjaMain -----------------------------
(***************************************************************************)
(* real_main's loop: load the manifest, bring the manifest itself up to    *)
(* date, start over when that rebuilt it, and build the targets when it    *)
(* did not.  The manifest has one rule at most, which generates it from    *)
(* one source file, and is identified by the version of that source it     *)
(* was generated from.  Somebody edits the source now and then.            *)
(*                                                                         *)
(* The inside of a build is Builder's and DependencyScan's matter: here it *)
(* is the outcome of one edge, the manifest's, and of one RunBuild.        *)
(***************************************************************************)
EXTENDS Naturals, FiniteSets

CONSTANTS
    Version,     \* the versions of the source
    Worlds,      \* the surroundings explored; see World
    CycleLimit   \* kCycleLimit

\* "restat" and "plain" rules differ in that binding; neither is a generator.
Rule == {"none", "plain", "restat", "generator"}

\* rules: manifest -> the rule it has for itself; edits: what somebody may make of the
\* source, and racing, also between a command's reading and its end; cached: a remote
\* cache is in use; failing: stat of an input, or writing the response file, may fail.
World == [rules : [Version -> Rule], edits : SUBSET (Version \X Version),
          racing : BOOLEAN, cached : BOOLEAN, failing : BOOLEAN]

ASSUME NinjaMainAssumption == Worlds \subseteq World /\ CycleLimit \in Nat \ {0}

Exits == 0..2
Phase == {"load", "builddir", "buildlog", "depslog", "scan", "command", "run", "exit"}

VARIABLES
    world,     \* the surroundings; they do not change
    source,    \* the source on disk
    disk,      \* the manifest on disk
    loaded,    \* the manifest that State_ was parsed from
    cache,     \* the remote cache: hash of the input -> the output, once uploaded
    dry_run,   \* config.DryRun
    pc,        \* what real_main does next; see Phase
    cycle,
    scanned,   \* the source that the scan hashed, kept as the manifest node's mtime
    read,      \* what the running command has read
    happened,  \* history: in this cycle, rebuilding the manifest has "failed" or the cache's
               \* manifest was "downloaded"; in any, an edit has "raced" with a command
    edited,    \* history: edits since the start, up to CycleLimit
    exit_code,
    gave_up    \* the loop has run to its end

vars == <<world, source, disk, loaded, cache, dry_run, pc, cycle, scanned, read, happened,
          edited, exit_code, gave_up>>

TypeOK ==
    /\ {source, disk, loaded, scanned, read} \subseteq Version
    /\ cache \subseteq [hash : Version, output : Version]
    /\ \A a, b \in cache : a.hash = b.hash => a = b
    /\ dry_run \in BOOLEAN /\ gave_up \in BOOLEAN
    /\ happened \subseteq {"failed", "downloaded", "raced"}
    /\ pc \in Phase
    /\ cycle \in 1..(CycleLimit + 1) /\ edited \in 0..CycleLimit /\ exit_code \in Exits

\* Some earlier process has left the manifest, and another one may have filled the cache.
Init ==
    /\ world \in Worlds
    /\ source \in Version /\ disk \in Version
    /\ loaded = disk /\ scanned = source /\ read = source
    /\ cache = {} /\ dry_run \in BOOLEAN
    /\ pc = "load" /\ cycle = 1 /\ edited = 0
    /\ happened = {} /\ exit_code = 0 /\ gave_up = FALSE

Exit(status) ==
    /\ pc' = "exit" /\ exit_code' = status

-----------------------------------------------------------------------------
(* One cycle, up to RebuildManifest *)

\* A new NinjaMain; the one before it keeps its logs open.
Load ==
    /\ pc = "load" /\ cycle <= CycleLimit
    /\ loaded' = disk /\ pc' = "builddir" /\ happened' = happened \cap {"raced"}
    /\ UNCHANGED <<world, source, disk, cache, dry_run, cycle, scanned, read, edited, exit_code,
                   gave_up>>

StillDirty ==
    /\ pc = "load" /\ cycle > CycleLimit
    /\ Exit(1) /\ gave_up' = TRUE
    /\ UNCHANGED <<world, source, disk, loaded, cache, dry_run, cycle, scanned, read, happened,
                   edited>>

\* The phase that follows, when a step of the start succeeds.
GoOn(from, to) ==
    /\ pc = from /\ pc' = to
    /\ UNCHANGED <<world, source, disk, loaded, cache, dry_run, cycle, scanned, read, happened,
                   edited, exit_code, gave_up>>

EnsureBuildDirExists == GoOn("builddir", "buildlog")
\* Load reads nothing and OpenForWrite opens nothing, so that neither fails.
OpenBuildLog == GoOn("buildlog", "depslog")
OpenDepsLog == GoOn("depslog", "scan")

\* The manifest does not parse, the build directory cannot be made, or the deps log is
\* damaged.
StartupFails ==
    /\ \/ pc = "load" /\ cycle <= CycleLimit
       \/ pc = "builddir" /\ ~dry_run
       \/ pc = "depslog"
    /\ Exit(1)
    /\ UNCHANGED <<world, source, disk, loaded, cache, dry_run, cycle, scanned, read, happened,
                   edited, gave_up>>

-----------------------------------------------------------------------------
(* RebuildManifest *)

Hits == {entry \in cache : world.cached /\ entry.hash = source}

\* Mutant of Dirty: without an entry every rule is taken for a generator.
DirtyUnlessCommandChanged == FALSE

\* RecomputeOutputDirty for the manifest: this process's log has been opened anew and
\* knows nothing, so that only the cache can have an entry.
Dirty == Hits = {} /\ world.rules[loaded] # "generator"

\* AddTarget2 leaves the manifest clean, or there is no rule for it.  An entry of the
\* cache is downloaded when the file on disk is another.
UpToDate ==
    /\ pc = "scan" /\ (world.rules[loaded] = "none" \/ ~Dirty)
    /\ pc' = "run" /\ scanned' = source
    /\ disk' = IF world.rules[loaded] = "none" \/ Hits = {} THEN disk
               ELSE (CHOOSE entry \in Hits : TRUE).output
    /\ happened' = IF disk' # disk THEN happened \cup {"downloaded"} ELSE happened
    /\ UNCHANGED <<world, source, loaded, cache, dry_run, cycle, read, edited, exit_code,
                   gave_up>>

\* Build starts the manifest's command, which reads the source; in a dry run it panics
\* before that.
StartRebuild ==
    /\ pc = "scan" /\ world.rules[loaded] # "none" /\ Dirty
    /\ scanned' = source /\ read' = source
    /\ IF dry_run THEN Exit(2) ELSE pc' = "command" /\ UNCHANGED exit_code
    /\ UNCHANGED <<world, source, disk, loaded, cache, dry_run, cycle, happened, edited, gave_up>>

\* Mutant of Recorded: nothing is uploaded.
RecordedNothing == cache

\* StatNode hashes the inputs of a node that has an edge, so that the time that is recorded
\* is the hash of the source as it is when the command has ended.  The cache keeps what it
\* has.
Recorded ==
    IF ~world.cached \/ Hits # {} THEN cache
    ELSE cache \cup {[hash |-> source, output |-> read]}

\* The same hash tells a restat rule that its output did not change.
Cleaned == world.rules[loaded] = "restat" /\ source = scanned

\* Mutant of AfterRebuild: the build goes on with the manifest in memory.
AfterRebuildGoesOn == pc' = "run" /\ UNCHANGED cycle

\* RebuildManifest returns whether the node is dirty still, which a built node is unless a
\* restat has cleaned it; then the state is reset and the build goes on.
AfterRebuild ==
    IF Cleaned THEN pc' = "run" /\ UNCHANGED cycle
               ELSE pc' = "load" /\ cycle' = cycle + 1

FinishRebuild ==
    /\ pc = "command"
    /\ disk' = read /\ cache' = Recorded
    /\ AfterRebuild
    /\ UNCHANGED <<world, source, loaded, dry_run, scanned, read, happened, edited,
                   exit_code, gave_up>>

\* The command fails, which ends ninja in DoWork, or Build returns false with an error.
RebuildFails ==
    /\ \/ pc = "command"
       \/ pc = "scan" /\ world.rules[loaded] # "none"
    /\ Exit(1) /\ happened' = happened \cup {"failed"}
    /\ UNCHANGED <<world, source, disk, loaded, cache, dry_run, cycle, scanned, read, edited, gave_up>>

\* AddTarget2 or Build returns false and leaves err empty: stat fails, or the response file
\* cannot be written.  real_main takes that for "not rebuilt".
RebuildFailsSilently ==
    /\ world.failing /\ pc \in {"scan", "command"} /\ world.rules[loaded] # "none"
    /\ pc' = "run" /\ happened' = happened \cup {"failed"}
    /\ \/ UNCHANGED disk
       \/ pc = "command" /\ disk' = read
    /\ UNCHANGED <<world, source, loaded, cache, dry_run, cycle, scanned, read, edited, exit_code,
                   gave_up>>

-----------------------------------------------------------------------------
(* RunBuild and the world *)

\* 0 when there was no work or all of it succeeded, 1 when a target is unknown, the scan
\* reports an error, or the build stops; a dry run with work to do panics.
RunBuild ==
    /\ pc = "run"
    /\ \E status \in Exits : (status = 2 => dry_run) /\ Exit(status)
    /\ UNCHANGED <<world, source, disk, loaded, cache, dry_run, cycle, scanned, read, happened,
                   edited, gave_up>>

\* Somebody edits the source; what happens after RunBuild has begun is its own matter.
Edit ==
    /\ pc \notin {"run", "exit"} /\ (pc = "command" => world.racing)
    /\ \E v \in Version : <<source, v>> \in world.edits /\ source' = v
    /\ edited' = IF edited = CycleLimit THEN edited ELSE edited + 1
    /\ happened' = IF pc = "command" THEN happened \cup {"raced"} ELSE happened
    /\ UNCHANGED <<world, disk, loaded, cache, dry_run, pc, cycle, scanned, read, exit_code,
                   gave_up>>

Main == \/ Load \/ StillDirty \/ StartupFails
        \/ EnsureBuildDirExists \/ OpenBuildLog \/ OpenDepsLog
        \/ UpToDate \/ StartRebuild \/ FinishRebuild \/ RebuildFails \/ RebuildFailsSilently
        \/ RunBuild

Ended == pc = "exit" /\ UNCHANGED vars

Next == Main \/ Edit \/ Ended

\* ninja runs, and its commands end.
Spec == Init /\ [][Next]_vars /\ WF_vars(Main)

-----------------------------------------------------------------------------
(* Properties *)

\* Targets are built by the manifest that is on disk, one that was generated having been
\* loaded first; there are three ways to another: a restat rule tells real_main that it was
\* not rebuilt, the scan downloads one behind its back, and a rebuild fails silently.
LoadedIsOnDisk ==
    pc = "run" /\ loaded # disk =>
        world.rules[loaded] = "restat" \/ happened \cap {"downloaded", "failed"} # {}

\* When the targets are built, the manifest on disk is the one that the source gives, as it
\* was when the scan looked at it, unless a rebuild has failed silently or an edit has come
\* between what a command read and the hash that was recorded for it.
ManifestIsCurrent ==
    pc = "run" /\ world.rules[loaded] \notin {"none", "generator"} /\ disk # scanned =>
        happened \cap {"failed", "raced"} # {}

\* The loop runs to its end only if somebody kept editing the source, or if nothing knows
\* that the manifest was rebuilt: its log is empty, it has no restat, there is no cache.
GivesUpOnlyIfEdited ==
    gave_up =>
        edited >= CycleLimit - 1 \/ (~world.cached /\ \E v \in Version : world.rules[v] = "plain")

=============================================================================
