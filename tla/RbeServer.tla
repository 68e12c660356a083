------------------------------ MODULE RbeServer ------------------------------
(***************************************************************************)
(* The remote cache server, ninja-rbe: a directory of files and a database *)
(* of rows that says what they are.  An upload looks for the row, writes   *)
(* the file, inserts the row and then the rows of its deps; a cleaning     *)
(* looks for expired rows, removes a path for each and marks them deleted. *)
(* Requests run concurrently, a cleaning that lasts longer than its        *)
(* interval overlaps with the next, every statement of the database and    *)
(* every call on a file may fail, and the server may die at any step.      *)
(*                                                                         *)
(* A key stands for what HashEntry hashes: two uploads of one key are of   *)
(* the same entry, and of the same file.  SQLite executes a statement at a *)
(* time (external).  /query reads the rows and changes nothing; what it    *)
(* tells a client is no name of a file (see the README), and no property   *)
(* says that a client finds one.                                           *)
(***************************************************************************)
EXTENDS Integers, FiniteSets, FiniteSetsExt

CONSTANTS
    Key,             \* the entries clients have, by the hash that HashEntry gives them
    Root,            \* the empty hash: joined to the directory it is the directory itself
    CommandOf,       \* key -> command_hash
    OutputHashOf,    \* key -> the output hash that the client sends, of which nothing is
                     \* known: it may be empty, or the name of a file
    HasDeps,         \* the keys whose entry has deps
    DurationOf,      \* key -> what "expired_duration" parses to, in seconds
    Unit,            \* time.Duration counts Unit to a second
    Limit,           \* the most rows a cleaning looks at (2000)
    Parts,           \* a file is written in so many parts
    Client, Cleaner, \* goroutines of the two kinds
    MaxTime, MaxUploads, MaxCrashes   \* bounds

ASSUME RbeServerAssumption ==
    /\ Key # {}
    /\ DurationOf \in [Key -> Nat] /\ Unit \in Nat \ {0}
    /\ HasDeps \subseteq Key
    /\ Limit \in Nat \ {0} /\ Parts \in Nat \ {0}
    /\ MaxTime \in Nat /\ MaxUploads \in Nat /\ MaxCrashes \in Nat

VARIABLES
    store,         \* key -> the parts that the file of that name has; none if there is no file
    rootThere,     \* fsRootDir is there
    rows,          \* the table log_entry; a row's id is its position in the table
    deps,          \* the ids that have rows in the table deps_entry
    upload,        \* client -> [at, key, part, linked], its request: how many parts it has
                   \* written, and whether the file it writes still has its name
    clean,         \* cleaner -> [at, todo, done]: where it is, rows to do, ids done
    cleanRunning,
    now, uploads, crashes,
    \* history:
    torn,          \* keys whose file, another's too, an upload began to write and did not end
    removed,       \* keys whose file a cleaning removed, and that no upload has begun since
    cut            \* the ids whose deps were not inserted

counts == <<now, uploads, crashes>>
table == <<rows, deps, cut>>
cleaning == <<clean, cleanRunning>>
directory == <<store, rootThere, torn, removed>>
vars == <<store, rootThere, rows, deps, upload, clean, cleanRunning, now, uploads, crashes,
          torn, removed, cut>>

Id == DOMAIN rows
Part == 1..Parts
Row == [key : Key, deleted : BOOLEAN, last_access : Nat, expired_duration : Nat]
Idle == [at |-> "idle", todo |-> {}, done |-> {}]
Place(at, k) == [at |-> at, key |-> k, part |-> 0, linked |-> FALSE]

Writing(k) == [at |-> "copy", key |-> k, part |-> 0, linked |-> TRUE]

Upload == [at : {"none", "check", "create", "copy", "insert", "deps", "success", "exists",
                 "error"},
           key : Key, part : 0..Parts, linked : BOOLEAN]

TypeOK ==
    /\ store \in [Key -> SUBSET Part] /\ rootThere \in BOOLEAN
    /\ rows \in [1..Cardinality(Id) -> Row] /\ deps \subseteq Id /\ cut \subseteq Id
    /\ upload \in [Client -> Upload]
    /\ \A c \in Cleaner : /\ clean[c].at \in {"idle", "set", "find", "remove"}
                          /\ clean[c].todo \cup clean[c].done \subseteq Id
    /\ cleanRunning \in BOOLEAN
    /\ torn \subseteq Key /\ removed \subseteq Key

Init ==
    /\ store = [k \in Key |-> {}] /\ rootThere = TRUE
    /\ rows = << >> /\ deps = {}
    /\ upload = [c \in Client |-> Place("none", CHOOSE k \in Key : TRUE)]
    /\ clean = [c \in Cleaner |-> Idle] /\ cleanRunning = FALSE
    /\ now = 0 /\ uploads = 0 /\ crashes = 0
    /\ torn = {} /\ removed = {} /\ cut = {}

-----------------------------------------------------------------------------
(* HandleUpload *)

Live(k) == \E i \in Id : rows[i].key = k /\ ~rows[i].deleted

HasRow(k) == \E i \in Id : rows[i].key = k

At(c, at) == upload[c].at = at

\* The request goes on at another place, without a file.
GoTo(c, at) == upload' = [upload EXCEPT ![c] = Place(at, @.key)]

Request(c, k) ==
    /\ upload[c].at \in {"none", "success", "exists", "error"} /\ uploads < MaxUploads
    /\ uploads' = uploads + 1
    /\ upload' = [upload EXCEPT ![c] = Place("check", k)]
    /\ UNCHANGED <<directory, table, cleaning, now, crashes>>

\* CheckEntryExist leaves out deleted rows.
CheckEntryExist(c) ==
    /\ At(c, "check")
    /\ \/ GoTo(c, IF Live(upload[c].key) THEN "exists" ELSE "create")
       \/ GoTo(c, "error")
    /\ UNCHANGED <<directory, table, cleaning, counts>>

\* Mutant of SaveFailed: the error of SaveMultipartFile is not looked at.
SaveFailedIgnored == "insert"

SaveFailed == "error"

\* SaveMultipartFile in three steps.  A small file is created, which empties the one that
\* has the name, and copied.  A hash of raw bytes may be no name for a file, and once the
\* directory has been removed nothing creates it again.
Create(c) ==
    LET k == upload[c].key IN
    /\ At(c, "create")
    /\ \/ /\ rootThere
          /\ store' = [store EXCEPT ![k] = {}]
          /\ torn' = torn \ {k} /\ removed' = removed \ {k}
          /\ upload' = [upload EXCEPT ![c] = Writing(k)]
       \/ GoTo(c, SaveFailed) /\ UNCHANGED <<store, torn, removed>>
    /\ UNCHANGED <<rootThere, table, cleaning, counts>>

\* A part goes to the file that was opened, which may have lost its name.  Closing it
\* after the last one may fail as well.
Copy(c) ==
    LET k == upload[c].key
        n == upload[c].part + 1
    IN
    /\ At(c, "copy")
    /\ store' = IF upload[c].linked THEN [store EXCEPT ![k] = @ \cup {n}] ELSE store
    /\ IF n < Parts THEN upload' = [upload EXCEPT ![c].part = n]
                    ELSE GoTo(c, "insert") \/ GoTo(c, SaveFailed)
    /\ UNCHANGED <<rootThere, torn, removed, table, cleaning, counts>>

\* The file of a key is another's too: of a row, or of an upload that has begun it.
Shared(c, k) ==
    \/ HasRow(k)
    \/ \E d \in Client \ {c} : upload[d].key = k /\ upload[d].at \in {"copy", "insert"}

CopyFails(c) ==
    LET k == upload[c].key IN
    /\ At(c, "copy")
    /\ torn' = torn \cup (IF Shared(c, k) THEN {k} ELSE {})
    /\ GoTo(c, SaveFailed)
    /\ UNCHANGED <<store, rootThere, removed, table, cleaning, counts>>

\* Files lose their names; who is writing them writes to no file of the store.
Unlinked(K) == [d \in Client |-> IF upload[d].key \in K THEN [upload[d] EXCEPT !.linked = FALSE]
                                 ELSE upload[d]]

\* SaveMultipartFile of a file that the form reader has put on the disk: it is renamed.
Rename(c) ==
    LET k == upload[c].key IN
    /\ At(c, "create") /\ rootThere
    /\ store' = [store EXCEPT ![k] = Part]
    /\ torn' = torn \ {k} /\ removed' = removed \ {k}
    /\ upload' = [Unlinked({k}) EXCEPT ![c] = Place("insert", k)]
    /\ UNCHANGED <<rootThere, table, cleaning, counts>>

\* The unique indexes of params_hash and of command_hash, which cover deleted rows too.
Unique(k) == \A i \in Id : rows[i].key # k /\ CommandOf[rows[i].key] # CommandOf[k]

NewRow(k) == [key |-> k, deleted |-> FALSE, last_access |-> now,
              expired_duration |-> DurationOf[k] * Unit]

\* Mutant of Refused: an insertion that fails is answered with success.
RefusedSilently == "success"

Refused == "error"

\* The first half of SaveLogEntry.  DB.Create is outside the transaction, and the row
\* is there at once.
InsertRow(c) ==
    LET k == upload[c].key IN
    /\ At(c, "insert")
    /\ \/ /\ Unique(k)
          /\ rows' = [i \in 1..Cardinality(Id) + 1 |-> IF i \in Id THEN rows[i] ELSE NewRow(k)]
          /\ GoTo(c, "deps")
       \/ UNCHANGED rows /\ GoTo(c, Refused)
    /\ UNCHANGED <<directory, deps, cut, cleaning, counts>>

IdsOf(k) == {i \in Id : rows[i].key = k}

\* The second half.  Create of an empty slice is an error.
InsertDeps(c) ==
    LET k == upload[c].key IN
    /\ At(c, "deps")
    /\ \/ /\ k \in HasDeps
          /\ deps' = deps \cup IdsOf(k) /\ GoTo(c, "success") /\ UNCHANGED cut
       \/ cut' = cut \cup IdsOf(k) /\ GoTo(c, "error") /\ UNCHANGED deps
    /\ UNCHANGED <<directory, rows, cleaning, counts>>

-----------------------------------------------------------------------------
(* The download of a file *)

\* UpdateRecordLastAccess touches the row of the name, deleted or not, whether or not
\* fsHandler has found a file.  A name that is no key touches none.
Download(k) ==
    /\ rows' = [i \in Id |-> IF rows[i].key = k THEN [rows[i] EXCEPT !.last_access = now]
                             ELSE rows[i]]
    /\ UNCHANGED <<directory, deps, cut, upload, cleaning, counts>>

-----------------------------------------------------------------------------
(* cleanTask *)

Expired(i) == rows[i].last_access + rows[i].expired_duration < now

\* if cleanRunning.IsSet() { return }
CleanTest(c) ==
    /\ clean[c].at = "idle" /\ ~cleanRunning
    /\ clean' = [clean EXCEPT ![c].at = "set"]
    /\ UNCHANGED <<directory, table, upload, cleanRunning, counts>>

CleanSet(c) ==
    /\ clean[c].at = "set"
    /\ cleanRunning' = TRUE
    /\ clean' = [clean EXCEPT ![c].at = "find"]
    /\ UNCHANGED <<directory, table, upload, counts>>

\* Every return of cleanTask runs the deferred UnSet.
CleanReturns(c) ==
    /\ clean' = [clean EXCEPT ![c] = Idle]
    /\ cleanRunning' = FALSE

FindExpiredLogWithLimit(c) ==
    LET due == {i \in Id : ~rows[i].deleted /\ Expired(i)} IN
    /\ clean[c].at = "find"
    /\ \/ \E found \in SUBSET due :
            /\ found # {} /\ Cardinality(found) = Min({Cardinality(due), Limit})
            /\ clean' = [clean EXCEPT ![c] = [at |-> "remove", todo |-> found, done |-> {}]]
            /\ UNCHANGED cleanRunning
       \/ CleanReturns(c)                      \* nothing is expired, or an error
    /\ UNCHANGED <<directory, table, upload, counts>>

\* The files under the path that is removed for a row: the directory and the output hash.
PathOf(i) == IF OutputHashOf[rows[i].key] = Root THEN Key
             ELSE {OutputHashOf[rows[i].key]} \cap Key

\* RemoveAll succeeds also when there is no such file; when it fails, it may have removed
\* some of the files, and the row is left to the next cleaning.
RemoveAll(c, i) ==
    /\ clean[c].at = "remove" /\ i \in clean[c].todo
    /\ \E gone \in SUBSET PathOf(i), ok \in BOOLEAN :
         /\ ok => gone = PathOf(i)
         /\ store' = [k \in Key |-> IF k \in gone THEN {} ELSE store[k]]
         /\ rootThere' = (rootThere /\ (ok => OutputHashOf[rows[i].key] # Root))
         /\ removed' = removed \cup gone
         /\ upload' = Unlinked(gone)
         /\ clean' = [clean EXCEPT ![c] = [at |-> "remove", todo |-> @.todo \ {i},
                                           done |-> @.done \cup (IF ok THEN {i} ELSE {})]]
    /\ UNCHANGED <<torn, table, cleanRunning, counts>>

Cleaned(c) == clean[c].done

\* UpdateExpiredCleanResult in one statement, if a removal has succeeded.
CleanDone(c) ==
    /\ clean[c].at = "remove" /\ clean[c].todo = {}
    /\ \/ rows' = [i \in Id |-> IF i \in Cleaned(c) THEN [rows[i] EXCEPT !.deleted = TRUE]
                                ELSE rows[i]]
       \/ UNCHANGED rows                       \* nothing was removed, or an error
    /\ CleanReturns(c)
    /\ UNCHANGED <<directory, deps, cut, upload, counts>>

-----------------------------------------------------------------------------
(* The environment *)

Tick ==
    /\ now < MaxTime
    /\ now' = now + 1
    /\ UNCHANGED <<directory, table, upload, cleaning, uploads, crashes>>

\* The server dies and is started again: directory and database remain.  A request
\* without a body that is an entry has the same effect: HandleUpload goes on after
\* ParseLogEntry's error and dereferences the nil entry.
Crash ==
    /\ crashes < MaxCrashes
    /\ crashes' = crashes + 1
    /\ torn' = torn \cup {k \in Key : HasRow(k) /\ \E c \in Client : At(c, "copy") /\ upload[c].key = k}
    /\ cut' = cut \cup {i \in Id : \E c \in Client : At(c, "deps") /\ upload[c].key = rows[i].key}
    /\ upload' = [c \in Client |-> Place("none", upload[c].key)]
    /\ clean' = [c \in Cleaner |-> Idle] /\ cleanRunning' = FALSE
    /\ UNCHANGED <<store, rootThere, removed, rows, deps, now, uploads>>

Next ==
    \/ \E k \in Key : Download(k)
    \/ \E c \in Client : \/ \E k \in Key : Request(c, k)
                         \/ CheckEntryExist(c)
                         \/ Create(c) \/ Copy(c) \/ CopyFails(c) \/ Rename(c)
                         \/ InsertRow(c) \/ InsertDeps(c)
    \/ \E c \in Cleaner : \/ CleanTest(c) \/ CleanSet(c) \/ FindExpiredLogWithLimit(c)
                          \/ \E i \in Id : RemoveAll(c, i)
                          \/ CleanDone(c)
    \/ Tick \/ Crash

Spec == Init /\ [][Next]_vars

-----------------------------------------------------------------------------
(* Properties *)

\* The file of a row is whole, whatever raced with the upload that inserted it, failed or
\* died: or another upload of the entry is writing it again just now, or began to and did
\* not end, or a cleaning has removed it for a row whose output hash names it.
RowsFileIsWhole ==
    \A i \in Id : LET k == rows[i].key IN
        \/ store[k] = Part
        \/ \E c \in Client : At(c, "copy") /\ upload[c].key = k /\ upload[c].linked
        \/ k \in torn \cup removed

\* What is answered with HTTP 200 is in the tables.  The answer "success" says so of the
\* row and its deps; "already exists." says so of the row, and its deps are there too, or
\* on their way, or the upload that inserted the row failed or died before them.
SuccessIsStored ==
    \A c \in Client : upload[c].at \in {"success", "exists"} =>
        \E i \in IdsOf(upload[c].key) :
            \/ i \in deps
            \/ /\ At(c, "exists")
               /\ i \in cut \/ \E d \in Client : At(d, "deps") /\ upload[d].key = rows[i].key

=============================================================================
