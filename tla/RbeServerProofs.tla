-------------------------- MODULE RbeServerProofs --------------------------
(***************************************************************************)
(* What the rows and the answers of the cache server say of its directory  *)
(* and its tables, for any number of clients and cleanings that overlap as *)
(* they like, of errors, and of crashes between any two steps.             *)
(***************************************************************************)
EXTENDS RbeServer, FiniteSetTheorems, TLAPS

\* The table and the cleaners, more closely than TypeOK says.
RowsOK ==
    /\ rows \in [1..Cardinality(Id) -> Row] /\ Cardinality(Id) \in Nat
    /\ now \in Nat
    /\ DOMAIN clean = Cleaner
    /\ \A c \in Cleaner : clean[c] = [at |-> clean[c].at, todo |-> clean[c].todo, done |-> clean[c].done]

\* An upload that writes a file of k which still has its name, and in which everything it
\* has written so far is found.
Writes(c, k) ==
    /\ At(c, "copy") /\ upload[c].key = k /\ upload[c].linked
    /\ 1..upload[c].part \subseteq store[k]

Good(k) ==
    \/ store[k] = Part
    \/ \E c \in Client : Writes(c, k)
    \/ k \in torn \cup removed

\* Somebody relies on the file of k: a row, or an upload that has begun it.
Wanted(k) ==
    HasRow(k) \/ \E c \in Client : upload[c].key = k /\ upload[c].at \in {"copy", "insert"}

FilesOK == \A k \in Key : Wanted(k) => Good(k)

\* The row of an upload is there before its deps are, and before the answer.
AnswersOK ==
    /\ \A c \in Client :
         /\ upload[c].at \in {"deps", "exists"} => HasRow(upload[c].key)
         /\ At(c, "success") => \E i \in IdsOf(upload[c].key) : i \in deps
         /\ At(c, "copy") => upload[c].part < Parts

Coming(i) == \E d \in Client : At(d, "deps") /\ upload[d].key = rows[i].key

DepsOK == \A i \in Id : i \in deps \/ i \in cut \/ Coming(i)

\* The inductive invariant.
ServerInv == TypeOK /\ RowsOK /\ FilesOK /\ AnswersOK /\ DepsOK

Somewhere == {"none", "check", "create", "copy", "insert", "deps", "success", "exists", "error"}

LEMMA PlaceIs ==
    ASSUME NEW at \in Somewhere, NEW k \in Key
    PROVE  /\ Place(at, k) \in Upload
           /\ Place(at, k).at = at /\ Place(at, k).key = k /\ Place(at, k).part = 0
  BY RbeServerAssumption DEF Place, Upload, Somewhere

\* The server starts with an empty directory and an empty table.
LEMMA InitServer == Init => ServerInv
<1>1. SUFFICES ASSUME Init PROVE ServerInv
  OBVIOUS
<1>2. Id = {} /\ Cardinality(Id) = 0 /\ rows \in [1..0 -> Row]
  <2>1. rows = [i \in {} |-> 0] /\ 1..0 = {}
    BY <1>1, SMT DEF Init
  <2>. QED  BY <2>1, FS_EmptySet DEF Id
<1>3. (CHOOSE k \in Key : TRUE) \in Key
  BY RbeServerAssumption
<1>4. \A c \in Client : upload[c] = Place("none", CHOOSE k \in Key : TRUE)
  BY <1>1 DEF Init
<1>5. \A c \in Client : upload[c].at = "none" /\ upload[c] \in Upload
  BY <1>3, <1>4, PlaceIs DEF Somewhere
<1>6. TypeOK
  <2>1. upload \in [Client -> Upload]
    BY <1>1, <1>5 DEF Init
  <2>. QED  BY <1>1, <1>2, <2>1 DEF Init, TypeOK, Idle
<1>7. RowsOK
  BY <1>1, <1>2 DEF Init, RowsOK, Idle
<1>8. FilesOK
  BY <1>2, <1>5 DEF FilesOK, Wanted, HasRow
<1>9. AnswersOK /\ DepsOK
  BY <1>2, <1>5 DEF AnswersOK, DepsOK, At
<1>. QED  BY <1>6, <1>7, <1>8, <1>9 DEF ServerInv

\* What all steps keep: rows stay rows of their key, and deps stay.
Keeps ==
    /\ Id \subseteq Id' /\ \A i \in Id : rows'[i].key = rows[i].key
    /\ deps \subseteq deps' /\ cut \subseteq cut'

\* Such a step keeps what AnswersOK says of every request that it does not touch.
LEMMA RequestKept ==
    ASSUME ServerInv, Keeps, NEW c \in Client,
           upload'[c].at = upload[c].at, upload'[c].key = upload[c].key,
           upload'[c].part = upload[c].part
    PROVE  /\ upload'[c].at \in {"deps", "exists"} => HasRow(upload[c].key)'
           /\ At(c, "success")' => \E i \in IdsOf(upload[c].key)' : i \in deps'
           /\ At(c, "copy")' => upload'[c].part < Parts
<1>1. upload'[c].at \in {"deps", "exists"} => HasRow(upload[c].key)'
  BY DEF ServerInv, AnswersOK, Keeps, HasRow
<1>2. At(c, "success")' => \E i \in IdsOf(upload[c].key)' : i \in deps'
  BY DEF ServerInv, AnswersOK, Keeps, IdsOf, At
<1>3. At(c, "copy")' => upload'[c].part < Parts
  BY DEF ServerInv, AnswersOK, At
<1>. QED  BY <1>1, <1>2, <1>3

\* A step that leaves the table alone, or changes it row by row.
LEMMA SameRows ==
    ASSUME ServerInv,
           \/ UNCHANGED rows
           \/ \E f \in [Id -> Row] : rows' = [i \in Id |-> f[i]] /\ \A i \in Id : f[i].key = rows[i].key
    PROVE  /\ rows' \in [1..Cardinality(Id') -> Row] /\ Cardinality(Id') \in Nat
           /\ Id' = Id /\ \A i \in Id : rows'[i].key = rows[i].key
<1>1. rows \in [1..Cardinality(Id) -> Row] /\ Id = DOMAIN rows /\ Cardinality(Id) \in Nat
  BY DEF ServerInv, RowsOK, Id
<1>2. Id' = Id /\ \A i \in Id : rows'[i].key = rows[i].key
  BY <1>1 DEF Id
<1>3. Id = 1..Cardinality(Id)
  BY <1>1
<1>4. rows' \in [Id -> Row]
  BY <1>1, <1>3
<1>. QED  BY <1>1, <1>2, <1>3, <1>4

\* A step that touches neither a request nor a file, and no row but in what its key does
\* not depend on: downloads, most of a cleaning, and time.
LEMMA QuietServer ==
    ASSUME ServerInv, TypeOK', RowsOK', UNCHANGED <<directory, deps, cut, upload>>,
           Id' = Id, \A i \in Id : rows'[i].key = rows[i].key
    PROVE  ServerInv'
<1>1. UNCHANGED <<store, torn, removed>>
  BY DEF directory
<1>2. Keeps
  BY DEF Keeps
<1>3. \A k \in Key : (HasRow(k)' <=> HasRow(k))
  BY DEF HasRow
<1>4. FilesOK'
  <2>1. \A k \in Key : (Wanted(k)' <=> Wanted(k)) /\ (Good(k)' <=> Good(k))
    BY <1>1, <1>3 DEF Wanted, Good, Writes, At
  <2>. QED  BY <2>1 DEF ServerInv, FilesOK
<1>5. AnswersOK'
  BY <1>2, RequestKept DEF AnswersOK
<1>6. DepsOK'
  BY DEF ServerInv, DepsOK, Coming, At
<1>. QED  BY <1>4, <1>5, <1>6 DEF ServerInv

\* A request that writes no file goes on at a place where it writes none: the files stay
\* as good as they are, and are wanted by no more than before.
LEMMA FilesKept ==
    ASSUME ServerInv, NEW c \in Client, NEW r \in Upload,
           UNCHANGED <<store, torn, removed>>,
           \A k \in Key : HasRow(k)' => HasRow(k),
           upload' = [upload EXCEPT ![c] = r],
           ~At(c, "copy"), r.at \notin {"copy", "insert"}
    PROVE  FilesOK'
<1>1. upload \in [Client -> Upload]
  BY DEF ServerInv, TypeOK
<1>2. upload'[c] = r /\ \A d \in Client : d # c => upload'[d] = upload[d]
  BY <1>1
<1>3. ASSUME NEW k \in Key, Wanted(k)' PROVE Wanted(k)
  BY <1>2, <1>3 DEF Wanted
<1>4. ASSUME NEW k \in Key, Good(k) PROVE Good(k)'
  <2>1. \A d \in Client : Writes(d, k) => d # c
    BY DEF Writes
  <2>2. \A d \in Client : Writes(d, k) => Writes(d, k)'
    BY <1>2, <2>1 DEF Writes, At
  <2>. QED  BY <1>4, <2>2 DEF Good
<1>. QED  BY <1>3, <1>4 DEF ServerInv, FilesOK

\* The steps of a request that write no file and insert no row.
LEMMA RequestServer ==
    ASSUME ServerInv, NEW c \in Client,
           \/ \E k \in Key : Request(c, k)
           \/ CheckEntryExist(c)
           \/ Create(c) /\ upload'[c].at # "copy"
           \/ InsertRow(c) /\ UNCHANGED rows
           \/ InsertDeps(c)
    PROVE  ServerInv'
<1>0. /\ deps \subseteq Id /\ cut \subseteq Id /\ now \in Nat
      /\ upload \in [Client -> Upload] /\ upload[c].key \in Key
  BY DEF ServerInv, TypeOK, RowsOK, Upload
<1>1. /\ UNCHANGED <<rows, clean, cleanRunning, now>> /\ Id' = Id
      /\ UNCHANGED <<store, rootThere, torn, removed>>
  <2>1. CASE Create(c) /\ upload'[c].at # "copy"
    <3>1. ~(upload' = [upload EXCEPT ![c] = Writing(upload[c].key)])
      BY <1>0, <2>1 DEF Writing
    <3>. QED  BY <2>1, <3>1 DEF Create, table, cleaning, counts, Id
  <2>2. CASE InsertRow(c) /\ UNCHANGED rows
    BY <2>2 DEF InsertRow, directory, cleaning, counts, Id
  <2>3. CASE (\E k \in Key : Request(c, k)) \/ CheckEntryExist(c) \/ InsertDeps(c)
    BY <2>3 DEF Request, CheckEntryExist, InsertDeps, directory, table, cleaning, counts, Id
  <2>. QED  BY <2>1, <2>2, <2>3
<1>2. PICK at \in {"check", "exists", "create", "error", "success"}, k \in Key :
        /\ upload' = [upload EXCEPT ![c] = Place(at, k)]
        /\ at = "exists" => HasRow(k)
        /\ at = "success" => At(c, "deps") /\ k \in HasDeps /\ k = upload[c].key
                             /\ deps' = deps \cup IdsOf(k)
  <2>1. CASE \E k \in Key : Request(c, k)
    BY <2>1 DEF Request
  <2>2. CASE CheckEntryExist(c)
    BY <1>0, <2>2 DEF CheckEntryExist, GoTo, Live, HasRow
  <2>3. CASE Create(c) /\ upload'[c].at # "copy"
    <3>1. ~(upload' = [upload EXCEPT ![c] = Writing(upload[c].key)])
      BY <1>0, <2>3 DEF Writing
    <3>. QED  BY <1>0, <2>3, <3>1 DEF Create, GoTo, SaveFailed
  <2>4. CASE InsertRow(c) /\ UNCHANGED rows
    <3>1. ~(rows' = [i \in 1..Cardinality(Id) + 1 |->
                        IF i \in Id THEN rows[i] ELSE NewRow(upload[c].key)])
      <4>1. Id = 1..Cardinality(Id) /\ Cardinality(Id) \in Nat
        BY DEF ServerInv, RowsOK, Id
      <4>2. 1..Cardinality(Id) + 1 # Id
        BY <4>1
      <4>. QED  BY <2>4, <4>2 DEF Id
    <3>. QED  BY <1>0, <2>4, <3>1 DEF InsertRow, GoTo, Refused
  <2>5. CASE InsertDeps(c)
    BY <1>0, <2>5 DEF InsertDeps, GoTo
  <2>. QED  BY <2>1, <2>2, <2>3, <2>4, <2>5
<1>3. Place(at, k) \in Upload /\ Place(at, k).at = at /\ Place(at, k).key = k
  BY PlaceIs DEF Somewhere
<1>4. upload'[c] = Place(at, k) /\ \A d \in Client : d # c => upload'[d] = upload[d]
  BY <1>0, <1>2
<1>5. /\ deps \subseteq deps' /\ deps' \subseteq Id /\ cut \subseteq cut' /\ cut' \subseteq Id
      /\ \A i \in IdsOf(upload[c].key) : At(c, "deps") => i \in deps' \cup cut'
  BY <1>0 DEF Request, CheckEntryExist, Create, InsertRow, InsertDeps, table, IdsOf, At
<1>6. TypeOK' /\ RowsOK'
  <2>1. upload' \in [Client -> Upload]
    BY <1>0, <1>2, <1>3
  <2>. QED  BY <1>0, <1>1, <1>5, <2>1 DEF ServerInv, TypeOK, RowsOK
<1>7. Keeps
  BY <1>1, <1>5 DEF Keeps
<1>8. FilesOK'
  <2>1. ~At(c, "copy")
    BY DEF Request, CheckEntryExist, Create, InsertRow, InsertDeps, At
  <2>. QED  BY <1>1, <1>2, <1>3, <2>1, FilesKept DEF HasRow
<1>9. AnswersOK'
  <2>1. /\ upload'[c].at \in {"deps", "exists"} => HasRow(upload[c].key)'
        /\ At(c, "success")' => \E i \in IdsOf(upload[c].key)' : i \in deps'
        /\ At(c, "copy")' => upload'[c].part < Parts
    <3>1. at = "success" => HasRow(k)
      BY <1>2 DEF ServerInv, AnswersOK, At
    <3>. QED  BY <1>1, <1>2, <1>3, <1>4, <3>1 DEF At, HasRow, IdsOf
  <2>. QED  BY <1>4, <1>7, <2>1, RequestKept DEF AnswersOK, At, HasRow, IdsOf
<1>10. DepsOK'
  <2>1. SUFFICES ASSUME NEW i \in Id', ~(i \in deps'), ~(i \in cut')
                 PROVE  Coming(i)'
    BY DEF DepsOK
  <2>2. PICK d \in Client : At(d, "deps") /\ upload[d].key = rows[i].key
    BY <1>1, <1>5, <2>1 DEF ServerInv, DepsOK, Coming
  <2>3. d # c
    BY <1>1, <1>5, <2>1, <2>2 DEF IdsOf
  <2>. QED  BY <1>1, <1>4, <2>2, <2>3 DEF Coming, At
<1>. QED  BY <1>6, <1>8, <1>9, <1>10 DEF ServerInv

\* A step of a request that leaves the tables alone and goes on at a place that no answer
\* and no row depends on.
LEMMA WritingServer ==
    ASSUME ServerInv, NEW c \in Client, NEW r \in Upload,
           UNCHANGED <<table, cleaning, counts>>,
           store' \in [Key -> SUBSET Part], rootThere' \in BOOLEAN,
           torn' \subseteq Key, removed' \subseteq Key,
           upload' \in [Client -> Upload], upload'[c] = r,
           \A d \in Client : d # c => /\ upload'[d].at = upload[d].at
                                      /\ upload'[d].key = upload[d].key
                                      /\ upload'[d].part = upload[d].part,
           ~At(c, "deps"), r.at \in {"copy", "insert", "error"}, r.at = "copy" => r.part < Parts,
           FilesOK'
    PROVE  ServerInv'
<1>1. UNCHANGED <<rows, deps, cut, clean, cleanRunning, now>> /\ Id' = Id
  BY DEF table, cleaning, counts, Id
<1>2. TypeOK' /\ RowsOK' /\ Keeps
  BY <1>1 DEF ServerInv, TypeOK, RowsOK, Keeps
<1>3. AnswersOK'
  BY <1>2, RequestKept DEF AnswersOK, At
<1>4. DepsOK'
  BY <1>1 DEF ServerInv, DepsOK, Coming, At
<1>. QED  BY <1>2, <1>3, <1>4 DEF ServerInv

\* What a request wants and writes does not depend on another's step.
LEMMA OthersFiles ==
    ASSUME ServerInv, NEW c \in Client, NEW k \in Key, UNCHANGED rows,
           \A d \in Client : d # c => upload'[d] = upload[d] \/ upload[d].key = upload[c].key,
           \A d \in Client : upload'[d].key = upload[d].key,
           k # upload[c].key,
           store'[k] = store[k], k \in torn \cup removed => k \in torn' \cup removed',
           Wanted(k)'
    PROVE  Wanted(k) /\ Good(k)'
<1>1. Wanted(k)
  BY DEF Wanted, HasRow, Id
<1>2. Good(k)
  BY <1>1 DEF ServerInv, FilesOK
<1>3. \A d \in Client : Writes(d, k) => Writes(d, k)'
  BY DEF Writes, At
<1>. QED  BY <1>1, <1>2, <1>3 DEF Good

\* A file is created: it is empty, and it is being written.
LEMMA CreateServer ==
    ASSUME ServerInv, NEW c \in Client, Create(c), upload'[c].at = "copy"
    PROVE  ServerInv'
<1>. DEFINE k == upload[c].key
            r == Writing(k)
<1>0. /\ store \in [Key -> SUBSET Part] /\ torn \subseteq Key /\ removed \subseteq Key
      /\ upload \in [Client -> Upload] /\ k \in Key /\ rootThere \in BOOLEAN
      /\ Parts \in Nat /\ Parts > 0
  BY RbeServerAssumption DEF ServerInv, TypeOK, Upload
<1>1. /\ store' = [store EXCEPT ![k] = {}] /\ torn' = torn \ {k} /\ removed' = removed \ {k}
      /\ upload' = [upload EXCEPT ![c] = r] /\ UNCHANGED <<rootThere, table, cleaning, counts>>
      /\ At(c, "create")
  <2>1. ~(upload' = [upload EXCEPT ![c] = Place(SaveFailed, k)])
    BY <1>0 DEF Place, Writing, SaveFailed
  <2>. QED  BY <2>1 DEF Create, GoTo
<1>2. r \in Upload /\ r.at = "copy" /\ r.key = k /\ r.part = 0 /\ r.linked
  BY <1>0 DEF Writing, Upload
<1>. HIDE DEF r
<1>3. upload'[c] = r /\ \A d \in Client : d # c => upload'[d] = upload[d]
  BY <1>0, <1>1
<1>4. FilesOK'
  <2>1. SUFFICES ASSUME NEW m \in Key, Wanted(m)' PROVE Good(m)'
    BY DEF FilesOK
  <2>2. CASE m = k
    BY <1>0, <1>1, <1>2, <1>3, <2>2 DEF Good, Writes, At
  <2>3. CASE m # k
    BY <1>0, <1>1, <1>2, <1>3, <2>1, <2>3, OthersFiles DEF table
  <2>. QED  BY <2>2, <2>3
<1>. QED  BY <1>0, <1>1, <1>2, <1>3, <1>4, WritingServer DEF At

\* A part is written: to the file of the store if it is still linked.
LEMMA CopyServer ==
    ASSUME ServerInv, NEW c \in Client, Copy(c), NEW CONSTANT k \in Key, k = upload[c].key
    PROVE  ServerInv'
<1>. DEFINE n == upload[c].part + 1
<1>0. /\ store \in [Key -> SUBSET Part] /\ torn \subseteq Key /\ removed \subseteq Key
      /\ upload \in [Client -> Upload] /\ k \in Key /\ rootThere \in BOOLEAN
      /\ Parts \in Nat /\ upload[c].part \in 0..Parts /\ upload[c].linked \in BOOLEAN
  BY RbeServerAssumption DEF ServerInv, TypeOK, Upload
<1>1. /\ store' = IF upload[c].linked THEN [store EXCEPT ![k] = @ \cup {n}] ELSE store
      /\ UNCHANGED <<rootThere, torn, removed, table, cleaning, counts>> /\ At(c, "copy")
  BY DEF Copy
<1>2. n \in Part /\ upload[c].part < Parts
  BY <1>0, <1>1 DEF Part, ServerInv, AnswersOK
<1>3. PICK r \in Upload :
        /\ upload' = [upload EXCEPT ![c] = r] /\ r.key = k
        /\ \/ r.at \in {"insert", "error"} /\ n = Parts
           \/ r.at = "copy" /\ r.part = n /\ n < Parts /\ r.linked = upload[c].linked
  <2>1. CASE n < Parts
    <3>. DEFINE r == [upload[c] EXCEPT !.part = n]
    <3>1. r \in Upload /\ r.key = k /\ r.at = "copy" /\ r.part = n /\ r.linked = upload[c].linked
      BY <1>0, <1>1, <1>2 DEF Upload, At, Part
    <3>2. upload' = [upload EXCEPT ![c] = r]
      BY <2>1 DEF Copy
    <3>. QED  BY <2>1, <3>1, <3>2
  <2>2. CASE ~(n < Parts)
    <3>1. PICK at \in {"insert", "error"} : upload' = [upload EXCEPT ![c] = Place(at, k)]
      BY <1>0, <2>2 DEF Copy, GoTo, SaveFailed
    <3>2. Place(at, k) \in Upload /\ Place(at, k).at = at /\ Place(at, k).key = k
      BY <1>0, PlaceIs DEF Somewhere
    <3>3. n = Parts
      BY <1>0, <1>2, <2>2
    <3>. QED  BY <3>1, <3>2, <3>3
  <2>. QED  BY <2>1, <2>2
<1>4. upload'[c] = r /\ \A d \in Client : d # c => upload'[d] = upload[d]
  BY <1>0, <1>3
<1>5. store' \in [Key -> SUBSET Part] /\ \A m \in Key : store[m] \subseteq store'[m]
  BY <1>0, <1>1, <1>2
<1>6. \A m \in Key : m # k => store'[m] = store[m]
  BY <1>0, <1>1
<1>7. Good(k)'
  <2>1. Wanted(k) /\ Good(k)
    BY <1>0, <1>1 DEF Wanted, At, ServerInv, FilesOK
  <2>2. CASE store[k] = Part
    BY <1>0, <1>5, <2>2 DEF Good
  <2>3. CASE k \in torn \cup removed
    BY <1>1, <2>3 DEF Good
  <2>4. ASSUME NEW d \in Client, d # c, Writes(d, k) PROVE Good(k)'
    <3>1. upload'[d] = upload[d] /\ store[k] \subseteq store'[k]
      BY <1>4, <1>5, <2>4
    <3>2. Writes(d, k)'
      BY <2>4, <3>1 DEF Writes, At
    <3>. QED  BY <3>2 DEF Good
  <2>5. CASE Writes(c, k)
    <3>1. store'[k] = store[k] \cup {n} /\ 1..upload[c].part \subseteq store[k]
      BY <1>0, <1>1, <2>5 DEF Writes
    <3>2. 1..n \subseteq store'[k]
      BY <1>0, <3>1
    <3>3. CASE r.at = "copy"
      <4>1. Writes(c, k)'
        BY <1>3, <1>4, <2>5, <3>2, <3>3 DEF Writes, At
      <4>. QED  BY <4>1 DEF Good
    <3>4. CASE n = Parts
      <4>1. store'[k] \subseteq 1..Parts /\ 1..Parts \subseteq store'[k]
        BY <1>5, <3>2, <3>4 DEF Part
      <4>. QED  BY <4>1 DEF Good, Part
    <3>. QED  BY <1>3, <3>3, <3>4
  <2>. QED  BY <2>1, <2>2, <2>3, <2>4, <2>5 DEF Good
<1>8. FilesOK'
  <2>1. SUFFICES ASSUME NEW m \in Key, m # k, Wanted(m)' PROVE Good(m)'
    BY <1>7 DEF FilesOK
  <2>. QED  BY <1>1, <1>3, <1>4, <1>6, <2>1, OthersFiles DEF table
<1>. QED  BY <1>0, <1>1, <1>3, <1>4, <1>5, <1>8, WritingServer DEF At

\* An upload breaks off: the file is torn if it is anybody else's.
LEMMA CopyFailsServer ==
    ASSUME ServerInv, NEW c \in Client, CopyFails(c)
    PROVE  ServerInv'
<1>. DEFINE k == upload[c].key
            r == Place("error", k)
<1>0. /\ store \in [Key -> SUBSET Part] /\ torn \subseteq Key /\ removed \subseteq Key
      /\ upload \in [Client -> Upload] /\ k \in Key /\ rootThere \in BOOLEAN
  BY DEF ServerInv, TypeOK, Upload
<1>1. /\ torn' = torn \cup (IF Shared(c, k) THEN {k} ELSE {}) /\ UNCHANGED <<store, rootThere, removed>>
      /\ upload' = [upload EXCEPT ![c] = r] /\ UNCHANGED <<table, cleaning, counts>> /\ At(c, "copy")
  BY DEF CopyFails, GoTo, SaveFailed
<1>2. r \in Upload /\ r.at = "error" /\ r.key = k
  BY <1>0, PlaceIs DEF Somewhere
<1>. HIDE DEF r
<1>3. upload'[c] = r /\ \A d \in Client : d # c => upload'[d] = upload[d]
  BY <1>0, <1>1
<1>4. FilesOK'
  <2>1. SUFFICES ASSUME NEW m \in Key, Wanted(m)' PROVE Good(m)'
    BY DEF FilesOK
  <2>2. CASE m = k
    <3>1. Shared(c, k)
      BY <1>1, <1>2, <1>3, <2>1, <2>2 DEF Wanted, Shared, HasRow, table, Id
    <3>. QED  BY <1>1, <2>2, <3>1 DEF Good
  <2>3. CASE m # k
    BY <1>0, <1>1, <1>2, <1>3, <2>1, <2>3, OthersFiles DEF table
  <2>. QED  BY <2>2, <2>3
<1>5. torn' \subseteq Key
  BY <1>0, <1>1
<1>. QED  BY <1>0, <1>1, <1>2, <1>3, <1>4, <1>5, WritingServer DEF At

\* A whole file takes the name, and who was writing to the old one no longer writes to it.
LEMMA RenameServer ==
    ASSUME ServerInv, NEW c \in Client, Rename(c)
    PROVE  ServerInv'
<1>. DEFINE k == upload[c].key
            r == Place("insert", k)
<1>0. /\ store \in [Key -> SUBSET Part] /\ torn \subseteq Key /\ removed \subseteq Key
      /\ upload \in [Client -> Upload] /\ k \in Key /\ rootThere \in BOOLEAN
  BY DEF ServerInv, TypeOK, Upload
<1>1. /\ store' = [store EXCEPT ![k] = Part] /\ torn' = torn \ {k} /\ removed' = removed \ {k}
      /\ upload' = [Unlinked({k}) EXCEPT ![c] = r] /\ UNCHANGED <<rootThere, table, cleaning, counts>>
      /\ At(c, "create")
  BY DEF Rename
<1>2. r \in Upload /\ r.at = "insert" /\ r.key = k
  BY <1>0, PlaceIs DEF Somewhere
<1>. HIDE DEF r
<1>3. Unlinked({k}) \in [Client -> Upload]
  BY <1>0 DEF Unlinked, Upload
<1>4. /\ upload'[c] = r /\ upload' \in [Client -> Upload]
      /\ \A d \in Client : d # c => upload'[d] = Unlinked({k})[d]
  BY <1>1, <1>2, <1>3
<1>5. \A d \in Client : d # c => /\ upload'[d].at = upload[d].at /\ upload'[d].key = upload[d].key
                                 /\ upload'[d].part = upload[d].part
                                 /\ upload'[d] = upload[d] \/ upload[d].key = k
  BY <1>0, <1>4 DEF Unlinked, Upload
<1>6. FilesOK'
  <2>1. SUFFICES ASSUME NEW m \in Key, Wanted(m)' PROVE Good(m)'
    BY DEF FilesOK
  <2>2. CASE m = k
    BY <1>0, <1>1, <2>2 DEF Good
  <2>3. CASE m # k
    BY <1>0, <1>1, <1>2, <1>4, <1>5, <2>1, <2>3, OthersFiles DEF table
  <2>. QED  BY <2>2, <2>3
<1>. QED  BY <1>0, <1>1, <1>2, <1>4, <1>5, <1>6, WritingServer DEF At

\* The insertion of a row: the table grows by one, behind the rows that are there.
LEMMA InsertServer ==
    ASSUME ServerInv, NEW c \in Client, InsertRow(c), ~(UNCHANGED rows)
    PROVE  ServerInv'
<1>. DEFINE k == upload[c].key
            n == Cardinality(Id)
            r == Place("deps", k)
<1>0. /\ upload \in [Client -> Upload] /\ k \in Key
      /\ rows \in [1..n -> Row] /\ n \in Nat /\ now \in Nat /\ Id = 1..n
      /\ deps \subseteq Id /\ cut \subseteq Id
  BY DEF ServerInv, TypeOK, RowsOK, Id, Upload
<1>1. /\ rows' = [i \in 1..n+1 |-> IF i \in Id THEN rows[i] ELSE NewRow(k)]
      /\ upload' = [upload EXCEPT ![c] = r] /\ At(c, "insert")
      /\ UNCHANGED <<store, rootThere, torn, removed, deps, cut, clean, cleanRunning, now>>
  BY DEF InsertRow, GoTo, directory, cleaning, counts
<1>2. NewRow(k) \in Row /\ NewRow(k).key = k
  BY <1>0, RbeServerAssumption DEF NewRow, Row
<1>3. r \in Upload /\ r.at = "deps" /\ r.key = k
  BY <1>0, PlaceIs DEF Somewhere
<1>. HIDE DEF r
<1>4. Id' = 1..n+1 /\ Cardinality(Id') = n + 1
  <2>1. Id' = 1..n+1
    BY <1>1 DEF Id
  <2>. QED  BY <1>0, <2>1, FS_Interval
<1>5. rows' \in [1..Cardinality(Id') -> Row]
  BY <1>0, <1>1, <1>2, <1>4
<1>6. /\ Id \subseteq Id' /\ \A i \in Id : rows'[i] = rows[i]
      /\ n + 1 \in Id' /\ rows'[n + 1].key = k /\ \A i \in Id' : i \in Id \/ i = n + 1
  BY <1>0, <1>1, <1>2, <1>4
<1>7. upload'[c] = r /\ \A d \in Client : d # c => upload'[d] = upload[d]
  BY <1>0, <1>1
<1>8. TypeOK' /\ RowsOK'
  <2>1. upload' \in [Client -> Upload]
    BY <1>0, <1>1, <1>3
  <2>. QED  BY <1>0, <1>1, <1>4, <1>5, <1>6, <2>1 DEF ServerInv, TypeOK, RowsOK
<1>9. Keeps
  BY <1>1, <1>6 DEF Keeps
<1>10. FilesOK'
  <2>1. SUFFICES ASSUME NEW m \in Key, Wanted(m)' PROVE Good(m)'
    BY DEF FilesOK
  <2>2. Wanted(m)
    <3>1. CASE m = k
      BY <1>0, <1>1, <3>1 DEF Wanted, At
    <3>2. CASE m # k
      BY <1>3, <1>6, <1>7, <2>1, <3>2 DEF Wanted, HasRow
    <3>. QED  BY <3>1, <3>2
  <2>3. \A d \in Client : Writes(d, m) => Writes(d, m)'
    BY <1>1, <1>7 DEF Writes, At
  <2>. QED  BY <1>1, <2>2, <2>3 DEF Good, ServerInv, FilesOK
<1>11. AnswersOK'
  <2>1. HasRow(upload[c].key)'
    BY <1>3, <1>6, <1>7 DEF HasRow
  <2>. QED  BY <1>3, <1>7, <1>9, <2>1, RequestKept DEF AnswersOK, At
<1>12. DepsOK'
  <2>1. SUFFICES ASSUME NEW i \in Id', ~(i \in deps'), ~(i \in cut')
                 PROVE  Coming(i)'
    BY DEF DepsOK
  <2>2. CASE i = n + 1
    BY <1>3, <1>6, <1>7, <2>2 DEF Coming, At
  <2>3. CASE i \in Id
    <3>1. PICK d \in Client : At(d, "deps") /\ upload[d].key = rows[i].key
      BY <1>1, <2>1, <2>3 DEF ServerInv, DepsOK, Coming
    <3>2. d # c
      BY <1>1, <3>1 DEF At
    <3>. QED  BY <1>6, <1>7, <2>3, <3>1, <3>2 DEF Coming, At
  <2>. QED  BY <1>6, <2>2, <2>3
<1>. QED  BY <1>8, <1>10, <1>11, <1>12 DEF ServerInv

\* A download touches rows.
LEMMA DownloadServer ==
    ASSUME ServerInv, NEW k \in Key, Download(k)
    PROVE  ServerInv'
<1>0. rows \in [Id -> Row] /\ now \in Nat
  BY DEF ServerInv, TypeOK, RowsOK, Id
<1>. DEFINE f == [i \in Id |-> IF rows[i].key = k THEN [rows[i] EXCEPT !.last_access = now]
                               ELSE rows[i]]
<1>1. f \in [Id -> Row] /\ \A i \in Id : f[i].key = rows[i].key
  BY <1>0 DEF Row
<1>2. rows' = [i \in Id |-> f[i]] /\ UNCHANGED <<directory, deps, cut, upload, cleaning, counts>>
  BY DEF Download
<1>. HIDE DEF f
<1>3. /\ rows' \in [1..Cardinality(Id') -> Row] /\ Cardinality(Id') \in Nat
      /\ Id' = Id /\ \A i \in Id : rows'[i].key = rows[i].key
  BY <1>1, <1>2, SameRows
<1>4. TypeOK' /\ RowsOK'
  BY <1>2, <1>3 DEF ServerInv, TypeOK, RowsOK, directory, cleaning, counts
<1>. QED  BY <1>2, <1>3, <1>4, QuietServer

\* A cleaner as TypeOK and RowsOK want it.
CleanerIs(x) ==
    /\ x = [at |-> x.at, todo |-> x.todo, done |-> x.done]
    /\ x.at \in {"idle", "set", "find", "remove"} /\ x.todo \cup x.done \subseteq Id

\* The steps of a cleaning that change no more than the cleaner, and its marking of rows.
LEMMA CleanServer ==
    ASSUME ServerInv, NEW c \in Cleaner,
           CleanTest(c) \/ CleanSet(c) \/ FindExpiredLogWithLimit(c) \/ CleanDone(c)
    PROVE  ServerInv'
<1>0. rows \in [Id -> Row] /\ DOMAIN clean = Cleaner /\ \A d \in Cleaner : CleanerIs(clean[d])
  BY DEF ServerInv, TypeOK, RowsOK, Id, CleanerIs
<1>1. /\ UNCHANGED <<directory, deps, cut, upload, counts>> /\ cleanRunning' \in {cleanRunning, TRUE, FALSE}
      /\ \/ UNCHANGED rows
         \/ \E f \in [Id -> Row] : rows' = [i \in Id |-> f[i]] /\ \A i \in Id : f[i].key = rows[i].key
  <2>1. CASE CleanTest(c) \/ CleanSet(c) \/ FindExpiredLogWithLimit(c)
    BY <2>1 DEF CleanTest, CleanSet, FindExpiredLogWithLimit, CleanReturns, table
  <2>2. CASE CleanDone(c)
    <3>. DEFINE f == [i \in Id |-> IF i \in Cleaned(c) THEN [rows[i] EXCEPT !.deleted = TRUE]
                                   ELSE rows[i]]
    <3>1. f \in [Id -> Row] /\ \A i \in Id : f[i].key = rows[i].key
      BY <1>0 DEF Row
    <3>2. UNCHANGED rows \/ rows' = [i \in Id |-> f[i]]
      BY <2>2 DEF CleanDone
    <3>3. /\ UNCHANGED <<directory, deps, cut, upload, counts>>
          /\ cleanRunning' \in {cleanRunning, TRUE, FALSE}
      BY <2>2 DEF CleanDone, CleanReturns
    <3>. HIDE DEF f
    <3>. QED  BY <3>1, <3>2, <3>3
  <2>. QED  BY <2>1, <2>2
<1>2. /\ rows' \in [1..Cardinality(Id') -> Row] /\ Cardinality(Id') \in Nat
      /\ Id' = Id /\ \A i \in Id : rows'[i].key = rows[i].key
  BY <1>1, SameRows
<1>3. PICK x : clean' = [clean EXCEPT ![c] = x] /\ CleanerIs(x)
  <2>1. CASE CleanTest(c)
    <3>1. CleanerIs([clean[c] EXCEPT !.at = "set"])
      BY <1>0 DEF CleanerIs
    <3>. QED  BY <2>1, <3>1 DEF CleanTest
  <2>2. CASE CleanSet(c)
    <3>1. CleanerIs([clean[c] EXCEPT !.at = "find"])
      BY <1>0 DEF CleanerIs
    <3>. QED  BY <2>2, <3>1 DEF CleanSet
  <2>3. CASE CleanDone(c) \/ (FindExpiredLogWithLimit(c) /\ CleanReturns(c))
    <3>1. CleanerIs(Idle)
      BY DEF CleanerIs, Idle
    <3>. QED  BY <2>3, <3>1 DEF CleanDone, CleanReturns
  <2>4. CASE FindExpiredLogWithLimit(c) /\ ~CleanReturns(c)
    <3>1. PICK found \in SUBSET Id :
            clean' = [clean EXCEPT ![c] = [at |-> "remove", todo |-> found, done |-> {}]]
      BY <2>4 DEF FindExpiredLogWithLimit
    <3>2. CleanerIs([at |-> "remove", todo |-> found, done |-> {}])
      BY <3>1 DEF CleanerIs
    <3>. QED  BY <3>1, <3>2
  <2>. QED  BY <2>1, <2>2, <2>3, <2>4
<1>4. DOMAIN clean' = Cleaner /\ \A d \in Cleaner : CleanerIs(clean'[d])
  BY <1>0, <1>3
<1>5. TypeOK' /\ RowsOK'
  BY <1>1, <1>2, <1>4 DEF ServerInv, TypeOK, RowsOK, directory, counts, CleanerIs
<1>. QED  BY <1>1, <1>2, <1>5, QuietServer

\* A cleaning removes files: each of them is in removed from then on.
LEMMA RemoveServer ==
    ASSUME ServerInv, NEW c \in Cleaner, NEW i \in Id, RemoveAll(c, i)
    PROVE  ServerInv'
<1>0. /\ store \in [Key -> SUBSET Part] /\ removed \subseteq Key /\ upload \in [Client -> Upload]
      /\ rootThere \in BOOLEAN
      /\ DOMAIN clean = Cleaner /\ \A d \in Cleaner : CleanerIs(clean[d])
  BY DEF ServerInv, TypeOK, RowsOK, CleanerIs
<1>1. PICK gone \in SUBSET PathOf(i), ok \in BOOLEAN :
        /\ store' = [k \in Key |-> IF k \in gone THEN {} ELSE store[k]]
        /\ rootThere' = (rootThere /\ (ok => OutputHashOf[rows[i].key] # Root))
        /\ removed' = removed \cup gone
        /\ upload' = Unlinked(gone)
        /\ clean' = [clean EXCEPT ![c] = [at |-> "remove", todo |-> @.todo \ {i},
                                          done |-> @.done \cup (IF ok THEN {i} ELSE {})]]
  BY DEF RemoveAll
<1>2. gone \subseteq Key
  BY DEF PathOf
<1>3. UNCHANGED <<torn, rows, deps, cut, cleanRunning, now>> /\ Id' = Id
  BY DEF RemoveAll, table, counts, Id
<1>4. /\ upload' \in [Client -> Upload]
      /\ \A d \in Client : /\ upload'[d].at = upload[d].at /\ upload'[d].key = upload[d].key
                           /\ upload'[d].part = upload[d].part
                           /\ upload[d].key \in gone \/ upload'[d] = upload[d]
  BY <1>0, <1>1 DEF Unlinked, Upload
<1>5. DOMAIN clean' = Cleaner /\ \A d \in Cleaner : CleanerIs(clean'[d])
  <2>. DEFINE x == [at |-> "remove", todo |-> clean[c].todo \ {i},
                    done |-> clean[c].done \cup (IF ok THEN {i} ELSE {})]
  <2>1. clean' = [clean EXCEPT ![c] = x]
    BY <1>0, <1>1
  <2>2. CleanerIs(x)
    BY <1>0 DEF CleanerIs
  <2>. HIDE DEF x
  <2>. QED  BY <1>0, <2>1, <2>2
<1>6. TypeOK' /\ RowsOK'
  <2>1. store' \in [Key -> SUBSET Part] /\ removed' \subseteq Key /\ rootThere' \in BOOLEAN
    BY <1>0, <1>1, <1>2
  <2>. QED  BY <1>3, <1>4, <1>5, <2>1 DEF ServerInv, TypeOK, RowsOK, CleanerIs
<1>7. Keeps
  BY <1>3 DEF Keeps
<1>8. FilesOK'
  <2>1. SUFFICES ASSUME NEW m \in Key, Wanted(m)' PROVE Good(m)'
    BY DEF FilesOK
  <2>2. CASE m \in gone
    BY <1>1, <2>2 DEF Good
  <2>3. CASE m \notin gone
    <3>1. Wanted(m)
      BY <1>3, <1>4, <2>1 DEF Wanted, HasRow
    <3>2. store'[m] = store[m]
      BY <1>1, <2>3
    <3>3. \A d \in Client : Writes(d, m) => Writes(d, m)'
      BY <1>4, <2>3, <3>2 DEF Writes, At
    <3>. QED  BY <1>1, <1>3, <3>1, <3>2, <3>3 DEF Good, ServerInv, FilesOK
  <2>. QED  BY <2>2, <2>3
<1>9. AnswersOK'
  BY <1>4, <1>7, RequestKept DEF AnswersOK
<1>10. DepsOK'
  BY <1>3, <1>4 DEF ServerInv, DepsOK, Coming, At
<1>. QED  BY <1>6, <1>8, <1>9, <1>10 DEF ServerInv

\* The server dies: what was being written is torn, what was being inserted is cut.
LEMMA CrashServer ==
    ASSUME ServerInv, Crash
    PROVE  ServerInv'
<1>0. /\ torn \subseteq Key /\ deps \subseteq Id /\ cut \subseteq Id /\ now \in Nat
      /\ upload \in [Client -> Upload] /\ \A d \in Client : upload[d].key \in Key
  BY DEF ServerInv, TypeOK, RowsOK, Upload
<1>. DEFINE broken == {k \in Key : HasRow(k) /\ \E c \in Client : At(c, "copy") /\ upload[c].key = k}
            lost == {i \in Id : \E c \in Client : At(c, "deps") /\ upload[c].key = rows[i].key}
<1>1. /\ UNCHANGED <<store, rootThere, removed, rows, deps, now>> /\ Id' = Id
      /\ torn' = torn \cup broken /\ cut' = cut \cup lost
      /\ upload' = [c \in Client |-> Place("none", upload[c].key)]
      /\ clean' = [c \in Cleaner |-> Idle] /\ cleanRunning' = FALSE
  BY DEF Crash, Id
<1>2. \A d \in Client : upload'[d] \in Upload /\ upload'[d].at = "none"
  BY <1>0, <1>1, PlaceIs DEF Somewhere
<1>3. TypeOK' /\ RowsOK'
  <2>1. upload' \in [Client -> Upload]
    BY <1>1, <1>2
  <2>2. DOMAIN clean' = Cleaner /\ \A d \in Cleaner : clean'[d] = Idle
    BY <1>1
  <2>3. rows' \in [1..Cardinality(Id') -> Row] /\ Cardinality(Id') \in Nat
    BY <1>1, SameRows
  <2>4. torn' \subseteq Key /\ cut' \subseteq Id'
    BY <1>0, <1>1
  <2>5. TypeOK'
    BY <1>0, <1>1, <2>1, <2>2, <2>3, <2>4 DEF ServerInv, TypeOK, Idle
  <2>6. RowsOK'
    BY <1>0, <1>1, <2>2, <2>3 DEF RowsOK, Idle
  <2>. QED  BY <2>5, <2>6
<1>4. FilesOK'
  <2>1. SUFFICES ASSUME NEW m \in Key, Wanted(m)' PROVE Good(m)'
    BY DEF FilesOK
  <2>2. HasRow(m)
    BY <1>1, <1>2, <2>1 DEF Wanted, HasRow
  <2>3. Good(m)
    BY <2>2 DEF Wanted, ServerInv, FilesOK
  <2>4. CASE \E d \in Client : Writes(d, m)
    <3>1. m \in broken
      BY <2>2, <2>4 DEF Writes
    <3>. QED  BY <1>1, <3>1 DEF Good
  <2>5. CASE ~(\E d \in Client : Writes(d, m))
    BY <1>1, <2>3, <2>5 DEF Good
  <2>. QED  BY <2>4, <2>5
<1>5. AnswersOK'
  BY <1>2 DEF AnswersOK, At
<1>6. DepsOK'
  BY <1>1 DEF ServerInv, DepsOK, Coming
<1>. QED  BY <1>3, <1>4, <1>5, <1>6 DEF ServerInv

\* Time passes.
LEMMA TimeServer ==
    ASSUME ServerInv, Tick \/ UNCHANGED vars
    PROVE  ServerInv'
<1>1. /\ UNCHANGED <<directory, deps, cut, upload, cleaning, rows>> /\ Id' = Id
      /\ now \in Nat /\ now' \in {now, now + 1}
  BY DEF Tick, vars, table, directory, cleaning, Id, ServerInv, RowsOK
<1>2. TypeOK' /\ RowsOK'
  BY <1>1 DEF ServerInv, TypeOK, RowsOK, directory, cleaning
<1>. QED  BY <1>1, <1>2, QuietServer

\* Every step of any client, cleaner or crash keeps it.
LEMMA NextServer == ServerInv /\ [Next]_vars => ServerInv'
<1>. SUFFICES ASSUME ServerInv, [Next]_vars PROVE ServerInv'
  OBVIOUS
<1>1. ASSUME NEW c \in Client, Create(c) \/ InsertRow(c) PROVE ServerInv'
  BY <1>1, RequestServer, CreateServer, InsertServer
<1>2. ASSUME NEW c \in Client, Copy(c) PROVE ServerInv'
  <2>1. upload[c].key \in Key
    BY DEF ServerInv, TypeOK, Upload
  <2>. QED  BY <1>2, <2>1, CopyServer
<1>3. ASSUME NEW c \in Client, CopyFails(c) \/ Rename(c) PROVE ServerInv'
  BY <1>3, CopyFailsServer, RenameServer
<1>4. ASSUME NEW c \in Client, (\E k \in Key : Request(c, k)) \/ CheckEntryExist(c) \/ InsertDeps(c)
      PROVE  ServerInv'
  BY <1>4, RequestServer
<1>. QED  BY <1>1, <1>2, <1>3, <1>4, DownloadServer, CleanServer, RemoveServer, CrashServer,
             TimeServer DEF Next

\* The file of every row is whole, but for the rewritings and removals that are named.
THEOREM RowsFileIsWholeHolds == Spec => []RowsFileIsWhole
<1>1. ServerInv => RowsFileIsWhole
  <2>1. SUFFICES ASSUME ServerInv, NEW i \in Id
                 PROVE  LET k == rows[i].key IN
                        \/ store[k] = Part
                        \/ \E c \in Client : At(c, "copy") /\ upload[c].key = k /\ upload[c].linked
                        \/ k \in torn \cup removed
    BY DEF RowsFileIsWhole
  <2>2. rows[i].key \in Key /\ Wanted(rows[i].key)
    BY <2>1 DEF ServerInv, RowsOK, Id, Row, Wanted, HasRow
  <2>. QED  BY <2>1, <2>2 DEF ServerInv, FilesOK, Good, Writes
<1>. QED  BY <1>1, InitServer, NextServer, PTL DEF Spec

\* What is answered with HTTP 200 is in the tables, as far as the two answers say.
THEOREM SuccessIsStoredHolds == Spec => []SuccessIsStored
<1>1. ServerInv => SuccessIsStored
  <2>1. SUFFICES ASSUME ServerInv, NEW c \in Client, upload[c].at \in {"success", "exists"}
                 PROVE  \E i \in IdsOf(upload[c].key) :
                            \/ i \in deps
                            \/ /\ At(c, "exists")
                               /\ i \in cut \/ \E d \in Client : At(d, "deps")
                                                               /\ upload[d].key = rows[i].key
    BY DEF SuccessIsStored
  <2>2. CASE At(c, "success")
    BY <2>1, <2>2 DEF ServerInv, AnswersOK
  <2>3. CASE At(c, "exists")
    <3>1. PICK i \in Id : rows[i].key = upload[c].key
      BY <2>1, <2>3 DEF ServerInv, AnswersOK, HasRow, At
    <3>2. i \in IdsOf(upload[c].key) /\ (i \in deps \/ i \in cut \/ Coming(i))
      BY <2>1, <3>1 DEF ServerInv, DepsOK, IdsOf
    <3>. QED  BY <2>3, <3>2 DEF Coming
  <2>. QED  BY <2>1, <2>2, <2>3 DEF At
<1>. QED  BY <1>1, InitServer, NextServer, PTL DEF Spec
=============================================================================
