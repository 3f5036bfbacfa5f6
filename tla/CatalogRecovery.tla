--------------------------- MODULE CatalogRecovery ---------------------------
(***************************************************************************)
(* Collections, schema changes and their recovery                          *)
(* (crates/adabt-storage/src/heap.rs): creating, dropping and altering one *)
(* collection between checkpoints, and the passes by which HeapStore::     *)
(* recover rebuilds it from the catalog, the pages and the log.            *)
(*                                                                         *)
(* The log is durable entry by entry (Strict).  Which page a row is on and *)
(* when it is evicted is CrashRecovery's subject: here the heap file holds *)
(* exactly the rows of the last flush, each under its collection's id.     *)
(***************************************************************************)
EXTENDS Naturals, SequencesExt

CONSTANTS
    Ids,             \* record ids, an initial segment of Nat
    Values, None,
    Layouts, Fields, \* a schema is a layout and a set of fields within it
    Name, Staging,   \* the collection, and migration_name(collection)
    Migrations,      \* whether schema changes that rewrite the rows are made
    Drops,           \* whether the collection is dropped and created again
    MaxLog, MaxCheckpoints, MaxCrashes   \* bounds

ASSUME CatalogAssumption ==
    /\ Ids \subseteq Nat /\ IsFiniteSet(Ids)
    /\ None \notin Values /\ Name # Staging
    /\ Migrations \in BOOLEAN /\ Drops \in BOOLEAN
    /\ MaxLog \in Nat /\ MaxCheckpoints \in Nat /\ MaxCrashes \in Nat

Schemas == Layouts \X Fields
Names == {Name, Staging}
Cids == 0..MaxLog
Empty == [id \in Ids |-> None]

VARIABLES
    colls,      \* name -> its Collection, None when there is none
    nextCid,    \* next_collection_id
    log,        \* every entry since the database was created
    flush,      \* [at, rows]: the last Checkpoint entry's flushed_lsn and the heap file
    catalog,    \* [at, colls, nextCid]: the persisted Catalog and its through_lsn
    call,       \* "none", "alter", "checkpoint"; "down" when the database cannot be opened
    migrating,  \* rows an alter_schema has still to copy
    checkpoints, crashes

mem == <<colls, nextCid>>
disk == <<flush, catalog>>
cvars == <<mem, log, disk, call, migrating, checkpoints, crashes>>

Maximum(a, b) == IF a >= b THEN a ELSE b

Fresh(cid, schema) == [cid |-> cid, schema |-> schema, data |-> Empty, next |-> 0]

-----------------------------------------------------------------------------
(* Physical operations, shared by the calls and by replay.  A state s is a   *)
(* record [colls, nextCid, byId, ok]; the last two matter to recovery only.  *)

register_collection(s, name, schema) ==
    [colls |-> [s.colls EXCEPT ![name] = Fresh(s.nextCid, schema)],
     nextCid |-> s.nextCid + 1,
     byId |-> [s.byId EXCEPT ![s.nextCid] = name],
     ok |-> s.ok]

Unregister(s, name) ==
    IF s.colls[name] = None THEN s
    ELSE [s EXCEPT !.byId[s.colls[name].cid] = None, !.colls[name] = None]

\* Every write pushes the id counter past the id it used.
Put(c, id, v) == [c EXCEPT !.data[id] = v, !.next = Maximum(@, id + 1)]

apply_put(s, name, id, v) ==
    IF s.colls[name] = None THEN s ELSE [s EXCEPT !.colls[name] = Put(@, id, v)]

apply_delete(s, name, id) ==
    IF s.colls[name] = None THEN s ELSE [s EXCEPT !.colls[name].data[id] = None]

\* The staged collection takes the target's name and keeps its own id and counter.
adopt(s) ==
    IF s.colls[Staging] = None THEN s
    ELSE [s EXCEPT !.colls[Name] = s.colls[Staging], !.colls[Staging] = None]

Memory ==
    [colls |-> colls, nextCid |-> nextCid, byId |-> [cid \in Cids |-> None], ok |-> TRUE]

Install(s) == colls' = s.colls /\ nextCid' = s.nextCid

-----------------------------------------------------------------------------
(* Log entries *)

Create(name, schema) == [op |-> "create", name |-> name, schema |-> schema]
Edit(schema) == [op |-> "edit", name |-> Name, schema |-> schema]
DropOf(name) == [op |-> "drop", name |-> name]
PutOf(name, id, v) == [op |-> "put", name |-> name, id |-> id, val |-> v]
DeleteOf(id) == [op |-> "delete", name |-> Name, id |-> id]
Adopt == [op |-> "adopt", name |-> Name]

Log(entries) ==
    /\ Len(log) + Len(entries) <= MaxLog
    /\ log' = log \o entries

-----------------------------------------------------------------------------
(* Calls *)

Idle == call = "none"
Exists == Idle /\ colls[Name] # None

create_collection(schema) ==
    /\ Idle /\ colls[Name] = None
    /\ Log(<<Create(Name, schema)>>)
    /\ Install(register_collection(Memory, Name, schema))
    /\ UNCHANGED <<disk, call, migrating, checkpoints, crashes>>

drop_collection ==
    /\ Drops /\ Exists
    /\ Log(<<DropOf(Name)>>)
    /\ Install(Unregister(Memory, Name))
    /\ UNCHANGED <<disk, call, migrating, checkpoints, crashes>>

\* insert of an absent id or update: both log the bytes and put them.
write(id, v) ==
    /\ Exists
    /\ Log(<<PutOf(Name, id, v)>>)
    /\ Install(apply_put(Memory, Name, id, v))
    /\ UNCHANGED <<disk, call, migrating, checkpoints, crashes>>

delete(id) ==
    /\ Exists /\ colls[Name].data[id] # None
    /\ Log(<<DeleteOf(id)>>)
    /\ Install(apply_delete(Memory, Name, id))
    /\ UNCHANGED <<disk, call, migrating, checkpoints, crashes>>

schema_editable_in_place(old, new) == old[1] = new[1]

\* A catalog edit: no row is touched.
alter_in_place(schema) ==
    /\ Exists /\ colls[Name].schema # schema
    /\ schema_editable_in_place(colls[Name].schema, schema)
    /\ Log(<<Edit(schema)>>)
    /\ colls' = [colls EXCEPT ![Name].schema = schema]
    /\ UNCHANGED <<nextCid, disk, call, migrating, checkpoints, crashes>>

\* alter_schema, out of place: a stale staging collection is dropped, a new one made.
alter_schema(schema) ==
    /\ Migrations /\ Exists
    /\ ~ schema_editable_in_place(colls[Name].schema, schema)
    /\ Log((IF colls[Staging] = None THEN <<>> ELSE <<DropOf(Staging)>>)
             \o <<Create(Staging, schema)>>)
    /\ Install(register_collection(Unregister(Memory, Staging), Staging, schema))
    /\ call' = "alter"
    /\ migrating' = {id \in Ids : colls[Name].data[id] # None}
    /\ UNCHANGED <<disk, checkpoints, crashes>>

\* The next row, by id, encoded anew and logged under the staging name.
CopyRow ==
    /\ call = "alter"
    /\ \E id \in migrating :
         /\ \A j \in migrating : id <= j
         /\ Log(<<PutOf(Staging, id, colls[Name].data[id])>>)
         /\ Install(apply_put(Memory, Staging, id, colls[Name].data[id]))
         /\ migrating' = migrating \ {id}
    /\ UNCHANGED <<disk, call, checkpoints, crashes>>

\* The flip: one entry, and the staging collection is the collection.
Flip ==
    /\ call = "alter" /\ migrating = {}
    /\ Log(<<Adopt>>)
    /\ Install(adopt(Memory))
    /\ call' = "none"
    /\ UNCHANGED <<disk, migrating, checkpoints, crashes>>

\* A log write failed: the call returns, and the staging collection stays.
AlterFails ==
    /\ call = "alter"
    /\ call' = "none" /\ migrating' = {}
    /\ UNCHANGED <<mem, log, disk, checkpoints, crashes>>

-----------------------------------------------------------------------------
(* checkpoint: the pages and then the log entry that says so; the catalog    *)
(* after that, by the same call.                                             *)

\* The rows of the collection with this id.
RowsOf(cid) ==
    IF \E n \in Names : colls[n] # None /\ colls[n].cid = cid
    THEN colls[CHOOSE n \in Names : colls[n] # None /\ colls[n].cid = cid].data
    ELSE Empty

FlushPages ==
    /\ Idle /\ call' = "checkpoint"
    /\ checkpoints < MaxCheckpoints /\ checkpoints' = checkpoints + 1
    /\ Log(<<[op |-> "checkpoint"]>>)
    /\ flush' = [at |-> Len(log), rows |-> [cid \in Cids |-> RowsOf(cid)]]
    /\ UNCHANGED <<mem, catalog, migrating, crashes>>

WriteCatalog ==
    /\ call = "checkpoint" /\ call' = "none"
    /\ catalog' = [at |-> flush.at, nextCid |-> nextCid, colls |->
         [n \in Names |-> IF colls[n] = None THEN None ELSE [colls[n] EXCEPT !.data = Empty]]]
    /\ UNCHANGED <<mem, log, flush, migrating, checkpoints, crashes>>

-----------------------------------------------------------------------------
(* Recovery *)

\* entries_from(through_lsn) keeps the entry at through_lsn itself.
Entries == SubSeq(log, Maximum(catalog.at, 1), Len(log))

Above(at) == SubSeq(log, at + 1, Len(log))

\* Pass 0: names, ids, schemas and counters from the catalog.
adopt_catalog ==
    [colls |-> catalog.colls, nextCid |-> catalog.nextCid,
     byId |-> [cid \in Cids |->
        IF \E n \in Names : catalog.colls[n] # None /\ catalog.colls[n].cid = cid
        THEN CHOOSE n \in Names : catalog.colls[n] # None /\ catalog.colls[n].cid = cid
        ELSE None],
     ok |-> TRUE]

\* Pass 1: definitions, in log order; an adoption is left for pass 4.
Define(s, e) ==
    CASE e.op = "create" -> register_collection(s, e.name, e.schema)
      [] e.op = "edit" -> IF s.colls[e.name] = None THEN [s EXCEPT !.ok = FALSE]
                          ELSE [s EXCEPT !.colls[e.name].schema = e.schema]
      [] e.op = "drop" -> Unregister(s, e.name)
      [] OTHER -> s

\* Pass 2: the rows in the pages go to the collection their id names.
load_directory(s) ==
    [s EXCEPT !.colls = [n \in Names |->
        IF s.colls[n] = None THEN None
        ELSE [s.colls[n] EXCEPT !.data = [id \in Ids |->
            LET cids == {cid \in Cids : s.byId[cid] = n /\ flush.rows[cid][id] # None}
            IN  IF cids = {} THEN None ELSE flush.rows[CHOOSE cid \in cids : TRUE][id]]]]]

\* Pass 3: writes the heap file might not contain.
Replay(s, e) ==
    CASE e.op = "put" -> apply_put(s, e.name, e.id, e.val)
      [] e.op = "delete" -> apply_delete(s, e.name, e.id)
      [] OTHER -> s

\* Pass 4 that finishes a migration whose flip was never logged.
AdoptPass_eager(s, e) == IF e.op \in {"adopt", "put"} THEN adopt(s) ELSE s

\* Pass 4: the migrations that reached their flip.
AdoptPass(s, e) == IF e.op = "adopt" THEN adopt(s) ELSE s

recover ==
    LET defined == FoldLeft(Define, adopt_catalog, Above(catalog.at))
        replayed == FoldLeft(Replay, load_directory(defined), Above(flush.at))
        adopted == FoldLeft(AdoptPass, replayed, Entries)
    IN  Unregister(adopted, Staging)

Crash ==
    /\ crashes < MaxCrashes /\ crashes' = crashes + 1
    /\ Install(recover)
    /\ call' = (IF recover.ok THEN "none" ELSE "down") /\ migrating' = {}
    /\ UNCHANGED <<log, disk, checkpoints>>

-----------------------------------------------------------------------------
CInit ==
    /\ colls = [n \in Names |-> None] /\ nextCid = 0
    /\ log = <<>>
    /\ flush = [at |-> 0, rows |-> [cid \in Cids |-> Empty]]
    /\ catalog = [at |-> 0, colls |-> [n \in Names |-> None], nextCid |-> 0]
    /\ call = "none" /\ migrating = {}
    /\ checkpoints = 0 /\ crashes = 0

CNext ==
    \/ \E schema \in Schemas :
         create_collection(schema) \/ alter_in_place(schema) \/ alter_schema(schema)
    \/ drop_collection
    \/ \E id \in Ids : delete(id) \/ \E v \in Values : write(id, v)
    \/ CopyRow \/ Flip \/ AlterFails
    \/ FlushPages \/ WriteCatalog
    \/ Crash

CSpec == CInit /\ [][CNext]_cvars

-----------------------------------------------------------------------------
(* Properties *)

Visible(c) == IF c = None THEN None ELSE [schema |-> c.schema, data |-> c.data]

\* Type invariant: the saved catalog never claims more of the log than was flushed,
\* and a collection and its staging copy never share a collection id.
CTypeOK ==
    /\ \A n \in Names : colls[n] = None \/
         colls[n] \in [cid : Cids, schema : Schemas, data : [Ids -> Values \cup {None}],
                      next : Nat]
    /\ nextCid \in Nat
    /\ flush.at <= Len(log) /\ catalog.at <= flush.at
    /\ call \in {"none", "alter", "checkpoint", "down"}
    /\ migrating \subseteq Ids
    /\ colls[Name] # None /\ colls[Staging] # None => colls[Name].cid # colls[Staging].cid

\* "There is no in-between state to recover from" (alter_schema): whenever the process
\* dies, the collection comes back as the last call that returned left it.
RecoveryIsExact ==
    [][crashes' # crashes =>
         call' # "down" /\ Visible(colls'[Name]) = Visible(colls[Name])]_cvars

\* What recovery reads describes one incarnation of each collection: nothing follows
\* a flip, no name is created after rows were written under it, and no abandoned
\* staging collection is in the catalog.
Plain ==
    /\ \A i \in DOMAIN Entries : Entries[i].op = "adopt" => i = Len(Entries)
    /\ \A i, j \in DOMAIN Entries :
         i < j /\ Entries[i].op \in {"put", "delete"} /\ Entries[j].op = "create"
            => Entries[i].name # Entries[j].name
    /\ catalog.colls[Staging] = None

\* Under that condition the claim holds, in the middle of a migration and of a
\* checkpoint too.
PlainRecoveryIsExact ==
    crashes' # crashes /\ Plain =>
        call' # "down" /\ Visible(colls'[Name]) = Visible(colls[Name])

\* A restart after a checkpoint that completed does not move the id counter back,
\* although no page says that the records deleted before it ever existed.
CounterSurvivesRestart ==
    crashes' # crashes /\ Plain /\ flush.at = catalog.at /\ colls[Name] # None /\ colls'[Name] # None
        => colls'[Name].next >= colls[Name].next

\* A restart brings back the collection and its counter; and no step leaves a catalog
\* that claims more of the log than was flushed, or two collections under one id.
RestartsAreExact == [][PlainRecoveryIsExact /\ CounterSurvivesRestart /\ CTypeOK']_cvars

=============================================================================
