------------------------------ MODULE Startup -------------------------------
(***************************************************************************)
(* How engines come up: validation of the configuration, the providers in  *)
(* the order from_config connects them, the Postgres migrations that every *)
(* starting process runs against one shared database, the process-wide     *)
(* cache of open redb files, and the registry an embedding host resolves   *)
(* its own providers from.                                                 *)
(*                                                                         *)
(* Every awaited query is one step.  A refused or broken connection, a     *)
(* failed query and a crash all end a start where it stands (Fail); the    *)
(* process's supervisor starts it again.                                   *)
(***************************************************************************)
EXTENDS Naturals, Sequences, FiniteSets

CONSTANTS
    Engines,       \* engines that are started
    ProcessOf,     \* the operating-system process each engine lives in
    Configs,       \* the configurations they may be given
    Features,      \* the Cargo features of the build
    Migrations,    \* MIGRATIONS: how many statements each one has
    Names,         \* provider names used in a registry
    MaxFails,      \* bound: failures of queries, connections and processes
    MaxCloses,     \* bound: engines dropped by their owner
    NoName         \* a capability without a default

ASSUME StartupAssumption ==
    /\ ProcessOf \in [Engines -> STRING]
    /\ Features \subseteq {"postgres", "redis", "pgvector"}
    /\ Migrations \in Seq(Nat)
    /\ MaxFails \in Nat /\ MaxCloses \in Nat
    /\ NoName \notin Names

-----------------------------------------------------------------------------
(* EngineConfig.  A path or URL is reduced to whether validate() accepts it.  *)

EngineConfig ==
    [namespace : {"ok", "blank", "symbols"},
     store : {"memory", "local", "postgres"}, storeUrl : BOOLEAN,
     vector : {"none", "in-memory", "pgvector"}, vectorUrl : BOOLEAN,
     embedding : {"none", "hashing"}, dimensions : Nat,
     working : {"none", "in-process", "redis"}, workingUrl : BOOLEAN,
     max_content_chars : Nat, max_batch_size : Nat]

\* EngineConfig::default().
DefaultConfig ==
    [namespace |-> "ok", store |-> "memory", storeUrl |-> TRUE,
     vector |-> "none", vectorUrl |-> TRUE,
     embedding |-> "none", dimensions |-> 384,
     working |-> "none", workingUrl |-> TRUE,
     max_content_chars |-> 100000, max_batch_size |-> 256]

StoreValid(c) == c.store = "memory" \/ c.storeUrl

VectorValid(c) == c.vector # "pgvector" \/ c.vectorUrl

EmbeddingValid(c) == c.embedding = "none" \/ c.dimensions \in 1..10000

WorkingValid(c) == c.working # "redis" \/ c.workingUrl

LimitsValid(c) == c.max_content_chars > 0 /\ c.max_batch_size > 0

\* Seeded fault: half a semantic setup is accepted.
validated_half(c) ==
    /\ c.namespace = "ok"
    /\ StoreValid(c) /\ VectorValid(c) /\ EmbeddingValid(c)
    /\ WorkingValid(c) /\ LimitsValid(c)

validated(c) ==
    /\ c.namespace = "ok"
    /\ StoreValid(c)
    /\ c.vector # "none" => VectorValid(c) /\ c.embedding # "none"
    /\ EmbeddingValid(c)
    /\ WorkingValid(c)
    /\ LimitsValid(c)

\* Backends compiled out are refused when from_config reaches them.
StoreBuilt(c) == c.store = "postgres" => "postgres" \in Features
WorkingBuilt(c) == c.working = "redis" => "redis" \in Features
VectorBuilt(c) == c.vector = "pgvector" => "pgvector" \in Features

-----------------------------------------------------------------------------
(* State *)

\* The statements of the migration list, in split order.
Script == UNION {{<<k, s>> : s \in 1..Migrations[k]} : k \in DOMAIN Migrations}

Phases == {"down", "refused", "store", "table", "check", "apply", "record",
           "working", "vector", "vtable", "vindex", "up"}

Capability == {"store", "vector", "working"}

VARIABLES
    config,     \* the configuration of each engine
    phase,      \* how far its start has come
    at,         \* migration and statement it is at
    attached,   \* the providers an engine that is up was built with
    db,         \* the shared Postgres database
    extension,  \* whether the database has the vector extension
    file,       \* the redb file: who has it open, and whether it is closing
    registry,   \* the host's provider registry
    fails,      \* failures so far
    closes      \* engines dropped so far

vars == <<config, phase, at, attached, db, extension, file, registry, fails,
          closes>>

Position == [migration : Nat, statement : Nat]

Database == [table : BOOLEAN, recorded : SUBSET DOMAIN Migrations,
             applied : SUBSET Script, vectors : BOOLEAN, hnsw : BOOLEAN]

File == [refs : SUBSET Engines, closing : BOOLEAN]

Registry == [registered : [Capability -> SUBSET Names],
             default : [Capability -> Names \cup {NoName}]]

Parts == SUBSET {"store", "working", "vector", "embedder"}

TypeOK ==
    /\ config \in [Engines -> Configs]
    /\ phase \in [Engines -> Phases]
    /\ at \in [Engines -> Position]
    /\ attached \in [Engines -> Parts]
    /\ db \in Database
    /\ extension \in BOOLEAN
    /\ file \in File
    /\ registry \in Registry
    /\ fails \in 0..MaxFails
    /\ closes \in 0..MaxCloses

Start0 == [migration |-> 1, statement |-> 1]

Init ==
    /\ config \in [Engines -> Configs]
    /\ phase = [e \in Engines |-> "down"]
    /\ at = [e \in Engines |-> Start0]
    /\ attached = [e \in Engines |-> {}]
    /\ db = [table |-> FALSE, recorded |-> {}, applied |-> {},
             vectors |-> FALSE, hnsw |-> FALSE]
    /\ extension \in BOOLEAN
    /\ file = [refs |-> {}, closing |-> FALSE]
    /\ registry = [registered |-> [c \in Capability |-> {}],
                   default |-> [c \in Capability |-> NoName]]
    /\ fails = 0
    /\ closes = 0

In(e, p) == phase[e] = p
Goto(e, p) == phase' = [phase EXCEPT ![e] = p]
Attach(e, parts) == attached' = [attached EXCEPT ![e] = @ \cup parts]

Elsewhere == <<config, extension, registry, closes>>

-----------------------------------------------------------------------------
(* from_config: validation, then the store *)

Begin(e) ==
    /\ In(e, "down")
    /\ Goto(e, IF validated(config[e]) THEN "store" ELSE "refused")
    /\ UNCHANGED <<at, attached, db, file, fails, Elsewhere>>

OpenMemory(e) ==
    /\ In(e, "store") /\ config[e].store = "memory"
    /\ Attach(e, {"store"})
    /\ Goto(e, "working")
    /\ UNCHANGED <<at, db, file, fails, Elsewhere>>

\* acquire_database: the file is shared with the engines of one process, and
\* locked against everybody else, also while the last of them lets it go.
CanOpen(e) ==
    IF file.refs = {} THEN ~file.closing
    ELSE \A f \in file.refs : ProcessOf[f] = ProcessOf[e]

OpenLocal(e) ==
    /\ In(e, "store") /\ config[e].store = "local"
    /\ IF CanOpen(e)
       THEN /\ file' = [file EXCEPT !.refs = @ \cup {e}]
            /\ Attach(e, {"store"})
            /\ Goto(e, "working")
       ELSE /\ Goto(e, "down")
            /\ UNCHANGED <<file, attached>>
    /\ UNCHANGED <<at, db, fails, Elsewhere>>

ConnectPostgres(e) ==
    /\ In(e, "store") /\ config[e].store = "postgres"
    /\ Goto(e, IF StoreBuilt(config[e]) THEN "table" ELSE "refused")
    /\ UNCHANGED <<at, attached, db, file, fails, Elsewhere>>

-----------------------------------------------------------------------------
(* PostgresStore::with_pool: no transaction spans two of these steps *)

CreateMigrationTable(e) ==
    /\ In(e, "table")
    /\ db' = [db EXCEPT !.table = TRUE]
    /\ at' = [at EXCEPT ![e] = Start0]
    /\ Goto(e, "check")
    /\ UNCHANGED <<attached, file, fails, Elsewhere>>

NextMigration(e) == [migration |-> at[e].migration + 1, statement |-> 1]

CheckApplied(e) ==
    /\ In(e, "check")
    /\ at[e].migration \in DOMAIN Migrations
    /\ IF at[e].migration \in db.recorded
       THEN at' = [at EXCEPT ![e] = NextMigration(e)] /\ UNCHANGED phase
       ELSE Goto(e, "apply") /\ UNCHANGED at
    /\ UNCHANGED <<attached, db, file, fails, Elsewhere>>

\* Seeded fault: a statement that was run before is an error.
ApplyOnce(e) ==
    LET s == <<at[e].migration, at[e].statement>>
    IN  /\ In(e, "apply")
        /\ s \in Script
        /\ IF s \in db.applied
           THEN Goto(e, "down") /\ UNCHANGED <<at, db>>
           ELSE /\ db' = [db EXCEPT !.applied = @ \cup {s}]
                /\ at' = [at EXCEPT ![e].statement = @ + 1]
                /\ UNCHANGED phase
        /\ UNCHANGED <<attached, file, fails, Elsewhere>>

\* Every statement of the script is CREATE ... IF NOT EXISTS: running it again
\* changes nothing.
ApplyStatement(e) ==
    LET s == <<at[e].migration, at[e].statement>>
    IN  /\ In(e, "apply")
        /\ s \in Script
        /\ db' = [db EXCEPT !.applied = @ \cup {s}]
        /\ at' = [at EXCEPT ![e].statement = @ + 1]
        /\ UNCHANGED <<phase, attached, file, fails, Elsewhere>>

\* Seeded fault: a migration counts as done when its last statement begins.
ScriptDoneEarly(e) ==
    /\ In(e, "apply")
    /\ at[e].statement >= Migrations[at[e].migration]
    /\ Goto(e, "record")
    /\ UNCHANGED <<at, attached, db, file, fails, Elsewhere>>

ScriptDone(e) ==
    /\ In(e, "apply")
    /\ at[e].statement > Migrations[at[e].migration]
    /\ Goto(e, "record")
    /\ UNCHANGED <<at, attached, db, file, fails, Elsewhere>>

\* Seeded fault: the migration is recorded under an index that counts from zero.
RecordFromZero(e) ==
    /\ In(e, "record")
    /\ db' = [db EXCEPT !.recorded = @ \cup {at[e].migration - 1}]
    /\ at' = [at EXCEPT ![e] = NextMigration(e)]
    /\ Goto(e, "check")
    /\ UNCHANGED <<attached, file, fails, Elsewhere>>

\* The name is the primary key: of two processes that apply one migration, the
\* second to record it fails its start.
RecordMigration(e) ==
    /\ In(e, "record")
    /\ IF at[e].migration \in db.recorded
       THEN Goto(e, "down") /\ UNCHANGED <<at, db>>
       ELSE /\ db' = [db EXCEPT !.recorded = @ \cup {at[e].migration}]
            /\ at' = [at EXCEPT ![e] = NextMigration(e)]
            /\ Goto(e, "check")
    /\ UNCHANGED <<attached, file, fails, Elsewhere>>

MigrationsDone(e) ==
    /\ In(e, "check")
    /\ at[e].migration \notin DOMAIN Migrations
    /\ Attach(e, {"store"})
    /\ Goto(e, "working")
    /\ UNCHANGED <<at, db, file, fails, Elsewhere>>

-----------------------------------------------------------------------------
(* Working store, vector index, embedder.  An engine whose start fails lets   *)
(* go of what it had opened.                                                  *)

LetGo(e) ==
    /\ attached' = [attached EXCEPT ![e] = {}]
    /\ file' = [refs |-> file.refs \ {e},
                closing |-> file.closing \/ file.refs = {e}]

ConnectWorking(e) ==
    /\ In(e, "working")
    /\ IF WorkingBuilt(config[e])
       THEN Attach(e, {"working"}) /\ Goto(e, "vector") /\ UNCHANGED file
       ELSE LetGo(e) /\ Goto(e, "refused")
    /\ UNCHANGED <<at, db, fails, Elsewhere>>

\* No vector index, or the in-process one; the embedder cannot fail.
AttachEmbedded(e) ==
    /\ In(e, "vector") /\ config[e].vector # "pgvector"
    /\ Attach(e, (IF config[e].vector = "none" THEN {} ELSE {"vector"})
                 \cup (IF config[e].embedding = "none" THEN {} ELSE {"embedder"}))
    /\ Goto(e, "up")
    /\ UNCHANGED <<at, db, file, fails, Elsewhere>>

\* PgVectorStore::with_pool: the extension, the table, the index.
CheckExtension(e) ==
    /\ In(e, "vector") /\ config[e].vector = "pgvector"
    /\ IF VectorBuilt(config[e]) /\ extension
       THEN Goto(e, "vtable") /\ UNCHANGED <<attached, file>>
       ELSE /\ LetGo(e)
            /\ Goto(e, IF VectorBuilt(config[e]) THEN "down" ELSE "refused")
    /\ UNCHANGED <<at, db, fails, Elsewhere>>

CreateVectorTable(e) ==
    /\ In(e, "vtable")
    /\ db' = [db EXCEPT !.vectors = TRUE]
    /\ Goto(e, "vindex")
    /\ UNCHANGED <<at, attached, file, fails, Elsewhere>>

CreateVectorIndex(e) ==
    /\ In(e, "vindex")
    /\ db' = [db EXCEPT !.hnsw = TRUE]
    /\ Attach(e, {"vector"} \cup (IF config[e].embedding = "none" THEN {}
                                  ELSE {"embedder"}))
    /\ Goto(e, "up")
    /\ UNCHANGED <<at, file, fails, Elsewhere>>

-----------------------------------------------------------------------------
(* The registry of an embedding host, and from_parts *)

Register(c, n) ==
    registry' = [registered |-> [registry.registered EXCEPT ![c] = @ \cup {n}],
                 default |-> [registry.default EXCEPT
                                ![c] = IF @ = NoName THEN n ELSE @]]

SetDefault(c, n) ==
    /\ n \in registry.registered[c]
    /\ registry' = [registry EXCEPT !.default[c] = n]

HostRegisters ==
    /\ \E c \in Capability, n \in Names : Register(c, n) \/ SetDefault(c, n)
    /\ UNCHANGED <<config, phase, at, attached, db, extension, file, fails,
                   closes>>

\* resolve: the default, if the map still has it.
Resolves(c) == registry.default[c] \in registry.registered[c]

\* AssemblyPlan::from_config.
required(c) ==
    {"store"} \cup (IF c.vector = "none" THEN {} ELSE {"vector"})
              \cup (IF c.working = "none" THEN {} ELSE {"working"})

missing(c) == {cap \in required(c) : ~Resolves(cap)}

ensure_satisfiable(c) == validated(c) /\ missing(c) = {}

\* A host that checks its plan hands from_parts what the registry resolves, its
\* own embedder, and the in-process store when no working store is declared.
AssembleFromParts(e) ==
    /\ In(e, "down")
    /\ ensure_satisfiable(config[e])
    /\ Attach(e, {"store", "working"}
                 \cup (IF config[e].vector # "none" /\ Resolves("vector")
                       THEN {"vector"} ELSE {})
                 \cup (IF config[e].embedding = "none" THEN {} ELSE {"embedder"}))
    /\ Goto(e, "up")
    /\ UNCHANGED <<at, db, file, fails, Elsewhere>>

-----------------------------------------------------------------------------
(* Failures and shutdown *)

Fail(e) ==
    /\ phase[e] \notin {"down", "refused"}
    /\ fails < MaxFails
    /\ fails' = fails + 1
    /\ LetGo(e)
    /\ Goto(e, "down")
    /\ UNCHANGED <<at, db, Elsewhere>>

Close(e) ==
    /\ In(e, "up")
    /\ closes < MaxCloses
    /\ closes' = closes + 1
    /\ LetGo(e)
    /\ Goto(e, "down")
    /\ UNCHANGED <<config, at, db, extension, registry, fails>>

\* The last reference is gone before the file is unlocked.
Release ==
    /\ file.closing
    /\ file' = [file EXCEPT !.closing = FALSE]
    /\ UNCHANGED <<config, phase, at, attached, db, extension, registry, fails,
                   closes>>

StartStep(e) ==
    \/ Begin(e) \/ OpenMemory(e) \/ OpenLocal(e) \/ ConnectPostgres(e)
    \/ CreateMigrationTable(e) \/ CheckApplied(e) \/ ApplyStatement(e)
    \/ ScriptDone(e) \/ RecordMigration(e) \/ MigrationsDone(e)
    \/ ConnectWorking(e) \/ AttachEmbedded(e)
    \/ CheckExtension(e) \/ CreateVectorTable(e) \/ CreateVectorIndex(e)

Next ==
    \/ \E e \in Engines : StartStep(e) \/ AssembleFromParts(e) \/ Fail(e) \/ Close(e)
    \/ HostRegisters
    \/ Release

Spec == Init /\ [][Next]_vars

\* Supervisors start what is down, and a start under way goes on; a file that is
\* let go is eventually unlocked.
FairSpec ==
    /\ Spec
    /\ \A e \in Engines : WF_vars(StartStep(e))
    /\ WF_vars(Release)

-----------------------------------------------------------------------------
(* Properties *)

\* A migration that is recorded has been applied to its last statement.
RecordedMeansApplied ==
    \A x \in Script : x[1] \in db.recorded => x \in db.applied

\* However many processes start at once, and wherever starts were cut off, an
\* engine from_config brought up over Postgres finds the whole schema: every
\* migration is recorded and every statement applied.
ServesFullSchema ==
    \A e \in Engines :
        phase[e] \in {"working", "vector", "vtable", "vindex"}
            /\ config[e].store = "postgres"
            => db.recorded = DOMAIN Migrations /\ Script \subseteq db.applied

\* Declared infrastructure is never silently left out: an engine that serves has
\* every capability its configuration asks for, and an index never comes
\* without an embedder, whether it was built from configuration or from parts.
DeclaredMeansServed ==
    \A e \in Engines : In(e, "up") =>
        /\ required(config[e]) \subseteq attached[e]
        /\ "vector" \in attached[e] => "embedder" \in attached[e]

Startable(e) ==
    /\ validated(config[e])
    /\ StoreBuilt(config[e]) /\ WorkingBuilt(config[e]) /\ VectorBuilt(config[e])
    /\ config[e].vector = "pgvector" => extension
    /\ config[e].store = "local" =>
         \A f \in Engines : config[f].store = "local"
                                => ProcessOf[f] = ProcessOf[e]

\* Starts converge: two processes may fail each other's start by recording one
\* migration twice, an opening may meet a file that is still closing, starts are
\* cut off between a statement and its record; yet every engine that can start
\* is up in the end and stays up.
StartsConverge == \A e \in Engines : <>[](Startable(e) => In(e, "up"))
=============================================================================
