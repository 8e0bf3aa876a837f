---------------------------- MODULE MemoryEngine ----------------------------
(***************************************************************************)
(* The engine facade over its three providers: the canonical store, the    *)
(* vector index and the evidence graph.  Every call is a process; every    *)
(* awaited provider call is one step, so calls interleave exactly where    *)
(* the code awaits, with the records read earlier held in the call.        *)
(*                                                                         *)
(* A provider error, a cancelled request and a crash of the process have   *)
(* the same effect on shared state: the call ends where it stands (Abort). *)
(***************************************************************************)
EXTENDS WritePolicies

CONSTANTS
    Clients,           \* concurrent callers of the engine
    Workers,           \* indexing workers, they run the repair
    Backend,           \* the canonical store: "memory", "local", "postgres"
    VectorLists,       \* whether the vector backend implements list_ids
    DedupEnabled,      \* EngineConfig.dedup_enabled
    ConflictEnabled,   \* EngineConfig.conflict_enabled
    CanFail,           \* whether calls of clients can end early
    Requests,          \* the RememberRequests callers make
    CallScopes,        \* the scopes of the other calls
    Calls,             \* the operations callers make
    Instants,          \* the "now" arguments of retention sweeps
    MaxCalls,          \* bound: calls started by clients
    DEDUP_LIMIT,       \* 20 in deduplicate
    CONFLICT_LIMIT,    \* 5 in resolve_conflicts
    BATCH_LIMIT,       \* 1_000 in sweep and repair_vector_index
    ARCHIVE_GRACE,     \* grace after expiry before archiving
    NoVector           \* an identifier that is not indexed

Procs == Clients \cup Workers

Operations == {"remember", "write_unindexed", "update", "forget", "purge",
               "forget_everywhere", "recall_semantic", "sweep"}

ASSUME EngineAssumption ==
    /\ Backend \in {"memory", "local", "postgres"}
    /\ VectorLists \in BOOLEAN
    /\ DedupEnabled \in BOOLEAN
    /\ ConflictEnabled \in BOOLEAN
    /\ CanFail \in BOOLEAN
    /\ Requests \subseteq RememberRequest
    /\ CallScopes \subseteq Scope
    /\ Calls \subseteq Operations
    /\ Instants \subseteq Nat
    /\ MaxCalls \in Nat
    /\ DEDUP_LIMIT \in Nat /\ CONFLICT_LIMIT \in Nat /\ BATCH_LIMIT \in Nat
    /\ ARCHIVE_GRACE \in Nat
    /\ NoRecord \notin MemoryRecord
    /\ NoVector \notin Metadata

VARIABLES
    store,      \* canonical rows
    vectors,    \* the metadata of each indexed vector
    evidence,   \* identifiers some graph edge cites as evidence
    nextId,     \* the next identifier MemoryId::generate returns
    op,         \* the call each process is in
    calls,      \* calls started so far
    erased      \* history: the rows that were hard-deleted

vars == <<store, vectors, evidence, nextId, op, calls, erased>>

-----------------------------------------------------------------------------
(* Calls in flight *)

PCs == {"idle", "dedup", "ignoreGet", "panicked", "mergePut", "mergeUnindex",
        "mergeRetire", "conflict", "replaceGet", "replaceClose",
        "replaceUnindex", "replacePut", "replaceIndex", "put", "index",
        "graph", "putOnly", "succPut", "succIndex", "predUnindex", "retire",
        "tombstone", "forgetUnindex", "forgetEdges",
        "purgeUnindex", "purgeEdges", "cdUnindex", "cdEdges", "cdRow",
        "sweep", "archive", "hydrate", "ghost", "repairList", "repair"}

\* scope is the caller's; id a target; rec the record to write; old a record as
\* it was read; recs and todo what a loop has still to visit; checked says that
\* the local store has seen the row it is about to replace.
Call == [pc : PCs, scope : Scope, id : Ids \cup {0},
         rec : MemoryRecord \cup {NoRecord},
         old : MemoryRecord \cup {NoRecord},
         recs : SUBSET MemoryRecord, todo : SUBSET Ids, checked : BOOLEAN]

GlobalScope == [d \in Dims |-> Unset]

Idle == [pc |-> "idle", scope |-> GlobalScope, id |-> 0, rec |-> NoRecord,
         old |-> NoRecord, recs |-> {}, todo |-> {}, checked |-> FALSE]

TypeOK ==
    /\ store \in [Ids -> MemoryRecord \cup {NoRecord}]
    /\ vectors \in [Ids -> Metadata \cup {NoVector}]
    /\ evidence \subseteq Ids
    /\ nextId \in 1..(MaxRecords + 1)
    /\ op \in [Procs -> Call]
    /\ calls \in 0..MaxCalls
    /\ erased \subseteq MemoryRecord

Init ==
    /\ store = [i \in Ids |-> NoRecord]
    /\ vectors = [i \in Ids |-> NoVector]
    /\ evidence = {}
    /\ nextId = 1
    /\ op = [c \in Procs |-> Idle]
    /\ calls = 0
    /\ erased = {}

At(c, pc) == op[c].pc = pc
Goto(c, pc) == op' = [op EXCEPT ![c].pc = pc]
Become(c, call) == op' = [op EXCEPT ![c] = call]
Finish(c) == Become(c, Idle)

\* A client enters an operation.
Enter(c, operation, call) ==
    /\ At(c, "idle")
    /\ operation \in Calls
    /\ calls < MaxCalls
    /\ calls' = calls + 1
    /\ Become(c, call)

-----------------------------------------------------------------------------
(* The canonical store *)

Stored == {i \in Ids : store[i] # NoRecord}

Rows == {store[i] : i \in Stored}

Visible(i, scope) == i \in Stored /\ Contains(scope, store[i].scope)

Query(scope, statuses, subject, limit) ==
    Newest({r \in Rows : matches_query(r, scope, statuses, subject)}, limit)

StorePut(r) == store' = [store EXCEPT ![r.id] = r]

\* Seeded faults: an update that inserts a missing row, and one that does not
\* compare versions.
CanUpsert(r) == r.id \in Ids

CanOverwrite(r) == r.id \in Stored

\* Postgres replaces a row only from the version the caller read, and bumps it;
\* the embedded stores replace whatever is there.
CanUpdate(r) ==
    /\ r.id \in Stored
    /\ Backend = "postgres" => store[r.id].version = r.version

Updated(r) ==
    IF Backend = "postgres" THEN [r EXCEPT !.version = r.version + 1] ELSE r

\* The local store looks for the row in one transaction and puts in another.
StoreUpdate(c, r, call) ==
    \/ /\ Backend = "local" /\ ~op[c].checked
       /\ CanUpdate(r)
       /\ op' = [op EXCEPT ![c].checked = TRUE]
       /\ UNCHANGED store
    \/ /\ IF Backend = "local" THEN op[c].checked ELSE CanUpdate(r)
       /\ store' = [store EXCEPT ![r.id] = Updated(r)]
       /\ Become(c, [call EXCEPT !.checked = FALSE])
    \/ /\ ~op[c].checked
       /\ ~CanUpdate(r)
       /\ Finish(c)
       /\ UNCHANGED store

\* Seeded faults: a delete of any identifier, and one that ignores the scope.
DeletableAnyway(i, scope) == i \in Ids /\ scope \in Scope

DeletableUnscoped(i, scope) == i \in Stored /\ scope \in Scope

\* The Postgres DELETE compares a dimension only when both sides pin it, and
\* never the organization.  The local store's look-up and removal are one step:
\* the scope of a row never changes, and removing an absent row does nothing.
Deletable(i, scope) ==
    IF Backend = "postgres"
    THEN i \in Stored /\ \A d \in MirroredDims :
                            reconcilable(store[i].scope[d], scope[d])
    ELSE Visible(i, scope)

StoreDelete(i, scope) ==
    IF Deletable(i, scope)
    THEN /\ store' = [store EXCEPT ![i] = NoRecord]
         /\ erased' = erased \cup {store[i]}
    ELSE UNCHANGED <<store, erased>>

-----------------------------------------------------------------------------
(* The vector index and the graph *)

IndexVector(r) == vectors' = [vectors EXCEPT ![r.id] = vector_metadata(r.scope)]

RemoveVector(i) == vectors' = [vectors EXCEPT ![i] = NoVector]

Indexed == {i \in Ids : vectors[i] # NoVector}

-----------------------------------------------------------------------------
(* remember and write_unindexed *)

AfterDedup == IF ConflictEnabled THEN "conflict" ELSE "put"

NewRecordCall(pc, req) ==
    [Idle EXCEPT !.pc = pc, !.scope = req.scope, !.rec = into_record(nextId, req)]

Remember(c, req) ==
    /\ nextId \in Ids
    /\ Enter(c, "remember",
             NewRecordCall(IF DedupEnabled THEN "dedup" ELSE AfterDedup, req))
    /\ nextId' = nextId + 1
    /\ UNCHANGED <<store, vectors, evidence, erased>>

WriteUnindexed(c, req) ==
    /\ nextId \in Ids
    /\ Enter(c, "write_unindexed", NewRecordCall("putOnly", req))
    /\ nextId' = nextId + 1
    /\ UNCHANGED <<store, vectors, evidence, erased>>

DedupCandidates(c) ==
    Query(op[c].rec.scope, {"Active"}, NoSubject, DEDUP_LIMIT)

\* Link, Add and no candidate at all: the write goes on.
DedupPass(c) ==
    /\ At(c, "dedup")
    /\ \/ DedupCandidates(c) = {}
       \/ \E embedded \in BOOLEAN, target \in DedupCandidates(c) :
             Evaluates(DedupCandidates(c), op[c].rec, embedded, "Add", target)
    /\ Goto(c, AfterDedup)
    /\ UNCHANGED <<store, vectors, evidence, nextId, calls, erased>>

DedupIgnore(c) ==
    /\ At(c, "dedup")
    /\ \E target \in DedupCandidates(c) :
          /\ Evaluates(DedupCandidates(c), op[c].rec, TRUE, "Ignore", target)
          /\ Become(c, [op[c] EXCEPT !.pc = "ignoreGet", !.id = target.id])
    /\ UNCHANGED <<store, vectors, evidence, nextId, calls, erased>>

\* expect("candidate came from this store") on the second read.
IgnoreGet(c) ==
    /\ At(c, "ignoreGet")
    /\ IF Visible(op[c].id, op[c].scope) THEN Finish(c) ELSE Goto(c, "panicked")
    /\ UNCHANGED <<store, vectors, evidence, nextId, calls, erased>>

\* The successor is derived from the incoming record, which is never stored.
DedupMerge(c) ==
    /\ At(c, "dedup")
    /\ nextId \in Ids
    /\ \E embedded \in BOOLEAN, target \in DedupCandidates(c) :
          /\ Evaluates(DedupCandidates(c), op[c].rec, embedded, "Merge", target)
          /\ Become(c, [op[c] EXCEPT
                !.pc = "mergePut", !.old = target,
                !.rec = derive_successor(nextId, op[c].rec, op[c].rec.content)])
    /\ nextId' = nextId + 1
    /\ UNCHANGED <<store, vectors, evidence, calls, erased>>

MergePut(c) ==
    /\ At(c, "mergePut")
    /\ StorePut(op[c].rec)
    /\ Goto(c, "mergeUnindex")
    /\ UNCHANGED <<vectors, evidence, nextId, calls, erased>>

MergeUnindex(c) ==
    /\ At(c, "mergeUnindex")
    /\ RemoveVector(op[c].old.id)
    /\ Goto(c, "mergeRetire")
    /\ UNCHANGED <<store, evidence, nextId, calls, erased>>

MergeRetire(c) ==
    /\ At(c, "mergeRetire")
    /\ StoreUpdate(c, [op[c].old EXCEPT !.status = "Superseded"], Idle)
    /\ UNCHANGED <<vectors, evidence, nextId, calls, erased>>

DedupReview(c) ==
    /\ At(c, "dedup")
    /\ \E embedded \in BOOLEAN, target \in DedupCandidates(c) :
          Evaluates(DedupCandidates(c), op[c].rec, embedded, "Review", target)
    /\ Become(c, [op[c] EXCEPT !.pc = "putOnly", !.rec.status = "Quarantined"])
    /\ UNCHANGED <<store, vectors, evidence, nextId, calls, erased>>

OpenFacts(c) ==
    Query(op[c].rec.scope, {"Active"}, op[c].rec.subject, CONFLICT_LIMIT)

NoConflict(c) == op[c].rec.subject = NoSubject \/ OpenFacts(c) = {}

ConflictPass(c) ==
    /\ At(c, "conflict")
    /\ NoConflict(c)
    /\ Goto(c, "put")
    /\ UNCHANGED <<store, vectors, evidence, nextId, calls, erased>>

\* The loop over the facts returns at the first one, the newest: every fact the
\* query returns is on the same subject, so no outcome is Write.
ConflictReplace(c) ==
    /\ At(c, "conflict")
    /\ ~NoConflict(c)
    /\ \E fact \in OpenFacts(c) :
          /\ IsNewest(fact, OpenFacts(c))
          /\ Replaces(op[c].rec, fact)
          /\ Become(c, [op[c] EXCEPT !.pc = "replaceGet", !.id = fact.id])
    /\ UNCHANGED <<store, vectors, evidence, nextId, calls, erased>>

ConflictQuarantine(c) ==
    /\ At(c, "conflict")
    /\ ~NoConflict(c)
    /\ \E fact \in OpenFacts(c) :
          IsNewest(fact, OpenFacts(c)) /\ ~Replaces(op[c].rec, fact)
    /\ Become(c, [op[c] EXCEPT !.pc = "putOnly", !.rec.status = "Quarantined"])
    /\ UNCHANGED <<store, vectors, evidence, nextId, calls, erased>>

ReplaceGet(c) ==
    /\ At(c, "replaceGet")
    /\ IF Visible(op[c].id, op[c].scope)
       THEN Become(c, [op[c] EXCEPT !.pc = "replaceClose",
                                    !.old = store[op[c].id]])
       ELSE Goto(c, "replacePut")
    /\ UNCHANGED <<store, vectors, evidence, nextId, calls, erased>>

ReplaceClose(c) ==
    /\ At(c, "replaceClose")
    /\ StoreUpdate(c, close_window(op[c].old),
                   [op[c] EXCEPT !.pc = "replaceUnindex"])
    /\ UNCHANGED <<vectors, evidence, nextId, calls, erased>>

ReplaceUnindex(c) ==
    /\ At(c, "replaceUnindex")
    /\ RemoveVector(op[c].id)
    /\ Goto(c, "replacePut")
    /\ UNCHANGED <<store, evidence, nextId, calls, erased>>

ReplacePut(c) ==
    /\ At(c, "replacePut")
    /\ StorePut(op[c].rec)
    /\ Goto(c, "replaceIndex")
    /\ UNCHANGED <<vectors, evidence, nextId, calls, erased>>

ReplaceIndex(c) ==
    /\ At(c, "replaceIndex")
    /\ IndexVector(op[c].rec)
    /\ Finish(c)
    /\ UNCHANGED <<store, evidence, nextId, calls, erased>>

\* Seeded fault: the vector before the row.
PutRecordAfterIndex(c) ==
    /\ At(c, "put")
    /\ IndexVector(op[c].rec)
    /\ Goto(c, "putOnly")
    /\ UNCHANGED <<store, evidence, nextId, calls, erased>>

\* The plain write: row, then vector, then edges.
PutRecord(c) ==
    /\ At(c, "put")
    /\ StorePut(op[c].rec)
    /\ Goto(c, "index")
    /\ UNCHANGED <<vectors, evidence, nextId, calls, erased>>

IndexRecord(c) ==
    /\ At(c, "index")
    /\ IndexVector(op[c].rec)
    /\ Goto(c, "graph")
    /\ UNCHANGED <<store, evidence, nextId, calls, erased>>

\* One edge for each relation of its subject the statement yields, or none,
\* depending on its wording.
IndexGraph(c) ==
    /\ At(c, "graph")
    /\ \/ /\ op[c].rec.subject # NoSubject
          /\ evidence' = evidence \cup {op[c].rec.id}
          /\ UNCHANGED op
       \/ Finish(c) /\ UNCHANGED evidence
    /\ UNCHANGED <<store, vectors, nextId, calls, erased>>

\* The last step of write_unindexed and of both quarantines.
PutOnly(c) ==
    /\ At(c, "putOnly")
    /\ StorePut(op[c].rec)
    /\ Finish(c)
    /\ UNCHANGED <<vectors, evidence, nextId, calls, erased>>

-----------------------------------------------------------------------------
(* update: successor put and indexed, predecessor unindexed and retired.  The *)
(* status of the predecessor is not looked at.                                *)

Update(c, i, scope, content, confidence) ==
    /\ nextId \in Ids
    /\ IF Visible(i, scope)
       THEN /\ Enter(c, "update",
                     [Idle EXCEPT
                        !.pc = "succPut", !.scope = scope, !.old = store[i],
                        !.rec = [derive_successor(nextId, store[i], content)
                                    EXCEPT !.confidence = confidence]])
            /\ nextId' = nextId + 1
       ELSE Enter(c, "update", Idle) /\ UNCHANGED nextId
    /\ UNCHANGED <<store, vectors, evidence, erased>>

SuccPut(c) ==
    /\ At(c, "succPut")
    /\ StorePut(op[c].rec)
    /\ Goto(c, "succIndex")
    /\ UNCHANGED <<vectors, evidence, nextId, calls, erased>>

SuccIndex(c) ==
    /\ At(c, "succIndex")
    /\ IndexVector(op[c].rec)
    /\ Goto(c, "predUnindex")
    /\ UNCHANGED <<store, evidence, nextId, calls, erased>>

PredUnindex(c) ==
    /\ At(c, "predUnindex")
    /\ RemoveVector(op[c].old.id)
    /\ Goto(c, "retire")
    /\ UNCHANGED <<store, evidence, nextId, calls, erased>>

Retire(c) ==
    /\ At(c, "retire")
    /\ StoreUpdate(c, [op[c].old EXCEPT !.status = "Superseded"], Idle)
    /\ UNCHANGED <<vectors, evidence, nextId, calls, erased>>

-----------------------------------------------------------------------------
(* forget: a tombstone, then the indexes *)

Forget(c, i, scope) ==
    /\ Enter(c, "forget",
             IF Visible(i, scope) /\ store[i].status # "Deleted"
             THEN [Idle EXCEPT !.pc = "tombstone", !.scope = scope, !.id = i,
                               !.old = store[i]]
             ELSE Idle)
    /\ UNCHANGED <<store, vectors, evidence, nextId, erased>>

Tombstone(c) ==
    /\ At(c, "tombstone")
    /\ StoreUpdate(c, [op[c].old EXCEPT !.status = "Deleted"],
                   [op[c] EXCEPT !.pc = "forgetUnindex"])
    /\ UNCHANGED <<vectors, evidence, nextId, calls, erased>>

ForgetUnindex(c) ==
    /\ At(c, "forgetUnindex")
    /\ RemoveVector(op[c].id)
    /\ Goto(c, "forgetEdges")
    /\ UNCHANGED <<store, evidence, nextId, calls, erased>>

ForgetEdges(c) ==
    /\ At(c, "forgetEdges")
    /\ evidence' = evidence \ {op[c].id}
    /\ Finish(c)
    /\ UNCHANGED <<store, vectors, nextId, calls, erased>>

-----------------------------------------------------------------------------
(* purge: the row first.  Neither index removal looks at the scope. *)

Purge(c, i, scope) ==
    /\ Enter(c, "purge",
             [Idle EXCEPT !.pc = "purgeUnindex", !.scope = scope, !.id = i])
    /\ StoreDelete(i, scope)
    /\ UNCHANGED <<vectors, evidence, nextId>>

PurgeUnindex(c) ==
    /\ At(c, "purgeUnindex")
    /\ RemoveVector(op[c].id)
    /\ Goto(c, "purgeEdges")
    /\ UNCHANGED <<store, evidence, nextId, calls, erased>>

PurgeEdges(c) ==
    /\ At(c, "purgeEdges")
    /\ evidence' = evidence \ {op[c].id}
    /\ Finish(c)
    /\ UNCHANGED <<store, vectors, nextId, calls, erased>>

-----------------------------------------------------------------------------
(* Retention sweeps and forget_everywhere, both by coordinate_delete: the    *)
(* indexes first, the row last.                                              *)

ForgetEverywhere(c, i, scope) ==
    /\ Enter(c, "forget_everywhere",
             [Idle EXCEPT !.pc = "cdUnindex", !.scope = scope, !.id = i])
    /\ UNCHANGED <<store, vectors, evidence, nextId, erased>>

Lapsed(r, now) ==
    r.retention.expires_at # NoDeadline /\ r.retention.expires_at <= now

PurgedBySweep(r, now) ==
    Lapsed(r, now) /\ r.retention.class \in {"Ephemeral", "Session"}

ArchivedBySweep(r, now) ==
    /\ Lapsed(r, now)
    /\ r.retention.class = "Standard"
    /\ now >= r.retention.expires_at + ARCHIVE_GRACE
    /\ r.status = "Active"

\* The candidates are read once; the ones the loop only counts are dropped here.
Sweep(c, scope, now) ==
    /\ Enter(c, "sweep",
             [Idle EXCEPT
                !.pc = "sweep", !.scope = scope,
                !.recs = {r \in Query(scope, Status, NoSubject, BATCH_LIMIT) :
                            PurgedBySweep(r, now) \/ ArchivedBySweep(r, now)}])
    /\ UNCHANGED <<store, vectors, evidence, nextId, erased>>

SweepNext(c) ==
    /\ At(c, "sweep")
    /\ \E r \in op[c].recs :
          /\ IsNewest(r, op[c].recs)
          /\ Become(c, IF r.retention.class = "Standard"
                       THEN [op[c] EXCEPT !.pc = "archive", !.old = r,
                                          !.recs = op[c].recs \ {r}]
                       ELSE [op[c] EXCEPT !.pc = "cdUnindex", !.id = r.id,
                                          !.recs = op[c].recs \ {r}])
    /\ UNCHANGED <<store, vectors, evidence, nextId, calls, erased>>

SweepDone(c) ==
    /\ At(c, "sweep")
    /\ op[c].recs = {}
    /\ Finish(c)
    /\ UNCHANGED <<store, vectors, evidence, nextId, calls, erased>>

Archive(c) ==
    /\ At(c, "archive")
    /\ StoreUpdate(c, [op[c].old EXCEPT !.status = "Archived"],
                   [op[c] EXCEPT !.pc = "sweep"])
    /\ UNCHANGED <<vectors, evidence, nextId, calls, erased>>

CoordinateUnindex(c) ==
    /\ At(c, "cdUnindex")
    /\ RemoveVector(op[c].id)
    /\ Goto(c, "cdEdges")
    /\ UNCHANGED <<store, evidence, nextId, calls, erased>>

CoordinateEdges(c) ==
    /\ At(c, "cdEdges")
    /\ evidence' = evidence \ {op[c].id}
    /\ Goto(c, "cdRow")
    /\ UNCHANGED <<store, vectors, nextId, calls, erased>>

CoordinateRow(c) ==
    /\ At(c, "cdRow")
    /\ StoreDelete(op[c].id, op[c].scope)
    /\ Goto(c, "sweep")
    /\ UNCHANGED <<vectors, evidence, nextId, calls>>

-----------------------------------------------------------------------------
(* recall_semantic: the search returns some of the vectors the metadata      *)
(* filter accepts (which ones depends on the embeddings), each is hydrated   *)
(* from the store, and one the store does not show to the caller is removed. *)

RecallSemantic(c, scope) ==
    /\ \E hits \in SUBSET {i \in Indexed : FilterMatches(scope, vectors[i])} :
          Enter(c, "recall_semantic",
                [Idle EXCEPT !.pc = "hydrate", !.scope = scope, !.todo = hits])
    /\ UNCHANGED <<store, vectors, evidence, nextId, erased>>

Hydrate(c) ==
    /\ At(c, "hydrate")
    /\ \E i \in op[c].todo :
          Become(c, [op[c] EXCEPT
                !.todo = op[c].todo \ {i},
                !.id = i,
                !.pc = IF Visible(i, op[c].scope) THEN "hydrate" ELSE "ghost"])
    /\ UNCHANGED <<store, vectors, evidence, nextId, calls, erased>>

\* remove_vector(..).ok(): a failed removal is ignored.
RemoveGhost(c) ==
    /\ At(c, "ghost")
    /\ RemoveVector(op[c].id) \/ (CanFail /\ UNCHANGED vectors)
    /\ Goto(c, "hydrate")
    /\ UNCHANGED <<store, evidence, nextId, calls, erased>>

RecallDone(c) ==
    /\ At(c, "hydrate")
    /\ op[c].todo = {}
    /\ Finish(c)
    /\ UNCHANGED <<store, vectors, evidence, nextId, calls, erased>>

-----------------------------------------------------------------------------
(* repair_vector_index, run by the indexing worker on every tick *)

RepairQuery(w) ==
    /\ At(w, "idle")
    /\ Become(w, [Idle EXCEPT
            !.pc = "repairList",
            !.recs = Query(GlobalScope, {"Active"}, NoSubject, BATCH_LIMIT)])
    /\ UNCHANGED <<store, vectors, evidence, nextId, calls, erased>>

\* Seeded fault: only missing vectors are repaired.
RepairListNoGhosts(w) ==
    /\ At(w, "repairList")
    /\ Become(w, [op[w] EXCEPT
            !.pc = "repair",
            !.recs = {r \in op[w].recs : r.id \notin Indexed}])
    /\ UNCHANGED <<store, vectors, evidence, nextId, calls, erased>>

RepairList(w) ==
    LET listed == IF VectorLists THEN Indexed ELSE {}
    IN  /\ At(w, "repairList")
        /\ Become(w, [op[w] EXCEPT
                !.pc = "repair",
                !.todo = listed \ {r.id : r \in op[w].recs},
                !.recs = {r \in op[w].recs : r.id \notin listed}])
        /\ UNCHANGED <<store, vectors, evidence, nextId, calls, erased>>

RepairGhost(w) ==
    /\ At(w, "repair")
    /\ \E i \in op[w].todo :
          /\ RemoveVector(i)
          /\ op' = [op EXCEPT ![w].todo = op[w].todo \ {i}]
    /\ UNCHANGED <<store, evidence, nextId, calls, erased>>

RepairUpsert(w) ==
    /\ At(w, "repair")
    /\ op[w].todo = {}
    /\ \E r \in op[w].recs :
          /\ IndexVector(r)
          /\ op' = [op EXCEPT ![w].recs = op[w].recs \ {r}]
    /\ UNCHANGED <<store, evidence, nextId, calls, erased>>

RepairDone(w) ==
    /\ At(w, "repair")
    /\ op[w].todo = {} /\ op[w].recs = {}
    /\ Finish(w)
    /\ UNCHANGED <<store, vectors, evidence, nextId, calls, erased>>

-----------------------------------------------------------------------------

Abort(c) ==
    /\ CanFail
    /\ ~At(c, "idle")
    /\ Finish(c)
    /\ UNCHANGED <<store, vectors, evidence, nextId, calls, erased>>

ErasedIds == {r.id : r \in erased}

\* A caller names an identifier that some read has shown it.
Known == Stored \cup ErasedIds

Start(c) ==
    \/ \E req \in Requests : Remember(c, req) \/ WriteUnindexed(c, req)
    \/ \E i \in Known, scope \in CallScopes :
          \/ \E content \in Contents, confidence \in Confidences :
                Update(c, i, scope, content, confidence)
          \/ Forget(c, i, scope)
          \/ Purge(c, i, scope)
          \/ ForgetEverywhere(c, i, scope)
    \/ \E scope \in CallScopes :
          \/ RecallSemantic(c, scope)
          \/ \E now \in Instants : Sweep(c, scope, now)

\* The steps of a call under way.
Continue(c) ==
    \/ DedupPass(c) \/ DedupIgnore(c) \/ IgnoreGet(c) \/ DedupReview(c)
    \/ DedupMerge(c) \/ MergePut(c) \/ MergeUnindex(c) \/ MergeRetire(c)
    \/ ConflictPass(c) \/ ConflictReplace(c) \/ ConflictQuarantine(c)
    \/ ReplaceGet(c) \/ ReplaceClose(c) \/ ReplaceUnindex(c)
    \/ ReplacePut(c) \/ ReplaceIndex(c)
    \/ PutRecord(c) \/ IndexRecord(c) \/ IndexGraph(c) \/ PutOnly(c)
    \/ SuccPut(c) \/ SuccIndex(c) \/ PredUnindex(c) \/ Retire(c)
    \/ Tombstone(c) \/ ForgetUnindex(c) \/ ForgetEdges(c)
    \/ PurgeUnindex(c) \/ PurgeEdges(c)
    \/ SweepNext(c) \/ SweepDone(c) \/ Archive(c)
    \/ CoordinateUnindex(c) \/ CoordinateEdges(c) \/ CoordinateRow(c)
    \/ Hydrate(c) \/ RemoveGhost(c) \/ RecallDone(c)

Repair(w) ==
    \/ RepairQuery(w) \/ RepairList(w) \/ RepairGhost(w) \/ RepairUpsert(w)
    \/ RepairDone(w)

Next ==
    \/ \E c \in Clients : Start(c) \/ Continue(c) \/ Abort(c)
    \/ \E w \in Workers : Repair(w)

Spec == Init /\ [][Next]_vars

\* A call under way is polled until it returns, and the ticker runs the
\* repair again and again.  Nobody has to start a call.
FairSpec ==
    /\ Spec
    /\ \A c \in Clients : WF_vars(Continue(c))
    /\ \A w \in Workers : WF_vars(Repair(w))

-----------------------------------------------------------------------------
(* Properties *)

\* History is never rewritten: whatever calls interleave, a row that stays
\* stored keeps its content, partition, subject, origin and predecessor; every
\* write-back of a stale clone (update, forget, merge, sweep) only moves status.
HistoryImmutable ==
    [][\A i \in Ids : store[i] # NoRecord /\ store'[i] # NoRecord
            => Immutable(store'[i]) = Immutable(store[i])]_vars

\* The supersession chain that history() walks goes strictly back in time, so
\* the walk ends.
ChainGoesBack == \A i \in Stored : store[i].supersedes < i

\* A row whose status is Superseded has a replacement that names it, stored or
\* since erased: update() puts the successor before it retires the predecessor,
\* so a failure in between never loses the fact.
SupersededHasSuccessor ==
    \A i \in Stored : store[i].status = "Superseded"
        => \E r \in Rows \cup erased : r.supersedes = i

\* A hard-deleted row never comes back, although calls that read it before the
\* deletion still write their clone of it back afterwards.
ErasedStaysErased == \A r \in erased : store[r.id] = NoRecord

\* An index entry or graph edge never precedes its row: it belongs to a row that
\* is stored or was erased.
IndexAfterRow == Indexed \cup evidence \subseteq Stored \cup ErasedIds

\* A row is hard-deleted only by a call whose scope contains the row's scope.
DeletionInScope ==
    [][\A i \in Ids : store[i] # NoRecord /\ store'[i] = NoRecord
            => \E c \in Clients : /\ op'[c] # op[c]
                                  /\ Contains(op'[c].scope, store[i].scope)]_vars

\* The ghost removal of recall_semantic only drops vectors whose row is gone.
RecallSparesStored ==
    [][\A c \in Clients : At(c, "ghost") /\ vectors'[op[c].id] # vectors[op[c].id]
                          /\ op'[c] # op[c]
            => op[c].id \notin Stored]_vars

\* Optimistic concurrency: a row is only replaced by a call whose copy of it is
\* the current one.
NoLostUpdate ==
    [][\A i \in Ids : /\ store[i] # NoRecord /\ store'[i] # NoRecord
                      /\ store'[i] # store[i]
            => \E c \in Clients : op'[c] # op[c] /\ op[c].old = store[i]]_vars

\* A user's word outranks an agent's guess: a fact's window is closed only on
\* behalf of an incoming statement that negates it or has at least its
\* authority, although the decision and the write are separate reads.
AuthorityDominates ==
    [][\A i \in Ids : /\ store[i] # NoRecord /\ store'[i] # NoRecord
                      /\ ~store[i].ended /\ store'[i].ended
            => \E c \in Clients :
                  /\ op'[c] # op[c]
                  /\ \/ op[c].rec.content \in Negating
                     \/ default_authority(op[c].rec.source)
                            >= default_authority(store[i].source)]_vars

Ledger == INSTANCE MemoryLedger WITH rows <- store

\* The engine keeps the ledger of MemoryLedger: whatever calls interleave or end
\* early, rows are appended once under an unused identity, revised in status
\* only, and erased for good.
LedgerSpec == Ledger!Spec

Live == {i \in Stored : store[i].status = "Active" /\ ~store[i].ended}

Quiet == \A c \in Clients : At(c, "idle")

\* Erasure covers every representation: when no call is under way, a hard-deleted
\* memory has left neither a vector nor a graph edge behind.
ErasureComplete ==
    Quiet => \A r \in erased : r.id \notin Indexed /\ r.id \notin evidence

\* Once the callers are done, the repairs bring the index to exactly the live
\* rows, whatever failures and races left behind.
IndexConverges == <>[](Indexed = Live)
=============================================================================
