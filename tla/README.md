# A verification development for barq-agentic-memory

TLA+ models of the memory engine, what it derives from memories, hybrid and governed
recall, working memory, record lifecycles, the circuit breaker, the start of engines and
the ways into them from outside, checked with TLC on small instances, and theorems about
them checked with TLAPS for every value of the constants. Paths are relative to the repository; `engine.rs` without a directory is
`src/crates/memory-core/src/engine.rs`.

## 1. The system

Barq is a Rust library (with an optional HTTP server and bindings) that keeps the
long-term and session memory of agents. A facade, `MemoryEngine`, composes providers
behind traits; every call is an `async fn` of `&self`, so any number of calls run at
once and interleave at each awaited provider call. There is no lock and no transaction
around a call, only inside single provider operations.

| component | state | operations | interacts with |
|---|---|---|---|
| engine (`engine.rs`, `requests.rs`) | none of its own | `remember`, `write_unindexed`, `update`, `forget`, `purge`, `recall_*`, `history`, the `working_*` calls | every provider |
| domain (`memory-domain`) | the record: scope, status, validity, version, provenance, retention | `contains`, `intersect`, `derive_successor`, query matching | used by all |
| canonical stores (in-memory, redb, Postgres) | rows by id, a version each | `put`, `get`, `update`, `delete`, `query` | engine, sweeps, repair |
| vector index (in-memory, pgvector) | an embedding and metadata per id | `upsert`, `delete`, `search`, `list_ids` | engine, sweeps, repair |
| evidence graph | entities, edges that cite memories | `upsert_*`, `remove_evidence`, traversal | `remember`, every deletion |
| deduplication, conflict resolution | none | `evaluate`; `analyze`, `resolve`, `close_window` | `remember` |
| lifecycle (`memory-lifecycle`) | none | `sweep`, `coordinate_delete` | store, index, graph |
| reliability | breaker state | `repair_vector_index`, `health`, retry, circuit breaker | store, index |
| workers (`memory-workers`) | last run of each worker | `run_once`, `tick_once` | repair, sweeps |
| working memory (in-process, Redis) | one revisioned state per session, with a TTL | `set`, `initialize`, `get`, `compare_and_set`, `clear` | `working_*` calls |
| procedural, prospective memory | records with a lifecycle field | transitions over read–modify–update | store |
| retrieval, planning | none | plan, execute, score | store, index, graph |
| classifier, extractors | none | `classify_text`, `extract`, relation extraction | `remember_auto`, `extract_and_remember`, `remember` |
| governance and policy | audit trail | `recall_for`, `recall_exact_for`; authorize, audit | reads of the engine, store |
| configuration, registry, assembly | provider registry; migration table; open redb files | `validated`, `from_config`, `from_parts`, `register_*`, `ensure_satisfiable` | every provider, once |
| HTTP server, Node and Python bindings, Rust SDK | engine handles | one route or function per engine call | engine |
| episodic memory | one map | append, query | callers only |
| embedding, encryption, sensitivity, testkit | none | text to vector, crypto, tests | — |

`PROJECT.json` lists every component with its status and its hazards line by line.

What is hard in this code:

- **Stale clones.** `update`, `forget`, the merge of a duplicate, conflict resolution
  and `sweep` read a record, await other providers, then write the whole clone back.
  The embedded stores accept it whatever has happened to the row; Postgres compares
  the version.
- **Three representations, no transaction.** A row, its vector and its graph edges
  are written and removed by separate awaits, in a different order in each operation,
  and a call can stop between any two (error, dropped future, crash).
- **Two ideas of visibility.** The stores test the whole scope, the vector filter and
  the Postgres `DELETE` leave out the organization.
- **Repair under traffic.** The indexing worker compares a listing of rows with a
  later listing of vectors while writers go on.
- **Transitions over stale reads.** A goal or procedure is read, the move validated, and
  the whole clone written back; the matrix says nothing of the row as it is by then.
- **Concurrent lookups.** The lookups of one recall run at different moments against a
  store that is being updated, and what they found is compared afterwards.
- **Atomics without a lock.** The circuit breaker keeps its state, its counter and its
  deadline in three places; each access interleaves with those of other threads.
- **Optimistic sessions.** The lists of a session are read, changed and written under
  a revision; the session may expire, be dropped or be replaced in between.

- **Starts that race.** Every starting process runs the same migrations, statement by
  statement and outside any transaction, and may die between a statement and its record;
  a redb file is shared inside a process and locked against all others.
- **A wire that breaks.** Over HTTP an answer may never arrive though the write was done,
  and a restarted host has lost its vectors; bindings lose the engine with the process.
- **Decisions on copies.** A governed read authorizes and audits copies read earlier,
  with one await per decision and an auditor whose failures are ignored.

What makes each modelled part correct: history is append-only and its links go back in
time; erasure is final and complete; a call touches only what its scope sees; the index
holds nothing that was never stored, and returns to exactly the live rows; on a
versioned backend no update is lost; a fact is closed only by a negation or by a voice of
at least its authority; a recall finds every fact in some version while it is being updated; a
lifecycle state is reached along the matrix; a breaker keeps its cooldown and always lets
callers back; on Redis a session is one atomic object; who serves from Postgres has the
whole schema, and every provider that was declared; what a client was told stays true and
shows nothing outside its scope; governed reads disclose what was permitted, after it was
permitted; the entity graph says of a memory what the memory says.

## 2. The modules

```
MemoryDomain <- WritePolicies <- MemoryEngine <- MCMemoryEngine
                                     |  `- INSTANCE MemoryLedger (abstract)
                                     |<- Retrieval <- MCRetrieval
                                     |<- Service <- MCService
                                     `<- Evidence <- Governance <- MCGovernance
                                                         `- INSTANCE DisclosureGate (abstract)
WorkingMemory <- MCWorkingMemory
     `- INSTANCE SessionLog (abstract)
Lifecycles <- MCLifecycles    CircuitBreaker <- MCCircuitBreaker    Startup <- MCStartup

proofs:  MemoryEngine <- MemoryEngineProofs <- RetrievalProofs   (with Retrieval)
                                           <- GovernanceProofs  (with Governance)
                                           <- ServiceProofs     (with Service)
         Startup <- StartupProofs               WorkingMemory <- WorkingMemoryProofs
         Lifecycles <- LifecyclesProofs         CircuitBreaker <- CircuitBreakerProofs
```

**MemoryDomain.** Scopes, statuses, the record, `derive_successor`, the query filter.
A record keeps only fields that some guard reads. Ids are drawn from a counter: they
stand for the time-ordered UUIDs, so the order of ids is also "newest first". The
validity window is one Boolean, `ended`: windows made by the engine are open until
`close_window` closes them at the current instant. All records have one memory type.

**WritePolicies.** The deduplication cascade and the contradiction policy as pure
operators. A statement enters through `NormOf` (normalized wording), `Similarity`
(cosine similarity in hundredths, or zero when the best-effort embedding failed) and
`Negating` (a negation cue).

**MemoryEngine.** The heart of the development. Shared state is `store`, `vectors`,
`evidence` (which memory some edge cites) and the id counter; `erased` is a history
variable. `op[c]` is the call that process `c` is in: a program counter, the caller's
scope and the records read so far, as the local variables of the `async fn`.

- Each awaited provider call is one step; what the code does between two awaits belongs
  to the step before. A first read is folded into the action that enters the call
  (nothing was done before it).
- `Abort` ends a call where it stands: a provider error propagated by `?`, a dropped
  future and a crash have the same effect on shared state, as all state is in providers.
- `Backend` selects the store: `"memory"` replaces a row under one write lock; `"local"`
  (redb) looks for it in one transaction and inserts in another, so its update takes two
  steps (`StoreUpdate`); `"postgres"` replaces it only at the version the caller read and
  bumps that version. `Deletable` has the Postgres `DELETE`'s own scope test.
- `remember` is `DedupPass`, `DedupIgnore`/`IgnoreGet`, `DedupMerge`…`MergeRetire` or
  `DedupReview`; then `ConflictPass`, `ConflictReplace`…`ReplaceIndex` or
  `ConflictQuarantine`; then `PutRecord`, `IndexRecord`, `IndexGraph`. `update` is
  `Update`, `SuccPut`, `SuccIndex`, `PredUnindex`, `Retire`; `forget` `Forget`,
  `Tombstone`, `ForgetUnindex`, `ForgetEdges`; `purge` `Purge`, `PurgeUnindex`,
  `PurgeEdges`. `sweep` loops through `SweepNext`, `Archive` and the three `Coordinate…`
  steps, which are also `forget_everywhere`. `recall_semantic` hydrates each hit and
  removes the ones the store does not show.
- `Repair` is one run of `repair_vector_index` by the indexing worker: two listings,
  then ghosts, then missing vectors.
- Callers name only identifiers that a read has shown to somebody.

**MemoryLedger** (abstract). Rows alone: append once under an unused id with a link only
to an older row; revise in status only; erase for good. `LedgerSpec` in `MemoryEngine`
instantiates it with `rows <- store`.

**Retrieval** composes hybrid recall with `MemoryEngine`: its next-state relation is a step
of the engine or a step of one recall. `plan` is the planner as an operator: which lookups
a request gets (`exact_steps`, `semantic_step`, `keyword_step`, `episodic_step`) and
`split_budget`. `Plan` starts a recall, then each lookup proceeds on its own, as under
`join_all`: `StoreLookup` is one query, `Search` one index search followed by one
`HydrateHit` per hit. `Return` merges, drops superseded candidates, ranks and cuts;
`FailRecall` is an error of any lookup. Scores are not modelled: where they decide what a
limit cuts off, any choice is possible (`Best`). Neither index looks at the scope and type
it is given, so `Search` does not either. `wanted` (what could be found when the recall was
planned) and `removed` (what somebody forgot or purged) are history.

**Evidence** extends the engine with what it derives. The graph's `edges` carry their
ends, type and the memory that justifies them; `relations[c]` is what `index_graph` has
still to add, one await each (`AddRelation`, `RelationsAdded`), and every deletion takes the
edges of its memory with it (`Proceed`). `classify_text` and `extract` are operators over
`CuesOf`, the groups of patterns a statement contains. `remember_auto` is one classified
write; `extract_and_remember` fixes a batch and `RememberItem` starts its writes in order,
until one ends in `AbortStep`. `MemoryEngine` itself only knows *whether* an edge cites a
memory: `GraphMirrored` is what ties the two.

**Governance** adds the governed reads. `recall_for` intersects the query's scope with the
principal's, `Gather` reads what the recall finds (any row that scope shows, each as it is
at that moment), `govern_read` decides and audits one record per step, `ReportQuery` audits
the query, `Return` answers; `recall_exact_for` enters at the decision. `audit` puts the
event on the trail or loses it, as its result is ignored (`engine.rs:175`). `disclosed` is
history. **DisclosureGate** (abstract) is the promise: events are only added, and a record is
disclosed only inside the principal's scope and after its permission was given to the
auditor. `GateSpec` instantiates it with `trail <- trail \cup lost`: what the code ensures is
that the auditor was asked, not that it kept the event.

**Service** composes the surfaces with the engine. `Offered`, `Sent`, `HandlerRefuses`,
`EngineRefuses` and `map_error` say per surface which calls exist, which dimensions of the
caller's scope reach the engine, what is refused where and what an error becomes. A call
is sent, becomes an engine call whose steps are those of `MemoryEngine` (`Handle`), a walk
along the history (`Walk`) or a recall (`HydrateOne`, `Recalled`), and is received. `Crash`
takes the engine's memory with it, keeps the rows of the local store and gives every client
a transport error; `Disconnect` drops one handler where it waits; `CloseHandle` is Node's;
`OpenHost` starts again. `told` is history: what clients were promised by answers.

**Startup** is `from_config` await by await: validation, the store (`OpenLocal` with the
process-wide cache of open redb files, or the Postgres migrations `CreateMigrationTable`,
`CheckApplied`, `ApplyStatement`, `ScriptDone`, `RecordMigration`), working store, vector
index. Processes share one database and one file. `Fail` ends a start anywhere and lets go of
what it had opened; the file is unlocked a step later (`Release`). The registry, the assembly
plan and `from_parts` are `HostRegisters`, `ensure_satisfiable` and `AssembleFromParts`.

**Lifecycles.** Goals and procedures on each of the three stores (`backend` is chosen in
`Init`). A call reads the row and validates the move in one step (`Transition`: nothing was
done before the read) and writes its clone back in a later one (`Check`, `Write`,
`Refuse`), with the version counted up as the code does. Other writers of the same row
(`Forget`, `Retire` by `update`, `Delete` by `purge`) race with it. `passed` is history: the
states a row has been in.

**CircuitBreaker.** Every atomic operation and every critical section of one thread is a
step. `allow` is `Load`, and when it reads OPEN `CheckCooldown`, `StoreHalfOpen` and
`ResetFailures` under the mutex; a success is `ClearFailures`, `StoreClosed`; a failure is
`CountFailure` and, at the threshold, `StoreOpen`, `Deadline` (the clock is read before the
lock is taken) and `Arm`. Deadlines are ticks left and the counter saturates at the
threshold, the only thing it is compared with, so the state space is finite without a
bound on time or calls.

**WorkingMemory.** One session on either provider. The mutation loop is `Mutate`, `Read`,
then `CasAccept` (Redis, one script) or `CasCheck`, `CasSet` (the trait's default, a
read and a check followed by an unguarded set), `CasConflict` (retry, up to
`MAX_RACES`) or `CasMissing`. `Expire` can happen at any moment: an entry past its TTL
is invisible to every read of either store, so expiring is removal.

**SessionLog** (abstract). The session as one object with atomic create, push and drop.

Operators under a comment "Seeded fault" are variants of a definition with a plausible
bug; they are used by nothing in the specifications and show that a property notices
the bug.

## 3. The runs

All runs but `breaker` set `CHECK_DEADLOCK FALSE`: calls are bounded by `MaxCalls`, and
when they are used up and finished the model stops, as the program does when nobody calls
it. In `breaker` threads call for ever, and deadlock is checked.

| run | asks | bounds | shows |
|---|---|---|---|
| `engine_races` | every write, update, removal, sweep and recall of two clients, racing and failing | in-memory store, two tenants, 3 ids, 4 calls, a user's `Session` fact and an agent's `Standard` record that lapse | `HistoryImmutable`, `ChainGoesBack`, `SupersededHasSuccessor`, `ErasedStaysErased`, `IndexAfterRow`, `DeletionInScope`, `RecallSparesStored`, refinement of the ledger |
| `engine_policies` | deduplication and conflict analysis, racing with forget and purge | Postgres, five statements (equal, near, reviewable, unrelated negation), 3 ids, 3 calls | `NoLostUpdate`, `AuthorityDominates`, refinement of the ledger |
| `engine_repair` | does the index come back | redb store, one client, one worker, 2 ids, 3 calls, failures, fairness | `IndexConverges` |
| `retrieval` | one hybrid recall while two clients remember, update and forget | in-memory store, 3 ids, 3 calls, five requests: each mode, with and without an exact lookup, supporting evidence and similarity search, budgets around and far above the number of lookups | `UpdatesLeaveNoGap`: a fact under update is shown in the version it had or a later one, unless somebody removed it; `BudgetSpent`: every lookup gets a candidate, and a budget of at least one for each is split without loss (the other case is in section 5) |
| `working_memory` | concurrent mutations, clearing and expiry of one session | 3 callers, 6 calls, lists capped at 2, 2 attempts, both providers, a session created once | `PushesAreAtomic`, `RaceMeansProgress` |
| `lifecycles` | two callers move, forget, retire and purge one record | all three stores, one id, 8 calls | `StatesAreEarned`, `RevisionsCoverPath` |
| `breaker` | three threads through one breaker | threshold 2, cooldown 2 ticks, unbounded time and calls, fairness | `OpenIsTimed`, `CooldownKept`, `Recovers`, no deadlock |
| `startup` | two processes start on one database and one file | four configurations for each engine, migrations of two and one statements, one failure, one close, fairness | `ServesFullSchema`, `DeclaredMeansServed`, `StartsConverge` |
| `service` | two clients through REST, SDK, Node or Python | local store, up to one row of an earlier host, 2 calls, 2 crashes, closings or broken connections, provider failures, fairness | `PromisesKept`, `AnswersInScope`, `CallsReturn` |
| `governance` | governed reads against writers, extraction and removal | one principal, one read, two clients, 2 calls, 2 ids, a statement with two relations and one self-relation, authorizer present or not, failures of providers and auditor, fairness | refinement of `DisclosureGate`, `GraphMirrored`, `EdgesTrue`, `ExtractionLeavesPrefix`, `ReadsReturn` |
| `erasure_race`, `forgotten_returns` | one documented promise each | the smallest instance that shows it | the promise does not hold: section 5 |

Why the bounds are enough. Every hazard of the engine involves at most two calls on
one row and what a third did before. Three ids give a chain of two links, or one
record and the successors of two concurrent updates. Four calls are enough for a write,
two racing changes of it and an erasure. Two instants and a grace of one put a record
before, at and after both deadlines. `DEDUP_LIMIT`, `CONFLICT_LIMIT` and `BATCH_LIMIT`
have the code's values and never bind with three rows; behaviour at those limits is not
checked yet. The list cap (50) is 2, so it is reached within three pushes; the attempts
(5) are 2, so they run out within six calls; both are constants of the theorems.
Eight calls are a publication, the four moves to the last state of a procedure and three
calls that race with them. A third thread is what the breaker's races need: one that opens, one that opens
at the same time and one that probes. In `retrieval` three ids are a fact and the successors
of two concurrent updates. `purge`, `forget_everywhere`, sweeps and the repair are not among
its calls: purging out of scope, `coordinate_delete` (which unindexes before it removes) and
the repair's ghosts take the vector of a row that stays, so a gap after them is the one the
hazards of `engine.rs:695` and `reliability.rs:114` describe and not one of the recall.

Two processes and a migration of two statements are what the races of `startup` need: one
is between the statements, or between script and record, while the other starts or serves;
more statements repeat them. In `service` two calls race over a row that exists already, with
two breaks, so that a call can be cut off and its host or connection lost again before the
next; `forgotten_returns` takes three calls in a row. In `governance` what a decision meets is
a record written, or erased, after it was read: one read, and two writers or one writer and
one eraser, show it. Updates are not among its calls, as a successor keeps the scope of what it
replaces and adds no edges. The budget of two is that of the ids.

Symmetry under permutation of the callers is used only in runs without liveness.

**Fairness.** `engine_repair` and `breaker` need it. In `engine_repair`, `WF(Continue(c))`: a call under way is polled
until it returns. `WF(Repair(w))`: the ticker (`memory-workers/src/ticker.rs:36`) drops the
error of a run and starts it again on the next tick. No client has to start a call. The
worker's own provider calls do not fail in the model: with calls bounded and each tick a
retry this is the assumption that the providers eventually answer. In `breaker`,
`WF(Call(c))` says that the operating system schedules every thread, that wrapped
operations end (in success or failure, `Operation` chooses) and that callers keep coming:
a breaker half-opens only when somebody asks, so without callers it stays open for good.
`WF(Tick)` says that time advances. In `startup`, `WF(StartStep(e))`: supervisors start what is
down, and a start under way goes on; `WF(Release)`: a file that is let go is unlocked. Failures
and closings are bounded, without which no start need ever succeed. In `service`,
`WF(Serve(c))`: the server polls its handlers, and an answer arrives unless the connection
breaks; nobody has to send, and nobody restarts a host. In `governance`, `WF(Govern(p))`: a read
under way is polled.

## 4. The proofs

All are for any sets of clients, workers, scopes, statements and any bounds. Every
invariant and every action property that a passing run checks is a theorem, under the
assumptions named below; each of these holds in the run that checks the property, so the
run shows that the theorem is not empty.

### The engine (`MemoryEngineProofs`)

The algebra of scopes comes first: `ContainsOrder`, `IntersectIsMeet`,
`FilterCoversVisible`, `DeleteCoversVisible`. The inductive invariants build on each other:

- `TypeInv == TypeOK /\ CallsOK` gives `TypeCorrect`. `TypeOK` is not inductive alone:
  `CallsOK` says which of `rec`, `old`, `id` a call holds at each program counter.
- `LedgerInv` is about identity:
  - `RowsInPlace` (a row sits under its own id), `LinksGoBack` (ids in use are below the
    counter and link to older ids), `OneIdentity` (two rows, stored or erased, with one id
    agree on everything that may not change);
  - `CopiesAccounted`: every record held by a call is, up to status and window, the
    row of its id or an erased one, which is what makes a stale write-back harmless to
    history;
  - `PendingFresh`, `PendingDistinct`: the records still to be put have ids no row and no
    other call has;
  - `NoReturn`: no erased id is stored, unless the store is the local one.

  Each action is one of five kinds of step (`Quietly`, `Mints`, `Puts`, `WritesBack`,
  `Deletes`); one lemma per kind shows that it keeps the invariant, one step per action
  says of which kind it is. It gives `ChainsEnd` (`ChainGoesBack`), `HistoryKept`
  (`HistoryImmutable`), `ErasureFinal` (`ErasedStaysErased`) and `KeepsLedger`
  (`LedgerSpec`).
- `IndexInv` says that a vector carries the metadata of a row that is stored or was erased
  (`VectorsMirror`), an edge cites one (`EdgesCite`), and a call that is about to index has
  put its row (`WrittenFirst`). It gives `IndexFollowsRow` (`IndexAfterRow`), and with
  `HitsInScope` (the hits a recall has still to hydrate mirror its scope)
  `GhostsAreGone` (`RecallSparesStored`).
- `ErasureInScope` (`DeletionInScope`): each deletion tests the row it deletes.
- `VersionsAgree` says that a call's copy with the version of the row is the row, and that no
  copy is ahead of it. It gives `UpdatesKept` (`NoLostUpdate`). With `DecisionStands` (the
  decision a conflict pass took is about the immutable part of the fact, and the fact it
  reads again before closing it is the same up to status) it gives `AuthorityKept`
  (`AuthorityDominates`), although the fact is read twice.
- `SuccessionInv` says that whoever retires a row has stored a record naming it
  (`RetireNamed`). It gives `FactsSucceeded` (`SupersededHasSuccessor`).

| theorem | assumes | because |
|---|---|---|
| `ErasureFinal`, `KeepsLedger` | `Backend # "local"` | the redb store's two transactions let an update put back a row deleted between them |
| `GhostsAreGone` | `Backend # "local"`, no caller pins the organization | the same, and the vector metadata leaves out the organization: rows of another one are taken for ghosts |
| `ErasureInScope` | `Backend # "postgres"` | the Postgres `DELETE` does not compare the organization |
| `UpdatesKept`, `AuthorityKept` | `Backend = "postgres"` | the embedded stores accept a clone whatever has happened to the row |
| `FactsSucceeded` | deduplication and conflict analysis off | the successor a merge puts names the incoming record, which is never stored; conflict analysis closes the old fact before it puts the new one, which names nothing |

### What is composed with it

- `RetrievalProofs`. Every step of the composition is one of the engine or leaves it alone
  (`RecallBeside`), so all of the above holds beside a recall. `RecallTypes`
  (`RecallTypeOK`); `BudgetSplit` (`BudgetSpent`: nothing of a
  budget with a candidate for each lookup is lost or added) from what rounding leaves of at most
  three shares (`StepsType`, `SharesSum`, `SplitSpends`), and from the same `BudgetOverrun`: the
  limits stay within the budget, as the comment on `split_budget` promises, exactly when
  there is a candidate for each lookup.

  `UpdatesHideNothing` (`UpdatesLeaveNoGap`) is the theorem about concurrency here. The
  property says what a recall *shows*; the inductive invariant `GapInv` has to say at every
  moment of it, for each fact it is to find, who will. With `Kin(w)` the versions of `w`:
  - `Undropped` is about the engine. Of each fact some version can be found by its vector,
    or was forgotten, whenever a call removes the vector of a predecessor (`Honest` at
    `predUnindex`): this is the order `put`, `index`, unindex, retire of `update`
    (`engine.rs:604`) as an invariant, and `CoveredStays` shows that it is enough.
    Rows name predecessors of their own scope and subject, and are never closed
    (`RowsOpen`), so the last version of a fact nobody forgot is active (`LastIsActive`).
  - `LookupsTrue`: what a lookup has still to hydrate is stored; its copies have the links
    of the rows, so a copy loses only to a real successor.
  - `WantedServed`: each fact is served by a lookup that has not begun and is bound to find
    it, or by one that holds a version of it.

  Then `Return` keeps the last version that was found. It assumes `Undisturbed`: the calls beside
  the recall are `remember`, `write_unindexed`, `update`, `forget` and, when no caller
  pins the organization, `recall_semantic`, without the write policies and workers. Any
  store, any number of clients, and failures anywhere are in. The rest is out because
  the property does not hold there: `purge`, `forget_everywhere`, a sweep and the repair's
  ghosts remove vectors of rows that stay, and the policies retire a row without a
  successor that is indexed.
- `GovernanceProofs`: `GovernanceTypes` (`GovernanceTypeOK`), `GraphKept` (`GraphMirrored`) and
  `GateHolds` (`GateSpec`). `EvInv` adds to the types and `GraphMirrored` that the edges a
  call has still to add cite the record it holds (`PendingCites`): without it an added edge
  could cite a memory the engine does not take for cited. `GovInv` adds `Cleared`: what a
  read holds as allowed is in the principal's scope and its permission was given to the
  auditor, if there is an authorizer.

  `EdgesSayTrue` (`EdgesTrue`) and `PrefixLeft` (`ExtractionLeavesPrefix`) come from
  `DerivedInv`, which speaks of stored *and erased* memories. `EdgesTrue` alone is not
  inductive: on the local store an erased row can come back, and the edges that cite it
  must be true of it then. `PrefixLeft` assumes that deduplication is off, with which an
  item already known is never stored.
- `ServiceProofs`: `ServiceTypes`, `TruthKept` (`PromisesKept`), `AnswersStayInScope`
  (`AnswersInScope`). The invariant `ServiceInv` carries what a promise rests on to the
  moment it is made: the row a handler is about to acknowledge is stored, and a copy that
  may still be written over it is in no state that breaks it. They are about the engine as
  `ServiceAssumption` has it: an embedded store (the server's, the bindings') and no write
  policies.

### The other components

- `WorkingMemoryProofs`: `TypeCorrect`; from `RaceInv` (each caller's `Tracks`: what it has
  seen is not newer than the entry, and equal to it at an equal revision)
  `LosersMeetWriters` (`RaceMeansProgress`) and `PushesAtomic` (`PushesAreAtomic`). Both
  assume `SingleLife`, as must the run: `set_working_state` restarts a live session at
  revision 1 (`engine.rs:731`), so a revision read before matches again after it and the
  write it guards puts the old lists over the new session. With `SingleLife = FALSE` TLC
  finds `PushesAreAtomic` violated, against `memory-provider-api/src/working.rs:21`
  ("Monotonic revision bumped on every accepted write.").
- `LifecyclesProofs`: `TypeCorrect`; `RevisionsCover` from `PathInv` and `EarnedStates` from
  `EarnedInv`. Each extends the property to the clones in flight: what a call is about
  to write is covered, or earned, too. That is the whole reason why stale write-backs are
  harmless here, as a clone is made by a legal move from a row that had the property.
- `CircuitBreakerProofs`: `TypeCorrect`, `WayOut` (`OpenIsTimed`) and `CooldownHolds`
  (`CooldownKept`). The inductive invariant `KeptInv` adds to the types: the caller
  that holds the mutex to half-open found the cooldown over (`Latched`); outside contested
  openings at most one caller is opening (`OneOpening`), and both the deadline it computed
  (`DueOnTime`) and the stored one (`StoredOnTime`) end no earlier than the cooldown counted
  from the opening. Without `sinceOpen` and `contested` none of this could be said.
- `StartupProofs`: `StartupTypes` (`TypeOK`), `RecordsAreTrue`, `SchemaComplete`
  (`ServesFullSchema`). The inductive invariant says of every start how far it has really
  come: the statements before the one it is at have been applied, the migrations before the
  one it is at are recorded, and a recorded migration is applied to its last statement. It
  holds because nothing is ever dropped from the database, whoever fails where.
  `ServesDeclared` (`DeclaredMeansServed`) adds what each point of a start has connected.

Assumptions are the named `ASSUME`s of the modules (`DomainAssumption`,
`PolicyAssumption`, `EngineAssumption`, `RetrievalAssumption`, `WorkingAssumption`,
`MissingAssumption`, `LifecycleAssumption`, `NoRowAssumption`, `BreakerAssumption`,
`EvidenceAssumption`, `GovernanceAssumption`, `ServiceAssumption`, `StartupAssumption`); TLC
evaluates them in every run of a module that extends theirs.

No module declares a recursive operator. What is computed by recursion is a function, and
two proofs need facts about one without induction over it: `Total` has at most three terms,
so its defining equation has an explicit solution; the versions of a fact are the least set
with it that is closed under succession (`FamilyEquation`, `FamilyLeast`), and every
use of `Descends` is of that.

Only model-checked: `IndexConverges`, `Recovers`, `StartsConverge`, `CallsReturn` and
`ReadsReturn`, which are liveness under fairness and out of this prover's reach, as is
anything about `ENABLED` or by induction over data.

## 5. Where code and documentation part

| run | promise | what the code does |
|---|---|---|
| `erasure_race` | erasure from every representation (`memory-core/src/lifecycle.rs:27`) | a `remember` still in flight adds the graph edge after the erasure |
| `forgotten_returns` | tombstoned memories read as absent (`memory-server/src/api.rs:171`) | `update` accepts a tombstone and writes `Superseded` over it (`engine.rs:586`, `612`), and GET hides a record only while it is `Deleted` |

Met on the way, in the models or in the code beside them, without a run of their own:

- *Engine.* The metadata filter of the vector search omits the organization, so a recall in
  one organization takes the live vectors of another for ghosts and removes them
  (`engine.rs:262`, `663`). `derive_successor` drops the provenance, so an updated user
  statement counts as an agent's and an agent's claim closes it (`record.rs:156`, against
  `resolution.rs:117`). A merge's successor links to the incoming record, which is never
  stored, and is not indexed (`engine.rs:426`). `update` does not index the relations of its
  successor, and is not measured against `max_content_chars`. On the redb store an update in
  its two transactions can bring back a row whose purge was acknowledged.
- *Lifecycles.* Of two racing transitions the second moves a completed or cancelled goal on,
  against "Terminal states are final." (`prospective.rs:47`). On Postgres a transition counts the
  version up before the guarded update compares it, so it always conflicts with itself
  (`prospective.rs:69`, `provider-postgres/src/store.rs:197`).
- *Stores.* The Postgres `DELETE` does not compare the organization
  (`provider-postgres/src/store.rs:262`).
- *Recall.* The semantic lookup shows tombstones and archived rows whose vector is still there
  (`memory-retrieval/src/executor.rs:222`). `split_budget` says that the limits are "summing to
  at most the plan budget" (`memory-retrieval/src/planner.rs:226-227`), but each step gets at
  least one candidate (`planner.rs:240`) and nothing is taken back, so two lookups over a
  budget of one fetch two; only the answer is cut to the budget (`executor.rs:121`). The promise
  is `LimitsWithinBudget`, which TLC refutes as soon as it is added to the invariants of
  `retrieval.cfg`, and the theorem `BudgetOverrun` says for which requests it is kept.
- *Extraction.* `extract_and_remember` stops at the first error and keeps what it stored, so a
  retry stores it twice; it drops the subtype.
- *Governance.* A failing auditor is ignored (`engine.rs:175`); a recall that fails, or is refused
  for its scope, leaves no event; a denied record looks like an absent one; writes are not
  authorized; `recall_exact_for` takes the scope of the call without intersecting it with the
  principal's, and without an authorizer it audits nothing.
- *Surfaces.* DELETE answers 204 also when it found nothing; the SDK sends no scope with calls
  by identifier and has no timeout; after a restart the server's vectors are gone and nothing
  rebuilds them.
- *Start.* Of two processes that apply one migration the second fails on its name, and has to
  be started again; a redb file can be found closing by a start in the same process; the
  pgvector table has 384 dimensions whatever the configuration says
  (`provider-pgvector/src/lib.rs:52`); `from_parts` checks nothing.

## 6. Not modelled

Text: the wording rules of classifier, extractors, normalization and keywords are constants
of the models. Embeddings and scores; `model` stamps of pgvector. Encryption and sensitivity:
library calls that the engine does not make. `authorize_write`: called by nothing. Reads that
only filter (open and due goals, active procedures, graph traversal). Graph entities: written
with the edges, never removed. The `memory_versions` audit table of Postgres: written in the
transaction of the update, read by nothing the engine calls. Archival hooks: they cannot
change a sweep. Episodes: one map under one lock, every operation atomic, read by no other
component (an append under a used id replaces the episode, though `episode.rs` calls them
immutable). Payloads of a session that do not parse as lists. Validity windows given by
callers, and queries at another instant. `with_retry`: a loop of one caller with a delay and
no shared state. The testkit, and the SDKs in other languages. Metrics, tracing, health.

## 7. Plan

Done: domain, write policies, the engine with its providers and the ledger; working memory and
its atomic session; lifecycles; the circuit breaker; hybrid recall over the engine; the start
of engines; the surfaces; evidence, extraction and governed reads; and the theorems of
section 4. Next, in this order:

1. `MemoryEngine` at its limits: a small `BATCH_LIMIT` (repair and sweep see only the newest
   rows) and `VectorLists = FALSE` (pgvector), and the ticker's cadence.
2. The gaps that purges, sweeps and repairs open in a recall, each stated exactly; what a
   recall shows of retired rows.
3. The safety half of `IndexConverges`: when no call is under way, what one repair leaves of
   the index, as a theorem.
4. An abstract breaker per sequence of calls that `CircuitBreaker` implements.
