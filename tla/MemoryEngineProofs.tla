------------------------- MODULE MemoryEngineProofs -------------------------
(***************************************************************************)
(* Theorems of MemoryEngine, for every value of its constants: any number  *)
(* of clients, workers, records, scopes and statements, any configuration  *)
(* of the engine and any of the three canonical stores.                    *)
(*                                                                         *)
(* The scope algebra, which needs no state; type correctness; the ledger   *)
(* of MemoryLedger, which the engine keeps unless its store is the local   *)
(* one, where an update that looked for its row before a purge brings the  *)
(* row back after it; what a call may have put in the vector index; and    *)
(* the steps of one call: what a recall and a deletion may touch, what a   *)
(* versioned store keeps of concurrent writes, and what closing a replaced *)
(* fact leaves behind.                                                     *)
(*                                                                         *)
(* Two lemmas carry most of it: StepKind, the few things a step does to    *)
(* the store and to the copies in flight, and NextMoves, the few ways in   *)
(* which it changes the call of the process that takes it.                 *)
(***************************************************************************)
EXTENDS MemoryEngine, TLAPS

-----------------------------------------------------------------------------
(* The scope algebra: how the visibility of the canonical store relates to   *)
(* the two weaker checks made elsewhere, the metadata filter of a vector     *)
(* search and the WHERE clause of the Postgres DELETE.                       *)

\* Visibility is a partial order: a wider scope sees whatever a narrower scope
\* sees, and two scopes that see each other are the same.
THEOREM ContainsOrder ==
    ASSUME NEW a \in Scope, NEW b \in Scope, NEW c \in Scope
    PROVE  /\ Contains(a, a)
           /\ Contains(a, b) /\ Contains(b, c) => Contains(a, c)
           /\ Contains(a, b) /\ Contains(b, a) => a = b
<1>1. Contains(a, a) /\ (Contains(a, b) /\ Contains(b, c) => Contains(a, c))
  BY DEF Contains, dim_matches
<1>2. ASSUME Contains(a, b), Contains(b, a)
      PROVE  a = b
  <2>1. \A d \in Dims : a[d] = b[d]
    BY <1>2 DEF Contains, dim_matches
  <2>2. QED
    BY <2>1 DEF Scope
<1>3. QED
  BY <1>1, <1>2

\* intersect() narrows: when it returns a scope, that scope sees exactly the
\* records both sides see; when it returns none, no record is seen by both.
THEOREM IntersectIsMeet ==
    ASSUME NEW a \in Scope, NEW b \in Scope, NEW c \in Scope
    PROVE  /\ CanIntersect(a, b) =>
                  (Contains(Intersect(a, b), c) <=> Contains(a, c) /\ Contains(b, c))
           /\ ~CanIntersect(a, b) => ~(Contains(a, c) /\ Contains(b, c))
<1>1. ASSUME CanIntersect(a, b)
      PROVE  Contains(Intersect(a, b), c) <=> Contains(a, c) /\ Contains(b, c)
  BY <1>1 DEF CanIntersect, Intersect, reconcilable, Contains, dim_matches
<1>2. ASSUME Contains(a, c), Contains(b, c)
      PROVE  CanIntersect(a, b)
  BY <1>2 DEF CanIntersect, reconcilable, Contains, dim_matches
<1>3. QED
  BY <1>1, <1>2

\* The pre-filter of a vector search never hides the vector of a visible record;
\* what it lets through besides are records of another organization.
THEOREM FilterCoversVisible ==
    ASSUME NEW scope \in Scope, NEW candidate \in Scope
    PROVE  Contains(scope, candidate) <=>
               /\ FilterMatches(scope, vector_metadata(candidate))
               /\ "organization" \in Dims =>
                      dim_matches(scope["organization"], candidate["organization"])
BY DEF Contains, FilterMatches, vector_metadata, MirroredDims

\* The Postgres DELETE removes every record the caller sees, and some it does not:
\* a visible record satisfies the clause, which is weaker than visibility.
THEOREM DeleteCoversVisible ==
    ASSUME NEW scope \in Scope, NEW candidate \in Scope, Contains(scope, candidate)
    PROVE  \A d \in MirroredDims : reconcilable(candidate[d], scope[d])
BY DEF Contains, dim_matches, reconcilable, MirroredDims

-----------------------------------------------------------------------------
(* The data *)

\* A record built from a request is a record.
LEMMA IntoRecordType ==
    ASSUME NEW id \in Ids, NEW req \in RememberRequest
    PROVE  /\ into_record(id, req) \in MemoryRecord
           /\ into_record(id, req).id = id
           /\ into_record(id, req).supersedes = 0
BY DEF into_record, MemoryRecord, RememberRequest, Status, Ids

\* A successor is a record, with a fresh identity and a link to its predecessor.
LEMMA DeriveType ==
    ASSUME NEW id \in Ids, NEW r \in MemoryRecord, NEW content \in Contents
    PROVE  /\ derive_successor(id, r, content) \in MemoryRecord
           /\ derive_successor(id, r, content).id = id
           /\ derive_successor(id, r, content).supersedes = r.id
<1> DEFINE req == [scope |-> r.scope, subject |-> r.subject,
                   content |-> content, confidence |-> r.confidence,
                   source |-> "Agent", retention |-> r.retention]
<1>1. req \in RememberRequest /\ r.id \in Nat
  BY DEF RememberRequest, MemoryRecord, SourceKind, Ids
<1>2. into_record(id, req) \in MemoryRecord /\ into_record(id, req).id = id
  BY <1>1, IntoRecordType
<1>3. derive_successor(id, r, content)
          = [into_record(id, req) EXCEPT !.supersedes = r.id]
  BY DEF derive_successor
<1>. HIDE DEF req
<1>4. QED
  BY <1>1, <1>2, <1>3 DEF MemoryRecord

\* The write-backs of a record: a new status, a closed window, a new version.
LEMMA WriteBackType ==
    ASSUME NEW r \in MemoryRecord
    PROVE  /\ \A s \in Status : [r EXCEPT !.status = s] \in MemoryRecord
           /\ close_window(r) \in MemoryRecord
           /\ Updated(r) \in MemoryRecord
<1>1. \A s \in Status : [r EXCEPT !.status = s] \in MemoryRecord
  BY DEF MemoryRecord
<1>2. [r EXCEPT !.ended = TRUE, !.status = "Superseded"] \in MemoryRecord
  BY DEF MemoryRecord, Status
<1>3. [r EXCEPT !.version = r.version + 1] \in MemoryRecord
  BY DEF MemoryRecord
<1>4. QED
  BY <1>1, <1>2, <1>3 DEF close_window, Updated

LEMMA ConfidenceType ==
    ASSUME NEW r \in MemoryRecord, NEW x \in Confidences
    PROVE  [r EXCEPT !.confidence = x] \in MemoryRecord
BY DEF MemoryRecord

LEMMA MetadataType ==
    ASSUME NEW r \in MemoryRecord
    PROVE  vector_metadata(r.scope) \in Metadata
BY DEF MemoryRecord, Scope, vector_metadata, Metadata, MirroredDims

LEMMA GlobalScopeType == GlobalScope \in Scope
BY DEF GlobalScope, Scope

LEMMA IdleType == Idle \in Call
BY GlobalScopeType DEF Idle, Call, PCs

-----------------------------------------------------------------------------
(* Type correctness.  Alone, TypeOK is not inductive: a call may only write    *)
(* the record it holds when it holds one.                                      *)

\* The points of a call at which it has a record to write, or one it read.
HoldsRec == {"dedup", "ignoreGet", "mergePut", "conflict", "replaceGet",
             "replaceClose", "replaceUnindex", "replacePut", "replaceIndex",
             "put", "index", "graph", "putOnly", "succPut", "succIndex"}

HoldsOld == {"mergePut", "mergeUnindex", "mergeRetire", "replaceClose",
             "succPut", "succIndex", "predUnindex", "retire", "tombstone",
             "archive"}

Equipped(call) ==
    /\ call.pc \in HoldsRec => call.rec \in MemoryRecord
    /\ call.pc \in HoldsOld => call.old \in MemoryRecord

CallsOK == op \in [Procs -> Call] /\ \A p \in Procs : Equipped(op[p])

TypeInv == TypeOK /\ CallsOK

LEMMA IdleEquipped == Equipped(Idle)
BY DEF Equipped, Idle, HoldsRec, HoldsOld

\* The three ways a step changes the call of a process.
LEMMA BecomeType ==
    ASSUME CallsOK, NEW p \in Procs, NEW call \in Call, Equipped(call),
           Become(p, call)
    PROVE  CallsOK'
BY DEF CallsOK, Become, Equipped

LEMMA FinishType ==
    ASSUME CallsOK, NEW p \in Procs, Finish(p)
    PROVE  CallsOK'
BY BecomeType, IdleType, IdleEquipped DEF Finish

LEMMA GotoType ==
    ASSUME CallsOK, NEW p \in Procs, NEW pc \in PCs, Goto(p, pc),
           pc \in HoldsRec => op[p].pc \in HoldsRec,
           pc \in HoldsOld => op[p].pc \in HoldsOld
    PROVE  CallsOK'
<1> DEFINE call == [op[p] EXCEPT !.pc = pc]
<1>1. call \in Call /\ Equipped(call)
  BY DEF CallsOK, Call, Equipped
<1>2. Become(p, call)
  BY <1>1 DEF Goto, Become, CallsOK
<1>3. QED
  BY <1>1, <1>2, BecomeType

\* What a query returns are records.
LEMMA QueryType ==
    ASSUME TypeOK, NEW scope, NEW statuses, NEW subject, NEW limit
    PROVE  Query(scope, statuses, subject, limit) \subseteq Rows
           /\ Rows \subseteq MemoryRecord
BY DEF TypeOK, Query, Newest, Rows, Stored

LEMMA StoreUpdateType ==
    ASSUME TypeInv, NEW p \in Procs, NEW r \in MemoryRecord, NEW call \in Call,
           Equipped(call), StoreUpdate(p, r, call)
    PROVE  store' \in [Ids -> MemoryRecord \cup {NoRecord}] /\ CallsOK'
<1> USE DEF TypeInv
<1>1. CASE op' = [op EXCEPT ![p].checked = TRUE] /\ UNCHANGED store
  <2> DEFINE checked == [op[p] EXCEPT !.checked = TRUE]
  <2>1. checked \in Call /\ Equipped(checked)
    BY DEF CallsOK, Call, Equipped
  <2>2. Become(p, checked)
    BY <1>1 DEF Become
  <2>3. QED
    BY <1>1, <2>1, <2>2, BecomeType DEF TypeOK
<1>2. CASE /\ store' = [store EXCEPT ![r.id] = Updated(r)]
           /\ Become(p, [call EXCEPT !.checked = FALSE])
  <2>1. [call EXCEPT !.checked = FALSE] \in Call
        /\ Equipped([call EXCEPT !.checked = FALSE])
    BY DEF Call, Equipped
  <2>2. Updated(r) \in MemoryRecord
    BY WriteBackType
  <2>3. QED
    BY <1>2, <2>1, <2>2, BecomeType DEF TypeOK
<1>3. CASE Finish(p) /\ UNCHANGED store
  BY <1>3, FinishType DEF TypeOK
<1>4. QED
  BY <1>1, <1>2, <1>3 DEF StoreUpdate

LEMMA StoreDeleteType ==
    ASSUME TypeOK, NEW i \in Ids \cup {0}, NEW scope, StoreDelete(i, scope)
    PROVE  /\ store' \in [Ids -> MemoryRecord \cup {NoRecord}]
           /\ erased' \subseteq MemoryRecord
<1>1. CASE ~Deletable(i, scope)
  BY <1>1 DEF TypeOK, StoreDelete
<1>2. CASE Deletable(i, scope)
  <2>1. i \in Ids /\ store[i] \in MemoryRecord
    BY <1>2 DEF TypeOK, Deletable, Visible, Stored
  <2>2. QED
    BY <1>2, <2>1 DEF TypeOK, StoreDelete
<1>3. QED
  BY <1>1, <1>2

LEMMA IndexType ==
    ASSUME TypeOK, NEW r \in MemoryRecord, IndexVector(r)
    PROVE  vectors' \in [Ids -> Metadata \cup {NoVector}]
BY MetadataType DEF TypeOK, IndexVector

LEMMA UnindexType ==
    ASSUME TypeOK, NEW i, RemoveVector(i)
    PROVE  vectors' \in [Ids -> Metadata \cup {NoVector}]
BY DEF TypeOK, RemoveVector

LEMMA PutType ==
    ASSUME TypeOK, NEW r \in MemoryRecord, StorePut(r)
    PROVE  store' \in [Ids -> MemoryRecord \cup {NoRecord}]
BY DEF TypeOK, StorePut

\* Entering an operation counts the call and places the caller in it.
LEMMA EnterType ==
    ASSUME TypeInv, NEW p \in Procs, NEW operation, NEW call \in Call,
           Equipped(call), Enter(p, operation, call)
    PROVE  CallsOK' /\ calls' \in 0..MaxCalls
<1>1. CallsOK'
  BY BecomeType DEF TypeInv, Enter
<1>2. calls' \in 0..MaxCalls
  BY EngineAssumption DEF TypeInv, TypeOK, Enter
<1>3. QED
  BY <1>1, <1>2

\* A write of any request, whoever put it together.
LEMMA RememberType ==
    ASSUME TypeInv, NEW p \in Procs, NEW req \in RememberRequest,
           Remember(p, req) \/ WriteUnindexed(p, req)
    PROVE  TypeInv'
<1> USE DEF TypeInv
<1>1. nextId \in Ids /\ req.scope \in Scope
  BY DEF Remember, WriteUnindexed, RememberRequest
<1>2. into_record(nextId, req) \in MemoryRecord
  BY <1>1, IntoRecordType
<1>3. \A pc \in PCs \ HoldsOld :
          NewRecordCall(pc, req) \in Call /\ Equipped(NewRecordCall(pc, req))
  BY <1>1, <1>2, IdleType DEF NewRecordCall, Call, Equipped, Idle
<1>4. {"dedup", AfterDedup, "putOnly"} \subseteq PCs \ HoldsOld
  BY DEF AfterDedup, PCs, HoldsOld
<1>5. CallsOK' /\ calls' \in 0..MaxCalls
  BY <1>3, <1>4, EnterType DEF Remember, WriteUnindexed
<1>6. nextId' \in 1..(MaxRecords + 1)
  BY <1>1, DomainAssumption DEF Remember, WriteUnindexed, Ids
<1>7. QED
  BY <1>5, <1>6 DEF Remember, WriteUnindexed, TypeOK, CallsOK

\* An update, whoever asks for it.
LEMMA UpdateType ==
    ASSUME TypeInv, NEW p \in Procs, NEW i, NEW scope \in Scope,
           NEW content \in Contents, NEW confidence \in Confidences,
           Update(p, i, scope, content, confidence)
    PROVE  TypeInv'
<1> USE DEF TypeInv
<1>1. CASE Visible(i, scope)
  <2> DEFINE rec == [derive_successor(nextId, store[i], content)
                        EXCEPT !.confidence = confidence]
             call == [Idle EXCEPT !.pc = "succPut", !.scope = scope,
                                  !.old = store[i], !.rec = rec]
  <2>1. nextId \in Ids /\ store[i] \in MemoryRecord /\ scope \in Scope
    BY <1>1, EngineAssumption DEF Update, Visible, Stored, TypeOK
  <2>2. rec \in MemoryRecord
    BY <2>1, DeriveType, ConfidenceType
  <2>3. call \in Call /\ Equipped(call)
    <3>. HIDE DEF rec
    <3>. QED
      BY <2>1, <2>2, IdleType DEF Call, Equipped, Idle, PCs
  <2>4. Enter(p, "update", call) /\ nextId' = nextId + 1
    BY <1>1 DEF Update
  <2>5. CallsOK' /\ calls' \in 0..MaxCalls
    <3>. HIDE DEF call
    <3>. QED
      BY <2>3, <2>4, EnterType
  <2>6. nextId' \in 1..(MaxRecords + 1)
    BY <2>1, <2>4, DomainAssumption DEF Ids
  <2>7. QED
    BY <2>5, <2>6 DEF Update, TypeOK, CallsOK
<1>2. CASE ~Visible(i, scope)
  <2>1. CallsOK' /\ calls' \in 0..MaxCalls
    BY <1>2, EnterType, IdleType, IdleEquipped DEF Update
  <2>2. QED
    BY <1>2, <2>1 DEF Update, TypeOK, CallsOK
<1>3. QED
  BY <1>1, <1>2

\* A forgetting, whoever asks for it.
LEMMA ForgetType ==
    ASSUME TypeInv, NEW p \in Procs, NEW i, NEW scope \in Scope, Forget(p, i, scope)
    PROVE  TypeInv'
<1> USE DEF TypeInv
<1> DEFINE call == [Idle EXCEPT !.pc = "tombstone", !.scope = scope, !.id = i,
                                !.old = store[i]]
<1>1. ASSUME Visible(i, scope) PROVE call \in Call /\ Equipped(call)
  <2>1. i \in Ids /\ store[i] \in MemoryRecord /\ scope \in Scope
    BY <1>1, EngineAssumption DEF Visible, Stored, TypeOK
  <2>2. QED
    BY <2>1, IdleType DEF Call, Equipped, Idle, PCs, HoldsRec
<1>2. CallsOK' /\ calls' \in 0..MaxCalls
  <2>. HIDE DEF call
  <2>1. PICK entered \in {call, Idle} :
            /\ Enter(p, "forget", entered)
            /\ entered = call => Visible(i, scope) \/ call = Idle
    BY DEF Forget, call
  <2>2. QED
    BY <1>1, <2>1, EnterType, IdleType, IdleEquipped
<1>3. QED
  BY <1>2 DEF Forget, TypeOK, CallsOK

\* A deletion, whoever asks for it.
LEMMA PurgeType ==
    ASSUME TypeInv, NEW p \in Procs, NEW i \in Ids, NEW scope \in Scope,
           Purge(p, i, scope) \/ ForgetEverywhere(p, i, scope)
    PROVE  TypeInv'
<1> USE DEF TypeInv
<1>1. i \in Ids /\ scope \in Scope
  BY EngineAssumption DEF Known, Stored, ErasedIds, TypeOK, MemoryRecord
<1>2. \A pc \in PCs \ (HoldsRec \cup HoldsOld) :
          LET call == [Idle EXCEPT !.pc = pc, !.scope = scope, !.id = i]
          IN  call \in Call /\ Equipped(call)
  BY <1>1, IdleType DEF Call, Equipped, Idle
<1>3. CallsOK' /\ calls' \in 0..MaxCalls
  <2>1. {"purgeUnindex", "cdUnindex"} \subseteq PCs \ (HoldsRec \cup HoldsOld)
    BY DEF PCs, HoldsRec, HoldsOld
  <2>2. QED
    BY <1>2, <2>1, EnterType DEF Purge, ForgetEverywhere
<1>4. /\ store' \in [Ids -> MemoryRecord \cup {NoRecord}]
      /\ erased' \subseteq MemoryRecord
  BY <1>1, StoreDeleteType DEF Purge, ForgetEverywhere, TypeOK
<1>5. QED
  BY <1>3, <1>4 DEF Purge, ForgetEverywhere, TypeOK, CallsOK

\* The operations as callers start them.
LEMMA StartType ==
    ASSUME TypeInv, NEW p \in Procs, Start(p)
    PROVE  TypeInv'
<1> USE DEF TypeInv
<1>1. ASSUME NEW req \in Requests, Remember(p, req) \/ WriteUnindexed(p, req)
      PROVE  TypeInv'
  BY <1>1, RememberType, EngineAssumption
<1>2. ASSUME NEW i \in Known, NEW scope \in CallScopes, NEW content \in Contents,
             NEW confidence \in Confidences, Update(p, i, scope, content, confidence)
      PROVE  TypeInv'
  BY <1>2, UpdateType, EngineAssumption
<1>3. ASSUME NEW i \in Known, NEW scope \in CallScopes, Forget(p, i, scope)
      PROVE  TypeInv'
  BY <1>3, ForgetType, EngineAssumption
<1>4. ASSUME NEW i \in Known, NEW scope \in CallScopes,
             Purge(p, i, scope) \/ ForgetEverywhere(p, i, scope)
      PROVE  TypeInv'
  <2>1. i \in Ids /\ scope \in Scope
    BY EngineAssumption DEF Known, Stored, ErasedIds, TypeOK, MemoryRecord
  <2>2. QED
    BY <1>4, <2>1, PurgeType
<1>5. ASSUME NEW scope \in CallScopes, RecallSemantic(p, scope)
      PROVE  TypeInv'
  <2>1. PICK hits \in SUBSET {i \in Indexed : FilterMatches(scope, vectors[i])} :
            Enter(p, "recall_semantic",
                  [Idle EXCEPT !.pc = "hydrate", !.scope = scope, !.todo = hits])
    BY <1>5 DEF RecallSemantic
  <2>2. hits \subseteq Ids /\ scope \in Scope
    BY EngineAssumption DEF Indexed
  <2>3. LET call == [Idle EXCEPT !.pc = "hydrate", !.scope = scope, !.todo = hits]
        IN  call \in Call /\ Equipped(call)
    BY <2>2, IdleType DEF Call, Equipped, Idle, PCs, HoldsRec, HoldsOld
  <2>4. CallsOK' /\ calls' \in 0..MaxCalls
    BY <2>1, <2>3, EnterType
  <2>5. QED
    BY <1>5, <2>4 DEF RecallSemantic, TypeOK, CallsOK
<1>6. ASSUME NEW scope \in CallScopes, NEW now \in Instants, Sweep(p, scope, now)
      PROVE  TypeInv'
  <2> DEFINE recs == {r \in Query(scope, Status, NoSubject, BATCH_LIMIT) :
                        PurgedBySweep(r, now) \/ ArchivedBySweep(r, now)}
             call == [Idle EXCEPT !.pc = "sweep", !.scope = scope, !.recs = recs]
  <2>1. recs \subseteq MemoryRecord /\ scope \in Scope
    BY QueryType, EngineAssumption
  <2>2. call \in Call /\ Equipped(call)
    <3>. HIDE DEF recs
    <3>. QED
      BY <2>1, IdleType DEF Call, Equipped, Idle, PCs, HoldsRec, HoldsOld
  <2>3. CallsOK' /\ calls' \in 0..MaxCalls
    BY <1>6, <2>2, EnterType DEF Sweep
  <2>4. QED
    BY <1>6, <2>3 DEF Sweep, TypeOK, CallsOK
<1>7. QED
  BY <1>1, <1>2, <1>3, <1>4, <1>5, <1>6 DEF Start

\* The steps of a call under way.
LEMMA ContinueType ==
    ASSUME TypeInv, NEW p \in Procs, Continue(p)
    PROVE  TypeInv'
<1> USE DEF TypeInv
<1>a. op[p] \in Call /\ Equipped(op[p])
  BY DEF CallsOK
<1>1. ASSUME DedupPass(p) \/ ConflictPass(p)
      PROVE  TypeInv'
  <2>1. CallsOK'
    BY <1>1, GotoType
       DEF DedupPass, ConflictPass, At, AfterDedup, PCs, HoldsRec, HoldsOld
  <2>2. QED
    BY <1>1, <2>1 DEF DedupPass, ConflictPass, TypeOK, CallsOK
<1>2. ASSUME DedupIgnore(p)
      PROVE  TypeInv'
  <2>1. PICK target \in DedupCandidates(p) :
            Become(p, [op[p] EXCEPT !.pc = "ignoreGet", !.id = target.id])
    BY <1>2 DEF DedupIgnore
  <2>2. target.id \in Ids
    BY QueryType DEF DedupCandidates, MemoryRecord
  <2>3. LET call == [op[p] EXCEPT !.pc = "ignoreGet", !.id = target.id]
        IN  call \in Call /\ Equipped(call)
    BY <1>2, <1>a, <2>2 DEF DedupIgnore, At, Call, Equipped, PCs, HoldsRec, HoldsOld
  <2>4. CallsOK'
    BY <2>1, <2>3, BecomeType
  <2>5. QED
    BY <1>2, <2>4 DEF DedupIgnore, TypeOK, CallsOK
<1>3. ASSUME IgnoreGet(p)
      PROVE  TypeInv'
  <2>1. CallsOK'
    BY <1>3, GotoType, FinishType DEF IgnoreGet, PCs, HoldsRec, HoldsOld
  <2>2. QED
    BY <1>3, <2>1 DEF IgnoreGet, TypeOK, CallsOK
<1>4. ASSUME DedupReview(p) \/ ConflictQuarantine(p)
      PROVE  TypeInv'
  <2>1. op[p].rec \in MemoryRecord
    BY <1>4, <1>a DEF DedupReview, ConflictQuarantine, At, Equipped, HoldsRec
  <2>2. [op[p].rec EXCEPT !.status = "Quarantined"] \in MemoryRecord
    BY <2>1, WriteBackType DEF Status
  <2>3. LET call == [op[p] EXCEPT !.pc = "putOnly", !.rec.status = "Quarantined"]
        IN  call \in Call /\ Equipped(call)
    BY <1>a, <2>2 DEF Call, Equipped, PCs, HoldsOld
  <2>4. CallsOK'
    BY <1>4, <2>3, BecomeType DEF DedupReview, ConflictQuarantine
  <2>5. QED
    BY <1>4, <2>4 DEF DedupReview, ConflictQuarantine, TypeOK, CallsOK
<1>5. ASSUME DedupMerge(p)
      PROVE  TypeInv'
  <2> DEFINE rec == derive_successor(nextId, op[p].rec, op[p].rec.content)
  <2>1. PICK target \in DedupCandidates(p) :
            Become(p, [op[p] EXCEPT !.pc = "mergePut", !.old = target, !.rec = rec])
    BY <1>5 DEF DedupMerge
  <2>2. target \in MemoryRecord
    BY QueryType DEF DedupCandidates
  <2>3. op[p].rec \in MemoryRecord /\ nextId \in Ids
    BY <1>5, <1>a DEF DedupMerge, At, Equipped, HoldsRec
  <2>4. rec \in MemoryRecord
    BY <2>3, DeriveType DEF MemoryRecord
  <2>5. LET call == [op[p] EXCEPT !.pc = "mergePut", !.old = target, !.rec = rec]
        IN  call \in Call /\ Equipped(call)
    <3>. HIDE DEF rec
    <3>. QED
      BY <1>a, <2>2, <2>4 DEF Call, Equipped, PCs
  <2>6. CallsOK'
    <3>. HIDE DEF rec
    <3>. QED
      BY <2>1, <2>5, BecomeType
  <2>7. nextId' \in 1..(MaxRecords + 1)
    BY <1>5, <2>3, DomainAssumption DEF DedupMerge, Ids
  <2>8. QED
    BY <1>5, <2>6, <2>7 DEF DedupMerge, TypeOK, CallsOK
<1>6. ASSUME MergePut(p) \/ ReplacePut(p) \/ PutRecord(p) \/ SuccPut(p)
      PROVE  TypeInv'
  <2>1. op[p].rec \in MemoryRecord
    BY <1>6, <1>a DEF MergePut, ReplacePut, PutRecord, SuccPut, At, Equipped, HoldsRec
  <2>2. store' \in [Ids -> MemoryRecord \cup {NoRecord}]
    BY <1>6, <2>1, PutType DEF MergePut, ReplacePut, PutRecord, SuccPut
  <2>3. CallsOK'
    BY <1>6, GotoType
       DEF MergePut, ReplacePut, PutRecord, SuccPut, At, PCs, HoldsRec, HoldsOld
  <2>4. QED
    BY <1>6, <2>2, <2>3
       DEF MergePut, ReplacePut, PutRecord, SuccPut, TypeOK, CallsOK
<1>7. ASSUME PutOnly(p)
      PROVE  TypeInv'
  <2>1. op[p].rec \in MemoryRecord
    BY <1>7, <1>a DEF PutOnly, At, Equipped, HoldsRec
  <2>2. store' \in [Ids -> MemoryRecord \cup {NoRecord}] /\ CallsOK'
    BY <1>7, <2>1, PutType, FinishType DEF PutOnly
  <2>3. QED
    BY <1>7, <2>2 DEF PutOnly, TypeOK, CallsOK
<1>8. ASSUME \/ MergeUnindex(p) \/ ReplaceUnindex(p) \/ PredUnindex(p)
             \/ ForgetUnindex(p) \/ PurgeUnindex(p) \/ CoordinateUnindex(p)
      PROVE  TypeInv'
  <2>1. vectors' \in [Ids -> Metadata \cup {NoVector}]
    BY <1>8, UnindexType
       DEF MergeUnindex, ReplaceUnindex, PredUnindex, ForgetUnindex, PurgeUnindex,
           CoordinateUnindex
  <2>2. CallsOK'
    BY <1>8, GotoType
       DEF MergeUnindex, ReplaceUnindex, PredUnindex, ForgetUnindex, PurgeUnindex,
           CoordinateUnindex, At, PCs, HoldsRec, HoldsOld
  <2>3. QED
    BY <1>8, <2>1, <2>2
       DEF MergeUnindex, ReplaceUnindex, PredUnindex, ForgetUnindex, PurgeUnindex,
           CoordinateUnindex, TypeOK, CallsOK
<1>9. ASSUME MergeRetire(p) \/ Retire(p)
      PROVE  TypeInv'
  <2>1. op[p].old \in MemoryRecord
    BY <1>9, <1>a DEF MergeRetire, Retire, At, Equipped, HoldsOld
  <2>2. [op[p].old EXCEPT !.status = "Superseded"] \in MemoryRecord
    BY <2>1, WriteBackType DEF Status
  <2>3. store' \in [Ids -> MemoryRecord \cup {NoRecord}] /\ CallsOK'
    BY <1>9, <2>2, IdleType, IdleEquipped, StoreUpdateType DEF MergeRetire, Retire
  <2>4. QED
    BY <1>9, <2>3 DEF MergeRetire, Retire, TypeOK, CallsOK
<1>10. ASSUME ConflictReplace(p)
       PROVE  TypeInv'
  <2>1. PICK fact \in OpenFacts(p) :
            Become(p, [op[p] EXCEPT !.pc = "replaceGet", !.id = fact.id])
    BY <1>10 DEF ConflictReplace
  <2>2. fact.id \in Ids
    BY QueryType DEF OpenFacts, MemoryRecord
  <2>3. LET call == [op[p] EXCEPT !.pc = "replaceGet", !.id = fact.id]
        IN  call \in Call /\ Equipped(call)
    BY <1>10, <1>a, <2>2
       DEF ConflictReplace, At, Call, Equipped, PCs, HoldsRec, HoldsOld
  <2>4. CallsOK'
    BY <2>1, <2>3, BecomeType
  <2>5. QED
    BY <1>10, <2>4 DEF ConflictReplace, TypeOK, CallsOK
<1>11. ASSUME ReplaceGet(p)
       PROVE  TypeInv'
  <2>1. CASE Visible(op[p].id, op[p].scope)
    <3> DEFINE call == [op[p] EXCEPT !.pc = "replaceClose", !.old = store[op[p].id]]
    <3>1. store[op[p].id] \in MemoryRecord /\ op[p].rec \in MemoryRecord
      BY <1>11, <1>a, <2>1
         DEF ReplaceGet, At, Equipped, HoldsRec, Visible, Stored, TypeOK
    <3>2. call \in Call /\ Equipped(call)
      BY <1>a, <3>1 DEF Call, Equipped, PCs
    <3>3. CallsOK'
      BY <1>11, <2>1, <3>2, BecomeType DEF ReplaceGet
    <3>4. QED
      BY <1>11, <3>3 DEF ReplaceGet, TypeOK, CallsOK
  <2>2. CASE ~Visible(op[p].id, op[p].scope)
    <3>1. CallsOK'
      BY <1>11, <2>2, GotoType DEF ReplaceGet, At, PCs, HoldsRec, HoldsOld
    <3>2. QED
      BY <1>11, <3>1 DEF ReplaceGet, TypeOK, CallsOK
  <2>3. QED
    BY <2>1, <2>2
<1>12. ASSUME ReplaceClose(p)
       PROVE  TypeInv'
  <2> DEFINE call == [op[p] EXCEPT !.pc = "replaceUnindex"]
  <2>1. op[p].old \in MemoryRecord /\ op[p].rec \in MemoryRecord
    BY <1>12, <1>a DEF ReplaceClose, At, Equipped, HoldsOld, HoldsRec
  <2>2. call \in Call /\ Equipped(call)
    BY <1>a, <2>1 DEF Call, Equipped, PCs, HoldsOld
  <2>3. close_window(op[p].old) \in MemoryRecord
    BY <2>1, WriteBackType
  <2>4. store' \in [Ids -> MemoryRecord \cup {NoRecord}] /\ CallsOK'
    BY <1>12, <2>2, <2>3, StoreUpdateType DEF ReplaceClose
  <2>5. QED
    BY <1>12, <2>4 DEF ReplaceClose, TypeOK, CallsOK
<1>13. ASSUME IndexRecord(p) \/ SuccIndex(p) \/ ReplaceIndex(p)
       PROVE  TypeInv'
  <2>1. op[p].rec \in MemoryRecord
    BY <1>13, <1>a DEF IndexRecord, SuccIndex, ReplaceIndex, At, Equipped, HoldsRec
  <2>2. vectors' \in [Ids -> Metadata \cup {NoVector}]
    BY <1>13, <2>1, IndexType DEF IndexRecord, SuccIndex, ReplaceIndex
  <2>3. CallsOK'
    BY <1>13, GotoType, FinishType
       DEF IndexRecord, SuccIndex, ReplaceIndex, At, PCs, HoldsRec, HoldsOld
  <2>4. QED
    BY <1>13, <2>2, <2>3 DEF IndexRecord, SuccIndex, ReplaceIndex, TypeOK, CallsOK
<1>14. ASSUME IndexGraph(p)
       PROVE  TypeInv'
  <2>1. op[p].rec.id \in Ids
    BY <1>14, <1>a DEF IndexGraph, At, Equipped, HoldsRec, MemoryRecord
  <2>2. CASE UNCHANGED op
    BY <1>14, <2>1, <2>2 DEF IndexGraph, TypeOK, CallsOK, Equipped
  <2>3. CASE Finish(p) /\ UNCHANGED evidence
    BY <1>14, <2>3, FinishType DEF IndexGraph, TypeOK, CallsOK
  <2>4. QED
    BY <1>14, <2>2, <2>3 DEF IndexGraph
<1>15. ASSUME Tombstone(p)
       PROVE  TypeInv'
  <2> DEFINE call == [op[p] EXCEPT !.pc = "forgetUnindex"]
  <2>1. op[p].old \in MemoryRecord
    BY <1>15, <1>a DEF Tombstone, At, Equipped, HoldsOld
  <2>2. call \in Call /\ Equipped(call)
    BY <1>a DEF Call, Equipped, PCs, HoldsOld, HoldsRec
  <2>3. [op[p].old EXCEPT !.status = "Deleted"] \in MemoryRecord
    BY <2>1, WriteBackType DEF Status
  <2>4. store' \in [Ids -> MemoryRecord \cup {NoRecord}] /\ CallsOK'
    BY <1>15, <2>2, <2>3, StoreUpdateType DEF Tombstone
  <2>5. QED
    BY <1>15, <2>4 DEF Tombstone, TypeOK, CallsOK
<1>16. ASSUME ForgetEdges(p) \/ PurgeEdges(p) \/ CoordinateEdges(p)
       PROVE  TypeInv'
  <2>1. CallsOK'
    BY <1>16, GotoType, FinishType
       DEF ForgetEdges, PurgeEdges, CoordinateEdges, At, PCs, HoldsRec, HoldsOld
  <2>2. QED
    BY <1>16, <2>1 DEF ForgetEdges, PurgeEdges, CoordinateEdges, TypeOK, CallsOK
<1>17. ASSUME SweepNext(p)
       PROVE  TypeInv'
  <2>1. PICK r \in op[p].recs :
            Become(p, IF r.retention.class = "Standard"
                      THEN [op[p] EXCEPT !.pc = "archive", !.old = r,
                                         !.recs = op[p].recs \ {r}]
                      ELSE [op[p] EXCEPT !.pc = "cdUnindex", !.id = r.id,
                                         !.recs = op[p].recs \ {r}])
    BY <1>17 DEF SweepNext
  <2>2. r \in MemoryRecord /\ r.id \in Ids /\ op[p].recs \ {r} \subseteq MemoryRecord
    BY <1>a DEF Call, MemoryRecord
  <2>3. CASE r.retention.class = "Standard"
    <3>1. LET call == [op[p] EXCEPT !.pc = "archive", !.old = r,
                                    !.recs = op[p].recs \ {r}]
          IN  call \in Call /\ Equipped(call)
      <4>1. "archive" \in PCs \ HoldsRec
        BY DEF PCs, HoldsRec
      <4>2. QED
        BY <1>a, <2>2, <4>1 DEF Call, Equipped
    <3>2. QED
      BY <1>17, <2>1, <2>3, <3>1, BecomeType DEF SweepNext, TypeOK, CallsOK
  <2>4. CASE r.retention.class # "Standard"
    <3>1. LET call == [op[p] EXCEPT !.pc = "cdUnindex", !.id = r.id,
                                    !.recs = op[p].recs \ {r}]
          IN  call \in Call /\ Equipped(call)
      <4>1. "cdUnindex" \in PCs \ (HoldsRec \cup HoldsOld)
        BY DEF PCs, HoldsRec, HoldsOld
      <4>2. QED
        BY <1>a, <2>2, <4>1 DEF Call, Equipped
    <3>2. QED
      BY <1>17, <2>1, <2>4, <3>1, BecomeType DEF SweepNext, TypeOK, CallsOK
  <2>5. QED
    BY <2>3, <2>4
<1>18. ASSUME SweepDone(p) \/ RecallDone(p)
       PROVE  TypeInv'
  <2>1. CallsOK'
    BY <1>18, FinishType DEF SweepDone, RecallDone
  <2>2. QED
    BY <1>18, <2>1 DEF SweepDone, RecallDone, TypeOK, CallsOK
<1>19. ASSUME Archive(p)
       PROVE  TypeInv'
  <2> DEFINE call == [op[p] EXCEPT !.pc = "sweep"]
  <2>1. op[p].old \in MemoryRecord
    BY <1>19, <1>a DEF Archive, At, Equipped, HoldsOld
  <2>2. call \in Call /\ Equipped(call)
    BY <1>a DEF Call, Equipped, PCs, HoldsOld, HoldsRec
  <2>3. [op[p].old EXCEPT !.status = "Archived"] \in MemoryRecord
    BY <2>1, WriteBackType DEF Status
  <2>4. store' \in [Ids -> MemoryRecord \cup {NoRecord}] /\ CallsOK'
    BY <1>19, <2>2, <2>3, StoreUpdateType DEF Archive
  <2>5. QED
    BY <1>19, <2>4 DEF Archive, TypeOK, CallsOK
<1>20. ASSUME CoordinateRow(p)
       PROVE  TypeInv'
  <2>1. op[p].id \in Ids \cup {0}
    BY <1>a DEF Call
  <2>2. /\ store' \in [Ids -> MemoryRecord \cup {NoRecord}]
        /\ erased' \subseteq MemoryRecord
    BY <1>20, <2>1, StoreDeleteType DEF CoordinateRow
  <2>3. CallsOK'
    BY <1>20, GotoType DEF CoordinateRow, PCs, HoldsRec, HoldsOld
  <2>4. QED
    BY <1>20, <2>2, <2>3 DEF CoordinateRow, TypeOK, CallsOK
<1>21. ASSUME Hydrate(p)
       PROVE  TypeInv'
  <2>1. PICK i \in op[p].todo, pc \in {"hydrate", "ghost"} :
            Become(p, [op[p] EXCEPT !.todo = op[p].todo \ {i}, !.id = i, !.pc = pc])
    BY <1>21 DEF Hydrate
  <2>2. i \in Ids /\ op[p].todo \ {i} \subseteq Ids
    BY <1>a DEF Call
  <2>3. LET call == [op[p] EXCEPT !.todo = op[p].todo \ {i}, !.id = i, !.pc = pc]
        IN  call \in Call /\ Equipped(call)
    BY <1>a, <2>2 DEF Call, Equipped, PCs, HoldsRec, HoldsOld
  <2>4. CallsOK'
    BY <2>1, <2>3, BecomeType
  <2>5. QED
    BY <1>21, <2>4 DEF Hydrate, TypeOK, CallsOK
<1>22. ASSUME RemoveGhost(p)
       PROVE  TypeInv'
  <2>1. vectors' \in [Ids -> Metadata \cup {NoVector}]
    BY <1>22, UnindexType DEF RemoveGhost, TypeOK
  <2>2. CallsOK'
    BY <1>22, GotoType DEF RemoveGhost, PCs, HoldsRec, HoldsOld
  <2>3. QED
    BY <1>22, <2>1, <2>2 DEF RemoveGhost, TypeOK, CallsOK
<1>23. QED
  BY <1>1, <1>2, <1>3, <1>4, <1>5, <1>6, <1>7, <1>8, <1>9, <1>10, <1>11, <1>12,
     <1>13, <1>14, <1>15, <1>16, <1>17, <1>18, <1>19, <1>20, <1>21, <1>22
     DEF Continue

\* The steps of a repair.
LEMMA RepairType ==
    ASSUME TypeInv, NEW w \in Procs, Repair(w)
    PROVE  TypeInv'
<1> USE DEF TypeInv
<1>a. op[w] \in Call /\ Equipped(op[w])
  BY DEF CallsOK
<1>1. ASSUME RepairQuery(w)
      PROVE  TypeInv'
  <2> DEFINE recs == Query(GlobalScope, {"Active"}, NoSubject, BATCH_LIMIT)
             call == [Idle EXCEPT !.pc = "repairList", !.recs = recs]
  <2>1. recs \subseteq MemoryRecord
    BY QueryType
  <2>2. call \in Call /\ Equipped(call)
    <3>. HIDE DEF recs
    <3>. QED
      BY <2>1, IdleType DEF Call, Equipped, Idle, PCs, HoldsRec, HoldsOld
  <2>3. CallsOK'
    BY <1>1, <2>2, BecomeType DEF RepairQuery
  <2>4. QED
    BY <1>1, <2>3 DEF RepairQuery, TypeOK, CallsOK
<1>2. ASSUME RepairList(w)
      PROVE  TypeInv'
  <2> DEFINE listed == IF VectorLists THEN Indexed ELSE {}
             todo == listed \ {r.id : r \in op[w].recs}
             recs == {r \in op[w].recs : r.id \notin listed}
             call == [op[w] EXCEPT !.pc = "repair", !.todo = todo, !.recs = recs]
  <2>1. todo \subseteq Ids /\ recs \subseteq MemoryRecord
    BY <1>a DEF Indexed, Call
  <2>2. call \in Call /\ Equipped(call)
    <3>. HIDE DEF todo, recs
    <3>1. "repair" \in PCs \ (HoldsRec \cup HoldsOld)
      BY DEF PCs, HoldsRec, HoldsOld
    <3>2. QED
      BY <1>a, <2>1, <3>1 DEF Call, Equipped
  <2>3. Become(w, call)
    BY <1>2 DEF RepairList
  <2>4. CallsOK'
    <3>. HIDE DEF call
    <3>. QED
      BY <2>2, <2>3, BecomeType
  <2>5. QED
    BY <1>2, <2>4 DEF RepairList, TypeOK, CallsOK
<1>3. ASSUME RepairGhost(w) \/ RepairUpsert(w)
      PROVE  TypeInv'
  <2>1. CASE RepairGhost(w)
    <3>1. PICK i \in op[w].todo :
              /\ RemoveVector(i)
              /\ Become(w, [op[w] EXCEPT !.todo = op[w].todo \ {i}])
      BY <2>1 DEF RepairGhost, Become
    <3>2. LET call == [op[w] EXCEPT !.todo = op[w].todo \ {i}]
          IN  call \in Call /\ Equipped(call)
      BY <1>a DEF Call, Equipped
    <3>3. CallsOK' /\ vectors' \in [Ids -> Metadata \cup {NoVector}]
      BY <3>1, <3>2, BecomeType, UnindexType
    <3>4. QED
      BY <2>1, <3>3 DEF RepairGhost, TypeOK, CallsOK
  <2>2. CASE RepairUpsert(w)
    <3>1. PICK r \in op[w].recs :
              /\ IndexVector(r)
              /\ Become(w, [op[w] EXCEPT !.recs = op[w].recs \ {r}])
      BY <2>2 DEF RepairUpsert, Become
    <3>2. r \in MemoryRecord
      BY <1>a DEF Call
    <3>3. LET call == [op[w] EXCEPT !.recs = op[w].recs \ {r}]
          IN  call \in Call /\ Equipped(call)
      BY <1>a DEF Call, Equipped
    <3>4. CallsOK' /\ vectors' \in [Ids -> Metadata \cup {NoVector}]
      BY <3>1, <3>2, <3>3, BecomeType, IndexType
    <3>5. QED
      BY <2>2, <3>4 DEF RepairUpsert, TypeOK, CallsOK
  <2>3. QED
    BY <1>3, <2>1, <2>2
<1>4. ASSUME RepairDone(w)
      PROVE  TypeInv'
  <2>1. CallsOK'
    BY <1>4, FinishType DEF RepairDone
  <2>2. QED
    BY <1>4, <2>1 DEF RepairDone, TypeOK, CallsOK
<1>5. QED
  BY <1>1, <1>2, <1>3, <1>4 DEF Repair

LEMMA AbortType ==
    ASSUME TypeInv, NEW p \in Procs, Abort(p)
    PROVE  TypeInv'
BY FinishType DEF TypeInv, TypeOK, CallsOK, Abort

LEMMA TypeInvInit == Init => TypeInv
BY IdleType, IdleEquipped, EngineAssumption, DomainAssumption
   DEF Init, TypeInv, TypeOK, CallsOK, Ids

LEMMA TypeInvStep == TypeInv /\ [Next]_vars => TypeInv'
<1> SUFFICES ASSUME TypeInv, [Next]_vars PROVE TypeInv'
  OBVIOUS
<1>1. CASE UNCHANGED vars
  BY <1>1 DEF TypeInv, TypeOK, CallsOK, Equipped, vars
<1>2. ASSUME NEW c \in Clients, Start(c) \/ Continue(c) \/ Abort(c)
      PROVE  TypeInv'
  BY <1>2, StartType, ContinueType, AbortType DEF Procs
<1>3. ASSUME NEW w \in Workers, Repair(w)
      PROVE  TypeInv'
  BY <1>3, RepairType DEF Procs
<1>4. QED
  BY <1>1, <1>2, <1>3 DEF Next

\* Every variable stays in its type, whatever calls interleave or end early: a
\* step only ever stores, indexes or retires a record its call really holds.
THEOREM TypeCorrect == Spec => [](TypeOK /\ CallsOK)
<1>1. Init => TypeInv
  BY TypeInvInit
<1>2. TypeInv /\ [Next]_vars => TypeInv'
  BY TypeInvStep
<1>3. TypeInv => TypeOK /\ CallsOK
  BY DEF TypeInv
<1>4. QED
  BY <1>1, <1>2, <1>3, PTL DEF Spec

-----------------------------------------------------------------------------
(* The ledger: the inductive invariant.  The argument has two halves.        *)
(* Whatever its operation, a step is of one of five kinds, and leaves every  *)
(* process with copies of rows that were stored at some time (StepKind).   *)
(* The kinds preserve LedgerInv and map to steps of the ledger.              *)

\* Every row there is or was.
Ever == Rows \cup erased

\* A copy of a row that is or was stored, perhaps in another status.
Accounted(r) == \E s \in Ever : Immutable(s) = Immutable(r)

\* The call has yet to store the record it holds.
PendingPCs == {"dedup", "conflict", "mergePut", "replaceGet", "replaceClose",
               "replaceUnindex", "replacePut", "put", "putOnly", "succPut"}

Pending(call) == call.pc \in PendingPCs

RowsInPlace == \A i \in Stored : store[i].id = i

LinksGoBack == \A s \in Ever : s.id < nextId /\ s.supersedes < s.id

OneIdentity == \A s, t \in Ever : s.id = t.id => Immutable(s) = Immutable(t)

CopiesAccounted ==
    \A p \in Procs : /\ op[p].old # NoRecord => Accounted(op[p].old)
                     /\ \A r \in op[p].recs : Accounted(r)

PendingFresh ==
    \A p \in Procs : Pending(op[p]) =>
        /\ op[p].rec.id < nextId
        /\ op[p].rec.supersedes < op[p].rec.id
        /\ \A s \in Ever : s.id # op[p].rec.id

PendingDistinct ==
    \A p, q \in Procs : Pending(op[p]) /\ Pending(op[q]) /\ p # q
        => op[p].rec.id # op[q].rec.id

NoReturn == Backend # "local" => \A s \in erased : store[s.id] = NoRecord

LedgerInv ==
    /\ RowsInPlace /\ LinksGoBack /\ OneIdentity /\ CopiesAccounted
    /\ PendingFresh /\ PendingDistinct /\ NoReturn

-----------------------------------------------------------------------------
(* The five kinds of steps *)

\* What a process holds after a step it held before, or read from the store.
CopiesKept ==
    \A q \in Procs :
        /\ op'[q].old \in {NoRecord, op[q].old} \cup Rows \cup op[q].recs
        /\ op'[q].recs \subseteq op[q].recs \cup Rows

\* A process with a record to store had it before.
PendingKept(q) ==
    Pending(op'[q]) => /\ Pending(op[q])
                       /\ op'[q].rec.id = op[q].rec.id
                       /\ op'[q].rec.supersedes = op[q].rec.supersedes

Quietly ==
    /\ UNCHANGED <<store, erased, nextId>>
    /\ CopiesKept
    /\ \A q \in Procs : PendingKept(q)

Mints(p) ==
    /\ UNCHANGED <<store, erased>>
    /\ nextId \in Ids /\ nextId' = nextId + 1
    /\ CopiesKept
    /\ \A q \in Procs \ {p} : PendingKept(q)
    /\ op'[p].rec.id = nextId /\ op'[p].rec.supersedes < nextId

Puts(p) ==
    /\ Pending(op[p]) /\ op[p].rec \in MemoryRecord
    /\ StorePut(op[p].rec)
    /\ UNCHANGED <<erased, nextId>>
    /\ CopiesKept
    /\ \A q \in Procs : PendingKept(q)
    /\ ~Pending(op'[p])

WritesBack(p, r) ==
    /\ op[p].old \in MemoryRecord
    /\ Immutable(r) = Immutable(op[p].old) /\ r.status # "Active"
    /\ Backend # "local" => r.id \in Stored
    /\ Backend = "postgres" => r.version = store[r.id].version + 1
    /\ store' = [store EXCEPT ![r.id] = r]
    /\ UNCHANGED <<erased, nextId>>
    /\ CopiesKept
    /\ \A q \in Procs : PendingKept(q)

Deletes(i) ==
    /\ i \in Stored
    /\ store' = [store EXCEPT ![i] = NoRecord]
    /\ erased' = erased \cup {store[i]}
    /\ UNCHANGED nextId
    /\ CopiesKept
    /\ \A q \in Procs : PendingKept(q)

OfSomeKind ==
    \/ Quietly
    \/ \E p \in Procs : Mints(p) \/ Puts(p)
    \/ \E p \in Procs : \E r \in MemoryRecord : WritesBack(p, r)
    \/ \E i \in Ids : Deletes(i)

-----------------------------------------------------------------------------
(* Records: what Immutable fixes *)

LEMMA ImmutableFixes ==
    ASSUME NEW r, NEW s, Immutable(r) = Immutable(s)
    PROVE  r.id = s.id /\ r.supersedes = s.supersedes
BY DEF Immutable

LEMMA WriteBackImmutable ==
    ASSUME NEW r \in MemoryRecord
    PROVE  /\ \A st : Immutable([r EXCEPT !.status = st]) = Immutable(r)
           /\ Immutable(close_window(r)) = Immutable(r)
           /\ Immutable(Updated(r)) = Immutable(r)
<1>1. \A st : Immutable([r EXCEPT !.status = st]) = Immutable(r)
  BY DEF Immutable, MemoryRecord
<1>2. Immutable(close_window(r)) = Immutable(r)
  BY DEF Immutable, MemoryRecord, close_window
<1>3. Immutable(Updated(r)) = Immutable(r)
  BY DEF Immutable, MemoryRecord, Updated
<1>4. QED
  BY <1>1, <1>2, <1>3

\* A row is a record under its own identity.
LEMMA RowFacts ==
    ASSUME TypeOK, RowsInPlace
    PROVE  /\ \A i \in Stored : /\ store[i] \in MemoryRecord /\ store[i] \in Rows
                                /\ store[i].id = i /\ i \in Ids
           /\ \A r \in Rows : r \in MemoryRecord /\ r.id \in Stored /\ store[r.id] = r
           /\ Ever \subseteq MemoryRecord
           /\ NoRecord \notin Ever
BY EngineAssumption DEF TypeOK, RowsInPlace, Stored, Rows, Ever

LEMMA PendingRecType ==
    ASSUME TypeInv, NEW p \in Procs, Pending(op[p])
    PROVE  op[p].rec \in MemoryRecord /\ op[p].rec.id \in Nat
BY DEF TypeInv, CallsOK, Equipped, Pending, PendingPCs, HoldsRec, MemoryRecord, Ids

-----------------------------------------------------------------------------
(* Each kind preserves the invariant *)

\* The rows that are or were stored are the same ones, up to status.
SameEver ==
    /\ \A s \in Ever : \E t \in Ever' : Immutable(t) = Immutable(s)
    /\ \A t \in Ever' : \E s \in Ever : Immutable(s) = Immutable(t)

\* No row is forgotten.
EverKept == \A s \in Ever : \E t \in Ever' : Immutable(t) = Immutable(s)

\* What processes hold stays accounted for while no row is forgotten.
LEMMA CopiesStayAccounted ==
    ASSUME TypeOK, LedgerInv, CopiesKept, EverKept
    PROVE  CopiesAccounted'
<1> DEFINE Stays(r) == \E s \in Ever' : Immutable(s) = Immutable(r)
<1>1. \A r : Accounted(r) => Stays(r)
  BY DEF Accounted, EverKept
<1>2. \A r \in Rows : Accounted(r)
  BY DEF Accounted, Ever
<1>3. ASSUME NEW q \in Procs, op'[q].old # NoRecord
      PROVE  Stays(op'[q].old)
  BY <1>1, <1>2, <1>3 DEF CopiesKept, LedgerInv, CopiesAccounted
<1>4. ASSUME NEW q \in Procs, NEW r \in op'[q].recs
      PROVE  Stays(r)
  BY <1>1, <1>2, <1>4 DEF CopiesKept, LedgerInv, CopiesAccounted
<1>5. QED
  BY <1>3, <1>4 DEF CopiesAccounted, Accounted

LEMMA SameEverKeeps ==
    ASSUME TypeInv, LedgerInv, SameEver, CopiesKept, \A q \in Procs : PendingKept(q),
           nextId' = nextId
    PROVE  LinksGoBack' /\ OneIdentity' /\ CopiesAccounted' /\ PendingFresh'
           /\ PendingDistinct'
<1>1. LinksGoBack'
  BY ImmutableFixes DEF LedgerInv, LinksGoBack, SameEver
<1>2. OneIdentity'
  BY ImmutableFixes DEF LedgerInv, OneIdentity, SameEver
<1>3. CopiesAccounted'
  BY CopiesStayAccounted DEF SameEver, EverKept, TypeInv
<1>4. PendingFresh'
  BY ImmutableFixes DEF LedgerInv, PendingFresh, SameEver, PendingKept
<1>5. PendingDistinct'
  BY DEF LedgerInv, PendingDistinct, PendingKept
<1>6. QED
  BY <1>1, <1>2, <1>3, <1>4, <1>5

LEMMA QuietlyKeeps ==
    ASSUME TypeInv, LedgerInv, Quietly
    PROVE  LedgerInv' /\ EverKept
<1>1. Ever' = Ever /\ Stored' = Stored
  BY DEF Quietly, Ever, Rows, Stored
<1>2. SameEver
  BY <1>1 DEF SameEver
<1>3. LinksGoBack' /\ OneIdentity' /\ CopiesAccounted' /\ PendingFresh'
      /\ PendingDistinct'
  BY <1>2, SameEverKeeps DEF Quietly
<1>4. RowsInPlace' /\ NoReturn'
  BY <1>1 DEF Quietly, LedgerInv, RowsInPlace, NoReturn
<1>5. QED
  BY <1>2, <1>3, <1>4 DEF LedgerInv, SameEver, EverKept

\* A minted identity is larger than every other one.
LEMMA MintsKeeps ==
    ASSUME TypeInv, LedgerInv, NEW p \in Procs, Mints(p)
    PROVE  LedgerInv' /\ EverKept
<1>1. Ever' = Ever /\ Stored' = Stored
  BY DEF Mints, Ever, Rows, Stored
<1>2. nextId \in Nat /\ nextId' = nextId + 1
  BY DEF Mints, Ids
<1>3. RowsInPlace' /\ NoReturn'
  BY <1>1 DEF Mints, LedgerInv, RowsInPlace, NoReturn
<1>4. \A s \in Ever : s.id \in Nat
  BY RowFacts DEF TypeInv, LedgerInv, MemoryRecord, Ids
<1>5. LinksGoBack' /\ OneIdentity'
  BY <1>1, <1>2, <1>4 DEF LedgerInv, LinksGoBack, OneIdentity
<1>6. CopiesAccounted'
  BY <1>1, CopiesStayAccounted DEF Mints, TypeInv, EverKept
<1>7. \A q \in Procs \ {p} : Pending(op'[q]) =>
          /\ op'[q].rec.id < nextId
          /\ op'[q].rec.supersedes < op'[q].rec.id
          /\ \A s \in Ever : s.id # op'[q].rec.id
  BY DEF Mints, LedgerInv, PendingFresh, PendingKept
<1>8. PendingFresh'
  <2>1. \A s \in Ever : s.id # nextId
    BY <1>2, <1>4 DEF LedgerInv, LinksGoBack
  <2>2. \A q \in Procs : Pending(op'[q]) => op'[q].rec.id < nextId + 1
    <3>1. ASSUME NEW q \in Procs \ {p}, Pending(op'[q]) PROVE op'[q].rec.id \in Nat
      BY <3>1, PendingRecType DEF Mints, PendingKept
    <3>2. QED
      BY <1>2, <1>7, <3>1 DEF Mints
  <2>3. QED
    BY <1>1, <1>2, <1>7, <2>1, <2>2 DEF Mints, PendingFresh
<1>9. PendingDistinct'
  <2>1. \A q \in Procs \ {p} : Pending(op'[q]) => op'[q].rec.id # nextId
    BY <1>2, <1>7
  <2>2. QED
    BY <2>1 DEF Mints, LedgerInv, PendingDistinct, PendingKept
<1>10. EverKept
  BY <1>1 DEF EverKept
<1>11. QED
  BY <1>3, <1>5, <1>6, <1>8, <1>9, <1>10 DEF LedgerInv

LEMMA PutsKeeps ==
    ASSUME TypeInv, LedgerInv, NEW p \in Procs, Puts(p)
    PROVE  LedgerInv' /\ EverKept /\ Ledger!Append(op[p].rec.id)
<1> DEFINE rec == op[p].rec
           i == rec.id
<1>1. i \in Ids /\ rec \in MemoryRecord /\ rec # NoRecord
  BY EngineAssumption DEF Puts, MemoryRecord
<1>2. i < nextId /\ rec.supersedes < i /\ \A s \in Ever : s.id # i
  BY DEF Puts, LedgerInv, PendingFresh
<1>3. i \notin Stored /\ i \notin ErasedIds
  BY <1>2, RowFacts DEF TypeInv, LedgerInv, Ever, ErasedIds
<1>4. store' = [store EXCEPT ![i] = rec] /\ erased' = erased /\ nextId' = nextId
  BY DEF Puts, StorePut
<1>5. \A j \in Ids : store'[j] = IF j = i THEN rec ELSE store[j]
  BY <1>1, <1>4 DEF TypeInv, TypeOK
<1>6. Stored' = Stored \cup {i}
  BY <1>1, <1>5 DEF Stored
<1>7. Ever' = Ever \cup {rec}
  BY <1>1, <1>3, <1>4, <1>5, <1>6 DEF Ever, Rows, Stored
<1> HIDE DEF rec, i
<1>8. RowsInPlace'
  BY <1>1, <1>5, <1>6 DEF LedgerInv, RowsInPlace, Stored, i
<1>9. LinksGoBack' /\ OneIdentity'
  BY <1>2, <1>4, <1>7 DEF LedgerInv, LinksGoBack, OneIdentity, i
<1>10. EverKept /\ CopiesAccounted'
  <2>1. EverKept
    BY <1>7 DEF EverKept
  <2>2. QED
    BY <2>1, CopiesStayAccounted DEF Puts, TypeInv
<1>11. PendingFresh'
  <2>1. ASSUME NEW q \in Procs, Pending(op'[q])
        PROVE  op'[q].rec.id # i
    BY <2>1 DEF Puts, PendingKept, LedgerInv, PendingDistinct, i, rec
  <2>2. QED
    BY <1>4, <1>7, <2>1 DEF Puts, PendingKept, LedgerInv, PendingFresh, i
<1>12. PendingDistinct'
  BY DEF Puts, PendingKept, LedgerInv, PendingDistinct
<1>13. NoReturn'
  BY <1>1, <1>3, <1>4, <1>5 DEF LedgerInv, NoReturn, ErasedIds, TypeInv, TypeOK
<1>14. Ledger!Append(i)
  BY <1>1, <1>2, <1>3, <1>4, <1>5
     DEF Ledger!Append, Ledger!Kept, Ledger!EverErased, Ledger!OnlyRow, Ledger!Ids,
         Ids, Stored, ErasedIds, i
<1>15. QED
  BY <1>8, <1>9, <1>10, <1>11, <1>12, <1>13, <1>14 DEF LedgerInv, i, rec

LEMMA WritesBackKeeps ==
    ASSUME TypeInv, LedgerInv, NEW p \in Procs, NEW r \in MemoryRecord,
           WritesBack(p, r)
    PROVE  LedgerInv' /\ EverKept /\ (Backend # "local" => Ledger!Revise(r.id))
<1> DEFINE i == r.id
<1>1. i \in Ids /\ r # NoRecord /\ op[p].old # NoRecord
  BY EngineAssumption DEF WritesBack, MemoryRecord
<1>2. Accounted(r)
  BY <1>1 DEF WritesBack, LedgerInv, CopiesAccounted, Accounted
<1>3. \A j \in Ids : store'[j] = IF j = i THEN r ELSE store[j]
  BY <1>1 DEF WritesBack, TypeInv, TypeOK
<1>4. \A s \in Ever : s.id = i => Immutable(s) = Immutable(r)
  BY <1>2, ImmutableFixes DEF Accounted, LedgerInv, OneIdentity
<1>5. r \in Ever' /\ Ever' \subseteq Ever \cup {r}
  BY <1>1, <1>3 DEF Ever, Rows, Stored, WritesBack
<1>6. \A s \in Ever : s.id # i => s \in Ever'
  BY <1>3, RowFacts DEF Ever, Rows, Stored, WritesBack, TypeInv, LedgerInv
<1>7. SameEver
  BY <1>2, <1>4, <1>5, <1>6 DEF SameEver, Accounted
<1>8. LinksGoBack' /\ OneIdentity' /\ CopiesAccounted' /\ PendingFresh'
      /\ PendingDistinct'
  BY <1>7, SameEverKeeps DEF WritesBack
<1>9. RowsInPlace'
  BY <1>3 DEF LedgerInv, RowsInPlace, Stored
<1>10. NoReturn'
  BY <1>1, <1>3, RowFacts
     DEF LedgerInv, NoReturn, WritesBack, Stored, TypeInv, Ever, MemoryRecord
<1>11. ASSUME Backend # "local" PROVE Ledger!Revise(i)
  <2>1. i \in Stored /\ Immutable(store[i]) = Immutable(r)
    BY <1>4, <1>11, RowFacts DEF WritesBack, Ever, TypeInv, LedgerInv
  <2>2. Ledger!Immutable(r) = Ledger!Immutable(store[i])
    BY <2>1 DEF Ledger!Immutable, Immutable
  <2>3. QED
    BY <1>1, <1>3, <2>1, <2>2
       DEF Ledger!Revise, Ledger!Kept, Ledger!OnlyRow, Ledger!Ids, Ids, Stored,
           WritesBack
<1>12. QED
  BY <1>7, <1>8, <1>9, <1>10, <1>11 DEF LedgerInv, SameEver, EverKept

LEMMA DeletesKeeps ==
    ASSUME TypeInv, LedgerInv, NEW i \in Ids, Deletes(i)
    PROVE  LedgerInv' /\ EverKept /\ Ledger!Erase(i)
<1>1. \A j \in Ids : store'[j] = IF j = i THEN NoRecord ELSE store[j]
  BY DEF Deletes, TypeInv, TypeOK
<1>2. Stored' = Stored \ {i}
  BY <1>1 DEF Stored
<1>3. Ever' = Ever
  BY <1>1, <1>2 DEF Ever, Rows, Deletes, Stored
<1>4. SameEver
  BY <1>3 DEF SameEver
<1>5. LinksGoBack' /\ OneIdentity' /\ CopiesAccounted' /\ PendingFresh'
      /\ PendingDistinct'
  BY <1>4, SameEverKeeps DEF Deletes
<1>6. RowsInPlace'
  BY <1>1, <1>2 DEF LedgerInv, RowsInPlace, Stored
<1>7. NoReturn'
  BY <1>1, RowFacts
     DEF LedgerInv, NoReturn, Deletes, TypeInv, Ever, MemoryRecord
<1>8. Ledger!Erase(i)
  BY <1>1 DEF Ledger!Erase, Ledger!Kept, Ledger!OnlyRow, Ledger!Ids, Ids, Stored,
              Deletes
<1>9. QED
  BY <1>4, <1>5, <1>6, <1>7, <1>8 DEF LedgerInv, SameEver, EverKept

-----------------------------------------------------------------------------
(* Every step is of one of the kinds *)

\* A process that keeps its copies, or takes new ones from the store.
LEMMA BecomeKeeps ==
    ASSUME CallsOK, NEW p \in Procs, NEW call,
           call.old \in {NoRecord, op[p].old} \cup Rows \cup op[p].recs,
           call.recs \subseteq op[p].recs \cup Rows,
           Become(p, call)
    PROVE  CopiesKept /\ op'[p] = call /\ \A q \in Procs \ {p} : PendingKept(q)
BY DEF CallsOK, Become, CopiesKept, PendingKept

\* The same, for a process that has no new record to store.
LEMMA MoveKeeps ==
    ASSUME CallsOK, NEW p \in Procs, NEW call,
           call.old \in {NoRecord, op[p].old} \cup Rows \cup op[p].recs,
           call.recs \subseteq op[p].recs \cup Rows,
           Pending(call) => Pending(op[p]) /\ call.rec = op[p].rec,
           Become(p, call)
    PROVE  CopiesKept /\ op'[p] = call /\ \A q \in Procs : PendingKept(q)
<1>1. CopiesKept /\ op'[p] = call /\ \A q \in Procs \ {p} : PendingKept(q)
  BY BecomeKeeps
<1>2. PendingKept(p)
  BY <1>1 DEF PendingKept
<1>3. QED
  BY <1>1, <1>2

LEMMA GotoKeeps ==
    ASSUME CallsOK, NEW p \in Procs, NEW pc, Goto(p, pc),
           pc \in PendingPCs => op[p].pc \in PendingPCs
    PROVE  CopiesKept /\ op'[p].pc = pc /\ \A q \in Procs : PendingKept(q)
<1> DEFINE call == [op[p] EXCEPT !.pc = pc]
<1>1. Become(p, call)
  BY DEF Goto, Become, CallsOK
<1>2. call.pc = pc /\ call.old = op[p].old /\ call.recs = op[p].recs
      /\ call.rec = op[p].rec
  BY DEF CallsOK, Call
<1>3. CopiesKept /\ op'[p] = call /\ \A q \in Procs \ {p} : PendingKept(q)
  BY <1>1, <1>2, BecomeKeeps
<1>4. QED
  BY <1>2, <1>3 DEF PendingKept, Pending

LEMMA FinishKeeps ==
    ASSUME CallsOK, NEW p \in Procs, Finish(p)
    PROVE  CopiesKept /\ \A q \in Procs : PendingKept(q)
<1>1. CopiesKept /\ op'[p] = Idle /\ \A q \in Procs \ {p} : PendingKept(q)
  BY BecomeKeeps DEF Finish, Idle
<1>2. QED
  BY <1>1 DEF Idle, PendingKept, Pending, PendingPCs

\* The write-back of a held copy.
LEMMA StoreUpdateKind ==
    ASSUME TypeInv, LedgerInv, NEW p \in Procs, NEW r \in MemoryRecord, NEW call \in Call,
           op[p].old \in MemoryRecord, Immutable(r) = Immutable(op[p].old),
           r.status # "Active",
           call.old \in {NoRecord, op[p].old}, call.recs \subseteq op[p].recs,
           Pending(call) => Pending(op[p]) /\ call.rec = op[p].rec,
           StoreUpdate(p, r, call), UNCHANGED <<erased, nextId>>
    PROVE  OfSomeKind
<1> USE DEF TypeInv
<1>1. CASE op' = [op EXCEPT ![p].checked = TRUE] /\ UNCHANGED store
  <2> DEFINE checked == [op[p] EXCEPT !.checked = TRUE]
  <2>1. /\ checked.old = op[p].old /\ checked.recs = op[p].recs
        /\ checked.pc = op[p].pc /\ checked.rec = op[p].rec
    BY DEF CallsOK, Call
  <2>2. Become(p, checked)
    BY <1>1 DEF Become
  <2>3. CopiesKept /\ op'[p] = checked /\ \A q \in Procs \ {p} : PendingKept(q)
    BY <2>1, <2>2, BecomeKeeps
  <2>4. QED
    BY <1>1, <2>1, <2>3 DEF OfSomeKind, Quietly, PendingKept, Pending
<1>2. CASE /\ IF Backend = "local" THEN op[p].checked ELSE CanUpdate(r)
           /\ store' = [store EXCEPT ![r.id] = Updated(r)]
           /\ Become(p, [call EXCEPT !.checked = FALSE])
  <2> DEFINE next == [call EXCEPT !.checked = FALSE]
             new == Updated(r)
  <2>1. /\ next.old = call.old /\ next.recs = call.recs
        /\ next.pc = call.pc /\ next.rec = call.rec
    BY DEF Call
  <2>2. CopiesKept /\ op'[p] = next /\ \A q \in Procs \ {p} : PendingKept(q)
    BY <1>2, <2>1, BecomeKeeps
  <2>3. PendingKept(p)
    BY <2>1, <2>2 DEF PendingKept, Pending
  <2>4. /\ new \in MemoryRecord /\ Immutable(new) = Immutable(op[p].old)
        /\ new.id = r.id /\ new.status # "Active"
    <3>1. Updated(r).status = r.status
      BY DEF Updated, MemoryRecord
    <3>2. QED
      BY <3>1, WriteBackType, WriteBackImmutable, ImmutableFixes
  <2>5. /\ Backend # "local" => r.id \in Stored
        /\ Backend = "postgres" => new.version = store[r.id].version + 1
    BY <1>2 DEF CanUpdate, Updated, MemoryRecord
  <2>6. WritesBack(p, new)
    BY <1>2, <2>2, <2>3, <2>4, <2>5 DEF WritesBack
  <2>7. QED
    BY <2>4, <2>6 DEF OfSomeKind
<1>3. CASE Finish(p) /\ UNCHANGED store
  BY <1>3, FinishKeeps DEF OfSomeKind, Quietly
<1>4. QED
  BY <1>1, <1>2, <1>3 DEF StoreUpdate

LEMMA StoreDeleteKind ==
    ASSUME TypeInv, NEW i, NEW scope, StoreDelete(i, scope), UNCHANGED nextId,
           CopiesKept, \A q \in Procs : PendingKept(q)
    PROVE  OfSomeKind
<1>1. CASE Deletable(i, scope)
  <2>1. i \in Stored /\ i \in Ids
    BY <1>1 DEF Deletable, Visible, Stored
  <2>2. QED
    BY <1>1, <2>1 DEF StoreDelete, OfSomeKind, Deletes
<1>2. CASE ~Deletable(i, scope)
  BY <1>2 DEF StoreDelete, OfSomeKind, Quietly
<1>3. QED
  BY <1>1, <1>2

LEMMA QueryRows ==
    ASSUME NEW scope, NEW statuses, NEW subject, NEW limit
    PROVE  Query(scope, statuses, subject, limit) \subseteq Rows
BY DEF Query, Newest

LEMMA RememberKind ==
    ASSUME TypeInv, NEW p \in Procs, NEW req \in RememberRequest,
           Remember(p, req) \/ WriteUnindexed(p, req)
    PROVE  OfSomeKind
<1> USE DEF TypeInv
<1>1. nextId \in Ids /\ req \in RememberRequest
  BY EngineAssumption DEF Remember, WriteUnindexed
<1>2. PICK pc \in PCs : Become(p, NewRecordCall(pc, req))
  BY DEF Remember, WriteUnindexed, Enter, AfterDedup, PCs
<1>3. /\ NewRecordCall(pc, req).old = NoRecord
      /\ NewRecordCall(pc, req).recs = {}
      /\ NewRecordCall(pc, req).rec = into_record(nextId, req)
  BY DEF NewRecordCall, Idle
<1>4. /\ CopiesKept /\ op'[p] = NewRecordCall(pc, req)
      /\ \A q \in Procs \ {p} : PendingKept(q)
  BY <1>2, <1>3, BecomeKeeps
<1>5. op'[p].rec.id = nextId /\ op'[p].rec.supersedes < nextId
  BY <1>1, <1>3, <1>4, IntoRecordType DEF Ids
<1>6. Mints(p)
  BY <1>1, <1>4, <1>5 DEF Mints, Remember, WriteUnindexed
<1>7. QED
  BY <1>6 DEF OfSomeKind

LEMMA UpdateKind ==
    ASSUME TypeInv, LedgerInv, NEW p \in Procs, NEW i, NEW scope,
           NEW content \in Contents, NEW confidence \in Confidences,
           Update(p, i, scope, content, confidence)
    PROVE  OfSomeKind
<1> USE DEF TypeInv
<1>1. CASE Visible(i, scope)
  <2> DEFINE derived == derive_successor(nextId, store[i], content)
             rec == [derived EXCEPT !.confidence = confidence]
             call == [Idle EXCEPT !.pc = "succPut", !.scope = scope,
                                  !.old = store[i], !.rec = rec]
  <2>1. nextId \in Ids /\ i \in Stored /\ store[i] \in MemoryRecord
        /\ store[i] \in Rows /\ store[i].id = i /\ i < nextId
    BY <1>1, RowFacts
       DEF Update, Visible, LedgerInv, LinksGoBack, Ever
  <2>2. derived \in MemoryRecord /\ derived.id = nextId /\ derived.supersedes = i
    BY <2>1, DeriveType
  <2>3. rec.id = nextId /\ rec.supersedes = i
    <3>. HIDE DEF derived
    <3>. QED
      BY <2>2 DEF MemoryRecord
  <2> HIDE DEF rec
  <2>4. call.old = store[i] /\ call.recs = {} /\ call.rec = rec
    BY DEF Idle
  <2>5. Become(p, call) /\ nextId' = nextId + 1
    BY <1>1 DEF Update, Enter, rec
  <2>6. CopiesKept /\ op'[p] = call /\ \A q \in Procs \ {p} : PendingKept(q)
    <3>. HIDE DEF call
    <3>. QED
      BY <2>1, <2>4, <2>5, BecomeKeeps
  <2>7. Mints(p)
    BY <2>1, <2>3, <2>4, <2>5, <2>6 DEF Mints, Update
  <2>8. QED
    BY <2>7 DEF OfSomeKind
<1>2. CASE ~Visible(i, scope)
  <2>1. Finish(p)
    BY <1>2 DEF Update, Enter, Finish
  <2>2. QED
    BY <1>2, <2>1, FinishKeeps DEF Update, OfSomeKind, Quietly
<1>3. QED
  BY <1>1, <1>2

LEMMA ForgetKind ==
    ASSUME TypeInv, NEW p \in Procs, NEW i, NEW scope, Forget(p, i, scope)
    PROVE  OfSomeKind
<1> USE DEF TypeInv
<1> DEFINE call == [Idle EXCEPT !.pc = "tombstone", !.scope = scope, !.id = i,
                                !.old = store[i]]
<1>1. CASE Become(p, call) /\ Visible(i, scope)
  <2>1. call.old \in Rows /\ call.recs = {} /\ ~Pending(call)
    BY <1>1 DEF Idle, Visible, Rows, Pending, PendingPCs
  <2>2. CopiesKept /\ op'[p] = call /\ \A q \in Procs \ {p} : PendingKept(q)
    <3>. HIDE DEF call
    <3>. QED
      BY <1>1, <2>1, BecomeKeeps
  <2>3. QED
    BY <2>1, <2>2 DEF Forget, OfSomeKind, Quietly, PendingKept
<1>2. CASE Finish(p)
  BY <1>2, FinishKeeps DEF Forget, OfSomeKind, Quietly
<1>3. QED
  BY <1>1, <1>2 DEF Forget, Enter, Finish

LEMMA PurgeKind ==
    ASSUME TypeInv, NEW p \in Procs, NEW i, NEW scope,
           Purge(p, i, scope) \/ ForgetEverywhere(p, i, scope)
    PROVE  OfSomeKind
<1> USE DEF TypeInv
<1>1. PICK pc \in {"purgeUnindex", "cdUnindex"} :
          Become(p, [Idle EXCEPT !.pc = pc, !.scope = scope, !.id = i])
  BY DEF Purge, ForgetEverywhere, Enter
<1>2. LET call == [Idle EXCEPT !.pc = pc, !.scope = scope, !.id = i]
      IN  call.old = NoRecord /\ call.recs = {} /\ call.pc = pc
  BY DEF Idle
<1>3. CopiesKept /\ op'[p].pc = pc /\ \A q \in Procs \ {p} : PendingKept(q)
  BY <1>1, <1>2, BecomeKeeps
<1>4. \A q \in Procs : PendingKept(q)
  BY <1>3 DEF PendingKept, Pending, PendingPCs
<1>5. QED
  BY <1>3, <1>4, StoreDeleteKind
     DEF Purge, ForgetEverywhere, OfSomeKind, Quietly

LEMMA StartKind ==
    ASSUME TypeInv, LedgerInv, NEW p \in Procs, Start(p)
    PROVE  OfSomeKind
<1> USE DEF TypeInv
<1>1. ASSUME NEW req \in Requests, Remember(p, req) \/ WriteUnindexed(p, req)
      PROVE  OfSomeKind
  BY <1>1, RememberKind, EngineAssumption
<1>2. ASSUME NEW i \in Known, NEW scope \in CallScopes, NEW content \in Contents,
             NEW confidence \in Confidences, Update(p, i, scope, content, confidence)
      PROVE  OfSomeKind
  BY <1>2, UpdateKind
<1>3. ASSUME NEW i \in Known, NEW scope \in CallScopes, Forget(p, i, scope)
      PROVE  OfSomeKind
  BY <1>3, ForgetKind
<1>4. ASSUME NEW i \in Known, NEW scope \in CallScopes,
             Purge(p, i, scope) \/ ForgetEverywhere(p, i, scope)
      PROVE  OfSomeKind
  BY <1>4, PurgeKind
<1>5. ASSUME NEW scope \in CallScopes, RecallSemantic(p, scope)
      PROVE  OfSomeKind
  <2>1. PICK hits :
            Become(p, [Idle EXCEPT !.pc = "hydrate", !.scope = scope, !.todo = hits])
    BY <1>5 DEF RecallSemantic, Enter
  <2>2. LET call == [Idle EXCEPT !.pc = "hydrate", !.scope = scope, !.todo = hits]
        IN  call.old = NoRecord /\ call.recs = {} /\ call.pc = "hydrate"
    BY DEF Idle
  <2>3. CopiesKept /\ op'[p].pc = "hydrate" /\ \A q \in Procs \ {p} : PendingKept(q)
    BY <2>1, <2>2, BecomeKeeps
  <2>4. QED
    BY <1>5, <2>3
       DEF RecallSemantic, OfSomeKind, Quietly, PendingKept, Pending, PendingPCs
<1>6. ASSUME NEW scope \in CallScopes, NEW now \in Instants, Sweep(p, scope, now)
      PROVE  OfSomeKind
  <2> DEFINE recs == {r \in Query(scope, Status, NoSubject, BATCH_LIMIT) :
                        PurgedBySweep(r, now) \/ ArchivedBySweep(r, now)}
             call == [Idle EXCEPT !.pc = "sweep", !.scope = scope, !.recs = recs]
  <2>1. recs \subseteq Rows
    BY QueryRows
  <2>2. Become(p, call)
    BY <1>6 DEF Sweep, Enter
  <2> HIDE DEF recs
  <2>3. call.old = NoRecord /\ call.recs = recs /\ call.pc = "sweep"
    BY DEF Idle
  <2>4. CopiesKept /\ op'[p].pc = "sweep" /\ \A q \in Procs \ {p} : PendingKept(q)
    BY <2>1, <2>2, <2>3, BecomeKeeps
  <2>5. QED
    BY <1>6, <2>4 DEF Sweep, OfSomeKind, Quietly, PendingKept, Pending, PendingPCs
<1>7. QED
  BY <1>1, <1>2, <1>3, <1>4, <1>5, <1>6 DEF Start

LEMMA ContinueKind ==
    ASSUME TypeInv, LedgerInv, NEW p \in Procs, Continue(p)
    PROVE  OfSomeKind
<1> USE DEF TypeInv
<1>a. op[p] \in Call /\ Equipped(op[p])
  BY DEF CallsOK
<1>1. ASSUME \/ DedupPass(p) \/ ConflictPass(p) \/ IgnoreGet(p)
      PROVE  OfSomeKind
  <2>1. CopiesKept /\ \A q \in Procs : PendingKept(q)
    BY <1>1, GotoKeeps, FinishKeeps
       DEF DedupPass, ConflictPass, IgnoreGet, At, AfterDedup, PendingPCs
  <2>2. QED
    BY <1>1, <2>1 DEF DedupPass, ConflictPass, IgnoreGet, OfSomeKind, Quietly
<1>2. ASSUME \/ MergeUnindex(p) \/ ReplaceUnindex(p) \/ PredUnindex(p)
             \/ ForgetUnindex(p) \/ PurgeUnindex(p) \/ CoordinateUnindex(p)
      PROVE  OfSomeKind
  <2>1. CopiesKept /\ \A q \in Procs : PendingKept(q)
    BY <1>2, GotoKeeps
       DEF MergeUnindex, ReplaceUnindex, PredUnindex, ForgetUnindex, PurgeUnindex,
           CoordinateUnindex, At, PendingPCs
  <2>2. QED
    BY <1>2, <2>1
       DEF MergeUnindex, ReplaceUnindex, PredUnindex, ForgetUnindex, PurgeUnindex,
           CoordinateUnindex, OfSomeKind, Quietly
<1>3. ASSUME \/ IndexRecord(p) \/ SuccIndex(p) \/ ReplaceIndex(p)
             \/ ForgetEdges(p) \/ PurgeEdges(p) \/ CoordinateEdges(p)
      PROVE  OfSomeKind
  <2>1. CopiesKept /\ \A q \in Procs : PendingKept(q)
    BY <1>3, GotoKeeps, FinishKeeps
       DEF IndexRecord, SuccIndex, ReplaceIndex, ForgetEdges, PurgeEdges,
           CoordinateEdges, PendingPCs
  <2>2. QED
    BY <1>3, <2>1
       DEF IndexRecord, SuccIndex, ReplaceIndex, ForgetEdges, PurgeEdges,
           CoordinateEdges, OfSomeKind, Quietly
<1>4. ASSUME SweepDone(p) \/ RecallDone(p) \/ RemoveGhost(p)
      PROVE  OfSomeKind
  <2>1. CopiesKept /\ \A q \in Procs : PendingKept(q)
    BY <1>4, GotoKeeps, FinishKeeps DEF SweepDone, RecallDone, RemoveGhost, PendingPCs
  <2>2. QED
    BY <1>4, <2>1 DEF SweepDone, RecallDone, RemoveGhost, OfSomeKind, Quietly
<1>5. ASSUME DedupIgnore(p) \/ ConflictReplace(p)
      PROVE  OfSomeKind
  <2>1. \A pc, i : LET call == [op[p] EXCEPT !.pc = pc, !.id = i]
                  IN  /\ call.old = op[p].old /\ call.recs = op[p].recs
                      /\ call.rec = op[p].rec
    BY <1>a DEF Call
  <2>2. Pending(op[p])
    BY <1>5 DEF DedupIgnore, ConflictReplace, At, Pending, PendingPCs
  <2>3. CASE DedupIgnore(p)
    <3>1. PICK target : Become(p, [op[p] EXCEPT !.pc = "ignoreGet", !.id = target.id])
      BY <2>3 DEF DedupIgnore
    <3>2. CopiesKept /\ \A q \in Procs : PendingKept(q)
      BY <2>1, <2>2, <3>1, MoveKeeps
    <3>3. QED
      BY <2>3, <3>2 DEF DedupIgnore, OfSomeKind, Quietly
  <2>4. CASE ConflictReplace(p)
    <3>1. PICK fact : Become(p, [op[p] EXCEPT !.pc = "replaceGet", !.id = fact.id])
      BY <2>4 DEF ConflictReplace
    <3>2. CopiesKept /\ \A q \in Procs : PendingKept(q)
      BY <2>1, <2>2, <3>1, MoveKeeps
    <3>3. QED
      BY <2>4, <3>2 DEF ConflictReplace, OfSomeKind, Quietly
  <2>5. QED
    BY <1>5, <2>3, <2>4
<1>6. ASSUME DedupReview(p) \/ ConflictQuarantine(p)
      PROVE  OfSomeKind
  <2> DEFINE call == [op[p] EXCEPT !.pc = "putOnly", !.rec.status = "Quarantined"]
  <2>1. Become(p, call) /\ Pending(op[p])
    BY <1>6 DEF DedupReview, ConflictQuarantine, At, Pending, PendingPCs
  <2>2. op[p].rec \in MemoryRecord
    BY <2>1, PendingRecType
  <2>3. /\ call.old = op[p].old /\ call.recs = op[p].recs
        /\ call.rec.id = op[p].rec.id /\ call.rec.supersedes = op[p].rec.supersedes
    BY <1>a, <2>2 DEF Call, MemoryRecord
  <2>4. CopiesKept /\ op'[p] = call /\ \A q \in Procs \ {p} : PendingKept(q)
    BY <2>1, <2>3, BecomeKeeps
  <2>5. \A q \in Procs : PendingKept(q)
    BY <2>1, <2>3, <2>4 DEF PendingKept
  <2>6. QED
    BY <1>6, <2>4, <2>5 DEF DedupReview, ConflictQuarantine, OfSomeKind, Quietly
<1>7. ASSUME DedupMerge(p)
      PROVE  OfSomeKind
  <2> DEFINE rec == derive_successor(nextId, op[p].rec, op[p].rec.content)
  <2>1. PICK target \in DedupCandidates(p) :
            Become(p, [op[p] EXCEPT !.pc = "mergePut", !.old = target, !.rec = rec])
    BY <1>7 DEF DedupMerge
  <2>2. target \in Rows /\ Pending(op[p]) /\ nextId \in Ids
    BY <1>7, QueryRows
       DEF DedupMerge, DedupCandidates, At, Pending, PendingPCs
  <2>3. op[p].rec \in MemoryRecord /\ op[p].rec.id < nextId
    BY <2>2, PendingRecType DEF LedgerInv, PendingFresh
  <2>4. rec.id = nextId /\ rec.supersedes = op[p].rec.id
    BY <2>2, <2>3, DeriveType DEF MemoryRecord
  <2> HIDE DEF rec
  <2> DEFINE call == [op[p] EXCEPT !.pc = "mergePut", !.old = target, !.rec = rec]
  <2>5. call.old = target /\ call.recs = op[p].recs /\ call.rec = rec
    BY <1>a DEF Call
  <2>6. CopiesKept /\ op'[p] = call /\ \A q \in Procs \ {p} : PendingKept(q)
    <3>1. Become(p, call)
      BY <2>1
    <3>. HIDE DEF call
    <3>2. QED
      BY <3>1, <2>2, <2>5, BecomeKeeps
  <2>7. Mints(p)
    BY <1>7, <2>2, <2>3, <2>4, <2>5, <2>6 DEF Mints, DedupMerge
  <2>8. QED
    BY <2>7 DEF OfSomeKind
<1>8. ASSUME MergePut(p) \/ ReplacePut(p) \/ PutRecord(p) \/ SuccPut(p) \/ PutOnly(p)
      PROVE  OfSomeKind
  <2>1. Pending(op[p]) /\ op[p].rec \in MemoryRecord
    BY <1>8, PendingRecType
       DEF MergePut, ReplacePut, PutRecord, SuccPut, PutOnly, At, Pending, PendingPCs
  <2>2. PICK pc \in {"mergeUnindex", "replaceIndex", "index", "succIndex", "idle"} :
            IF pc = "idle" THEN Finish(p) ELSE Goto(p, pc)
    BY <1>8 DEF MergePut, ReplacePut, PutRecord, SuccPut, PutOnly
  <2>3. CopiesKept /\ \A q \in Procs : PendingKept(q)
    BY <2>2, GotoKeeps, FinishKeeps DEF PendingPCs
  <2>4. op'[p].pc = pc
    BY <2>2 DEF Finish, Become, Goto, Idle, CallsOK, Call
  <2>5. ~Pending(op'[p])
    BY <2>4 DEF Pending, PendingPCs
  <2>6. Puts(p)
    BY <1>8, <2>1, <2>3, <2>5
       DEF MergePut, ReplacePut, PutRecord, SuccPut, PutOnly, Puts
  <2>7. QED
    BY <2>6 DEF OfSomeKind
<1>9. ASSUME MergeRetire(p) \/ Retire(p)
      PROVE  OfSomeKind
  <2> DEFINE r == [op[p].old EXCEPT !.status = "Superseded"]
  <2>1. op[p].old \in MemoryRecord
    BY <1>9, <1>a DEF MergeRetire, Retire, At, Equipped, HoldsOld
  <2>2. r \in MemoryRecord /\ Immutable(r) = Immutable(op[p].old) /\ r.status # "Active"
    <3>1. r \in MemoryRecord
      BY <2>1, WriteBackType DEF Status
    <3>2. Immutable(r) = Immutable(op[p].old)
      BY <2>1, WriteBackImmutable
    <3>3. r.status = "Superseded"
      BY <2>1 DEF MemoryRecord
    <3>4. QED
      BY <3>1, <3>2, <3>3
  <2>3. Idle.old = NoRecord /\ Idle.recs = {} /\ ~Pending(Idle) /\ Idle \in Call
    BY IdleType DEF Idle, Pending, PendingPCs
  <2>4. StoreUpdate(p, r, Idle) /\ UNCHANGED <<erased, nextId>>
    BY <1>9 DEF MergeRetire, Retire
  <2>5. QED
    <3>. HIDE DEF r
    <3>. QED
      BY <2>1, <2>2, <2>3, <2>4, StoreUpdateKind
<1>10. ASSUME ReplaceGet(p)
       PROVE  OfSomeKind
  <2>1. CASE Visible(op[p].id, op[p].scope)
    <3> DEFINE call == [op[p] EXCEPT !.pc = "replaceClose", !.old = store[op[p].id]]
    <3>1. call.old \in Rows /\ call.recs = op[p].recs /\ call.rec = op[p].rec
          /\ Pending(op[p])
      BY <1>10, <1>a, <2>1
         DEF ReplaceGet, At, Pending, PendingPCs, Call, Visible, Rows
    <3>2. CopiesKept /\ op'[p] = call /\ \A q \in Procs \ {p} : PendingKept(q)
      BY <1>10, <2>1, <3>1, BecomeKeeps DEF ReplaceGet
    <3>3. \A q \in Procs : PendingKept(q)
      BY <3>1, <3>2 DEF PendingKept
    <3>4. QED
      BY <1>10, <3>2, <3>3 DEF ReplaceGet, OfSomeKind, Quietly
  <2>2. CASE ~Visible(op[p].id, op[p].scope)
    <3>1. CopiesKept /\ \A q \in Procs : PendingKept(q)
      BY <1>10, <2>2, GotoKeeps DEF ReplaceGet, At, PendingPCs
    <3>2. QED
      BY <1>10, <3>1 DEF ReplaceGet, OfSomeKind, Quietly
  <2>3. QED
    BY <2>1, <2>2
<1>11. ASSUME ReplaceClose(p)
       PROVE  OfSomeKind
  <2> DEFINE r == close_window(op[p].old)
             call == [op[p] EXCEPT !.pc = "replaceUnindex"]
  <2>1. op[p].old \in MemoryRecord /\ Pending(op[p])
    BY <1>11, <1>a DEF ReplaceClose, At, Equipped, HoldsOld, Pending, PendingPCs
  <2>2. r \in MemoryRecord /\ Immutable(r) = Immutable(op[p].old) /\ r.status # "Active"
    BY <2>1, WriteBackType, WriteBackImmutable DEF close_window, MemoryRecord
  <2>3. /\ call \in Call /\ call.old = op[p].old /\ call.recs = op[p].recs
        /\ call.rec = op[p].rec
    BY <1>a DEF Call, PCs
  <2>4. StoreUpdate(p, r, call) /\ UNCHANGED <<erased, nextId>>
    BY <1>11 DEF ReplaceClose
  <2>5. QED
    <3>. HIDE DEF r, call
    <3>. QED
      BY <2>1, <2>2, <2>3, <2>4, StoreUpdateKind
<1>12. ASSUME Tombstone(p) \/ Archive(p)
       PROVE  OfSomeKind
  <2>1. PICK status \in {"Deleted", "Archived"}, pc \in {"forgetUnindex", "sweep"} :
            /\ StoreUpdate(p, [op[p].old EXCEPT !.status = status],
                           [op[p] EXCEPT !.pc = pc])
            /\ UNCHANGED <<erased, nextId>>
    BY <1>12 DEF Tombstone, Archive
  <2> DEFINE r == [op[p].old EXCEPT !.status = status]
             call == [op[p] EXCEPT !.pc = pc]
  <2>2. op[p].old \in MemoryRecord
    BY <1>12, <1>a DEF Tombstone, Archive, At, Equipped, HoldsOld
  <2>3. r \in MemoryRecord /\ Immutable(r) = Immutable(op[p].old) /\ r.status # "Active"
    BY <2>2, WriteBackType, WriteBackImmutable DEF Status, MemoryRecord
  <2>p. pc \in PCs /\ pc \notin PendingPCs
    BY DEF PCs, PendingPCs
  <2>4. /\ call \in Call /\ call.old = op[p].old /\ call.recs = op[p].recs
        /\ ~Pending(call)
    <3>1. call \in Call /\ call.pc = pc
      BY <1>a, <2>p DEF Call
    <3>2. call.old = op[p].old /\ call.recs = op[p].recs
      BY <1>a DEF Call
    <3>3. QED
      BY <2>p, <3>1, <3>2 DEF Pending
  <2>5. StoreUpdate(p, r, call) /\ UNCHANGED <<erased, nextId>>
    BY <2>1
  <2>6. QED
    <3>. HIDE DEF r, call
    <3>. QED
      BY <2>2, <2>3, <2>4, <2>5, StoreUpdateKind
<1>13. ASSUME SweepNext(p)
       PROVE  OfSomeKind
  <2>1. PICK r \in op[p].recs :
            Become(p, IF r.retention.class = "Standard"
                      THEN [op[p] EXCEPT !.pc = "archive", !.old = r,
                                         !.recs = op[p].recs \ {r}]
                      ELSE [op[p] EXCEPT !.pc = "cdUnindex", !.id = r.id,
                                         !.recs = op[p].recs \ {r}])
    BY <1>13 DEF SweepNext
  <2>2. CASE r.retention.class = "Standard"
    <3> DEFINE call == [op[p] EXCEPT !.pc = "archive", !.old = r,
                                     !.recs = op[p].recs \ {r}]
    <3>1. call.old = r /\ call.recs \subseteq op[p].recs /\ ~Pending(call)
      BY <1>a DEF Call, Pending, PendingPCs
    <3>2. CopiesKept /\ \A q \in Procs : PendingKept(q)
      BY <2>1, <2>2, <3>1, MoveKeeps
    <3>3. QED
      BY <1>13, <3>2 DEF SweepNext, OfSomeKind, Quietly
  <2>3. CASE r.retention.class # "Standard"
    <3> DEFINE call == [op[p] EXCEPT !.pc = "cdUnindex", !.id = r.id,
                                     !.recs = op[p].recs \ {r}]
    <3>1. call.old = op[p].old /\ call.recs \subseteq op[p].recs /\ ~Pending(call)
      BY <1>a DEF Call, Pending, PendingPCs
    <3>2. CopiesKept /\ \A q \in Procs : PendingKept(q)
      BY <2>1, <2>3, <3>1, MoveKeeps
    <3>3. QED
      BY <1>13, <3>2 DEF SweepNext, OfSomeKind, Quietly
  <2>4. QED
    BY <2>2, <2>3
<1>14. ASSUME CoordinateRow(p)
       PROVE  OfSomeKind
  <2>1. CopiesKept /\ \A q \in Procs : PendingKept(q)
    BY <1>14, GotoKeeps DEF CoordinateRow, PendingPCs
  <2>2. StoreDelete(op[p].id, op[p].scope) /\ UNCHANGED nextId
    BY <1>14 DEF CoordinateRow
  <2>3. QED
    BY <2>1, <2>2, StoreDeleteKind
<1>15. ASSUME Hydrate(p)
       PROVE  OfSomeKind
  <2>1. PICK i \in op[p].todo :
            Become(p, [op[p] EXCEPT
                !.todo = op[p].todo \ {i}, !.id = i,
                !.pc = IF Visible(i, op[p].scope) THEN "hydrate" ELSE "ghost"])
    BY <1>15 DEF Hydrate
  <2>2. \A pc \in {"hydrate", "ghost"} :
            LET call == [op[p] EXCEPT !.todo = op[p].todo \ {i}, !.id = i, !.pc = pc]
            IN  /\ call.old = op[p].old /\ call.recs = op[p].recs
                /\ ~Pending(call)
    BY <1>a DEF Call, Pending, PendingPCs
  <2>3. CopiesKept /\ \A q \in Procs : PendingKept(q)
    BY <2>1, <2>2, MoveKeeps
  <2>4. QED
    BY <1>15, <2>3 DEF Hydrate, OfSomeKind, Quietly
<1>16. ASSUME IndexGraph(p)
       PROVE  OfSomeKind
  <2>1. CASE UNCHANGED op
    BY <1>16, <2>1
       DEF IndexGraph, CopiesKept, PendingKept, Pending, OfSomeKind, Quietly
  <2>2. CASE Finish(p)
    BY <1>16, <2>2, FinishKeeps DEF IndexGraph, OfSomeKind, Quietly
  <2>3. QED
    BY <1>16, <2>1, <2>2 DEF IndexGraph
<1>17. QED
  BY <1>1, <1>2, <1>3, <1>4, <1>5, <1>6, <1>7, <1>8, <1>9, <1>10, <1>11, <1>12,
     <1>13, <1>14, <1>15, <1>16 DEF Continue

LEMMA RepairKind ==
    ASSUME TypeInv, NEW w \in Procs, Repair(w)
    PROVE  OfSomeKind
<1> USE DEF TypeInv
<1>a. op[w] \in Call
  BY DEF CallsOK
<1>1. CASE RepairQuery(w)
  <2> DEFINE recs == Query(GlobalScope, {"Active"}, NoSubject, BATCH_LIMIT)
             call == [Idle EXCEPT !.pc = "repairList", !.recs = recs]
  <2>1. recs \subseteq Rows
    BY QueryRows
  <2>2. Become(w, call)
    BY <1>1 DEF RepairQuery
  <2> HIDE DEF recs
  <2>3. call.old = NoRecord /\ call.recs = recs /\ ~Pending(call)
    BY DEF Idle, Pending, PendingPCs
  <2>4. QED
    BY <1>1, <2>1, <2>2, <2>3, MoveKeeps DEF RepairQuery, OfSomeKind, Quietly
<1>2. CASE RepairList(w)
  <2> DEFINE listed == IF VectorLists THEN Indexed ELSE {}
             todo == listed \ {r.id : r \in op[w].recs}
             recs == {r \in op[w].recs : r.id \notin listed}
             call == [op[w] EXCEPT !.pc = "repair", !.todo = todo, !.recs = recs]
  <2>1. recs \subseteq op[w].recs
    OBVIOUS
  <2>2. Become(w, call)
    BY <1>2 DEF RepairList
  <2> HIDE DEF todo, recs
  <2>3. call.old = op[w].old /\ call.recs = recs /\ ~Pending(call)
    BY <1>a DEF Call, Pending, PendingPCs
  <2>4. CopiesKept /\ \A q \in Procs : PendingKept(q)
    <3>. HIDE DEF call
    <3>. QED
      BY <2>1, <2>2, <2>3, MoveKeeps
  <2>5. QED
    BY <1>2, <2>4 DEF RepairList, OfSomeKind, Quietly
<1>3. CASE RepairGhost(w)
  <2>1. PICK i : Become(w, [op[w] EXCEPT !.todo = op[w].todo \ {i}])
    BY <1>3 DEF RepairGhost, Become
  <2>2. LET call == [op[w] EXCEPT !.todo = op[w].todo \ {i}]
        IN  call.old = op[w].old /\ call.recs = op[w].recs /\ ~Pending(call)
    BY <1>3, <1>a DEF RepairGhost, At, Call, Pending, PendingPCs
  <2>3. CopiesKept /\ \A q \in Procs : PendingKept(q)
    BY <2>1, <2>2, MoveKeeps
  <2>4. QED
    BY <1>3, <2>3 DEF RepairGhost, OfSomeKind, Quietly
<1>4. CASE RepairUpsert(w)
  <2>1. PICK r : Become(w, [op[w] EXCEPT !.recs = op[w].recs \ {r}])
    BY <1>4 DEF RepairUpsert, Become
  <2>2. LET call == [op[w] EXCEPT !.recs = op[w].recs \ {r}]
        IN  /\ call.old = op[w].old /\ call.recs \subseteq op[w].recs
            /\ ~Pending(call)
    BY <1>4, <1>a DEF RepairUpsert, At, Call, Pending, PendingPCs
  <2>3. CopiesKept /\ \A q \in Procs : PendingKept(q)
    BY <2>1, <2>2, MoveKeeps
  <2>4. QED
    BY <1>4, <2>3 DEF RepairUpsert, OfSomeKind, Quietly
<1>5. CASE RepairDone(w)
  BY <1>5, FinishKeeps DEF RepairDone, OfSomeKind, Quietly
<1>6. QED
  BY <1>1, <1>2, <1>3, <1>4, <1>5 DEF Repair

LEMMA StepKind ==
    ASSUME TypeInv, LedgerInv, [Next]_vars
    PROVE  OfSomeKind
<1>1. CASE UNCHANGED vars
  BY <1>1 DEF vars, OfSomeKind, Quietly, CopiesKept, PendingKept
<1>2. ASSUME NEW c \in Clients, Start(c) \/ Continue(c)
      PROVE  OfSomeKind
  BY <1>2, StartKind, ContinueKind DEF Procs
<1>3. ASSUME NEW c \in Clients, Abort(c)
      PROVE  OfSomeKind
  BY <1>3, FinishKeeps DEF Procs, TypeInv, Abort, OfSomeKind, Quietly
<1>4. ASSUME NEW w \in Workers, Repair(w)
      PROVE  OfSomeKind
  BY <1>4, RepairKind DEF Procs
<1>5. QED
  BY <1>1, <1>2, <1>3, <1>4 DEF Next

-----------------------------------------------------------------------------
(* The theorems *)

LEMMA LedgerInvInit == Init => LedgerInv
<1> SUFFICES ASSUME Init PROVE LedgerInv
  OBVIOUS
<1>1. Stored = {} /\ Ever = {}
  BY DEF Init, Stored, Rows, Ever
<1>2. \A p \in Procs : op[p].old = NoRecord /\ op[p].recs = {} /\ ~Pending(op[p])
  BY DEF Init, Idle, Pending, PendingPCs
<1>3. QED
  BY <1>1, <1>2
     DEF Init, LedgerInv, RowsInPlace, LinksGoBack, OneIdentity, CopiesAccounted,
         PendingFresh, PendingDistinct, NoReturn

\* A step of each kind preserves the invariant, forgets no row, and is a step of
\* the ledger or leaves the ledger as it is.
LEMMA KindStep ==
    ASSUME TypeInv, LedgerInv, OfSomeKind
    PROVE  /\ LedgerInv' /\ EverKept
           /\ Backend # "local" => [Ledger!Next]_<<store, erased>>
<1>1. CASE Quietly
  BY <1>1, QuietlyKeeps DEF Quietly
<1>2. ASSUME NEW p \in Procs, Mints(p)
      PROVE  LedgerInv' /\ EverKept /\ UNCHANGED <<store, erased>>
  BY <1>2, MintsKeeps DEF Mints
<1>3. ASSUME NEW p \in Procs, Puts(p)
      PROVE  LedgerInv' /\ EverKept /\ Ledger!Next
  <2>1. op[p].rec.id \in Ids
    BY <1>3 DEF Puts, MemoryRecord
  <2>2. QED
    BY <1>3, <2>1, PutsKeeps DEF Ledger!Next, Ledger!Ids, Ids
<1>4. ASSUME NEW p \in Procs, NEW r \in MemoryRecord, WritesBack(p, r)
      PROVE  LedgerInv' /\ EverKept /\ (Backend # "local" => Ledger!Next)
  <2>1. r.id \in Ids
    BY DEF MemoryRecord
  <2>2. QED
    BY <1>4, <2>1, WritesBackKeeps DEF Ledger!Next, Ledger!Ids, Ids
<1>5. ASSUME NEW i \in Ids, Deletes(i)
      PROVE  LedgerInv' /\ EverKept /\ Ledger!Next
  BY <1>5, DeletesKeeps DEF Ledger!Next, Ledger!Ids, Ids
<1>6. QED
  BY <1>1, <1>2, <1>3, <1>4, <1>5 DEF OfSomeKind

LEMMA LedgerStep ==
    ASSUME TypeInv, LedgerInv, [Next]_vars
    PROVE  /\ LedgerInv' /\ EverKept
           /\ Backend # "local" => [Ledger!Next]_<<store, erased>>
BY KindStep, StepKind

\* A row that stays stored keeps its identity, in every kind of step.
LEMMA HistoryStep ==
    ASSUME TypeInv, LedgerInv, [Next]_vars,
           NEW i \in Ids, store[i] # NoRecord, store'[i] # NoRecord
    PROVE  Immutable(store'[i]) = Immutable(store[i])
<1>1. i \in Stored /\ store[i] \in Ever /\ store[i].id = i
  BY RowFacts DEF TypeInv, LedgerInv, Stored, Ever
<1>2. CASE store' = store
  BY <1>2
<1>3. ASSUME NEW p \in Procs, Puts(p)
      PROVE  Immutable(store'[i]) = Immutable(store[i])
  <2>1. op[p].rec.id # i
    BY <1>1, <1>3 DEF Puts, LedgerInv, PendingFresh
  <2>2. QED
    BY <1>3, <2>1 DEF Puts, StorePut, TypeInv, TypeOK
<1>4. ASSUME NEW p \in Procs, NEW r \in MemoryRecord, WritesBack(p, r)
      PROVE  Immutable(store'[i]) = Immutable(store[i])
  <2>1. CASE r.id # i
    BY <1>4, <2>1 DEF WritesBack, TypeInv, TypeOK
  <2>2. CASE r.id = i
    <3>1. store'[i] = r
      BY <1>4, <2>2 DEF WritesBack, TypeInv, TypeOK
    <3>2. PICK s \in Ever : Immutable(s) = Immutable(r)
      BY <1>4, EngineAssumption DEF WritesBack, LedgerInv, CopiesAccounted, Accounted
    <3>3. s.id = store[i].id
      BY <1>1, <2>2, <3>2, ImmutableFixes
    <3>4. QED
      BY <1>1, <3>1, <3>2, <3>3 DEF LedgerInv, OneIdentity
  <2>3. QED
    BY <2>1, <2>2
<1>5. ASSUME NEW j \in Ids, Deletes(j)
      PROVE  store' = [store EXCEPT ![j] = NoRecord]
  BY <1>5 DEF Deletes
<1>6. QED
  BY <1>2, <1>3, <1>4, <1>5, StepKind
     DEF OfSomeKind, Quietly, Mints, TypeInv, TypeOK

LEMMA Invariant == Spec => [](TypeInv /\ LedgerInv)
<1>1. Init => TypeInv /\ LedgerInv
  BY TypeInvInit, LedgerInvInit
<1>2. TypeInv /\ LedgerInv /\ [Next]_vars => (TypeInv /\ LedgerInv)'
  BY TypeInvStep, LedgerStep
<1>3. QED
  BY <1>1, <1>2, PTL DEF Spec

\* The chain of predecessors that history() walks ends, on every store and under
\* every interleaving: a row supersedes only an older one.
THEOREM ChainsEnd == Spec => []ChainGoesBack
<1>1. TypeInv /\ LedgerInv => ChainGoesBack
  BY RowFacts DEF TypeInv, LedgerInv, LinksGoBack, ChainGoesBack, Ever
<1>2. QED
  BY <1>1, Invariant, PTL

\* No write-back of a stale copy rewrites history, on every store: not even where
\* an update brings an erased row back does it bring back another one.
THEOREM HistoryKept == Spec => HistoryImmutable
<1>1. TypeInv /\ LedgerInv /\ [Next]_vars =>
          [\A i \in Ids : store[i] # NoRecord /\ store'[i] # NoRecord
               => Immutable(store'[i]) = Immutable(store[i])]_vars
  BY HistoryStep
<1>2. QED
  BY <1>1, Invariant, PTL DEF Spec, HistoryImmutable

\* Erasure is final unless the store is the local one: a call that read the row
\* before it was erased writes its copy back in vain.
THEOREM ErasureFinal ==
    ASSUME Backend # "local"
    PROVE  Spec => []ErasedStaysErased
<1>1. TypeInv /\ LedgerInv => ErasedStaysErased
  BY DEF LedgerInv, NoReturn, ErasedStaysErased
<1>2. QED
  BY <1>1, Invariant, PTL

\* The engine implements the ledger, unless the store is the local one.
THEOREM KeepsLedger ==
    ASSUME Backend # "local"
    PROVE  Spec => LedgerSpec
<1>1. Init => Ledger!Init
  BY DEF Init, Ledger!Init, Ledger!Ids, Ids
<1>2. TypeInv /\ LedgerInv /\ [Next]_vars => [Ledger!Next]_<<store, erased>>
  BY LedgerStep
<1>3. QED
  BY <1>1, <1>2, Invariant, PTL DEF Spec, LedgerSpec, Ledger!Spec
-----------------------------------------------------------------------------
(* What a step does to the call of the process that takes it *)

\* The points of a call nothing below depends on.
Dull == PCs \ {"index", "replaceIndex", "succIndex", "graph", "predUnindex",
               "retire", "succPut", "replaceGet", "replaceClose", "hydrate",
               "ghost"}

\* The same call, but for the mark a local store leaves on it.
Agrees(a, b) ==
    /\ a.pc = b.pc /\ a.scope = b.scope /\ a.id = b.id /\ a.rec = b.rec
    /\ a.old = b.old /\ a.recs = b.recs /\ a.todo = b.todo

\* From call b to call a.
Moves(b, a) ==
    \/ a.pc \in Dull
    \/ Agrees(a, b)
    \/ /\ <<b.pc, a.pc>> \in {<<"put", "index">>, <<"replacePut", "replaceIndex">>,
                              <<"succPut", "succIndex">>}
       /\ a.rec = b.rec /\ a.old = b.old /\ StorePut(b.rec)
    \/ b.pc = "index" /\ a.pc = "graph" /\ a.rec = b.rec
    \/ /\ <<b.pc, a.pc>> \in {<<"succIndex", "predUnindex">>,
                              <<"predUnindex", "retire">>}
       /\ a.old = b.old
    \/ a.pc = "succPut" /\ a.old \in Rows /\ a.rec.supersedes = a.old.id
    \/ /\ b.pc = "conflict" /\ a.pc = "replaceGet" /\ a.rec = b.rec
       /\ \E fact \in Rows : a.id = fact.id /\ Replaces(b.rec, fact)
    \/ /\ b.pc = "replaceGet" /\ a.pc = "replaceClose" /\ a.rec = b.rec
       /\ b.id \in Stored /\ a.old = store[b.id]
    \/ /\ a.pc = "hydrate"
       /\ a.todo \subseteq {i \in Indexed : FilterMatches(a.scope, vectors[i])}
       /\ a.scope \in CallScopes
    \/ /\ b.pc = "hydrate" /\ a.scope = b.scope /\ a.todo \subseteq b.todo
       /\ \/ a.pc = "hydrate"
          \/ a.pc = "ghost" /\ a.id \in b.todo /\ ~Visible(a.id, b.scope)
    \/ b.pc = "ghost" /\ a.pc = "hydrate" /\ a.scope = b.scope /\ a.todo = b.todo

Others(p) == \A q \in Procs \ {p} : op'[q] = op[q]

\* How each way of changing a call changes it.
LEMMA BecomeMoves ==
    ASSUME CallsOK, NEW p \in Procs, NEW call, Become(p, call)
    PROVE  op'[p] = call /\ Others(p)
BY DEF CallsOK, Become, Others

LEMMA GotoMoves ==
    ASSUME CallsOK, NEW p \in Procs, NEW pc, Goto(p, pc)
    PROVE  /\ Agrees([op'[p] EXCEPT !.pc = op[p].pc], op[p])
           /\ op'[p].scope = op[p].scope /\ op'[p].id = op[p].id
           /\ op'[p].rec = op[p].rec /\ op'[p].old = op[p].old
           /\ op'[p].recs = op[p].recs /\ op'[p].todo = op[p].todo
           /\ op'[p].pc = pc /\ Others(p)
BY DEF CallsOK, Call, Goto, Others, Agrees

LEMMA FinishMoves ==
    ASSUME CallsOK, NEW p \in Procs, Finish(p)
    PROVE  Moves(op[p], op'[p]) /\ Others(p) /\ op'[p] = Idle
<1>1. op'[p] = Idle /\ Others(p)
  BY BecomeMoves DEF Finish
<1>2. Idle.pc \in Dull
  BY DEF Idle, Dull, PCs
<1>3. QED
  BY <1>1, <1>2 DEF Moves

LEMMA UpdateMoves ==
    ASSUME CallsOK, NEW p \in Procs, NEW r, NEW call \in Call, call.pc \in Dull,
           StoreUpdate(p, r, call)
    PROVE  Moves(op[p], op'[p]) /\ Others(p)
<1>1. CASE op' = [op EXCEPT ![p].checked = TRUE]
  BY <1>1 DEF CallsOK, Call, Moves, Agrees, Others
<1>2. CASE Become(p, [call EXCEPT !.checked = FALSE])
  <2> DEFINE next == [call EXCEPT !.checked = FALSE]
  <2>1. next.pc \in Dull /\ Become(p, next)
    BY <1>2 DEF Call
  <2> HIDE DEF next
  <2>2. op'[p] = next /\ Others(p)
    BY <2>1, BecomeMoves
  <2>3. QED
    BY <2>1, <2>2 DEF Moves
<1>3. CASE Finish(p)
  BY <1>3, FinishMoves
<1>4. QED
  BY <1>1, <1>2, <1>3 DEF StoreUpdate

LEMMA ContinueMoves ==
    ASSUME TypeInv, LedgerInv, NEW p \in Procs, Continue(p)
    PROVE  Moves(op[p], op'[p]) /\ Others(p)
<1>c. CallsOK /\ op[p] \in Call
  BY DEF TypeInv, CallsOK
<1>g. ASSUME NEW pc \in Dull, Goto(p, pc)
      PROVE  Moves(op[p], op'[p]) /\ Others(p)
  <2>1. op'[p].pc = pc /\ Others(p)
    BY <1>c, <1>g, GotoMoves
  <2>2. QED
    BY <2>1 DEF Moves
<1>d. Dull = {"idle", "dedup", "ignoreGet", "panicked", "mergePut", "mergeUnindex",
              "mergeRetire", "conflict", "replaceUnindex", "replacePut", "put",
              "putOnly", "tombstone", "forgetUnindex", "forgetEdges",
              "purgeUnindex", "purgeEdges", "cdUnindex", "cdEdges", "cdRow",
              "sweep", "archive", "repairList", "repair"}
  BY DEF Dull, PCs
<1>b. ASSUME NEW call, Become(p, call), call.pc \in Dull
      PROVE  Moves(op[p], op'[p]) /\ Others(p)
  BY <1>c, <1>b, BecomeMoves DEF Moves
<1>1. CASE \/ DedupPass(p) \/ ConflictPass(p) \/ MergePut(p) \/ MergeUnindex(p)
           \/ ReplaceUnindex(p) \/ ForgetUnindex(p) \/ PurgeUnindex(p)
           \/ CoordinateUnindex(p) \/ CoordinateEdges(p) \/ CoordinateRow(p)
  BY <1>1, <1>d, <1>g
     DEF DedupPass, ConflictPass, MergePut, MergeUnindex, ReplaceUnindex,
         ForgetUnindex, PurgeUnindex, CoordinateUnindex, CoordinateEdges,
         CoordinateRow, AfterDedup
<1>2. CASE \/ PutOnly(p) \/ ForgetEdges(p) \/ PurgeEdges(p) \/ SweepDone(p)
           \/ RecallDone(p) \/ ReplaceIndex(p)
  BY <1>2, <1>c, FinishMoves
     DEF PutOnly, ForgetEdges, PurgeEdges, SweepDone, RecallDone, ReplaceIndex
<1>3. CASE IgnoreGet(p)
  BY <1>3, <1>c, <1>d, <1>g, FinishMoves DEF IgnoreGet
<1>4. CASE DedupIgnore(p)
  <2>1. PICK i : Become(p, [op[p] EXCEPT !.pc = "ignoreGet", !.id = i])
    BY <1>4 DEF DedupIgnore
  <2>2. [op[p] EXCEPT !.pc = "ignoreGet", !.id = i].pc \in Dull
    BY <1>c, <1>d DEF Call
  <2>3. QED
    BY <1>b, <2>1, <2>2
<1>5. CASE DedupMerge(p)
  <2>1. PICK target, rec :
            Become(p, [op[p] EXCEPT !.pc = "mergePut", !.old = target, !.rec = rec])
    BY <1>5 DEF DedupMerge
  <2>2. [op[p] EXCEPT !.pc = "mergePut", !.old = target, !.rec = rec].pc \in Dull
    BY <1>c, <1>d DEF Call
  <2>3. QED
    BY <1>b, <2>1, <2>2
<1>6. CASE DedupReview(p) \/ ConflictQuarantine(p)
  <2>1. Become(p, [op[p] EXCEPT !.pc = "putOnly", !.rec.status = "Quarantined"])
    BY <1>6 DEF DedupReview, ConflictQuarantine
  <2>2. [op[p] EXCEPT !.pc = "putOnly", !.rec.status = "Quarantined"].pc \in Dull
    BY <1>c, <1>d DEF Call
  <2>3. QED
    BY <1>b, <2>1, <2>2
<1>7. CASE MergeRetire(p)
  <2>1. Idle \in Call /\ Idle.pc \in Dull
    BY <1>d, IdleType DEF Idle
  <2>2. QED
    BY <1>7, <1>c, <2>1, UpdateMoves DEF MergeRetire
<1>8. CASE Retire(p)
  <2>1. Idle \in Call /\ Idle.pc \in Dull
    BY <1>d, IdleType DEF Idle
  <2>2. QED
    BY <1>8, <1>c, <2>1, UpdateMoves DEF Retire
<1>9. CASE ReplaceClose(p)
  <2>1. [op[p] EXCEPT !.pc = "replaceUnindex"] \in Call
        /\ [op[p] EXCEPT !.pc = "replaceUnindex"].pc \in Dull
    BY <1>c, <1>d DEF Call, PCs
  <2>2. QED
    BY <1>9, <1>c, <2>1, UpdateMoves DEF ReplaceClose
<1>10. CASE Tombstone(p)
  <2>1. [op[p] EXCEPT !.pc = "forgetUnindex"] \in Call
        /\ [op[p] EXCEPT !.pc = "forgetUnindex"].pc \in Dull
    BY <1>c, <1>d DEF Call, PCs
  <2>2. QED
    BY <1>10, <1>c, <2>1, UpdateMoves DEF Tombstone
<1>11. CASE Archive(p)
  <2>1. [op[p] EXCEPT !.pc = "sweep"] \in Call
        /\ [op[p] EXCEPT !.pc = "sweep"].pc \in Dull
    BY <1>c, <1>d DEF Call, PCs
  <2>2. QED
    BY <1>11, <1>c, <2>1, UpdateMoves DEF Archive
<1>12. CASE ConflictReplace(p)
  <2>1. PICK fact \in OpenFacts(p) :
            /\ Replaces(op[p].rec, fact)
            /\ Become(p, [op[p] EXCEPT !.pc = "replaceGet", !.id = fact.id])
    BY <1>12 DEF ConflictReplace
  <2>2. fact \in Rows
    BY QueryRows DEF OpenFacts
  <2>3. /\ op'[p].pc = "replaceGet" /\ op'[p].rec = op[p].rec
        /\ op'[p].id = fact.id /\ Others(p)
    <3>1. /\ op'[p] = [op[p] EXCEPT !.pc = "replaceGet", !.id = fact.id]
          /\ Others(p)
      BY <1>c, <2>1, BecomeMoves
    <3>2. QED
      BY <1>c, <3>1 DEF Call
  <2>4. op[p].pc = "conflict"
    BY <1>12 DEF ConflictReplace, At
  <2>5. QED
    BY <2>1, <2>2, <2>3, <2>4 DEF Moves
<1>13. CASE ReplaceGet(p)
  <2>1. CASE Visible(op[p].id, op[p].scope)
    <3>1. Become(p, [op[p] EXCEPT !.pc = "replaceClose", !.old = store[op[p].id]])
      BY <1>13, <2>1 DEF ReplaceGet
    <3>2. /\ op'[p].pc = "replaceClose" /\ op'[p].rec = op[p].rec
          /\ op'[p].old = store[op[p].id] /\ Others(p)
      <4>1. /\ op'[p] = [op[p] EXCEPT !.pc = "replaceClose", !.old = store[op[p].id]]
            /\ Others(p)
        BY <1>c, <3>1, BecomeMoves
      <4>2. QED
        BY <1>c, <4>1 DEF Call
    <3>3. QED
      BY <1>13, <2>1, <3>2 DEF ReplaceGet, At, Moves, Visible
  <2>2. CASE ~Visible(op[p].id, op[p].scope)
    BY <1>13, <1>d, <1>g, <2>2 DEF ReplaceGet
  <2>3. QED
    BY <2>1, <2>2
<1>14. CASE ReplacePut(p) \/ PutRecord(p) \/ SuccPut(p)
  BY <1>14, <1>c, GotoMoves DEF ReplacePut, PutRecord, SuccPut, At, Moves
<1>15. CASE IndexRecord(p) \/ SuccIndex(p) \/ PredUnindex(p) \/ RemoveGhost(p)
  BY <1>15, <1>c, GotoMoves
     DEF IndexRecord, SuccIndex, PredUnindex, RemoveGhost, At, Moves
<1>16. CASE IndexGraph(p)
  <2>1. CASE UNCHANGED op
    BY <2>1 DEF Moves, Agrees, Others
  <2>2. CASE Finish(p)
    BY <1>c, <2>2, FinishMoves
  <2>3. QED
    BY <1>16, <2>1, <2>2 DEF IndexGraph
<1>17. CASE SweepNext(p)
  <2>1. PICK r \in op[p].recs :
            Become(p, IF r.retention.class = "Standard"
                      THEN [op[p] EXCEPT !.pc = "archive", !.old = r,
                                         !.recs = op[p].recs \ {r}]
                      ELSE [op[p] EXCEPT !.pc = "cdUnindex", !.id = r.id,
                                         !.recs = op[p].recs \ {r}])
    BY <1>17 DEF SweepNext
  <2>2. op'[p].pc \in {"archive", "cdUnindex"} /\ Others(p)
    <3>1. /\ op'[p] = IF r.retention.class = "Standard"
                      THEN [op[p] EXCEPT !.pc = "archive", !.old = r,
                                         !.recs = op[p].recs \ {r}]
                      ELSE [op[p] EXCEPT !.pc = "cdUnindex", !.id = r.id,
                                         !.recs = op[p].recs \ {r}]
          /\ Others(p)
      BY <1>c, <2>1, BecomeMoves
    <3>2. QED
      BY <1>c, <3>1 DEF Call
  <2>3. QED
    BY <1>d, <2>2 DEF Moves
<1>18. CASE Hydrate(p)
  <2>1. PICK i \in op[p].todo :
            Become(p, [op[p] EXCEPT
                !.todo = op[p].todo \ {i}, !.id = i,
                !.pc = IF Visible(i, op[p].scope) THEN "hydrate" ELSE "ghost"])
    BY <1>18 DEF Hydrate
  <2>2. /\ op'[p].pc = IF Visible(i, op[p].scope) THEN "hydrate" ELSE "ghost"
        /\ op'[p].scope = op[p].scope /\ op'[p].todo = op[p].todo \ {i}
        /\ op'[p].id = i /\ Others(p)
    <3>1. /\ op'[p] = [op[p] EXCEPT
                !.todo = op[p].todo \ {i}, !.id = i,
                !.pc = IF Visible(i, op[p].scope) THEN "hydrate" ELSE "ghost"]
          /\ Others(p)
      BY <1>c, <2>1, BecomeMoves
    <3>2. QED
      BY <1>c, <3>1 DEF Call
  <2>3. QED
    BY <1>18, <2>2 DEF Hydrate, At, Moves
<1>19. QED
  BY <1>1, <1>2, <1>3, <1>4, <1>5, <1>6, <1>7, <1>8, <1>9, <1>10, <1>11, <1>12,
     <1>13, <1>14, <1>15, <1>16, <1>17, <1>18 DEF Continue

\* How an operation begins.
LEMMA EnterMoves ==
    ASSUME CallsOK, NEW p \in Procs, NEW operation, NEW call,
           Enter(p, operation, call)
    PROVE  op'[p] = call /\ Others(p)
BY BecomeMoves DEF Enter

\* A write of any request, whoever put it together.
LEMMA RememberMoves ==
    ASSUME CallsOK, NEW p \in Procs, NEW req,
           Remember(p, req) \/ WriteUnindexed(p, req)
    PROVE  Moves(op[p], op'[p]) /\ Others(p)
<1>1. PICK operation \in {"remember", "write_unindexed"},
           pc \in {"dedup", "conflict", "put", "putOnly"} :
          Enter(p, operation, NewRecordCall(pc, req))
  BY DEF Remember, WriteUnindexed, AfterDedup
<1>2. NewRecordCall(pc, req).pc = pc
  BY DEF NewRecordCall, Idle
<1>3. op'[p] = NewRecordCall(pc, req) /\ Others(p)
  BY <1>1, EnterMoves
<1>4. QED
  BY <1>2, <1>3 DEF Moves, Dull, PCs

LEMMA StartMoves ==
    ASSUME TypeInv, NEW p \in Procs, Start(p)
    PROVE  Moves(op[p], op'[p]) /\ Others(p)
<1>c. CallsOK
  BY DEF TypeInv
<1>d. Dull = {"idle", "dedup", "ignoreGet", "panicked", "mergePut", "mergeUnindex",
              "mergeRetire", "conflict", "replaceUnindex", "replacePut", "put",
              "putOnly", "tombstone", "forgetUnindex", "forgetEdges",
              "purgeUnindex", "purgeEdges", "cdUnindex", "cdEdges", "cdRow",
              "sweep", "archive", "repairList", "repair"}
  BY DEF Dull, PCs
<1>e. ASSUME NEW operation, NEW call, Enter(p, operation, call), call.pc \in Dull
      PROVE  Moves(op[p], op'[p]) /\ Others(p)
  <2>1. op'[p] = call /\ Others(p)
    BY <1>c, <1>e, EnterMoves
  <2>2. QED
    BY <1>e, <2>1 DEF Moves
<1>i. Idle.pc \in Dull
  BY <1>d DEF Idle
<1>1. ASSUME NEW req \in Requests, Remember(p, req) \/ WriteUnindexed(p, req)
      PROVE  Moves(op[p], op'[p]) /\ Others(p)
  BY <1>1, <1>c, RememberMoves
<1>2. ASSUME NEW i \in Known, NEW scope \in CallScopes, NEW content \in Contents,
             NEW confidence \in Confidences, Update(p, i, scope, content, confidence)
      PROVE  Moves(op[p], op'[p]) /\ Others(p)
  <2>1. CASE ~Visible(i, scope)
    BY <1>2, <1>e, <1>i, <2>1 DEF Update
  <2>2. CASE Visible(i, scope)
    <3> DEFINE derived == derive_successor(nextId, store[i], content)
               rec == [derived EXCEPT !.confidence = confidence]
               call == [Idle EXCEPT !.pc = "succPut", !.scope = scope,
                                    !.old = store[i], !.rec = rec]
    <3>1. nextId \in Ids /\ store[i] \in MemoryRecord /\ store[i] \in Rows
      BY <1>2, <2>2 DEF Update, Visible, Stored, Rows, TypeInv, TypeOK
    <3>2. derived \in MemoryRecord /\ derived.supersedes = store[i].id
      BY <3>1, DeriveType
    <3>3. rec.supersedes = store[i].id
      BY <3>2 DEF MemoryRecord
    <3>4. Enter(p, "update", call)
      BY <1>2, <2>2 DEF Update
    <3>5. call.pc = "succPut" /\ call.old = store[i] /\ call.rec = rec
      BY DEF Idle
    <3> HIDE DEF call, rec
    <3>6. op'[p] = call /\ Others(p)
      BY <1>c, <3>4, EnterMoves
    <3>7. QED
      BY <3>1, <3>3, <3>5, <3>6 DEF Moves
  <2>3. QED
    BY <2>1, <2>2
<1>3. ASSUME NEW i \in Known, NEW scope \in CallScopes,
             Forget(p, i, scope) \/ Purge(p, i, scope) \/ ForgetEverywhere(p, i, scope)
      PROVE  Moves(op[p], op'[p]) /\ Others(p)
  <2>1. CASE Forget(p, i, scope)
    <3> DEFINE call == [Idle EXCEPT !.pc = "tombstone", !.scope = scope, !.id = i,
                                    !.old = store[i]]
    <3>1. call.pc \in Dull
      BY <1>d DEF Idle
    <3>2. Enter(p, "forget", Idle) \/ Enter(p, "forget", call)
      BY <2>1 DEF Forget
    <3> HIDE DEF call
    <3>3. QED
      BY <1>e, <1>i, <3>1, <3>2
  <2>2. CASE Purge(p, i, scope) \/ ForgetEverywhere(p, i, scope)
    <3>1. PICK operation \in Operations, pc \in {"purgeUnindex", "cdUnindex"} :
              Enter(p, operation, [Idle EXCEPT !.pc = pc, !.scope = scope, !.id = i])
      BY <2>2 DEF Purge, ForgetEverywhere, Operations
    <3> DEFINE call == [Idle EXCEPT !.pc = pc, !.scope = scope, !.id = i]
    <3>2. call.pc \in Dull
      BY <1>d DEF Idle
    <3>3. Enter(p, operation, call)
      BY <3>1
    <3> HIDE DEF call
    <3>4. QED
      BY <1>e, <3>2, <3>3
  <2>3. QED
    BY <1>3, <2>1, <2>2
<1>4. ASSUME NEW scope \in CallScopes, RecallSemantic(p, scope)
      PROVE  Moves(op[p], op'[p]) /\ Others(p)
  <2>1. PICK hits \in SUBSET {i \in Indexed : FilterMatches(scope, vectors[i])} :
            Enter(p, "recall_semantic",
                  [Idle EXCEPT !.pc = "hydrate", !.scope = scope, !.todo = hits])
    BY <1>4 DEF RecallSemantic
  <2> DEFINE call == [Idle EXCEPT !.pc = "hydrate", !.scope = scope, !.todo = hits]
  <2>2. call.pc = "hydrate" /\ call.scope = scope /\ call.todo = hits
    BY DEF Idle
  <2>3. op'[p] = call /\ Others(p)
    BY <1>c, <2>1, EnterMoves
  <2> HIDE DEF call
  <2>4. QED
    BY <2>2, <2>3 DEF Moves
<1>5. ASSUME NEW scope \in CallScopes, NEW now \in Instants, Sweep(p, scope, now)
      PROVE  Moves(op[p], op'[p]) /\ Others(p)
  <2>1. PICK recs : Enter(p, "sweep", [Idle EXCEPT !.pc = "sweep", !.scope = scope,
                                                !.recs = recs])
    BY <1>5 DEF Sweep
  <2> DEFINE call == [Idle EXCEPT !.pc = "sweep", !.scope = scope, !.recs = recs]
  <2>2. call.pc \in Dull
    BY <1>d DEF Idle
  <2>3. Enter(p, "sweep", call)
    BY <2>1
  <2> HIDE DEF call
  <2>4. QED
    BY <1>e, <2>2, <2>3
<1>6. QED
  BY <1>1, <1>2, <1>3, <1>4, <1>5 DEF Start

\* The repair never leaves its own points.
LEMMA RepairMoves ==
    ASSUME CallsOK, NEW w \in Procs, Repair(w)
    PROVE  op'[w].pc \in {"idle", "repairList", "repair"} /\ Others(w)
<1>a. op[w] \in Call
  BY DEF CallsOK
<1>1. CASE RepairQuery(w)
  <2>1. PICK recs : Become(w, [Idle EXCEPT !.pc = "repairList", !.recs = recs])
    BY <1>1 DEF RepairQuery
  <2>2. [Idle EXCEPT !.pc = "repairList", !.recs = recs].pc = "repairList"
    BY DEF Idle
  <2>3. QED
    BY <1>a, <2>1, <2>2, BecomeMoves
<1>2. CASE RepairList(w)
  <2>1. PICK todo, recs :
            Become(w, [op[w] EXCEPT !.pc = "repair", !.todo = todo, !.recs = recs])
    BY <1>2 DEF RepairList
  <2>2. /\ op'[w] = [op[w] EXCEPT !.pc = "repair", !.todo = todo, !.recs = recs]
        /\ Others(w)
    BY <1>a, <2>1, BecomeMoves
  <2>3. QED
    BY <1>a, <2>2 DEF Call
<1>3. CASE RepairGhost(w) \/ RepairUpsert(w)
  <2>1. At(w, "repair") /\ \E todo, recs :
            Become(w, [op[w] EXCEPT !.todo = todo])
            \/ Become(w, [op[w] EXCEPT !.recs = recs])
    BY <1>3 DEF RepairGhost, RepairUpsert, Become
  <2>2. PICK todo, recs :
            /\ \/ op'[w] = [op[w] EXCEPT !.todo = todo]
               \/ op'[w] = [op[w] EXCEPT !.recs = recs]
            /\ Others(w)
    BY <1>a, <2>1, BecomeMoves
  <2>3. QED
    BY <1>a, <2>1, <2>2 DEF At, Call
<1>4. CASE RepairDone(w)
  BY <1>a, <1>4, FinishMoves DEF RepairDone, Idle
<1>5. QED
  BY <1>1, <1>2, <1>3, <1>4 DEF Repair

\* Whatever the step, the call of every process moves as above.
LEMMA NextMoves ==
    ASSUME TypeInv, LedgerInv, [Next]_vars
    PROVE  \A q \in Procs : Moves(op[q], op'[q])
<1>1. CASE UNCHANGED vars
  BY <1>1 DEF vars, Moves, Agrees
<1>s. ASSUME NEW p \in Procs, Moves(op[p], op'[p]), Others(p)
      PROVE  \A q \in Procs : Moves(op[q], op'[q])
  BY <1>s DEF Others, Moves, Agrees
<1>2. ASSUME NEW c \in Clients, Start(c) \/ Continue(c)
      PROVE  \A q \in Procs : Moves(op[q], op'[q])
  BY <1>2, <1>s, StartMoves, ContinueMoves DEF Procs
<1>3. ASSUME NEW c \in Clients, Abort(c)
      PROVE  \A q \in Procs : Moves(op[q], op'[q])
  BY <1>3, <1>s, FinishMoves DEF Procs, TypeInv, Abort
<1>4. ASSUME NEW w \in Workers, Repair(w)
      PROVE  \A q \in Procs : Moves(op[q], op'[q])
  <2>1. w \in Procs
    BY DEF Procs
  <2>2. op'[w].pc \in {"idle", "repairList", "repair"} /\ Others(w)
    BY <1>4, <2>1, RepairMoves DEF TypeInv
  <2>3. Moves(op[w], op'[w])
    BY <2>2 DEF Moves, Dull, PCs
  <2>4. QED
    BY <1>s, <2>1, <2>2, <2>3
<1>5. QED
  BY <1>1, <1>2, <1>3, <1>4 DEF Next

-----------------------------------------------------------------------------
(* What a step does to the vector index and the graph *)

IndexingPCs == {"index", "replaceIndex", "succIndex"}

\* The records a process may index.
Indexable(p) ==
    op[p].recs \cup (IF op[p].pc \in IndexingPCs THEN {op[p].rec} ELSE {})

IndexedBy(p, i) ==
    \E r \in Indexable(p) : r.id = i /\ vectors'[i] = vector_metadata(r.scope)

\* A vector stays, goes, or is that of a record some process may index.
VectorsMove ==
    \A i \in Ids : \/ vectors'[i] \in {vectors[i], NoVector}
                   \/ \E p \in Procs : IndexedBy(p, i)

\* An edge is new only for the record a process is extracting relations from.
EdgesMove ==
    \A i \in evidence' \ evidence :
        \E p \in Procs : op[p].pc = "graph" /\ i = op[p].rec.id

LEMMA RemoveMoves ==
    ASSUME TypeOK, NEW i, RemoveVector(i)
    PROVE  VectorsMove
BY DEF TypeOK, RemoveVector, VectorsMove

LEMMA IndexMoves ==
    ASSUME TypeOK, NEW p \in Procs, NEW r \in Indexable(p), IndexVector(r)
    PROVE  VectorsMove
<1>1. \A i \in Ids : vectors'[i] = IF i = r.id THEN vector_metadata(r.scope)
                                  ELSE vectors[i]
  BY DEF TypeOK, IndexVector
<1>2. QED
  BY <1>1 DEF VectorsMove, IndexedBy

LEMMA IndexStep ==
    ASSUME TypeOK, [Next]_vars
    PROVE  VectorsMove /\ EdgesMove
<1>u. ASSUME UNCHANGED vectors PROVE VectorsMove
  BY <1>u DEF VectorsMove
<1>e. ASSUME UNCHANGED evidence PROVE EdgesMove
  BY <1>e DEF EdgesMove
<1>1. CASE UNCHANGED vars
  BY <1>1, <1>u, <1>e DEF vars
<1>2. ASSUME NEW p \in Procs, Start(p)
      PROVE  VectorsMove /\ EdgesMove
  BY <1>2, <1>u, <1>e
     DEF Start, Remember, WriteUnindexed, Update, Forget, Purge, ForgetEverywhere,
         RecallSemantic, Sweep
<1>3. ASSUME NEW p \in Procs, Continue(p)
      PROVE  VectorsMove /\ EdgesMove
  <2>1. CASE \/ MergeUnindex(p) \/ ReplaceUnindex(p) \/ PredUnindex(p)
             \/ ForgetUnindex(p) \/ PurgeUnindex(p) \/ CoordinateUnindex(p)
             \/ RemoveGhost(p)
    BY <2>1, <1>u, <1>e, RemoveMoves
       DEF MergeUnindex, ReplaceUnindex, PredUnindex, ForgetUnindex, PurgeUnindex,
           CoordinateUnindex, RemoveGhost
  <2>2. CASE IndexRecord(p) \/ ReplaceIndex(p) \/ SuccIndex(p)
    <3>1. op[p].rec \in Indexable(p)
      BY <2>2
         DEF IndexRecord, ReplaceIndex, SuccIndex, At, Indexable, IndexingPCs
    <3>2. IndexVector(op[p].rec) /\ UNCHANGED evidence
      BY <2>2 DEF IndexRecord, ReplaceIndex, SuccIndex
    <3>3. QED
      BY <1>e, <3>1, <3>2, IndexMoves
  <2>3. CASE IndexGraph(p)
    BY <2>3, <1>u DEF IndexGraph, At, EdgesMove
  <2>4. CASE ForgetEdges(p) \/ PurgeEdges(p) \/ CoordinateEdges(p)
    BY <2>4, <1>u DEF ForgetEdges, PurgeEdges, CoordinateEdges, EdgesMove
  <2>5. CASE \/ DedupPass(p) \/ DedupIgnore(p) \/ IgnoreGet(p) \/ DedupReview(p)
             \/ DedupMerge(p) \/ MergePut(p) \/ MergeRetire(p)
             \/ ConflictPass(p) \/ ConflictReplace(p) \/ ConflictQuarantine(p)
             \/ ReplaceGet(p) \/ ReplaceClose(p) \/ ReplacePut(p)
             \/ PutRecord(p) \/ PutOnly(p) \/ SuccPut(p) \/ Retire(p)
             \/ Tombstone(p) \/ SweepNext(p) \/ SweepDone(p) \/ Archive(p)
             \/ CoordinateRow(p) \/ Hydrate(p) \/ RecallDone(p)
    BY <2>5, <1>u, <1>e
       DEF DedupPass, DedupIgnore, IgnoreGet, DedupReview, DedupMerge, MergePut,
           MergeRetire, ConflictPass, ConflictReplace, ConflictQuarantine, ReplaceGet,
           ReplaceClose, ReplacePut, PutRecord, PutOnly, SuccPut, Retire, Tombstone,
           SweepNext, SweepDone, Archive, CoordinateRow, Hydrate, RecallDone
  <2>6. QED
    BY <1>3, <2>1, <2>2, <2>3, <2>4, <2>5 DEF Continue
<1>4. ASSUME NEW p \in Procs, Repair(p)
      PROVE  VectorsMove /\ EdgesMove
  <2>1. CASE RepairQuery(p) \/ RepairList(p) \/ RepairDone(p)
    BY <2>1, <1>u, <1>e DEF RepairQuery, RepairList, RepairDone
  <2>2. CASE RepairGhost(p)
    BY <2>2, <1>e, RemoveMoves DEF RepairGhost
  <2>3. CASE RepairUpsert(p)
    BY <2>3, <1>e, IndexMoves DEF RepairUpsert, Indexable
  <2>4. QED
    BY <1>4, <2>1, <2>2, <2>3 DEF Repair
<1>5. ASSUME NEW p \in Procs, Abort(p)
      PROVE  VectorsMove /\ EdgesMove
  BY <1>5, <1>u, <1>e DEF Abort
<1>6. QED
  BY <1>1, <1>2, <1>3, <1>4, <1>5 DEF Next, Procs

-----------------------------------------------------------------------------
(* The index follows the rows *)

\* A vector mirrors the scope of the row it is for, stored or erased.
VectorsMirror ==
    \A i \in Indexed : \E s \in Ever :
        s.id = i /\ vectors[i] = vector_metadata(s.scope)

EdgesCite == \A i \in evidence : \E s \in Ever : s.id = i

\* What is about to be indexed has been stored.
WrittenFirst ==
    \A p \in Procs : op[p].pc \in IndexingPCs \cup {"graph"} => Accounted(op[p].rec)

IndexInv == VectorsMirror /\ EdgesCite /\ WrittenFirst

LEMMA AccountedKept ==
    ASSUME EverKept
    PROVE  \A r : Accounted(r) => \E s \in Ever' : Immutable(s) = Immutable(r)
BY DEF EverKept, Accounted

LEMMA ImmutableScope ==
    ASSUME NEW r, NEW s, Immutable(r) = Immutable(s)
    PROVE  r.id = s.id /\ r.scope = s.scope /\ r.source = s.source
BY DEF Immutable

\* It is kept by any step that moves index, graph and calls in these ways.
LEMMA IndexInvKept ==
    ASSUME TypeInv, LedgerInv, IndexInv, EverKept, VectorsMove, EdgesMove,
           \A q \in Procs : Moves(op[q], op'[q])
    PROVE  IndexInv'
<1> DEFINE Stays(r) == \E s \in Ever' : Immutable(s) = Immutable(r)
<1>s. \A r : Accounted(r) => Stays(r)
  BY AccountedKept
<1>e. \A s \in Ever : Stays(s)
  BY DEF EverKept
<1>1. VectorsMirror'
  <2>1. SUFFICES ASSUME NEW i \in Ids, vectors'[i] # NoVector
                 PROVE  \E s \in Ever' : s.id = i /\ vectors'[i] = vector_metadata(s.scope)
    BY DEF VectorsMirror, Indexed
  <2>2. CASE vectors'[i] = vectors[i]
    <3>1. PICK s \in Ever : s.id = i /\ vectors[i] = vector_metadata(s.scope)
      BY <2>1, <2>2 DEF IndexInv, VectorsMirror, Indexed
    <3>2. PICK t \in Ever' : Immutable(t) = Immutable(s)
      BY <1>e
    <3>3. QED
      BY <2>2, <3>1, <3>2, ImmutableScope
  <2>3. ASSUME NEW p \in Procs, IndexedBy(p, i)
        PROVE  \E s \in Ever' : s.id = i /\ vectors'[i] = vector_metadata(s.scope)
    <3>1. PICK r \in Indexable(p) : r.id = i /\ vectors'[i] = vector_metadata(r.scope)
      BY <2>3 DEF IndexedBy
    <3>2. Accounted(r)
      BY DEF Indexable, IndexInv, WrittenFirst, LedgerInv, CopiesAccounted
    <3>3. PICK t \in Ever' : Immutable(t) = Immutable(r)
      BY <1>s, <3>2
    <3>4. QED
      BY <3>1, <3>3, ImmutableScope
  <2>4. QED
    BY <2>1, <2>2, <2>3 DEF VectorsMove
<1>2. EdgesCite'
  <2>1. SUFFICES ASSUME NEW i \in evidence'
                 PROVE  \E s \in Ever' : s.id = i
    BY DEF EdgesCite
  <2>2. PICK r : Stays(r) /\ r.id = i
    <3>1. CASE i \in evidence
      BY <1>e, <3>1 DEF IndexInv, EdgesCite
    <3>2. CASE i \notin evidence
      <4>1. PICK p \in Procs : op[p].pc = "graph" /\ i = op[p].rec.id
        BY <3>2 DEF EdgesMove
      <4>2. Accounted(op[p].rec)
        BY <4>1 DEF IndexInv, WrittenFirst
      <4>3. QED
        BY <1>s, <4>1, <4>2
    <3>3. QED
      BY <3>1, <3>2
  <2>3. QED
    BY <2>2, ImmutableScope
<1>3. WrittenFirst'
  <2>1. SUFFICES ASSUME NEW p \in Procs, op'[p].pc \in IndexingPCs \cup {"graph"}
                 PROVE  Stays(op'[p].rec)
    BY DEF WrittenFirst, Accounted
  <2>2. CASE Agrees(op'[p], op[p])
    BY <1>s, <2>1, <2>2 DEF Agrees, IndexInv, WrittenFirst
  <2>3. CASE op'[p].rec = op[p].rec /\ StorePut(op[p].rec) /\ op[p].pc \in PendingPCs
    <3>1. op[p].rec \in MemoryRecord
      BY <2>3, PendingRecType DEF Pending
    <3>2. store'[op[p].rec.id] = op[p].rec /\ op[p].rec.id \in Ids
          /\ op[p].rec # NoRecord
      BY <2>3, <3>1, EngineAssumption DEF StorePut, TypeInv, TypeOK, MemoryRecord
    <3>3. op[p].rec \in Ever'
      BY <3>2 DEF Ever, Rows, Stored
    <3>4. QED
      BY <2>3, <3>3
  <2>4. CASE op[p].pc = "index" /\ op'[p].rec = op[p].rec
    BY <1>s, <2>4 DEF IndexInv, WrittenFirst, IndexingPCs
  <2>5. QED
    BY <2>1, <2>2, <2>3, <2>4
       DEF Moves, Dull, IndexingPCs, PendingPCs
<1>4. QED
  BY <1>1, <1>2, <1>3 DEF IndexInv

LEMMA IndexInvStep ==
    ASSUME TypeInv, LedgerInv, IndexInv, EverKept, [Next]_vars
    PROVE  IndexInv'
BY IndexInvKept, IndexStep, NextMoves DEF TypeInv

LEMMA IndexInvInit == Init => IndexInv
BY DEF Init, Idle, IndexInv, VectorsMirror, EdgesCite, WrittenFirst, Indexed, IndexingPCs

LEMMA IndexInvariant == Spec => [](TypeInv /\ LedgerInv /\ IndexInv)
<1>1. TypeInv /\ LedgerInv /\ IndexInv /\ [Next]_vars => IndexInv'
  BY IndexInvStep, LedgerStep
<1>2. QED
  BY <1>1, IndexInvInit, Invariant, PTL DEF Spec

\* The row is written before its vector and its edges, and neither outlives the
\* knowledge of it: on every store and whatever calls interleave or end early, an
\* index entry or edge belongs to a row that is stored or was erased.
THEOREM IndexFollowsRow == Spec => []IndexAfterRow
<1>1. TypeInv /\ LedgerInv /\ IndexInv => IndexAfterRow
  <2>1. SUFFICES ASSUME TypeInv, LedgerInv, IndexInv, NEW i \in Indexed \cup evidence
                 PROVE  i \in Stored \cup ErasedIds
    BY DEF IndexAfterRow
  <2>2. PICK s \in Ever : s.id = i
    BY <2>1 DEF IndexInv, VectorsMirror, EdgesCite
  <2>3. QED
    BY <2>1, <2>2, RowFacts DEF Ever, ErasedIds, TypeInv, LedgerInv
<1>2. QED
  BY <1>1, IndexInvariant, PTL

-----------------------------------------------------------------------------
(* What recall_semantic removes *)

\* No caller pins the organization, which vector metadata does not mirror.
NoOrganization ==
    \A scope \in CallScopes : "organization" \in Dims => scope["organization"] = Unset

\* The hits still to hydrate are rows the caller's scope contains, stored or
\* erased, and the one found missing was erased.
HitsInScope ==
    \A p \in Procs :
        /\ op[p].pc \in {"hydrate", "ghost"} =>
              \A i \in op[p].todo : \E s \in Ever :
                  s.id = i /\ Contains(op[p].scope, s.scope)
        /\ op[p].pc = "ghost" => op[p].id \in ErasedIds

LEMMA FilterIsVisible ==
    ASSUME NoOrganization, NEW scope \in CallScopes, NEW candidate \in Scope,
           FilterMatches(scope, vector_metadata(candidate))
    PROVE  Contains(scope, candidate)
<1>1. scope \in Scope
  BY EngineAssumption
<1>2. \A d \in MirroredDims : dim_matches(scope[d], candidate[d])
  BY DEF FilterMatches, vector_metadata
<1>3. "organization" \in Dims => dim_matches(scope["organization"], candidate["organization"])
  BY DEF NoOrganization, dim_matches
<1>4. QED
  BY <1>2, <1>3 DEF Contains, MirroredDims

\* Erased identities are remembered.
LEMMA ErasedGrows ==
    ASSUME TypeInv, LedgerInv, [Next]_vars
    PROVE  ErasedIds \subseteq ErasedIds'
<1>1. erased \subseteq erased'
  BY StepKind DEF OfSomeKind, Quietly, Mints, Puts, WritesBack, Deletes
<1>2. QED
  BY <1>1 DEF ErasedIds

LEMMA HitsStep ==
    ASSUME TypeInv, LedgerInv, IndexInv, NoOrganization, HitsInScope, EverKept,
           [Next]_vars
    PROVE  HitsInScope'
<1> DEFINE Seen(scope, i) == \E s \in Ever : s.id = i /\ Contains(scope, s.scope)
           Stays(scope, i) == \E s \in Ever' : s.id = i /\ Contains(scope, s.scope)
<1>s. \A scope, i : Seen(scope, i) => Stays(scope, i)
  BY ImmutableScope DEF EverKept
<1>r. Ever \subseteq MemoryRecord
  BY RowFacts DEF TypeInv, LedgerInv
<1>h. ASSUME NEW p \in Procs, op[p].pc \in {"hydrate", "ghost"},
             NEW i \in op[p].todo
      PROVE  Seen(op[p].scope, i)
  BY <1>h DEF HitsInScope
<1>1. ASSUME NEW p \in Procs, op'[p].pc \in {"hydrate", "ghost"},
             NEW i \in op'[p].todo
      PROVE  Stays(op'[p].scope, i)
  <2>1. CASE /\ op[p].pc \in {"hydrate", "ghost"} /\ op'[p].scope = op[p].scope
             /\ op'[p].todo \subseteq op[p].todo
    <3>1. Seen(op[p].scope, i)
      BY <1>1, <1>h, <2>1
    <3>2. QED
      BY <1>s, <2>1, <3>1
  <2>2. CASE /\ op'[p].todo \subseteq {j \in Indexed :
                                        FilterMatches(op'[p].scope, vectors[j])}
             /\ op'[p].scope \in CallScopes
    <3>1. i \in Indexed /\ FilterMatches(op'[p].scope, vectors[i])
      BY <1>1, <2>2
    <3>2. PICK s \in Ever : s.id = i /\ vectors[i] = vector_metadata(s.scope)
      BY <3>1 DEF IndexInv, VectorsMirror
    <3>3. Contains(op'[p].scope, s.scope)
      BY <1>r, <2>2, <3>1, <3>2, FilterIsVisible DEF MemoryRecord
    <3>4. QED
      BY <1>s, <3>2, <3>3
  <2>3. QED
    BY <1>1, <2>1, <2>2, NextMoves DEF Moves, Agrees, Dull
<1>2. ASSUME NEW p \in Procs, op'[p].pc = "ghost"
      PROVE  op'[p].id \in ErasedIds'
  <2>1. CASE op[p].pc = "ghost" /\ op'[p].id = op[p].id
    BY <2>1, ErasedGrows DEF HitsInScope
  <2>2. CASE /\ op[p].pc = "hydrate" /\ op'[p].id \in op[p].todo
             /\ ~Visible(op'[p].id, op[p].scope)
    <3>1. PICK s \in Ever : s.id = op'[p].id /\ Contains(op[p].scope, s.scope)
      BY <1>h, <2>2
    <3>2. s \notin Rows
      BY <2>2, <3>1, RowFacts DEF Visible, TypeInv, LedgerInv
    <3>3. QED
      BY <3>1, <3>2, ErasedGrows DEF Ever, ErasedIds
  <2>3. QED
    BY <1>2, <2>1, <2>2, NextMoves DEF Moves, Agrees, Dull
<1>3. QED
  BY <1>1, <1>2 DEF HitsInScope

LEMMA HitsInvariant ==
    ASSUME NoOrganization
    PROVE  Spec => [](TypeInv /\ LedgerInv /\ IndexInv /\ HitsInScope)
<1>1. Init => HitsInScope
  BY DEF Init, Idle, HitsInScope
<1>2. TypeInv /\ LedgerInv /\ IndexInv /\ HitsInScope /\ [Next]_vars => HitsInScope'
  BY HitsStep, LedgerStep
<1>3. QED
  BY <1>1, <1>2, IndexInvariant, PTL DEF Spec

\* What recall_semantic takes for a ghost is one, however long ago it looked: when
\* no caller pins the organization and the store is not the local one, it only
\* drops the vectors of rows that are gone for good.
THEOREM GhostsAreGone ==
    ASSUME Backend # "local", NoOrganization
    PROVE  Spec => RecallSparesStored
<1>1. TypeInv /\ LedgerInv /\ HitsInScope =>
          \A c \in Clients : At(c, "ghost") => op[c].id \notin Stored
  BY DEF LedgerInv, NoReturn, HitsInScope, ErasedIds, At, Stored, Procs
<1>2. TypeInv /\ LedgerInv /\ HitsInScope /\ [Next]_vars =>
          [\A c \in Clients : At(c, "ghost") /\ vectors'[op[c].id] # vectors[op[c].id]
                              /\ op'[c] # op[c]
               => op[c].id \notin Stored]_vars
  BY <1>1
<1>3. QED
  BY <1>2, HitsInvariant, PTL DEF Spec, RecallSparesStored

-----------------------------------------------------------------------------
(* What a step does to the store *)

Putting(c) == Pending(op[c]) /\ StorePut(op[c].rec)

\* What a call writes back over the copy it holds.
WriteBack(call, r) ==
    \/ call.pc \in {"mergeRetire", "retire"} /\ r = [call.old EXCEPT !.status = "Superseded"]
    \/ call.pc = "replaceClose" /\ r = close_window(call.old)
    \/ call.pc = "tombstone" /\ r = [call.old EXCEPT !.status = "Deleted"]
    \/ call.pc = "archive" /\ r = [call.old EXCEPT !.status = "Archived"]

Rewriting(c) ==
    /\ op[c].old \in MemoryRecord
    /\ op'[c] # op[c]
    /\ \E r \in MemoryRecord :
          /\ WriteBack(op[c], r)
          /\ Backend # "local" => CanUpdate(r)
          /\ store' = [store EXCEPT ![r.id] = Updated(r)]

Removing(c) ==
    /\ op'[c] # op[c]
    /\ \E i \in Stored : /\ Deletable(i, op'[c].scope)
                         /\ store' = [store EXCEPT ![i] = NoRecord]

LEMMA RewriteStep ==
    ASSUME TypeInv, NEW c \in Clients, NEW r, NEW call \in Call, StoreUpdate(c, r, call),
           op[c].pc \in HoldsOld, r \in MemoryRecord, WriteBack(op[c], r),
           call.pc # op[c].pc
    PROVE  UNCHANGED store \/ Rewriting(c)
<1>1. SUFFICES ASSUME store' # store PROVE Rewriting(c)
  OBVIOUS
<1>2. /\ IF Backend = "local" THEN op[c].checked ELSE CanUpdate(r)
      /\ store' = [store EXCEPT ![r.id] = Updated(r)]
      /\ Become(c, [call EXCEPT !.checked = FALSE])
  BY <1>1 DEF StoreUpdate
<1>3. op'[c] = [call EXCEPT !.checked = FALSE] /\ op[c].old \in MemoryRecord
  BY <1>2, BecomeMoves DEF TypeInv, CallsOK, Equipped, Procs
<1>4. op'[c] # op[c]
  BY <1>3 DEF Call
<1>5. QED
  BY <1>2, <1>3, <1>4 DEF Rewriting

LEMMA StoreStep ==
    ASSUME TypeInv, [Next]_vars
    PROVE  \/ UNCHANGED store
           \/ \E c \in Clients : Putting(c) \/ Rewriting(c) \/ Removing(c)
<1> DEFINE Done == \/ UNCHANGED store
                   \/ \E c \in Clients : Putting(c) \/ Rewriting(c) \/ Removing(c)
<1>1. CASE UNCHANGED vars
  BY <1>1 DEF vars
<1>2. ASSUME NEW c \in Clients, Start(c)
      PROVE  Done
  <2>1. CASE \E i \in Known, scope \in CallScopes : Purge(c, i, scope)
    <3>1. PICK i \in Known, scope \in CallScopes : Purge(c, i, scope)
      BY <2>1
    <3> DEFINE call == [Idle EXCEPT !.pc = "purgeUnindex", !.scope = scope, !.id = i]
    <3>2. call.pc = "purgeUnindex" /\ call.scope = scope
      BY DEF Idle
    <3>3. Enter(c, "purge", call) /\ StoreDelete(i, scope)
      BY <3>1 DEF Purge
    <3> HIDE DEF call
    <3>4. op'[c] = call
      BY <3>3, EnterMoves DEF TypeInv, Procs
    <3>5. op[c].pc = "idle"
      BY <3>3 DEF Enter, At
    <3>6. CASE Deletable(i, scope)
      <4>1. i \in Stored /\ store' = [store EXCEPT ![i] = NoRecord]
        BY <3>3, <3>6 DEF StoreDelete, Deletable, Visible
      <4>2. QED
        BY <3>2, <3>4, <3>5, <3>6, <4>1 DEF Removing
    <3>7. QED
      BY <3>3, <3>6 DEF StoreDelete
  <2>2. CASE ~(\E i \in Known, scope \in CallScopes : Purge(c, i, scope))
    BY <1>2, <2>2
       DEF Start, Remember, WriteUnindexed, Update, Forget, ForgetEverywhere,
           RecallSemantic, Sweep
  <2>3. QED
    BY <2>1, <2>2
<1>3. ASSUME NEW c \in Clients, Continue(c)
      PROVE  Done
  <2>a. c \in Procs /\ op[c] \in Call /\ Equipped(op[c])
    BY DEF Procs, TypeInv, CallsOK
  <2>b. ASSUME op[c].pc \in HoldsOld
        PROVE  /\ op[c].old \in MemoryRecord
               /\ \A s \in Status : [op[c].old EXCEPT !.status = s] \in MemoryRecord
               /\ close_window(op[c].old) \in MemoryRecord
    BY <2>a, <2>b, WriteBackType DEF Equipped
  <2>i. Idle \in Call /\ Idle.pc = "idle"
    BY IdleType DEF Idle
  <2>g. \A pc \in PCs : /\ [op[c] EXCEPT !.pc = pc] \in Call
                        /\ [op[c] EXCEPT !.pc = pc].pc = pc
    BY <2>a DEF Call
  <2>1. CASE MergePut(c) \/ ReplacePut(c) \/ PutRecord(c) \/ PutOnly(c) \/ SuccPut(c)
    BY <2>1
       DEF MergePut, ReplacePut, PutRecord, PutOnly, SuccPut, At, Putting, Pending,
           PendingPCs
  <2>2. CASE MergeRetire(c) \/ Retire(c)
    <3> DEFINE r == [op[c].old EXCEPT !.status = "Superseded"]
    <3>1. op[c].pc \in {"mergeRetire", "retire"} /\ StoreUpdate(c, r, Idle)
      BY <2>2 DEF MergeRetire, Retire, At
    <3>2. r \in MemoryRecord /\ WriteBack(op[c], r)
      BY <2>b, <3>1 DEF HoldsOld, Status, WriteBack
    <3> HIDE DEF r
    <3>3. QED
      BY <2>i, <3>1, <3>2, RewriteStep DEF HoldsOld
  <2>3. CASE ReplaceClose(c)
    <3> DEFINE r == close_window(op[c].old)
               call == [op[c] EXCEPT !.pc = "replaceUnindex"]
    <3>1. op[c].pc = "replaceClose" /\ StoreUpdate(c, r, call)
      BY <2>3 DEF ReplaceClose, At
    <3>2. r \in MemoryRecord /\ WriteBack(op[c], r)
      BY <2>b, <3>1 DEF HoldsOld, WriteBack
    <3>3. call \in Call /\ call.pc = "replaceUnindex"
      BY <2>g DEF PCs
    <3> HIDE DEF r, call
    <3>4. QED
      BY <3>1, <3>2, <3>3, RewriteStep DEF HoldsOld
  <2>4. CASE Tombstone(c) \/ Archive(c)
    <3>1. PICK status \in {"Deleted", "Archived"}, pc \in {"forgetUnindex", "sweep"} :
              /\ op[c].pc = IF status = "Deleted" THEN "tombstone" ELSE "archive"
              /\ StoreUpdate(c, [op[c].old EXCEPT !.status = status],
                             [op[c] EXCEPT !.pc = pc])
      BY <2>4 DEF Tombstone, Archive, At
    <3> DEFINE r == [op[c].old EXCEPT !.status = status]
               call == [op[c] EXCEPT !.pc = pc]
    <3>2. r \in MemoryRecord /\ WriteBack(op[c], r)
      <4>1. op[c].old \in MemoryRecord
        BY <2>b, <3>1 DEF HoldsOld
      <4>2. r \in MemoryRecord
        BY <4>1, WriteBackType DEF Status
      <4>3. QED
        BY <3>1, <4>2 DEF WriteBack
    <3>3. call \in Call /\ call.pc \in {"forgetUnindex", "sweep"}
      <4>1. pc \in PCs
        BY DEF PCs
      <4>2. QED
        BY <2>g, <4>1 DEF Call
    <3>4. StoreUpdate(c, r, call)
      BY <3>1
    <3> HIDE DEF r, call
    <3>5. QED
      BY <3>1, <3>2, <3>3, <3>4, RewriteStep DEF HoldsOld
  <2>5. CASE CoordinateRow(c)
    <3>1. /\ op[c].pc = "cdRow" /\ StoreDelete(op[c].id, op[c].scope)
          /\ Goto(c, "sweep")
      BY <2>5 DEF CoordinateRow, At
    <3>2. op'[c].pc = "sweep" /\ op'[c].scope = op[c].scope
      BY <2>a, <3>1, GotoMoves DEF TypeInv
    <3>3. CASE Deletable(op[c].id, op[c].scope)
      <4>1. op[c].id \in Stored /\ store' = [store EXCEPT ![op[c].id] = NoRecord]
        BY <3>1, <3>3 DEF StoreDelete, Deletable, Visible
      <4>2. QED
        BY <3>1, <3>2, <3>3, <4>1 DEF Removing
    <3>4. QED
      BY <3>1, <3>3 DEF StoreDelete
  <2>6. CASE \/ DedupPass(c) \/ DedupIgnore(c) \/ IgnoreGet(c) \/ DedupReview(c)
             \/ DedupMerge(c) \/ MergeUnindex(c)
             \/ ConflictPass(c) \/ ConflictReplace(c) \/ ConflictQuarantine(c)
             \/ ReplaceGet(c) \/ ReplaceUnindex(c) \/ ReplaceIndex(c)
             \/ IndexRecord(c) \/ IndexGraph(c) \/ SuccIndex(c) \/ PredUnindex(c)
             \/ ForgetUnindex(c) \/ ForgetEdges(c) \/ PurgeUnindex(c) \/ PurgeEdges(c)
             \/ SweepNext(c) \/ SweepDone(c) \/ CoordinateUnindex(c)
             \/ CoordinateEdges(c) \/ Hydrate(c) \/ RemoveGhost(c) \/ RecallDone(c)
    BY <2>6
       DEF DedupPass, DedupIgnore, IgnoreGet, DedupReview, DedupMerge, MergeUnindex,
           ConflictPass, ConflictReplace, ConflictQuarantine, ReplaceGet,
           ReplaceUnindex, ReplaceIndex, IndexRecord, IndexGraph, SuccIndex,
           PredUnindex, ForgetUnindex, ForgetEdges, PurgeUnindex, PurgeEdges,
           SweepNext, SweepDone, CoordinateUnindex, CoordinateEdges, Hydrate,
           RemoveGhost, RecallDone
  <2>7. QED
    BY <1>3, <2>1, <2>2, <2>3, <2>4, <2>5, <2>6 DEF Continue
<1>4. ASSUME NEW c \in Clients, Abort(c)
      PROVE  Done
  BY <1>4 DEF Abort
<1>5. ASSUME NEW w \in Workers, Repair(w)
      PROVE  Done
  BY <1>5
     DEF Repair, RepairQuery, RepairList, RepairGhost, RepairUpsert, RepairDone
<1>6. QED
  BY <1>1, <1>2, <1>3, <1>4, <1>5 DEF Next

\* The stores the engine embeds erase only what the caller's scope contains.
THEOREM ErasureInScope ==
    ASSUME Backend # "postgres"
    PROVE  Spec => DeletionInScope
<1>1. TypeInv /\ LedgerInv /\ [Next]_vars =>
          [\A i \in Ids : store[i] # NoRecord /\ store'[i] = NoRecord
               => \E c \in Clients : /\ op'[c] # op[c]
                                     /\ Contains(op'[c].scope, store[i].scope)]_vars
  <2>1. SUFFICES ASSUME TypeInv, LedgerInv, [Next]_vars, NEW i \in Ids,
                        store[i] # NoRecord, store'[i] = NoRecord
                 PROVE  \E c \in Clients : /\ op'[c] # op[c]
                                          /\ Contains(op'[c].scope, store[i].scope)
    OBVIOUS
  <2>2. ASSUME NEW c \in Clients, Putting(c)
        PROVE  FALSE
    <3>1. op[c].rec \in MemoryRecord
      BY <2>1, <2>2, PendingRecType DEF Putting, Procs
    <3>2. QED
      BY <2>1, <2>2, <3>1, EngineAssumption DEF Putting, StorePut, TypeInv, TypeOK
  <2>3. ASSUME NEW c \in Clients, Rewriting(c)
        PROVE  FALSE
    <3>1. PICK r \in MemoryRecord : store' = [store EXCEPT ![r.id] = Updated(r)]
      BY <2>3 DEF Rewriting
    <3>2. Updated(r) # NoRecord
      BY WriteBackType, EngineAssumption
    <3>3. QED
      BY <2>1, <3>1, <3>2 DEF TypeInv, TypeOK
  <2>4. PICK c \in Clients : Removing(c)
    BY <2>1, <2>2, <2>3, StoreStep
  <2>5. PICK j \in Stored : /\ Deletable(j, op'[c].scope)
                           /\ store' = [store EXCEPT ![j] = NoRecord]
    BY <2>4 DEF Removing
  <2>6. i = j
    BY <2>1, <2>5 DEF TypeInv, TypeOK
  <2>7. QED
    BY <2>4, <2>5, <2>6 DEF Removing, Deletable, Visible
<1>2. QED
  BY <1>1, Invariant, PTL DEF Spec, DeletionInScope

-----------------------------------------------------------------------------
(* Optimistic concurrency *)

\* A copy of a stored row is not newer than the row, and is the row when the
\* versions agree.
UpToVersion(r) ==
    r.id \in Stored => /\ r.version <= store[r.id].version
                       /\ r.version = store[r.id].version => r = store[r.id]

VersionsAgree ==
    \A p \in Procs : /\ op[p].old # NoRecord => UpToVersion(op[p].old)
                     /\ \A r \in op[p].recs : UpToVersion(r)

LEMMA HeldTypes ==
    ASSUME TypeInv, LedgerInv, NEW p \in Procs,
           NEW r \in (Rows \cup op[p].recs \cup {op[p].old}) \ {NoRecord}
    PROVE  r \in MemoryRecord /\ Accounted(r)
<1>1. op[p] \in Call
  BY DEF TypeInv, CallsOK
<1>2. CASE r \in Rows
  BY <1>2, RowFacts DEF TypeInv, LedgerInv, Accounted, Ever
<1>3. CASE r \in op[p].recs \cup {op[p].old}
  BY <1>1, <1>3 DEF Call, LedgerInv, CopiesAccounted
<1>4. QED
  BY <1>2, <1>3

LEMMA VersionsStep ==
    ASSUME Backend = "postgres", TypeInv, LedgerInv, VersionsAgree, [Next]_vars
    PROVE  VersionsAgree'
<1> DEFINE Stays(r) ==
               r.id \in Stored' => /\ r.version <= store'[r.id].version
                                   /\ r.version = store'[r.id].version
                                          => r = store'[r.id]
<1>1. ASSUME NEW p \in Procs, NEW r \in (Rows \cup op[p].recs \cup {op[p].old}) \ {NoRecord}
      PROVE  Stays(r)
  <2>1. UpToVersion(r)
    BY <1>1, RowFacts DEF VersionsAgree, UpToVersion, TypeInv, LedgerInv, MemoryRecord
  <2>2. r \in MemoryRecord /\ Accounted(r)
    BY <1>1, HeldTypes
  <2>3. CASE UNCHANGED store
    BY <2>1, <2>3 DEF UpToVersion, Stored
  <2>4. ASSUME NEW q \in Procs, Puts(q)
        PROVE  Stays(r)
    <3>1. op[q].rec.id # r.id /\ op[q].rec.id \in Ids /\ op[q].rec \in MemoryRecord
      BY <2>2, <2>4, ImmutableFixes
         DEF Puts, LedgerInv, PendingFresh, Accounted, MemoryRecord
    <3>2. store'[r.id] = store[r.id]
      BY <2>2, <2>4, <3>1 DEF Puts, StorePut, TypeInv, TypeOK, MemoryRecord
    <3>3. QED
      BY <2>1, <3>2 DEF UpToVersion, Stored
  <2>5. ASSUME NEW q \in Procs, NEW new \in MemoryRecord, WritesBack(q, new)
        PROVE  Stays(r)
    <3>1. CASE new.id = r.id
      <4>1. store'[r.id] = new /\ r.id \in Stored
            /\ new.version = store[r.id].version + 1
        BY <2>2, <2>5, <3>1 DEF WritesBack, TypeInv, TypeOK, MemoryRecord
      <4>2. r.version \in Nat /\ store[r.id].version \in Nat
        BY <2>2, <4>1, RowFacts DEF MemoryRecord, TypeInv, LedgerInv
      <4>3. QED
        BY <2>1, <4>1, <4>2 DEF UpToVersion
    <3>2. CASE new.id # r.id
      <4>1. store'[r.id] = store[r.id]
        BY <2>2, <2>5, <3>2 DEF WritesBack, TypeInv, TypeOK, MemoryRecord
      <4>2. QED
        BY <2>1, <4>1 DEF UpToVersion, Stored
    <3>3. QED
      BY <3>1, <3>2
  <2>6. ASSUME NEW i \in Ids, Deletes(i)
        PROVE  Stays(r)
    <3>1. r.id \in Stored' => store'[r.id] = store[r.id] /\ r.id \in Stored
      BY <2>2, <2>6 DEF Deletes, Stored, TypeInv, TypeOK, MemoryRecord
    <3>2. QED
      BY <2>1, <3>1 DEF UpToVersion
  <2>7. QED
    BY <2>3, <2>4, <2>5, <2>6, StepKind DEF OfSomeKind, Quietly, Mints
<1>2. ASSUME NEW p \in Procs
      PROVE  /\ op'[p].old # NoRecord => Stays(op'[p].old)
             /\ \A r \in op'[p].recs : Stays(r)
  <2>1. CopiesKept
    BY StepKind DEF OfSomeKind, Quietly, Mints, Puts, WritesBack, Deletes
  <2>2. NoRecord \notin Rows /\ NoRecord \notin op[p].recs
    BY EngineAssumption DEF Rows, Stored, TypeInv, CallsOK, Call
  <2>3. QED
    BY <1>1, <2>1, <2>2 DEF CopiesKept
<1>3. ASSUME NEW p \in Procs
      PROVE  (/\ op[p].old # NoRecord => UpToVersion(op[p].old)
              /\ \A r \in op[p].recs : UpToVersion(r))'
  BY <1>2 DEF UpToVersion
<1>4. QED
  BY <1>3 DEF VersionsAgree

LEMMA VersionsInvariant ==
    ASSUME Backend = "postgres"
    PROVE  Spec => [](TypeInv /\ LedgerInv /\ VersionsAgree)
<1>1. Init => VersionsAgree
  BY DEF Init, Idle, VersionsAgree
<1>2. TypeInv /\ LedgerInv /\ VersionsAgree /\ [Next]_vars => VersionsAgree'
  BY VersionsStep
<1>3. QED
  BY <1>1, <1>2, Invariant, PTL DEF Spec

\* The copy a call writes back over a row is the row.
LEMMA CopyIsCurrent ==
    ASSUME Backend = "postgres", TypeInv, LedgerInv, VersionsAgree, [Next]_vars,
           NEW i \in Ids, store[i] # NoRecord, store'[i] # NoRecord, store'[i] # store[i]
    PROVE  \E c \in Clients :
               /\ op'[c] # op[c] /\ op[c].old = store[i]
               /\ \E r \in MemoryRecord :
                     WriteBack(op[c], r) /\ store'[i] = Updated(r)
<1>1. ASSUME NEW c \in Clients, Putting(c)
      PROVE  FALSE
  <2>1. op[c].rec \in MemoryRecord /\ c \in Procs
    BY <1>1, PendingRecType DEF Putting, Procs
  <2>2. store[i] \in Ever /\ store[i].id = i
    BY RowFacts DEF TypeInv, LedgerInv, Stored, Ever
  <2>3. op[c].rec.id # i
    BY <1>1, <2>1, <2>2 DEF Putting, LedgerInv, PendingFresh
  <2>4. QED
    BY <1>1, <2>1, <2>3 DEF Putting, StorePut, TypeInv, TypeOK, MemoryRecord
<1>2. ASSUME NEW c \in Clients, Removing(c)
      PROVE  FALSE
  BY <1>2 DEF Removing, TypeInv, TypeOK
<1>3. PICK c \in Clients : Rewriting(c)
  BY <1>1, <1>2, StoreStep DEF TypeInv, TypeOK
<1>4. PICK r \in MemoryRecord : /\ WriteBack(op[c], r) /\ CanUpdate(r)
                                /\ store' = [store EXCEPT ![r.id] = Updated(r)]
  BY <1>3 DEF Rewriting
<1>5. r.id = i /\ store'[i] = Updated(r)
  BY <1>4 DEF TypeInv, TypeOK, MemoryRecord
<1>6. op[c].old \in MemoryRecord /\ r.id = op[c].old.id /\ r.version = op[c].old.version
  <2>1. op[c].old \in MemoryRecord
    BY <1>3 DEF Rewriting
  <2>2. QED
    BY <1>4, <2>1 DEF WriteBack, close_window, MemoryRecord
<1>7. UpToVersion(op[c].old)
  BY <1>6, EngineAssumption DEF VersionsAgree, Procs
<1>8. op[c].old = store[i]
  BY <1>4, <1>5, <1>6, <1>7 DEF CanUpdate, UpToVersion
<1>9. QED
  BY <1>3, <1>4, <1>5, <1>8 DEF Rewriting

\* On Postgres no update is lost: the copy behind a write is the row it replaces.
THEOREM UpdatesKept ==
    ASSUME Backend = "postgres"
    PROVE  Spec => NoLostUpdate
<1>1. TypeInv /\ LedgerInv /\ VersionsAgree /\ [Next]_vars =>
          [\A i \in Ids : /\ store[i] # NoRecord /\ store'[i] # NoRecord
                          /\ store'[i] # store[i]
               => \E c \in Clients : op'[c] # op[c] /\ op[c].old = store[i]]_vars
  BY CopyIsCurrent
<1>2. QED
  BY <1>1, VersionsInvariant, PTL DEF Spec, NoLostUpdate

-----------------------------------------------------------------------------
(* Contradictions: the decision to replace a fact outlives the reads behind it *)

Outranks(rec, source) ==
    \/ rec.content \in Negating
    \/ default_authority(rec.source) >= default_authority(source)

\* Between the decision and the write, the call holds a statement that outranks
\* the fact it decided against, whatever has happened to that fact since.
DecisionStands ==
    \A p \in Procs :
        /\ op[p].pc = "replaceGet" =>
              \E s \in Ever : s.id = op[p].id /\ Outranks(op[p].rec, s.source)
        /\ op[p].pc = "replaceClose" => Outranks(op[p].rec, op[p].old.source)

LEMMA ReplacesOutranks ==
    ASSUME NEW rec \in MemoryRecord, NEW fact \in MemoryRecord, Replaces(rec, fact)
    PROVE  Outranks(rec, fact.source)
<1>1. default_authority(rec.source) \in Nat /\ default_authority(fact.source) \in Nat
  BY DEF MemoryRecord, SourceKind, default_authority
<1>2. QED
  BY <1>1 DEF Replaces, incoming_dominates, Outranks

LEMMA DecisionStep ==
    ASSUME TypeInv, LedgerInv, DecisionStands, EverKept, [Next]_vars
    PROVE  DecisionStands'
<1>1. ASSUME NEW p \in Procs, op'[p].pc = "replaceGet"
      PROVE  \E s \in Ever' : s.id = op'[p].id /\ Outranks(op'[p].rec, s.source)
  <2>1. PICK s \in Ever : s.id = op'[p].id /\ Outranks(op'[p].rec, s.source)
    <3>1. CASE Agrees(op'[p], op[p])
      BY <1>1, <3>1 DEF Agrees, DecisionStands
    <3>2. ASSUME op[p].pc = "conflict", op'[p].rec = op[p].rec,
                 NEW fact \in Rows, op'[p].id = fact.id, Replaces(op[p].rec, fact)
          PROVE  \E s \in Ever : s.id = op'[p].id /\ Outranks(op'[p].rec, s.source)
      <4>1. op[p].rec \in MemoryRecord /\ fact \in MemoryRecord /\ fact \in Ever
        BY <3>2, PendingRecType, RowFacts
           DEF Pending, PendingPCs, TypeInv, LedgerInv, Ever
      <4>2. QED
        BY <3>2, <4>1, ReplacesOutranks
    <3>3. QED
      BY <1>1, <3>1, <3>2, NextMoves DEF Moves, Dull
  <2>2. PICK t \in Ever' : Immutable(t) = Immutable(s)
    BY DEF EverKept
  <2>3. QED
    BY <2>1, <2>2, ImmutableScope
<1>2. ASSUME NEW p \in Procs, op'[p].pc = "replaceClose"
      PROVE  Outranks(op'[p].rec, op'[p].old.source)
  <2>1. CASE Agrees(op'[p], op[p])
    BY <1>2, <2>1 DEF Agrees, DecisionStands
  <2>2. CASE /\ op[p].pc = "replaceGet" /\ op'[p].rec = op[p].rec
             /\ op[p].id \in Stored /\ op'[p].old = store[op[p].id]
    <3>1. PICK s \in Ever : s.id = op[p].id /\ Outranks(op[p].rec, s.source)
      BY <2>2 DEF DecisionStands
    <3>2. store[op[p].id] \in Ever /\ store[op[p].id].id = s.id
      BY <2>2, <3>1, RowFacts DEF TypeInv, LedgerInv, Ever
    <3>3. store[op[p].id].source = s.source
      BY <3>2, ImmutableScope DEF LedgerInv, OneIdentity
    <3>4. QED
      BY <2>2, <3>1, <3>3
  <2>3. QED
    BY <1>2, <2>1, <2>2, NextMoves DEF Moves, Dull
<1>3. QED
  BY <1>1, <1>2 DEF DecisionStands

LEMMA DecisionInvariant == Spec => [](TypeInv /\ LedgerInv /\ DecisionStands)
<1>1. Init => DecisionStands
  BY DEF Init, Idle, DecisionStands
<1>2. TypeInv /\ LedgerInv /\ DecisionStands /\ [Next]_vars => DecisionStands'
  BY DecisionStep, LedgerStep
<1>3. QED
  BY <1>1, <1>2, Invariant, PTL DEF Spec

\* On Postgres a fact's window is closed only for a statement that negates it or
\* outranks its source, although the fact is read again, and may have been written
\* by others, between the decision and the write.
THEOREM AuthorityKept ==
    ASSUME Backend = "postgres"
    PROVE  Spec => AuthorityDominates
<1>1. TypeInv /\ LedgerInv /\ VersionsAgree /\ DecisionStands /\ [Next]_vars =>
          [\A i \in Ids : /\ store[i] # NoRecord /\ store'[i] # NoRecord
                          /\ ~store[i].ended /\ store'[i].ended
               => \E c \in Clients :
                     /\ op'[c] # op[c]
                     /\ \/ op[c].rec.content \in Negating
                        \/ default_authority(op[c].rec.source)
                               >= default_authority(store[i].source)]_vars
  <2>1. SUFFICES ASSUME TypeInv, LedgerInv, VersionsAgree, DecisionStands, [Next]_vars,
                        NEW i \in Ids, store[i] # NoRecord, store'[i] # NoRecord,
                        ~store[i].ended, store'[i].ended
                 PROVE  \E c \in Clients : /\ op'[c] # op[c]
                                          /\ Outranks(op[c].rec, store[i].source)
    BY DEF Outranks
  <2>2. PICK c \in Clients :
            /\ op'[c] # op[c] /\ op[c].old = store[i]
            /\ \E r \in MemoryRecord : WriteBack(op[c], r) /\ store'[i] = Updated(r)
    BY <2>1, CopyIsCurrent
  <2>3. PICK r \in MemoryRecord : WriteBack(op[c], r) /\ store'[i] = Updated(r)
    BY <2>2
  <2>4. r.ended /\ store[i] \in MemoryRecord
    BY <2>1, <2>3 DEF Updated, MemoryRecord, TypeInv, TypeOK
  <2>5. op[c].pc = "replaceClose"
    <3>1. \A s : [op[c].old EXCEPT !.status = s].ended = op[c].old.ended
      BY <2>2, <2>4 DEF MemoryRecord
    <3>2. QED
      BY <2>1, <2>2, <2>3, <2>4, <3>1 DEF WriteBack
  <2>6. QED
    BY <2>1, <2>2, <2>5 DEF DecisionStands, Procs
<1>2. QED
  BY <1>1, VersionsInvariant, DecisionInvariant, PTL DEF Spec, AuthorityDominates

-----------------------------------------------------------------------------
(* Without the write policies: a superseded fact has a successor *)

\* The points of a call that only the write policies reach.
PolicyPCs == {"dedup", "ignoreGet", "panicked", "mergePut", "mergeUnindex",
              "mergeRetire", "conflict", "replaceGet", "replaceClose",
              "replaceUnindex", "replacePut", "replaceIndex"}

Plain(call) ==
    /\ call.pc \notin PolicyPCs
    /\ Pending(call) => call.rec.status = "Active"

\* Whoever retires a row holds, or has stored, a record that names it.
RetireNamed ==
    \A p \in Procs :
        /\ op[p].pc = "succPut" => op[p].rec.supersedes = op[p].old.id
        /\ op[p].pc \in {"succIndex", "predUnindex", "retire"} =>
              \E s \in Ever : s.supersedes = op[p].old.id

SuccessionInv ==
    /\ \A p \in Procs : Plain(op[p])
    /\ RetireNamed
    /\ SupersededHasSuccessor

LEMMA PlainStep ==
    ASSUME ~DedupEnabled, ~ConflictEnabled, TypeInv, \A p \in Procs : Plain(op[p]),
           [Next]_vars
    PROVE  \A p \in Procs : Plain(op'[p])
<1> DEFINE Safe == PCs \ (PolicyPCs \cup PendingPCs)
<1>c. CallsOK
  BY DEF TypeInv
<1>s. Safe = {"idle", "index", "graph", "succIndex", "predUnindex", "retire",
              "tombstone", "forgetUnindex", "forgetEdges", "purgeUnindex",
              "purgeEdges", "cdUnindex", "cdEdges", "cdRow", "sweep", "archive",
              "hydrate", "ghost", "repairList", "repair"}
  BY DEF PCs, PolicyPCs, PendingPCs
<1>p. ASSUME NEW p \in Procs, op'[p].pc \in Safe \/ Plain(op'[p]), Others(p)
      PROVE  \A q \in Procs : Plain(op'[q])
  BY <1>p DEF Plain, Pending, Others
<1> HIDE DEF Safe
<1>g. ASSUME NEW p \in Procs, NEW pc \in Safe, Goto(p, pc)
      PROVE  \A q \in Procs : Plain(op'[q])
  <2>1. op'[p].pc = pc /\ Others(p)
    BY <1>c, <1>g, GotoMoves
  <2>2. QED
    BY <1>p, <2>1
<1>f. ASSUME NEW p \in Procs, Finish(p)
      PROVE  \A q \in Procs : Plain(op'[q])
  <2>1. op'[p] = Idle /\ Others(p)
    BY <1>c, <1>f, FinishMoves
  <2>2. QED
    BY <1>p, <1>s, <2>1 DEF Idle
<1>b. ASSUME NEW p \in Procs, NEW call, Become(p, call), call.pc \in Safe \/ Plain(call)
      PROVE  \A q \in Procs : Plain(op'[q])
  <2>1. op'[p] = call /\ Others(p)
    BY <1>c, <1>b, BecomeMoves
  <2>2. QED
    BY <1>b, <1>p, <2>1
<1>w. ASSUME NEW p \in Procs, NEW r, NEW call \in Call, call.pc \in Safe,
             StoreUpdate(p, r, call)
      PROVE  \A q \in Procs : Plain(op'[q])
  <2>1. CASE op' = [op EXCEPT ![p].checked = TRUE]
    BY <1>c, <2>1 DEF CallsOK, Call, Plain, Pending
  <2>2. CASE Become(p, [call EXCEPT !.checked = FALSE])
    <3> DEFINE next == [call EXCEPT !.checked = FALSE]
    <3>1. next.pc \in Safe /\ Become(p, next)
      BY <1>w, <2>2 DEF Call
    <3> HIDE DEF next
    <3>2. QED
      BY <1>b, <3>1
  <2>3. CASE Finish(p)
    BY <1>f, <2>3
  <2>4. QED
    BY <1>w, <2>1, <2>2, <2>3 DEF StoreUpdate
<1>1. CASE UNCHANGED vars
  BY <1>1 DEF vars, Plain, Pending
<1>2. ASSUME NEW p \in Clients, Start(p)
      PROVE  \A q \in Procs : Plain(op'[q])
  <2>p. p \in Procs
    BY DEF Procs
  <2>1. ASSUME NEW req \in Requests, Remember(p, req) \/ WriteUnindexed(p, req)
        PROVE  \A q \in Procs : Plain(op'[q])
    <3>1. PICK pc \in {"put", "putOnly"} : Become(p, NewRecordCall(pc, req))
      BY <2>1 DEF Remember, WriteUnindexed, Enter, AfterDedup
    <3> DEFINE call == NewRecordCall(pc, req)
    <3>2. call.pc = pc /\ call.rec = into_record(nextId, req)
      BY DEF NewRecordCall, Idle
    <3>3. into_record(nextId, req).status = "Active"
      BY DEF into_record
    <3> HIDE DEF call
    <3>4. Plain(call)
      BY <3>2, <3>3 DEF Plain, PolicyPCs
    <3>5. QED
      BY <1>b, <2>p, <3>1, <3>4 DEF call
  <2>2. ASSUME NEW i \in Known, NEW scope \in CallScopes, NEW content \in Contents,
               NEW confidence \in Confidences, Update(p, i, scope, content, confidence)
        PROVE  \A q \in Procs : Plain(op'[q])
    <3>1. CASE ~Visible(i, scope)
      BY <1>f, <2>2, <2>p, <3>1 DEF Update, Enter, Finish
    <3>2. CASE Visible(i, scope)
      <4> DEFINE derived == derive_successor(nextId, store[i], content)
                 rec == [derived EXCEPT !.confidence = confidence]
                 call == [Idle EXCEPT !.pc = "succPut", !.scope = scope,
                                      !.old = store[i], !.rec = rec]
      <4>1. nextId \in Ids /\ store[i] \in MemoryRecord
        BY <2>2, <3>2 DEF Update, Visible, Stored, TypeInv, TypeOK
      <4>2. derived \in MemoryRecord /\ derived.status = "Active"
        BY <4>1, DeriveType DEF derive_successor, into_record
      <4>3. rec.status = "Active"
        <5> HIDE DEF derived
        <5> QED
          BY <4>2 DEF MemoryRecord
      <4>4. Become(p, call) /\ call.pc = "succPut" /\ call.rec = rec
        BY <2>2, <3>2 DEF Update, Enter, Idle
      <4> HIDE DEF call, rec
      <4>5. Plain(call)
        BY <4>3, <4>4 DEF Plain, PolicyPCs
      <4>6. QED
        BY <1>b, <2>p, <4>4, <4>5
    <3>3. QED
      BY <3>1, <3>2
  <2>3. ASSUME NEW i \in Known, NEW scope \in CallScopes, Forget(p, i, scope)
        PROVE  \A q \in Procs : Plain(op'[q])
    <3> DEFINE call == [Idle EXCEPT !.pc = "tombstone", !.scope = scope, !.id = i,
                                    !.old = store[i]]
    <3>1. call.pc \in Safe
      BY <1>s DEF Idle
    <3>2. Become(p, call) \/ Finish(p)
      BY <2>3 DEF Forget, Enter, Finish
    <3> HIDE DEF call
    <3>3. QED
      BY <1>b, <1>f, <2>p, <3>1, <3>2
  <2>4. ASSUME NEW i \in Known, NEW scope \in CallScopes,
               Purge(p, i, scope) \/ ForgetEverywhere(p, i, scope)
        PROVE  \A q \in Procs : Plain(op'[q])
    <3>1. PICK pc \in {"purgeUnindex", "cdUnindex"} :
              Become(p, [Idle EXCEPT !.pc = pc, !.scope = scope, !.id = i])
      BY <2>4 DEF Purge, ForgetEverywhere, Enter
    <3> DEFINE call == [Idle EXCEPT !.pc = pc, !.scope = scope, !.id = i]
    <3>2. call.pc \in Safe /\ Become(p, call)
      BY <1>s, <3>1 DEF Idle
    <3> HIDE DEF call
    <3>3. QED
      BY <1>b, <2>p, <3>2
  <2>5. ASSUME NEW scope \in CallScopes, RecallSemantic(p, scope)
        PROVE  \A q \in Procs : Plain(op'[q])
    <3>1. PICK hits :
              Become(p, [Idle EXCEPT !.pc = "hydrate", !.scope = scope, !.todo = hits])
      BY <2>5 DEF RecallSemantic, Enter
    <3> DEFINE call == [Idle EXCEPT !.pc = "hydrate", !.scope = scope, !.todo = hits]
    <3>2. call.pc \in Safe /\ Become(p, call)
      BY <1>s, <3>1 DEF Idle
    <3> HIDE DEF call
    <3>3. QED
      BY <1>b, <2>p, <3>2
  <2>6. ASSUME NEW scope \in CallScopes, NEW now \in Instants, Sweep(p, scope, now)
        PROVE  \A q \in Procs : Plain(op'[q])
    <3>1. PICK recs :
              Become(p, [Idle EXCEPT !.pc = "sweep", !.scope = scope, !.recs = recs])
      BY <2>6 DEF Sweep, Enter
    <3> DEFINE call == [Idle EXCEPT !.pc = "sweep", !.scope = scope, !.recs = recs]
    <3>2. call.pc \in Safe /\ Become(p, call)
      BY <1>s, <3>1 DEF Idle
    <3> HIDE DEF call
    <3>3. QED
      BY <1>b, <2>p, <3>2
  <2>7. QED
    BY <1>2, <2>1, <2>2, <2>3, <2>4, <2>5, <2>6 DEF Start
<1>3. ASSUME NEW p \in Clients, Continue(p)
      PROVE  \A q \in Procs : Plain(op'[q])
  <2>p. p \in Procs /\ op[p] \in Call /\ op[p].pc \notin PolicyPCs
    BY DEF Procs, TypeInv, CallsOK, Plain
  <2>1. CASE \/ DedupPass(p) \/ DedupIgnore(p) \/ IgnoreGet(p) \/ DedupReview(p)
             \/ DedupMerge(p) \/ MergePut(p) \/ MergeUnindex(p) \/ MergeRetire(p)
             \/ ConflictPass(p) \/ ConflictReplace(p) \/ ConflictQuarantine(p)
             \/ ReplaceGet(p) \/ ReplaceClose(p) \/ ReplaceUnindex(p)
             \/ ReplacePut(p) \/ ReplaceIndex(p)
    BY <2>1, <2>p
       DEF PolicyPCs, At, DedupPass, DedupIgnore, IgnoreGet, DedupReview, DedupMerge,
           MergePut, MergeUnindex, MergeRetire, ConflictPass, ConflictReplace,
           ConflictQuarantine, ReplaceGet, ReplaceClose, ReplaceUnindex, ReplacePut,
           ReplaceIndex
  <2>2. CASE \/ PutRecord(p) \/ IndexRecord(p) \/ SuccPut(p) \/ SuccIndex(p)
             \/ PredUnindex(p) \/ ForgetUnindex(p) \/ PurgeUnindex(p)
             \/ CoordinateUnindex(p) \/ CoordinateEdges(p) \/ CoordinateRow(p)
             \/ RemoveGhost(p)
    <3>1. PICK pc \in {"index", "graph", "succIndex", "predUnindex", "retire",
                       "forgetEdges", "purgeEdges", "cdEdges", "cdRow", "sweep",
                       "hydrate"} : Goto(p, pc)
      BY <2>2
         DEF PutRecord, IndexRecord, SuccPut, SuccIndex, PredUnindex, ForgetUnindex,
             PurgeUnindex, CoordinateUnindex, CoordinateEdges, CoordinateRow,
             RemoveGhost
    <3>2. QED
      BY <1>g, <1>s, <2>p, <3>1
  <2>3. CASE \/ PutOnly(p) \/ ForgetEdges(p) \/ PurgeEdges(p) \/ SweepDone(p)
             \/ RecallDone(p)
    BY <2>3, <2>p, <1>f DEF PutOnly, ForgetEdges, PurgeEdges, SweepDone, RecallDone
  <2>4. CASE IndexGraph(p)
    <3>1. CASE UNCHANGED op
      BY <3>1 DEF Plain, Pending
    <3>2. CASE Finish(p)
      BY <1>f, <2>p, <3>2
    <3>3. QED
      BY <2>4, <3>1, <3>2 DEF IndexGraph
  <2>5. CASE Retire(p)
    BY <1>s, <1>w, <2>5, <2>p, IdleType DEF Retire, Idle
  <2>6. CASE Tombstone(p) \/ Archive(p)
    <3> DEFINE Going(pc) == [op[p] EXCEPT !.pc = pc]
    <3>1. PICK pc \in {"forgetUnindex", "sweep"} : \E r : StoreUpdate(p, r, Going(pc))
      BY <2>6 DEF Tombstone, Archive
    <3>2. Going(pc) \in Call /\ Going(pc).pc \in Safe
      BY <1>s, <2>p DEF Call, PCs
    <3>3. QED
      BY <1>w, <2>p, <3>1, <3>2
  <2>7. CASE SweepNext(p)
    <3>1. PICK r \in op[p].recs :
              Become(p, IF r.retention.class = "Standard"
                        THEN [op[p] EXCEPT !.pc = "archive", !.old = r,
                                           !.recs = op[p].recs \ {r}]
                        ELSE [op[p] EXCEPT !.pc = "cdUnindex", !.id = r.id,
                                           !.recs = op[p].recs \ {r}])
      BY <2>7 DEF SweepNext
    <3> DEFINE call == IF r.retention.class = "Standard"
                       THEN [op[p] EXCEPT !.pc = "archive", !.old = r,
                                          !.recs = op[p].recs \ {r}]
                       ELSE [op[p] EXCEPT !.pc = "cdUnindex", !.id = r.id,
                                          !.recs = op[p].recs \ {r}]
    <3>2. call.pc \in Safe /\ Become(p, call)
      BY <1>s, <2>p, <3>1 DEF Call
    <3> HIDE DEF call
    <3>3. QED
      BY <1>b, <2>p, <3>2
  <2>8. CASE Hydrate(p)
    <3>1. PICK i \in op[p].todo :
              Become(p, [op[p] EXCEPT
                  !.todo = op[p].todo \ {i}, !.id = i,
                  !.pc = IF Visible(i, op[p].scope) THEN "hydrate" ELSE "ghost"])
      BY <2>8 DEF Hydrate
    <3> DEFINE call == [op[p] EXCEPT
                  !.todo = op[p].todo \ {i}, !.id = i,
                  !.pc = IF Visible(i, op[p].scope) THEN "hydrate" ELSE "ghost"]
    <3>2. call.pc \in Safe /\ Become(p, call)
      BY <1>s, <2>p, <3>1 DEF Call
    <3> HIDE DEF call
    <3>3. QED
      BY <1>b, <2>p, <3>2
  <2>9. QED
    BY <1>3, <2>1, <2>2, <2>3, <2>4, <2>5, <2>6, <2>7, <2>8 DEF Continue
<1>4. ASSUME NEW p \in Clients, Abort(p)
      PROVE  \A q \in Procs : Plain(op'[q])
  BY <1>4, <1>f DEF Abort, Procs
<1>5. ASSUME NEW w \in Workers, Repair(w)
      PROVE  \A q \in Procs : Plain(op'[q])
  BY <1>5, <1>c, <1>p, <1>s, RepairMoves DEF Procs, TypeInv
<1>6. QED
  BY <1>1, <1>2, <1>3, <1>4, <1>5 DEF Next

LEMMA RetireNamedStep ==
    ASSUME TypeInv, LedgerInv, RetireNamed, EverKept, [Next]_vars
    PROVE  RetireNamed'
<1>e. \A i : (\E s \in Ever : s.supersedes = i) => \E s \in Ever' : s.supersedes = i
  BY ImmutableFixes DEF EverKept
<1>1. ASSUME NEW p \in Procs, op'[p].pc = "succPut"
      PROVE  op'[p].rec.supersedes = op'[p].old.id
  BY <1>1, NextMoves DEF Moves, Agrees, Dull, RetireNamed
<1>2. ASSUME NEW p \in Procs, op'[p].pc \in {"succIndex", "predUnindex", "retire"}
      PROVE  \E s \in Ever' : s.supersedes = op'[p].old.id
  <2>1. CASE /\ op[p].pc \in {"succIndex", "predUnindex", "retire"}
             /\ op'[p].old = op[p].old
    BY <1>e, <2>1 DEF RetireNamed
  <2>2. CASE /\ op[p].pc = "succPut" /\ op'[p].old = op[p].old
             /\ StorePut(op[p].rec)
    <3>1. op[p].rec \in MemoryRecord /\ op[p].rec.supersedes = op[p].old.id
      BY <2>2, PendingRecType DEF Pending, PendingPCs, RetireNamed
    <3>2. op[p].rec \in Ever'
      BY <2>2, <3>1, EngineAssumption
         DEF StorePut, TypeInv, TypeOK, MemoryRecord, Ever, Rows, Stored
    <3>3. QED
      BY <2>2, <3>1, <3>2
  <2>3. QED
    BY <1>2, <2>1, <2>2, NextMoves DEF Moves, Agrees, Dull
<1>3. QED
  BY <1>1, <1>2 DEF RetireNamed

LEMMA SuccessionStep ==
    ASSUME ~DedupEnabled, ~ConflictEnabled, TypeInv, LedgerInv, SuccessionInv,
           EverKept, [Next]_vars
    PROVE  SuccessionInv'
<1>e. \A i : (\E s \in Ever : s.supersedes = i) => \E s \in Ever' : s.supersedes = i
  BY ImmutableFixes DEF EverKept
<1>1. ASSUME NEW i \in Ids, store'[i] # NoRecord, store'[i].status = "Superseded"
      PROVE  \E s \in Ever : s.supersedes = i
  <2>1. CASE store'[i] = store[i]
    BY <1>1, <2>1 DEF SuccessionInv, SupersededHasSuccessor, Stored, Ever
  <2>2. ASSUME NEW c \in Clients, Putting(c)
        PROVE  store'[i] = store[i]
    <3>1. op[c].rec \in MemoryRecord /\ op[c].rec.status = "Active"
      BY <2>2, PendingRecType DEF Putting, Procs, SuccessionInv, Plain
    <3>2. QED
      BY <1>1, <2>2, <3>1 DEF Putting, StorePut, TypeInv, TypeOK
  <2>3. ASSUME NEW c \in Clients, Rewriting(c), store'[i] # store[i]
        PROVE  \E s \in Ever : s.supersedes = i
    <3>1. PICK r \in MemoryRecord : /\ WriteBack(op[c], r)
                                    /\ store' = [store EXCEPT ![r.id] = Updated(r)]
      BY <2>3 DEF Rewriting
    <3>2. r.id = i /\ r.status = "Superseded"
      BY <1>1, <2>3, <3>1 DEF TypeInv, TypeOK, MemoryRecord, Updated
    <3>3. op[c].old \in MemoryRecord /\ op[c].pc \notin PolicyPCs
      BY <2>3 DEF Rewriting, SuccessionInv, Plain, Procs
    <3>4. op[c].pc = "retire" /\ op[c].old.id = i
      BY <3>1, <3>2, <3>3 DEF WriteBack, PolicyPCs, MemoryRecord
    <3>5. QED
      BY <3>4 DEF SuccessionInv, RetireNamed, Procs
  <2>4. ASSUME NEW c \in Clients, Removing(c)
        PROVE  store'[i] = store[i]
    BY <1>1, <2>4 DEF Removing, TypeInv, TypeOK
  <2>5. QED
    BY <2>1, <2>2, <2>3, <2>4, StoreStep
<1>2. SupersededHasSuccessor'
  BY <1>1, <1>e DEF SupersededHasSuccessor, Stored, Ever
<1>3. RetireNamed' /\ (\A p \in Procs : Plain(op[p]))'
  BY RetireNamedStep, PlainStep DEF SuccessionInv, Plain, Pending
<1>4. QED
  BY <1>2, <1>3 DEF SuccessionInv

\* update() never loses a fact: with the write policies off, on every store and
\* wherever a call ends, a row marked superseded is named by a row that is stored or
\* was erased.
THEOREM FactsSucceeded ==
    ASSUME ~DedupEnabled, ~ConflictEnabled
    PROVE  Spec => []SupersededHasSuccessor
<1>1. Init => SuccessionInv
  BY DEF Init, Idle, SuccessionInv, Plain, Pending, PolicyPCs, PendingPCs, RetireNamed,
         SupersededHasSuccessor, Stored
<1>2. TypeInv /\ LedgerInv /\ SuccessionInv /\ [Next]_vars => SuccessionInv'
  BY SuccessionStep, LedgerStep
<1>3. SuccessionInv => SupersededHasSuccessor
  BY DEF SuccessionInv
<1>4. QED
  BY <1>1, <1>2, <1>3, Invariant, PTL DEF Spec
=============================================================================
