-------------------------- MODULE GovernanceProofs --------------------------
(***************************************************************************)
(* Theorems of Evidence and Governance, for every value of their constants *)
(* and with writers running beside the governed reads: types, the graph as *)
(* the image the engine has of it, and the disclosure gate.                *)
(*                                                                         *)
(* The engine's own steps are only looked at for what they do to the graph *)
(* phase of a call (ContinueGraph); for the rest the type proofs of        *)
(* MemoryEngineProofs are reused.                                          *)
(***************************************************************************)
EXTENDS Governance, MemoryEngineProofs

-----------------------------------------------------------------------------
(* Steps of the engine and the graph phase *)

\* What a step of c does to the calls: those of others stay, and c reaches the
\* graph phase only from indexing the record it keeps.
Reaches(c) ==
    /\ \A d \in Procs \ {c} : op'[d] = op[d]
    /\ op'[c].pc = "graph" => At(c, "index") /\ op'[c].rec = op[c].rec

LEMMA BecomeReaches ==
    ASSUME CallsOK, NEW c \in Procs, NEW call, Become(c, call), call.pc # "graph"
    PROVE  Reaches(c)
BY DEF CallsOK, Become, Reaches

LEMMA FinishReaches ==
    ASSUME CallsOK, NEW c \in Procs, Finish(c)
    PROVE  Reaches(c) /\ op'[c] = Idle
BY DEF CallsOK, Finish, Become, Reaches, Idle

LEMMA GotoReaches ==
    ASSUME CallsOK, NEW c \in Procs, NEW pc, Goto(c, pc),
           pc = "graph" => At(c, "index")
    PROVE  Reaches(c)
BY DEF CallsOK, Goto, Reaches, Call

LEMMA UpdateReaches ==
    ASSUME CallsOK, NEW c \in Procs, NEW r, NEW call \in Call, StoreUpdate(c, r, call),
           call.pc # "graph", ~At(c, "graph")
    PROVE  Reaches(c)
<1>1. CASE op' = [op EXCEPT ![c].checked = TRUE]
  BY <1>1 DEF CallsOK, Call, Reaches, At
<1>2. CASE Become(c, [call EXCEPT !.checked = FALSE])
  <2>1. [call EXCEPT !.checked = FALSE].pc # "graph"
    BY DEF Call
  <2>2. QED
    BY <1>2, <2>1, BecomeReaches
<1>3. CASE Finish(c)
  BY <1>3, FinishReaches
<1>4. QED
  BY <1>1, <1>2, <1>3 DEF StoreUpdate

LEMMA ContinueGraph ==
    ASSUME TypeInv, NEW c \in Procs, Continue(c), ~At(c, "graph")
    PROVE  /\ Reaches(c)
           /\ evidence' = IF RemovesEdges(c) THEN evidence \ {op[c].id} ELSE evidence
<1> USE DEF TypeInv
<1>a. op[c] \in Call
  BY DEF CallsOK
<1>1. ASSUME \/ DedupPass(c) \/ ConflictPass(c) \/ IgnoreGet(c) \/ SweepDone(c)
             \/ RecallDone(c) \/ RemoveGhost(c)
             \/ MergePut(c) \/ MergeUnindex(c) \/ ReplaceUnindex(c) \/ ReplacePut(c)
      PROVE  Reaches(c) /\ UNCHANGED evidence
  BY <1>1, GotoReaches, FinishReaches
     DEF DedupPass, ConflictPass, IgnoreGet, SweepDone, RecallDone, RemoveGhost,
         MergePut, MergeUnindex, ReplaceUnindex, ReplacePut, AfterDedup
<1>2. ASSUME \/ ReplaceIndex(c) \/ PutRecord(c) \/ IndexRecord(c) \/ PutOnly(c)
             \/ SuccPut(c) \/ SuccIndex(c) \/ PredUnindex(c) \/ ForgetUnindex(c)
             \/ PurgeUnindex(c) \/ CoordinateUnindex(c) \/ CoordinateRow(c)
      PROVE  Reaches(c) /\ UNCHANGED evidence
  BY <1>2, GotoReaches, FinishReaches
     DEF ReplaceIndex, PutRecord, IndexRecord, PutOnly, SuccPut, SuccIndex,
         PredUnindex, ForgetUnindex, PurgeUnindex, CoordinateUnindex, CoordinateRow
<1>3. ASSUME ForgetEdges(c) \/ PurgeEdges(c) \/ CoordinateEdges(c)
      PROVE  Reaches(c) /\ RemovesEdges(c) /\ evidence' = evidence \ {op[c].id}
  BY <1>3, GotoReaches, FinishReaches
     DEF ForgetEdges, PurgeEdges, CoordinateEdges, RemovesEdges, At
<1>4. ASSUME MergeRetire(c) \/ ReplaceClose(c) \/ Retire(c) \/ Tombstone(c) \/ Archive(c)
      PROVE  Reaches(c) /\ UNCHANGED evidence
  <2>1. \A pc \in PCs \ {"graph"} :
            [op[c] EXCEPT !.pc = pc] \in Call /\ [op[c] EXCEPT !.pc = pc].pc # "graph"
    BY <1>a DEF Call
  <2>2. {"replaceUnindex", "forgetUnindex", "sweep"} \subseteq PCs \ {"graph"}
    BY DEF PCs
  <2>3. Idle \in Call /\ Idle.pc # "graph"
    BY IdleType DEF Idle
  <2>4. ASSUME MergeRetire(c) \/ Retire(c)
        PROVE  Reaches(c)
    BY <2>3, <2>4, UpdateReaches DEF MergeRetire, Retire
  <2>5. ASSUME ReplaceClose(c) \/ Tombstone(c) \/ Archive(c)
        PROVE  Reaches(c)
    BY <2>1, <2>2, <2>5, UpdateReaches DEF ReplaceClose, Tombstone, Archive
  <2>6. QED
    BY <1>4, <2>4, <2>5 DEF MergeRetire, ReplaceClose, Retire, Tombstone, Archive
<1>5. ASSUME \/ DedupIgnore(c) \/ DedupReview(c) \/ DedupMerge(c)
             \/ ConflictReplace(c) \/ ConflictQuarantine(c)
      PROVE  Reaches(c) /\ UNCHANGED evidence
  <2>1. CASE DedupIgnore(c)
    <3>1. PICK i : Become(c, [op[c] EXCEPT !.pc = "ignoreGet", !.id = i])
      BY <2>1 DEF DedupIgnore
    <3>2. [op[c] EXCEPT !.pc = "ignoreGet", !.id = i].pc # "graph"
      BY <1>a DEF Call
    <3>3. QED
      BY <2>1, <3>1, <3>2, BecomeReaches DEF DedupIgnore
  <2>2. CASE DedupReview(c) \/ ConflictQuarantine(c)
    <3>1. Become(c, [op[c] EXCEPT !.pc = "putOnly", !.rec.status = "Quarantined"])
      BY <2>2 DEF DedupReview, ConflictQuarantine
    <3>2. [op[c] EXCEPT !.pc = "putOnly", !.rec.status = "Quarantined"].pc # "graph"
      BY <1>a DEF Call
    <3>3. QED
      BY <2>2, <3>1, <3>2, BecomeReaches DEF DedupReview, ConflictQuarantine
  <2>3. CASE DedupMerge(c)
    <3>1. PICK old, rec :
              Become(c, [op[c] EXCEPT !.pc = "mergePut", !.old = old, !.rec = rec])
      BY <2>3 DEF DedupMerge
    <3>2. [op[c] EXCEPT !.pc = "mergePut", !.old = old, !.rec = rec].pc # "graph"
      BY <1>a DEF Call
    <3>3. QED
      BY <2>3, <3>1, <3>2, BecomeReaches DEF DedupMerge
  <2>4. CASE ConflictReplace(c)
    <3>1. PICK i : Become(c, [op[c] EXCEPT !.pc = "replaceGet", !.id = i])
      BY <2>4 DEF ConflictReplace
    <3>2. [op[c] EXCEPT !.pc = "replaceGet", !.id = i].pc # "graph"
      BY <1>a DEF Call
    <3>3. QED
      BY <2>4, <3>1, <3>2, BecomeReaches DEF ConflictReplace
  <2>5. QED
    BY <1>5, <2>1, <2>2, <2>3, <2>4
<1>6. ASSUME ReplaceGet(c) \/ SweepNext(c) \/ Hydrate(c)
      PROVE  Reaches(c) /\ UNCHANGED evidence
  <2>1. CASE ReplaceGet(c)
    <3>1. [op[c] EXCEPT !.pc = "replaceClose", !.old = store[op[c].id]].pc # "graph"
      BY <1>a DEF Call
    <3>2. QED
      BY <2>1, <3>1, BecomeReaches, GotoReaches DEF ReplaceGet
  <2>2. CASE SweepNext(c)
    <3>1. \A r, recs :
              /\ [op[c] EXCEPT !.pc = "archive", !.old = r, !.recs = recs].pc # "graph"
              /\ [op[c] EXCEPT !.pc = "cdUnindex", !.id = r.id, !.recs = recs].pc # "graph"
      BY <1>a DEF Call
    <3>2. QED
      BY <2>2, <3>1, BecomeReaches DEF SweepNext
  <2>3. CASE Hydrate(c)
    <3>1. PICK i \in op[c].todo :
              Become(c, [op[c] EXCEPT
                    !.todo = op[c].todo \ {i},
                    !.id = i,
                    !.pc = IF Visible(i, op[c].scope) THEN "hydrate" ELSE "ghost"])
      BY <2>3 DEF Hydrate
    <3>2. [op[c] EXCEPT
              !.todo = op[c].todo \ {i},
              !.id = i,
              !.pc = IF Visible(i, op[c].scope) THEN "hydrate" ELSE "ghost"].pc # "graph"
      BY <1>a DEF Call
    <3>3. QED
      BY <2>3, <3>1, <3>2, BecomeReaches DEF Hydrate
  <2>4. QED
    BY <1>6, <2>1, <2>2, <2>3
<1>7. ~IndexGraph(c)
  BY DEF IndexGraph
<1>8. RemovesEdges(c) => ForgetEdges(c) \/ PurgeEdges(c) \/ CoordinateEdges(c)
  <2>1. ASSUME \/ DedupPass(c) \/ ConflictPass(c) \/ IgnoreGet(c) \/ SweepDone(c)
               \/ RecallDone(c) \/ RemoveGhost(c) \/ MergePut(c) \/ MergeUnindex(c)
               \/ ReplaceUnindex(c) \/ ReplacePut(c) \/ ReplaceIndex(c) \/ PutRecord(c)
               \/ IndexRecord(c) \/ PutOnly(c) \/ SuccPut(c) \/ SuccIndex(c)
               \/ PredUnindex(c) \/ ForgetUnindex(c) \/ PurgeUnindex(c)
        PROVE  ~RemovesEdges(c)
    BY <2>1
       DEF DedupPass, ConflictPass, IgnoreGet, SweepDone, RecallDone, RemoveGhost,
           MergePut, MergeUnindex, ReplaceUnindex, ReplacePut, ReplaceIndex, PutRecord,
           IndexRecord, PutOnly, SuccPut, SuccIndex, PredUnindex, ForgetUnindex,
           PurgeUnindex, RemovesEdges, At
  <2>2. ASSUME \/ CoordinateUnindex(c) \/ CoordinateRow(c) \/ MergeRetire(c)
               \/ ReplaceClose(c) \/ Retire(c) \/ Tombstone(c) \/ Archive(c)
               \/ DedupIgnore(c) \/ DedupReview(c) \/ DedupMerge(c) \/ ConflictReplace(c)
               \/ ConflictQuarantine(c) \/ ReplaceGet(c) \/ SweepNext(c) \/ Hydrate(c)
        PROVE  ~RemovesEdges(c)
    BY <2>2
       DEF CoordinateUnindex, CoordinateRow, MergeRetire, ReplaceClose, Retire, Tombstone,
           Archive, DedupIgnore, DedupReview, DedupMerge, ConflictReplace,
           ConflictQuarantine, ReplaceGet, SweepNext, Hydrate, RemovesEdges, At
  <2>3. QED
    BY <1>7, <2>1, <2>2 DEF Continue
<1>9. QED
  BY <1>1, <1>2, <1>3, <1>4, <1>5, <1>6, <1>7, <1>8 DEF Continue

\* A call that a client starts.
LEMMA EnterReaches ==
    ASSUME CallsOK, NEW c \in Procs, NEW operation, NEW call,
           Enter(c, operation, call), call.pc # "graph"
    PROVE  Reaches(c) /\ ~At(c, "index")
BY BecomeReaches DEF Enter, At

LEMMA RememberGraph ==
    ASSUME CallsOK, NEW c \in Procs, NEW req,
           Remember(c, req) \/ WriteUnindexed(c, req)
    PROVE  Reaches(c) /\ ~At(c, "index") /\ evidence' = evidence
<1>1. \A pc \in PCs \ {"graph"} : NewRecordCall(pc, req).pc # "graph"
  BY DEF NewRecordCall, Idle
<1>2. {"dedup", "conflict", "put", "putOnly"} \subseteq PCs \ {"graph"}
  BY DEF PCs
<1>3. QED
  BY <1>1, <1>2, EnterReaches DEF Remember, WriteUnindexed, AfterDedup

LEMMA StartGraph ==
    ASSUME CallsOK, NEW c \in Procs, Start(c)
    PROVE  Reaches(c) /\ ~At(c, "index") /\ evidence' = evidence
<1>1. ASSUME NEW req, Remember(c, req) \/ WriteUnindexed(c, req)
      PROVE  Reaches(c) /\ ~At(c, "index") /\ evidence' = evidence
  BY <1>1, RememberGraph
<1>2. ASSUME NEW i, NEW scope, NEW content, NEW confidence,
             Update(c, i, scope, content, confidence)
      PROVE  Reaches(c) /\ ~At(c, "index") /\ evidence' = evidence
  <2>1. \A rec : [Idle EXCEPT !.pc = "succPut", !.scope = scope,
                              !.old = store[i], !.rec = rec].pc # "graph"
    BY DEF Idle
  <2>2. QED
    BY <1>2, <2>1, EnterReaches DEF Update, Idle
<1>3. ASSUME NEW i, NEW scope,
             Forget(c, i, scope) \/ Purge(c, i, scope) \/ ForgetEverywhere(c, i, scope)
      PROVE  Reaches(c) /\ ~At(c, "index") /\ evidence' = evidence
  BY <1>3, EnterReaches DEF Forget, Purge, ForgetEverywhere, Idle
<1>4. ASSUME NEW scope, RecallSemantic(c, scope)
      PROVE  Reaches(c) /\ ~At(c, "index") /\ evidence' = evidence
  BY <1>4, EnterReaches DEF RecallSemantic, Idle
<1>5. ASSUME NEW scope, NEW now, Sweep(c, scope, now)
      PROVE  Reaches(c) /\ ~At(c, "index") /\ evidence' = evidence
  BY <1>5, EnterReaches DEF Sweep, Idle
<1>6. QED
  BY <1>1, <1>2, <1>3, <1>4, <1>5 DEF Start

-----------------------------------------------------------------------------
(* The graph.  GraphMirrored alone is not inductive: a call between two edges  *)
(* must still be about to add edges that cite the record it is at.             *)

PendingCites ==
    \A c \in Clients : At(c, "graph")
        => \A e \in relations[c] : e.evidence = op[c].rec.id

EvInv == TypeInv /\ EvidenceTypeOK /\ GraphMirrored /\ PendingCites

LEMMA ExtractType ==
    ASSUME NEW r \in MemoryRecord
    PROVE  /\ extract_relations(r) \subseteq Edge
           /\ \A e \in extract_relations(r) : e.evidence = r.id
BY EvidenceAssumption DEF extract_relations, Edge, MemoryRecord

LEMMA ClassifiedType ==
    ASSUME NEW text \in Contents
    PROVE  Classified(text) \in RememberRequest
<1>1. classify_text(text).confidence \in {40, 65, 70, 75}
  BY EvidenceAssumption DEF classify_text
<1>2. QED
  BY <1>1, EvidenceAssumption
     DEF Classified, RememberRequest, SourceKind, Retention, RetentionClass

\* The items of an extraction are statements.
LEMMA ItemType ==
    ASSUME EvidenceTypeOK, NEW c \in Clients, NEW k \in batch[c]
    PROVE  talk[c][k] \in Contents
<1>1. talk[c] \in Conversations \cup {<<>>} /\ k \in DOMAIN talk[c]
  BY DEF EvidenceTypeOK
<1>2. talk[c] \in Seq(Contents)
  BY <1>1, EvidenceAssumption
<1>3. QED
  BY <1>1, <1>2

\* Calls that are elsewhere keep what they have still to add.
LEMMA ReachesPending ==
    ASSUME PendingCites, NEW c \in Clients, Reaches(c), ~At(c, "index"),
           relations' = relations
    PROVE  PendingCites'
BY DEF PendingCites, Reaches, At, Procs

LEMMA EvidenceInitHolds ==
    ASSUME EvidenceInit
    PROVE  EvInv
<1>1. TypeInv
  BY TypeInvInit DEF EvidenceInit
<1>2. EvidenceTypeOK
  BY <1>1 DEF EvidenceInit, EvidenceTypeOK, TypeInv
<1>3. GraphMirrored /\ PendingCites
  BY DEF EvidenceInit, Init, GraphMirrored, PendingCites
<1>4. QED
  BY <1>1, <1>2, <1>3 DEF EvInv

\* A step that only moves calls which are not between edges.
LEMMA CallStep ==
    ASSUME EvInv, TypeInv', NEW c \in Clients, Reaches(c), ~At(c, "index"),
           evidence' = evidence, UNCHANGED <<graphVars, batchVars>>
    PROVE  EvInv'
<1>1. PendingCites'
  BY ReachesPending DEF EvInv, graphVars
<1>2. EvidenceTypeOK' /\ GraphMirrored'
  BY DEF EvInv, EvidenceTypeOK, TypeInv, GraphMirrored, graphVars, batchVars
<1>3. QED
  BY <1>1, <1>2 DEF EvInv

LEMMA EvidenceStep ==
    ASSUME EvInv, NEW c \in Clients, Derive(c)
    PROVE  EvInv'
<1> USE DEF EvInv
<1>a. c \in Procs /\ TypeInv /\ CallsOK
  BY DEF Procs, TypeInv
<1>1. CASE StartCall(c)
  BY <1>1, <1>a, StartGraph, StartType, CallStep DEF StartCall
<1>2. ASSUME NEW text \in Contents, remember_auto(c, text)
      PROVE  EvInv'
  <2>1. Remember(c, Classified(text)) /\ Classified(text) \in RememberRequest
    BY <1>2, ClassifiedType DEF remember_auto
  <2>2. TypeInv' /\ Reaches(c) /\ ~At(c, "index") /\ evidence' = evidence
    BY <2>1, <1>a, RememberType, RememberGraph
  <2>3. QED
    BY <1>2, <2>2, CallStep DEF remember_auto
<1>3. ASSUME NEW conversation \in Conversations, extract_and_remember(c, conversation)
      PROVE  EvInv'
  <2>1. conversation \in Seq(Contents) /\ extract(conversation) \subseteq DOMAIN conversation
    BY EvidenceAssumption DEF extract
  <2>2. DOMAIN conversation \subseteq Nat
    BY <2>1
  <2>3. EvidenceTypeOK'
    BY <1>3, <2>1, <2>2
       DEF extract_and_remember, EvidenceTypeOK, TypeOK, vars, graphVars, batchVars
  <2>4. TypeInv' /\ GraphMirrored' /\ PendingCites'
    BY <1>3 DEF extract_and_remember, TypeInv, TypeOK, CallsOK, Equipped, GraphMirrored,
                PendingCites, At, vars, graphVars
  <2>5. QED
    BY <2>3, <2>4
<1>4. CASE RememberItem(c)
  <2>1. PICK k \in batch[c] :
            /\ Remember(c, Classified(talk[c][k]))
            /\ batch' = [batch EXCEPT ![c] = @ \ {k}]
    BY <1>4 DEF RememberItem
  <2>2. talk[c][k] \in Contents
    BY ItemType
  <2>3. TypeInv' /\ Reaches(c) /\ ~At(c, "index") /\ evidence' = evidence
    BY <2>1, <2>2, <1>a, ClassifiedType, RememberType, RememberGraph
  <2>4. nextId \in Ids
    BY <2>1 DEF Remember
  <2>5. EvidenceTypeOK'
    <3>1. batch' \in [Clients -> SUBSET Nat]
          /\ \A d \in Clients : batch'[d] \subseteq DOMAIN talk[d]
      BY <2>1 DEF EvidenceTypeOK
    <3>2. batchIds' \in [Clients -> Seq(Ids)]
      BY <1>4, <2>4 DEF RememberItem, EvidenceTypeOK
    <3>3. QED
      BY <1>4, <2>3, <3>1, <3>2
         DEF RememberItem, EvidenceTypeOK, TypeInv, graphVars
  <2>6. GraphMirrored' /\ PendingCites'
    BY <1>4, <2>3, ReachesPending DEF RememberItem, GraphMirrored, graphVars
  <2>7. QED
    BY <2>3, <2>5, <2>6
<1>5. CASE AddRelation(c)
  <2>1. PICK e \in relations[c] :
            /\ edges' = edges \cup {e}
            /\ relations' = [relations EXCEPT ![c] = @ \ {e}]
    BY <1>5 DEF AddRelation, add_relation
  <2>2. At(c, "graph") /\ op' = op /\ evidence' = evidence \cup {op[c].rec.id}
        /\ UNCHANGED <<store, vectors, nextId, calls, erased>>
    <3>1. At(c, "graph") /\ op'[c] = op[c] /\ IndexGraph(c)
      BY <1>5 DEF AddRelation, IndexGraph
    <3>2. ~Finish(c)
      BY <3>1, <1>a DEF Finish, Become, At, Idle, CallsOK
    <3>3. QED
      BY <3>1, <3>2 DEF IndexGraph
  <2>3. e \in Edge /\ e.evidence = op[c].rec.id
    BY <2>2 DEF PendingCites, EvidenceTypeOK
  <2>4. TypeInv'
    BY <1>a, <2>2, <1>5, ContinueType DEF AddRelation, Continue
  <2>5. EvidenceTypeOK'
    BY <1>5, <2>1, <2>3, <2>4 DEF AddRelation, EvidenceTypeOK, TypeInv, batchVars
  <2>6. GraphMirrored'
    BY <2>1, <2>2, <2>3 DEF GraphMirrored
  <2>7. PendingCites'
    BY <2>1, <2>2 DEF PendingCites, At, EvidenceTypeOK
  <2>8. QED
    BY <2>4, <2>5, <2>6, <2>7
<1>6. CASE RelationsAdded(c)
  <2>1. Finish(c) /\ evidence' = evidence
    BY <1>6 DEF RelationsAdded, IndexGraph, At, Idle
  <2>2. Reaches(c) /\ ~At(c, "index")
    BY <1>6, <2>1, <1>a, FinishReaches DEF RelationsAdded, IndexGraph, At
  <2>3. TypeInv'
    BY <1>6, <1>a, ContinueType DEF RelationsAdded, Continue
  <2>4. QED
    BY <1>6, <2>1, <2>2, <2>3, CallStep DEF RelationsAdded
<1>7. CASE Proceed(c)
  <2>1. /\ Reaches(c)
        /\ evidence' = IF RemovesEdges(c) THEN evidence \ {op[c].id} ELSE evidence
    BY <1>7, <1>a, ContinueGraph DEF Proceed
  <2>2. TypeInv'
    BY <1>7, <1>a, ContinueType DEF Proceed
  <2>3. CASE At(c, "index")
    <3>1. op[c].rec \in MemoryRecord
      BY <1>a, <2>3 DEF CallsOK, Equipped, HoldsRec, At
    <3>2. /\ relations' = [relations EXCEPT ![c] = extract_relations(op[c].rec)]
          /\ edges' = edges /\ evidence' = evidence /\ UNCHANGED batchVars
      BY <1>7, <2>1, <2>3 DEF Proceed, RemovesEdges, At
    <3>3. EvidenceTypeOK'
      BY <2>2, <3>1, <3>2, ExtractType DEF EvidenceTypeOK, TypeInv, batchVars
    <3>4. PendingCites'
      <4>1. op'[c].pc = "graph" => op'[c].rec = op[c].rec
        BY <2>1 DEF Reaches
      <4>2. relations'[c] = extract_relations(op[c].rec)
        BY <3>2 DEF EvidenceTypeOK
      <4>3. \A d \in Clients \ {c} : op'[d] = op[d] /\ relations'[d] = relations[d]
        BY <2>1, <3>2 DEF Reaches, EvidenceTypeOK, Procs
      <4>4. QED
        BY <3>1, <4>1, <4>2, <4>3, ExtractType DEF PendingCites, At
    <3>5. QED
      BY <2>2, <3>2, <3>3, <3>4 DEF GraphMirrored
  <2>4. CASE ~At(c, "index")
    <3>1. /\ relations' = relations /\ UNCHANGED batchVars
          /\ edges' = IF RemovesEdges(c) THEN remove_evidence(op[c].id) ELSE edges
      BY <1>7, <2>4 DEF Proceed
    <3>2. edges' \subseteq edges
      BY <3>1 DEF remove_evidence
    <3>3. EvidenceTypeOK'
      BY <2>2, <3>1, <3>2 DEF EvidenceTypeOK, TypeInv, batchVars
    <3>4. GraphMirrored'
      BY <2>1, <3>1 DEF GraphMirrored, remove_evidence
    <3>5. QED
      BY <2>1, <2>2, <2>4, <3>1, <3>3, <3>4, ReachesPending
  <2>5. QED
    BY <2>3, <2>4
<1>8. CASE AbortStep(c)
  <2>1. TypeInv' /\ Reaches(c) /\ op'[c] = Idle /\ evidence' = evidence
    BY <1>8, <1>a, AbortType, FinishReaches DEF AbortStep, Abort
  <2>2. EvidenceTypeOK'
    BY <1>8, <2>1 DEF AbortStep, EvidenceTypeOK, TypeInv
  <2>3. GraphMirrored'
    BY <1>8, <2>1 DEF AbortStep, GraphMirrored
  <2>4. PendingCites'
    BY <1>8, <2>1 DEF AbortStep, PendingCites, Reaches, At, Idle, Procs, EvidenceTypeOK
  <2>5. QED
    BY <2>1, <2>2, <2>3, <2>4
<1>9. QED
  BY <1>1, <1>2, <1>3, <1>4, <1>5, <1>6, <1>7, <1>8 DEF Derive

LEMMA EvidenceStutter ==
    ASSUME EvInv, UNCHANGED evidenceVars
    PROVE  EvInv'
BY DEF EvInv, TypeInv, TypeOK, CallsOK, Equipped, EvidenceTypeOK, GraphMirrored,
       PendingCites, At, evidenceVars, vars, graphVars, batchVars

-----------------------------------------------------------------------------
(* What the graph's edges say.  EdgesTrue is about stored rows only, so it is  *)
(* not inductive: on the local store a row that was erased may come back.      *)
(* What holds throughout is that some row, stored or erased, says each edge,   *)
(* those a call has still to add included; no two rows under one identity      *)
(* differ in what an edge is made of.                                          *)

Justified(e) == \E s \in Ever : e \in extract_relations(s)

EdgesJustified == \A e \in edges : Justified(e)

PendingJustified ==
    \A c \in Clients : At(c, "graph") => \A e \in relations[c] : Justified(e)

\* Item i of an extraction is on its way to the store.
Underway(c, i) ==
    /\ op[c].pc \in {"conflict", "put"}
    /\ op[c].rec.id = i /\ op[c].rec.subject = NoSubject

\* While an extraction has items to go, all those it began are known, but for the
\* one under way; once it has none, the last may never have been stored.
ItemsKept ==
    \A c \in Clients : \A k \in 1..Len(batchIds[c]) :
        \/ batchIds[c][k] \in Known
        \/ k = Len(batchIds[c]) /\ (batch[c] = {} \/ Underway(c, batchIds[c][k]))

DerivedInv ==
    /\ LedgerInv /\ IndexInv
    /\ EdgesJustified /\ PendingJustified
    /\ ~DedupEnabled => ItemsKept

LEMMA SameRelations ==
    ASSUME NEW r, NEW s, Immutable(r) = Immutable(s)
    PROVE  extract_relations(r) = extract_relations(s)
<1>1. r.id = s.id /\ r.subject = s.subject /\ r.content = s.content
  BY DEF Immutable
<1>2. QED
  BY <1>1 DEF extract_relations

\* What is known is the identity of a row that is stored or was erased.
LEMMA KnownIsEver ==
    ASSUME TypeInv, LedgerInv
    PROVE  \A i : i \in Known <=> \E s \in Ever : s.id = i
BY RowFacts DEF TypeInv, LedgerInv, Known, ErasedIds, Ever

LEMMA KnownStays ==
    ASSUME TypeInv, LedgerInv, TypeInv', LedgerInv', EverKept
    PROVE  Known \subseteq Known'
<1>1. SUFFICES ASSUME NEW i \in Known PROVE i \in Known'
  OBVIOUS
<1>2. PICK s \in Ever : s.id = i
  BY KnownIsEver
<1>3. PICK t \in Ever' : Immutable(t) = Immutable(s)
  BY DEF EverKept
<1>4. t.id = i
  BY <1>2, <1>3, ImmutableFixes
<1>5. CASE t \in erased'
  BY <1>4, <1>5 DEF Known, ErasedIds
<1>6. CASE t \in Rows'
  BY <1>4, <1>6 DEF Known, Rows, Stored, LedgerInv, RowsInPlace
<1>7. QED
  BY <1>3, <1>5, <1>6 DEF Ever

\* To the engine, every step is one of its own or the write of some request.
LEMMA DeriveIsCall ==
    ASSUME EvidenceTypeOK, NEW c \in Clients, Derive(c)
    PROVE  \/ [Next]_vars
           \/ \E req \in RememberRequest : Remember(c, req)
<1>1. ASSUME StartCall(c) \/ AddRelation(c) \/ RelationsAdded(c) \/ Proceed(c)
             \/ AbortStep(c)
      PROVE  Next
  BY <1>1
     DEF StartCall, AddRelation, RelationsAdded, Proceed, AbortStep, Next, Continue
<1>2. ASSUME NEW text \in Contents, remember_auto(c, text)
      PROVE  \E req \in RememberRequest : Remember(c, req)
  BY <1>2, ClassifiedType DEF remember_auto
<1>3. ASSUME NEW conversation \in Conversations, extract_and_remember(c, conversation)
      PROVE  UNCHANGED vars
  BY <1>3 DEF extract_and_remember
<1>4. ASSUME RememberItem(c)
      PROVE  \E req \in RememberRequest : Remember(c, req)
  <2>1. PICK k \in batch[c] : Remember(c, Classified(talk[c][k]))
    BY <1>4 DEF RememberItem
  <2>2. talk[c][k] \in Contents
    BY ItemType
  <2>3. QED
    BY <2>1, <2>2, ClassifiedType
<1>5. QED
  BY <1>1, <1>2, <1>3, <1>4 DEF Derive

LEMMA CallKeeps ==
    ASSUME EvInv, DerivedInv, NEW c \in Clients, Derive(c)
    PROVE  LedgerInv' /\ IndexInv' /\ EverKept
<1> USE DEF EvInv, DerivedInv
<1>1. CASE [Next]_vars
  BY <1>1, LedgerStep, IndexInvStep
<1>2. ASSUME NEW req \in RememberRequest, Remember(c, req)
      PROVE  LedgerInv' /\ IndexInv' /\ EverKept
  <2>1. c \in Procs /\ CallsOK
    BY DEF Procs, TypeInv
  <2>2. LedgerInv' /\ EverKept
    BY <1>2, <2>1, RememberKind, KindStep
  <2>3. VectorsMove /\ EdgesMove
    BY <1>2 DEF Remember, VectorsMove, EdgesMove
  <2>4. \A q \in Procs : Moves(op[q], op'[q])
    <3>1. Moves(op[c], op'[c]) /\ Others(c)
      BY <1>2, <2>1, RememberMoves
    <3>2. QED
      BY <3>1 DEF Others, Moves, Agrees
  <2>5. QED
    BY <2>2, <2>3, <2>4, IndexInvKept
<1>3. QED
  BY <1>1, <1>2, DeriveIsCall

\* What a step does to the edges and to those still to add.
EdgesCome(c) ==
    /\ \A e \in edges' \ edges : At(c, "graph") /\ e \in relations[c]
    /\ \A d \in Clients : op'[d].pc = "graph" =>
          \/ At(d, "graph") /\ relations'[d] \subseteq relations[d]
          \/ At(d, "index") /\ relations'[d] = extract_relations(op[d].rec)

\* A step that adds no edge and moves no call out of the graph phase.
LEMMA NoEdgesCome ==
    ASSUME NEW c \in Clients, Reaches(c), ~At(c, "index"), edges' \subseteq edges,
           \A d \in Clients : relations'[d] \subseteq relations[d]
    PROVE  EdgesCome(c)
BY DEF EdgesCome, Reaches, At, Procs

LEMMA EdgesStep ==
    ASSUME EvInv, NEW c \in Clients, Derive(c)
    PROVE  EdgesCome(c)
<1> USE DEF EvInv
<1>a. c \in Procs /\ CallsOK
  BY DEF Procs, TypeInv
<1>1. CASE StartCall(c)
  BY <1>1, <1>a, StartGraph, NoEdgesCome DEF StartCall, graphVars
<1>2. ASSUME NEW req, Remember(c, req), UNCHANGED graphVars
      PROVE  EdgesCome(c)
  BY <1>2, <1>a, RememberGraph, NoEdgesCome DEF graphVars
<1>3. ASSUME UNCHANGED <<op, graphVars>>
      PROVE  EdgesCome(c)
  BY <1>3 DEF EdgesCome, At, graphVars
<1>4. CASE AddRelation(c)
  <2>1. PICK e \in relations[c] :
            /\ edges' = edges \cup {e}
            /\ relations' = [relations EXCEPT ![c] = @ \ {e}]
    BY <1>4 DEF AddRelation, add_relation
  <2>2. At(c, "graph") /\ op'[c] = op[c]
    BY <1>4 DEF AddRelation, IndexGraph
  <2>3. \A d \in Clients : op'[d].pc = "graph" => op[d].pc = "graph"
    <3>1. op' = op \/ Finish(c)
      BY <1>4 DEF AddRelation, IndexGraph
    <3>2. QED
      BY <2>2, <3>1, <1>a DEF Finish, Become, CallsOK, Procs
  <2>4. QED
    BY <2>1, <2>2, <2>3 DEF EdgesCome, At, EvidenceTypeOK
<1>5. CASE RelationsAdded(c)
  <2>1. Finish(c) /\ ~At(c, "index")
    BY <1>5 DEF RelationsAdded, IndexGraph, At, Idle
  <2>2. QED
    BY <1>5, <2>1, <1>a, FinishReaches, NoEdgesCome DEF RelationsAdded, graphVars
<1>6. CASE Proceed(c)
  <2>1. Reaches(c)
    BY <1>6, <1>a, ContinueGraph DEF Proceed
  <2>2. edges' \subseteq edges
    BY <1>6 DEF Proceed, remove_evidence
  <2>3. CASE At(c, "index")
    <3>1. relations' = [relations EXCEPT ![c] = extract_relations(op[c].rec)]
      BY <1>6, <2>3 DEF Proceed
    <3>2. QED
      BY <2>1, <2>2, <2>3, <3>1 DEF EdgesCome, Reaches, At, EvidenceTypeOK, Procs
  <2>4. CASE ~At(c, "index")
    BY <1>6, <2>1, <2>2, <2>4, NoEdgesCome DEF Proceed
  <2>5. QED
    BY <2>3, <2>4
<1>7. CASE AbortStep(c)
  <2>1. Reaches(c) /\ op'[c] = Idle
    BY <1>7, <1>a, FinishReaches DEF AbortStep, Abort
  <2>2. edges' = edges /\ \A d \in Clients : relations'[d] \subseteq relations[d]
    BY <1>7 DEF AbortStep, EvidenceTypeOK
  <2>3. QED
    BY <2>1, <2>2 DEF EdgesCome, Reaches, At, Idle, Procs
<1>8. QED
  BY <1>1, <1>2, <1>3, <1>4, <1>5, <1>6, <1>7
     DEF Derive, remember_auto, extract_and_remember, RememberItem, vars

LEMMA JustifiedStep ==
    ASSUME EvInv, DerivedInv, EverKept, NEW c \in Clients, Derive(c)
    PROVE  EdgesJustified' /\ PendingJustified'
<1> DEFINE Stays(e) == \E s \in Ever' : e \in extract_relations(s)
<1>1. \A e : Justified(e) => Stays(e)
  BY SameRelations DEF Justified, EverKept
<1>2. ASSUME NEW e \in edges' PROVE Stays(e)
  BY <1>1, EdgesStep DEF EdgesCome, DerivedInv, EdgesJustified, PendingJustified
<1>3. ASSUME NEW d \in Clients, op'[d].pc = "graph", NEW e \in relations'[d]
      PROVE  Stays(e)
  <2>1. CASE At(d, "graph") /\ e \in relations[d]
    BY <1>1, <2>1 DEF DerivedInv, PendingJustified
  <2>2. CASE At(d, "index") /\ e \in extract_relations(op[d].rec)
    <3>1. PICK s \in Ever : Immutable(s) = Immutable(op[d].rec)
      BY <2>2 DEF DerivedInv, IndexInv, WrittenFirst, IndexingPCs, At, Accounted, Procs
    <3>2. e \in extract_relations(s)
      BY <2>2, <3>1, SameRelations
    <3>3. QED
      BY <1>1, <3>2 DEF Justified
  <2>3. QED
    BY <1>3, <2>1, <2>2, EdgesStep DEF EdgesCome
<1>4. QED
  BY <1>2, <1>3 DEF EdgesJustified, PendingJustified, Justified, At

\* An item on its way has no subject, so no fact stands in its way: its next step
\* is the last before it is stored, or stores it.
LEMMA UnderwayStep ==
    ASSUME TypeInv, NEW c \in Procs, NEW i, Underway(c, i), Continue(c)
    PROVE  \/ op'[c].pc = "put" /\ op'[c].rec = op[c].rec
           \/ i \in Known'
<1>c. CallsOK
  BY DEF TypeInv
<1>1. ConflictPass(c) \/ PutRecord(c)
  <2>1. NoConflict(c)
    BY DEF Underway, NoConflict
  <2>2. \/ ConflictPass(c) \/ ConflictReplace(c) \/ ConflictQuarantine(c)
        \/ PutRecord(c)
    <3>1. ~(\/ DedupPass(c) \/ DedupIgnore(c) \/ IgnoreGet(c) \/ DedupReview(c)
            \/ DedupMerge(c) \/ MergePut(c) \/ MergeUnindex(c) \/ MergeRetire(c)
            \/ ReplaceGet(c) \/ ReplaceClose(c) \/ ReplaceUnindex(c)
            \/ ReplacePut(c) \/ ReplaceIndex(c))
      BY DEF Underway, At, DedupPass, DedupIgnore, IgnoreGet, DedupReview, DedupMerge,
             MergePut, MergeUnindex, MergeRetire, ReplaceGet, ReplaceClose,
             ReplaceUnindex, ReplacePut, ReplaceIndex
    <3>2. ~(\/ IndexRecord(c) \/ IndexGraph(c) \/ PutOnly(c)
            \/ SuccPut(c) \/ SuccIndex(c) \/ PredUnindex(c) \/ Retire(c)
            \/ Tombstone(c) \/ ForgetUnindex(c) \/ ForgetEdges(c)
            \/ PurgeUnindex(c) \/ PurgeEdges(c))
      BY DEF Underway, At, IndexRecord, IndexGraph, PutOnly, SuccPut, SuccIndex,
             PredUnindex, Retire, Tombstone, ForgetUnindex, ForgetEdges,
             PurgeUnindex, PurgeEdges
    <3>3. ~(\/ SweepNext(c) \/ SweepDone(c) \/ Archive(c)
            \/ CoordinateUnindex(c) \/ CoordinateEdges(c) \/ CoordinateRow(c)
            \/ Hydrate(c) \/ RemoveGhost(c) \/ RecallDone(c))
      BY DEF Underway, At, SweepNext, SweepDone, Archive, CoordinateUnindex,
             CoordinateEdges, CoordinateRow, Hydrate, RemoveGhost, RecallDone
    <3>4. QED
      BY <3>1, <3>2, <3>3 DEF Continue
  <2>3. QED
    BY <2>1, <2>2 DEF ConflictReplace, ConflictQuarantine
<1>2. CASE ConflictPass(c)
  BY <1>2, <1>c, GotoMoves DEF ConflictPass
<1>3. CASE PutRecord(c)
  <2>1. op[c].rec \in MemoryRecord /\ op[c].rec.id = i
    BY <1>c DEF CallsOK, Equipped, HoldsRec, Underway
  <2>2. store' = [store EXCEPT ![i] = op[c].rec] /\ i \in Ids
    BY <1>3, <2>1 DEF PutRecord, StorePut, MemoryRecord
  <2>3. store'[i] # NoRecord
    BY <2>1, <2>2, EngineAssumption DEF TypeInv, TypeOK
  <2>4. QED
    BY <2>2, <2>3 DEF Known, Stored
<1>4. QED
  BY <1>1, <1>2, <1>3

LEMMA ItemsStep ==
    ASSUME EvInv, DerivedInv, ~DedupEnabled, Known \subseteq Known',
           NEW c \in Clients, Derive(c)
    PROVE  ItemsKept'
<1> USE DEF EvInv
<1> DEFINE Kept(d, k) ==
               \/ batchIds'[d][k] \in Known'
               \/ /\ k = Len(batchIds'[d])
                  /\ \/ batch'[d] = {}
                     \/ /\ op'[d].pc \in {"conflict", "put"}
                        /\ op'[d].rec.id = batchIds'[d][k]
                        /\ op'[d].rec.subject = NoSubject
<1>a. c \in Procs /\ CallsOK /\ ItemsKept
  BY DEF Procs, TypeInv, DerivedInv
<1>1. SUFFICES ASSUME NEW d \in Clients, NEW k \in 1..Len(batchIds'[d])
               PROVE  Kept(d, k)
  BY DEF ItemsKept, Underway
<1>2. CASE batchIds'[d] = batchIds[d] /\ (batch'[d] = {} \/ op'[d] = op[d])
           /\ (batch[d] = {} => batch'[d] = {})
  BY <1>2, <1>a DEF ItemsKept, Underway
<1>3. CASE UNCHANGED <<batch, batchIds>> /\ Continue(c)
  <2>1. CASE d # c
    <3>1. op'[d] = op[d]
      BY <1>3, <1>a, <2>1, ContinueMoves DEF DerivedInv, Others, Procs
    <3>2. QED
      BY <1>2, <1>3, <3>1
  <2>2. CASE d = c
    <3>1. batchIds[c][k] \notin Known => k = Len(batchIds[c])
                                         /\ (batch[c] = {} \/ Underway(c, batchIds[c][k]))
      BY <1>a, <1>3, <2>2 DEF ItemsKept
    <3>2. ASSUME Underway(c, batchIds[c][k]) PROVE
              \/ op'[c].pc = "put" /\ op'[c].rec = op[c].rec
              \/ batchIds[c][k] \in Known'
      BY <1>3, <1>a, <3>2, UnderwayStep
    <3>3. QED
      BY <1>3, <2>2, <3>1, <3>2 DEF Underway
  <2>3. QED
    BY <2>1, <2>2
<1>4. CASE StartCall(c)
  <2>1. Reaches(c) /\ batch[c] = {} /\ UNCHANGED <<batch, batchIds>>
    BY <1>4, <1>a, StartGraph DEF StartCall, Free, batchVars
  <2>2. QED
    BY <1>2, <2>1 DEF Reaches, Procs
<1>5. ASSUME NEW text \in Contents, remember_auto(c, text)
      PROVE  Kept(d, k)
  <2>1. Reaches(c) /\ batch[c] = {} /\ UNCHANGED <<batch, batchIds>>
    BY <1>5, <1>a, RememberGraph DEF remember_auto, Free, batchVars
  <2>2. QED
    BY <1>2, <2>1 DEF Reaches, Procs
<1>6. ASSUME NEW conversation \in Conversations, extract_and_remember(c, conversation)
      PROVE  Kept(d, k)
  <2>1. CASE d = c
    <3>1. batchIds'[c] = <<>>
      BY <1>6 DEF extract_and_remember, EvidenceTypeOK
    <3>2. QED
      BY <1>1, <2>1, <3>1
  <2>2. CASE d # c
    BY <1>2, <1>6, <2>2 DEF extract_and_remember, EvidenceTypeOK, vars
  <2>3. QED
    BY <2>1, <2>2
<1>7. CASE RememberItem(c)
  <2>1. PICK j \in batch[c] : Remember(c, Classified(talk[c][j]))
    BY <1>7 DEF RememberItem
  <2>2. Reaches(c)
    BY <1>a, <2>1, RememberGraph
  <2>3. /\ At(c, "idle")
        /\ batchIds' = [batchIds EXCEPT ![c] = Append(@, nextId)]
        /\ \A e \in Clients \ {c} : batch'[e] = batch[e]
    BY <1>7 DEF RememberItem, EvidenceTypeOK
  <2>4. CASE d # c
    BY <1>2, <2>2, <2>3, <2>4 DEF Reaches, Procs, EvidenceTypeOK
  <2>5. CASE d = c
    <3>1. nextId \in Ids /\ batchIds[c] \in Seq(Ids)
          /\ batchIds'[c] = Append(batchIds[c], nextId)
      BY <2>1, <2>3 DEF Remember, EvidenceTypeOK
    <3>2. CASE k = Len(batchIds[c]) + 1
      <4>1. batchIds'[c][k] = nextId /\ k = Len(batchIds'[c])
        BY <3>1, <3>2
      <4>2. PICK pc \in {"conflict", "put"} :
                op'[c] = NewRecordCall(pc, Classified(talk[c][j]))
        BY <1>a, <2>1, EnterMoves DEF DerivedInv, Remember, AfterDedup
      <4>3. /\ op'[c].pc = pc
            /\ op'[c].rec = into_record(nextId, Classified(talk[c][j]))
        BY <4>2 DEF NewRecordCall, Idle
      <4>4. op'[c].rec.id = nextId /\ op'[c].rec.subject = NoSubject
        BY <4>3 DEF into_record, Classified
      <4>5. QED
        BY <2>5, <4>1, <4>3, <4>4
    <3>3. CASE k \in 1..Len(batchIds[c])
      <4>1. batchIds'[c][k] = batchIds[c][k]
        BY <3>1, <3>3
      <4>2. ~Underway(c, batchIds[c][k]) /\ batch[c] # {}
        BY <2>1, <2>3 DEF Underway, At
      <4>3. QED
        BY <1>a, <2>5, <3>3, <4>1, <4>2 DEF ItemsKept
    <3>4. QED
      BY <1>1, <2>5, <3>1, <3>2, <3>3
  <2>6. QED
    BY <2>4, <2>5
<1>8. CASE AbortStep(c)
  BY <1>2, <1>8, <1>a, FinishReaches
     DEF AbortStep, Abort, Reaches, EvidenceTypeOK, Procs
<1>9. AddRelation(c) \/ RelationsAdded(c) \/ Proceed(c)
          => UNCHANGED <<batch, batchIds>> /\ Continue(c)
  BY DEF AddRelation, RelationsAdded, Proceed, Continue, batchVars
<1>10. QED
  BY <1>3, <1>4, <1>5, <1>6, <1>7, <1>8, <1>9 DEF Derive

LEMMA DerivedStep ==
    ASSUME EvInv, DerivedInv, EvInv', NEW c \in Clients, Derive(c)
    PROVE  DerivedInv'
<1>1. LedgerInv' /\ IndexInv' /\ EverKept
  BY CallKeeps
<1>2. EdgesJustified' /\ PendingJustified'
  BY <1>1, JustifiedStep
<1>3. Known \subseteq Known'
  BY <1>1, KnownStays DEF EvInv, DerivedInv
<1>4. ~DedupEnabled => ItemsKept'
  BY <1>3, ItemsStep
<1>5. QED
  BY <1>1, <1>2, <1>4 DEF DerivedInv

LEMMA DerivedInitHolds ==
    ASSUME EvidenceInit
    PROVE  DerivedInv
<1>1. LedgerInv /\ IndexInv
  BY LedgerInvInit, IndexInvInit DEF EvidenceInit
<1>2. EdgesJustified /\ PendingJustified /\ ItemsKept
  BY DEF EvidenceInit, EdgesJustified, PendingJustified, ItemsKept
<1>3. QED
  BY <1>1, <1>2 DEF DerivedInv

LEMMA DerivedStutter ==
    ASSUME DerivedInv, UNCHANGED evidenceVars
    PROVE  DerivedInv'
<1>1. UNCHANGED <<store, vectors, evidence, nextId, op, erased, edges, relations,
                  batch, batchIds>>
  BY DEF evidenceVars, vars, graphVars, batchVars
<1>2. Ever' = Ever /\ Stored' = Stored /\ Known' = Known /\ Indexed' = Indexed
  BY <1>1 DEF Ever, Rows, Stored, Known, ErasedIds, Indexed
<1>3. LedgerInv'
  BY <1>1, <1>2
     DEF DerivedInv, LedgerInv, RowsInPlace, LinksGoBack, OneIdentity, CopiesAccounted,
         Accounted, PendingFresh, PendingDistinct, Pending, NoReturn
<1>4. IndexInv'
  BY <1>1, <1>2
     DEF DerivedInv, IndexInv, VectorsMirror, EdgesCite, WrittenFirst, Accounted
<1>5. EdgesJustified' /\ PendingJustified' /\ (~DedupEnabled => ItemsKept')
  BY <1>1, <1>2
     DEF DerivedInv, EdgesJustified, PendingJustified, Justified, ItemsKept, Underway, At
<1>6. QED
  BY <1>3, <1>4, <1>5 DEF DerivedInv

-----------------------------------------------------------------------------
(* Governed reads.  What a gated read will return has been decided: it is in   *)
(* the scope of its principal, and the auditor was given the permission.       *)

Cleared ==
    gated => \A p \in Principals : \A r \in read[p].allowed :
        /\ Contains(ScopeOf[p], r.scope)
        /\ Gate!Permission(p, r) \in trail \cup lost

GovInv == EvInv /\ GovernanceTypeOK /\ Cleared

LEMMA NoReadType == NoRead \in Read
BY GlobalScopeType DEF NoRead, Read

LEMMA SetType ==
    ASSUME read \in [Principals -> Read], NEW p \in Principals, NEW r \in Read, Set(p, r)
    PROVE  /\ read' \in [Principals -> Read]
           /\ read'[p] = r
           /\ \A q \in Principals \ {p} : read'[q] = read[q]
BY DEF Set

LEMMA IntersectType ==
    ASSUME NEW a \in Scope, NEW b \in Scope
    PROVE  Intersect(a, b) \in Scope
BY DEF Intersect, Scope

\* A read is given, or has, nothing but what was allowed before.
LEMMA ClearedKept ==
    ASSUME GovInv, NEW p \in Principals, NEW r \in Read, Set(p, r),
           gated => r.allowed \subseteq read[p].allowed,
           UNCHANGED gated, trail \cup lost \subseteq trail' \cup lost'
    PROVE  Cleared'
<1>1. /\ read'[p] = r
      /\ \A q \in Principals \ {p} : read'[q] = read[q]
  BY SetType DEF GovInv, GovernanceTypeOK
<1>2. ASSUME gated, NEW q \in Principals PROVE read'[q].allowed \subseteq read[q].allowed
  BY <1>1, <1>2
<1>3. QED
  BY <1>2 DEF GovInv, Cleared, Gate!Permission

\* The read of p becomes r and the rest of the governed state is as the action
\* leaves it.
LEMMA ReadStep ==
    ASSUME GovInv, NEW p \in Principals, NEW r \in Read, Set(p, r),
           gated => r.allowed \subseteq read[p].allowed,
           reads' \in 0..MaxReads, UNCHANGED <<evidenceVars, gated>>,
           trail \cup lost \subseteq trail' \cup lost',
           trail' \subseteq Event, lost' \subseteq Event,
           disclosed' \subseteq Principals \X MemoryRecord
    PROVE  GovInv'
<1>1. EvInv'
  BY EvidenceStutter DEF GovInv
<1>2. read' \in [Principals -> Read]
  BY SetType DEF GovInv, GovernanceTypeOK
<1>3. Cleared'
  BY ClearedKept
<1>4. QED
  BY <1>1, <1>2, <1>3 DEF GovInv, EvInv, GovernanceTypeOK

LEMMA AuditType ==
    ASSUME GovernanceTypeOK, NEW p \in Principals, NEW i \in Ids \cup {0},
           NEW allowed \in BOOLEAN, audit(p, i, allowed)
    PROVE  /\ trail' \subseteq Event /\ lost' \subseteq Event
           /\ trail \cup lost \subseteq trail' \cup lost'
           /\ [principal |-> p, record_id |-> i, allowed |-> allowed] \in trail' \cup lost'
BY DEF audit, GovernanceTypeOK, Event

LEMMA GovernedStepHolds ==
    ASSUME GovInv, NEW p \in Principals, GovernedStep(p), UNCHANGED <<evidenceVars, gated>>
    PROVE  GovInv'
<1> USE DEF GovInv
<1>a. /\ read[p] \in Read /\ reads \in 0..MaxReads /\ Rows \subseteq MemoryRecord
      /\ trail \subseteq Event /\ lost \subseteq Event
      /\ disclosed \subseteq Principals \X MemoryRecord
  BY DEF GovernanceTypeOK, EvidenceTypeOK, TypeOK, Rows, Stored
<1>b. Begins(p) => reads' \in 0..MaxReads /\ UNCHANGED <<trail, lost, disclosed>>
  BY <1>a, GovernanceAssumption DEF Begins
<1>1. ASSUME NEW scope \in QueryScopes, recall_for(p, scope)
      PROVE  GovInv'
  <2>1. CASE CanIntersect(ScopeOf[p], scope)
    <3> DEFINE r == [NoRead EXCEPT !.stage = "gather",
                                   !.scope = Intersect(ScopeOf[p], scope)]
    <3>1. Intersect(ScopeOf[p], scope) \in Scope
      BY IntersectType, GovernanceAssumption
    <3>2. r \in Read /\ r.allowed = {}
      BY <3>1, NoReadType DEF Read, NoRead
    <3>3. Set(p, r)
      BY <1>1, <2>1 DEF recall_for
    <3>. HIDE DEF r
    <3>4. QED
      BY <1>1, <1>a, <1>b, <3>2, <3>3, ReadStep DEF recall_for
  <2>2. CASE ~CanIntersect(ScopeOf[p], scope)
    <3>1. Set(p, read[p])
      BY <1>1, <2>2 DEF recall_for, Set, GovernanceTypeOK
    <3>2. QED
      BY <1>1, <1>a, <1>b, <3>1, ReadStep DEF recall_for
  <2>3. QED
    BY <2>1, <2>2
<1>2. ASSUME NEW scope \in QueryScopes, NEW i \in Known, recall_exact_for(p, i, scope)
      PROVE  GovInv'
  <2>1. PICK r \in Read : Set(p, r) /\ (gated => r.allowed = {})
    <3>1. Visible(i, scope) => store[i] \in MemoryRecord
      BY DEF Visible, Stored, EvInv, TypeInv, TypeOK
    <3>2. CASE ~Visible(i, scope)
      BY <1>2, <3>2, NoReadType DEF recall_exact_for, NoRead
    <3>3. CASE Visible(i, scope) /\ gated
      <4> DEFINE r == [NoRead EXCEPT !.stage = "govern", !.exact = TRUE,
                                     !.hits = {store[i]}]
      <4>1. r \in Read /\ r.allowed = {}
        BY <3>1, <3>3, NoReadType DEF Read, NoRead
      <4>2. Set(p, r)
        BY <1>2, <3>3 DEF recall_exact_for
      <4>3. QED
        BY <4>1, <4>2
    <3>4. CASE Visible(i, scope) /\ ~gated
      <4> DEFINE r == [NoRead EXCEPT !.stage = "return", !.exact = TRUE,
                                     !.allowed = {store[i]}]
      <4>1. r \in Read
        BY <3>1, <3>4, NoReadType DEF Read, NoRead
      <4>2. Set(p, r)
        BY <1>2, <3>4 DEF recall_exact_for
      <4>3. QED
        BY <3>4, <4>1, <4>2
    <3>5. QED
      BY <3>2, <3>3, <3>4
  <2>2. QED
    BY <1>2, <1>a, <1>b, <2>1, ReadStep DEF recall_exact_for
<1>3. CASE Gather(p)
  <2>1. PICK r \in Rows : Set(p, [read[p] EXCEPT !.hits = @ \cup {r}])
    BY <1>3 DEF Gather
  <2>2. LET next == [read[p] EXCEPT !.hits = @ \cup {r}]
        IN  next \in Read /\ next.allowed = read[p].allowed
    BY <1>a, <2>1 DEF Read
  <2>3. QED
    BY <1>3, <1>a, <2>1, <2>2, ReadStep DEF Gather
<1>4. CASE Gathered(p)
  <2>1. CASE gated
    <3>1. LET next == [read[p] EXCEPT !.stage = "govern"]
          IN  next \in Read /\ next.allowed = read[p].allowed
      BY <1>a DEF Read
    <3>2. QED
      BY <1>4, <1>a, <2>1, <3>1, ReadStep DEF Gathered
  <2>2. CASE ~gated
    <3>1. [read[p] EXCEPT !.stage = "report", !.hits = {}, !.allowed = read[p].hits] \in Read
      BY <1>a DEF Read
    <3>2. QED
      BY <1>4, <1>a, <2>2, <3>1, ReadStep DEF Gathered
  <2>3. QED
    BY <2>1, <2>2
<1>5. CASE govern_read(p)
  <2>1. PICK r \in read[p].hits :
            /\ audit(p, r.id, authorize_read(p, r))
            /\ Set(p, [read[p] EXCEPT
                          !.hits = @ \ {r},
                          !.allowed = IF authorize_read(p, r) THEN @ \cup {r} ELSE @])
    BY <1>5 DEF govern_read
  <2> DEFINE next == [read[p] EXCEPT
                         !.hits = @ \ {r},
                         !.allowed = IF authorize_read(p, r) THEN @ \cup {r} ELSE @]
  <2>2. r \in MemoryRecord /\ r.id \in Ids /\ authorize_read(p, r) \in BOOLEAN
    BY <1>a, <2>1 DEF Read, MemoryRecord, authorize_read, Contains
  <2>3. /\ next \in Read
        /\ next.allowed \subseteq read[p].allowed \cup {r}
        /\ r \in next.allowed => r \in read[p].allowed \/ authorize_read(p, r)
    BY <1>a, <2>1, <2>2 DEF Read
  <2>4. /\ trail' \subseteq Event /\ lost' \subseteq Event
        /\ trail \cup lost \subseteq trail' \cup lost'
        /\ [principal |-> p, record_id |-> r.id, allowed |-> authorize_read(p, r)]
               \in trail' \cup lost'
    BY <2>1, <2>2, AuditType
  <2>5. /\ read' \in [Principals -> Read] /\ read'[p] = next
        /\ \A q \in Principals \ {p} : read'[q] = read[q]
    <3>. HIDE DEF next
    <3>. QED
      BY <2>1, <2>3, SetType DEF next, GovernanceTypeOK
  <2>. HIDE DEF next
  <2>6. Cleared'
    <3>1. ASSUME gated', NEW q \in Principals, NEW s \in read'[q].allowed
          PROVE  /\ Contains(ScopeOf[q], s.scope)
                 /\ Gate!Permission(q, s) \in trail' \cup lost'
      <4>1. CASE s \in read[q].allowed
        BY <3>1, <4>1, <2>4 DEF Cleared, Gate!Permission
      <4>2. CASE s \notin read[q].allowed
        <5>1. q = p /\ s = r /\ authorize_read(p, r)
          BY <3>1, <4>2, <2>3, <2>5
        <5>2. QED
          BY <5>1, <2>4 DEF authorize_read, Gate!Permission
      <4>3. QED
        BY <4>1, <4>2
    <3>2. QED
      BY <3>1 DEF Cleared, Gate!Permission
  <2>7. QED
    BY <1>5, <1>a, <2>4, <2>5, <2>6, EvidenceStutter
       DEF govern_read, GovernanceTypeOK, EvInv
<1>6. CASE Governed(p)
  <2>1. \A stage \in {"return", "report"} :
            LET next == [read[p] EXCEPT !.stage = stage]
            IN  next \in Read /\ next.allowed = read[p].allowed
    BY <1>a DEF Read
  <2>2. QED
    BY <1>6, <1>a, <2>1, ReadStep DEF Governed
<1>7. CASE ReportQuery(p)
  <2>1. LET next == [read[p] EXCEPT !.stage = "return"]
        IN  next \in Read /\ next.allowed = read[p].allowed
    BY <1>a DEF Read
  <2>2. /\ trail' \subseteq Event /\ lost' \subseteq Event
        /\ trail \cup lost \subseteq trail' \cup lost'
    BY <1>7, AuditType DEF ReportQuery
  <2>3. QED
    BY <1>7, <1>a, <2>1, <2>2, ReadStep DEF ReportQuery
<1>8. CASE Return(p)
  <2>1. disclosed' \subseteq Principals \X MemoryRecord
    BY <1>8, <1>a DEF Return, Read
  <2>2. NoRead \in Read /\ NoRead.allowed = {}
    BY NoReadType DEF NoRead
  <2>3. QED
    BY <1>8, <1>a, <2>1, <2>2, ReadStep DEF Return
<1>9. CASE CancelRead(p)
  <2>1. NoRead \in Read /\ NoRead.allowed = {}
    BY NoReadType DEF NoRead
  <2>2. QED
    BY <1>9, <1>a, <2>1, ReadStep DEF CancelRead
<1>10. QED
  BY <1>1, <1>2, <1>3, <1>4, <1>5, <1>6, <1>7, <1>8, <1>9 DEF GovernedStep, Govern

LEMMA GovInvInit == GovernanceInit => GovInv
<1> SUFFICES ASSUME GovernanceInit PROVE GovInv
  OBVIOUS
<1>1. EvInv
  BY EvidenceInitHolds DEF GovernanceInit
<1>2. GovernanceTypeOK
  BY <1>1, NoReadType, GovernanceAssumption DEF GovernanceInit, GovernanceTypeOK, EvInv
<1>3. Cleared
  BY DEF GovernanceInit, Cleared, NoRead
<1>4. QED
  BY <1>1, <1>2, <1>3 DEF GovInv

LEMMA GovInvStep == GovInv /\ [GovernanceNext]_governanceVars => GovInv'
<1> SUFFICES ASSUME GovInv, [GovernanceNext]_governanceVars PROVE GovInv'
  OBVIOUS
<1>1. ASSUME EvInv', UNCHANGED <<gated, readVars>>
      PROVE  GovInv'
  BY <1>1 DEF GovInv, EvInv, GovernanceTypeOK, Cleared, readVars, Gate!Permission
<1>2. CASE EvidenceNext /\ UNCHANGED <<gated, readVars>>
  BY <1>1, <1>2, EvidenceStep DEF EvidenceNext, GovInv
<1>3. ASSUME NEW p \in Principals, GovernedStep(p), UNCHANGED <<evidenceVars, gated>>
      PROVE  GovInv'
  BY <1>3, GovernedStepHolds
<1>4. CASE UNCHANGED governanceVars
  BY <1>1, <1>4, EvidenceStutter DEF governanceVars, GovInv
<1>5. QED
  BY <1>2, <1>3, <1>4 DEF GovernanceNext

-----------------------------------------------------------------------------
(* The theorems *)

\* The calls, the graph and the governed reads stay in their types, whatever
\* writes, extractions and reads interleave or fail.
THEOREM GovernanceTypes == GovernanceSpec => []GovernanceTypeOK
<1>1. GovInv => GovernanceTypeOK
  BY DEF GovInv
<1>2. QED
  BY <1>1, GovInvInit, GovInvStep, PTL DEF GovernanceSpec

\* The graph holds edges for exactly the memories the engine takes for cited,
\* between any two steps of any calls.
THEOREM GraphKept == GovernanceSpec => []GraphMirrored
<1>1. GovInv => GraphMirrored
  BY DEF GovInv, EvInv
<1>2. QED
  BY <1>1, GovInvInit, GovInvStep, PTL DEF GovernanceSpec

LEMMA DerivedInvariant == GovernanceSpec => [](GovInv /\ DerivedInv)
<1>1. GovernanceInit => DerivedInv
  BY DerivedInitHolds DEF GovernanceInit
<1>2. GovInv /\ DerivedInv /\ [GovernanceNext]_governanceVars => (GovInv /\ DerivedInv)'
  <2> SUFFICES ASSUME GovInv, DerivedInv, [GovernanceNext]_governanceVars
               PROVE  GovInv' /\ DerivedInv'
    OBVIOUS
  <2>1. GovInv'
    BY GovInvStep
  <2>2. CASE EvidenceNext
    BY <2>1, <2>2, DerivedStep DEF EvidenceNext, GovInv
  <2>3. CASE UNCHANGED evidenceVars
    BY <2>1, <2>3, DerivedStutter
  <2>4. EvidenceNext \/ UNCHANGED evidenceVars
    BY DEF GovernanceNext, governanceVars
  <2>5. QED
    BY <2>1, <2>2, <2>3, <2>4
<1>3. QED
  BY <1>1, <1>2, GovInvInit, PTL DEF GovernanceSpec

\* What an edge says of a stored memory's subject is what the memory says, on
\* every store: writes are never rewritten under an edge, and no row takes over
\* the identity an edge cites, not even where an erased row comes back.
THEOREM EdgesSayTrue == GovernanceSpec => []EdgesTrue
<1>1. GovInv /\ DerivedInv => EdgesTrue
  <2>1. SUFFICES ASSUME GovInv, DerivedInv, NEW e \in edges, e.evidence \in Stored
                 PROVE  e \in extract_relations(store[e.evidence])
    BY DEF EdgesTrue
  <2>2. TypeOK /\ RowsInPlace
    BY <2>1 DEF GovInv, EvInv, TypeInv, DerivedInv, LedgerInv
  <2>3. PICK s \in Ever : e \in extract_relations(s)
    BY <2>1 DEF DerivedInv, EdgesJustified, Justified
  <2>4. s.id = e.evidence
    BY <2>2, <2>3, RowFacts, ExtractType
  <2>5. store[e.evidence] \in Ever /\ store[e.evidence].id = e.evidence
    BY <2>1, <2>2, RowFacts DEF Ever
  <2>6. Immutable(store[e.evidence]) = Immutable(s)
    BY <2>1, <2>4, <2>5 DEF DerivedInv, LedgerInv, OneIdentity
  <2>7. QED
    BY <2>3, <2>6, SameRelations
<1>2. QED
  BY <1>1, DerivedInvariant, PTL

\* An extraction that ends early leaves a prefix of its items, whatever other
\* calls store and erase meanwhile, with or without conflict resolution.  With
\* deduplication an item already known is ignored and never stored.
THEOREM PrefixLeft ==
    ASSUME ~DedupEnabled
    PROVE  GovernanceSpec => []ExtractionLeavesPrefix
<1>1. GovInv /\ DerivedInv => ExtractionLeavesPrefix
  <2>1. SUFFICES ASSUME GovInv, DerivedInv, NEW c \in Clients,
                        NEW k \in 1..(Len(batchIds[c]) - 1)
                 PROVE  batchIds[c][k] \in Known
    BY DEF ExtractionLeavesPrefix
  <2>2. Len(batchIds[c]) \in Nat
    BY <2>1 DEF GovInv, EvInv, EvidenceTypeOK
  <2>3. k \in 1..Len(batchIds[c]) /\ k # Len(batchIds[c])
    BY <2>1, <2>2
  <2>4. QED
    BY <2>1, <2>3 DEF DerivedInv, ItemsKept
<1>2. QED
  BY <1>1, DerivedInvariant, PTL

\* Governed reads implement DisclosureGate: with an authorizer attached, what a
\* principal is shown is in its scope and was put to the auditor before.
THEOREM GateHolds == GovernanceSpec => GateSpec
<1>1. GovernanceInit => Gate!Init
  BY DEF GovernanceInit, Gate!Init
<1>2. ASSUME GovInv, [GovernanceNext]_governanceVars
      PROVE  [Gate!Next]_<<gated, trail \cup lost, disclosed>>
  <2>1. CASE UNCHANGED <<gated, readVars>>
    BY <2>1 DEF readVars
  <2>2. ASSUME NEW p \in Principals, GovernedStep(p), UNCHANGED gated
        PROVE  [Gate!Next]_<<gated, trail \cup lost, disclosed>>
    <3>1. CASE Return(p)
      <4>1. disclosed' = disclosed \cup {<<p, r>> : r \in read[p].allowed}
            /\ UNCHANGED <<trail, lost>>
        BY <3>1 DEF Return
      <4>2. \A d \in disclosed' \ disclosed :
                /\ d[1] = p
                /\ gated => /\ Contains(ScopeOf[p], d[2].scope)
                            /\ Gate!Permission(p, d[2]) \in trail \cup lost
        BY <1>2, <4>1 DEF GovInv, Cleared
      <4>3. UNCHANGED <<gated, trail \cup lost>> /\ disclosed \subseteq disclosed'
        BY <2>2, <4>1
      <4>4. Gate!Disclose(p)
        BY <4>2, <4>3
           DEF Gate!Disclose, Gate!Contains, Contains, Gate!dim_matches, dim_matches
      <4>5. QED
        BY <4>4 DEF Gate!Next
    <3>2. CASE ~Return(p)
      <4>1. trail \cup lost \subseteq trail' \cup lost' /\ UNCHANGED disclosed
        BY <2>2, <3>2
           DEF GovernedStep, Govern, recall_for, recall_exact_for, Begins, Gather,
               Gathered, govern_read, Governed, ReportQuery, CancelRead, audit
      <4>2. Gate!Record
        BY <2>2, <4>1 DEF Gate!Record
      <4>3. QED
        BY <4>2 DEF Gate!Next
    <3>3. QED
      BY <3>1, <3>2
  <2>3. QED
    BY <1>2, <2>1, <2>2 DEF GovernanceNext, governanceVars
<1>3. QED
  BY <1>1, <1>2, GovInvInit, GovInvStep, PTL DEF GovernanceSpec, GateSpec, Gate!Spec
=============================================================================
