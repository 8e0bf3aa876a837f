------------------------------ MODULE Evidence ------------------------------
(***************************************************************************)
(* What the engine derives from memories and keeps beside them: the edges  *)
(* of the entity graph, each justified by one memory, and the memories an  *)
(* extractor pulls out of a conversation.  MemoryEngine only knows whether *)
(* some edge cites a memory; here the graph holds the edges themselves.    *)
(***************************************************************************)
EXTENDS MemoryEngine, Sequences

CONSTANTS
    Objects,        \* the entities statements are about
    RelationsOf,    \* the relations a statement names: pairs of type and object
    CuesOf,         \* the groups of patterns a statement contains
    OutOfBounds,    \* statements too short or too long to be kept
    Conversations,  \* conversations, as sequences of sentences
    DefaultScope    \* EngineConfig.default_scope

RelationType == {"USES", "RUNS_ON", "OWNED_BY", "DEPLOYED_TO", "HOSTED_IN"}

ASSUME EvidenceAssumption ==
    /\ Subjects \subseteq Objects
    /\ RelationsOf \in [Contents -> SUBSET (RelationType \X Objects)]
    /\ CuesOf \in [Contents -> SUBSET {"procedural", "prospective", "preference"}]
    /\ {40, 65, 70, 75} \subseteq Confidences
    /\ Conversations \subseteq Seq(Contents)
    /\ DefaultScope \in Scope

VARIABLES
    edges,      \* the edges of the graph
    relations,  \* the extracted edges each call has still to add
    talk,       \* the conversation of the last extraction of each client
    batch,      \* the positions in it of what has still to be remembered
    batchIds    \* history: the memories the last extraction of a client began

graphVars == <<edges, relations>>
batchVars == <<talk, batch, batchIds>>
evidenceVars == <<vars, graphVars, batchVars>>

Edge == [evidence : Ids, from : Subjects, relation_type : RelationType,
         to : Objects]

EvidenceTypeOK ==
    /\ TypeOK
    /\ edges \subseteq Edge
    /\ relations \in [Clients -> SUBSET Edge]
    /\ talk \in [Clients -> Conversations \cup {<<>>}]
    /\ batch \in [Clients -> SUBSET Nat]
    /\ \A c \in Clients : batch[c] \subseteq DOMAIN talk[c]
    /\ batchIds \in [Clients -> Seq(Ids)]

EvidenceInit ==
    /\ Init
    /\ edges = {}
    /\ relations = [c \in Clients |-> {}]
    /\ talk = [c \in Clients |-> <<>>]
    /\ batch = [c \in Clients |-> {}]
    /\ batchIds = [c \in Clients |-> <<>>]

-----------------------------------------------------------------------------
(* The graph *)

\* RuleBasedRelationExtractor::extract; Relation::new rejects self-relations.
extract_relations(r) ==
    IF r.subject = NoSubject THEN {}
    ELSE {[evidence |-> r.id, from |-> r.subject,
           relation_type |-> rel[1], to |-> rel[2]] :
             rel \in {x \in RelationsOf[r.content] : x[2] # r.subject}}

\* Seeded fault: the two ends in the wrong order.
add_relation_reversed(e) ==
    edges' = edges \cup {[e EXCEPT !.from = e.to, !.to = e.from]}

add_relation(e) == edges' = edges \cup {e}

\* Seeded fault: only the first edge found goes.
remove_first(i) ==
    IF i \in {e.evidence : e \in edges}
    THEN edges \ {CHOOSE e \in edges : e.evidence = i} ELSE edges

remove_evidence(i) == {e \in edges : e.evidence # i}

\* The edges are added one await after the other.
AddRelation(c) ==
    /\ \E e \in relations[c] :
          /\ add_relation(e)
          /\ relations' = [relations EXCEPT ![c] = @ \ {e}]
    /\ IndexGraph(c) /\ op'[c] = op[c]
    /\ UNCHANGED batchVars

RelationsAdded(c) ==
    /\ relations[c] = {}
    /\ IndexGraph(c) /\ op'[c] = Idle
    /\ UNCHANGED <<graphVars, batchVars>>

RemovesEdges(c) == op[c].pc \in {"forgetEdges", "purgeEdges", "cdEdges"}

\* The other steps of a call.
Proceed(c) ==
    /\ ~At(c, "graph")
    /\ Continue(c)
    /\ edges' = IF RemovesEdges(c) THEN remove_evidence(op[c].id) ELSE edges
    /\ relations' =
          IF At(c, "index")
          THEN [relations EXCEPT ![c] = extract_relations(op[c].rec)]
          ELSE relations
    /\ UNCHANGED batchVars

\* Seeded fault: the next item is remembered in spite of the failure.
AbortSkips(c) ==
    /\ Abort(c)
    /\ relations' = [relations EXCEPT ![c] = {}]
    /\ UNCHANGED <<edges, batchVars>>

\* A call that fails inside an extraction ends the extraction.
AbortStep(c) ==
    /\ Abort(c)
    /\ relations' = [relations EXCEPT ![c] = {}]
    /\ batch' = [batch EXCEPT ![c] = {}]
    /\ UNCHANGED <<edges, talk, batchIds>>

-----------------------------------------------------------------------------
(* Classified and extracted writes *)

\* Seeded fault: the certainty of a hinted type without a hint.
classify_text_certain(text) ==
    [memory_type |-> "Semantic", subtype |-> "preference", confidence |-> 100]

\* classify_text without a hint, which the engine never gives.
classify_text(text) ==
    CASE "procedural" \in CuesOf[text] ->
            [memory_type |-> "Procedural", subtype |-> "how-to", confidence |-> 70]
      [] "prospective" \in CuesOf[text] /\ "procedural" \notin CuesOf[text] ->
            [memory_type |-> "Prospective", subtype |-> "commitment", confidence |-> 65]
      [] CuesOf[text] = {"preference"} ->
            [memory_type |-> "Semantic", subtype |-> "preference", confidence |-> 75]
      [] OTHER ->
            [memory_type |-> "Semantic", subtype |-> "none", confidence |-> 40]

\* RuleBasedExtractor::extract drops plain talk.
IsDurable(text) ==
    \/ classify_text(text).memory_type # "Semantic"
    \/ classify_text(text).subtype # "none"

extract(conversation) ==
    {k \in DOMAIN conversation : /\ conversation[k] \notin OutOfBounds
                                 /\ IsDurable(conversation[k])}

\* RememberRequest::new(..).with_confidence(..).
Classified(text) ==
    [scope      |-> DefaultScope,
     subject    |-> NoSubject,
     content    |-> text,
     confidence |-> classify_text(text).confidence,
     source     |-> "Agent",
     retention  |-> [class |-> "Standard", expires_at |-> NoDeadline]]

Free(c) == At(c, "idle") /\ batch[c] = {}

\* The calls that extractions under way will still make.
Owed == Cardinality(UNION {{c} \X batch[c] : c \in Clients})

remember_auto(c, text) ==
    /\ Free(c) /\ calls + Owed < MaxCalls
    /\ Remember(c, Classified(text))
    /\ UNCHANGED <<graphVars, batchVars>>

extract_and_remember(c, conversation) ==
    /\ Free(c)
    /\ extract(conversation) # {}
    /\ calls + Owed + Cardinality(extract(conversation)) <= MaxCalls
    /\ talk' = [talk EXCEPT ![c] = conversation]
    /\ batch' = [batch EXCEPT ![c] = extract(conversation)]
    /\ batchIds' = [batchIds EXCEPT ![c] = <<>>]
    /\ UNCHANGED <<vars, graphVars>>

\* The items are remembered in order.
RememberItem(c) ==
    /\ At(c, "idle")
    /\ \E k \in batch[c] :
          /\ \A j \in batch[c] : k <= j
          /\ Remember(c, Classified(talk[c][k]))
          /\ batch' = [batch EXCEPT ![c] = @ \ {k}]
    /\ batchIds' = [batchIds EXCEPT ![c] = Append(@, nextId)]
    /\ UNCHANGED <<talk, graphVars>>

\* Every other call.
StartCall(c) ==
    /\ Free(c) /\ calls + Owed < MaxCalls
    /\ Start(c)
    /\ UNCHANGED <<graphVars, batchVars>>

-----------------------------------------------------------------------------

Derive(c) ==
    \/ StartCall(c)
    \/ \E text \in Contents : remember_auto(c, text)
    \/ \E conversation \in Conversations : extract_and_remember(c, conversation)
    \/ RememberItem(c)
    \/ AddRelation(c) \/ RelationsAdded(c) \/ Proceed(c) \/ AbortStep(c)

EvidenceNext == \E c \in Clients : Derive(c)

-----------------------------------------------------------------------------
(* Properties *)

\* The graph keeps step with the engine: the memories its edges cite are those
\* the engine takes for cited, whatever calls end between two edges.
GraphMirrored == evidence = {e.evidence : e \in edges}

\* While a memory is stored, be it as a tombstone, the edges it justifies say of
\* its subject what it says.
EdgesTrue ==
    \A e \in edges : e.evidence \in Stored
        => e \in extract_relations(store[e.evidence])

\* An extraction that fails leaves a prefix of what it found: every item before
\* the last one that was begun is stored or has been erased since.
ExtractionLeavesPrefix ==
    \A c \in Clients : \A k \in 1..(Len(batchIds[c]) - 1) : batchIds[c][k] \in Known
=============================================================================
