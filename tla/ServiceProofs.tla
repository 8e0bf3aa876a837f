---------------------------- MODULE ServiceProofs ----------------------------
(***************************************************************************)
(* Theorems of Service: for any number of clients, any surface, any set of *)
(* requests and any number of crashes, broken connections and closed       *)
(* handles, what a client was told stays true, and no answer shows a       *)
(* record outside the scope the surface sent on.                           *)
(*                                                                         *)
(* Between two crashes the engine's steps are of the kinds of              *)
(* MemoryEngineProofs.  The invariant adds to its ledger where the engine  *)
(* call of each client stands, and that a row that was retired or          *)
(* forgotten can only come back in a state in which it is no current fact. *)
(***************************************************************************)
EXTENDS Service, MemoryEngineProofs, FiniteSetTheorems

-----------------------------------------------------------------------------
(* The invariant *)

\* The points at which the engine call of each operation may stand.
Route(operation) ==
    CASE operation = "create" -> {"put", "index", "graph"}
      [] operation = "patch"  -> {"succPut", "succIndex", "predUnindex", "retire"}
      [] operation = "delete" -> {"tombstone", "forgetUnindex", "forgetEdges"}
      [] operation = "purge"  -> {"purgeUnindex", "purgeEdges"}

\* An identity that was given out, and that no call has yet to store.
Taken(i) ==
    /\ i \in Nat /\ i < nextId
    /\ \A q \in Procs : Pending(op[q]) => op[q].rec.id # i

\* No current fact this scope can see, and never again one.
Gone(i, scope) ==
    /\ Taken(i)
    /\ i \in Stored => store[i].status # "Active" \/ ~Contains(scope, store[i].scope)

Asked(c) == scope_from(surface, wire[c].req)

\* What an engine call holds of the request it serves.
Holds(c) ==
    LET r == wire[c].req
        call == op[c]
    IN  /\ r.op \in Writing /\ call.pc \in Route(r.op)
        /\ r.op \in {"create", "patch"} =>
               call.rec \in MemoryRecord /\ Contains(Asked(c), call.rec.scope)
        /\ call.pc \in {"index", "graph", "succIndex", "predUnindex", "retire"} =>
               call.rec.id \in Known
        /\ r.op \in {"patch", "delete"} => Taken(r.id)
        /\ call.pc \in {"succPut", "succIndex", "predUnindex", "retire", "tombstone"} =>
               call.old.id = r.id
        /\ call.pc \in {"forgetUnindex", "forgetEdges"} => Gone(r.id, GlobalScope)

EnRoute(c) == IF In(c, "handling") THEN Holds(c) ELSE op[c] = Idle

\* Only calls that write nothing read the store record by record.
Reads(c) ==
    wire[c].stage \in {"walking", "recalling"} => wire[c].req.op \notin Writing

\* An answer on its way to the client is already true.
Replied(c) ==
    LET r == wire[c].req
    IN  In(c, "answered") /\ r.op \in Writing /\ wire[c].reply.kind = "ok" =>
            /\ \A s \in wire[c].reply.rows : s.id \in Known
            /\ r.op \in {"patch", "delete"} => Gone(r.id, Asked(c))

ShowsInScope(c) == \A s \in wire[c].reply.rows : Contains(Asked(c), s.scope)

ClientOK(c) == EnRoute(c) /\ Reads(c) /\ Replied(c) /\ ShowsInScope(c)

SurroundingsOK ==
    /\ surface \in Surfaces
    /\ host \in {"up", "down", "closed"}
    /\ wire \in [Clients -> Wire]
    /\ told \subseteq Promise
    /\ sends \in 0..MaxSends
    /\ breaks \in 0..MaxBreaks

ToldOK ==
    \A p \in told : IF p[1] = "stored" THEN Backend = "local" => p[2] \in Known
                                       ELSE Gone(p[2], GlobalScope)

ServiceInv ==
    /\ TypeInv /\ LedgerInv /\ SurroundingsOK /\ ToldOK
    /\ \A c \in Clients : ClientOK(c)

-----------------------------------------------------------------------------
(* What stays as it is through a step of the engine *)

\* The identities in use are those of the rows that are or were stored.
LEMMA KnownIds == TypeOK /\ RowsInPlace => Known = {s.id : s \in Ever}
BY RowFacts DEF Known, Ever, ErasedIds

LEMMA KnownKept ==
    ASSUME TypeOK, RowsInPlace, TypeOK', RowsInPlace', EverKept
    PROVE  Known \subseteq Known'
<1>1. (TypeOK /\ RowsInPlace => Known = {s.id : s \in Ever})'
  BY RowFacts, KnownIds, PTL
<1>2. \A s \in Ever : \E t \in Ever' : t.id = s.id
  BY ImmutableFixes DEF EverKept
<1>3. QED
  BY <1>1, <1>2, KnownIds

\* No call is about to store a row under an identity in use.
LEMMA KnownTaken ==
    ASSUME TypeInv, LedgerInv
    PROVE  \A i \in Known : Taken(i)
<1>1. \A i \in Known : \E s \in Ever : s.id = i
  BY KnownIds DEF TypeInv, LedgerInv
<1>2. QED
  BY <1>1, RowFacts
     DEF TypeInv, LedgerInv, LinksGoBack, PendingFresh, Taken, MemoryRecord, Ids

\* What is gone stays gone: a new row has a new identity, and a write-back of an
\* old copy never makes a current fact of it.
LEMMA GoneStays ==
    ASSUME TypeInv, LedgerInv, OfSomeKind
    PROVE  /\ \A i : Taken(i) => Taken(i)'
           /\ \A i, scope : Gone(i, scope) => Gone(i, scope)'
<1>1. CASE Quietly
  BY <1>1 DEF Quietly, Taken, Gone, PendingKept, Stored
<1>2. ASSUME NEW p \in Procs, Mints(p)
      PROVE  /\ \A i : Taken(i) => Taken(i)'
             /\ \A i, scope : Gone(i, scope) => Gone(i, scope)'
  <2>1. nextId \in Nat /\ nextId' = nextId + 1 /\ Stored' = Stored /\ store' = store
    BY <1>2 DEF Mints, Ids, Stored
  <2>2. ASSUME NEW i, Taken(i) PROVE Taken(i)'
    <3>1. i \in Nat /\ i < nextId /\ i < nextId'
      BY <2>1, <2>2, SMT DEF Taken
    <3>2. QED
      BY <1>2, <2>1, <2>2, <3>1 DEF Mints, Taken, PendingKept
  <2>3. QED
    BY <2>1, <2>2 DEF Gone
<1>3. ASSUME NEW p \in Procs, Puts(p)
      PROVE  /\ \A i : Taken(i) => Taken(i)'
             /\ \A i, scope : Gone(i, scope) => Gone(i, scope)'
  <2>1. \A i : Taken(i) => Taken(i)' /\ op[p].rec.id # i
    BY <1>3 DEF Puts, Taken, PendingKept
  <2>2. \A i \in Ids : op[p].rec.id # i => store'[i] = store[i]
    BY <1>3 DEF Puts, StorePut, TypeInv, TypeOK
  <2>3. QED
    BY <2>1, <2>2 DEF Gone, Stored
<1>4. ASSUME NEW p \in Procs, NEW r \in MemoryRecord, WritesBack(p, r)
      PROVE  /\ \A i : Taken(i) => Taken(i)'
             /\ \A i, scope : Gone(i, scope) => Gone(i, scope)'
  <2>1. \A i : Taken(i) => Taken(i)'
    BY <1>4 DEF WritesBack, Taken, PendingKept
  <2>2. \A i \in Ids : store'[i] = (IF i = r.id THEN r ELSE store[i])
    BY <1>4 DEF WritesBack, TypeInv, TypeOK
  <2>3. r.status # "Active"
    BY <1>4 DEF WritesBack
  <2>4. QED
    BY <2>1, <2>2, <2>3 DEF Gone, Stored
<1>5. ASSUME NEW j \in Ids, Deletes(j)
      PROVE  /\ \A i : Taken(i) => Taken(i)'
             /\ \A i, scope : Gone(i, scope) => Gone(i, scope)'
  <2>1. \A i : Taken(i) => Taken(i)'
    BY <1>5 DEF Deletes, Taken, PendingKept
  <2>2. \A i \in Ids : store'[i] = (IF i = j THEN NoRecord ELSE store[i])
    BY <1>5 DEF Deletes, TypeInv, TypeOK
  <2>3. QED
    BY <2>1, <2>2 DEF Gone, Stored
<1>6. QED
  BY <1>1, <1>2, <1>3, <1>4, <1>5 DEF OfSomeKind

-----------------------------------------------------------------------------
(* A step of one client *)

\* Whatever client c does, and an engine step on its behalf, changes its own
\* call and its own wire only.
OfClient(c) ==
    /\ OfSomeKind \/ UNCHANGED vars
    /\ \A q \in Procs \ {c} : op'[q] = op[q]
    /\ \A d \in Clients \ {c} : wire'[d] = wire[d]
    /\ surface' = surface

LEMMA UnchangedKind == TypeInv /\ LedgerInv /\ UNCHANGED vars => OfSomeKind
BY StepKind

\* What such a step leaves true.
LEMMA OthersKept ==
    ASSUME ServiceInv, TypeInv', NEW c \in Clients, OfClient(c)
    PROVE  /\ LedgerInv' /\ Known \subseteq Known'
           /\ \A i : Taken(i) => Taken(i)'
           /\ \A i, scope : Gone(i, scope) => Gone(i, scope)'
           /\ \A d \in Clients \ {c} : ClientOK(d)'
           /\ told' = told => ToldOK'
<1>1. OfSomeKind
  BY UnchangedKind DEF ServiceInv, OfClient
<1>2. LedgerInv' /\ EverKept
  BY <1>1, KindStep DEF ServiceInv
<1>3. Known \subseteq Known'
  BY <1>2, KnownKept DEF ServiceInv, TypeInv, LedgerInv
<1>4. /\ \A i : Taken(i) => Taken(i)'
      /\ \A i, scope : Gone(i, scope) => Gone(i, scope)'
  BY <1>1, GoneStays DEF ServiceInv
<1>5. ASSUME NEW d \in Clients \ {c} PROVE ClientOK(d)'
  <2>1. wire'[d] = wire[d] /\ op'[d] = op[d] /\ surface' = surface /\ ClientOK(d)
    BY DEF OfClient, Procs, ServiceInv
  <2>2. Asked(d)' = Asked(d)
    BY <2>1 DEF Asked
  <2>3. EnRoute(d)'
    BY <1>3, <1>4, <2>1, <2>2 DEF ClientOK, EnRoute, In, Holds
  <2>4. Replied(d)'
    BY <1>3, <1>4, <2>1, <2>2 DEF ClientOK, Replied, In
  <2>5. ShowsInScope(d)'
    BY <2>1, <2>2 DEF ClientOK, ShowsInScope
  <2>6. Reads(d)'
    BY <2>1 DEF ClientOK, Reads
  <2>7. QED
    BY <2>3, <2>4, <2>5, <2>6 DEF ClientOK
<1>6. ASSUME told' = told PROVE ToldOK'
  BY <1>3, <1>4, <1>6 DEF ServiceInv, ToldOK
<1>7. QED
  BY <1>2, <1>3, <1>4, <1>5, <1>6

\* It is enough to look at the client that took the step.
LEMMA StepKept ==
    ASSUME ServiceInv, TypeInv', NEW c \in Clients, OfClient(c), ClientOK(c)',
           wire' \in [Clients -> Wire], told' = told,
           host' \in {"up", "down", "closed"}, sends' \in 0..MaxSends,
           breaks' \in 0..MaxBreaks
    PROVE  ServiceInv'
<1>1. LedgerInv' /\ ToldOK' /\ \A d \in Clients \ {c} : ClientOK(d)'
  BY OthersKept
<1>2. SurroundingsOK'
  BY DEF ServiceInv, SurroundingsOK, OfClient
<1>3. QED
  BY <1>1, <1>2 DEF ServiceInv

-----------------------------------------------------------------------------
(* Requests, replies and the wire *)

LEMMA ScopeFromType ==
    ASSUME NEW s, NEW r \in Request
    PROVE  scope_from(s, r) \in Scope
BY DEF scope_from, Scope, Request

LEMMA SentMatches ==
    ASSUME NEW s, NEW r, NEW x, Contains(scope_from(s, r), x)
    PROVE  \A d \in Dims \cap Sent(s, r.op) : dim_matches(r.scope[d], x[d])
BY DEF Contains, scope_from

LEMMA NewMemoryType ==
    ASSUME NEW s, NEW r \in Request, r.text \in Contents
    PROVE  NewMemory(s, r) \in RememberRequest
BY ScopeFromType, ServiceAssumption
   DEF NewMemory, RememberRequest, SourceKind, Retention, RetentionClass

LEMMA NoRequestType == NoRequest \in Request
BY GlobalScopeType DEF NoRequest, Request, Operation

LEMMA NoCallType == NoCall \in Wire
BY NoRequestType DEF NoCall, Wire, Stage, NoReply, Reply, ReplyKind

LEMMA UnderType ==
    ASSUME NEW r \in Request, NEW stage \in Stage
    PROVE  /\ Under(r, stage) \in Wire
           /\ Under(r, stage).stage = stage /\ Under(r, stage).req = r
           /\ Under(r, stage).reply = NoReply /\ NoReply.rows = {}
<1>1. /\ NoCall \in Wire /\ NoCall.reply = NoReply
      /\ Under(r, stage) = [NoCall EXCEPT !.stage = stage, !.req = r]
  BY NoCallType DEF NoCall, Under
<1>2. NoReply.rows = {}
  BY DEF NoReply
<1>3. QED
  BY <1>1, <1>2 DEF Wire

LEMMA AdvanceFacts ==
    ASSUME SurroundingsOK, NEW c \in Clients, NEW call \in Wire, Advance(c, call)
    PROVE  /\ wire' \in [Clients -> Wire] /\ wire'[c] = call
           /\ \A d \in Clients \ {c} : wire'[d] = wire[d]
BY DEF Advance, SurroundingsOK

\* What an answer leaves on the wire.
LEMMA AnswerFacts ==
    ASSUME SurroundingsOK, NEW c \in Clients, NEW r \in Request,
           NEW kind \in ReplyKind, NEW rows \in SUBSET MemoryRecord,
           Answer(c, r, kind, rows)
    PROVE  /\ wire' \in [Clients -> Wire]
           /\ \A d \in Clients \ {c} : wire'[d] = wire[d]
           /\ wire'[c].stage = "answered"
           /\ wire'[c].req = IF kind = "ok" THEN r ELSE NoRequest
           /\ wire'[c].reply.kind = kind /\ wire'[c].reply.rows = rows
<1> DEFINE req == IF kind = "ok" THEN r ELSE NoRequest
           reply == [kind |-> kind, rows |-> rows]
           call == [Under(req, "answered") EXCEPT !.reply = reply]
<1>1. req \in Request /\ reply \in Reply
  BY NoRequestType DEF Reply
<1>2. /\ Under(req, "answered") \in Wire /\ Under(req, "answered").req = req
      /\ Under(req, "answered").stage = "answered"
  BY <1>1, UnderType DEF Stage
<1>3. Advance(c, call)
  BY DEF Answer
<1> HIDE DEF req, reply
<1>4. /\ call \in Wire /\ call.stage = "answered" /\ call.req = req
      /\ call.reply = reply
  BY <1>1, <1>2 DEF Wire
<1>5. /\ wire' \in [Clients -> Wire] /\ wire'[c] = call
      /\ \A d \in Clients \ {c} : wire'[d] = wire[d]
  <2>. HIDE DEF call
  <2>. QED
    BY <1>3, <1>4, AdvanceFacts
<1>6. QED
  BY <1>4, <1>5 DEF req, reply

\* An answer preserves the invariant when it is true and in scope.
LEMMA AnswerKept ==
    ASSUME ServiceInv, TypeInv', NEW c \in Clients, NEW r \in Request,
           NEW kind \in ReplyKind, NEW rows \in SUBSET MemoryRecord,
           Answer(c, r, kind, rows), kind # "ok" => rows = {},
           OfSomeKind \/ UNCHANGED vars, \A q \in Procs \ {c} : op'[q] = op[q],
           op'[c] = Idle, surface' = surface, told' = told,
           host' \in {"up", "down", "closed"}, sends' \in 0..MaxSends,
           breaks' \in 0..MaxBreaks,
           \A s \in rows : Contains(scope_from(surface, r), s.scope),
           kind = "ok" /\ r.op \in Writing => \A s \in rows : s.id \in Known',
           kind = "ok" /\ r.op \in {"patch", "delete"}
               => Gone(r.id, scope_from(surface, r))'
    PROVE  ServiceInv'
<1>1. /\ wire' \in [Clients -> Wire]
      /\ \A d \in Clients \ {c} : wire'[d] = wire[d]
      /\ wire'[c].stage = "answered"
      /\ wire'[c].req = IF kind = "ok" THEN r ELSE NoRequest
      /\ wire'[c].reply.kind = kind /\ wire'[c].reply.rows = rows
  BY AnswerFacts DEF ServiceInv
<1>2. OfClient(c)
  BY <1>1 DEF OfClient
<1>3. EnRoute(c)'
  BY <1>1 DEF EnRoute, In
<1>4. kind = "ok" => Asked(c)' = scope_from(surface, r)
  BY <1>1 DEF Asked
<1>5. Replied(c)'
  BY <1>1, <1>4 DEF Replied
<1>6. ShowsInScope(c)'
  BY <1>1, <1>4 DEF ShowsInScope
<1>7. QED
  BY <1>1, <1>2, <1>3, <1>5, <1>6, StepKept DEF ClientOK, Reads

-----------------------------------------------------------------------------
(* A client calls *)

LEMMA UnchangedType == TypeInv /\ UNCHANGED vars => TypeInv'
BY TypeInvStep

LEMMA MapErrorType ==
    ASSUME NEW s, NEW error \in {"Validation", "NotFound", "Storage"}
    PROVE  map_error(s, error) \in ReplyKind \ {"ok"}
BY DEF map_error, ReplyKind

\* The caller is in no call of the engine.
LEMMA SendsFacts ==
    ASSUME ServiceInv, NEW c \in Clients, NEW r, Sends(c, r)
    PROVE  /\ op[c] = Idle /\ surface' = surface /\ told' = told
           /\ host' = host /\ host' \in {"up", "down", "closed"}
           /\ sends' \in 0..MaxSends /\ breaks' \in 0..MaxBreaks
<1>1. op[c] = Idle
  BY DEF Sends, In, ServiceInv, ClientOK, EnRoute
<1>2. sends' \in 0..MaxSends
  BY ServiceAssumption DEF Sends, ServiceInv, SurroundingsOK
<1>3. QED
  BY <1>1, <1>2 DEF Sends, ServiceInv, SurroundingsOK

\* Calls that are answered at once, from what is there.
LEMMA AnswerAtOnce ==
    ASSUME ServiceInv, NEW c \in Clients, NEW r \in Request, Sends(c, r),
           NEW kind \in ReplyKind, NEW rows \in SUBSET Rows,
           Answer(c, r, kind, rows), kind # "ok" => rows = {}, UNCHANGED vars,
           \A s \in rows : Contains(scope_from(surface, r), s.scope),
           kind = "ok" => r.op \notin Writing
    PROVE  ServiceInv'
<1>1. /\ op[c] = Idle /\ surface' = surface /\ told' = told
      /\ host' \in {"up", "down", "closed"}
      /\ sends' \in 0..MaxSends /\ breaks' \in 0..MaxBreaks
  BY SendsFacts
<1>2. TypeInv'
  BY UnchangedType DEF ServiceInv
<1>3. rows \in SUBSET MemoryRecord
  BY RowFacts DEF ServiceInv, TypeInv, LedgerInv
<1>4. op' = op
  BY DEF vars
<1>5. QED
  BY <1>1, <1>2, <1>3, <1>4, AnswerKept DEF Writing

\* Calls that only read.
LEMMA ReadKept ==
    ASSUME ServiceInv, NEW c \in Clients, NEW r \in Request,
           Refuse(c, r) \/ get_memory(c, r) \/ get_provenance(c, r) \/ search(c, r)
    PROVE  ServiceInv'
<1>1. Sends(c, r) /\ UNCHANGED vars
  BY DEF Refuse, get_memory, get_provenance, search, Accepts, AnswerFound
<1>2. CASE Refuse(c, r)
  <2>1. PICK kind \in ReplyKind \ {"ok"} : Answer(c, r, kind, {})
    BY <1>2, MapErrorType DEF Refuse, ReplyKind
  <2>2. QED
    BY <1>1, <2>1, AnswerAtOnce
<1>3. ASSUME NEW found \in SUBSET Rows, AnswerFound(c, r, found), r.op \notin Writing,
             \A s \in found : Contains(scope_from(surface, r), s.scope)
      PROVE  ServiceInv'
  BY <1>1, <1>3, AnswerAtOnce DEF AnswerFound, ReplyKind
<1>4. CASE get_memory(c, r)
  <2> DEFINE found == {s \in Found(r) : s.status # "Deleted"}
  <2>1. /\ found \in SUBSET Rows /\ AnswerFound(c, r, found) /\ r.op \notin Writing
        /\ \A s \in found : Contains(scope_from(surface, r), s.scope)
    BY <1>4 DEF get_memory, Accepts, Found, Writing
  <2>2. QED
    BY <1>3, <2>1
<1>5. CASE get_provenance(c, r)
  <2>1. /\ Found(r) \in SUBSET Rows /\ AnswerFound(c, r, Found(r)) /\ r.op \notin Writing
        /\ \A s \in Found(r) : Contains(scope_from(surface, r), s.scope)
    BY <1>5 DEF get_provenance, Accepts, Found, Writing
  <2>2. QED
    BY <1>3, <2>1
<1>6. CASE search(c, r)
  <2> DEFINE found == Newest(Matching(r), Limit(r))
  <2>1. /\ found \in SUBSET Rows /\ r.op \notin Writing
        /\ \A s \in found : Contains(scope_from(surface, r), s.scope)
    BY <1>6 DEF search, Accepts, Newest, Matching, matches_query, Writing
  <2>2. Answer(c, r, "ok", found)
    BY <1>6 DEF search
  <2>3. QED
    <3>. HIDE DEF found
    <3>. QED
      BY <1>1, <2>1, <2>2, AnswerAtOnce DEF ReplyKind
<1>7. QED
  BY <1>2, <1>4, <1>5, <1>6

\* Calls that go on to read the store, record by record.
LEMMA ReadingStarts ==
    ASSUME ServiceInv, NEW c \in Clients, NEW r \in Request,
           get_history(c, r) \/ recall(c, r)
    PROVE  ServiceInv'
<1>1. Sends(c, r) /\ UNCHANGED vars
  BY DEF get_history, recall, Accepts
<1>2. /\ op[c] = Idle /\ surface' = surface /\ told' = told
      /\ host' \in {"up", "down", "closed"}
      /\ sends' \in 0..MaxSends /\ breaks' \in 0..MaxBreaks
  BY <1>1, SendsFacts
<1>3. PICK call \in Wire :
          /\ Advance(c, call) /\ call.reply.rows = {} /\ call.req.op \notin Writing
          /\ call.stage \in {"walking", "recalling"}
  <2>0. r.op \notin Writing
    BY DEF get_history, recall, Accepts, Writing
  <2>1. /\ Under(r, "walking") \in Wire /\ Under(r, "recalling") \in Wire
        /\ Under(r, "walking").stage = "walking"
        /\ Under(r, "recalling").stage = "recalling"
        /\ Under(r, "walking").req = r /\ Under(r, "recalling").req = r
        /\ Under(r, "walking").reply.rows = {} /\ Under(r, "recalling").reply.rows = {}
    BY UnderType DEF Stage
  <2>2. CASE recall(c, r)
    BY <2>0, <2>1, <2>2 DEF recall
  <2>3. CASE get_history(c, r)
    <3> DEFINE call == [Under(r, "walking") EXCEPT !.next = r.id]
    <3>1. r.id \in Nat
      BY DEF Request, Ids
    <3>2. /\ call \in Wire /\ call.stage = "walking" /\ call.reply.rows = {}
          /\ call.req = r
      BY <2>1, <3>1 DEF Wire
    <3>3. Advance(c, call)
      BY <2>3 DEF get_history
    <3>4. QED
      BY <2>0, <3>2, <3>3
  <2>4. QED
    BY <2>2, <2>3
<1>4. /\ wire' \in [Clients -> Wire] /\ wire'[c] = call
      /\ \A d \in Clients \ {c} : wire'[d] = wire[d]
  BY <1>3, AdvanceFacts DEF ServiceInv
<1>5. TypeInv' /\ op' = op
  BY <1>1, UnchangedType DEF ServiceInv, vars
<1>6. OfClient(c)
  BY <1>1, <1>2, <1>4, <1>5 DEF OfClient
<1>7. ClientOK(c)'
  BY <1>2, <1>3, <1>4, <1>5 DEF ClientOK, EnRoute, Reads, Replied, ShowsInScope, In
<1>8. QED
  BY <1>2, <1>4, <1>5, <1>6, <1>7, StepKept

\* Calls the engine takes over.
LEMMA CallStarts ==
    ASSUME ServiceInv, TypeInv', OfSomeKind, NEW c \in Clients, NEW r \in Request,
           Sends(c, r), Advance(c, Under(r, "handling")),
           \A q \in Procs \ {c} : op'[q] = op[q],
           r.op \in Writing, op'[c].pc \in Route(r.op),
           op'[c].pc \in {"put", "succPut", "tombstone", "purgeUnindex"},
           r.op \in {"create", "patch"} =>
               /\ op'[c].rec \in MemoryRecord
               /\ Contains(scope_from(surface, r), op'[c].rec.scope),
           r.op \in {"patch", "delete"} => Taken(r.id) /\ op'[c].old.id = r.id
    PROVE  ServiceInv'
<1>1. /\ op[c] = Idle /\ surface' = surface /\ told' = told
      /\ host' \in {"up", "down", "closed"}
      /\ sends' \in 0..MaxSends /\ breaks' \in 0..MaxBreaks
  BY SendsFacts
<1>2. /\ Under(r, "handling") \in Wire
      /\ Under(r, "handling").stage = "handling" /\ Under(r, "handling").req = r
      /\ Under(r, "handling").reply.rows = {}
  BY UnderType DEF Stage
<1>3. /\ wire' \in [Clients -> Wire] /\ wire'[c] = Under(r, "handling")
      /\ \A d \in Clients \ {c} : wire'[d] = wire[d]
  BY <1>2, AdvanceFacts DEF ServiceInv
<1>4. OfClient(c)
  BY <1>1, <1>3 DEF OfClient
<1>5. Asked(c)' = scope_from(surface, r)
  BY <1>1, <1>2, <1>3 DEF Asked
<1>6. r.op \in {"patch", "delete"} => Taken(r.id)'
  BY GoneStays DEF ServiceInv
<1>7. Holds(c)'
  BY <1>2, <1>3, <1>5, <1>6 DEF Holds, Route, Writing
<1>8. ClientOK(c)'
  BY <1>2, <1>3, <1>7 DEF ClientOK, EnRoute, Reads, Replied, ShowsInScope, In
<1>9. QED
  BY <1>1, <1>3, <1>4, <1>8, StepKept

LEMMA OthersIdle ==
    ASSUME TypeInv, NEW c \in Procs, NEW operation, NEW call,
           Enter(c, operation, call)
    PROVE  op'[c] = call /\ \A q \in Procs \ {c} : op'[q] = op[q]
BY DEF Enter, Become, TypeInv, CallsOK

LEMMA CreateKept ==
    ASSUME ServiceInv, NEW c \in Clients, NEW r \in Request, create_memory(c, r)
    PROVE  ServiceInv'
<1> DEFINE req == NewMemory(surface, r)
           rec == into_record(nextId, req)
           call == NewRecordCall("put", req)
<1>1. /\ r.op = "create" /\ Sends(c, r) /\ Remember(c, req)
      /\ Advance(c, Under(r, "handling"))
      /\ r.text \in Contents
  BY DEF create_memory, Accepts, EngineRefuses, RefusesContent, Request
<1>2. req \in RememberRequest /\ nextId \in Ids /\ c \in Procs
  BY <1>1, NewMemoryType DEF Remember, Procs
<1>3. TypeInv' /\ OfSomeKind
  BY <1>1, <1>2, RememberType, RememberKind DEF ServiceInv
<1>4. Enter(c, "remember", call)
  BY <1>1, ServiceAssumption DEF Remember, AfterDedup
<1>5. rec \in MemoryRecord /\ rec.scope = scope_from(surface, r)
  <2>1. rec.scope = req.scope
    BY DEF into_record
  <2>2. QED
    BY <1>2, <2>1, IntoRecordType DEF NewMemory
<1>6. call.pc = "put" /\ call.rec = rec
  BY DEF NewRecordCall, Idle
<1>7. op'[c] = call /\ \A q \in Procs \ {c} : op'[q] = op[q]
  <2>. HIDE DEF call
  <2>. QED
    BY <1>2, <1>4, OthersIdle DEF ServiceInv
<1>8. Contains(scope_from(surface, r), rec.scope)
  BY <1>5 DEF Contains, dim_matches
<1>9. op'[c].pc = "put" /\ op'[c].rec = rec
  BY <1>6, <1>7
<1>10. QED
  <2>. HIDE DEF rec, call, req
  <2>. QED
    BY <1>1, <1>3, <1>5, <1>7, <1>8, <1>9, CallStarts DEF Route, Writing

LEMMA PatchKept ==
    ASSUME ServiceInv, NEW c \in Clients, NEW r \in Request, patch_memory(c, r)
    PROVE  ServiceInv'
<1> DEFINE scope == scope_from(surface, r)
<1>1. r.op = "patch" /\ Sends(c, r) /\ r.text \in Contents /\ c \in Procs
  BY DEF patch_memory, Accepts, EngineRefuses, RefusesContent, Request, Procs
<1>2. CASE ~Visible(r.id, scope)
  <2>1. Answer(c, r, map_error(surface, "NotFound"), {}) /\ UNCHANGED vars
    BY <1>2 DEF patch_memory
  <2>2. map_error(surface, "NotFound") \in ReplyKind \ {"ok"}
    BY MapErrorType
  <2>3. QED
    BY <1>1, <2>1, <2>2, AnswerAtOnce
<1>3. CASE Visible(r.id, scope)
  <2> DEFINE old == store[r.id]
             derived == derive_successor(nextId, old, r.text)
             rec == [derived EXCEPT !.confidence = old.confidence]
             call == [Idle EXCEPT !.pc = "succPut", !.scope = scope,
                                  !.old = old, !.rec = rec]
  <2>1. /\ Update(c, r.id, scope, r.text, old.confidence)
        /\ Advance(c, Under(r, "handling"))
    BY <1>3 DEF patch_memory
  <2>2. /\ r.id \in Stored /\ r.id \in Ids /\ old \in MemoryRecord /\ old.id = r.id
        /\ Contains(scope, old.scope) /\ nextId \in Ids
    BY <1>3, <2>1, RowFacts DEF Visible, ServiceInv, TypeInv, LedgerInv, Update
  <2>3. old.confidence \in Confidences /\ scope \in Scope
    BY <2>2, ScopeFromType DEF MemoryRecord
  <2>4. TypeInv' /\ OfSomeKind
    BY <1>1, <2>1, <2>3, UpdateType, UpdateKind DEF ServiceInv
  <2>5. Enter(c, "update", call)
    BY <1>3, <2>1 DEF Update
  <2>6. derived \in MemoryRecord /\ derived.scope = old.scope
    <3>1. derived.scope = old.scope
      BY DEF derive_successor, into_record
    <3>2. QED
      BY <1>1, <2>2, <3>1, DeriveType
  <2>7. rec \in MemoryRecord /\ rec.scope = old.scope
    <3>. HIDE DEF derived
    <3>. QED
      BY <2>3, <2>6 DEF MemoryRecord
  <2>8. call.pc = "succPut" /\ call.rec = rec /\ call.old = old
    <3>. HIDE DEF rec
    <3>. QED
      BY DEF Idle
  <2>9. op'[c] = call /\ \A q \in Procs \ {c} : op'[q] = op[q]
    <3>. HIDE DEF call
    <3>. QED
      BY <1>1, <2>5, OthersIdle DEF ServiceInv
  <2>10. op'[c].pc = "succPut" /\ op'[c].rec = rec /\ op'[c].old = old
    BY <2>8, <2>9
  <2>11. Taken(r.id)
    BY <2>2, KnownTaken DEF ServiceInv, Known
  <2>12. QED
    <3>. HIDE DEF rec, call, old, scope
    <3>1. Contains(scope_from(surface, r), rec.scope)
      BY <2>2, <2>7 DEF scope
    <3>2. QED
      BY <1>1, <2>1, <2>2, <2>4, <2>7, <2>9, <2>10, <2>11, <3>1, CallStarts
         DEF Route, Writing
<1>4. QED
  BY <1>2, <1>3

\* A forgetting that finds nothing to forget is answered at once.
LEMMA DeleteKept ==
    ASSUME ServiceInv, NEW c \in Clients, NEW r \in Request, r.id \in Known \cup {0},
           delete_memory(c, r)
    PROVE  ServiceInv'
<1> DEFINE scope == scope_from(surface, r)
           old == store[r.id]
           call == [Idle EXCEPT !.pc = "tombstone", !.scope = scope, !.id = r.id,
                                !.old = old]
<1>1. /\ r.op = "delete" /\ Sends(c, r) /\ c \in Procs /\ Forget(c, r.id, scope)
      /\ r.id \in Known
  BY DEF delete_memory, Accepts, HandlerRefuses, ById, Procs
<1>2. TypeInv' /\ OfSomeKind
  BY <1>1, ScopeFromType, ForgetType, ForgetKind DEF ServiceInv
<1>3. Taken(r.id)
  BY <1>1, KnownTaken DEF ServiceInv
<1>4. CASE Visible(r.id, scope) /\ old.status # "Deleted"
  <2>1. Enter(c, "forget", call)
    BY <1>1, <1>4 DEF Forget
  <2>2. call.pc = "tombstone" /\ call.old = old
    BY DEF Idle
  <2>3. op'[c] = call /\ \A q \in Procs \ {c} : op'[q] = op[q]
    <3>. HIDE DEF call
    <3>. QED
      BY <1>1, <2>1, OthersIdle DEF ServiceInv
  <2>4. old.id = r.id
    BY <1>4, RowFacts DEF Visible, ServiceInv, TypeInv, LedgerInv
  <2>5. op'[c] # Idle
    <3>1. Idle.pc = "idle"
      BY DEF Idle
    <3>2. QED
      BY <2>2, <2>3, <3>1
  <2>6. Advance(c, Under(r, "handling"))
    BY <2>5 DEF delete_memory
  <2>7. op'[c].pc = "tombstone" /\ op'[c].old = old
    BY <2>2, <2>3
  <2>8. QED
    <3>. HIDE DEF call, scope, old
    <3>. QED
      BY <1>1, <1>2, <1>3, <2>3, <2>4, <2>6, <2>7, CallStarts DEF Route, Writing
<1>5. CASE ~(Visible(r.id, scope) /\ old.status # "Deleted")
  <2>1. Enter(c, "forget", Idle)
    BY <1>1, <1>5 DEF Forget
  <2>2. op'[c] = Idle /\ \A q \in Procs \ {c} : op'[q] = op[q]
    BY <1>1, <2>1, OthersIdle DEF ServiceInv
  <2>3. Answer(c, r, "ok", {})
    BY <2>2 DEF delete_memory
  <2>4. Gone(r.id, scope)
    BY <1>3, <1>5 DEF Gone, Visible
  <2>5. Gone(r.id, scope)'
    <3>1. \A i, s : Gone(i, s) => Gone(i, s)'
      BY <1>2, GoneStays DEF ServiceInv
    <3>2. scope_from(surface, r)' = scope_from(surface, r)
      BY <1>1, SendsFacts
    <3>3. QED
      BY <2>4, <3>1, <3>2
  <2>6. QED
    BY <1>1, <1>2, <2>2, <2>3, <2>5, SendsFacts, AnswerKept DEF ReplyKind
<1>6. QED
  BY <1>4, <1>5

LEMMA PurgeKept ==
    ASSUME ServiceInv, NEW c \in Clients, NEW r \in Request, r.id \in Known \cup {0},
           purge_memory(c, r)
    PROVE  ServiceInv'
<1> DEFINE scope == scope_from(surface, r)
           call == [Idle EXCEPT !.pc = "purgeUnindex", !.scope = scope, !.id = r.id]
<1>1. /\ r.op = "purge" /\ Sends(c, r) /\ c \in Procs /\ Purge(c, r.id, scope)
      /\ r.id \in Known /\ Advance(c, Under(r, "handling"))
  BY DEF purge_memory, Accepts, HandlerRefuses, ById, Procs
<1>2. r.id \in Ids
  BY <1>1 DEF Known, Stored, ErasedIds, ServiceInv, TypeInv, TypeOK, MemoryRecord
<1>3. TypeInv' /\ OfSomeKind
  BY <1>1, <1>2, ScopeFromType, PurgeType, PurgeKind DEF ServiceInv
<1>4. Enter(c, "purge", call)
  BY <1>1 DEF Purge
<1>5. call.pc = "purgeUnindex"
  BY DEF Idle
<1>6. op'[c] = call /\ \A q \in Procs \ {c} : op'[q] = op[q]
  <2>. HIDE DEF call
  <2>. QED
    BY <1>1, <1>4, OthersIdle DEF ServiceInv
<1>7. op'[c].pc = "purgeUnindex"
  BY <1>5, <1>6
<1>8. QED
  <2>. HIDE DEF call, scope
  <2>. QED
    BY <1>1, <1>3, <1>6, <1>7, CallStarts DEF Route, Writing

LEMMA SendKept ==
    ASSUME ServiceInv, NEW c \in Clients, NEW r \in Request,
           r.op \in ById => r.id \in Known \cup {0}, Send(c, r)
    PROVE  ServiceInv'
<1>1. CASE delete_memory(c, r)
  <2>1. r.op \in ById
    BY <1>1 DEF delete_memory, Accepts, ById
  <2>2. QED
    BY <1>1, <2>1, DeleteKept
<1>2. CASE purge_memory(c, r)
  <2>1. r.op \in ById
    BY <1>2 DEF purge_memory, Accepts, ById
  <2>2. QED
    BY <1>2, <2>1, PurgeKept
<1>3. QED
  BY <1>1, <1>2, ReadKept, ReadingStarts, CreateKept, PatchKept DEF Send

-----------------------------------------------------------------------------
(* Calls that read the store record by record *)

\* The state of a call that reads.
LEMMA ReadingFacts ==
    ASSUME ServiceInv, NEW c \in Clients, wire[c].stage \in {"walking", "recalling"},
           UNCHANGED <<vars, Surroundings>>
    PROVE  /\ wire[c] \in Wire /\ wire[c].req \in Request
           /\ wire[c].req.op \notin Writing
           /\ wire[c].reply.rows \in SUBSET MemoryRecord
           /\ op' = op /\ op[c] = Idle /\ UNCHANGED vars /\ TypeInv'
           /\ surface' = surface /\ told' = told
           /\ host' \in {"up", "down", "closed"}
           /\ sends' \in 0..MaxSends /\ breaks' \in 0..MaxBreaks
           /\ \A s \in wire[c].reply.rows : Contains(Asked(c), s.scope)
<1>1. wire[c] \in Wire /\ ClientOK(c)
  BY DEF ServiceInv, SurroundingsOK
<1>2. op' = op /\ UNCHANGED vars /\ TypeInv'
  BY UnchangedType DEF ServiceInv, vars
<1>3. /\ surface' = surface /\ told' = told
      /\ host' \in {"up", "down", "closed"}
      /\ sends' \in 0..MaxSends /\ breaks' \in 0..MaxBreaks
  BY DEF ServiceInv, SurroundingsOK, Surroundings
<1>4. /\ wire[c].req \in Request /\ wire[c].reply.rows \in SUBSET MemoryRecord
  BY <1>1 DEF Wire, Reply
<1>5. /\ op[c] = Idle /\ wire[c].req.op \notin Writing
      /\ \A s \in wire[c].reply.rows : Contains(Asked(c), s.scope)
  BY <1>1 DEF ClientOK, EnRoute, In, Reads, ShowsInScope
<1>6. QED
  BY <1>1, <1>2, <1>3, <1>4, <1>5

\* One more record is read.
LEMMA ReadMore ==
    ASSUME ServiceInv, NEW c \in Clients, wire[c].stage \in {"walking", "recalling"},
           UNCHANGED <<vars, Surroundings>>,
           NEW row \in MemoryRecord, Contains(Asked(c), row.scope),
           NEW next \in Nat,
           Advance(c, [wire[c] EXCEPT !.next = next, !.reply.rows = @ \cup {row}])
    PROVE  ServiceInv'
<1> DEFINE call == [wire[c] EXCEPT !.next = next, !.reply.rows = @ \cup {row}]
<1>1. /\ wire[c] \in Wire /\ wire[c].reply.rows \in SUBSET MemoryRecord
      /\ wire[c].req.op \notin Writing
      /\ op' = op /\ op[c] = Idle /\ UNCHANGED vars /\ TypeInv'
      /\ surface' = surface /\ told' = told
      /\ host' \in {"up", "down", "closed"}
      /\ sends' \in 0..MaxSends /\ breaks' \in 0..MaxBreaks
      /\ \A s \in wire[c].reply.rows : Contains(Asked(c), s.scope)
  BY ReadingFacts
<1>2. /\ call \in Wire /\ call.stage = wire[c].stage /\ call.req = wire[c].req
      /\ call.reply.rows = wire[c].reply.rows \cup {row}
  BY <1>1 DEF Wire, Reply
<1>3. /\ wire' \in [Clients -> Wire] /\ wire'[c] = call
      /\ \A d \in Clients \ {c} : wire'[d] = wire[d]
  <2>. HIDE DEF call
  <2>1. Advance(c, call)
    BY DEF call
  <2>. QED
    BY <1>2, <2>1, AdvanceFacts DEF ServiceInv
<1>4. OfClient(c)
  BY <1>1, <1>3 DEF OfClient
<1> HIDE DEF call
<1>5. Asked(c)' = Asked(c)
  BY <1>1, <1>2, <1>3 DEF Asked
<1>6. ClientOK(c)'
  BY <1>1, <1>2, <1>3, <1>5
     DEF ClientOK, EnRoute, Reads, Replied, ShowsInScope, In
<1>7. QED
  BY <1>1, <1>3, <1>4, <1>6, StepKept

\* The reading ends with an answer.
LEMMA ReadEnds ==
    ASSUME ServiceInv, NEW c \in Clients, wire[c].stage \in {"walking", "recalling"},
           UNCHANGED <<vars, Surroundings>>,
           NEW kind \in ReplyKind, NEW rows \in SUBSET wire[c].reply.rows,
           kind # "ok" => rows = {}, Answer(c, wire[c].req, kind, rows)
    PROVE  ServiceInv'
<1>1. /\ wire[c].req \in Request /\ wire[c].reply.rows \in SUBSET MemoryRecord
      /\ wire[c].req.op \notin Writing
      /\ op' = op /\ op[c] = Idle /\ UNCHANGED vars /\ TypeInv'
      /\ surface' = surface /\ told' = told
      /\ host' \in {"up", "down", "closed"}
      /\ sends' \in 0..MaxSends /\ breaks' \in 0..MaxBreaks
      /\ \A s \in wire[c].reply.rows : Contains(Asked(c), s.scope)
  BY ReadingFacts
<1>2. \A s \in rows : Contains(scope_from(surface, wire[c].req), s.scope)
  BY <1>1 DEF Asked
<1>3. wire[c].req.op \notin {"patch", "delete"}
  BY <1>1 DEF Writing
<1>4. QED
  BY <1>1, <1>2, <1>3, AnswerKept

LEMMA ReadingKept ==
    ASSUME ServiceInv, NEW c \in Clients,
           Walk(c) \/ HydrateOne(c) \/ Recalled(c) \/ FailRead(c)
    PROVE  ServiceInv'
<1>1. /\ wire[c].stage \in {"walking", "recalling"}
      /\ UNCHANGED <<vars, Surroundings>>
  BY DEF Walk, HydrateOne, Recalled, FailRead, In
<1>2. \A s \in Rows : s \in MemoryRecord /\ s.supersedes \in Nat
  BY RowFacts DEF ServiceInv, TypeInv, LedgerInv, MemoryRecord
<1>3. CASE Walk(c)
  <2> DEFINE i == wire[c].next
  <2>1. CASE i # 0 /\ Visible(i, Asked(c))
    <3>1. store[i] \in Rows /\ Contains(Asked(c), store[i].scope)
      BY <2>1 DEF Visible, Rows
    <3>2. Advance(c, [wire[c] EXCEPT !.next = store[i].supersedes,
                                     !.reply.rows = @ \cup {store[i]}])
      BY <1>3, <2>1 DEF Walk, Asked
    <3>3. QED
      BY <1>1, <1>2, <3>1, <3>2, ReadMore
  <2>2. CASE ~(i # 0 /\ Visible(i, Asked(c)))
    <3>1. Answer(c, wire[c].req, "ok", wire[c].reply.rows)
      BY <1>3, <2>2 DEF Walk, Asked
    <3>2. QED
      BY <1>1, <3>1, ReadEnds DEF ReplyKind
  <2>3. QED
    BY <2>1, <2>2
<1>4. CASE HydrateOne(c)
  <2>1. PICK s \in Rows :
            /\ Contains(Asked(c), s.scope)
            /\ Advance(c, [wire[c] EXCEPT !.reply.rows = @ \cup {s}])
    BY <1>4 DEF HydrateOne, Asked
  <2>2. wire[c] \in Wire
    BY DEF ServiceInv, SurroundingsOK
  <2>3. /\ wire[c].next \in Nat
        /\ [wire[c] EXCEPT !.reply.rows = @ \cup {s}]
               = [wire[c] EXCEPT !.next = wire[c].next, !.reply.rows = @ \cup {s}]
    BY <2>2 DEF Wire
  <2>4. QED
    BY <1>1, <1>2, <2>1, <2>3, ReadMore
<1>5. CASE Recalled(c)
  <2>1. PICK shown \in Ranked(wire[c].reply.rows, Limit(wire[c].req)) :
            Answer(c, wire[c].req, "ok", shown)
    BY <1>5 DEF Recalled
  <2>2. shown \in SUBSET wire[c].reply.rows
    BY DEF Ranked
  <2>3. QED
    BY <1>1, <2>1, <2>2, ReadEnds DEF ReplyKind
<1>6. CASE FailRead(c)
  <2>1. map_error(surface, "Storage") \in ReplyKind \ {"ok"}
    BY MapErrorType
  <2>2. QED
    BY <1>1, <1>6, <2>1, ReadEnds DEF FailRead
<1>7. QED
  BY <1>3, <1>4, <1>5, <1>6

-----------------------------------------------------------------------------
(* The engine call of a client goes on *)

LEMMA GotoFacts ==
    ASSUME TypeInv, NEW c \in Procs, NEW pc, Goto(c, pc)
    PROVE  /\ op'[c].pc = pc /\ op'[c].rec = op[c].rec /\ op'[c].old = op[c].old
           /\ \A q \in Procs \ {c} : op'[q] = op[q]
BY DEF Goto, TypeInv, CallsOK, Call

LEMMA BecomeFacts ==
    ASSUME TypeInv, NEW c \in Procs, NEW call, Become(c, call)
    PROVE  op'[c] = call /\ \A q \in Procs \ {c} : op'[q] = op[q]
BY DEF Become, TypeInv, CallsOK

\* A client whose call the engine serves.
LEMMA HandlingFacts ==
    ASSUME ServiceInv, NEW c \in Clients, In(c, "handling")
    PROVE  /\ c \in Procs /\ wire[c] \in Wire /\ wire[c].req \in Request
           /\ op[c] \in Call /\ Equipped(op[c]) /\ Holds(c)
           /\ TypeInv /\ LedgerInv
           /\ host \in {"up", "down", "closed"}
           /\ sends \in 0..MaxSends /\ breaks \in 0..MaxBreaks
BY DEF In, ServiceInv, ClientOK, EnRoute, SurroundingsOK, TypeInv, CallsOK, Wire, Procs

\* The call stands at another point of its route.
LEMMA OnwardKept ==
    ASSUME ServiceInv, TypeInv', OfSomeKind, NEW c \in Clients, In(c, "handling"),
           UNCHANGED <<wire, Surroundings>>,
           op'[c].pc \in Route(wire[c].req.op),
           op'[c].rec = op[c].rec, op'[c].old = op[c].old,
           \A q \in Procs \ {c} : op'[q] = op[q],
           op'[c].pc \in {"index", "graph", "succIndex", "predUnindex", "retire"}
               => op[c].rec.id \in Known',
           op'[c].pc \in {"forgetUnindex", "forgetEdges"}
               => Gone(wire[c].req.id, GlobalScope)',
           op'[c].pc \in {"succPut", "succIndex", "predUnindex", "retire", "tombstone"}
               => op[c].old.id = wire[c].req.id
    PROVE  ServiceInv'
<1>1. /\ wire' \in [Clients -> Wire] /\ surface' = surface /\ told' = told
      /\ host' \in {"up", "down", "closed"}
      /\ sends' \in 0..MaxSends /\ breaks' \in 0..MaxBreaks
  BY HandlingFacts DEF ServiceInv, SurroundingsOK, Surroundings
<1>2. OfClient(c)
  BY <1>1 DEF OfClient
<1>3. Asked(c)' = Asked(c)
  BY <1>1 DEF Asked
<1>4. wire[c].req.op \in {"patch", "delete"} => Taken(wire[c].req.id)'
  <2>1. wire[c].req.op \in {"patch", "delete"} => Taken(wire[c].req.id)
    BY HandlingFacts DEF Holds
  <2>2. QED
    BY <2>1, GoneStays DEF ServiceInv
<1>5. Holds(c)'
  BY <1>3, <1>4, HandlingFacts DEF Holds
<1>6. ClientOK(c)'
  <2>1. ShowsInScope(c)'
    BY <1>3 DEF ServiceInv, ClientOK, ShowsInScope
  <2>2. QED
    BY <1>5, <2>1 DEF ClientOK, EnRoute, Reads, Replied, In
<1>7. QED
  BY <1>1, <1>2, <1>6, StepKept

\* The call has returned.
LEMMA FinishedKept ==
    ASSUME ServiceInv, TypeInv', OfSomeKind, NEW c \in Clients, In(c, "handling"),
           UNCHANGED Surroundings, Finished(c),
           op'[c] = Idle, \A q \in Procs \ {c} : op'[q] = op[q],
           ~WriteBackFails(c) /\ wire[c].req.op \in {"create", "patch"}
               => op[c].rec.id \in Known',
           ~WriteBackFails(c) /\ wire[c].req.op \in {"patch", "delete"}
               => \A i, scope : i = wire[c].req.id => Gone(i, scope)'
    PROVE  ServiceInv'
<1> DEFINE r == wire[c].req
           rows == IF r.op \in {"create", "patch"} THEN {op[c].rec} ELSE {}
<1>1. /\ r \in Request /\ Holds(c) /\ surface' = surface /\ told' = told
      /\ host' \in {"up", "down", "closed"}
      /\ sends' \in 0..MaxSends /\ breaks' \in 0..MaxBreaks
  BY HandlingFacts DEF Surroundings
<1>2. CASE WriteBackFails(c)
  <2>1. Answer(c, r, map_error(surface, "NotFound"), {})
    BY <1>2 DEF Finished
  <2>2. map_error(surface, "NotFound") \in ReplyKind \ {"ok"}
    BY MapErrorType
  <2>3. QED
    BY <1>1, <2>1, <2>2, AnswerKept
<1>3. CASE ~WriteBackFails(c)
  <2>1. Answer(c, r, "ok", rows)
    BY <1>3 DEF Finished
  <2>2. /\ rows \in SUBSET MemoryRecord
        /\ \A s \in rows : Contains(scope_from(surface, r), s.scope)
        /\ \A s \in rows : s.id \in Known'
    BY <1>1, <1>3 DEF Holds, Asked
  <2>3. r.op \in {"patch", "delete"}
            => \A i, scope : i = r.id => Gone(i, scope)'
    BY <1>3
  <2>4. QED
    <3>. HIDE DEF rows
    <3>. QED
      BY <1>1, <2>1, <2>2, <2>3, AnswerKept DEF ReplyKind
<1>4. QED
  BY <1>2, <1>3

\* What is gone for the widest scope is gone for every other.
LEMMA GoneForAll ==
    /\ \A i, scope : Gone(i, GlobalScope) => Gone(i, scope)
    /\ \A i, scope : Gone(i, GlobalScope)' => Gone(i, scope)'
BY DEF Gone, Contains, dim_matches, GlobalScope

\* A call under way stands on its route, so few steps can be its next one.
LEMMA RouteSteps ==
    ASSUME NEW c \in Clients, Continue(c),
           op[c].pc \in Route("create") \cup Route("patch") \cup Route("delete")
                           \cup Route("purge")
    PROVE  \/ PutRecord(c) \/ IndexRecord(c) \/ IndexGraph(c)
           \/ SuccPut(c) \/ SuccIndex(c) \/ PredUnindex(c) \/ Retire(c)
           \/ Tombstone(c) \/ ForgetUnindex(c) \/ ForgetEdges(c)
           \/ PurgeUnindex(c) \/ PurgeEdges(c)
<1>1. op[c].pc \notin {"dedup", "ignoreGet", "mergePut", "mergeUnindex", "mergeRetire",
                       "conflict", "replaceGet", "replaceClose", "replaceUnindex",
                       "replacePut", "replaceIndex", "putOnly", "sweep", "archive",
                       "cdUnindex", "cdEdges", "cdRow", "hydrate", "ghost"}
  BY DEF Route
<1>2. /\ ~DedupPass(c) /\ ~DedupIgnore(c) /\ ~IgnoreGet(c) /\ ~DedupReview(c)
      /\ ~DedupMerge(c) /\ ~MergePut(c) /\ ~MergeUnindex(c) /\ ~MergeRetire(c)
  BY <1>1 DEF DedupPass, DedupIgnore, IgnoreGet, DedupReview, DedupMerge, MergePut,
              MergeUnindex, MergeRetire, At
<1>3. /\ ~ConflictPass(c) /\ ~ConflictReplace(c) /\ ~ConflictQuarantine(c)
      /\ ~ReplaceGet(c) /\ ~ReplaceClose(c) /\ ~ReplaceUnindex(c)
      /\ ~ReplacePut(c) /\ ~ReplaceIndex(c) /\ ~PutOnly(c)
  BY <1>1 DEF ConflictPass, ConflictReplace, ConflictQuarantine, ReplaceGet,
              ReplaceClose, ReplaceUnindex, ReplacePut, ReplaceIndex, PutOnly, At
<1>4. /\ ~SweepNext(c) /\ ~SweepDone(c) /\ ~Archive(c)
      /\ ~CoordinateUnindex(c) /\ ~CoordinateEdges(c) /\ ~CoordinateRow(c)
      /\ ~Hydrate(c) /\ ~RemoveGhost(c) /\ ~RecallDone(c)
  BY <1>1 DEF SweepNext, SweepDone, Archive, CoordinateUnindex, CoordinateEdges,
              CoordinateRow, Hydrate, RemoveGhost, RecallDone, At
<1>5. QED
  BY <1>2, <1>3, <1>4 DEF Continue

\* The write-back of update and of forget: it looks for the row, or writes and is
\* right to say so, or finds no row.
LEMMA WriteBackSteps ==
    ASSUME ServiceInv, OfSomeKind, NEW c \in Clients, In(c, "handling"),
           op[c].pc \in {"retire", "tombstone"},
           NEW status \in {"Superseded", "Deleted"}, NEW call,
           StoreUpdate(c, [op[c].old EXCEPT !.status = status], call)
    PROVE  \/ op' = [op EXCEPT ![c].checked = TRUE]
           \/ /\ Become(c, [call EXCEPT !.checked = FALSE])
              /\ ~WriteBackFails(c)
              /\ \A i, scope : i = wire[c].req.id => Gone(i, scope)'
           \/ Finish(c) /\ WriteBackFails(c)
<1> DEFINE r == [op[c].old EXCEPT !.status = status]
<1>1. /\ op[c].old \in MemoryRecord /\ op[c].old.id = wire[c].req.id
      /\ Taken(wire[c].req.id)
  BY HandlingFacts DEF Equipped, HoldsOld, Holds, Route, Writing
<1>2. /\ r \in MemoryRecord /\ r.id = op[c].old.id /\ r.status # "Active"
  BY <1>1 DEF MemoryRecord, Status
<1>3. CanUpdate(r) = CanUpdate(op[c].old) /\ Updated(r) = r
  BY <1>2, ServiceAssumption DEF CanUpdate, Updated
<1> HIDE DEF r
<1>4. CASE op' = [op EXCEPT ![c].checked = TRUE]
  BY <1>4
<1>5. CASE /\ IF Backend = "local" THEN op[c].checked ELSE CanUpdate(r)
           /\ store' = [store EXCEPT ![r.id] = Updated(r)]
           /\ Become(c, [call EXCEPT !.checked = FALSE])
  <2>1. ~WriteBackFails(c)
    BY <1>3, <1>5 DEF WriteBackFails
  <2>2. r.id \in Ids /\ store'[r.id] = r
    BY <1>2, <1>3, <1>5 DEF MemoryRecord, ServiceInv, TypeInv, TypeOK
  <2>3. \A i : Taken(i) => Taken(i)'
    BY GoneStays DEF ServiceInv
  <2>4. \A i, scope : i = wire[c].req.id => Gone(i, scope)'
    BY <1>1, <1>2, <2>2, <2>3 DEF Gone
  <2>5. QED
    BY <1>5, <2>1, <2>4
<1>6. CASE ~op[c].checked /\ ~CanUpdate(r) /\ Finish(c)
  BY <1>3, <1>6 DEF WriteBackFails
<1>7. QED
  BY <1>4, <1>5, <1>6 DEF StoreUpdate, r

LEMMA HandleKept ==
    ASSUME ServiceInv, NEW c \in Clients, Handle(c)
    PROVE  ServiceInv'
<1> DEFINE r == wire[c].req
<1>1. /\ In(c, "handling") /\ Continue(c) /\ UNCHANGED Surroundings
      /\ IF op'[c] = Idle THEN Finished(c) ELSE UNCHANGED wire
  BY DEF Handle
<1>2. /\ c \in Procs /\ r \in Request /\ op[c] \in Call /\ Equipped(op[c]) /\ Holds(c)
      /\ TypeInv /\ LedgerInv
  BY <1>1, HandlingFacts
<1>3. TypeInv' /\ OfSomeKind
  BY <1>1, <1>2, ContinueType, ContinueKind
<1>4. Known \subseteq Known'
  BY <1>2, <1>3, KindStep, KnownKept DEF TypeInv, LedgerInv
<1>5. \A i, scope : Gone(i, scope) => Gone(i, scope)'
  BY <1>2, <1>3, GoneStays
<1>6. /\ op[c].pc \in {"put", "index", "graph"} => r.op = "create"
      /\ op[c].pc \in {"succPut", "succIndex", "predUnindex", "retire"} => r.op = "patch"
      /\ op[c].pc \in {"tombstone", "forgetUnindex", "forgetEdges"} => r.op = "delete"
      /\ op[c].pc \in {"purgeUnindex", "purgeEdges"} => r.op = "purge"
      /\ r.op \in Writing
      /\ op[c].pc \in Route("create") \cup Route("patch") \cup Route("delete")
                          \cup Route("purge")
  BY <1>2 DEF Holds, Route, Writing
<1>7. Idle.pc = "idle"
  BY DEF Idle
\* A step of the route that moves no further than the next point.
<1>8. ASSUME NEW pc, Goto(c, pc), pc \in Route(r.op), pc # "idle",
             pc \in {"index", "graph", "succIndex", "predUnindex", "retire"}
                 => op[c].rec.id \in Known',
             pc \in {"forgetUnindex", "forgetEdges"}
                 => \A i : i = r.id => Gone(i, GlobalScope)',
             pc \in {"succPut", "succIndex", "predUnindex", "retire", "tombstone"}
                 => op[c].old.id = r.id
      PROVE  ServiceInv'
  <2>1. /\ op'[c].pc = pc /\ op'[c].rec = op[c].rec /\ op'[c].old = op[c].old
        /\ \A q \in Procs \ {c} : op'[q] = op[q]
    BY <1>2, <1>8, GotoFacts
  <2>2. UNCHANGED <<wire, Surroundings>>
    BY <1>1, <1>7, <1>8, <2>1
  <2>3. op'[c].pc \in {"forgetUnindex", "forgetEdges"}
            => Gone(wire[c].req.id, GlobalScope)'
    BY <1>8, <2>1, <2>2
  <2>4. QED
    BY <1>1, <1>3, <1>8, <2>1, <2>2, <2>3, OnwardKept
\* The last step of the route.
<1>9. ASSUME Finish(c), op[c].pc \notin {"retire", "tombstone"},
             r.op \in {"create", "patch"} => op[c].rec.id \in Known',
             r.op \in {"patch", "delete"}
                 => \A i, scope : i = r.id => Gone(i, scope)'
      PROVE  ServiceInv'
  <2>1. op'[c] = Idle /\ \A q \in Procs \ {c} : op'[q] = op[q]
    BY <1>2, <1>9, BecomeFacts DEF Finish
  <2>2. QED
    BY <1>1, <1>3, <1>9, <2>1, FinishedKept
<1>10. CASE PutRecord(c) \/ SuccPut(c)
  <2>1. op[c].rec \in MemoryRecord /\ StorePut(op[c].rec)
    BY <1>2, <1>10 DEF PutRecord, SuccPut, At, Equipped, HoldsRec
  <2>2. op[c].rec.id \in Known'
    BY <1>2, <2>1, EngineAssumption
       DEF StorePut, TypeInv, TypeOK, MemoryRecord, Known, Stored
  <2>3. CASE PutRecord(c)
    BY <1>6, <1>8, <2>2, <2>3 DEF PutRecord, At, Route
  <2>4. CASE SuccPut(c)
    BY <1>2, <1>6, <1>8, <2>2, <2>4 DEF SuccPut, At, Route, Holds
  <2>5. QED
    BY <1>10, <2>3, <2>4
<1>11. CASE IndexRecord(c) \/ SuccIndex(c) \/ PredUnindex(c)
  <2>1. op[c].pc \in {"index", "succIndex", "predUnindex"}
    BY <1>11 DEF IndexRecord, SuccIndex, PredUnindex, At
  <2>2. op[c].rec.id \in Known'
    BY <1>2, <1>4, <2>1 DEF Holds
  <2>3. CASE IndexRecord(c)
    BY <1>6, <1>8, <2>2, <2>3 DEF IndexRecord, At, Route
  <2>4. CASE SuccIndex(c)
    BY <1>2, <1>6, <1>8, <2>2, <2>4 DEF SuccIndex, At, Route, Holds
  <2>5. CASE PredUnindex(c)
    BY <1>2, <1>6, <1>8, <2>2, <2>5 DEF PredUnindex, At, Route, Holds
  <2>6. QED
    BY <1>11, <2>3, <2>4, <2>5
<1>12. CASE IndexGraph(c)
  <2>1. op[c].pc = "graph" /\ r.op = "create"
    BY <1>6, <1>12 DEF IndexGraph, At
  <2>2. op[c].rec.id \in Known'
    BY <1>2, <1>4, <2>1 DEF Holds
  <2>3. CASE op' = op
    <3>1. UNCHANGED <<wire, Surroundings>>
      BY <1>1, <1>7, <2>1, <2>3
    <3>2. QED
      BY <1>1, <1>3, <2>1, <2>2, <2>3, <3>1, OnwardKept DEF Route
  <2>4. CASE Finish(c)
    BY <1>9, <2>1, <2>2, <2>4
  <2>5. QED
    BY <1>12, <2>3, <2>4 DEF IndexGraph
<1>13. CASE ForgetUnindex(c) \/ ForgetEdges(c)
  <2>1. op[c].pc \in {"forgetUnindex", "forgetEdges"} /\ r.op = "delete"
    BY <1>6, <1>13 DEF ForgetUnindex, ForgetEdges, At
  <2>2. \A i : i = r.id => Gone(i, GlobalScope)'
    BY <1>2, <1>5, <2>1 DEF Holds
  <2>3. CASE ForgetUnindex(c)
    BY <1>8, <2>1, <2>2, <2>3 DEF ForgetUnindex, Route
  <2>4. CASE ForgetEdges(c)
    <3>1. \A i, scope : i = r.id => Gone(i, scope)'
      BY <2>2, GoneForAll
    <3>2. QED
      BY <1>9, <2>1, <2>4, <3>1 DEF ForgetEdges
  <2>5. QED
    BY <1>13, <2>3, <2>4
<1>14. CASE PurgeUnindex(c) \/ PurgeEdges(c)
  <2>1. op[c].pc \in {"purgeUnindex", "purgeEdges"} /\ r.op = "purge"
    BY <1>6, <1>14 DEF PurgeUnindex, PurgeEdges, At
  <2>2. CASE PurgeUnindex(c)
    BY <1>8, <2>1, <2>2 DEF PurgeUnindex, Route
  <2>3. CASE PurgeEdges(c)
    BY <1>9, <2>1, <2>3 DEF PurgeEdges
  <2>4. QED
    BY <1>14, <2>2, <2>3
<1>15. CASE Retire(c) \/ Tombstone(c)
  <2>1. PICK status \in {"Superseded", "Deleted"},
             call \in {Idle, [op[c] EXCEPT !.pc = "forgetUnindex"]} :
            /\ StoreUpdate(c, [op[c].old EXCEPT !.status = status], call)
            /\ op[c].pc = IF call = Idle THEN "retire" ELSE "tombstone"
    <3>1. [op[c] EXCEPT !.pc = "forgetUnindex"] # Idle
      BY <1>2, <1>7 DEF Call
    <3>2. QED
      BY <1>15, <3>1 DEF Retire, Tombstone, At
  <2>2. /\ op[c].pc \in {"retire", "tombstone"} /\ op[c].old.id = r.id
        /\ op[c].pc = "retire" => op[c].rec.id \in Known'
        /\ r.op = IF op[c].pc = "retire" THEN "patch" ELSE "delete"
    BY <1>2, <1>4, <1>6, <2>1 DEF Holds
  <2>3. CASE op' = [op EXCEPT ![c].checked = TRUE]
    <3>1. /\ op'[c].pc = op[c].pc /\ op'[c].rec = op[c].rec /\ op'[c].old = op[c].old
          /\ \A q \in Procs \ {c} : op'[q] = op[q]
      BY <1>2, <2>3 DEF TypeInv, CallsOK, Call
    <3>2. UNCHANGED <<wire, Surroundings>>
      BY <1>1, <1>7, <2>2, <3>1
    <3>3. QED
      BY <1>1, <1>2, <1>3, <2>2, <3>1, <3>2, OnwardKept DEF Holds
  <2>4. CASE /\ Become(c, [call EXCEPT !.checked = FALSE])
             /\ ~WriteBackFails(c)
             /\ \A i, scope : i = r.id => Gone(i, scope)'
    <3>1. CASE call = Idle
      <4>1. [call EXCEPT !.checked = FALSE] = Idle
        <5>1. Idle \in Call /\ Idle.checked = FALSE
          BY IdleType DEF Idle
        <5>2. QED
          BY <3>1, <5>1 DEF Call
      <4>2. op'[c] = Idle /\ \A q \in Procs \ {c} : op'[q] = op[q]
        BY <1>2, <2>4, <4>1, BecomeFacts
      <4>3. QED
        BY <1>1, <1>3, <2>1, <2>2, <2>4, <3>1, <4>2, FinishedKept
    <3>2. CASE call = [op[c] EXCEPT !.pc = "forgetUnindex"] /\ call # Idle
      <4> DEFINE next == [call EXCEPT !.checked = FALSE]
      <4>1. next.pc = "forgetUnindex" /\ next.rec = op[c].rec /\ next.old = op[c].old
        BY <1>2, <3>2 DEF Call
      <4>2. op'[c] = next /\ \A q \in Procs \ {c} : op'[q] = op[q]
        <5>. HIDE DEF next
        <5>1. Become(c, next)
          BY <2>4 DEF next
        <5>2. QED
          BY <1>2, <5>1, BecomeFacts
      <4>3. /\ op'[c].pc = "forgetUnindex" /\ op'[c].rec = op[c].rec
            /\ op'[c].old = op[c].old
        BY <4>1, <4>2
      <4>4. UNCHANGED <<wire, Surroundings>>
        BY <1>1, <1>7, <4>3
      <4>5. Gone(wire[c].req.id, GlobalScope)'
        BY <2>4, <4>4
      <4>6. "forgetUnindex" \in Route(r.op)
        BY <2>1, <2>2, <3>2 DEF Route
      <4>7. QED
        <5>. HIDE DEF next
        <5>. QED
          BY <1>1, <1>3, <4>2, <4>3, <4>4, <4>5, <4>6, OnwardKept
    <3>3. QED
      BY <2>1, <3>1, <3>2
  <2>5. CASE Finish(c) /\ WriteBackFails(c)
    <3>1. op'[c] = Idle /\ \A q \in Procs \ {c} : op'[q] = op[q]
      BY <1>2, <2>5, BecomeFacts DEF Finish
    <3>2. QED
      BY <1>1, <1>3, <2>5, <3>1, FinishedKept
  <2>6. QED
    BY <1>1, <1>3, <2>1, <2>2, <2>3, <2>4, <2>5, WriteBackSteps
<1>16. QED
  BY <1>1, <1>6, <1>10, <1>11, <1>12, <1>13, <1>14, <1>15, RouteSteps

\* A call that ends early: the client is told of an error, or of nothing.
LEMMA FailCallKept ==
    ASSUME ServiceInv, NEW c \in Clients, FailCall(c)
    PROVE  ServiceInv'
<1>1. In(c, "handling") /\ Abort(c) /\ UNCHANGED Surroundings
  BY DEF FailCall
<1>2. /\ c \in Procs /\ wire[c].req \in Request /\ TypeInv /\ LedgerInv
      /\ host \in {"up", "down", "closed"}
      /\ sends \in 0..MaxSends /\ breaks \in 0..MaxBreaks
  BY <1>1, HandlingFacts
<1>3. TypeInv'
  BY <1>1, <1>2, AbortType
<1>4. OfSomeKind
  BY <1>1, <1>2, StepKind DEF Next
<1>5. op'[c] = Idle /\ \A q \in Procs \ {c} : op'[q] = op[q]
  BY <1>1, <1>2, BecomeFacts DEF Abort, Finish
<1>6. Answer(c, wire[c].req, map_error(surface, "Storage"), {})
  BY DEF FailCall
<1>7. map_error(surface, "Storage") \in ReplyKind \ {"ok"}
  BY MapErrorType
<1>8. QED
  BY <1>1, <1>2, <1>3, <1>4, <1>5, <1>6, <1>7, AnswerKept DEF Surroundings

LEMMA NoCallOK ==
    ASSUME NEW c, wire'[c] = NoCall, op'[c] = Idle
    PROVE  ClientOK(c)'
BY DEF ClientOK, EnRoute, Reads, Replied, ShowsInScope, In, NoCall, NoReply

LEMMA DisconnectKept ==
    ASSUME ServiceInv, NEW c \in Clients, Disconnect(c)
    PROVE  ServiceInv'
<1>1. /\ Advance(c, NoCall) /\ op' = [op EXCEPT ![c] = Idle] /\ c \in Procs
      /\ UNCHANGED <<store, vectors, evidence, nextId, calls, erased, surface, host,
                     told, sends>>
      /\ breaks < MaxBreaks /\ breaks' = breaks + 1
  BY DEF Disconnect, Procs
<1>2. Finish(c)
  BY <1>1 DEF Finish, Become
<1>3. TypeInv'
  BY <1>1, <1>2, FinishType DEF ServiceInv, TypeInv, TypeOK, CallsOK
<1>4. OfSomeKind
  BY <1>1, <1>2, FinishKeeps DEF ServiceInv, TypeInv, OfSomeKind, Quietly
<1>5. op'[c] = Idle /\ \A q \in Procs \ {c} : op'[q] = op[q]
  BY <1>1, <1>2, BecomeFacts DEF Finish, ServiceInv
<1>6. /\ wire' \in [Clients -> Wire] /\ wire'[c] = NoCall
      /\ \A d \in Clients \ {c} : wire'[d] = wire[d]
  BY <1>1, NoCallType, AdvanceFacts DEF ServiceInv
<1>7. OfClient(c)
  BY <1>1, <1>4, <1>5, <1>6 DEF OfClient
<1>8. breaks' \in 0..MaxBreaks
  BY <1>1, ServiceAssumption DEF ServiceInv, SurroundingsOK
<1>9. QED
  BY <1>1, <1>3, <1>5, <1>6, <1>7, <1>8, NoCallOK, StepKept
     DEF ServiceInv, SurroundingsOK

-----------------------------------------------------------------------------
(* A client receives its answer *)

LEMMA ReceiveKept ==
    ASSUME ServiceInv, NEW c \in Clients, Receive(c)
    PROVE  ServiceInv'
<1> DEFINE r == wire[c].req
           news == IF r.op \in Writing THEN Promises(c) ELSE {}
<1>1. /\ In(c, "answered") /\ told' = told \cup news /\ Advance(c, NoCall)
      /\ UNCHANGED <<vars, surface, host, sends, breaks>>
  BY DEF Receive
<1>2. op' = op /\ op[c] = Idle /\ TypeInv'
  BY <1>1, UnchangedType DEF In, ServiceInv, ClientOK, EnRoute, vars
<1>3. /\ wire' \in [Clients -> Wire] /\ wire'[c] = NoCall
      /\ \A d \in Clients \ {c} : wire'[d] = wire[d]
  BY <1>1, NoCallType, AdvanceFacts DEF ServiceInv
<1>4. OfClient(c)
  BY <1>1, <1>2, <1>3 DEF OfClient
<1>5. LedgerInv' /\ \A d \in Clients \ {c} : ClientOK(d)'
  BY <1>2, <1>4, OthersKept
<1>6. ClientOK(c)'
  BY <1>2, <1>3, NoCallOK
<1>7. wire[c].reply.rows \subseteq MemoryRecord
  BY DEF ServiceInv, SurroundingsOK, Wire, Reply
<1>8. ASSUME NEW p \in news
      PROVE  /\ p \in Promise
             /\ p[1] = "stored" => p[2] \in Known
             /\ p[1] # "stored" => Gone(p[2], GlobalScope)
  <2>1. /\ r.op \in Writing /\ wire[c].reply.kind = "ok" /\ p \in Promises(c)
    BY <1>8 DEF Promises
  <2>2. /\ \A s \in wire[c].reply.rows : s.id \in Known
        /\ r.op \in {"patch", "delete"} => Gone(r.id, Asked(c))
    BY <1>1, <2>1 DEF ServiceInv, ClientOK, Replied
  <2>3. CASE p \in {<<"stored", s.id>> : s \in wire[c].reply.rows}
    BY <1>7, <2>2, <2>3 DEF Promise, MemoryRecord
  <2>4. CASE /\ r.op \in {"patch", "delete"} /\ r.id \in Stored
             /\ Contains(Asked(c), store[r.id].scope)
             /\ p = <<IF r.op = "patch" THEN "retired" ELSE "forgotten", r.id>>
    <3>1. Gone(r.id, GlobalScope)
      BY <2>2, <2>4 DEF Gone
    <3>2. r.id \in Ids
      BY <2>4 DEF Stored
    <3>3. QED
      BY <2>4, <3>1, <3>2 DEF Promise
  <2>5. QED
    BY <2>1, <2>3, <2>4 DEF Promises, Asked
<1>9. told' \subseteq Promise
  BY <1>1, <1>8 DEF ServiceInv, SurroundingsOK
<1>10. ToldOK'
  <2>1. Known' = Known /\ \A i : Gone(i, GlobalScope) => Gone(i, GlobalScope)'
    <3>1. \A i, scope : Gone(i, scope) => Gone(i, scope)'
      BY <1>2, <1>4, OthersKept
    <3>2. Known' = Known
      BY <1>1 DEF vars, Known, Stored, ErasedIds
    <3>3. QED
      BY <3>1, <3>2
  <2>2. QED
    <3>. HIDE DEF news
    <3>. QED
      BY <1>1, <1>8, <2>1 DEF ServiceInv, ToldOK
<1>11. SurroundingsOK'
  BY <1>1, <1>3, <1>9 DEF ServiceInv, SurroundingsOK
<1>12. QED
  BY <1>2, <1>5, <1>6, <1>10, <1>11 DEF ServiceInv

-----------------------------------------------------------------------------
(* The host breaks, is closed or opened *)

\* A crash forgets the calls and, where the store is in memory, the rows: what
\* was gone is gone, and nothing takes an old identity.
LEMMA LoseEngineKept ==
    ASSUME TypeInv, LedgerInv, LoseEngine
    PROVE  /\ TypeInv' /\ LedgerInv' /\ \A q \in Procs : op'[q] = Idle
           /\ \A i : Gone(i, GlobalScope) => Gone(i, GlobalScope)'
           /\ Backend = "local" => Known' = Known
<1>1. /\ store' \in [Ids -> MemoryRecord \cup {NoRecord}]
      /\ \A i \in Ids : store'[i] \in {NoRecord, store[i]}
      /\ Backend # "memory" => store' = store
  BY DEF LoseEngine, TypeInv, TypeOK
<1>2. nextId' = nextId /\ erased' = erased /\ calls' = calls
  BY DEF LoseEngine
<1>3. \A q \in Procs : op'[q] = Idle
  BY DEF LoseEngine
<1>4. TypeInv'
  <2>1. op' \in [Procs -> Call] /\ CallsOK'
    BY <1>3, IdleType, IdleEquipped DEF LoseEngine, CallsOK
  <2>2. QED
    BY <1>1, <1>2, <2>1 DEF LoseEngine, TypeInv, TypeOK
<1>5. /\ Stored' \subseteq Stored /\ Ever' \subseteq Ever
      /\ \A i \in Stored' : store'[i] = store[i]
  BY <1>1, <1>2 DEF Stored, Rows, Ever
<1>6. ~Pending(Idle) /\ Idle.old = NoRecord /\ Idle.recs = {}
  BY DEF Pending, PendingPCs, Idle
<1>7. LedgerInv'
  <2>1. RowsInPlace' /\ LinksGoBack' /\ OneIdentity'
    BY <1>2, <1>5 DEF LedgerInv, RowsInPlace, LinksGoBack, OneIdentity
  <2>2. CopiesAccounted' /\ PendingFresh' /\ PendingDistinct'
    BY <1>3, <1>6 DEF CopiesAccounted, PendingFresh, PendingDistinct
  <2>3. NoReturn'
    <3>1. \A s \in erased : s.id \in Ids
      BY DEF TypeInv, TypeOK, MemoryRecord
    <3>2. QED
      BY <1>1, <1>2, <3>1 DEF LedgerInv, NoReturn
  <2>4. QED
    BY <2>1, <2>2, <2>3 DEF LedgerInv
<1>8. \A i : Gone(i, GlobalScope) => Gone(i, GlobalScope)'
  BY <1>2, <1>3, <1>5, <1>6 DEF Gone, Taken
<1>9. Backend = "local" => Known' = Known
  BY <1>1, <1>2 DEF Known, Stored, ErasedIds
<1>10. QED
  BY <1>3, <1>4, <1>7, <1>8, <1>9

LEMMA BreakKept ==
    ASSUME ServiceInv, Crash \/ CloseHandle
    PROVE  ServiceInv'
<1>1. /\ LoseEngine /\ surface' = surface /\ told' = told /\ sends' = sends
      /\ host' \in {"down", "closed"} /\ breaks < MaxBreaks /\ breaks' = breaks + 1
  BY DEF Crash, CloseHandle
<1>2. /\ TypeInv' /\ LedgerInv' /\ \A q \in Procs : op'[q] = Idle
      /\ \A i : Gone(i, GlobalScope) => Gone(i, GlobalScope)'
      /\ Backend = "local" => Known' = Known
  BY <1>1, LoseEngineKept DEF ServiceInv
<1>3. ToldOK'
  BY <1>1, <1>2 DEF ServiceInv, ToldOK
<1>4. wire' \in [Clients -> Wire] /\ \A c \in Clients : ClientOK(c)'
  <2>1. CASE Crash
    <3>1. \A c \in Clients : wire'[c] = NoCall /\ op'[c] = Idle
      BY <1>2, <2>1 DEF Crash, Procs
    <3>2. wire' \in [Clients -> Wire]
      BY <2>1, NoCallType DEF Crash
    <3>3. QED
      BY <3>1, <3>2, NoCallOK
  <2>2. CASE CloseHandle
    <3>1. wire' = wire /\ \A c \in Clients : In(c, "idle") /\ op'[c] = Idle
      BY <1>2, <2>2 DEF CloseHandle, Procs
    <3>2. ASSUME NEW c \in Clients PROVE ClientOK(c)'
      BY <1>1, <3>1
         DEF ClientOK, EnRoute, Reads, Replied, ShowsInScope, In, Asked, ServiceInv
    <3>3. QED
      BY <3>1, <3>2 DEF ServiceInv, SurroundingsOK
  <2>3. QED
    BY <2>1, <2>2
<1>5. breaks' \in 0..MaxBreaks
  BY <1>1, ServiceAssumption DEF ServiceInv, SurroundingsOK
<1>6. QED
  BY <1>1, <1>2, <1>3, <1>4, <1>5 DEF ServiceInv, SurroundingsOK

\* The state of the clients and of the engine, up to the host.
LEMMA SameKept ==
    ASSUME ServiceInv, UNCHANGED <<vars, surface, wire, told, sends, breaks>>,
           host' \in {"up", "down", "closed"}
    PROVE  ServiceInv'
<1>1. TypeInv' /\ LedgerInv'
  BY StepKind, KindStep, UnchangedType DEF ServiceInv
<1>2. /\ store' = store /\ erased' = erased /\ op' = op /\ nextId' = nextId
      /\ Stored' = Stored /\ Known' = Known
  BY DEF vars, Stored, Known, ErasedIds
<1>3. \A i : Taken(i)' <=> Taken(i)
  BY <1>2 DEF Taken
<1>4. \A i, scope : Gone(i, scope)' <=> Gone(i, scope)
  BY <1>2, <1>3 DEF Gone
<1>5. ToldOK'
  BY <1>2, <1>4 DEF ServiceInv, ToldOK
<1>6. ASSUME NEW c \in Clients PROVE ClientOK(c)'
  <2>1. ClientOK(c) /\ Asked(c)' = Asked(c)
    BY DEF ServiceInv, Asked
  <2>2. QED
    BY <1>2, <1>3, <1>4, <2>1
       DEF ClientOK, EnRoute, Holds, Reads, Replied, ShowsInScope, In
<1>7. SurroundingsOK'
  BY DEF ServiceInv, SurroundingsOK
<1>8. QED
  BY <1>1, <1>5, <1>6, <1>7 DEF ServiceInv

-----------------------------------------------------------------------------
(* The theorems *)

\* A host that opens finds no row, or one that was acknowledged before.
LEMMA ServiceInitHolds == ServiceInit => ServiceInv
<1> SUFFICES ASSUME ServiceInit PROVE ServiceInv
  OBVIOUS
<1>1. PICK n \in {0, 1}, r \in ServiceRequests :
          /\ r.op = "create" /\ ~EngineRefuses(r)
          /\ store = [i \in Ids |-> IF i \in 1..n THEN into_record(i, NewMemory("http", r))
                                                  ELSE NoRecord]
  BY DEF ServiceInit, EarlierStores
<1>2. NewMemory("http", r) \in RememberRequest
  <2>1. r \in Request /\ r.text \in Contents
    BY <1>1, ServiceAssumption DEF EngineRefuses, RefusesContent, Request
  <2>2. QED
    BY <2>1, NewMemoryType
<1>3. \A i \in Ids : /\ into_record(i, NewMemory("http", r)) \in MemoryRecord
                     /\ into_record(i, NewMemory("http", r)).id = i
                     /\ into_record(i, NewMemory("http", r)).supersedes = 0
  BY <1>2, IntoRecordType
<1>4. store \in [Ids -> MemoryRecord \cup {NoRecord}]
  BY <1>1, <1>3
<1>5. Stored = {i \in Ids : i \in 1..n}
  BY <1>1, <1>3, EngineAssumption DEF Stored
<1>6. nextId \in 1..(MaxRecords + 1) /\ \A i \in Stored : i < nextId
  <2>1. CASE Stored = {}
    BY <2>1, FS_EmptySet, DomainAssumption DEF ServiceInit
  <2>2. CASE Stored # {}
    <3>1. Stored = {1} /\ 1 \in Ids
      BY <1>1, <1>5, <2>2, DomainAssumption DEF Ids
    <3>2. Cardinality(Stored) = 1
      BY <3>1, FS_Singleton
    <3>3. QED
      BY <3>1, <3>2, DomainAssumption DEF ServiceInit, Ids
  <2>3. QED
    BY <2>1, <2>2
<1>7. /\ erased = {} /\ vectors = [i \in Ids |-> NoVector] /\ evidence = {}
      /\ \A q \in Procs : op[q] = Idle
      /\ op \in [Procs -> Call] /\ calls \in 0..MaxCalls
  BY IdleType, EngineAssumption DEF ServiceInit
<1>8. TypeInv
  BY <1>4, <1>6, <1>7, IdleEquipped DEF TypeInv, TypeOK, CallsOK
<1>9. ~Pending(Idle) /\ Idle.old = NoRecord /\ Idle.recs = {}
  BY DEF Pending, PendingPCs, Idle
<1>10. LedgerInv
  <2>1. \A i \in Stored : store[i].id = i /\ store[i].supersedes = 0 /\ i \in Nat \ {0}
    BY <1>1, <1>3, <1>5 DEF Ids
  <2>2. Ever = {store[i] : i \in Stored}
    BY <1>7 DEF Ever, Rows
  <2>3. RowsInPlace /\ LinksGoBack /\ OneIdentity
    BY <1>6, <2>1, <2>2 DEF RowsInPlace, LinksGoBack, OneIdentity
  <2>4. CopiesAccounted /\ PendingFresh /\ PendingDistinct /\ NoReturn
    BY <1>7, <1>9 DEF CopiesAccounted, PendingFresh, PendingDistinct, NoReturn
  <2>5. QED
    BY <2>3, <2>4 DEF LedgerInv
<1>11. SurroundingsOK
  <2>1. told \subseteq Promise
    BY DEF ServiceInit, Promise, Stored
  <2>2. QED
    BY <2>1, NoCallType, ServiceAssumption DEF ServiceInit, SurroundingsOK
<1>12. ToldOK
  BY DEF ServiceInit, ToldOK, Known
<1>13. ASSUME NEW c \in Clients PROVE ClientOK(c)
  <2>1. wire[c] = NoCall /\ op[c] = Idle
    BY <1>7 DEF ServiceInit, Procs
  <2>2. QED
    BY <2>1 DEF ClientOK, EnRoute, Reads, Replied, ShowsInScope, In, NoCall, NoReply
<1>14. QED
  BY <1>8, <1>10, <1>11, <1>12, <1>13 DEF ServiceInv

LEMMA ServiceStep == ServiceInv /\ [ServiceNext]_serviceVars => ServiceInv'
<1> SUFFICES ASSUME ServiceInv, [ServiceNext]_serviceVars PROVE ServiceInv'
  OBVIOUS
<1>1. CASE UNCHANGED serviceVars \/ OpenHost
  BY <1>1, SameKept DEF serviceVars, OpenHost, ServiceInv, SurroundingsOK
<1>2. ASSUME NEW c \in Clients, NEW r \in ServiceRequests, NEW i \in Known \cup {0},
             Send(c, [r EXCEPT !.id = IF r.op \in ById THEN i ELSE 0])
      PROVE  ServiceInv'
  <2> DEFINE req == [r EXCEPT !.id = IF r.op \in ById THEN i ELSE 0]
  <2>1. Known \subseteq Ids
    BY DEF Known, Stored, ErasedIds, ServiceInv, TypeInv, TypeOK, MemoryRecord
  <2>2. req \in Request /\ req.id \in Known \cup {0}
    BY <2>1, ServiceAssumption DEF Request
  <2>3. QED
    <3>. HIDE DEF req
    <3>1. Send(c, req)
      BY <1>2 DEF req
    <3>2. QED
      BY <2>2, <3>1, SendKept
<1>3. ASSUME NEW c \in Clients, Serve(c) \/ FailCall(c) \/ FailRead(c) \/ Disconnect(c)
      PROVE  ServiceInv'
  BY <1>3, ReadingKept, HandleKept, ReceiveKept, FailCallKept, DisconnectKept DEF Serve
<1>4. CASE Crash \/ CloseHandle
  BY <1>4, BreakKept
<1>5. QED
  BY <1>1, <1>2, <1>3, <1>4 DEF ServiceNext

LEMMA ServiceInvariant == ServiceSpec => []ServiceInv
BY ServiceInitHolds, ServiceStep, PTL DEF ServiceSpec

\* Every variable stays in its type, whatever clients ask for and however hosts
\* and connections break: no handler answers with a record its call does not hold.
THEOREM ServiceTypes == ServiceSpec => []ServiceTypeOK
<1>1. ServiceInv => ServiceTypeOK
  BY DEF ServiceInv, SurroundingsOK, TypeInv, ServiceTypeOK
<1>2. QED
  BY <1>1, ServiceInvariant, PTL

\* What a client was told stays true, for any number of clients, crashes, broken
\* connections and closed handles: an acknowledged record is in the durable store
\* until it is purged, and one whose update or forgetting was acknowledged is
\* never a current fact again, although calls that read it before still write
\* their copies back.
THEOREM TruthKept == ServiceSpec => []PromisesKept
<1>1. ServiceInv => PromisesKept
  <2> SUFFICES ASSUME ServiceInv, NEW p \in told
               PROVE  IF p[1] = "stored"
                      THEN Backend = "local" => p[2] \in Stored \cup ErasedIds
                      ELSE p[2] \in Stored => store[p[2]].status # "Active"
    BY DEF PromisesKept
  <2>1. CASE p[1] = "stored"
    BY <2>1 DEF ServiceInv, ToldOK, Known
  <2>2. CASE p[1] # "stored"
    <3>1. Gone(p[2], GlobalScope)
      BY <2>2 DEF ServiceInv, ToldOK
    <3>2. QED
      BY <2>2, <3>1 DEF Gone, Contains, dim_matches, GlobalScope
  <2>3. QED
    BY <2>1, <2>2
<1>2. QED
  BY <1>1, ServiceInvariant, PTL

\* No answer, of any surface and any operation, shows a record outside the part of
\* the caller's scope the surface sends on: not the record a walk or a recall read
\* after the check of another, nor the one an update derived.
THEOREM AnswersStayInScope == ServiceSpec => []AnswersInScope
<1>1. ServiceInv => AnswersInScope
  BY SentMatches DEF ServiceInv, ClientOK, ShowsInScope, Asked, AnswersInScope
<1>2. QED
  BY <1>1, ServiceInvariant, PTL

=============================================================================
