------------------------------- MODULE Service -------------------------------
(***************************************************************************)
(* The ways into the engine from outside its process and language: the     *)
(* REST server, the client SDK that speaks to it, and the Node and Python  *)
(* bindings.  A client's call is checked by the surface, becomes an engine *)
(* call (whose steps are those of MemoryEngine) and is answered; meanwhile *)
(* the host process may crash, its connections may break, and a Node       *)
(* handle may be closed.  Rows outlive the host in the local store only;   *)
(* the in-process vector index never does.                                 *)
(*                                                                         *)
(* Which records a recall finds is the matter of Retrieval: here it reads  *)
(* any its scope shows, one after the other.                               *)
(***************************************************************************)
EXTENDS MemoryEngine

CONSTANTS
    Surfaces,        \* the surfaces clients may be using
    ServiceRequests, \* what they ask for, but for the identifier
    Blank,           \* a text of white space
    TooLong,         \* the statements of more than max_content_chars
    Mentions,        \* the statements that contain every word of one
    MaxBatchSize,    \* limits.max_batch_size
    MaxSends,        \* bound: calls of the clients
    MaxBreaks        \* bound: crashes, closed handles, broken connections

Operation == {"create", "patch", "delete", "purge", "get", "provenance",
              "history", "search", "recall"}

Writing == {"create", "patch", "delete", "purge"}

ById == {"patch", "delete", "purge", "get", "provenance", "history"}

\* id = 0 is a string that does not parse; known_type says whether the type is
\* one of the five names.
Request == [op : Operation, scope : Scope, text : Contents \cup {Blank},
            known_type : BOOLEAN, limit : Nat, id : Ids \cup {0}]

ASSUME ServiceAssumption ==
    /\ Surfaces \subseteq {"http", "sdk", "node", "python"}
    /\ ServiceRequests \subseteq Request
    /\ 50 \in Confidences
    /\ Blank \notin Contents
    /\ TooLong \subseteq Contents
    /\ Mentions \in [Contents -> SUBSET Contents]
    /\ MaxBatchSize \in Nat \ {0}
    /\ MaxSends \in Nat /\ MaxSends <= MaxCalls
    /\ MaxBreaks \in Nat
    /\ Backend \in {"memory", "local"} /\ ~DedupEnabled /\ ~ConflictEnabled
    /\ {"remember", "update", "forget", "purge"} \subseteq Calls

VARIABLES
    surface,   \* the surface the clients use
    host,      \* the process that holds the engine
    wire,      \* the call of each client
    told,      \* history: what clients have been told
    sends,     \* calls so far
    breaks     \* crashes, closed handles and broken connections so far

serviceVars == <<vars, surface, host, wire, told, sends, breaks>>

-----------------------------------------------------------------------------
(* What each surface offers, sends on and refuses *)

Offered(s) ==
    CASE s = "http" -> Operation
      [] s = "sdk"  -> Operation \ {"provenance"}
      [] s \in {"node", "python"} ->
           {"create", "patch", "delete", "history", "search", "recall"}

\* The dimensions of the caller's scope that reach the engine.
Sent(s, op_) ==
    CASE op_ = "create" ->
           IF s = "sdk" THEN {"tenant", "user"}
                        ELSE {"tenant", "user", "agent", "session"}
      [] op_ \in {"search", "recall"} -> IF s = "sdk" THEN {"tenant"} ELSE {"tenant", "user"}
      [] op_ \in ById   -> IF s = "http" THEN {"tenant", "user"} ELSE {}

\* Seeded fault: a query is only scoped when it names a tenant.
scope_if_tenant(s, r) ==
    [d \in Dims |-> IF d \in Sent(s, r.op) /\ ("tenant" \in Dims => r.scope["tenant"] # Unset)
                    THEN r.scope[d] ELSE Unset]

scope_from(s, r) == [d \in Dims |-> IF d \in Sent(s, r.op) THEN r.scope[d] ELSE Unset]

\* One of the five names, or none.
parse_type(r) == r.known_type

\* The checks of the surface itself: the identifier, the type, blank texts.
HandlerRefuses(s, r) ==
    \/ r.op \in ById /\ r.id = 0
    \/ r.op = "create" /\ (r.text = Blank \/ ~parse_type(r))
    \/ r.op = "patch" /\ r.text = Blank /\ s \in {"http", "sdk"}
    \/ r.op = "search" /\ r.text = Blank /\ s # "python"
    \/ r.op = "recall" /\ r.text = Blank /\ s # "node"

\* limit.max(1)
Limit(r) == IF r.limit = 0 THEN 1 ELSE r.limit

\* An update is not measured against max_content_chars.
RefusesContent(r) ==
    \/ r.op \in {"create", "patch"} /\ r.text = Blank
    \/ r.op = "create" /\ r.text \in TooLong

RefusesQuery(r) == r.op = "search" /\ (r.text = Blank \/ Limit(r) > MaxBatchSize)

\* A recall is not measured against max_batch_size.
RefusesRecall(r) == r.op = "recall" /\ r.text = Blank

\* The checks of the engine.
EngineRefuses(r) == RefusesContent(r) \/ RefusesQuery(r) \/ RefusesRecall(r)

\* Seeded fault: an error keeps the engine's name.
map_error_raw(s, error) == IF s \in {"node", "python"} THEN "failed" ELSE error

\* map_error; the bindings turn every engine error into one kind of exception.
map_error(s, error) ==
    IF s \in {"node", "python"} THEN "failed"
    ELSE CASE error = "Validation" -> "invalid"
           [] error = "NotFound"   -> "absent"
           [] error = "Storage"    -> "failed"

ReplyKind == {"none", "ok", "invalid", "absent", "failed"}

Reply == [kind : ReplyKind, rows : SUBSET MemoryRecord]

NoReply == [kind |-> "none", rows |-> {}]

Stage == {"idle", "handling", "walking", "recalling", "answered"}

NoRequest == [op |-> "get", scope |-> GlobalScope, text |-> Blank,
              known_type |-> TRUE, limit |-> 0, id |-> 0]

\* next is the record a walk through the history has still to fetch.
Wire == [stage : Stage, req : Request, reply : Reply, next : Nat]

NoCall == [stage |-> "idle", req |-> NoRequest, reply |-> NoReply, next |-> 0]

Promise == {"stored", "retired", "forgotten"} \X Ids

ServiceTypeOK ==
    /\ TypeOK
    /\ surface \in Surfaces
    /\ host \in {"up", "down", "closed"}
    /\ wire \in [Clients -> Wire]
    /\ told \subseteq Promise
    /\ sends \in 0..MaxSends
    /\ breaks \in 0..MaxBreaks

NewMemory(s, r) ==
    [scope      |-> scope_from(s, r),
     subject    |-> NoSubject,
     content    |-> r.text,
     confidence |-> 50,
     source     |-> "Agent",
     retention  |-> [class |-> "Standard", expires_at |-> NoDeadline]]

\* What a host may find: no row, or one that an earlier host acknowledged.  Its
\* vector went with that host.
EarlierStores ==
    {[i \in Ids |-> IF i \in 1..n THEN into_record(i, NewMemory("http", r))
                                  ELSE NoRecord] :
        n \in IF Backend = "local" THEN {0, 1} ELSE {0},
        r \in {q \in ServiceRequests : q.op = "create" /\ ~EngineRefuses(q)}}

ServiceInit ==
    /\ store \in EarlierStores
    /\ told = {<<"stored", i>> : i \in Stored}
    /\ nextId = Cardinality(Stored) + 1
    /\ vectors = [i \in Ids |-> NoVector]
    /\ evidence = {} /\ erased = {}
    /\ op = [c \in Procs |-> Idle]
    /\ calls = 0
    /\ surface \in Surfaces
    /\ host = "up"
    /\ wire = [c \in Clients |-> NoCall]
    /\ sends = 0
    /\ breaks = 0

In(c, stage) == wire[c].stage = stage
Advance(c, call) == wire' = [wire EXCEPT ![c] = call]

Under(r, stage) == [NoCall EXCEPT !.stage = stage, !.req = r]

\* What was asked for matters to nobody once the call has failed.
Answer(c, r, kind, rows) ==
    Advance(c, [Under(IF kind = "ok" THEN r ELSE NoRequest, "answered")
                   EXCEPT !.reply = [kind |-> kind, rows |-> rows]])

Surroundings == <<surface, host, told, sends, breaks>>

-----------------------------------------------------------------------------
(* A client calls, and the surface checks the call.  Node blocks its only     *)
(* thread meanwhile.                                                          *)

Sends(c, r) ==
    /\ In(c, "idle")
    /\ host # "down"
    /\ r.op \in Offered(surface)
    /\ surface = "node" => \A d \in Clients : In(d, "idle")
    /\ sends < MaxSends
    /\ sends' = sends + 1
    /\ UNCHANGED <<surface, host, told, breaks>>

\* A call of one operation that passes the checks.
Accepts(c, operation, r) ==
    /\ r.op = operation
    /\ Sends(c, r)
    /\ host = "up" /\ ~HandlerRefuses(surface, r) /\ ~EngineRefuses(r)

\* An invalid request, or a handle that was closed.
Refuse(c, r) ==
    /\ Sends(c, r)
    /\ \/ /\ HandlerRefuses(surface, r) \/ host = "closed"
          /\ Answer(c, r, "invalid", {})
       \/ /\ host = "up" /\ ~HandlerRefuses(surface, r) /\ EngineRefuses(r)
          /\ Answer(c, r, map_error(surface, "Validation"), {})
    /\ UNCHANGED vars

\* Seeded fault: the answer does not wait for the engine.
create_memory_early(c, r) ==
    /\ Accepts(c, "create", r)
    /\ nextId \in Ids
    /\ Answer(c, r, "ok", {into_record(nextId, NewMemory(surface, r))})
    /\ nextId' = nextId + 1
    /\ UNCHANGED <<store, vectors, evidence, op, calls, erased>>

create_memory(c, r) ==
    /\ Accepts(c, "create", r)
    /\ Remember(c, NewMemory(surface, r))
    /\ Advance(c, Under(r, "handling"))

patch_memory(c, r) ==
    /\ Accepts(c, "patch", r)
    /\ IF Visible(r.id, scope_from(surface, r))
       THEN /\ Update(c, r.id, scope_from(surface, r), r.text,
                      store[r.id].confidence)
            /\ Advance(c, Under(r, "handling"))
       ELSE /\ Answer(c, r, map_error(surface, "NotFound"), {})
            /\ UNCHANGED vars

\* 204, also when there was nothing to forget.
delete_memory(c, r) ==
    /\ Accepts(c, "delete", r)
    /\ Forget(c, r.id, scope_from(surface, r))
    /\ IF op'[c] = Idle THEN Answer(c, r, "ok", {})
                        ELSE Advance(c, Under(r, "handling"))

purge_memory(c, r) ==
    /\ Accepts(c, "purge", r)
    /\ Purge(c, r.id, scope_from(surface, r))
    /\ Advance(c, Under(r, "handling"))

\* recall_exact.
Found(r) == {s \in Rows : s.id = r.id /\ Contains(scope_from(surface, r), s.scope)}

AnswerFound(c, r, found) ==
    /\ Answer(c, r, IF found = {} THEN "absent" ELSE "ok", found)
    /\ UNCHANGED vars

\* Tombstones read as absent.
get_memory(c, r) ==
    /\ Accepts(c, "get", r)
    /\ AnswerFound(c, r, {s \in Found(r) : s.status # "Deleted"})

get_provenance(c, r) ==
    /\ Accepts(c, "provenance", r)
    /\ AnswerFound(c, r, Found(r))

Matching(r) ==
    {s \in Rows : /\ matches_query(s, scope_from(surface, r), {"Active"}, NoSubject)
                  /\ s.content \in Mentions[r.text]}

search(c, r) ==
    /\ Accepts(c, "search", r)
    /\ Answer(c, r, "ok", Newest(Matching(r), Limit(r)))
    /\ UNCHANGED vars

-----------------------------------------------------------------------------
(* history: one get for each record of the chain *)

get_history(c, r) ==
    /\ Accepts(c, "history", r)
    /\ Advance(c, [Under(r, "walking") EXCEPT !.next = r.id])
    /\ UNCHANGED vars

Walk(c) ==
    LET i == wire[c].next
    IN  /\ In(c, "walking")
        /\ IF i # 0 /\ Visible(i, scope_from(surface, wire[c].req))
           THEN Advance(c, [wire[c] EXCEPT !.next = store[i].supersedes,
                                           !.reply.rows = @ \cup {store[i]}])
           ELSE Answer(c, wire[c].req, "ok", wire[c].reply.rows)
        /\ UNCHANGED <<vars, Surroundings>>

-----------------------------------------------------------------------------
(* recall: the records are read one after the other, then compared *)

recall(c, r) ==
    /\ Accepts(c, "recall", r)
    /\ Advance(c, Under(r, "recalling"))
    /\ UNCHANGED vars

HydrateOne(c) ==
    /\ In(c, "recalling")
    /\ \E s \in Rows :
          /\ Contains(scope_from(surface, wire[c].req), s.scope)
          /\ \A t \in wire[c].reply.rows : t.id # s.id
          /\ Advance(c, [wire[c] EXCEPT !.reply.rows = @ \cup {s}])
    /\ UNCHANGED <<vars, Surroundings>>

\* A candidate loses to its successor; the budget cuts off any of the others.
Ranked(found, budget) ==
    {shown \in SUBSET {s \in found : \A t \in found : t.supersedes # s.id} :
        Cardinality(shown) <= budget}

Recalled(c) ==
    /\ In(c, "recalling")
    /\ \E shown \in Ranked(wire[c].reply.rows, Limit(wire[c].req)) :
          Answer(c, wire[c].req, "ok", shown)
    /\ UNCHANGED <<vars, Surroundings>>

\* A provider fails during a read.
FailRead(c) ==
    /\ CanFail
    /\ wire[c].stage \in {"walking", "recalling"}
    /\ Answer(c, wire[c].req, map_error(surface, "Storage"), {})
    /\ UNCHANGED <<vars, Surroundings>>

-----------------------------------------------------------------------------
(* The engine call goes on; the last of its steps is the answer *)

\* The write-back of update and forget finds no row.
WriteBackFails(c) ==
    op[c].pc \in {"retire", "tombstone"} /\ ~op[c].checked /\ ~CanUpdate(op[c].old)

Finished(c) ==
    IF WriteBackFails(c)
    THEN Answer(c, wire[c].req, map_error(surface, "NotFound"), {})
    ELSE Answer(c, wire[c].req, "ok",
                IF wire[c].req.op \in {"create", "patch"} THEN {op[c].rec} ELSE {})

Handle(c) ==
    /\ In(c, "handling")
    /\ Continue(c)
    /\ IF op'[c] = Idle THEN Finished(c) ELSE UNCHANGED wire
    /\ UNCHANGED Surroundings

\* A provider fails.
FailCall(c) ==
    /\ In(c, "handling")
    /\ Abort(c)
    /\ Answer(c, wire[c].req, map_error(surface, "Storage"), {})
    /\ UNCHANGED Surroundings

\* What an answer promises: the record it shows is stored; the one that was
\* replaced or forgotten, if the call could see it, is no current fact.
Promises(c) ==
    LET r == wire[c].req
        kept == {<<"stored", s.id>> : s \in wire[c].reply.rows}
        gone == IF r.op \in {"patch", "delete"} /\ r.id \in Stored
                      /\ Contains(scope_from(surface, r), store[r.id].scope)
                THEN {<<IF r.op = "patch" THEN "retired" ELSE "forgotten", r.id>>}
                ELSE {}
    IN  IF wire[c].reply.kind = "ok" THEN kept \cup gone ELSE {}

Receive(c) ==
    /\ In(c, "answered")
    /\ told' = told \cup (IF wire[c].req.op \in Writing THEN Promises(c) ELSE {})
    /\ Advance(c, NoCall)
    /\ UNCHANGED <<vars, surface, host, sends, breaks>>

-----------------------------------------------------------------------------
(* Breaks *)

\* The engine's process memory is lost, and what it held of each call.
LoseEngine ==
    /\ store' = IF Backend = "memory" THEN [i \in Ids |-> NoRecord] ELSE store
    /\ vectors' = [i \in Ids |-> NoVector]
    /\ evidence' = {}
    /\ op' = [c \in Procs |-> Idle]
    /\ UNCHANGED <<nextId, calls, erased>>

\* Seeded fault: a client is not told of the broken connection.
CrashSilent ==
    /\ host = "up"
    /\ breaks < MaxBreaks
    /\ breaks' = breaks + 1
    /\ host' = "down"
    /\ LoseEngine
    /\ UNCHANGED <<surface, wire, told, sends>>

\* Every client of the process sees a transport error, or went down with it.
Crash ==
    /\ host = "up"
    /\ breaks < MaxBreaks
    /\ breaks' = breaks + 1
    /\ host' = "down"
    /\ LoseEngine
    /\ wire' = [c \in Clients |-> NoCall]
    /\ UNCHANGED <<surface, told, sends>>

\* memory_close.
CloseHandle ==
    /\ surface = "node" /\ host = "up"
    /\ \A c \in Clients : In(c, "idle")
    /\ breaks < MaxBreaks
    /\ breaks' = breaks + 1
    /\ host' = "closed"
    /\ LoseEngine
    /\ UNCHANGED <<surface, wire, told, sends>>

\* main of the server, memory_open, Memory(path).
OpenHost ==
    /\ host # "up"
    /\ host' = "up"
    /\ UNCHANGED <<vars, surface, wire, told, sends, breaks>>

\* The connection breaks: the client sees a transport error and the server
\* drops the handler where it waits.
Disconnect(c) ==
    /\ surface \in {"http", "sdk"}
    /\ ~In(c, "idle")
    /\ breaks < MaxBreaks
    /\ breaks' = breaks + 1
    /\ Advance(c, NoCall)
    /\ op' = [op EXCEPT ![c] = Idle]
    /\ UNCHANGED <<store, vectors, evidence, nextId, calls, erased, surface, host,
                   told, sends>>

Send(c, r) ==
    \/ Refuse(c, r)
    \/ create_memory(c, r) \/ patch_memory(c, r) \/ delete_memory(c, r)
    \/ purge_memory(c, r)
    \/ get_memory(c, r) \/ get_provenance(c, r) \/ get_history(c, r)
    \/ search(c, r) \/ recall(c, r)

Serve(c) == Walk(c) \/ HydrateOne(c) \/ Recalled(c) \/ Handle(c) \/ Receive(c)

ServiceNext ==
    \/ \E c \in Clients :
          \/ \E r \in ServiceRequests, i \in Known \cup {0} :
                Send(c, [r EXCEPT !.id = IF r.op \in ById THEN i ELSE 0])
          \/ Serve(c) \/ FailCall(c) \/ FailRead(c) \/ Disconnect(c)
    \/ Crash \/ CloseHandle \/ OpenHost

ServiceSpec == ServiceInit /\ [][ServiceNext]_serviceVars

\* A server polls its handlers, and an answer on the wire arrives unless the
\* connection breaks.  Nobody has to send, and nobody restarts a host.
FairServiceSpec ==
    ServiceSpec /\ \A c \in Clients : WF_serviceVars(Serve(c))

-----------------------------------------------------------------------------
(* Properties *)

\* What a client was told stays true, through races with other clients, broken
\* connections, crashes and restarts: an acknowledged record is in the durable
\* store until it is purged, and a record whose update or forgetting was
\* acknowledged never becomes a current fact again.
PromisesKept ==
    \A p \in told :
        IF p[1] = "stored"
        THEN Backend = "local" => p[2] \in Stored \cup ErasedIds
        ELSE p[2] \in Stored => store[p[2]].status # "Active"

\* No answer shows a record outside the part of the caller's scope that the
\* surface sends on, whatever moves between the check and the read.
AnswersInScope ==
    \A c \in Clients : \A s \in wire[c].reply.rows :
        \A d \in Dims \cap Sent(surface, wire[c].req.op) :
            dim_matches(wire[c].req.scope[d], s.scope[d])

\* Every call comes back: with an answer, or with a transport error.
CallsReturn == \A c \in Clients : wire[c].stage # "idle" ~> wire[c].stage = "idle"

\* Forgetting is hiding: GET does not show a memory whose forgetting has been
\* acknowledged.
ForgottenStaysHidden ==
    [][\A c \in Clients :
          In(c, "idle") /\ wire'[c].req.op = "get"
            => \A s \in wire'[c].reply.rows : <<"forgotten", s.id>> \notin told
      ]_serviceVars
=============================================================================
