------------------------------ MODULE Retrieval ------------------------------
(***************************************************************************)
(* Hybrid recall over the engine's providers, while the calls of           *)
(* MemoryEngine go on: a rule-based plan splits the budget over at most    *)
(* three lookups, the lookups run concurrently, and their candidates are   *)
(* merged, cleared of superseded versions, ranked and cut.                 *)
(*                                                                         *)
(* Scores are not modelled: wherever they decide what a limit cuts off,    *)
(* any choice is possible, and every statement is similar to the query.    *)
(* Records are of type Semantic.  An embedder and an index are configured. *)
(***************************************************************************)
EXTENDS MemoryEngine, Sequences

CONSTANTS
    RecallRequests,   \* the requests callers make
    Mentions          \* the statements that contain the query's first keyword

RecallMode == {"Auto", "ExactOnly", "SemanticOnly"}

MemoryType == {"Working", "Episodic", "Semantic", "Procedural", "Prospective"}

\* types are the requested ones, or the ones inferred from the text; keywords
\* says whether the text has any.
RecallRequest ==
    [mode : RecallMode, scope : Scope, types : SUBSET MemoryType \ {{}},
     subject : Subjects \cup {NoSubject}, keywords : BOOLEAN,
     episodic : BOOLEAN, budget : Nat]

ASSUME RetrievalAssumption ==
    /\ RecallRequests \subseteq RecallRequest
    /\ RecallRequests # {}
    /\ Mentions \subseteq Contents

-----------------------------------------------------------------------------
(* The planner *)

LookupKind == {"ExactSubject", "Keyword", "Semantic"}

exact_steps(req) ==
    IF req.subject # NoSubject THEN <<"ExactSubject">> ELSE <<>>

keyword_step(req) == IF req.keywords THEN <<"Keyword">> ELSE <<>>

\* Working state lives outside similarity search.
semantic_step(req) ==
    IF "Working" \in req.types THEN <<>> ELSE <<"Semantic">>

ModeSteps(req) ==
    CASE req.mode = "ExactOnly" ->
           IF exact_steps(req) # <<>> THEN exact_steps(req) ELSE keyword_step(req)
      [] req.mode = "SemanticOnly" -> semantic_step(req)
      [] req.mode = "Auto" /\ req.subject # NoSubject ->
           exact_steps(req) \o semantic_step(req)
      [] req.mode = "Auto" /\ req.subject = NoSubject ->
           semantic_step(req)
             \o (IF "Semantic" \in req.types THEN keyword_step(req) ELSE <<>>)

episodic_step(req) ==
    IF req.episodic /\ "Episodic" \notin req.types THEN <<"Semantic">> ELSE <<>>

Steps(req) == ModeSteps(req) \o episodic_step(req)

AtLeastOne(n) == IF n = 0 THEN 1 ELSE n

Total(f, n) ==
    LET sum[i \in 0..n] == IF i = 0 THEN 0 ELSE sum[i - 1] + f[i]
    IN  sum[n]

Weights(n) == [i \in 1..n |-> 2 ^ (IF n - i > 8 THEN 8 ELSE n - i)]

Shares(n, budget) ==
    [i \in 1..n |-> AtLeastOne((budget * Weights(n)[i]) \div Total(Weights(n), n))]

\* Seeded fault: what rounding leaves over is lost.
split_budget_rounding(n, budget) ==
    IF budget = 0 THEN [i \in 1..n |-> 0] ELSE Shares(n, budget)

\* Earlier steps get more, each at least one, the first what rounding leaves over.
split_budget(n, budget) ==
    IF budget = 0 \/ n = 0 THEN [i \in 1..n |-> 0]
    ELSE LET shares == Shares(n, budget)
             assigned == Total(shares, n)
         IN  IF assigned < budget
             THEN [shares EXCEPT ![1] = @ + (budget - assigned)]
             ELSE shares

plan(req) ==
    [i \in 1..Len(Steps(req)) |->
        [kind  |-> Steps(req)[i],
         limit |-> split_budget(Len(Steps(req)), req.budget)[i]]]

-----------------------------------------------------------------------------
(* The executor *)

VARIABLES
    recall,   \* one recall, before, during and after
    removed   \* history: identifiers that somebody forgot or purged

recallVars == <<vars, recall, removed>>

\* For each step of the plan: whether it waits for its lookup, the hits still to
\* hydrate, and what it found.
StepState == [waiting : BOOLEAN, hits : SUBSET Ids, found : SUBSET MemoryRecord]

NewStep == [waiting |-> TRUE, hits |-> {}, found |-> {}]

NoRecall ==
    [pc |-> "idle", req |-> CHOOSE req \in RecallRequests : TRUE,
     steps |-> <<>>, closed |-> {}, shown |-> {}, wanted |-> {}]

\* closed are the facts whose window had ended when the plan fixed valid_at;
\* wanted is history: the records it could find at that moment.
RecallTypeOK ==
    /\ recall.pc \in {"idle", "steps", "done"}
    /\ recall.req \in RecallRequests
    /\ recall.steps \in Seq(StepState)
    /\ recall.pc = "steps" => Len(recall.steps) = Len(Steps(recall.req))
    /\ recall.closed \subseteq Ids
    /\ recall.shown \subseteq MemoryRecord
    /\ recall.wanted \subseteq Ids
    /\ removed \subseteq Ids

RetrievalInit == Init /\ recall = NoRecall /\ removed = {}

Kinds(req) == {Steps(req)[k] : k \in 1..Len(Steps(req))}

\* What a lookup of the request is bound to find when its limit allows.
Findable(req) ==
    {i \in Stored :
        /\ Visible(i, req.scope)
        /\ store[i].status = "Active" /\ ~store[i].ended
        /\ \/ "Semantic" \in Kinds(req) /\ i \in Indexed
           \/ /\ "ExactSubject" \in Kinds(req) /\ "Semantic" \in req.types
              /\ store[i].subject = req.subject}

\* Seeded fault: the lookup for supporting evidence is not started.
PlanNoEvidence(req) ==
    /\ recall.pc = "idle"
    /\ recall' = [pc |-> "steps", req |-> req,
                  steps |-> [k \in 1..Len(ModeSteps(req)) |-> NewStep],
                  closed |-> {i \in Stored : store[i].ended},
                  shown |-> {}, wanted |-> Findable(req)]

Plan(req) ==
    /\ recall.pc = "idle"
    /\ recall' = [pc |-> "steps", req |-> req,
                  steps |-> [k \in 1..Len(Steps(req)) |-> NewStep],
                  closed |-> {i \in Stored : store[i].ended},
                  shown |-> {}, wanted |-> Findable(req)]

\* The store filters by type, status and validity at the planned instant.
Answers(kind) ==
    {r \in Rows :
        /\ Contains(recall.req.scope, r.scope)
        /\ "Semantic" \in recall.req.types
        /\ r.status = "Active"
        /\ r.id \notin recall.closed
        /\ kind = "ExactSubject" => r.subject = recall.req.subject
        /\ kind = "Keyword" => r.content \in Mentions}

Limit(k) == AtLeastOne(plan(recall.req)[k].limit)

Waiting(k) == recall.pc = "steps" /\ recall.steps[k].waiting

StoreLookup(k) ==
    /\ Waiting(k)
    /\ Steps(recall.req)[k] # "Semantic"
    /\ recall' = [recall EXCEPT
          !.steps[k].waiting = FALSE,
          !.steps[k].found = Newest(Answers(Steps(recall.req)[k]), Limit(k))]

\* As many members of S as the limit allows, whichever score best.
Best(S, limit) ==
    {T \in SUBSET S : /\ Cardinality(T) <= limit
                      /\ T # S => Cardinality(T) = limit}

\* The search has no metadata filter, and neither index looks at the scope and the
\* type it is given.
Search(k) ==
    /\ Waiting(k)
    /\ Steps(recall.req)[k] = "Semantic"
    /\ \E hits \in Best(Indexed, Limit(k)) :
          recall' = [recall EXCEPT !.steps[k].waiting = FALSE,
                                   !.steps[k].hits = hits]

\* Every hit is read from the store; only the scope is looked at.
HydrateHit(k) ==
    /\ recall.pc = "steps"
    /\ \E i \in recall.steps[k].hits :
          recall' = [recall EXCEPT
             !.steps[k].hits = @ \ {i},
             !.steps[k].found =
                @ \cup (IF Visible(i, recall.req.scope) THEN {store[i]} ELSE {})]

\* The copy of the first step that found an identifier is kept.
Merged ==
    UNION {{r \in recall.steps[k].found :
               \A j \in 1..(k - 1) : \A s \in recall.steps[j].found : s.id # r.id}
             : k \in 1..Len(recall.steps)}

\* Seeded fault: every retired copy is dropped.
CurrentByStatus(rs) == {r \in rs : r.status # "Superseded"}

\* A candidate loses to a successor that is a candidate too.
Current(rs) == {r \in rs : \A s \in rs : s.supersedes # r.id}

Return ==
    /\ recall.pc = "steps"
    /\ \A k \in 1..Len(recall.steps) : ~Waiting(k) /\ recall.steps[k].hits = {}
    /\ \E shown \in Best(Current(Merged), recall.req.budget) :
          recall' = [recall EXCEPT !.pc = "done", !.steps = <<>>, !.shown = shown]

\* A provider error of any step fails the recall.
FailRecall ==
    /\ recall.pc = "steps"
    /\ recall' = NoRecall

RecallStep ==
    \/ \E req \in RecallRequests : Plan(req)
    \/ \E k \in 1..Len(recall.steps) :
          StoreLookup(k) \/ Search(k) \/ HydrateHit(k)
    \/ Return \/ FailRecall

\* A step of the engine, and what it removes.
EngineStep ==
    /\ Next
    /\ removed' = removed \cup
         {i \in Stored : store'[i] = NoRecord \/ store'[i].status = "Deleted"}
    /\ UNCHANGED recall

RetrievalNext ==
    \/ EngineStep
    \/ RecallStep /\ UNCHANGED <<vars, removed>>

RetrievalSpec == RetrievalInit /\ [][RetrievalNext]_recallVars

-----------------------------------------------------------------------------
(* Properties *)

History == Rows \cup erased

\* Whether i is record w or a later version of it.
Descends(i, w) ==
    LET reaches[j \in 0..MaxRecords] ==
            \/ j = w
            \/ \E r \in History : r.id = j /\ r.supersedes < j
                                  /\ reaches[r.supersedes]
    IN  reaches[i]

\* No limit of the plan cuts anything off.
Ample(req) ==
    /\ req.budget >= MaxRecords
    /\ \A k \in 1..Len(Steps(req)) : plan(req)[k].limit >= MaxRecords

\* An update leaves no gap: a fact that could be found when the recall was planned
\* is shown in that version or a later one, however updates of it interleave with
\* the lookups, unless some version of it was forgotten or purged.
UpdatesLeaveNoGap ==
    recall.pc = "done" /\ Ample(recall.req) =>
        \A w \in recall.wanted :
            \/ \E r \in recall.shown : Descends(r.id, w)
            \/ \E i \in removed : Descends(i, w)

\* What each step of the plan may bring.
Limits == [k \in 1..Len(recall.steps) |-> plan(recall.req)[k].limit]

\* The split of the budget: each step gets at least one candidate and, when the
\* budget has one for each, nothing of it is lost or added in rounding.
BudgetSpent ==
    recall.pc = "steps" /\ recall.req.budget > 0 =>
        /\ \A k \in DOMAIN Limits : Limits[k] > 0
        /\ Len(recall.steps) \in 1..recall.req.budget =>
               Total(Limits, Len(recall.steps)) = recall.req.budget

\* The promise of split_budget (planner.rs:226): the limits sum to at most the
\* plan's budget, however few candidates that is for the steps there are.
LimitsWithinBudget ==
    recall.pc = "steps" =>
        Total(Limits, Len(recall.steps)) <= recall.req.budget
=============================================================================
