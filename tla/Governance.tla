----------------------------- MODULE Governance -----------------------------
(***************************************************************************)
(* Governed recall: principals read through the authorizer and the audit   *)
(* trail while clients write, revise and erase memories ungoverned.  Every *)
(* await is a step.  Which memories a hybrid recall finds is the matter of *)
(* Retrieval: here it gathers any that the query scope shows, each as it   *)
(* is when it is read.  An auditor is attached; without one, audit does    *)
(* nothing.                                                                *)
(***************************************************************************)
EXTENDS Evidence

CONSTANTS
    Principals,   \* the callers of the governed reads
    ScopeOf,      \* the scope each of them acts within
    QueryScopes,  \* the scopes they ask for
    Budget,       \* the most memories a recall returns
    MaxReads      \* bound: governed reads

ASSUME GovernanceAssumption ==
    /\ ScopeOf \in [Principals -> Scope]
    /\ QueryScopes \subseteq Scope
    /\ Budget \in Nat
    /\ MaxReads \in Nat

VARIABLES
    gated,      \* whether an authorizer is attached
    read,       \* the governed read of each principal
    reads,      \* governed reads so far
    trail,      \* the events the auditor has stored
    lost,       \* the events the auditor failed to store
    disclosed   \* history: what the principals have been shown

readVars == <<read, reads, trail, lost, disclosed>>
governanceVars == <<evidenceVars, gated, readVars>>

Event == [principal : Principals, record_id : Ids \cup {0}, allowed : BOOLEAN]

Read == [stage : {"idle", "gather", "govern", "report", "return"}, scope : Scope,
         hits : SUBSET MemoryRecord, allowed : SUBSET MemoryRecord,
         exact : BOOLEAN]

NoRead == [stage |-> "idle", scope |-> GlobalScope, hits |-> {}, allowed |-> {},
           exact |-> FALSE]

GovernanceTypeOK ==
    /\ EvidenceTypeOK
    /\ gated \in BOOLEAN
    /\ read \in [Principals -> Read]
    /\ reads \in 0..MaxReads
    /\ trail \subseteq Event /\ lost \subseteq Event
    /\ disclosed \subseteq Principals \X MemoryRecord

GovernanceInit ==
    /\ EvidenceInit
    /\ gated \in BOOLEAN
    /\ read = [p \in Principals |-> NoRead]
    /\ reads = 0
    /\ trail = {} /\ lost = {} /\ disclosed = {}

InStage(p, stage) == read[p].stage = stage
Set(p, r) == read' = [read EXCEPT ![p] = r]

\* An auditor that fails is ignored.
audit(p, i, allowed) ==
    LET event == [principal |-> p, record_id |-> i, allowed |-> allowed]
    IN  \/ trail' = trail \cup {event} /\ UNCHANGED lost
        \/ lost' = lost \cup {event} /\ UNCHANGED trail

\* ScopeAuthorizer.
authorize_read(p, r) == Contains(ScopeOf[p], r.scope)

Begins(p) ==
    /\ InStage(p, "idle")
    /\ reads < MaxReads
    /\ reads' = reads + 1
    /\ UNCHANGED <<trail, lost, disclosed>>

\* A query that contradicts the principal's scope is refused, without an event.
recall_for(p, scope) ==
    /\ Begins(p)
    /\ IF CanIntersect(ScopeOf[p], scope)
       THEN Set(p, [NoRead EXCEPT !.stage = "gather",
                                  !.scope = Intersect(ScopeOf[p], scope)])
       ELSE UNCHANGED read

Gather(p) ==
    /\ InStage(p, "gather")
    /\ Cardinality(read[p].hits) < Budget
    /\ \E r \in Rows :
          /\ Contains(read[p].scope, r.scope)
          /\ \A h \in read[p].hits : h.id # r.id
          /\ Set(p, [read[p] EXCEPT !.hits = @ \cup {r}])
    /\ UNCHANGED <<reads, trail, lost, disclosed>>

\* The recall returns; without an authorizer its hits are not looked at.
Gathered(p) ==
    /\ InStage(p, "gather")
    /\ Set(p, IF gated THEN [read[p] EXCEPT !.stage = "govern"]
              ELSE [read[p] EXCEPT !.stage = "report", !.hits = {},
                                   !.allowed = read[p].hits])
    /\ UNCHANGED <<reads, trail, lost, disclosed>>

\* recall_exact_for reads with the scope of the call, not the principal's.
recall_exact_for(p, i, scope) ==
    /\ Begins(p)
    /\ Set(p, IF ~Visible(i, scope) THEN NoRead
              ELSE IF gated
              THEN [NoRead EXCEPT !.stage = "govern", !.exact = TRUE,
                                  !.hits = {store[i]}]
              ELSE [NoRead EXCEPT !.stage = "return", !.exact = TRUE,
                                  !.allowed = {store[i]}])

\* Seeded fault: what is denied stays among the hits that are returned.
govern_read_keeps(p) ==
    /\ InStage(p, "govern")
    /\ \E r \in read[p].hits :
          /\ audit(p, r.id, authorize_read(p, r))
          /\ Set(p, [read[p] EXCEPT !.hits = @ \ {r}, !.allowed = @ \cup {r}])
    /\ UNCHANGED <<reads, disclosed>>

\* govern_read, and the second half of recall_exact_for: one decision.
govern_read(p) ==
    /\ InStage(p, "govern")
    /\ \E r \in read[p].hits :
          /\ audit(p, r.id, authorize_read(p, r))
          /\ Set(p, [read[p] EXCEPT
                        !.hits = @ \ {r},
                        !.allowed = IF authorize_read(p, r) THEN @ \cup {r} ELSE @])
    /\ UNCHANGED <<reads, disclosed>>

\* Seeded fault: a read that is denied everything does not end.
Governed_if_any(p) ==
    /\ InStage(p, "govern")
    /\ read[p].hits = {} /\ read[p].allowed # {}
    /\ Set(p, [read[p] EXCEPT !.stage = IF read[p].exact THEN "return" ELSE "report"])
    /\ UNCHANGED <<reads, trail, lost, disclosed>>

Governed(p) ==
    /\ InStage(p, "govern")
    /\ read[p].hits = {}
    /\ Set(p, [read[p] EXCEPT !.stage = IF read[p].exact THEN "return" ELSE "report"])
    /\ UNCHANGED <<reads, trail, lost, disclosed>>

\* The query is an event of its own.
ReportQuery(p) ==
    /\ InStage(p, "report")
    /\ audit(p, 0, TRUE)
    /\ Set(p, [read[p] EXCEPT !.stage = "return"])
    /\ UNCHANGED <<reads, disclosed>>

Return(p) ==
    /\ InStage(p, "return")
    /\ disclosed' = disclosed \cup {<<p, r>> : r \in read[p].allowed}
    /\ Set(p, NoRead)
    /\ UNCHANGED <<reads, trail, lost>>

\* A provider fails during the recall, or the caller gives up.
CancelRead(p) ==
    /\ ~InStage(p, "idle")
    /\ Set(p, NoRead)
    /\ UNCHANGED <<reads, trail, lost, disclosed>>

Govern(p) ==
    \/ Gather(p) \/ Gathered(p) \/ govern_read(p) \/ Governed(p)
    \/ ReportQuery(p) \/ Return(p)

GovernedStep(p) ==
    \/ \E scope \in QueryScopes :
          recall_for(p, scope) \/ \E i \in Known : recall_exact_for(p, i, scope)
    \/ Govern(p) \/ CancelRead(p)

GovernanceNext ==
    \/ EvidenceNext /\ UNCHANGED <<gated, readVars>>
    \/ \E p \in Principals : GovernedStep(p) /\ UNCHANGED <<evidenceVars, gated>>

GovernanceSpec == GovernanceInit /\ [][GovernanceNext]_governanceVars

\* A read under way is polled until it returns.  Nobody has to write or to read.
FairGovernanceSpec ==
    /\ GovernanceSpec
    /\ \A p \in Principals :
          WF_governanceVars(Govern(p) /\ UNCHANGED <<evidenceVars, gated>>)

-----------------------------------------------------------------------------
(* Properties *)

Gate == INSTANCE DisclosureGate WITH trail <- trail \cup lost

\* Governed reads keep the promise of DisclosureGate, whatever is written,
\* revised and erased between the recall, the decisions and the answer: nothing
\* outside the principal's scope is disclosed, and nothing before the auditor
\* was given the permission.
GateSpec == Gate!Spec

\* A governed read comes back, with an answer or an error.
ReadsReturn ==
    \A p \in Principals : read[p].stage # "idle" ~> read[p].stage = "idle"
=============================================================================
