---------------------------- MODULE MCGovernance ----------------------------
(***************************************************************************)
(* Two clients write; one principal of the first tenant's user reads.      *)
(***************************************************************************)
EXTENDS Governance

CONSTANTS c1, c2, p1, p2, agent, atlas, postgres

Scoped(tenant, user) ==
    [d \in Dims |-> IF d = "tenant" THEN tenant ELSE user]

Tenant == Scoped(p1, Unset)
Owner == Scoped(p1, p1)
Stranger == Scoped(p1, p2)

MCScopeOf == [p \in Principals |-> Owner]
MCQueryScopes == {GlobalScope, Tenant, Stranger}
MCCallScopes == {GlobalScope}

MCNormOf == [x \in Contents |-> x]
MCSimilarity == [p \in Contents \X Contents |-> 100]

MCRelationsOf ==
    [x \in Contents |-> IF x = "uses"
                        THEN {<<"USES", postgres>>, <<"RUNS_ON", postgres>>,
                              <<"OWNED_BY", atlas>>}
                        ELSE {}]

MCCuesOf ==
    [x \in Contents |-> IF x = "steps" THEN {"procedural", "preference"}
                        ELSE IF x = "must" THEN {"prospective"}
                        ELSE IF x = "likes" THEN {"preference"} ELSE {}]

MCConversations == {<<"uses", "steps", "must">>, <<"likes">>}

MCRequests ==
    {[scope |-> scope, subject |-> atlas, content |-> "uses", confidence |-> 50,
      source |-> "Agent",
      retention |-> [class |-> "Standard", expires_at |-> NoDeadline]] :
        scope \in {Owner, Stranger}}
=============================================================================
