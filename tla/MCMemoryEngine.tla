--------------------------- MODULE MCMemoryEngine ---------------------------
(***************************************************************************)
(* Small instances of MemoryEngine.                                        *)
(***************************************************************************)
EXTENDS MemoryEngine, TLC

CONSTANTS c1, c2, s1, t1, t2

MCScope(tenant, org) ==
    [d \in Dims |-> IF d = "tenant" THEN tenant
                    ELSE IF d = "organization" THEN org ELSE Unset]

MCRequest(scope, subject, content, source, class, deadline) ==
    [scope |-> scope, subject |-> subject, content |-> content,
     confidence |-> 50, source |-> source,
     retention |-> [class |-> class, expires_at |-> deadline]]

Symmetric == Permutations(Clients)

-----------------------------------------------------------------------------
(* Statements: "A" is "a" in other capitals, "b" nearly repeats "a", "r" is   *)
(* close enough to "a" to need a review, and "n" negates.                     *)

MCNormOf == [x \in Contents |-> IF x = "A" THEN "a" ELSE x]

MCSimilarity ==
    [p \in Contents \X Contents |->
        IF MCNormOf[p[1]] = MCNormOf[p[2]] THEN 100
        ELSE IF {MCNormOf[p[1]], MCNormOf[p[2]]} = {"a", "b"} THEN 95
        ELSE IF {p[1], p[2]} = {"a", "r"} THEN 85
        ELSE 10]

MCNegating == Contents \cap {"n"}

-----------------------------------------------------------------------------
(* Default configuration: writes, updates and removals race. *)

Tenant1 == MCScope(t1, Unset)
Tenant2 == MCScope(t2, Unset)

RaceScopes == {Tenant1, Tenant2}
RaceRequests == {MCRequest(Tenant1, s1, "a", "User", "Session", 1),
                 MCRequest(Tenant1, NoSubject, "a", "Agent", "Standard", 1)}

-----------------------------------------------------------------------------
(* Deduplication and contradiction analysis on, over Postgres. *)

PolicyScopes == {Tenant1}
PolicyRequests ==
    {MCRequest(Tenant1, s1, x, "Agent", "Standard", NoDeadline) : x \in Contents}
        \cup {MCRequest(Tenant1, s1, "a", "User", "Standard", NoDeadline),
              MCRequest(Tenant1, NoSubject, "n", "Agent", "Standard", NoDeadline)}

-----------------------------------------------------------------------------
(* A fact on a subject, and the same fact in newer words. *)

FactRequests ==
    {MCRequest(Tenant1, s1, x, "Agent", "Standard", NoDeadline) : x \in Contents}
=============================================================================
