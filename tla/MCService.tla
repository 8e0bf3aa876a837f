------------------------------ MODULE MCService ------------------------------
(***************************************************************************)
(* Two clients of one host over the local store.  One of the scopes pins   *)
(* the tenant, the other the user only.                                    *)
(***************************************************************************)
EXTENDS Service

CONSTANTS c1, c2, p1

MCScope(dim) == [d \in Dims |-> IF d = dim THEN p1 ELSE Unset]

Tenant == MCScope("tenant")
User == MCScope("user")

MCNormOf == [x \in Contents |-> x]
MCSimilarity == [p \in Contents \X Contents |-> 100]

\* "long" is a long statement that contains "a".
MCMentions == [x \in Contents |-> IF x = "a" THEN Contents ELSE {x}]

Ask(operation, scope, text, limit) ==
    [op |-> operation, scope |-> scope, text |-> text, known_type |-> TRUE,
     limit |-> limit, id |-> 0]

\* Well-formed calls, calls from another scope, and what is refused somewhere.
MCServiceRequests ==
    {Ask("create", Tenant, "a", 0), Ask("create", Tenant, "long", 0),
     [Ask("create", Tenant, "a", 0) EXCEPT !.known_type = FALSE],
     Ask("patch", Tenant, "a", 0), Ask("patch", User, Blank, 0),
     Ask("search", User, "a", 0), Ask("search", Tenant, Blank, 1),
     Ask("search", Tenant, "a", 3),
     Ask("recall", User, "a", 2), Ask("recall", Tenant, Blank, 1)}
    \cup {Ask(operation, Tenant, "a", 0) :
            operation \in {"delete", "purge", "get", "history"}}
    \cup {Ask("provenance", User, "a", 0)}
=============================================================================
