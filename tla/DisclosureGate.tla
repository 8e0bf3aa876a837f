--------------------------- MODULE DisclosureGate ---------------------------
(***************************************************************************)
(* What governance promises, stated over what has been disclosed and what  *)
(* has been put on the audit trail alone: with an authorizer attached, a   *)
(* principal only ever learns of memories inside the scope it acts within, *)
(* and not before the permission is on the trail.  Nothing is ever taken   *)
(* off the trail.                                                          *)
(***************************************************************************)
EXTENDS MemoryDomain

CONSTANTS Principals, ScopeOf

VARIABLES
    gated,      \* whether an authorizer is attached
    trail,      \* the events the auditor was given
    disclosed   \* the principals and the records they have been shown

Permission(p, r) == [principal |-> p, record_id |-> r.id, allowed |-> TRUE]

Init == gated \in BOOLEAN /\ trail = {} /\ disclosed = {}

Record ==
    /\ trail \subseteq trail'
    /\ UNCHANGED <<gated, disclosed>>

Disclose(p) ==
    /\ disclosed \subseteq disclosed'
    /\ \A d \in disclosed' \ disclosed :
          /\ d[1] = p
          /\ gated => /\ Contains(ScopeOf[p], d[2].scope)
                      /\ Permission(p, d[2]) \in trail
    /\ UNCHANGED <<gated, trail>>

Next == Record \/ \E p \in Principals : Disclose(p)

Spec == Init /\ [][Next]_<<gated, trail, disclosed>>
=============================================================================
