----------------------------- MODULE Membership -----------------------------
(***************************************************************************)
(* What the proxy promises of a group: it is a set of connection names,    *)
(* changed by one call at a time, and only by that call's own name.  A     *)
(* name is in as its attach ends and out as its detach begins.  Groups     *)
(* implements the set with a slice that is edited in place.                *)
(***************************************************************************)
CONSTANT Names
VARIABLES
    members,
    joining,  \* the name whose attach is under way, if any
    leaving   \* the name whose detach is under way, if any

Idle == joining = {} /\ leaving = {}

Attach(n) ==
    /\ Idle /\ n \notin members
    /\ joining' = {n}
    /\ UNCHANGED <<members, leaving>>

Attached(n) ==
    /\ n \in joining
    /\ members' = members \cup {n} /\ joining' = {}
    /\ UNCHANGED leaving

Detach(n) ==
    /\ Idle /\ n \in members
    /\ members' = members \ {n} /\ leaving' = {n}
    /\ UNCHANGED joining

Detached(n) ==
    /\ n \in leaving
    /\ leaving' = {}
    /\ UNCHANGED <<members, joining>>

MembershipSpec ==
    /\ members = {} /\ Idle
    /\ [][\E n \in Names : \/ Attach(n) \/ Attached(n)
                           \/ Detach(n) \/ Detached(n)]_<<members, joining, leaving>>
=============================================================================
