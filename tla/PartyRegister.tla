----------------------------- MODULE PartyRegister -----------------------------
(***************************************************************************)
(* What the readers of entity resolution's results can rely on, without    *)
(* passes, sessions, locks or failures: each event belongs to one party or *)
(* to none yet, and a register of parties only grows.  Resolution          *)
(* implements it.                                                          *)
(*                                                                         *)
(* It is what the code does, and weaker than the docstring of              *)
(* resolve_parties in one point: there a resolved row is never touched     *)
(* again, here an individual may still become a merchant (Promotes).  The  *)
(* code's first pass asks for an empty merchant link only.                 *)
(*                                                                         *)
(* A run is asked for some tenants, and is then answered at one moment or  *)
(* given up.                                                               *)
(***************************************************************************)
CONSTANTS
    Events,    \* canonical events
    Tenants,   \* tenant_bank_id
    TenantOf,  \* the tenant of each event
    None       \* belongs to no party yet

VARIABLES
    asked,       \* the tenants of the run in progress, as a set with one member, or {}
    owner,       \* the party of each event, with its kind
    registered,  \* the parties there are: kind and party, the tenant being its first part
    facts        \* what is known of them: kind, party, field and value

vars == <<asked, owner, registered, facts>>

Init ==
    /\ asked = {}
    /\ owner = [e \in Events |-> None]
    /\ registered = {}
    /\ facts = {}

TenantOfParty(x) == x[2][1]
Promotes(old, new) == \/ old = None
                      \/ old[1] = "individual" /\ new[1] = "merchant"

Ask(tenants) ==
    /\ asked = {}
    /\ asked' = {tenants}
    /\ UNCHANGED <<owner, registered, facts>>

\* The run enters parties of its tenants and says more of them, never something else; it
\* gives events of theirs an owner of the same tenant, for good unless a later file names a
\* merchant for the event of an individual.
Answer(tenants) ==
    /\ asked = {tenants}
    /\ asked' = {}
    /\ registered \subseteq registered'
    /\ \A x \in registered' \ registered : TenantOfParty(x) \in tenants
    /\ facts \subseteq facts'
    /\ \A x \in facts' \ facts : TenantOfParty(x) \in tenants /\ <<x[1], x[2]>> \in registered'
    /\ \A x, y \in facts' : <<x[1], x[2], x[3]>> = <<y[1], y[2], y[3]>> => x[4] = y[4]
    /\ owner' = [e \in Events |-> owner'[e]]
    /\ \A e \in Events :
          \/ owner'[e] = owner[e]
          \/ /\ TenantOf[e] \in tenants
             /\ Promotes(owner[e], owner'[e])
             /\ owner'[e] \in registered'
             /\ TenantOfParty(owner'[e]) = TenantOf[e]

GiveUp ==
    /\ asked' = {}
    /\ UNCHANGED <<owner, registered, facts>>

Next == \/ \E tenants \in SUBSET Tenants : Ask(tenants) \/ Answer(tenants)
        \/ GiveUp
Spec == Init /\ [][Next]_vars
=============================================================================
