------------------------------ MODULE Resolution ------------------------------
(***************************************************************************)
(* resolve_parties (app/resolution.py): the source ids that ingestion left *)
(* on canonical events become links to merchants and individuals.          *)
(*                                                                         *)
(* One run is one handler of the one server process: two passes over rows  *)
(* it SELECTed, one commit at the end.  Ingestion goes on around it: the   *)
(* server ingests between runs, a script may ingest in the middle of one   *)
(* until the run's first flush takes the write lock.                       *)
(*                                                                         *)
(* A merchant_id is a random id given once to a row of a table that is     *)
(* unique on (source id, tenant) and never deleted from, so it is modelled *)
(* by that pair.                                                           *)
(***************************************************************************)
EXTENDS Integers

CONSTANTS
    Events,    \* canonical events that have been or will be ingested
    Tenants,   \* tenant_bank_id
    TenantOf,  \* the tenant of each event
    Sources,   \* values of source_merchant_id and of source_individual_id
    Fields,    \* what an event tells of its party: name, account, onboarding agent...
    Vals,      \* values of those
    None,      \* NULL; as a scope: every tenant
    Arrivals,  \* the merges into an event that may happen, each any number of times
    MaxArrivals  \* bound of the model: merges in all

Profile == [Fields -> Vals \cup {None}]

Source == [merchant   : Sources \cup {None},   \* source_merchant_id
           individual : Sources \cup {None},   \* source_individual_id
           profile    : Profile]

ASSUME NoneAssumption     == None \notin Sources \cup Vals \cup Tenants \cup (Tenants \X Sources)
ASSUME TenantAssumption   == TenantOf \in [Events -> Tenants]
ASSUME ArrivalsAssumption == Arrivals \subseteq [event : Events, source : Source]
ASSUME BoundAssumption    == MaxArrivals \in Nat

Parties == Tenants \X Sources   \* merchant_id and individual_id
Links   == [merchant : Parties \cup {None}, individual : Parties \cup {None}]
Scopes  == Tenants \cup {None}

\* A party with no profile at all still exists: NoParty is no row.
NoParty == [row |-> FALSE, profile |-> [f \in Fields |-> None]]
Table   == [Parties -> [row : BOOLEAN, profile : Profile]]

VARIABLES
    source,    \* source columns of the events, written by ingestion only
    link,      \* committed merchant_id and individual_id of the events
    parties,   \* committed merchants and individuals tables
    run,       \* the run in progress: where it is, its scope, rows SELECTed and not yet
               \* resolved, whether it holds the write lock
    seen,      \* the source columns its session loaded for those rows
    work,      \* link and parties as its session has them
    arrivals,  \* merges so far
    aux_quiet  \* tenants with no merge since the last run that covered them began, and no
               \* row error in it

vars == <<source, link, parties, run, seen, work, arrivals, aux_quiet>>

-----------------------------------------------------------------------------
NoSource == [merchant |-> None, individual |-> None, profile |-> [f \in Fields |-> None]]
Idle     == [pc |-> "idle", scope |-> None, todo |-> {}, lock |-> FALSE, quiet |-> {}]

\* Field by field, a where it is populated, else b: _merge_field with the arrival first,
\* _enrich_merchant and _enrich_individual with the stored party first.
Prefer(a, b) == [x \in DOMAIN a |-> IF a[x] # None THEN a[x] ELSE b[x]]

EnrichOverwrites(party, profile) == [row |-> TRUE, profile |-> Prefer(profile, party.profile)]
\* _get_or_create_merchant and _get_or_create_individual: a new row takes the event's
\* profile, an existing one only fills its gaps with it.
Enrich(party, profile) == [row |-> TRUE, profile |-> Prefer(party.profile, profile)]

CoversNamed(scope, e) == scope = TenantOf[e]
Covers(scope, e) == scope \in {None, TenantOf[e]}
Covered(scope)   == IF scope = None THEN Tenants ELSE {scope}

PartyOfAnyTenant(t, s) ==
    IF \E p \in Parties : p[2] = s /\ work.merchants[p].row
    THEN CHOOSE p \in Parties : p[2] = s /\ work.merchants[p].row
    ELSE <<t, s>>
PartyOf(t, s) == <<t, s>>

Init ==
    /\ source = [e \in Events |-> NoSource]
    /\ link = [e \in Events |-> [merchant |-> None, individual |-> None]]
    /\ parties = [merchants   |-> [p \in Parties |-> NoParty],
                  individuals |-> [p \in Parties |-> NoParty]]
    /\ run = Idle
    /\ seen = source
    /\ work = [link |-> link, merchants |-> parties.merchants, individuals |-> parties.individuals]
    /\ arrivals = 0
    /\ aux_quiet = {}

\* What the two queries select: the first over the committed links, the second, after the
\* flush between the passes, over those of the session.
MerchantRowsLinkedOrNot(scope) ==
    {e \in Events : Covers(scope, e) /\ source[e].merchant # None}
MerchantRows(scope) ==
    {e \in Events : Covers(scope, e) /\ source[e].merchant # None /\ link[e].merchant = None}
IndividualRowsUnflushed(scope) ==
    {e \in Events : /\ Covers(scope, e) /\ source[e].individual # None
                    /\ link[e].individual = None /\ link[e].merchant = None}
IndividualRowsAnyTenant(scope) ==
    {e \in Events : /\ source[e].individual # None
                    /\ work.link[e].individual = None /\ work.link[e].merchant = None}
IndividualRows(scope) ==
    {e \in Events : /\ Covers(scope, e) /\ source[e].individual # None
                    /\ work.link[e].individual = None /\ work.link[e].merchant = None}

-----------------------------------------------------------------------------
\* A merge of a settlement row into an event (upsert_canonical_event), committed by
\* another process or between two runs; it waits while the run holds the write lock.
Arrive(a) ==
    /\ arrivals < MaxArrivals
    /\ ~run.lock
    /\ LET e == a.event IN
       /\ source' = [source EXCEPT ![e] =
             [merchant   |-> IF a.source.merchant # None THEN a.source.merchant ELSE @.merchant,
              individual |-> IF a.source.individual # None THEN a.source.individual ELSE @.individual,
              profile    |-> Prefer(a.source.profile, @.profile)]]
       /\ aux_quiet' = aux_quiet \ {TenantOf[e]}
       /\ run' = [run EXCEPT !.quiet = @ \ {TenantOf[e]}]
    /\ arrivals' = arrivals + 1
    /\ UNCHANGED <<link, parties, seen, work>>

Begin(scope) ==
    /\ run.pc = "idle"
    /\ run' = [pc |-> "merchants", scope |-> scope, todo |-> MerchantRows(scope),
               lock |-> FALSE, quiet |-> Covered(scope)]
    /\ seen' = source
    /\ work' = [link |-> link, merchants |-> parties.merchants, individuals |-> parties.individuals]
    /\ UNCHANGED <<source, link, parties, arrivals, aux_quiet>>

\* The run goes on with these rows; it takes the write lock when it writes.
Onward(pc, todo, writes) == [pc |-> pc, scope |-> run.scope, todo |-> todo,
                             lock |-> run.lock \/ writes, quiet |-> run.quiet]

\* A row with a merchant's source id: the merchant wins even over a link to an individual
\* that an earlier run made.  Only a new merchant is flushed at once.
ResolveMerchant(e) ==
    LET p == PartyOf(TenantOf[e], seen[e].merchant) IN
    /\ run.pc = "merchants" /\ e \in run.todo
    /\ work' = [link |-> [work.link EXCEPT ![e] =
                             [merchant   |-> p,
                              individual |-> IF seen[e].individual # None THEN None
                                             ELSE @.individual]],
                merchants   |-> [work.merchants EXCEPT ![p] = Enrich(@, seen[e].profile)],
                individuals |-> work.individuals]
    /\ run' = Onward("merchants", run.todo \ {e}, ~work.merchants[p].row)
    /\ UNCHANGED <<source, link, parties, seen, arrivals, aux_quiet>>

\* The flush between the passes writes what the first one changed, then the second query
\* runs; it selects none of the rows the first pass has just linked.
Dirty == work.link # link \/ work.merchants # parties.merchants
MerchantsDone ==
    /\ run.pc = "merchants" /\ run.todo = {}
    /\ run' = Onward("individuals", IndividualRows(run.scope), Dirty)
    /\ seen' = source
    /\ UNCHANGED <<source, link, parties, work, arrivals, aux_quiet>>

ResolveIndividual(e) ==
    LET p == PartyOf(TenantOf[e], seen[e].individual) IN
    /\ run.pc = "individuals" /\ e \in run.todo
    /\ work' = [link |-> [work.link EXCEPT ![e] =
                             [merchant |-> @.merchant, individual |-> p]],
                merchants   |-> work.merchants,
                individuals |-> [work.individuals EXCEPT ![p] = Enrich(@, seen[e].profile)]]
    /\ run' = Onward("individuals", run.todo \ {e}, ~work.individuals[p].row)
    /\ UNCHANGED <<source, link, parties, seen, arrivals, aux_quiet>>

Commit ==
    /\ run.pc = "individuals" /\ run.todo = {}
    /\ link' = work.link
    /\ parties' = [merchants |-> work.merchants, individuals |-> work.individuals]
    /\ aux_quiet' = aux_quiet \cup run.quiet
    /\ run' = Idle
    /\ UNCHANGED <<source, seen, work, arrivals>>

\* The lookup of a row's party fails (a locked database, say).  The error is recorded for the
\* row and swallowed; the run goes on without it and is committed.
SkipRow(e) ==
    /\ run.pc # "idle" /\ e \in run.todo
    /\ run' = [run EXCEPT !.todo = @ \ {e}, !.quiet = @ \ {TenantOf[e]}]
    /\ UNCHANGED <<source, link, parties, seen, work, arrivals, aux_quiet>>

\* A failed flush is recorded for its row too, but it leaves the session unusable, so every
\* later row fails as well and so does the request in the end: nothing of the run is kept.
\* A crash, or an error outside of the passes, has the same effect.
Fail ==
    /\ run.pc # "idle"
    /\ run' = Idle
    /\ UNCHANGED <<source, link, parties, seen, work, arrivals, aux_quiet>>

Next ==
    \/ \E a \in Arrivals : Arrive(a)
    \/ \E scope \in Scopes : Begin(scope)
    \/ \E e \in Events : ResolveMerchant(e) \/ ResolveIndividual(e) \/ SkipRow(e)
    \/ MerchantsDone
    \/ Commit
    \/ Fail

Spec == Init /\ [][Next]_vars
-----------------------------------------------------------------------------
(* Properties *)

\* The shape of the state; a run works on rows of the tenant it was asked for.
TypeOK ==
    /\ source \in [Events -> Source] /\ seen \in [Events -> Source]
    /\ link \in [Events -> Links]
    /\ parties \in [merchants : Table, individuals : Table]
    /\ work \in [link : [Events -> Links], merchants : Table, individuals : Table]
    /\ run \in [pc : {"idle", "merchants", "individuals"}, scope : Scopes,
                todo : SUBSET Events, lock : BOOLEAN, quiet : SUBSET Tenants]
    /\ \A e \in run.todo : Covers(run.scope, e)
    /\ arrivals \in 0..MaxArrivals
    /\ aux_quiet \subseteq Tenants

\* "A row must never carry both ids", in whichever order the two source ids arrive, and
\* although two passes of one run may both select it.
MutuallyExclusive ==
    \A e \in Events : ~(link[e].merchant # None /\ link[e].individual # None)

\* A link leads to a row of the right table and of the event's own tenant, also when runs
\* fail half way: "the same source id under two tenants resolves to two distinct ids".
LinksLead ==
    \A e \in Events :
        /\ link[e].merchant # None =>
               link[e].merchant[1] = TenantOf[e] /\ parties.merchants[link[e].merchant].row
        /\ link[e].individual # None =>
               link[e].individual[1] = TenantOf[e] /\ parties.individuals[link[e].individual].row

\* When nothing was merged since a committed run of the tenant began, and the run reported
\* no row error, every event that names a party is linked to one: no combination of scopes,
\* ids and earlier links is passed over.
QuietIsResolved ==
    \A e \in Events : TenantOf[e] \in aux_quiet =>
        (source[e].merchant # None \/ source[e].individual # None =>
            link[e].merchant # None \/ link[e].individual # None)

\* "Fills gaps on an existing merchant from a later row, never overwrites": what is stored
\* of a party outlives every later run.
Outlives(old, new) ==
    \A p \in Parties : old[p].row =>
        /\ new[p].row
        /\ \A f \in Fields : old[p].profile[f] # None => new[p].profile[f] = old[p].profile[f]
ProfilesOnlyGrow ==
    [][Outlives(parties.merchants, parties'.merchants)
       /\ Outlives(parties.individuals, parties'.individuals)]_vars

\* What the code lets happen to a link once it is committed: an individual gives way to a
\* merchant, when a later file brings the merchant's source id, and to nothing else.  (The
\* docstring says less: "a row already carrying a resolved id is never touched again".)
OnlyPromoted ==
    [][\A e \in Events :
          /\ link[e].merchant # None => link'[e] = link[e]
          /\ link[e].individual # None => link'[e] = link[e] \/ link'[e].merchant # None]_vars

-----------------------------------------------------------------------------
(* The register of parties that a run is to implement *)

OwnerOf(e) == IF link[e].merchant # None THEN <<"merchant", link[e].merchant>>
              ELSE IF link[e].individual # None THEN <<"individual", link[e].individual>>
              ELSE None
Kinds == {"merchant", "individual"}
TableOf == [kind \in Kinds |-> IF kind = "merchant" THEN parties.merchants ELSE parties.individuals]
Owners     == [e \in Events |-> OwnerOf(e)]
Registered == {x \in Kinds \X Parties : TableOf[x[1]][x[2]].row}
Facts      == {x \in Kinds \X Parties \X Fields \X Vals :
                  <<x[1], x[2]>> \in Registered /\ TableOf[x[1]][x[2]].profile[x[3]] = x[4]}

Asked      == IF run.pc = "idle" THEN {} ELSE {Covered(run.scope)}

Register == INSTANCE PartyRegister
            WITH asked <- Asked, owner <- Owners, registered <- Registered, facts <- Facts

\* Two passes over rows of different moments, with a flush between them and merges by
\* another process in the middle, look like one step of the register: every commit resolves
\* events of the run's tenants only, a failure leaves nothing behind, no name or account that
\* was once committed is ever replaced, and an owner only by promotion.
ImplementsRegister == Register!Spec
=============================================================================
