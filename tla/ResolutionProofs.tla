--------------------------- MODULE ResolutionProofs ---------------------------
(***************************************************************************)
(* Proofs about Resolution, for any events, tenants, sources, profile      *)
(* fields and merges.                                                      *)
(*                                                                         *)
(* The checked invariants speak of what is committed.  IInv says the same  *)
(* of the session of a run in progress (Running), what the rows a pass has *)
(* still to do are like (Queued), and how far a run that no merge has      *)
(* disturbed has come (Undisturbed).                                       *)
(*                                                                         *)
(* At the end: Resolution implements PartyRegister.  The register changes  *)
(* at a commit only.  What it demands of that step follows from IInv (the  *)
(* session extends what is committed) and from Scoped: the session differs *)
(* from it in the run's own tenants only.                                  *)
(***************************************************************************)
EXTENDS Resolution, TLAPS

\* What holds of links l, for source columns s and tables m and i.
Exclusive(l) == \A e \in Events : ~(l[e].merchant # None /\ l[e].individual # None)
Named(l, s) == \A e \in Events :
    /\ l[e].merchant # None => s[e].merchant # None
    /\ l[e].individual # None => s[e].individual # None
Lead(l, m, i) == \A e \in Events :
    /\ l[e].merchant # None => l[e].merchant[1] = TenantOf[e] /\ m[l[e].merchant].row
    /\ l[e].individual # None => l[e].individual[1] = TenantOf[e] /\ i[l[e].individual].row
\* What may have become of links old when they are links new.
Promotes(old, new) == \A e \in Events :
    /\ old[e].merchant # None => new[e] = old[e]
    /\ old[e].individual # None => new[e] = old[e] \/ new[e].merchant # None

Committed ==
    Exclusive(link) /\ Named(link, source) /\ Lead(link, parties.merchants, parties.individuals)

\* Merges never take a source id away, so the columns a session loaded name no more ids
\* than the table does now.
Loaded == \A e \in Events :
    /\ seen[e].merchant # None => source[e].merchant # None
    /\ seen[e].individual # None => source[e].individual # None

Running == run.pc # "idle" =>
    /\ Exclusive(work.link)
    /\ Named(work.link, seen)
    /\ Lead(work.link, work.merchants, work.individuals)
    /\ Loaded
    /\ Outlives(parties.merchants, work.merchants)
    /\ Outlives(parties.individuals, work.individuals)
    /\ Promotes(link, work.link)

Queued ==
    /\ run.pc = "merchants" => \A e \in run.todo :
           seen[e].merchant # None /\ work.link[e].merchant = None
    /\ run.pc = "individuals" => \A e \in run.todo :
           /\ seen[e].individual # None
           /\ work.link[e].merchant = None /\ work.link[e].individual = None

Undisturbed ==
    /\ run.pc # "idle" => run.quiet \subseteq Covered(run.scope)
    /\ \A e \in Events : TenantOf[e] \in run.quiet =>
           /\ run.pc # "idle" => seen[e] = source[e]
           /\ run.pc = "merchants" /\ source[e].merchant # None =>
                  work.link[e].merchant # None \/ e \in run.todo
           /\ run.pc = "individuals" /\ source[e].merchant # None =>
                  work.link[e].merchant # None
           /\ run.pc = "individuals" /\ source[e].individual # None /\ source[e].merchant = None =>
                  work.link[e].individual # None \/ e \in run.todo

IInv == TypeOK /\ Committed /\ Running /\ Queued /\ Undisturbed /\ QuietIsResolved

-----------------------------------------------------------------------------
(* Parties and their tables. *)

\* Merging two profiles gives a profile.
LEMMA PreferType ==
    ASSUME NEW a \in Profile, NEW b \in Profile
    PROVE  Prefer(a, b) \in Profile
  BY DEF Profile, Prefer

\* Giving a party a row, or enriching the one it has, keeps a table a table, and keeps
\* whatever was known of any party.
LEMMA TableStep ==
    ASSUME NEW T \in Table, NEW p \in Parties, NEW profile \in Profile, NEW U,
           U = [T EXCEPT ![p] = Enrich(@, profile)]
    PROVE  /\ U \in Table
           /\ U[p].row
           /\ Outlives(T, U)
<1>1. T[p] \in [row : BOOLEAN, profile : Profile]
  BY DEF Table
<1>2. Enrich(T[p], profile) \in [row : BOOLEAN, profile : Profile]
  BY <1>1, PreferType DEF Enrich
<1>3. U \in Table
  BY <1>2 DEF Table
<1>4. U[p] = Enrich(T[p], profile)
  BY DEF Table
<1>5. U[p].row
  BY <1>4 DEF Enrich
<1>6. ASSUME NEW f \in Fields, T[p].profile[f] # None
      PROVE  U[p].profile[f] = T[p].profile[f]
  BY <1>1, <1>4, <1>6 DEF Enrich, Prefer, Profile
<1>7. \A q \in Parties : q # p => U[q] = T[q]
  BY DEF Table
<1> QED
  BY <1>3, <1>5, <1>6, <1>7 DEF Outlives

\* A table that does not change has grown.
LEMMA OutlivesSelf == \A T : Outlives(T, T)
  BY DEF Outlives

\* Growth in two steps is growth.
LEMMA OutlivesTransitive ==
    ASSUME NEW T, NEW U, NEW V, Outlives(T, U), Outlives(U, V)
    PROVE  Outlives(T, V)
  BY DEF Outlives

\* Links that lead somewhere still do when the tables have only grown.
LEMMA LeadGrows ==
    ASSUME NEW l \in [Events -> Links], NEW m, NEW i, NEW n, NEW j,
           Lead(l, m, i), Outlives(m, n), Outlives(i, j)
    PROVE  Lead(l, n, j)
<1>1. \A e \in Events : /\ l[e].merchant \in Parties \cup {None}
                        /\ l[e].individual \in Parties \cup {None}
  BY DEF Links
<1> QED
  BY <1>1 DEF Lead, Outlives

\* A party is never NULL.
LEMMA PartyIsNotNone == \A t \in Tenants, s \in Sources : PartyOf(t, s) \in Parties
                                                          /\ PartyOf(t, s) # None
                                                          /\ PartyOf(t, s)[1] = t
  BY NoneAssumption DEF PartyOf, Parties

-----------------------------------------------------------------------------
(* The initial state and the steps, one lemma each. *)

\* A run that goes on keeps its scope and what it knows to be undisturbed.
LEMMA OnwardType ==
    ASSUME TypeOK, NEW pc \in {"merchants", "individuals"}, NEW todo \in SUBSET Events, NEW writes
    PROVE  LET next == Onward(pc, todo, writes) IN
           /\ next \in [pc : {"idle", "merchants", "individuals"}, scope : Scopes,
                       todo : SUBSET Events, lock : BOOLEAN, quiet : SUBSET Tenants]
           /\ next.pc = pc /\ next.todo = todo
           /\ next.scope = run.scope /\ next.quiet = run.quiet
<1>1. (run.lock \/ writes) \in BOOLEAN
  OBVIOUS
<1> QED
  BY <1>1 DEF Onward, TypeOK

\* Nothing is linked and no run is in progress at first.
LEMMA InitInv == Init => IInv
<1> SUFFICES ASSUME Init PROVE IInv
  OBVIOUS
<1> DEFINE Blank == [f \in Fields |-> None]
<1>1. Blank \in Profile
  BY DEF Profile
<1>2. TypeOK
  <2>1. NoSource \in Source
    BY <1>1 DEF NoSource, Source
  <2>2. [p \in Parties |-> NoParty] \in Table
    BY <1>1 DEF NoParty, Table
  <2>3. [merchant |-> None, individual |-> None] \in Links
    BY DEF Links
  <2>4. /\ source \in [Events -> Source] /\ seen \in [Events -> Source]
        /\ link \in [Events -> Links]
        /\ parties \in [merchants : Table, individuals : Table]
    BY <2>1, <2>2, <2>3 DEF Init
  <2>5. work \in [link : [Events -> Links], merchants : Table, individuals : Table]
    BY <2>2, <2>3, <2>4 DEF Init
  <2>6. Idle \in [pc : {"idle", "merchants", "individuals"}, scope : Scopes,
                  todo : SUBSET Events, lock : BOOLEAN, quiet : SUBSET Tenants]
    BY DEF Idle, Scopes
  <2>7. run = Idle /\ run.todo = {} /\ arrivals = 0 /\ aux_quiet = {}
    BY DEF Init, Idle
  <2> QED
    BY <2>4, <2>5, <2>6, <2>7, BoundAssumption DEF TypeOK
<1>3. run.pc = "idle" /\ run.quiet = {} /\ aux_quiet = {}
  BY DEF Init, Idle
<1>4. \A e \in Events : link[e].merchant = None /\ link[e].individual = None
  BY DEF Init
<1> QED
  BY <1>2, <1>3, <1>4
  DEF IInv, Committed, Running, Queued, Undisturbed, QuietIsResolved, Exclusive, Named, Lead

\* A merge only adds to what the source columns name.
LEMMA ArriveInv == ASSUME IInv, NEW a \in Arrivals, Arrive(a) PROVE IInv'
<1> DEFINE e == a.event
<1> USE DEF IInv
<1>1. /\ e \in Events /\ a.source \in Source /\ a.source.profile \in Profile
      /\ TenantOf[e] \in Tenants
  BY ArrivalsAssumption, TenantAssumption DEF Source
<1>2. /\ source'[e] = [merchant   |-> IF a.source.merchant # None THEN a.source.merchant
                                      ELSE source[e].merchant,
                       individual |-> IF a.source.individual # None THEN a.source.individual
                                      ELSE source[e].individual,
                       profile    |-> Prefer(a.source.profile, source[e].profile)]
      /\ source' \in [Events -> Source]
      /\ \A x \in Events : x # e => source'[x] = source[x]
  <2>1. source \in [Events -> Source] /\ source[e].profile \in Profile
    BY <1>1 DEF TypeOK, Source
  <2>2. Prefer(a.source.profile, source[e].profile) \in Profile
    BY <1>1, <2>1, PreferType
  <2> QED
    BY <1>1, <2>1, <2>2 DEF Arrive, Source
<1>3. \A x \in Events : /\ source[x].merchant # None => source'[x].merchant # None
                        /\ source[x].individual # None => source'[x].individual # None
  BY <1>1, <1>2
<1>4. run' = [run EXCEPT !.quiet = run.quiet \ {TenantOf[e]}]
  BY DEF Arrive
<1>5. /\ run'.pc = run.pc /\ run'.scope = run.scope /\ run'.todo = run.todo
      /\ run'.quiet = run.quiet \ {TenantOf[e]}
      /\ aux_quiet' = aux_quiet \ {TenantOf[e]}
  BY <1>4 DEF TypeOK, Arrive
<1>6. UNCHANGED <<link, parties, seen, work>>
  BY DEF Arrive
<1>7. TypeOK'
  <2>1. run' \in [pc : {"idle", "merchants", "individuals"}, scope : Scopes,
                  todo : SUBSET Events, lock : BOOLEAN, quiet : SUBSET Tenants]
    BY <1>4 DEF TypeOK
  <2>2. arrivals' \in 0..MaxArrivals
    BY BoundAssumption DEF TypeOK, Arrive
  <2> QED
    BY <1>2, <1>5, <1>6, <2>1, <2>2 DEF TypeOK, Covers
<1>8. Committed'
  BY <1>3, <1>6 DEF Committed, Exclusive, Named, Lead
<1>9. Running' /\ Queued'
  BY <1>3, <1>5, <1>6
  DEF Running, Queued, Exclusive, Named, Lead, Loaded, Outlives, Promotes
<1>10. \A x \in Events : TenantOf[x] \in run'.quiet \cup aux_quiet' => source'[x] = source[x]
  BY <1>2, <1>5
<1>11. Undisturbed' /\ QuietIsResolved'
  BY <1>5, <1>6, <1>10 DEF Undisturbed, QuietIsResolved, Covered
<1> QED
  BY <1>7, <1>8, <1>9, <1>11

\* A run begins with what is committed, and every event of a tenant it covers is resolved
\* already or selected.
LEMMA BeginInv == ASSUME IInv, NEW scope \in Scopes, Begin(scope) PROVE IInv'
<1> USE DEF IInv
<1>1. /\ run' = [pc |-> "merchants", scope |-> scope, todo |-> MerchantRows(scope),
                 lock |-> FALSE, quiet |-> Covered(scope)]
      /\ seen' = source
      /\ work' = [link |-> link, merchants |-> parties.merchants,
                  individuals |-> parties.individuals]
      /\ UNCHANGED <<source, link, parties, arrivals, aux_quiet>>
  BY DEF Begin
<1>2. TypeOK'
  <2>1. MerchantRows(scope) \subseteq Events /\ Covered(scope) \subseteq Tenants
    BY DEF MerchantRows, Covered, Scopes
  <2>2. \A x \in run'.todo : Covers(scope, x)
    BY <1>1 DEF MerchantRows
  <2> QED
    BY <1>1, <2>1, <2>2 DEF TypeOK, Covers
<1>3. Committed' /\ QuietIsResolved'
  BY <1>1 DEF Committed, QuietIsResolved, Exclusive, Named, Lead
<1>4. Running'
  BY <1>1
  DEF Running, Committed, Exclusive, Named, Lead, Loaded, Outlives, Promotes
<1>5. Queued'
  BY <1>1 DEF Queued, MerchantRows
<1>6. Undisturbed'
  BY <1>1, TenantAssumption DEF Undisturbed, MerchantRows, Covered, Covers
<1> QED
  BY <1>2, <1>3, <1>4, <1>5, <1>6

\* The row of the first pass gets its merchant, new or enriched; a link to an individual is
\* given up if the row names both.
LEMMA ResolveMerchantInv ==
    ASSUME IInv, NEW e \in Events, ResolveMerchant(e) PROVE IInv'
<1> DEFINE p == PartyOf(TenantOf[e], seen[e].merchant)
           Linked == [merchant   |-> p,
                      individual |-> IF seen[e].individual # None THEN None
                                     ELSE work.link[e].individual]
           Merchants == [work.merchants EXCEPT ![p] = Enrich(@, seen[e].profile)]
<1> USE DEF IInv
<1>1. /\ run.pc = "merchants" /\ e \in run.todo
      /\ seen[e] \in Source /\ seen[e].merchant \in Sources /\ seen[e].merchant # None
      /\ seen[e].profile \in Profile /\ TenantOf[e] \in Tenants
      /\ work.link[e] \in Links /\ work.link[e].merchant = None
      /\ work.link \in [Events -> Links]
      /\ work.merchants \in Table /\ work.individuals \in Table
  BY TenantAssumption DEF ResolveMerchant, TypeOK, Queued, Source
<1>2. p \in Parties /\ p # None /\ p[1] = TenantOf[e]
  BY <1>1, PartyIsNotNone
<1>3. /\ work' = [link |-> [work.link EXCEPT ![e] = Linked], merchants |-> Merchants,
                  individuals |-> work.individuals]
      /\ run' = Onward("merchants", run.todo \ {e}, ~work.merchants[p].row)
      /\ UNCHANGED <<source, link, parties, seen, arrivals, aux_quiet>>
  BY DEF ResolveMerchant
<1>4. /\ work'.link = [work.link EXCEPT ![e] = Linked]
      /\ work'.merchants = Merchants
      /\ work'.individuals = work.individuals
      /\ work' \in [link : [Events -> Links], merchants : Table, individuals : Table]
  <2>1. Linked \in Links
    BY <1>1, <1>2 DEF Links
  <2>2. Merchants \in Table
    BY <1>1, <1>2, TableStep
  <2> HIDE DEF Merchants, Linked, p
  <2> QED
    BY <1>1, <1>3, <2>1, <2>2
<1>5. Merchants[p].row /\ Outlives(work.merchants, Merchants)
  BY <1>1, <1>2, TableStep
<1>6. /\ run' \in [pc : {"idle", "merchants", "individuals"}, scope : Scopes,
                   todo : SUBSET Events, lock : BOOLEAN, quiet : SUBSET Tenants]
      /\ run'.pc = "merchants" /\ run'.scope = run.scope /\ run'.quiet = run.quiet
      /\ run'.todo = run.todo \ {e}
  <2> DEFINE new == ~work.merchants[p].row
  <2>1. run.todo \ {e} \in SUBSET Events
    BY DEF TypeOK
  <2>2. run' = Onward("merchants", run.todo \ {e}, new)
    BY <1>3
  <2> HIDE DEF p, new
  <2> QED
    BY <2>1, <2>2, OnwardType
<1>7. /\ work'.link[e].merchant = p /\ work'.link[e].merchant # None
      /\ work'.link[e].individual \in {None, work.link[e].individual}
      /\ seen[e].individual # None => work'.link[e].individual = None
      /\ \A x \in Events : x # e => work'.link[x] = work.link[x]
  BY <1>1, <1>2, <1>4
<1> HIDE DEF Merchants, Linked, p
<1>8. TypeOK'
  BY <1>3, <1>4, <1>6 DEF TypeOK, Covers
<1>9. Committed' /\ QuietIsResolved'
  BY <1>3 DEF Committed, QuietIsResolved, Exclusive, Named, Lead
<1>10. Running'
  <2>1. Exclusive(work'.link) /\ Named(work'.link, seen)
    BY <1>1, <1>7 DEF Running, Exclusive, Named
  <2>2. Lead(work'.link, work'.merchants, work'.individuals)
    <3>1. Lead(work.link, work'.merchants, work'.individuals)
      BY <1>1, <1>4, <1>5, LeadGrows, OutlivesSelf DEF Running
    <3> QED
      BY <1>2, <1>4, <1>5, <1>7, <3>1 DEF Lead
  <2>3. Outlives(parties.merchants, work'.merchants)
    BY <1>1, <1>4, <1>5, OutlivesTransitive DEF Running
  <2>4. Promotes(link, work'.link)
    BY <1>1, <1>7 DEF Running, Promotes
  <2> QED
    BY <1>1, <1>3, <1>4, <2>1, <2>2, <2>3, <2>4 DEF Running, Loaded, Exclusive, Named
<1>11. Queued'
  BY <1>1, <1>3, <1>6, <1>7 DEF Queued
<1>12. Undisturbed'
  <2>1. \A x \in Events : x # e => (x \in run'.todo <=> x \in run.todo)
    BY <1>6
  <2>2. run'.quiet \subseteq Covered(run'.scope)
    BY <1>1, <1>6 DEF Undisturbed, Covered
  <2> QED
    BY <1>1, <1>3, <1>6, <1>7, <2>1, <2>2 DEF Undisturbed
<1> QED
  BY <1>8, <1>9, <1>10, <1>11, <1>12

\* Once no row of the first pass is left, every undisturbed event that names a merchant has
\* one, and the rows of the second query name an individual and have no link.
LEMMA MerchantsDoneInv == ASSUME IInv, MerchantsDone PROVE IInv'
<1> USE DEF IInv
<1>1. /\ run.pc = "merchants" /\ run.todo = {}
      /\ run' = Onward("individuals", IndividualRows(run.scope), Dirty)
      /\ seen' = source
      /\ UNCHANGED <<source, link, parties, work, arrivals, aux_quiet>>
  BY DEF MerchantsDone
<1>2. /\ run' \in [pc : {"idle", "merchants", "individuals"}, scope : Scopes,
                   todo : SUBSET Events, lock : BOOLEAN, quiet : SUBSET Tenants]
      /\ run'.pc = "individuals" /\ run'.scope = run.scope /\ run'.quiet = run.quiet
      /\ run'.todo = IndividualRows(run.scope)
  <2>1. IndividualRows(run.scope) \in SUBSET Events
    BY DEF IndividualRows
  <2> QED
    BY <1>1, <2>1, OnwardType
<1>3. TypeOK'
  <2>1. \A x \in run'.todo : Covers(run.scope, x)
    BY <1>2 DEF IndividualRows
  <2> QED
    BY <1>1, <1>2, <2>1 DEF TypeOK, Covers
<1>4. Committed' /\ QuietIsResolved'
  BY <1>1 DEF Committed, QuietIsResolved, Exclusive, Named, Lead
<1>5. Named(work.link, source)
  BY <1>1 DEF Running, Named, Loaded
<1>6. Running'
  BY <1>1, <1>2, <1>5 DEF Running, Loaded, Exclusive, Named, Lead, Outlives, Promotes
<1>7. Queued'
  BY <1>1, <1>2 DEF Queued, IndividualRows
<1>8. \A x \in Events : TenantOf[x] \in run.quiet => Covers(run.scope, x)
  BY <1>1 DEF Undisturbed, Covered, Covers
<1>9. Undisturbed'
  BY <1>1, <1>2, <1>5, <1>8 DEF Undisturbed, Covered, IndividualRows, Named
<1> QED
  BY <1>3, <1>4, <1>6, <1>7, <1>9

\* The row of the second pass gets its individual.
LEMMA ResolveIndividualInv ==
    ASSUME IInv, NEW e \in Events, ResolveIndividual(e) PROVE IInv'
<1> DEFINE p == PartyOf(TenantOf[e], seen[e].individual)
           Linked == [merchant |-> work.link[e].merchant, individual |-> p]
           Individuals == [work.individuals EXCEPT ![p] = Enrich(@, seen[e].profile)]
<1> USE DEF IInv
<1>1. /\ run.pc = "individuals" /\ e \in run.todo
      /\ seen[e] \in Source /\ seen[e].individual \in Sources /\ seen[e].individual # None
      /\ seen[e].profile \in Profile /\ TenantOf[e] \in Tenants
      /\ work.link[e] \in Links
      /\ work.link[e].merchant = None /\ work.link[e].individual = None
      /\ work.link \in [Events -> Links]
      /\ work.merchants \in Table /\ work.individuals \in Table
  BY TenantAssumption DEF ResolveIndividual, TypeOK, Queued, Source
<1>2. p \in Parties /\ p # None /\ p[1] = TenantOf[e]
  BY <1>1, PartyIsNotNone
<1>3. /\ work' = [link |-> [work.link EXCEPT ![e] = Linked], merchants |-> work.merchants,
                  individuals |-> Individuals]
      /\ run' = Onward("individuals", run.todo \ {e}, ~work.individuals[p].row)
      /\ UNCHANGED <<source, link, parties, seen, arrivals, aux_quiet>>
  BY DEF ResolveIndividual
<1>4. /\ work'.link = [work.link EXCEPT ![e] = Linked]
      /\ work'.merchants = work.merchants
      /\ work'.individuals = Individuals
      /\ work' \in [link : [Events -> Links], merchants : Table, individuals : Table]
  <2>1. Linked \in Links
    BY <1>1, <1>2 DEF Links
  <2>2. Individuals \in Table
    BY <1>1, <1>2, TableStep
  <2> HIDE DEF Individuals, Linked, p
  <2> QED
    BY <1>1, <1>3, <2>1, <2>2
<1>5. Individuals[p].row /\ Outlives(work.individuals, Individuals)
  BY <1>1, <1>2, TableStep
<1>6. /\ run' \in [pc : {"idle", "merchants", "individuals"}, scope : Scopes,
                   todo : SUBSET Events, lock : BOOLEAN, quiet : SUBSET Tenants]
      /\ run'.pc = "individuals" /\ run'.scope = run.scope /\ run'.quiet = run.quiet
      /\ run'.todo = run.todo \ {e}
  <2> DEFINE new == ~work.individuals[p].row
  <2>1. run.todo \ {e} \in SUBSET Events
    BY DEF TypeOK
  <2>2. run' = Onward("individuals", run.todo \ {e}, new)
    BY <1>3
  <2> HIDE DEF p, new
  <2> QED
    BY <2>1, <2>2, OnwardType
<1>7. /\ work'.link[e].merchant = None
      /\ work'.link[e].individual = p /\ work'.link[e].individual # None
      /\ \A x \in Events : x # e => work'.link[x] = work.link[x]
  BY <1>1, <1>2, <1>4
<1> HIDE DEF Individuals, Linked, p
<1>8. TypeOK'
  BY <1>3, <1>4, <1>6 DEF TypeOK, Covers
<1>9. Committed' /\ QuietIsResolved'
  BY <1>3 DEF Committed, QuietIsResolved, Exclusive, Named, Lead
<1>10. Running'
  <2>1. Exclusive(work'.link) /\ Named(work'.link, seen)
    BY <1>1, <1>7 DEF Running, Exclusive, Named
  <2>2. Lead(work'.link, work'.merchants, work'.individuals)
    <3>1. Lead(work.link, work'.merchants, work'.individuals)
      BY <1>1, <1>4, <1>5, LeadGrows, OutlivesSelf DEF Running
    <3> QED
      BY <1>2, <1>4, <1>5, <1>7, <3>1 DEF Lead
  <2>3. Outlives(parties.individuals, work'.individuals)
    BY <1>1, <1>4, <1>5, OutlivesTransitive DEF Running
  <2>4. Promotes(link, work'.link)
    BY <1>1, <1>7 DEF Running, Promotes
  <2> QED
    BY <1>1, <1>3, <1>4, <2>1, <2>2, <2>3, <2>4 DEF Running, Loaded, Exclusive, Named
<1>11. Queued'
  BY <1>1, <1>3, <1>6, <1>7 DEF Queued
<1>12. Undisturbed'
  <2>1. \A x \in Events : x # e => (x \in run'.todo <=> x \in run.todo)
    BY <1>6
  <2>2. run'.quiet \subseteq Covered(run'.scope)
    BY <1>1, <1>6 DEF Undisturbed, Covered
  <2>3. ASSUME NEW x \in Events, TenantOf[x] \in run.quiet
        PROVE  /\ seen[x] = source[x]
               /\ source[x].merchant # None => work'.link[x].merchant # None
               /\ source[x].individual # None /\ source[x].merchant = None =>
                      work'.link[x].individual # None \/ x \in run'.todo
    <3>1. /\ seen[x] = source[x]
          /\ source[x].merchant # None => work.link[x].merchant # None
          /\ source[x].individual # None /\ source[x].merchant = None =>
                 work.link[x].individual # None \/ x \in run.todo
      BY <1>1, <2>3 DEF Undisturbed
    <3>2. CASE x = e
      BY <1>1, <1>7, <3>1, <3>2
    <3>3. CASE x # e
      BY <1>7, <2>1, <3>1, <3>3
    <3> QED
      BY <3>2, <3>3
  <2> QED
    BY <1>3, <1>6, <2>2, <2>3 DEF Undisturbed
<1> QED
  BY <1>8, <1>9, <1>10, <1>11, <1>12

\* The commit makes the session's state the committed one.  A tenant that was resolved
\* before stays so, because a link only ever gives way to another one.
LEMMA CommitInv == ASSUME IInv, Commit PROVE IInv'
<1> USE DEF IInv
<1>1. /\ run.pc = "individuals" /\ run.todo = {}
      /\ link' = work.link
      /\ parties' = [merchants |-> work.merchants, individuals |-> work.individuals]
      /\ aux_quiet' = aux_quiet \cup run.quiet
      /\ run' = Idle
      /\ UNCHANGED <<source, seen, work, arrivals>>
  BY DEF Commit
<1>2. run'.pc = "idle" /\ run'.quiet = {}
  BY <1>1 DEF Idle
<1>3. TypeOK'
  <2>1. Idle \in [pc : {"idle", "merchants", "individuals"}, scope : Scopes,
                  todo : SUBSET Events, lock : BOOLEAN, quiet : SUBSET Tenants]
        /\ Idle.todo = {}
    BY DEF Idle, Scopes
  <2> QED
    BY <1>1, <2>1 DEF TypeOK
<1>4. Named(work.link, source)
  BY <1>1 DEF Running, Named, Loaded
<1>5. Committed'
  BY <1>1, <1>4 DEF Committed, Running, Exclusive, Named, Lead
<1>6. QuietIsResolved'
  <2> SUFFICES ASSUME NEW e \in Events, TenantOf[e] \in aux_quiet \cup run.quiet,
                      source[e].merchant # None \/ source[e].individual # None
               PROVE  work.link[e].merchant # None \/ work.link[e].individual # None
    BY <1>1 DEF QuietIsResolved
  <2>1. CASE TenantOf[e] \in run.quiet
    BY <1>1, <2>1 DEF Undisturbed
  <2>2. CASE TenantOf[e] \in aux_quiet
    BY <1>1, <2>2 DEF QuietIsResolved, Running, Promotes
  <2> QED
    BY <2>1, <2>2
<1>7. Running' /\ Queued' /\ Undisturbed'
  BY <1>2 DEF Running, Queued, Undisturbed
<1> QED
  BY <1>3, <1>5, <1>6, <1>7

\* A row that is skipped stays as it is, and its tenant no longer counts as undisturbed.
LEMMA SkipRowInv == ASSUME IInv, NEW e \in Events, SkipRow(e) PROVE IInv'
<1> USE DEF IInv
<1>1. /\ run.pc # "idle"
      /\ run' = [run EXCEPT !.todo = run.todo \ {e}, !.quiet = run.quiet \ {TenantOf[e]}]
      /\ UNCHANGED <<source, link, parties, seen, work, arrivals, aux_quiet>>
  BY DEF SkipRow
<1>2. /\ run' \in [pc : {"idle", "merchants", "individuals"}, scope : Scopes,
                   todo : SUBSET Events, lock : BOOLEAN, quiet : SUBSET Tenants]
      /\ run'.pc = run.pc /\ run'.scope = run.scope
      /\ run'.todo = run.todo \ {e} /\ run'.quiet = run.quiet \ {TenantOf[e]}
  BY <1>1 DEF TypeOK
<1>3. TypeOK'
  BY <1>1, <1>2 DEF TypeOK, Covers
<1>4. Committed' /\ QuietIsResolved'
  BY <1>1 DEF Committed, QuietIsResolved, Exclusive, Named, Lead
<1>5. Running' /\ Queued'
  BY <1>1, <1>2 DEF Running, Queued, Exclusive, Named, Lead, Loaded, Outlives, Promotes
<1>6. \A x \in Events : TenantOf[x] \in run'.quiet =>
          TenantOf[x] \in run.quiet /\ (x \in run'.todo <=> x \in run.todo)
  BY <1>2
<1>7. Undisturbed'
  BY <1>1, <1>2, <1>6 DEF Undisturbed, Covered
<1> QED
  BY <1>3, <1>4, <1>5, <1>7

\* A run that fails leaves what is committed as it was.
LEMMA FailInv == ASSUME IInv, Fail PROVE IInv'
<1> USE DEF IInv
<1>1. run' = Idle /\ UNCHANGED <<source, link, parties, seen, work, arrivals, aux_quiet>>
  BY DEF Fail
<1>2. run'.pc = "idle" /\ run'.quiet = {}
  BY <1>1 DEF Idle
<1>3. TypeOK'
  <2>1. Idle \in [pc : {"idle", "merchants", "individuals"}, scope : Scopes,
                  todo : SUBSET Events, lock : BOOLEAN, quiet : SUBSET Tenants]
        /\ Idle.todo = {}
    BY DEF Idle, Scopes
  <2> QED
    BY <1>1, <2>1 DEF TypeOK
<1>4. Committed' /\ QuietIsResolved'
  BY <1>1 DEF Committed, QuietIsResolved, Exclusive, Named, Lead
<1>5. Running' /\ Queued' /\ Undisturbed'
  BY <1>2 DEF Running, Queued, Undisturbed
<1> QED
  BY <1>3, <1>4, <1>5

\* Neither does a step that changes no variable.
LEMMA StutterInv == ASSUME IInv, UNCHANGED vars PROVE IInv'
  BY DEF IInv, vars, TypeOK, Covers, Committed, Running, Loaded, Queued, Undisturbed, Covered,
         QuietIsResolved, Exclusive, Named, Lead, Outlives, Promotes

\* Every step keeps the invariant, case by case.
LEMMA StepInv == IInv /\ [Next]_vars => IInv'
<1> SUFFICES ASSUME IInv, [Next]_vars PROVE IInv'
  OBVIOUS
<1>1. ASSUME NEW a \in Arrivals, Arrive(a) PROVE IInv'
  BY <1>1, ArriveInv
<1>2. ASSUME NEW scope \in Scopes, Begin(scope) PROVE IInv'
  BY <1>2, BeginInv
<1>3. ASSUME NEW e \in Events, ResolveMerchant(e) PROVE IInv'
  BY <1>3, ResolveMerchantInv
<1>4. ASSUME NEW e \in Events, ResolveIndividual(e) PROVE IInv'
  BY <1>4, ResolveIndividualInv
<1>5. ASSUME NEW e \in Events, SkipRow(e) PROVE IInv'
  BY <1>5, SkipRowInv
<1>6. CASE MerchantsDone
  BY <1>6, MerchantsDoneInv
<1>7. CASE Commit
  BY <1>7, CommitInv
<1>8. CASE Fail
  BY <1>8, FailInv
<1>9. CASE UNCHANGED vars
  BY <1>9, StutterInv
<1> QED
  BY <1>1, <1>2, <1>3, <1>4, <1>5, <1>6, <1>7, <1>8, <1>9 DEF Next

-----------------------------------------------------------------------------
(* The theorems. *)

\* What makes the checked invariants inductive holds in every reachable state.
THEOREM Invariance == Spec => []IInv
<1> QED
  BY InitInv, StepInv, PTL DEF Spec

\* The state has its shape, and a run only works on rows of the tenant it was asked for.
THEOREM TypeCorrect == Spec => []TypeOK
<1>1. IInv => TypeOK
  BY DEF IInv
<1> QED
  BY <1>1, Invariance, PTL

\* No event ever carries a committed link to a merchant and one to an individual.
THEOREM OneKindOfParty == Spec => []MutuallyExclusive
<1>1. IInv => MutuallyExclusive
  BY DEF IInv, Committed, Exclusive, MutuallyExclusive
<1> QED
  BY <1>1, Invariance, PTL

\* Every committed link leads to an existing party of the event's own tenant.
THEOREM LinksLeadToOwnTenant == Spec => []LinksLead
<1>1. IInv => LinksLead
  BY DEF IInv, Committed, Lead, LinksLead
<1> QED
  BY <1>1, Invariance, PTL

\* A committed run that no merge disturbed and that reported no row error has left no event
\* of its scope that names a party without one.
THEOREM UndisturbedRunResolves == Spec => []QuietIsResolved
<1>1. IInv => QuietIsResolved
  BY DEF IInv
<1> QED
  BY <1>1, Invariance, PTL

\* Only a commit touches the party tables and the links, and the session's are the
\* committed ones with rows added and gaps filled.
LEMMA OnlyCommitWrites ==
    ASSUME Next
    PROVE  UNCHANGED <<link, parties>> \/ Commit
  BY DEF Next, Arrive, Begin, ResolveMerchant, ResolveIndividual, SkipRow, MerchantsDone, Fail

\* Nothing that was stored of a party is ever overwritten or lost.
THEOREM StoredProfilesStay == Spec => ProfilesOnlyGrow
<1>1. IInv /\ [Next]_vars => [/\ Outlives(parties.merchants, parties'.merchants)
                              /\ Outlives(parties.individuals, parties'.individuals)]_vars
  <2> SUFFICES ASSUME IInv, Next
               PROVE  /\ Outlives(parties.merchants, parties'.merchants)
                      /\ Outlives(parties.individuals, parties'.individuals)
    OBVIOUS
  <2>1. CASE UNCHANGED parties
    BY <2>1, OutlivesSelf
  <2>2. CASE Commit
    <3>1. /\ run.pc = "individuals"
          /\ parties' = [merchants |-> work.merchants, individuals |-> work.individuals]
      BY <2>2 DEF Commit
    <3> QED
      BY <3>1 DEF IInv, Running
  <2> QED
    BY <2>1, <2>2, OnlyCommitWrites
<1> QED
  BY <1>1, Invariance, PTL DEF Spec, ProfilesOnlyGrow

\* A committed link changes at most once more, from an individual to a merchant.
THEOREM LinksOnlyPromoted == Spec => OnlyPromoted
<1>1. IInv /\ [Next]_vars =>
        [\A e \in Events :
            /\ link[e].merchant # None => link'[e] = link[e]
            /\ link[e].individual # None => link'[e] = link[e] \/ link'[e].merchant # None]_vars
  <2> SUFFICES ASSUME IInv, Next PROVE Promotes(link, link')
    BY DEF Promotes
  <2>1. CASE UNCHANGED link
    BY <2>1 DEF Promotes
  <2>2. CASE Commit
    BY <2>2 DEF Commit, IInv, Running
  <2> QED
    BY <2>1, <2>2, OnlyCommitWrites
<1> QED
  BY <1>1, Invariance, PTL DEF Spec, OnlyPromoted

-----------------------------------------------------------------------------
(* The register *)

Scoped == run.pc # "idle" =>
    /\ \A e \in Events : TenantOf[e] \notin Covered(run.scope) => work.link[e] = link[e]
    /\ \A p \in Parties : p[1] \notin Covered(run.scope) =>
           /\ work.merchants[p] = parties.merchants[p]
           /\ work.individuals[p] = parties.individuals[p]

\* An event is covered by a scope when its tenant is one of the scope's.
LEMMA CoversTenant ==
    ASSUME NEW scope \in Scopes, NEW e \in Events
    PROVE  Covers(scope, e) <=> TenantOf[e] \in Covered(scope)
  BY TenantAssumption, NoneAssumption DEF Covers, Covered, Scopes

\* A pass leaves every event and every party of the tenants outside of its scope alone.
LEMMA ResolveScoped ==
    ASSUME IInv, Scoped, NEW e \in Events, ResolveMerchant(e) \/ ResolveIndividual(e)
    PROVE  Scoped'
<1> DEFINE m == PartyOf(TenantOf[e], seen[e].merchant)
           i == PartyOf(TenantOf[e], seen[e].individual)
<1>1. /\ run.pc # "idle" /\ run'.scope = run.scope
      /\ UNCHANGED <<link, parties>>
      /\ TenantOf[e] \in Covered(run.scope)
      /\ work \in [link : [Events -> Links], merchants : Table, individuals : Table]
  BY CoversTenant DEF IInv, TypeOK, ResolveMerchant, ResolveIndividual, Onward
<1>2. m[1] = TenantOf[e] /\ i[1] = TenantOf[e]
  BY DEF PartyOf
<1>3. \A f \in Events : f # e => work'.link[f] = work.link[f]
  BY <1>1 DEF ResolveMerchant, ResolveIndividual
<1>4. \A p \in Parties : p[1] # TenantOf[e] =>
          work'.merchants[p] = work.merchants[p] /\ work'.individuals[p] = work.individuals[p]
  <2> SUFFICES ASSUME NEW p \in Parties, p[1] # TenantOf[e]
               PROVE  /\ work'.merchants[p] = work.merchants[p]
                      /\ work'.individuals[p] = work.individuals[p]
    OBVIOUS
  <2>1. p # m /\ p # i
    BY <1>2
  <2> HIDE DEF m, i
  <2>2. CASE ResolveMerchant(e)
    <3>1. /\ work'.merchants = [work.merchants EXCEPT ![m] = Enrich(@, seen[e].profile)]
          /\ work'.individuals = work.individuals
      BY <2>2 DEF ResolveMerchant, m
    <3> QED
      BY <1>1, <2>1, <3>1 DEF Table
  <2>3. CASE ResolveIndividual(e)
    <3>1. /\ work'.individuals = [work.individuals EXCEPT ![i] = Enrich(@, seen[e].profile)]
          /\ work'.merchants = work.merchants
      BY <2>3 DEF ResolveIndividual, i
    <3> QED
      BY <1>1, <2>1, <3>1 DEF Table
  <2> QED
    BY <2>2, <2>3
<1> QED
  BY <1>1, <1>3, <1>4 DEF Scoped

\* The session of a run differs from what is committed in the run's own tenants only.
LEMMA ScopedInvariant == Spec => []Scoped
<1>1. Init => Scoped
  BY DEF Init, Idle, Scoped
<1>2. IInv /\ Scoped /\ [Next]_vars => Scoped'
  <2> SUFFICES ASSUME IInv, Scoped, [Next]_vars PROVE Scoped'
    OBVIOUS
  <2>1. ASSUME NEW a \in Arrivals, Arrive(a) PROVE Scoped'
    <3>1. run'.pc = run.pc /\ run'.scope = run.scope /\ UNCHANGED <<link, parties, work>>
      BY <2>1 DEF Arrive, IInv, TypeOK
    <3> QED
      BY <3>1 DEF Scoped
  <2>2. ASSUME NEW scope \in Scopes, Begin(scope) PROVE Scoped'
    BY <2>2 DEF Begin, Scoped
  <2>3. ASSUME NEW e \in Events, ResolveMerchant(e) \/ ResolveIndividual(e) PROVE Scoped'
    BY <2>3, ResolveScoped
  <2>4. ASSUME NEW e \in Events, SkipRow(e) PROVE Scoped'
    <3>1. run'.pc = run.pc /\ run'.scope = run.scope /\ UNCHANGED <<link, parties, work>>
      BY <2>4 DEF SkipRow, IInv, TypeOK
    <3> QED
      BY <3>1 DEF Scoped
  <2>5. CASE MerchantsDone
    BY <2>5 DEF MerchantsDone, Onward, Scoped
  <2>6. CASE Commit \/ Fail
    BY <2>6 DEF Commit, Fail, Idle, Scoped
  <2>7. CASE UNCHANGED vars
    BY <2>7 DEF vars, Scoped, Covered
  <2> QED
    BY <2>1, <2>2, <2>3, <2>4, <2>5, <2>6, <2>7 DEF Next
<1> QED
  BY <1>1, <1>2, Invariance, PTL DEF Spec

-----------------------------------------------------------------------------
(* The step of the register. *)

\* A commit gives an owner only to events of the run's tenants, and one of their own tenant.
LEMMA OwnersPromoted ==
    ASSUME IInv, Scoped, Commit, NEW e \in Events, OwnerOf(e)' # OwnerOf(e)
    PROVE  /\ TenantOf[e] \in Covered(run.scope)
           /\ Register!Promotes(OwnerOf(e), OwnerOf(e)')
           /\ OwnerOf(e)' \in Registered'
           /\ Register!TenantOfParty(OwnerOf(e)') = TenantOf[e]
<1>1. /\ run.pc = "individuals" /\ link' = work.link
      /\ parties' = [merchants |-> work.merchants, individuals |-> work.individuals]
  BY DEF Commit
<1>2. TenantOf[e] \in Covered(run.scope)
  BY <1>1 DEF Scoped, OwnerOf
<1>3. /\ Lead(work.link, work.merchants, work.individuals)
      /\ Promotes(link, work.link)
      /\ work.link[e] \in Links
  BY <1>1 DEF IInv, Running, TypeOK
<1>4. work.link[e].merchant # None \/ work.link[e].individual # None
  BY <1>1, <1>3 DEF Promotes, OwnerOf
<1>5. Register!Promotes(OwnerOf(e), OwnerOf(e)')
  BY <1>1, <1>3, <1>4 DEF Promotes, OwnerOf, Register!Promotes
<1>6. /\ OwnerOf(e)' \in Kinds \X Parties
      /\ TableOf'[OwnerOf(e)'[1]][OwnerOf(e)'[2]].row
      /\ OwnerOf(e)'[2][1] = TenantOf[e]
  BY <1>1, <1>3, <1>4 DEF OwnerOf, Kinds, Links, TableOf, Lead
<1> QED
  BY <1>2, <1>5, <1>6 DEF Registered, Register!TenantOfParty

\* A commit only adds to what is registered and known, and only of the run's tenants.
LEMMA RegisterGrows ==
    ASSUME IInv, Scoped, Commit, NEW k \in Kinds, NEW p \in Parties
    PROVE  /\ TableOf[k][p].row => TableOf'[k][p].row
           /\ \A f \in Fields, v \in Vals :
                 TableOf[k][p].row /\ TableOf[k][p].profile[f] = v => TableOf'[k][p].profile[f] = v
           /\ p[1] \notin Covered(run.scope) => TableOf'[k][p] = TableOf[k][p]
<1>1. /\ run.pc = "individuals"
      /\ parties' = [merchants |-> work.merchants, individuals |-> work.individuals]
  BY DEF Commit
<1>2. /\ Outlives(parties.merchants, work.merchants)
      /\ Outlives(parties.individuals, work.individuals)
  BY <1>1 DEF IInv, Running
<1>3. \A v \in Vals : v # None
  BY NoneAssumption
<1>4. p[1] \notin Covered(run.scope) => /\ work.merchants[p] = parties.merchants[p]
                                        /\ work.individuals[p] = parties.individuals[p]
  BY <1>1 DEF Scoped
<1>5. CASE k = "merchant"
  <2>1. TableOf[k] = parties.merchants /\ TableOf'[k] = work.merchants
    BY <1>1, <1>5 DEF TableOf, Kinds
  <2> QED
    BY <1>2, <1>3, <1>4, <2>1 DEF Outlives
<1>6. CASE k = "individual"
  <2>1. TableOf[k] = parties.individuals /\ TableOf'[k] = work.individuals
    BY <1>1, <1>6 DEF TableOf, Kinds
  <2> QED
    BY <1>2, <1>3, <1>4, <2>1 DEF Outlives
<1> QED
  BY <1>5, <1>6 DEF Kinds

\* A commit answers the run.
LEMMA CommitAnswers == ASSUME IInv, Scoped, Commit PROVE Register!Answer(Covered(run.scope))
<1> DEFINE tenants == Covered(run.scope)
<1>1. Asked = {tenants} /\ Asked' = {}
  BY DEF Commit, Asked, Idle
<1>2. /\ Registered \subseteq Registered'
      /\ \A x \in Registered' \ Registered : Register!TenantOfParty(x) \in tenants
  <2>1. ASSUME NEW x \in Kinds \X Parties
        PROVE  /\ x \in Registered => x \in Registered'
               /\ x \in Registered' \ Registered => x[2][1] \in tenants
    <3>1. x[1] \in Kinds /\ x[2] \in Parties
      BY <2>1
    <3> QED
      BY <3>1, RegisterGrows DEF Registered
  <2> QED
    BY <2>1 DEF Registered, Register!TenantOfParty
<1>3. /\ Facts \subseteq Facts'
      /\ \A x \in Facts' \ Facts :
            Register!TenantOfParty(x) \in tenants /\ <<x[1], x[2]>> \in Registered'
  <2>1. ASSUME NEW x \in Kinds \X Parties \X Fields \X Vals
        PROVE  /\ x \in Facts => x \in Facts'
               /\ x \in Facts' \ Facts => x[2][1] \in tenants
               /\ x \in Facts' => <<x[1], x[2]>> \in Registered'
    <3>1. /\ x[1] \in Kinds /\ x[2] \in Parties /\ x[3] \in Fields /\ x[4] \in Vals
          /\ <<x[1], x[2]>> \in Kinds \X Parties
          /\ <<x[1], x[2]>>[1] = x[1] /\ <<x[1], x[2]>>[2] = x[2]
      BY <2>1
    <3>2. <<x[1], x[2]>> \in Registered => <<x[1], x[2]>> \in Registered'
      BY <1>2
    <3>3. TableOf[x[1]][x[2]].row <=> <<x[1], x[2]>> \in Registered
      BY <3>1 DEF Registered
    <3>4. TableOf'[x[1]][x[2]].row <=> <<x[1], x[2]>> \in Registered'
      BY <3>1 DEF Registered
    <3>5. /\ TableOf[x[1]][x[2]].row /\ TableOf[x[1]][x[2]].profile[x[3]] = x[4]
                 => TableOf'[x[1]][x[2]].profile[x[3]] = x[4]
          /\ x[2][1] \notin tenants => TableOf'[x[1]][x[2]] = TableOf[x[1]][x[2]]
      BY <3>1, RegisterGrows
    <3> QED
      BY <2>1, <3>2, <3>3, <3>4, <3>5 DEF Facts
  <2> QED
    BY <2>1 DEF Facts, Register!TenantOfParty
<1>4. \A x, y \in Facts' : <<x[1], x[2], x[3]>> = <<y[1], y[2], y[3]>> => x[4] = y[4]
  BY DEF Facts
<1>5. /\ Owners' = [e \in Events |-> Owners'[e]]
      /\ \A e \in Events : Owners[e] = OwnerOf(e) /\ Owners'[e] = OwnerOf(e)'
  BY DEF Owners
<1>6. \A e \in Events :
          \/ Owners'[e] = Owners[e]
          \/ /\ TenantOf[e] \in tenants
             /\ Register!Promotes(Owners[e], Owners'[e])
             /\ Owners'[e] \in Registered'
             /\ Register!TenantOfParty(Owners'[e]) = TenantOf[e]
  BY <1>5, OwnersPromoted
<1> HIDE DEF tenants
<1> QED
  BY <1>1, <1>2, <1>3, <1>4, <1>5, <1>6 DEF Register!Answer, tenants

\* What is asked changes when a run begins or ends only.
LEMMA OtherSteps ==
    ASSUME IInv, Scoped, Next, ~Commit
    PROVE  Register!Next \/ UNCHANGED <<Asked, Owners, Registered, Facts>>
<1>1. UNCHANGED <<link, parties>>
  BY OnlyCommitWrites
<1>2. UNCHANGED <<Owners, Registered, Facts>>
  BY <1>1 DEF Owners, OwnerOf, Registered, Facts, TableOf
<1>3. CASE \E scope \in Scopes : Begin(scope)
  <2>1. PICK scope \in Scopes : Begin(scope)
    BY <1>3
  <2>2. Asked = {} /\ Asked' = {Covered(scope)} /\ Covered(scope) \in SUBSET Tenants
    BY <2>1 DEF Begin, Asked, Covered, Scopes
  <2> QED
    BY <1>2, <2>2 DEF Register!Next, Register!Ask
<1>4. CASE Fail
  <2>1. Asked' = {}
    BY <1>4 DEF Fail, Asked, Idle
  <2> QED
    BY <1>2, <2>1 DEF Register!Next, Register!GiveUp
<1>5. CASE \E a \in Arrivals : Arrive(a)
  <2>1. run'.pc = run.pc /\ run'.scope = run.scope
    BY <1>5 DEF Arrive, IInv, TypeOK
  <2> QED
    BY <1>2, <2>1 DEF Asked, Covered
<1>6. CASE MerchantsDone \/ \E e \in Events : ResolveMerchant(e) \/ ResolveIndividual(e)
  <2>1. run.pc # "idle" /\ run'.pc # "idle" /\ run'.scope = run.scope
    BY <1>6 DEF MerchantsDone, ResolveMerchant, ResolveIndividual, Onward
  <2> QED
    BY <1>2, <2>1 DEF Asked, Covered
<1>7. CASE \E e \in Events : SkipRow(e)
  <2>1. run'.pc = run.pc /\ run'.scope = run.scope
    BY <1>7 DEF SkipRow, IInv, TypeOK
  <2> QED
    BY <1>2, <2>1 DEF Asked, Covered
<1> QED
  BY <1>3, <1>4, <1>5, <1>6, <1>7 DEF Next

\* Whatever the passes, flushes, merges and failures, a reader of the links and of the party
\* tables sees a register that is asked and then answers at once or gives up.
THEOREM ResolutionImplementsRegister == Spec => ImplementsRegister
<1>1. Init => Register!Init
  <2> SUFFICES ASSUME Init PROVE Register!Init
    OBVIOUS
  <2>1. Asked = {}
    BY DEF Init, Asked, Idle
  <2>2. Owners = [e \in Events |-> None]
    BY DEF Init, Owners, OwnerOf
  <2>3. Registered = {} /\ Facts = {}
    BY DEF Init, Registered, Facts, TableOf, Kinds, NoParty
  <2> QED
    BY <2>1, <2>2, <2>3 DEF Register!Init
<1>2. IInv /\ Scoped /\ [Next]_vars => [Register!Next]_(Register!vars)
  <2> SUFFICES ASSUME IInv, Scoped, [Next]_vars
               PROVE  Register!Next \/ UNCHANGED Register!vars
    OBVIOUS
  <2>1. CASE Commit
    <3>1. Covered(run.scope) \in SUBSET Tenants
      BY DEF IInv, TypeOK, Scopes, Covered
    <3> QED
      BY <2>1, <3>1, CommitAnswers DEF Register!Next
  <2>2. CASE Next /\ ~Commit
    BY <2>2, OtherSteps DEF Register!vars
  <2>3. CASE UNCHANGED vars
    BY <2>3 DEF vars, Register!vars, Asked, Covered, Owners, OwnerOf, Registered, Facts, TableOf
  <2> QED
    BY <2>1, <2>2, <2>3
<1> QED
  BY <1>1, <1>2, Invariance, ScopedInvariant, PTL DEF Spec, ImplementsRegister, Register!Spec
===============================================================================
