------------------------------ MODULE Operations ------------------------------
(***************************************************************************)
(* The operational issues engine (app/operations) and the reconciliation   *)
(* break detector: six endpoints of the pipeline, each of which deletes    *)
(* its own rows in the scope it is asked for, one tenant or all, and adds  *)
(* what the canonical events and the weekly snapshots show now.            *)
(*                                                                         *)
(* A handler runs alone; what varies is the order of merges, snapshots,    *)
(* the passing of deadlines and runs of different scopes.                  *)
(***************************************************************************)
EXTENDS Statistics, Sequences, FiniteSetsExt

CONSTANTS
    Tenants,      \* tenant_bank_id
    Arrivals,     \* the rows that settlement files may bring, each any number of times
    Histories,    \* what may be stored already: the events in the order of their ids
    Parties,      \* merchants with weekly snapshots
    PartyTenant,  \* their tenants
    Ratios,       \* what a weekly ratio may be, as a whole number of some unit, or None
    Weeks,        \* what a week may bring: pairs of a timeout and a reject ratio
    Pasts,        \* what may have been seen of a party before: sequences of such weeks
    None,         \* NULL; as a scope: every tenant
    MaxChanges,   \* bound of the model: merges, weeks and days in all
    MaxRuns       \* bound of the model: detector runs in all

KeyColumns  == {"tenant", "txn", "rail"}
DataColumns == {"batch", "due", "reached", "status", "idem", "retry", "original",
                "format", "recon", "variance"}

IsRow(a) == /\ DOMAIN a = KeyColumns \cup DataColumns
            /\ a.tenant \in Tenants /\ a.txn # None /\ a.due \in Int \cup {None}
SameEvent(e, f) == \A c \in KeyColumns : e[c] = f[c]
IsStore(rows) == /\ rows \in Seq(Range(rows)) /\ \A i \in DOMAIN rows : IsRow(rows[i])
                 /\ \A i, j \in DOMAIN rows : SameEvent(rows[i], rows[j]) => i = j

ASSUME ScopeAssumption == None \notin Tenants
ASSUME ArrivalsAssumption ==
    /\ \A a \in Arrivals : IsRow(a)
    /\ \A h \in Histories : IsStore(h)
ASSUME PartyAssumption ==
    /\ PartyTenant \in [Parties -> Tenants]
    /\ Ratios \subseteq Int \cup {None}
    /\ Weeks \subseteq [timeout : Ratios, reject : Ratios]
    /\ \A past \in Pasts : past \in Seq(Weeks)
ASSUME BoundAssumption == MaxChanges \in Nat /\ MaxRuns \in Nat

Issues == {"BATCH_NOT_SETTLED", "DUPLICATE_PAYMENT", "FORMAT_REJECTION",
           "NETWORK_TIMEOUT_SPIKE", "FORMAT_REJECTION_SPIKE"}
Tables == Issues \cup {"RECONCILIATION_BREAK"}   \* a table of its own
Spikes == {"NETWORK_TIMEOUT_SPIKE", "FORMAT_REJECTION_SPIKE"}
Scopes == Tenants \cup {None}

VARIABLES
    events,     \* canonical_events in the order of their ids
    weekly,     \* per party its WEEKLY snapshots, oldest first: two ratios each
    found,      \* per table its rows
    today,      \* the date
    changes,    \* merges, weeks and days so far
    runs,       \* detector runs so far
    aux_last,   \* the last run: table and scope
    aux_fresh   \* per table: <<t, scope>> where the last run for t was over scope, and nothing
                \* in that scope has changed since

vars == <<events, weekly, found, today, changes, runs, aux_last, aux_fresh>>

-----------------------------------------------------------------------------
Covers(scope, t) == scope \in {None, t}
Covered(scope)   == {t \in Tenants : Covers(scope, t)}

Merged(a, e) == [c \in DOMAIN e |-> IF a[c] # None THEN a[c] ELSE e[c]]

UpsertedAlways(rows, a) == Append(rows, a)
\* A settlement row is merged into its event, or becomes a new one (upsert_canonical_event).
Upserted(rows, a) ==
    IF \E i \in DOMAIN rows : SameEvent(a, rows[i])
    THEN [i \in DOMAIN rows |-> IF SameEvent(a, rows[i]) THEN Merged(a, rows[i]) ELSE rows[i]]
    ELSE Append(rows, a)

Init ==
    /\ \/ /\ events \in Histories
          /\ weekly = [p \in Parties |-> <<>>]
       \/ /\ events = <<>>
          /\ weekly \in [Parties -> Pasts]
    /\ found = [table \in Tables |-> {}]
    /\ today = 0
    /\ changes = 0
    /\ runs = 0
    /\ aux_last = <<"none", None>>
    /\ aux_fresh = [table \in Tables |-> {}]

Stale(tables, t) ==
    [table \in Tables |-> {f \in aux_fresh[table] : table \in tables => ~Covers(f[2], t)}]

Change == changes < MaxChanges /\ changes' = changes + 1

Arrive(a) ==
    /\ Change
    /\ events' = Upserted(events, a)
    /\ aux_fresh' = Stale(Tables \ Spikes, a.tenant)
    /\ UNCHANGED <<weekly, found, today, runs, aux_last>>

\* compute_snapshots after another week of the party's events.
Week(p, week) ==
    /\ Change
    /\ weekly' = [weekly EXCEPT ![p] = Append(@, week)]
    /\ aux_fresh' = Stale(Spikes, PartyTenant[p])
    /\ UNCHANGED <<events, found, today, runs, aux_last>>

\* A day passes: more batches are overdue.
Day ==
    /\ Change
    /\ today' = today + 1
    /\ aux_fresh' = [aux_fresh EXCEPT !["BATCH_NOT_SETTLED"] = {}]
    /\ UNCHANGED <<events, weekly, found, runs, aux_last>>

-----------------------------------------------------------------------------
(* What the detectors find *)

\* The rows of a run, by their ids.
InScope(scope) == RestrictValues(events, LAMBDA e : Covers(scope, e.tenant))
First(rows)    == rows[Min(DOMAIN rows)]

\* detect_unsettled_batches.  The rows of a batch are gathered by batch_id; the first of
\* them that has a deadline gives it, the first of all gives the tenant.
BatchRows(b, rows) == RestrictValues(rows, LAMBDA e : e.batch = b)
Deadlines(batch)   == RestrictValues(batch, LAMBDA e : e.due # None)
NotYetDueToday(batch) == Range(Deadlines(batch)) = {} \/ First(Deadlines(batch)).due >= today
NotYetDue(batch) == Range(Deadlines(batch)) = {} \/ First(Deadlines(batch)).due > today
Unsettled(batch) == {e \in Range(batch) : e.reached # TRUE}

BatchIssue(b, batch) == [tenant |-> First(batch).tenant, ref |-> b, about |-> Unsettled(batch)]
OverdueBatches(scope) ==
    LET batch(b) == BatchRows(b, InScope(scope)) IN
    {BatchIssue(b, batch(b)) : b \in {x \in {e.batch : e \in Range(InScope(scope))} \ {None} :
                                          ~NotYetDue(batch(x)) /\ Unsettled(batch(x)) # {}}}

\* detect_duplicate_payments.  Rows that share an idempotency key form a group; a retry and
\* its original form another, unless they share one.  Of several rows with the original's
\* transaction id the last one is taken.
Originals(e, rows)  == {o \in DOMAIN rows : rows[o].tenant = e.tenant /\ rows[o].txn = e.original}
OriginalOf(e, rows) == Max(Originals(e, rows))
ShareKey(e, o) == e.idem # None /\ e.idem = o.idem
Links(e, rows) ==
    /\ e.retry = TRUE /\ e.original # None
    /\ Originals(e, rows) # {} /\ ~ShareKey(e, rows[OriginalOf(e, rows)])

\* The rows that get into a group; those in its lead are gathered before the others.
KeyGroupAnyTenant(e, rows) ==
    [tenant |-> e.tenant, link |-> "KEY", lead |-> <<>>,
     members |-> RestrictValues(rows, LAMBDA o : o.idem = e.idem)]
KeyGroup(e, rows) ==
    [tenant |-> e.tenant, link |-> "KEY", lead |-> <<>>,
     members |-> RestrictValues(rows, LAMBDA o : o.tenant = e.tenant /\ o.idem = e.idem)]
Retries(e, rows) == {i \in DOMAIN rows : /\ rows[i].tenant = e.tenant
                                         /\ rows[i].original = e.original /\ Links(rows[i], rows)}
LinkGroup(e, rows) ==
    [tenant |-> e.tenant, link |-> "RETRY", lead |-> <<Min(Retries(e, rows)), OriginalOf(e, rows)>>,
     members |-> Restrict(rows, Retries(e, rows) \cup {OriginalOf(e, rows)})]
Groups(rows) == {KeyGroup(e, rows) : e \in {x \in Range(rows) : x.idem # None}}
                \cup {LinkGroup(e, rows) : e \in {x \in Range(rows) : Links(x, rows)}}

\* settled[0]: behind the lead the members come in the order of their ids.
Settled(group) == RestrictValues(group.members, LAMBDA e : e.status = "SETTLED")
FirstSettled(group) ==
    LET ahead == {k \in DOMAIN group.lead : group.lead[k] \in DOMAIN Settled(group)}
    IN IF ahead = {} THEN First(Settled(group)) ELSE group.members[group.lead[Min(ahead)]]
Duplicate(group) == [tenant |-> group.tenant, ref |-> FirstSettled(group).txn,
                     link |-> group.link, about |-> Range(Settled(group))]
Duplicates(scope) ==
    {Duplicate(g) : g \in {x \in Groups(InScope(scope)) : Size(Settled(x)) >= 2}}

\* list_format_rejections.
Rejections(scope) ==
    {[tenant |-> e.tenant, ref |-> e.txn, about |-> {e}] :
        e \in {x \in Range(InScope(scope)) : x.format = "FAILED"}}

\* detect_timeout_spikes and score_format_rejection_drift: a week against the party's own
\* earlier ones.  The first flags |z| >= 2; the second a score of 60, which is |z| >= 3.
BaselineWithWeek(p, w, ratio) == [i \in 1..w |-> weekly[p][i][ratio]]
Baseline(p, w, ratio) == [i \in 1..(w - 1) |-> weekly[p][i][ratio]]
Drifted(p, w, ratio, limit) ==
    LET now == weekly[p][w][ratio]
        prior == Known(Baseline(p, w, ratio), None)
    IN now # None /\ Judged(prior) /\ AtLeast(limit, now, prior)
SpikeWeeks(scope, ratio, limit) ==
    UNION {{[tenant |-> PartyTenant[p], ref |-> p, week |-> w] :
               w \in {x \in 1..Len(weekly[p]) : Drifted(p, x, ratio, limit)}} :
           p \in {q \in Parties : Covers(scope, PartyTenant[q])}}
TimeoutSpikes(scope) == SpikeWeeks(scope, "timeout", 2)
RejectSpikes(scope)  == SpikeWeeks(scope, "reject", 3)

\* detect_reconciliation_breaks: two independent checks of what has been reconciled.
Break(e, type) == [tenant |-> e.tenant, ref |-> e.txn, type |-> type, about |-> {e}]
Breaks(scope) ==
    LET checked == {e \in Range(InScope(scope)) : e.recon # None}
        provisional == {e \in checked : e.recon # "BREAK" /\ e.variance \notin {None, 0}}
    IN {Break(e, "CONFIRMED_BREAK") : e \in {x \in checked : x.recon = "BREAK"}}
       \cup {Break(e, "PROVISIONAL_VARIANCE") : e \in provisional}

Detected(table, scope) ==
    CASE table = "BATCH_NOT_SETTLED"      -> OverdueBatches(scope)
      [] table = "DUPLICATE_PAYMENT"      -> Duplicates(scope)
      [] table = "FORMAT_REJECTION"       -> Rejections(scope)
      [] table = "NETWORK_TIMEOUT_SPIKE"  -> TimeoutSpikes(scope)
      [] table = "FORMAT_REJECTION_SPIKE" -> RejectSpikes(scope)
      [] table = "RECONCILIATION_BREAK"   -> Breaks(scope)

\* What the DELETE at the start of a run leaves.
KeptNothing(table, scope) == {}
Kept(table, scope) == {r \in found[table] : ~Covers(scope, r.tenant)}

Detect(table, scope) ==
    /\ runs < MaxRuns
    /\ runs' = runs + 1
    /\ found' = [found EXCEPT ![table] = Kept(table, scope) \cup Detected(table, scope)]
    /\ aux_last' = <<table, scope>>
    /\ aux_fresh' = [aux_fresh EXCEPT ![table] = {f \in @ : ~Covers(scope, f[1])}
                                                \cup (Covered(scope) \X {scope})]
    /\ UNCHANGED <<events, weekly, today, changes>>

Next ==
    \/ \E a \in Arrivals : Arrive(a)
    \/ \E p \in Parties, week \in Weeks : Week(p, week)
    \/ Day
    \/ \E table \in Tables, scope \in Scopes : Detect(table, scope)

Spec == Init /\ [][Next]_vars
-----------------------------------------------------------------------------
(* Properties *)

\* The shape of the state; an event has one row however often it was merged.
TypeOK ==
    /\ IsStore(events)
    /\ weekly \in [Parties -> Seq(Weeks)]
    /\ DOMAIN found = Tables
    /\ \A table \in Tables : \A r \in found[table] : r.tenant \in Tenants
    /\ today \in 0..changes /\ changes \in 0..MaxChanges /\ runs \in 0..MaxRuns
    /\ aux_fresh \in [Tables -> SUBSET (Tenants \X Scopes)]

RowsOf(table, t) == {r \in found[table] : r.tenant = t}
EventsOf(t)      == {e \in Range(events) : e.tenant = t}
Fresh(table)     == {f[1] : f \in aux_fresh[table]}

\* A batch is listed for its tenant once its deadline has passed and some of its rows are
\* unsettled, and not otherwise, whatever was merged in which order before the run: listed
\* if all the deadlines its rows name have passed, not listed if none has.  A run for all
\* tenants promises this only of a batch id that one tenant uses.
OverdueBatchesListed ==
    \A f \in aux_fresh["BATCH_NOT_SETTLED"], b \in {e.batch : e \in Range(events)} \ {None} :
        LET t    == f[1]
            own  == {e \in EventsOf(t) : e.batch = b}
            open == {e \in own : e.reached # TRUE}
            due  == {e.due : e \in own} \ {None}
            listed == {r \in RowsOf("BATCH_NOT_SETTLED", t) : r.ref = b}
        IN f[2] = t \/ (\A e \in Range(events) : e.batch = b => e.tenant = t)
           => /\ open # {} /\ due # {} /\ (\A d \in due : d <= today)
                     => {r.about : r \in listed} = {open}
              /\ open = {} \/ (\A d \in due : d > today) => listed = {}

\* "If both do, the retry wasn't correctly deduplicated and the payment went through
\* twice": two settled rows of a tenant that share a key, or that are a retry and its one
\* original, are listed together; what is listed together is settled and hangs together.
RetryOf(e, o) == e.retry = TRUE /\ e.original = o.txn
Related(e, f) == \/ ShareKey(e, f) \/ RetryOf(e, f) \/ RetryOf(f, e)
                 \/ e.retry = TRUE /\ f.retry = TRUE /\ e.original = f.original
PaidTwiceIsListed ==
    \A t \in Fresh("DUPLICATE_PAYMENT") :
        LET rows == RowsOf("DUPLICATE_PAYMENT", t)
            OnlyRow(o) == \A f \in EventsOf(t) : f.txn = o.txn => f = o
            Paid == {e \in EventsOf(t) : e.status = "SETTLED"}
        IN /\ \A e, f \in Paid :
                  e # f /\ (ShareKey(e, f) \/ (RetryOf(e, f) /\ OnlyRow(f)))
                  => \E r \in rows : {e, f} \subseteq r.about
           /\ \A r \in rows :
                  /\ r.about \subseteq Paid /\ Cardinality(r.about) > 1
                  /\ \A e, f \in r.about : e # f => Related(e, f)

RatioOf(table) == IF table = "NETWORK_TIMEOUT_SPIKE" THEN "timeout" ELSE "reject"
Measured(p, w, ratio) == {i \in 1..(w - 1) : weekly[p][i][ratio] # None}
Listed(table, p, w)   == \E r \in found[table] : r.ref = p /\ r.week = w

\* A spike is judged by the party's own earlier weeks only: none without two of them that
\* were measured; after a constant history every week above it, and no week equal to it;
\* and no week that lies within a history of at most five weeks.  Of weeks below their
\* history nothing is required: the code lists them, as the scores are of the absolute
\* deviation, while format_rejection.py speaks of ratios that "drifted meaningfully above".
SpikesJudgedByPast ==
    \A table \in Spikes : \A p \in Parties : PartyTenant[p] \in Fresh(table) =>
        \A w \in 1..Len(weekly[p]) :
            LET ratio == RatioOf(table)
                now   == weekly[p][w][ratio]
                prior == Measured(p, w, ratio)
                Seen  == {weekly[p][i][ratio] : i \in prior}
            IN /\ Listed(table, p, w) => now # None /\ Cardinality(prior) >= 2
               /\ Cardinality(prior) >= 2 /\ Cardinality(Seen) = 1 /\ now # None =>
                      /\ (\A v \in Seen : v < now) => Listed(table, p, w)
                      /\ now \in Seen => ~Listed(table, p, w)
               /\ Listed(table, p, w) /\ Cardinality(prior) <= 5 =>
                      (\A v \in Seen : v < now) \/ (\A v \in Seen : v > now)

\* "Each run deletes and rebuilds the rows it covers": whatever else is in the tables, a
\* run touches no row of another tenant or of another detector.
ScopedRebuild ==
    [][\A table \in Tables, t \in Tenants :
          {r \in found'[table] : r.tenant = t} # RowsOf(table, t)
              => aux_last' \in {<<table, t>>, <<table, None>>}]_vars
=============================================================================
