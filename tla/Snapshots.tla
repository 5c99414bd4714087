------------------------------ MODULE Snapshots ------------------------------
(***************************************************************************)
(* What is derived from the canonical events: the feature rows of the      *)
(* parties (app/feature_store.py), the behavioural snapshots of senders    *)
(* and of beneficiaries (app/anomaly/features.py, beneficiary_features.py).*)
(* Each has an endpoint that rebuilds it, for one tenant or for all of     *)
(* them, from the events as they are then; the tracks that score the       *)
(* snapshots are in Tracks.                                                *)
(*                                                                         *)
(* Time is counted in days.  Of the features those are kept that a later   *)
(* step compares: the events of a row, and what was new in it.             *)
(***************************************************************************)
EXTENDS Statistics, FiniteSetsExt

CONSTANTS
    Tenants,      \* tenant_bank_id
    Events,       \* canonical events that may arrive
    Facts,        \* their tenant, time, payee, payer and amount
    Accounts,     \* values of payee_account_ref
    Merchants,    \* merchant_id
    Individuals,  \* individual_id
    PartyTenant,  \* the tenant of each of those
    Worlds,       \* what may have arrived, with its links, and how many changes follow
    None,         \* NULL; as a scope: every tenant
    Unreadable,   \* a time that _parse_ts cannot read
    MinWeekly     \* _MIN_TXNS_FOR_WEEKLY_WINDOWING

Parties == Merchants \cup Individuals
Scopes  == Tenants \cup {None}

ASSUME EventsAssumption == IsFiniteSet(Events)
ASSUME FactsAssumption ==
    \A e \in Events : /\ Facts[e].tenant \in Tenants
                      /\ Facts[e].time \in Nat \cup {None, Unreadable}
                      /\ Facts[e].amount \in Nat \cup {None}
ASSUME PartyAssumption ==
    /\ Merchants \cap Individuals = {} /\ None \notin Parties
    /\ PartyTenant \in [Parties -> Tenants]
ASSUME WorldAssumption ==
    \A w \in Worlds :
        /\ DOMAIN w.link \subseteq Events /\ w.changes \in Nat
        /\ w.link \in [DOMAIN w.link -> Parties \cup {None}]
        /\ \A e \in DOMAIN w.link : w.link[e] # None => PartyTenant[w.link[e]] = Facts[e].tenant
ASSUME BoundAssumption == MinWeekly \in Nat

VARIABLES
    link,           \* for each event that has arrived its merchant_id or individual_id
    account,        \* and its payee_account_ref
    features,       \* party_features
    snapshots,      \* anomaly_entity_snapshots, with the columns of the tracks
    beneficiaries,  \* anomaly_beneficiary_snapshots, with the funnel drift
    left,           \* bound of the model: how many arrivals, links and accounts still come
    aux_run         \* the rebuild that was the last step, if it was one: table and scope

tables == <<features, snapshots, beneficiaries>>
vars   == <<link, account, tables, left, aux_run>>

-----------------------------------------------------------------------------
(* The events *)

Covers(scope, t) == scope \in {None, t}
Type(p) == IF p \in Merchants THEN "MERCHANT" ELSE "INDIVIDUAL"

Arrived == DOMAIN link
InScope(scope) == {e \in Arrived : Covers(scope, Facts[e].tenant)}
EventsOf(p) == {e \in Arrived : link[e] = p}
TimeOf(e)  == Facts[e].time
WeekOf(e)  == TimeOf(e) \div 7
Timed(e)   == TimeOf(e) # None          \* transaction_occurred_at IS NOT NULL
Dated(e)   == TimeOf(e) \notin {None, Unreadable}
WeeksOf(S) == {WeekOf(e) : e \in S}
InWeek(S, w) == {e \in S : WeekOf(e) = w}

NoRun == <<"none", None>>
Init ==
    /\ \E w \in Worlds : link = w.link /\ left = w.changes
    /\ aux_run = NoRun
    /\ account = [e \in DOMAIN link |-> None]
    /\ features = {} /\ snapshots = {} /\ beneficiaries = {}

Change(e) ==
    /\ left > 0
    /\ left' = left - 1
    /\ aux_run' = NoRun
    /\ UNCHANGED tables

\* Ingestion: a new event; an account reference filled in by a later file.
Arrive(e) ==
    /\ e \notin Arrived
    /\ Change(e)
    /\ link' = [x \in Arrived \cup {e} |-> IF x = e THEN None ELSE link[x]]
    /\ account' = [x \in Arrived \cup {e} |-> IF x = e THEN None ELSE account[x]]

Capture(e, a) ==
    /\ account[e] = None
    /\ Change(e)
    /\ account' = [account EXCEPT ![e] = a]
    /\ UNCHANGED link

\* Resolution: an event gets a party, or an individual's event turns out a merchant's.
Resolve(e, p) ==
    /\ PartyTenant[p] = Facts[e].tenant
    /\ link[e] = None \/ (link[e] \in Individuals /\ p \in Merchants)
    /\ Change(e)
    /\ link' = [link EXCEPT ![e] = p]
    /\ UNCHANGED account

-----------------------------------------------------------------------------
(* compute_features *)

Grouped(scope, Counts(_)) ==
    {p \in Parties : \E e \in InScope(scope) : link[e] = p /\ Counts(e)}

FeaturesKept(found) == {r \in features : r.party \notin found}
ComputeFeatures(scope) ==
    LET found == Grouped(scope, LAMBDA e : TRUE) IN
    /\ features' = FeaturesKept(found) \cup
                   {[party |-> p, tenant |-> PartyTenant[p], about |-> EventsOf(p)] : p \in found}
    /\ aux_run' = <<"features", scope>>
    /\ UNCHANGED <<link, account, snapshots, beneficiaries, left>>

-----------------------------------------------------------------------------
(* compute_snapshots *)

\* The time from which on a week is held out as "test": in the sorted times of the events
\* of the run the one four fifths into them, which is place k counted from 0.
AtPlace(k, S, t) ==
    /\ Cardinality({e \in S : TimeOf(e) < t}) <= k
    /\ Cardinality({e \in S : TimeOf(e) <= t}) > k
HeldOut(S) == CHOOSE t \in {TimeOf(e) : e \in S} : AtPlace((4 * Cardinality(S)) \div 5, S, t)
CutoffOfParty(scope, p) ==
    LET all == {e \in EventsOf(p) : Dated(e)} IN
    IF Cardinality(all) < 2 THEN None ELSE HeldOut(all)
Cutoff(scope, p) ==
    LET all == {e \in InScope(scope) : link[e] # None /\ Dated(e)} IN
    IF Cardinality(all) < 5 THEN None ELSE HeldOut(all)

\* _new_counterparty_ratio of the events of one row, in percent: each name counts as new
\* where the row has it first.
Named(S) == {e \in S : Facts[e].payee # None}
NewNames(S) == {Facts[e].payee : e \in Named(S)}
NewRatio(S) == IF Named(S) = {} THEN None
               ELSE (100 * Cardinality(NewNames(S))) \div Cardinality(Named(S))
\* amount_total.
Total(S) ==
    LET known == {e \in S : Facts[e].amount # None} IN
    IF known = {} THEN None ELSE FoldSet(LAMBDA e, sum : sum + Facts[e].amount, 0, known)

\* _build_snapshot.  The columns of the tracks are NULL.
Snapshot(p, week, S, split) ==
    [party |-> p, tenant |-> PartyTenant[p], segment |-> Type(p), week |-> week, about |-> S,
     split |-> split, iso |-> None, changed |-> None, drift |-> None, band |-> None]

Weekly(p, S) == p \in Merchants /\ Cardinality(S) >= MinWeekly
SnapshotsOf(p, scope) ==
    LET S == {e \in EventsOf(p) : Dated(e)}
        cutoff == Cutoff(scope, p)
        SplitOf(w) == IF cutoff # None /\ 7 * w >= cutoff THEN "test" ELSE "train"
    IN CASE S = {}       -> {}
         [] Weekly(p, S) -> {Snapshot(p, w, InWeek(S, w), SplitOf(w)) : w \in WeeksOf(S)}
         [] OTHER        -> {Snapshot(p, None, S, "train")}

SnapshotsAllKept(found) == snapshots
SnapshotsKept(found) == {r \in snapshots : r.party \notin found}
ComputeSnapshots(scope) ==
    LET found == Grouped(scope, Timed) IN
    /\ snapshots' = SnapshotsKept(found) \cup UNION {SnapshotsOf(p, scope) : p \in found}
    /\ aux_run' = <<"snapshots", scope>>
    /\ UNCHANGED <<link, account, features, beneficiaries, left>>

-----------------------------------------------------------------------------
(* compute_beneficiary_snapshots *)

\* _beneficiary_key and _sender_key: the first of them that is known.
KeyOf(e)    == IF account[e] # None THEN account[e] ELSE Facts[e].payee
SenderOf(e) == IF link[e] # None THEN link[e] ELSE Facts[e].payer
Senders(S)  == {SenderOf(e) : e \in S} \ {None}

Paying(scope) == {e \in InScope(scope) : Facts[e].payee # None /\ Dated(e)}
Received(e)   == [tenant |-> Facts[e].tenant, key |-> KeyOf(e)]

SeenThisWeek(S, w) == {}
SeenBefore(S, w) == Senders({e \in S : WeekOf(e) < w})
BeneficiaryRows(b, S) ==
    {[tenant |-> b.tenant, key |-> b.key, week |-> w, about |-> InWeek(S, w),
      senders |-> Senders(InWeek(S, w)),
      newSenders |-> Senders(InWeek(S, w)) \ SeenBefore(S, w), drift |-> None] : w \in WeeksOf(S)}

BeneficiariesKept(found) ==
    {r \in beneficiaries : [tenant |-> r.tenant, key |-> r.key] \notin found}
ComputeBeneficiaries(scope) ==
    LET found == {Received(e) : e \in Paying(scope)} IN
    /\ beneficiaries' = BeneficiariesKept(found) \cup
           UNION {BeneficiaryRows(b, {e \in Paying(scope) : Received(e) = b}) : b \in found}
    /\ aux_run' = <<"beneficiaries", scope>>
    /\ UNCHANGED <<link, account, features, snapshots, left>>

Rebuild ==
    \/ \E e \in Events : Arrive(e)
    \/ \E e \in Arrived, a \in Accounts : Capture(e, a)
    \/ \E e \in Arrived, p \in Parties : Resolve(e, p)
    \/ \E scope \in Scopes : \/ ComputeFeatures(scope) \/ ComputeSnapshots(scope)
                             \/ ComputeBeneficiaries(scope)
-----------------------------------------------------------------------------
(* Properties *)

\* The events S are shared out among the rows, each row with events of its own.
SharedOut(S, rows) ==
    /\ UNION {r.about : r \in rows} = S
    /\ \A r, q \in rows : r # q => r.about \cap q.about = {}
    /\ \A r \in rows : r.about # {}

FeaturesDescribe(p) ==
    EventsOf(p) # {} => {r.about : r \in {x \in features : x.party = p}} = {EventsOf(p)}
SnapshotsDescribe(p) ==
    LET rows == {r \in snapshots : r.party = p}
        S == {e \in EventsOf(p) : Dated(e)}
    IN (\E e \in EventsOf(p) : Timed(e)) =>
           /\ SharedOut(S, rows)
           /\ \A r \in rows : IF Weekly(p, S) THEN WeeksOf(r.about) = {r.week} ELSE r.about = S
BeneficiaryDescribed(b) ==
    LET rows == {r \in beneficiaries : r.tenant = b.tenant /\ r.key = b.key} IN
    /\ SharedOut({e \in Paying(b.tenant) : Received(e) = b}, rows)
    /\ \A r \in rows : WeeksOf(r.about) = {r.week}
PartiesIn(scope) == {p \in Parties : Covers(scope, PartyTenant[p])}

\* compute_features, compute_snapshots, compute_beneficiary_snapshots: "each run replaces
\* every row for the parties it covers".  However events moved between parties and keys and
\* whichever scopes were run before, after a run the rows in its scope share out the events
\* exactly, each weekly row having those of its week; the only other rows are those of
\* parties and keys without any event the run looks at.
RunsDescribeEvents ==
    LET table == aux_run[1]
        scope == aux_run[2]
    IN /\ table = "features"  => \A p \in PartiesIn(scope) : FeaturesDescribe(p)
       /\ table = "snapshots" => \A p \in PartiesIn(scope) : SnapshotsDescribe(p)
       /\ table = "beneficiaries" => \A e \in Paying(scope) : BeneficiaryDescribed(Received(e))

\* distinct_new_senders: "for the first time ever (not first time this week)": whatever
\* was rebuilt when, a sender counts as new in exactly one week of a beneficiary of a
\* tenant, the first in which it has paid.
SendersNewOnce ==
    \A r \in beneficiaries : \A s \in r.senders :
        LET weeks == {q \in beneficiaries : q.tenant = r.tenant /\ q.key = r.key /\ s \in q.senders}
            first == {q \in weeks : s \in q.newSenders}
        IN Cardinality(first) = 1 /\ \A q \in first : q.week <= r.week

\* "Keeps test meaning the same instant in time for everyone": after a run, a week of any
\* merchant in its scope that is held out is later than every week of any of them that is
\* trained on, unless nothing is left of that merchant's events.
SplitByTime ==
    aux_run[1] = "snapshots" =>
        \A r, q \in {x \in snapshots : x.week # None /\ x.party \in Grouped(aux_run[2], Timed)} :
            r.split = "train" /\ q.split = "test" => r.week < q.week

=============================================================================
