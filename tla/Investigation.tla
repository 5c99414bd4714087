----------------------------- MODULE Investigation -----------------------------
(***************************************************************************)
(* From detected claims to reviewed cases: the tables that                 *)
(* detect_reconciliation_breaks, compute_snapshots and the scoring rebuild *)
(* (the claims), compute_cases (cases and their alerts), and set_review    *)
(* and validate_investigation_case (the analysts' verdicts).               *)
(*                                                                         *)
(* Every handler is synchronous and so runs alone in the event loop: one   *)
(* action each, except that validate_investigation_case commits once per   *)
(* alert and can be cut short between two commits.  What goes wrong goes   *)
(* wrong between handlers: a row's id is its rowid, SQLite gives a new row *)
(* the greatest rowid plus one, and a rebuild deletes rows first, so an id *)
(* that an alert or a review holds may belong to another claim later.      *)
(***************************************************************************)
EXTENDS Integers, FiniteSets

CONSTANTS
    Tenants,      \* tenant_bank_id
    Breaks,       \* transactions that may be reported as reconciliation breaks
    Snapshots,    \* entity snapshots that may be made: each of a party and a span of its events
    PartyOf,      \* the party of each of them; a break stands for itself
    Weekly,       \* those of one week (window_type WEEKLY); the others are TO_DATE
    TenantOf,     \* the tenant of each break and snapshot
    GroupOf,      \* its category and payment rail, or a snapshot's
    EndOf,        \* the window_end of a snapshot, in hours; 0 for a break
    RankOf,       \* the order in which rows are made for them
    Window,       \* _CLUSTER_WINDOW, in hours
    None,         \* no row; as a scope: every tenant
    Pictures,     \* bound of the model: what the canonical events may show, at one time or another
    MaxId,        \* bound of the model: greatest rowid
    MaxRuns,      \* bound of the model: detector, scoring and clustering runs in all
    MaxVerdicts   \* bound of the model: reviews and validations in all

Subjects == Breaks \cup Snapshots
Types    == {"reconciliation_break", "fraud_anomaly"}
Ids      == 1..MaxId
Scopes   == Tenants \cup {None}
Verdicts == {"PENDING", "CONFIRMED", "DISMISSED"}   \* AnalystReview.status
Stati    == {"PENDING", "VALID", "INVALID"}         \* InvestigationCase.validation_status
Groups   == {GroupOf[s] : s \in Subjects}

\* Two rows may be there at a time: not for the same subject, and of a party only two weeks.
Coexist(a, b) == a # b /\ (PartyOf[a] = PartyOf[b] => a \in Weekly /\ b \in Weekly)

\* A row of the two tables of claims, and one of investigation_cases.
ClaimRow == [subject : Subjects, material : BOOLEAN]
CaseRow  == [tenant : Tenants, group : Groups, status : Stati]

ASSUME NoneAssumption    == /\ None \notin Subjects \cup Tenants \cup Verdicts
                            /\ None \notin ClaimRow \cup CaseRow
ASSUME SubjectAssumption == /\ Breaks \cap Snapshots = {} /\ Weekly \subseteq Snapshots
                            /\ TenantOf \in [Subjects -> Tenants]
                            /\ \A a, b \in Subjects : PartyOf[a] = PartyOf[b] =>
                                   TenantOf[a] = TenantOf[b] /\ (a \in Breaks => a = b)
                            /\ EndOf \in [Subjects -> Nat] /\ \A b \in Breaks : EndOf[b] = 0
                            /\ RankOf \in [Subjects -> Nat]
                            /\ \A a, b \in Subjects : RankOf[a] = RankOf[b] => a = b
\* A merchant with at least _MIN_TXNS_FOR_WEEKLY_WINDOWING dated events has its active
\* weeks, any other party its one span up to its last event.
ASSUME PictureAssumption == \A picture \in Pictures :
                                /\ picture \subseteq Subjects
                                /\ \A a, b \in picture : a # b => Coexist(a, b)
ASSUME FiniteAssumption  == IsFiniteSet(Subjects)
ASSUME BoundAssumption   == /\ Window \in Nat /\ MaxId \in Nat /\ MaxRuns \in Nat
                            /\ MaxVerdicts \in Nat

VARIABLES
    shown,       \* what the canonical events show: broken transactions, spans of parties
    claims,      \* per table and rowid: the row, or None
    cases,       \* investigation_cases: per rowid the row, or None
    alerts,      \* investigation_case_alerts
    reviews,     \* analyst_reviews: per (type, tenant, id) the status, or None
    runs,        \* runs so far
    verdicts,    \* reviews and validations so far
    aux_about,   \* per review: the subject it was given for, or None
    aux_fresh,   \* tenants whose cases were computed after their claims last changed
    aux_mixed    \* cases of which some alert was reviewed on its own since the validation

vars == <<shown, claims, cases, alerts, reviews, runs, verdicts, aux_about, aux_fresh, aux_mixed>>

-----------------------------------------------------------------------------
Row(s, material) == [subject |-> s, material |-> material]
Case(tenant, group, status) == [tenant |-> tenant, group |-> group, status |-> status]
Covers(scope, t) == scope \in {None, t}

RowsOf(table)     == {i \in Ids : table[i] # None}
Kept(table, gone) == [i \in Ids |-> IF i \in gone THEN None ELSE table[i]]
NextId(table)     == 1 + (IF RowsOf(table) = {} THEN 0
                          ELSE CHOOSE i \in RowsOf(table) : \A j \in RowsOf(table) : j <= i)

\* Rows for the subjects S, in the order of their events, behind those of the table.
Place(table, S, s) == NextId(table) + Cardinality({x \in S : RankOf[x] < RankOf[s]})
Added(table, S, material) ==
    [i \in Ids |-> IF \E s \in S : Place(table, S, s) = i
                   THEN Row(CHOOSE s \in S : Place(table, S, s) = i, material)
                   ELSE table[i]]
Fits(table, n) == NextId(table) + n <= MaxId + 1

ClaimTenant(type, i) == TenantOf[claims[type][i].subject]
RowsInScope(type, scope) == {i \in RowsOf(claims[type]) : Covers(scope, ClaimTenant(type, i))}

\* Claims as the analysts see them: a break, or a snapshot in a material band.
IsClaim(type, i) == claims[type][i] # None /\ claims[type][i].material
ClaimsOf(t) == {k \in Types \X Ids : IsClaim(k[1], k[2]) /\ ClaimTenant(k[1], k[2]) = t}

Init ==
    /\ shown \in Pictures
    /\ claims = [type \in Types |-> [i \in Ids |-> None]]
    /\ cases = [i \in Ids |-> None]
    /\ alerts = {}
    /\ reviews = [k \in Types \X Tenants \X Ids |-> None]
    /\ runs = 0
    /\ verdicts = 0
    /\ aux_about = [k \in Types \X Tenants \X Ids |-> None]
    /\ aux_fresh = {}
    /\ aux_mixed = {}

\* Ingestion and resolution change what the events show: a break is reconciled or a new one
\* reported, a party gets events or loses them to a merchant.  A merchant loses none: once it
\* has weeks it keeps having weeks.
Ingest(picture) ==
    /\ \A a \in shown \cap Weekly : \E b \in picture \cap Weekly : PartyOf[b] = PartyOf[a]
    /\ shown' = picture
    /\ UNCHANGED <<claims, cases, alerts, reviews, runs, verdicts, aux_about, aux_fresh, aux_mixed>>

Detection(scope) ==
    /\ runs < MaxRuns
    /\ runs' = runs + 1
    /\ aux_fresh' = {t \in aux_fresh : ~Covers(scope, t)}
    /\ UNCHANGED <<shown, cases, alerts, reviews, verdicts, aux_about, aux_mixed>>

\* detect_reconciliation_breaks: every row in the scope is deleted, one is added for
\* every broken transaction in it.
DetectBreaks(scope) ==
    LET table == Kept(claims["reconciliation_break"], RowsInScope("reconciliation_break", scope))
        found == {s \in shown \cap Breaks : Covers(scope, TenantOf[s])}
    IN /\ Detection(scope)
       /\ Fits(table, Cardinality(found))
       /\ claims' = [claims EXCEPT !["reconciliation_break"] = Added(table, found, TRUE)]

ReplacedSpan(found) == {i \in RowsOf(claims["fraud_anomaly"]) : claims["fraud_anomaly"][i].subject \in found}
Replaced(found) ==
    {i \in RowsOf(claims["fraud_anomaly"]) :
        \E s \in found : PartyOf[s] = PartyOf[claims["fraud_anomaly"][i].subject]}

\* compute_snapshots: all rows of the parties that have events are replaced, whichever spans
\* they were of; the new ones are not yet scored.  Rows of other parties stay.
ComputeSnapshots(scope) ==
    LET found == {s \in shown \cap Snapshots : Covers(scope, TenantOf[s])}
        table == Kept(claims["fraud_anomaly"], Replaced(found))
    IN /\ Detection(scope)
       /\ Fits(table, Cardinality(found))
       /\ claims' = [claims EXCEPT !["fraud_anomaly"] = Added(table, found, FALSE)]

\* train_and_score, the other tracks and compute_final_score: a new band for every row in
\* the scope; which of them are material depends on all of them together.
ScoreSnapshots(scope) ==
    LET table  == claims["fraud_anomaly"]
        scored == RowsInScope("fraud_anomaly", scope)
    IN /\ Detection(scope)
       /\ \E hot \in SUBSET scored :
             claims' = [claims EXCEPT !["fraud_anomaly"] =
                 [i \in Ids |-> IF i \in scored THEN Row(table[i].subject, i \in hot) ELSE table[i]]]

-----------------------------------------------------------------------------
(* compute_cases *)

SubjectOf(k) == claims[k[1]][k[2]].subject
Group(k)     == <<TenantOf[SubjectOf(k)], GroupOf[SubjectOf(k)]>>
Time(k)      == EndOf[SubjectOf(k)]

\* The order in which the signals are collected: breaks, then snapshots, each by id.
CollectedBefore(a, b) ==
    \/ a[1] = "reconciliation_break" /\ b[1] = "fraud_anomaly"
    \/ a[1] = b[1] /\ a[2] < b[2]
\* The stable sort of a group by detected_at.
Before(a, b) == Time(a) < Time(b) \/ (Time(a) = Time(b) /\ CollectedBefore(a, b))

SignalsOfAnyBand(scope) == {k \in Types \X Ids : /\ claims[k[1]][k[2]] # None
                                                 /\ Covers(scope, ClaimTenant(k[1], k[2]))}
Signals(scope) == {k \in Types \X Ids : /\ IsClaim(k[1], k[2])
                                        /\ Covers(scope, ClaimTenant(k[1], k[2]))}

\* A signal more than Window after the one before it in its group starts a new cluster.
ApartAtOnce(gap) == gap >= Window
Apart(gap) == gap > Window

ClusterOf(k, signals) ==
    LET group == {x \in signals : Group(x) = Group(k)}
        Opens(x) == \A y \in group : Before(y, x) => Apart(Time(x) - Time(y))
        Between(a, b) == {x \in group : Before(a, x) /\ (x = b \/ Before(x, b))}
    IN {x \in group : \A y \in Between(x, k) \cup Between(k, x) : ~Opens(y)}
Clusters(signals) == {ClusterOf(k, signals) : k \in signals}

First(c) == CHOOSE k \in c : \A x \in c : ~Before(x, k)

\* Cases are created group by group, in the order the groups were first met, and within a
\* group by time.
CreatedBefore(c, d, signals) ==
    LET Met(g) == {k \in signals : Group(k) = g}
        OfC == Group(First(c))
        OfD == Group(First(d))
    IN IF OfC = OfD THEN Before(First(c), First(d))
       ELSE \E k \in Met(OfC) : \A x \in Met(OfD) : CollectedBefore(k, x)
CasePlace(table, c, signals) ==
    NextId(table) + Cardinality({d \in Clusters(signals) : d # c /\ CreatedBefore(d, c, signals)})

AlertsKept(scope) == alerts
AlertsOutside(scope) == {a \in alerts : ~Covers(scope, a.tenant)}

\* _create_case: the row, and an alert for each of the claims in order.
NewCase(c) == Case(Group(First(c))[1], Group(First(c))[2], "PENDING")
Position(k, c) == 1 + Cardinality({x \in c : Before(x, k)})
NewAlert(k, c, id) == [case |-> id, tenant |-> Group(k)[1], type |-> k[1], source |-> k[2],
                       pos |-> Position(k, c)]

ComputeCases(scope) ==
    LET signals == Signals(scope)
        table   == Kept(cases, {i \in RowsOf(cases) : Covers(scope, cases[i].tenant)})
        new     == Clusters(signals)
        Id(c)   == CasePlace(table, c, signals)
    IN /\ runs < MaxRuns
       /\ runs' = runs + 1
       /\ Fits(table, Cardinality(new))
       /\ cases' = [i \in Ids |->
             IF \E c \in new : Id(c) = i THEN NewCase(CHOOSE c \in new : Id(c) = i) ELSE table[i]]
       /\ alerts' = AlertsOutside(scope) \cup
             UNION {{NewAlert(k, c, Id(c)) : k \in c} : c \in new}
       /\ aux_fresh' = aux_fresh \cup {t \in Tenants : Covers(scope, t)}
       /\ aux_mixed' = {i \in aux_mixed : table[i] # None}
       /\ UNCHANGED <<shown, claims, reviews, verdicts, aux_about>>

-----------------------------------------------------------------------------
(* The verdicts *)

AlertsOf(i, t) == {a \in alerts : a.case = i /\ a.tenant = t}
KeyOf(a) == <<a.type, a.tenant, a.source>>
About(key) ==
    LET row == claims[key[1]][key[3]] IN IF row = None THEN None ELSE row.subject

VerdictCopied(status) == status
VerdictFor(status) ==
    CASE status = "VALID" -> "CONFIRMED" [] status = "INVALID" -> "DISMISSED" [] OTHER -> "PENDING"

\* set_review for each of the keys.  The id is taken as it is: nothing looks it up.
Reviewed(keys, verdict) ==
    /\ verdicts < MaxVerdicts
    /\ verdicts' = verdicts + 1
    /\ reviews' = [k \in DOMAIN reviews |-> IF k \in keys THEN verdict ELSE reviews[k]]
    /\ aux_about' = [k \in DOMAIN aux_about |-> IF k \in keys THEN About(k) ELSE aux_about[k]]

\* POST /review/set, for a claim that the analyst's screen shows: one that is in the table,
\* or that an alert of a case points to, which may be gone.
OnScreen == UNION {{<<k[1], t, k[2]>> : k \in ClaimsOf(t)} : t \in Tenants} \cup {KeyOf(a) : a \in alerts}
SetReview(key, verdict) ==
    /\ Reviewed({key}, verdict)
    /\ aux_mixed' = aux_mixed \cup {i \in RowsOf(cases) : \E a \in alerts : a.case = i /\ KeyOf(a) = key}
    /\ UNCHANGED <<shown, claims, cases, alerts, runs, aux_fresh>>

\* POST /investigation/cases/{i}/validate.  The first set_review commits the case's status
\* with the first review, each later one its own; a request that dies in between has
\* reviewed the first n alerts only.
ReviewedAlertsFirstOnly(i, t, n) == {KeyOf(a) : a \in {b \in AlertsOf(i, t) : b.pos = 1}}
ReviewedAlerts(i, t, n) == {KeyOf(a) : a \in {b \in AlertsOf(i, t) : b.pos <= n}}

ValidateUpTo(i, status, n) ==
    LET t    == cases[i].tenant
        keys == ReviewedAlerts(i, t, n)
        other == {j \in RowsOf(cases) \ {i} : \E a \in alerts : a.case = j /\ KeyOf(a) \in keys}
    IN /\ cases' = [cases EXCEPT ![i] = Case(t, cases[i].group, status)]
       /\ Reviewed(keys, VerdictFor(status))
       /\ aux_mixed' = IF n = Cardinality(AlertsOf(i, t)) THEN (aux_mixed \cup other) \ {i}
                        ELSE aux_mixed \cup other \cup {i}
       /\ UNCHANGED <<shown, claims, alerts, runs, aux_fresh>>

Validate(i, status) ==
    /\ cases[i] # None
    /\ ValidateUpTo(i, status, Cardinality(AlertsOf(i, cases[i].tenant)))
ValidateCrash(i, status) ==
    /\ cases[i] # None
    /\ \E n \in 1..(Cardinality(AlertsOf(i, cases[i].tenant)) - 1) : ValidateUpTo(i, status, n)

\* get_review_summary: the decided reviews it counts, and the claims it counts them against.
ConfirmedReviews(t) == {k \in DOMAIN reviews : k[2] = t /\ reviews[k] = "CONFIRMED"}
DecidedReviews(t) == {k \in DOMAIN reviews : k[2] = t /\ reviews[k] \in {"CONFIRMED", "DISMISSED"}}
ReviewsCounted(t) == {k \in DecidedReviews(t) : <<k[1], k[3]>> \in ClaimsOf(t)}

Next ==
    \/ \E picture \in Pictures : Ingest(picture)
    \/ \E scope \in Scopes : \/ DetectBreaks(scope) \/ ComputeSnapshots(scope)
                             \/ ScoreSnapshots(scope) \/ ComputeCases(scope)
    \/ \E key \in OnScreen, verdict \in Verdicts : SetReview(key, verdict)
    \/ \E i \in Ids, status \in Stati : Validate(i, status) \/ ValidateCrash(i, status)

Spec == Init /\ [][Next]_vars
-----------------------------------------------------------------------------
(* Properties *)

Alert == [case : Ids, tenant : Tenants, type : Types, source : Ids, pos : Nat \ {0}]

\* The shape of the state.
TypeOK ==
    /\ shown \in Pictures
    /\ claims \in [Types -> [Ids -> ClaimRow \cup {None}]]
    /\ cases \in [Ids -> CaseRow \cup {None}]
    /\ alerts \subseteq Alert
    /\ reviews \in [Types \X Tenants \X Ids -> Verdicts \cup {None}]
    /\ aux_about \in [Types \X Tenants \X Ids -> Subjects \cup {None}]
    /\ runs \in 0..MaxRuns /\ verdicts \in 0..MaxVerdicts
    /\ aux_fresh \subseteq Tenants /\ aux_mixed \subseteq RowsOf(cases)

\* Rebuilds for one tenant, for all of them, and for whatever the events show at the time
\* never leave two rows for one transaction or one span of a party, nor rows of a party from
\* two moments: a merchant that has become busy enough for weekly rows has its old to-date
\* row no more, and a party never has two to-date rows.
OneRowPerSubject ==
    \A type \in Types : \A i, j \in RowsOf(claims[type]) :
        i # j => Coexist(claims[type][i].subject, claims[type][j].subject)

\* Although case ids are reused by every rebuild, an alert always belongs to a case of its
\* own tenant, and the alerts of a case are numbered without gap or repetition.
AlertsHaveTheirCase ==
    /\ \A a \in alerts : cases[a.case] # None /\ cases[a.case].tenant = a.tenant
    /\ \A i \in RowsOf(cases) :
           LET own == AlertsOf(i, cases[i].tenant) IN
           own # {} /\ {a.pos : a \in own} = 1..Cardinality(own)

\* As long as no detector has run after compute_cases, a tenant's cases split exactly its
\* claims: each in one alert, in a case of its own category and rail.
FreshCasesSplitClaims ==
    \A t \in aux_fresh :
        LET own == {a \in alerts : a.tenant = t} IN
        /\ {<<a.type, a.source>> : a \in own} = ClaimsOf(t)
        /\ Cardinality(own) = Cardinality(ClaimsOf(t))
        /\ \A a \in own : cases[a.case].group = GroupOf[SubjectOf(<<a.type, a.source>>)]

\* "Detected within a rolling window of the previous member": within a fresh case every
\* claim but the first is at most Window after another one of it, and two cases of one
\* group are more than Window apart.
ChainsOfWindow ==
    \A a, b \in {x \in alerts : x.tenant \in aux_fresh} :
        LET TimeOf(x) == Time(<<x.type, x.source>>)
            Close == TimeOf(a) <= TimeOf(b) /\ TimeOf(b) - TimeOf(a) <= Window
        IN /\ (a.case = b.case /\ b.pos = a.pos + 1) => Close
           /\ (a.case # b.case /\ a.tenant = b.tenant /\ cases[a.case].group = cases[b.case].group)
                  => ~Close

\* A validation that was not cut short "propagates a real AnalystReview to every one of its
\* contributing alerts", and they agree until one of them is reviewed on its own.
ValidationReachesAlerts ==
    \A i \in RowsOf(cases) \ aux_mixed : cases[i].status # "PENDING" =>
        \A a \in AlertsOf(i, cases[i].tenant) : reviews[KeyOf(a)] = VerdictFor(cases[i].status)

\* When all cases of a tenant are validated, none of them cut short or reviewed in part
\* since, and its claims have not changed, the senior view shows nothing pending: every claim
\* has a decided review, of its own type and id, that the summary counts.
AllValidatedNonePending ==
    \A t \in aux_fresh :
        (\A i \in RowsOf(cases) : cases[i].tenant = t =>
             cases[i].status \in {"VALID", "INVALID"} /\ i \notin aux_mixed)
        => \A k \in ClaimsOf(t) : <<k[1], t, k[2]>> \in ReviewsCounted(t)

\* AnalystReview: "the review status of one detected claim".  While that id is a claim, the
\* review is about this claim.
ReviewIsOfItsClaim ==
    \A k \in DOMAIN reviews :
        (reviews[k] # None /\ IsClaim(k[1], k[3]) /\ ClaimTenant(k[1], k[3]) = k[2])
            => aux_about[k] = About(k)
=============================================================================
