------------------------------ MODULE CaseViews ------------------------------
(***************************************************************************)
(* Cases over all three kinds of claims (app/investigation/cases.py) and   *)
(* the views of them: SLA countdown, weekly trend and identified patterns. *)
(* The ids and their reuse, deletes by tenant and validations cut short    *)
(* are in Investigation; here a case is known by its alerts.               *)
(***************************************************************************)
EXTENDS Dashboard

VARIABLES
    cases,       \* investigation_cases, each with its alerts
    aux_current  \* no claim or event has changed since compute_cases

vars == <<tables, changes, health, history, cases, aux_current>>

-----------------------------------------------------------------------------
(* compute_cases *)

RailForIssue(i) == IF First(EventsOf(i)) = None THEN None ELSE First(EventsOf(i)).rail

Signal(domain, row, category, rail, at, txn, exposure, score, level) ==
    [domain |-> domain, id |-> row.id, category |-> category, rail |-> rail, at |-> at,
     txn |-> txn, exposure |-> exposure, score |-> Rounded(score), level |-> level]

OperationalSignals ==
    {Signal("operational_issue", i, i.type, RailForIssue(i), Now,
            IF i.type \in TransactionIssues THEN i.ref ELSE None, None, IssueScore(i), IssueLevel(i)) :
        i \in issues}
ReconciliationSignals ==
    {Signal("reconciliation_break", b, b.type, b.rail, Now, b.txn, Variance(b),
            BreakScore(b), BreakLevel(b)) : b \in breaks}

BandScore == [band \in Material |-> (IF band = "Critical" THEN 90 ELSE 70) * Point]
OnlyRail(s) == IF Cardinality(s.rails) = 1 THEN CHOOSE r \in s.rails : TRUE ELSE None
FraudSignals ==
    {Signal("fraud_anomaly", s, s.band, OnlyRail(s), s.end, None, SnapshotTotal(s),
            BandScore[s.band], s.band) : s \in {x \in MaterialSnapshots : x.end # None}}

\* Neighbours in time of one cluster are at most _CLUSTER_WINDOW apart.
ClusterDays == 2
SameChain(S, p, q) ==
    \A x \in S : x.at >= Min({p.at, q.at}) /\ x.at < Max({p.at, q.at})
        => \E y \in S : y.at > x.at /\ y.at - x.at <= ClusterDays
Clusters(S) == {{q \in S : SameChain(S, p, q)} : p \in S}
KindOf(x) == <<x.category, x.rail>>

\* max() over the cluster in its order, by time and then by id: the first of the highest score.
Ahead(p, q) == p.at < q.at \/ (p.at = q.at /\ p.id <= q.id)
Worst(S) == CHOOSE s \in S : \A q \in S : q.score < s.score \/ (q.score = s.score /\ Ahead(s, q))
Exposed(s) == OrZero(s.exposure)
CreateCase(cluster) ==
    [category |-> Worst(cluster).category, rail |-> Worst(cluster).rail,
     level |-> Worst(cluster).level, score |-> Worst(cluster).score,
     exposure |-> MapThenSumSet(Exposed, cluster),
     opened |-> Min({s.at : s \in cluster}),
     status |-> "PENDING", alerts |-> cluster]

ComputeCases ==
    LET signals == OperationalSignals \cup ReconciliationSignals \cup FraudSignals
        Group(kind) == {s \in signals : KindOf(s) = kind}
    IN /\ cases' = {CreateCase(cluster) :
                       cluster \in UNION {Clusters(Group(kind)) : kind \in {KindOf(s) : s \in signals}}}
       /\ aux_current' = TRUE
       /\ UNCHANGED <<tables, changes, health, history>>

\* validate_investigation_case, not cut short: the status, and a review of every alert.
ReviewFor == [VALID |-> "CONFIRMED", INVALID |-> "DISMISSED", PENDING |-> "PENDING"]
Validate(case, status) ==
    LET keys == {<<a.domain, a.id>> : a \in case.alerts} IN
    /\ Change
    /\ cases' = (cases \ {case}) \cup {[case EXCEPT !.status = status]}
    /\ reviews' = [k \in DOMAIN reviews \cup keys |-> IF k \in keys THEN ReviewFor[status] ELSE reviews[k]]
    /\ UNCHANGED <<events, issues, breaks, snapshots, beneficiaries, health, history, aux_current>>

-----------------------------------------------------------------------------
(* sla.py *)

SlaDays == [Critical |-> 2, High |-> 5, Medium |-> 10, Low |-> 20]

AnchorsOf(case) ==
    {a.at : a \in {x \in case.alerts : x.domain = "fraud_anomaly"}}
    \cup ({ParseOccurred(ByRailTxn(a.rail, a.txn)) : a \in {x \in case.alerts : x.txn # None}} \ {None})
ResolveRealCaseAnchor(case) ==
    IF AnchorsOf(case) = {} THEN case.opened ELSE Min(AnchorsOf(case))

Pending == {c \in cases : c.status = "PENDING"}
ReferenceNow == Max({ResolveRealCaseAnchor(c) : c \in Pending})
RemainingDays(case) == SlaDays[case.level] - (ReferenceNow - ResolveRealCaseAnchor(case))
ApproachingSla == {c \in Pending : 10 * RemainingDays(c) <= 3 * SlaDays[c.level]}
Overdue        == {c \in ApproachingSla : RemainingDays(c) <= 0}

-----------------------------------------------------------------------------
(* trend.py: dates of the claims of a category, on one rail if one is given *)

IssueAnchorsAnyRail(type, rail) ==
    {[id |-> i.id, at |-> ParseOccurred(First(EventsOf(i)))] :
        i \in {x \in issues : x.type = type /\ First(EventsOf(x)) # None}}
IssueAnchors(type, rail) ==
    IF type \in PartyIssues
    THEN {[id |-> i.id, at |-> i.end] : i \in {x \in issues : x.type = type}}
    ELSE {[id |-> i.id, at |-> ParseOccurred(First(EventsOf(i)))] :
             i \in {x \in issues : /\ x.type = type /\ First(EventsOf(x)) # None
                                   /\ rail \in {None, First(EventsOf(x)).rail}}}
BreakAnchors(type, rail) ==
    {[id |-> b.id, at |-> ReconciliationBreakDate(b)] :
        b \in {x \in breaks : x.type = type /\ rail \in {None, x.rail}}}
FraudAnchors(band, rail) ==
    {[id |-> s.id, at |-> s.end] :
        s \in {x \in snapshots : x.band = band /\ (rail = None \/ x.rails = {rail})}}

Anchors(category, rail) ==
    {a \in CASE category \in Material   -> FraudAnchors(category, rail)
             [] category \in BreakTypes -> BreakAnchors(category, rail)
             [] OTHER                   -> IssueAnchors(category, rail) : a.at # None}

\* The weeks with claims; the last against the mean of the others, 20 % either way.
WeekOfAnchor(a) == WeekOf(a.at)
CategoryWeeklyTrend(category, rail) ==
    LET counts == CountBy(WeekOfAnchor, Anchors(category, rail))
        weeks  == DOMAIN counts
        last   == Max(weeks)
        prior  == Cardinality(weeks) - 1
        sum    == CountOf(counts) - counts[last]
    IN IF Cardinality(weeks) < 2 THEN None
       ELSE [counts |-> counts, latest |-> counts[last],
             tenths |-> (20 * sum + prior) \div (2 * prior),   \* the mean, to one digit
             direction |-> IF 10 * prior * counts[last] > 12 * sum THEN "increasing"
                           ELSE IF 10 * prior * counts[last] < 8 * sum THEN "decreasing"
                           ELSE "stable"]

\* patterns.py: the cases of a category and rail that have a trend.
Urgency == [Critical |-> 3, High |-> 2, Medium |-> 1, Low |-> 0]
MostUrgent(S) == CHOOSE c \in S : \A d \in S : Urgency[d.level] <= Urgency[c.level]

Kinds == {KindOf(c) : c \in cases}
Pattern(kind) ==
    LET trend == CategoryWeeklyTrend(kind[1], kind[2])
        group == {c \in cases : KindOf(c) = kind}
    IN [direction |-> trend.direction,
        vs_baseline |-> (1000 * trend.latest) \div trend.tenths - 100,
        exposure |-> MapThenSumSet(Exposed, group),
        severity |-> MostUrgent(group).level,
        case_count |-> Cardinality(group)]
IdentifiedPatterns ==
    {kind \in Kinds : CategoryWeeklyTrend(kind[1], kind[2]) # None}

-----------------------------------------------------------------------------
Init ==
    /\ TablesInit
    /\ health = None
    /\ history = <<>>
    /\ cases = {}
    /\ aux_current = FALSE

Claimed == aux_current' = FALSE /\ UNCHANGED <<health, history, cases>>
Next ==
    \/ \E row \in Merges : Merge(row) /\ Claimed
    \/ Detect /\ Claimed
    \/ \E d \in Domains, status \in {"PENDING", "CONFIRMED", "DISMISSED"} :
          \E id \in ClaimIds(Everything)[d] :
             SetReview(d, id, status) /\ UNCHANGED <<health, history, cases, aux_current>>
    \/ ComputeCases
    \/ \E case \in cases, status \in DOMAIN ReviewFor : Validate(case, status)
    \/ Len(history) < MaxHistory /\ ComputeHealth /\ UNCHANGED <<cases, aux_current>>

Spec == Init /\ [][Next]_vars
-----------------------------------------------------------------------------
(* Properties *)

Sum(counts, S) == FoldFunctionOnSet(LAMBDA n, sum : n + sum, 0, counts, S \cap DOMAIN counts)

\* A range that is cut in two between its ends.
Split(u, v, w) == /\ u.from = w.from /\ v.to = w.to /\ ~Unbounded(w)
                  /\ u.to # None /\ v.from # None /\ v.from = u.to + 1
                  /\ w.from = None \/ w.from <= v.from
                  /\ w.to = None \/ u.to <= w.to

\* claim_dates.py: without a shared answer "a date-scoped review summary would disagree with
\* a date-scoped overview about which claims fall in a window".  Overview, rail table,
\* volume, priorities, exposure and review summary count the same claims of every range,
\* and a claim of a range that is cut in two is in one of the halves.
WindowsAgree ==
    /\ \A w \in Windows :
          LET o == GetOverview(w)
              r == GetReviewSummary(w)
              v == DetectionVolume(w)
              rails == GetRailStats(w)
          IN /\ {CountOf(o.issues), v.operational} = {r["operational_issue"].total}
             /\ {CountOf(o.breaks), v.reconciliation,
                 CountOf([rail \in DOMAIN rails |-> rails[rail].breaks]),
                 Cardinality({c \in AllClaims(w) : c.domain = "reconciliation_break"})}
                = {r["reconciliation_break"].total}
             /\ Sum(o.bands, Material) = r["fraud_anomaly"].total
             /\ CountOf(o.bands) = v.fraud
             /\ CountOf(GetPriorityDistribution(w))
                = CountOf(o.issues) + CountOf(o.breaks) + Sum(o.bands, DOMAIN BandLevel)
    /\ \A u, v, w \in Windows : Split(u, v, w) =>
          LET whole == ClaimIds(w)
              first == ClaimIds(u)
              second == ClaimIds(v)
          IN \A d \in Domains : whole[d] = first[d] \cup second[d] /\ first[d] \cap second[d] = {}
    /\ LET mix == GetPatternMix IN
       mix.known + mix.newly = Cardinality(MaterialSnapshots) + Cardinality(FunnelAccounts)

\* exposure.py: "always reading the same underlying real amounts, never four
\* separately-computed (and possibly inconsistent) numbers".  The splits by domain, by review
\* and by week have one total, no rail is charged with a party's amounts, and no rail has
\* more impacted than it moved or than its claims amount to.
MoneySplitsAlike ==
    \A w \in Windows :
        LET domains == GetExposureByDomain(w)
            m       == GetMitigationProgress(w)
            parts   == GetMitigationProgressByDomain(w)
            rails   == GetExposureByRail(w)
            values  == GetPaymentValueByRail(w)
            undated == {c \in AllClaims(w) : c.at = None}
        IN /\ m.residual + m.mitigated = CountOf(domains)
           /\ \A d \in ExposureDomains : parts.residual[d] + parts.mitigated[d] = domains[d]
           /\ CountOf(GetExposureTrend(w)) + SumAmounts(undated) = CountOf(domains)
           /\ w # Everything => undated = {}
           /\ CountOf(rails) <= CountOf(domains) - domains["fraud_anomaly"]
           /\ CountOf(GetAnomalyHeatmap(w)) <= Cardinality(BreaksIn(w)) + Cardinality(IssuesIn(w))
           /\ \A r \in DOMAIN values :
                 /\ values[r].protected >= 0
                 /\ values[r].impacted <= Sum(rails, {r})

\* get_payment_normalcy: "so the rate stays a real ratio, not a filtered numerator over an
\* unfiltered denominator"; the same is said of success rates and of the review rate.  What
\* is touched, flagged, covered or reviewed is part of what is counted, whatever was merged
\* since it was detected; an incident's share is part of the whole; a flagged payment is
\* not normal; a health score is a percentage of percentages and the end of its history.
RatesAreRates ==
    /\ \A w \in Windows :
          LET normalcy == GetPaymentNormalcy(w)
              rails    == {e.rail : e \in ToSet(events)}
              flagged  == [r \in rails |-> Cardinality(Flagged(r, w))]
              review   == GetReviewSummary(w)
          IN /\ normalcy.touched <= normalcy.total
             /\ Cardinality(Covered(w)) <= GetOverview(w).total
             /\ \A r \in rails : SuccessRate(r, w) \in {None} \cup 0..100
             /\ CountOf(flagged) <= normalcy.touched
             /\ \A d \in Domains : review[d].reviewed + review[d].pending = review[d].total
    /\ \A s \in snapshots :
          GetEnterpriseImpact("fraud_anomaly", s).fraud
              <= SumTotals(MaterialSnapshots \cup {s})
    /\ \A b \in breaks :
          LET impact == GetEnterpriseImpact("reconciliation_break", b) IN
          /\ impact.reconciliation <= SumVariances(breaks)
          /\ EventOf(b) # None /\ EventOf(b).party # None => impact.reconciliation >= Variance(b)
    /\ health # None =>
          /\ \A c \in DOMAIN health.components : health.components[c] \in 0..100
          /\ Last(history).score = health.score /\ health.score \in 0..100

DateOf(a) ==
    CASE a.domain = "operational_issue" ->
            OperationalIssueDate(CHOOSE i \in issues : i.id = a.id)
      [] a.domain = "reconciliation_break" ->
            ReconciliationBreakDate(CHOOSE b \in breaks : b.id = a.id)
      [] a.domain = "fraud_anomaly" -> a.at
AlertsOf(kind) == UNION {c.alerts : c \in {x \in cases : KindOf(x) = kind}}

\* Cases that were just computed and the views agree: every claim is in one case; a case is
\* as urgent as each of its claims with another score; the trend of a category on a rail
\* counts the dated claims of its cases ("every rail's chart ... showed the identical
\* all-rails count" was a bug of trend.py), and its direction is the sign of the change.
\* ("A case is at least as urgent as its single most severe contributing alert", says
\* cases.py.  The code keeps this up to rounding: the alert is chosen by scores in tenths,
\* the levels come from the exact ones, so 59.96, Medium, may stand for 60, High.)
CasesAgreeWithViews ==
    aux_current =>
        /\ \A c, d \in cases : c # d => c.alerts \cap d.alerts = {}
        /\ CountOf([k \in Kinds |-> Cardinality(AlertsOf(k))])
           = Cardinality(issues) + Cardinality(breaks)
             + Cardinality({s \in MaterialSnapshots : s.end # None})
        /\ \A c \in cases : \A a \in c.alerts :
              Urgency[a.level] <= Urgency[c.level] \/ a.score = c.score
        /\ \A kind \in Kinds : kind[2] # None =>
              Cardinality(Anchors(kind[1], kind[2]))
              = Cardinality({a \in AlertsOf(kind) : DateOf(a) # None})
        /\ \A kind \in IdentifiedPatterns :
              LET p == Pattern(kind) IN
              /\ p.direction = "increasing" => p.vs_baseline > 0
              /\ p.direction = "decreasing" => p.vs_baseline < 0

\* sla.py: "aged from each case's own real event time (... never opened_at directly for
\* non-fraud cases)".  Where every claim has a date and no case is about a spike, the
\* documented exception, a case is overdue only if some pending case's events are later
\* than its own by the whole of its time.  (Refuted: a case of batches falls back to
\* opened_at, and its age is then the present of all the others.)
AllDated == \A c \in Pending : c.category \notin PartyIssues /\ \A a \in c.alerts : DateOf(a) # None
AgedByRealTime ==
    aux_current /\ AllDated =>
        \A c \in Overdue : \E d \in Pending : \E a \in d.alerts :
            DateOf(a) - ResolveRealCaseAnchor(c) >= SlaDays[c.level]
==============================================================================
