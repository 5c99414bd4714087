------------------------------ MODULE Dashboard ------------------------------
(***************************************************************************)
(* The counts and rates of the other views: app/dashboard.py, the review   *)
(* summary, priority levels, pattern mix, incident impact and the health   *)
(* score.  Each reads the tables of Claims on its own and joins, filters   *)
(* and counts in its own way.  Rates and scores are percentages, rounded   *)
(* down.                                                                   *)
(***************************************************************************)
EXTENDS Exposure

CONSTANTS
    Features,   \* the columns of _CATEGORY_FEATURES that are told apart
    MaxHistory  \* bound of the model: health scores computed in all

VARIABLES
    health,    \* payment_health_scores: the row, or None
    history    \* payment_health_score_history

CountBy(Field(_), S) == [v \in {Field(x) : x \in S} |-> Cardinality({x \in S : Field(x) = v})]
CountOf(counts) == FoldFunction(LAMBDA n, sum : n + sum, 0, counts)
Percent(part, whole) == IF whole = 0 THEN None ELSE (100 * part) \div whole

-----------------------------------------------------------------------------
(* get_overview, get_rail_stats, _detection_volume_by_category *)

IssuesIn(w)    == {i \in issues : DateInRange(OperationalIssueDate(i), w)}
BreaksIn(w)    == {b \in breaks : DateInRange(ReconciliationBreakDate(b), w)}
SnapshotsIn(w) == {s \in snapshots : EndInRange(s.end, w)}

TypeOf(row) == row.type
BandOf(s)   == s.band
RailOf(row) == row.rail
GetOverview(w) ==
    [total   |-> Cardinality(EventsIn(w)),
     settled |-> Cardinality({e \in EventsIn(w) : e.settled}),
     bands   |-> CountBy(BandOf, SnapshotsIn(w)),
     issues  |-> CountBy(TypeOf, IssuesIn(w)),
     breaks  |-> CountBy(TypeOf, BreaksIn(w))]

GetRailStats(w) ==
    LET counts == CountBy(RailOf, BreaksIn(w)) IN
    [r \in {e.rail : e \in EventsIn(w)} |->
        [events |-> Cardinality({e \in EventsIn(w) : e.rail = r}),
         breaks |-> IF r \in DOMAIN counts THEN counts[r] ELSE 0]]

DetectionVolume(w) ==
    [operational    |-> Cardinality(IssuesIn(w)),
     reconciliation |-> Cardinality(BreaksIn(w)),
     fraud          |-> Cardinality({s \in snapshots : DateInRange(s.end, w)})]

-----------------------------------------------------------------------------
(* get_review_summary, over the claims of the same range *)

ClaimIds(w) ==
    [d \in Domains |->
        CASE d = "operational_issue"    -> {i.id : i \in IssuesIn(w)}
          [] d = "reconciliation_break" -> {b.id : b \in BreaksIn(w)}
          [] d = "fraud_anomaly"  -> {s.id : s \in {x \in MaterialSnapshots : DateInRange(x.end, w)}}
          [] d = "funnel_account" -> {b.id : b \in {x \in FunnelAccounts : DateInRange(x.end, w)}}]

GetReviewSummary(w) ==
    LET ids == ClaimIds(w)
        Reviewed(d) == {id \in ids[d] : Decided(d, id)}
    IN [d \in Domains |->
           [total    |-> Cardinality(ids[d]),
            reviewed |-> Cardinality(Reviewed(d)),
            pending  |-> Max({0, Cardinality(ids[d]) - Cardinality(Reviewed(d))})]]

-----------------------------------------------------------------------------
(* priority.py: levels relative to the other rows of the tenant *)

\* A score is a whole number of hundredths of a point.  The level is that of the score; what
\* is handed on is rounded to tenths, a half up.
Point == 100
Rounded(score) == 10 * ((score + 5) \div 10)
Level(score) == IF score >= 85 * Point THEN "Critical" ELSE IF score >= 60 * Point THEN "High"
                ELSE IF score >= 35 * Point THEN "Medium" ELSE "Low"

\* How many rows of S have at most the size of this one: Size may be None.
PercentileRank(row, S, Size(_)) ==
    LET sized == {x \in S : Size(x) # None}
    IN (100 * Point * Cardinality({x \in sized : Size(x) <= Size(row)})) \div Cardinality(sized)

MidBand == 50 * Point
IssueSize(i) ==
    IF i.type \in TransactionIssues
    THEN IF First(EventsOf(i)) = None THEN None ELSE First(EventsOf(i)).amount
    ELSE i.overdue
IssueScore(i) ==
    IF i.type \in PartyIssues /\ i.score # None THEN i.score
    ELSE IF IssueSize(i) = None THEN MidBand
    ELSE PercentileRank(i, {x \in issues : x.type = i.type}, IssueSize)

BreakSize(b) == IF b.variance \notin {None, 0} THEN b.variance ELSE b.amount
BreakScore(b) ==
    LET score == IF BreakSize(b) = None THEN MidBand ELSE PercentileRank(b, breaks, BreakSize)
    IN IF b.type = "CONFIRMED_BREAK" THEN Max({score, MidBand}) ELSE score

Levels == {"Critical", "High", "Medium", "Low"}
IssueLevel(i) == Level(IssueScore(i))
BreakLevel(b) == Level(BreakScore(b))
BandLevel == [band \in {"Critical", "High", "Low-Medium"} |->
                 IF band = "Low-Medium" THEN "Medium" ELSE band]
GetPriorityDistribution(w) ==
    [level \in Levels |->
        Cardinality({s \in SnapshotsIn(w) : s.band \in DOMAIN BandLevel /\ BandLevel[s.band] = level})
        + Cardinality({i \in IssuesIn(w) : IssueLevel(i) = level})
        + Cardinality({b \in BreaksIn(w) : BreakLevel(b) = level})]

-----------------------------------------------------------------------------
(* _detection_performance_by_rail *)

TransactionIssueRows == {i \in issues : i.type \in TransactionIssues}
FlaggedEvents(w) ==
    {e \in {First(EventsOf(i)) : i \in TransactionIssueRows} \ {None} : DateInRange(ParseOccurred(e), w)}
Flagged(rail, w) ==
    {e.txn : e \in {x \in FlaggedEvents(w) : x.rail = rail}} \cup
    {b.txn : b \in {x \in BreaksIn(w) : x.rail = rail}}
RailTotal(rail, w) == Cardinality({e \in EventsIn(w) : e.rail = rail})
SuccessRate(rail, w) ==
    LET total == RailTotal(rail, w) IN Percent(total - Cardinality(Flagged(rail, w)), total)

\* Coverage: events with a resolved party.
Covered(w) == {e \in EventsIn(w) : e.party # None}

-----------------------------------------------------------------------------
(* categories.py: tags relative to the segment, and the pattern mix *)

Segment(s) == {q \in snapshots : q.segment = s.segment}
ThirdQuartile(S, f) ==
    LET values == SetToSortSeq({q \in S : q.features[f] # None},
                               LAMBDA p, q : p.features[f] < q.features[f]
                                             \/ (p.features[f] = q.features[f] /\ p.id < q.id))
    IN IF values = <<>> THEN None
       ELSE values[1 + Min({Len(values) - 1, (3 * Len(values)) \div 4})].features[f]
Tags(s) ==
    {f \in Features :
        LET threshold == ThirdQuartile(Segment(s), f)
        IN /\ s.features[f] # None /\ threshold # None
           /\ threshold > 0 /\ s.features[f] >= threshold}
GetPatternMix ==
    LET known == {s \in MaterialSnapshots : Tags(s) # {}}
    IN [known |-> Cardinality(known) + Cardinality(FunnelAccounts),
        newly |-> Cardinality(MaterialSnapshots \ known)]

-----------------------------------------------------------------------------
(* incident_impact.py *)

\* What one incident is about: its amount and the senders behind it.
Payers(S) == {e.party : e \in S} \ {None}
Variance(b) == OrZero(IF b.variance # None THEN b.variance ELSE b.amount)
Incident(value, parties) == [value |-> value, parties |-> parties]
ResolveIncident(domain, row) ==
    CASE domain = "operational_issue" ->
            IF row.type \in PartyIssues THEN Incident(0, {row.ref})
            ELSE Incident(SumAmounts(EventsAt(EventsOf(row))), Payers(EventsAt(EventsOf(row))))
      [] domain = "reconciliation_break" -> Incident(Variance(row), Payers({EventOf(row)} \ {None}))
      [] domain = "fraud_anomaly"  -> Incident(OrZero(row.total), {row.party})
      [] domain = "funnel_account" -> Incident(OrZero(row.total), {})

SnapshotTotal(s) == OrZero(s.total)
SumTotals(S)     == MapThenSumSet(SnapshotTotal, S)
SumVariances(S)  == MapThenSumSet(Variance, S)
BreaksOf(parties) == {b \in breaks : EventOf(b) # None /\ EventOf(b).party \in parties}
SnapshotsOf(parties, domain, row) ==
    {s \in MaterialSnapshots : s.party \in parties /\ ~(domain = "fraud_anomaly" /\ s.id = row.id)}
GetEnterpriseImpact(domain, row) ==
    LET incident == ResolveIncident(domain, row)
        own == IF domain = "fraud_anomaly" THEN incident.value ELSE 0
    IN [reconciliation |-> SumVariances(BreaksOf(incident.parties)),
        fraud |-> own + SumTotals(SnapshotsOf(incident.parties, domain, row))]

-----------------------------------------------------------------------------
(* health/scoring.py *)

\* 100 less the penalty, not below 0; nothing to count is no penalty.
Component(bad, whole) ==
    IF whole = 0 THEN 100 ELSE Max({0, 100 - (100 * bad) \div whole})

HealthComponents ==
    LET all == ToSet(events)
        Banded(band) == Cardinality({s \in snapshots : s.band = band})
    IN [settlement     |-> Component(Cardinality({e \in all : ~e.settled}), Cardinality(all)),
        anomaly        |-> Component(2 * Banded("Critical") + Banded("High"), Cardinality(snapshots)),
        operational    |-> Component(Cardinality(issues), Cardinality(all)),
        reconciliation |-> Component(Cardinality(breaks), Cardinality({e \in all : e.recon}))]
HealthScore(c) ==
    (30 * c.settlement + 30 * c.anomaly + 20 * c.operational + 20 * c.reconciliation) \div 100
HealthBand(score) == IF score >= 85 THEN "Healthy" ELSE IF score >= 70 THEN "Watch"
                     ELSE IF score >= 50 THEN "At Risk" ELSE "Critical"

\* compute_health_scores: the one row is written over, the history grows.
ComputeHealth ==
    LET score == HealthScore(HealthComponents)
        row   == [score |-> score, band |-> HealthBand(score), components |-> HealthComponents]
    IN /\ health' = row
       /\ history' = Append(history, [score |-> score, band |-> row.band])
       /\ UNCHANGED <<tables, changes>>
==============================================================================
