-------------------------------- MODULE Tracks --------------------------------
(***************************************************************************)
(* The tracks that score the snapshots (app/anomaly/isolation_forest.py,   *)
(* clustering.py, timeseries.py): each endpoint writes its own column on   *)
(* the rows in its scope, in any order between the rebuilds of Snapshots;  *)
(* compute_final_score puts the columns together.                          *)
(*                                                                         *)
(* The forest and the clustering are library code: any ranking, any        *)
(* labels.  Scores are whole numbers from 0 to 100, rounded down.          *)
(***************************************************************************)
EXTENDS Snapshots

CONSTANTS
    MinOwnModel,  \* _ENTITY_SPECIFIC_MIN_OBS: parties beyond segment baselines
    Labels        \* cluster labels, -1 among them

Bands == {"Normal", "Low-Medium", "High", "Critical"}
ASSUME TrackAssumption ==
    MinOwnModel \in Nat /\ -1 \in Labels /\ None \notin Bands /\ None \notin BOOLEAN

SnapshotsIn(scope) == {r \in snapshots : Covers(scope, r.tenant)}
Scored(rows, S) == (rows \ {s.was : s \in S}) \cup {s.now : s \in S}

-----------------------------------------------------------------------------
(* train_and_score *)

\* _rescale_to_percentile: the place in a segment of n rows, 0 the most anomalous.
PercentileFromOne(place, n) == IF n = 1 THEN 0 ELSE (100 * (n - place)) \div (n - 1)
Percentile(place, n) == IF n = 1 THEN 0 ELSE (100 * (n - 1 - place)) \div (n - 1)
Rankings(rows) == Bijection(rows, 0..(Cardinality(rows) - 1))

\* A party with this many events would need a model of its own: the run raises.
Observations(p, rows) == FoldSet(LAMBDA r, n : n + Cardinality(r.about), 0,
                                 {r \in rows : r.party = p})

WithIso(r, score) == [r EXCEPT !.iso = score]
TrainAndScore(scope) ==
    LET rows == SnapshotsIn(scope)
        segment(type) == {r \in rows : r.segment = type}
        n(r) == Cardinality(segment(r.segment))
    IN /\ \A p \in Parties : Observations(p, rows) < MinOwnModel
       /\ \E merchants \in Rankings(segment("MERCHANT")),
             individuals \in Rankings(segment("INDIVIDUAL")) :
             LET Place(r) == IF r.segment = "MERCHANT" THEN merchants[r] ELSE individuals[r] IN
             snapshots' = Scored(snapshots,
                 {[was |-> r, now |-> WithIso(r, Percentile(Place(r), n(r)))] : r \in rows})
       /\ aux_run' = NoRun
       /\ UNCHANGED <<link, account, features, beneficiaries, left>>

-----------------------------------------------------------------------------
(* cluster_and_score *)

\* _compute_cluster_changed: against the week before of the same merchant that has a row.
WeekBefore(r, rows) ==
    LET earlier == {q \in rows : q.party = r.party /\ q.week # None /\ q.week < r.week}
    IN CHOOSE q \in earlier : \A x \in earlier : x.week <= q.week
HasWeekBefore(r, rows) ==
    r.week # None /\ \E q \in rows : q.party = r.party /\ q.week # None /\ q.week < r.week

WithChanged(r, rows, label) ==
    [r EXCEPT !.changed = IF HasWeekBefore(r, rows) THEN label[r] # label[WeekBefore(r, rows)]
                          ELSE None]

\* The rows of one tenant and segment are clustered together; a single one is noise.
ClusterAndScore(scope) ==
    LET rows == SnapshotsIn(scope)
        Alone(r) == \A q \in rows : q.tenant = r.tenant /\ q.segment = r.segment => q = r
    IN /\ \E label \in [rows -> Labels] :
             /\ \A r \in rows : Alone(r) => label[r] = -1
             /\ snapshots' = Scored(snapshots,
                    {[was |-> r, now |-> WithChanged(r, rows, label)] : r \in rows})
       /\ aux_run' = NoRun
       /\ UNCHANGED <<link, account, features, beneficiaries, left>>

-----------------------------------------------------------------------------
(* score_drift, score_funnel_drift *)

\* _score_sequence for one row: the z-scores of those features that are known and have two
\* known values before them, averaged, capped and put on a scale of 0 to 100.
Drift(now, before) ==
    LET Prior(i) == Known([k \in DOMAIN before |-> before[k][i]], None)
        judged == {i \in DOMAIN now : now[i] # None /\ Judged(Prior(i))}
        z == [i \in judged |-> TenfoldZ(now[i], Prior(i))]
        capped == IF Average(z) > ZCap THEN ZCap ELSE Average(z)
    IN IF judged = {} THEN None ELSE 2 * capped

DriftFeatures(r) == <<Total(r.about), Cardinality(r.about), NewRatio(r.about)>>
ScoreDrift(scope) ==
    LET rows == {r \in SnapshotsIn(scope) : r.segment = "MERCHANT" /\ r.week # None}
        DriftOf(r) ==
            LET before == {q \in rows : q.party = r.party /\ q.week < r.week}
            IN Drift(DriftFeatures(r), [q \in before |-> DriftFeatures(q)])
    IN /\ snapshots' = Scored(snapshots,
              {[was |-> r, now |-> [r EXCEPT !.drift = DriftOf(r)]] : r \in rows})
       /\ aux_run' = NoRun
       /\ UNCHANGED <<link, account, features, beneficiaries, left>>

FunnelFeatures(r) ==
    <<Cardinality(r.senders),
      IF r.senders = {} THEN None ELSE (100 * Cardinality(r.newSenders)) \div Cardinality(r.senders)>>

\* The rows are grouped by beneficiary_key alone and sorted by week.  Those of one
\* beneficiary lie together in the table, so that for each key the tenants come in some order.
KeysOf(rows) == {r.key : r \in rows}
Orders(rows) == [KeysOf(rows) -> Bijection(Tenants, 1..Cardinality(Tenants))]
FunnelPrior(r, rows, order) ==
    LET Before(p, q) == \/ p.week < q.week
                        \/ p.week = q.week /\ order[p.key][p.tenant] < order[p.key][q.tenant]
    IN {q \in rows : q.key = r.key /\ Before(q, r)}
ScoreFunnelDrift(scope) ==
    LET rows == {r \in beneficiaries : Covers(scope, r.tenant)}
        DriftOf(r, order) ==
            LET before == FunnelPrior(r, rows, order)
            IN Drift(FunnelFeatures(r), [q \in before |-> FunnelFeatures(q)])
    IN /\ \E order \in Orders(rows) :
             beneficiaries' = Scored(beneficiaries,
                 {[was |-> r, now |-> [r EXCEPT !.drift = DriftOf(r, order)]] : r \in rows})
       /\ aux_run' = NoRun
       /\ UNCHANGED <<link, account, features, snapshots, left>>

-----------------------------------------------------------------------------
(* compute_final_score *)

\* _clustering_signal and _timeseries_signal: what is not known counts as nothing.
ChangeSignal(changed) == IF changed = TRUE THEN 100 ELSE 0
DriftSignalUnknown(drift) == IF drift = None THEN 100 ELSE drift
DriftSignal(drift) == IF drift = None THEN 0 ELSE drift
\* 100 times the final score, and its band.
Final(r) == 40 * r.iso + 25 * ChangeSignal(r.changed) + 35 * DriftSignal(r.drift)
Band(final) == IF final < 3000 THEN "Normal" ELSE IF final < 6000 THEN "Low-Medium"
               ELSE IF final < 8000 THEN "High" ELSE "Critical"

\* One row without an isolation forest score, and the run raises.
BandableAnyway(rows) == TRUE
Bandable(rows) == \A r \in rows : r.iso # None
WithBand(r) == IF r.iso = None THEN r ELSE [r EXCEPT !.band = Band(Final(r))]
ComputeFinalScore(scope) ==
    /\ Bandable(SnapshotsIn(scope))
    /\ snapshots' = Scored(snapshots, {[was |-> r, now |-> WithBand(r)] : r \in SnapshotsIn(scope)})
    /\ aux_run' = NoRun
    /\ UNCHANGED <<link, account, features, beneficiaries, left>>

Next ==
    \/ Rebuild
    \/ \E scope \in Scopes : \/ TrainAndScore(scope) \/ ClusterAndScore(scope)
                             \/ ScoreDrift(scope) \/ ScoreFunnelDrift(scope)
                             \/ ComputeFinalScore(scope)

Spec == Init /\ [][Next]_vars
-----------------------------------------------------------------------------
(* Properties *)

Score == 0..100
\* The shape of the state.
TypeOK ==
    /\ Arrived \subseteq Events /\ DOMAIN account = Arrived
    /\ \A e \in Arrived : /\ link[e] \in Parties \cup {None}
                          /\ account[e] \in Accounts \cup {None}
    /\ \A r \in features : r.party \in Parties /\ r.about \subseteq Arrived
    /\ \A r \in snapshots :
           /\ r.party \in Parties /\ r.about \subseteq Arrived
           /\ r.iso \in Score \cup {None} /\ r.drift \in Score \cup {None}
           /\ r.changed \in BOOLEAN \cup {None}
           /\ r.band \in Bands \cup {None}
    /\ \A r \in beneficiaries : r.tenant \in Tenants /\ r.drift \in Score \cup {None}
    /\ left \in Nat

\* "Provisional": what is not known contributes nothing, with the consequence that a
\* single snapshot to date and a merchant's first week are never material, and a second
\* week is never Critical, in whatever order the tracks are run, repeated and interleaved
\* with rebuilds.
MaterialNeedsHistory ==
    \A r \in snapshots :
        LET before == {q \in snapshots : /\ q.party = r.party /\ q.week # None /\ r.week # None
                                         /\ q.week < r.week}
        IN /\ before = {} => r.band \notin {"High", "Critical"}
           /\ Cardinality(before) < 2 => r.drift = None /\ r.band # "Critical"

\* compute_final_score "raises if any targeted row is missing" its score: when some row of a
\* tenant, the one of a party for a week, gets a band, none of its rows is left without one.
RowsOf(t)    == {r \in snapshots : r.tenant = t}
Banded(t)    == {r \in RowsOf(t) : r.band # None}
BandedFor(t) == {<<r.party, r.week>> : r \in Banded(t)}
BandedTogether(t) == BandedFor(t)' \subseteq BandedFor(t) \/ Banded(t)' = RowsOf(t)'
FinalIsAllOrNothing == [][\A t \in Tenants : BandedTogether(t)]_vars

\* _score_sequence gives None "where there isn't yet enough prior history to judge (first
\* two weeks of any sequence)", and score_funnel_drift judges a beneficiary by "that SAME
\* beneficiary's own prior-weeks baseline".
FunnelNeedsOwnHistory ==
    \A r \in beneficiaries : r.drift # None =>
        Cardinality({q \in beneficiaries : q.tenant = r.tenant /\ q.key = r.key /\ q.week < r.week}) >= 2
=============================================================================
