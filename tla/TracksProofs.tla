----------------------------- MODULE TracksProofs -----------------------------
(***************************************************************************)
(* What Tracks keeps for all worlds, with TLAPS: the rows of a run         *)
(* describe the events, senders are new once, the held-out weeks are the   *)
(* last ones, the final score is all or nothing, no row gets a material    *)
(* band without earlier rows to judge it by, and the scores are scores.    *)
(*                                                                         *)
(* Three facts about the state carry the proofs: an event's party is of    *)
(* the event's tenant (Linked), what a beneficiary's rows say of new       *)
(* senders is about the rows that are there (Historical), and no column    *)
(* of a row says more than the rows before it allow (Founded).             *)
(***************************************************************************)
EXTENDS Tracks, FiniteFacts, FiniteSetTheorems, TLAPS

-----------------------------------------------------------------------------
(* Facts without state *)

\* What the tracks do to a table: a new row for each of some of its rows.
Marked(rows, f) == {[was |-> r, now |-> f[r]] : r \in rows}
\* A table after a track has the new row for each of those and the other rows as they were.
LEMMA ScoredIs ==
    ASSUME NEW T, NEW rows \in SUBSET T, NEW f
    PROVE  \A x : x \in Scored(T, Marked(rows, f))
                  <=> \E r \in T : x = IF r \in rows THEN f[r] ELSE r
<1> DEFINE S == Marked(rows, f)
<1>1. {s.was : s \in S} = rows /\ {s.now : s \in S} = {f[r] : r \in rows}
  <2>1. ASSUME NEW s \in S PROVE s.was \in rows /\ s.now = f[s.was]
    BY DEF Marked
  <2>2. ASSUME NEW r \in rows PROVE \E s \in S : s.was = r /\ s.now = f[r]
    <3>1. [was |-> r, now |-> f[r]] \in S
      BY DEF Marked
    <3> QED
      BY <3>1
  <2> HIDE DEF S
  <2> QED
    BY <2>1, <2>2
<1> HIDE DEF S
<1>2. Scored(T, S) = (T \ rows) \cup {f[r] : r \in rows}
  BY <1>1 DEF Scored
<1>3. \A x : x \in Scored(T, S) <=> \E r \in T : x = IF r \in rows THEN f[r] ELSE r
  BY <1>2
<1> QED
  BY <1>3 DEF S

-----------------------------------------------------------------------------
(* The cutoff *)

\* compute_snapshots: there is an element at every place of the sorted times.
LEMMA HeldOutIsTime ==
    ASSUME NEW S, IsFiniteSet(S), \A e \in S : TimeOf(e) \in Nat, S # {}
    PROVE  HeldOut(S) \in Nat
<1> DEFINE n == Cardinality(S)
           k == (4 * n) \div 5
           times == {TimeOf(e) : e \in S}
           Below(t) == {e \in S : TimeOf(e) < t}
           UpTo(t) == {e \in S : TimeOf(e) <= t}
           early == {t \in times : Cardinality(Below(t)) <= k}
<1>1. n \in Nat \ {0} /\ k \in Nat /\ k < n
  <2>1. n \in Nat /\ n # 0
    BY FS_CardinalityType, FS_EmptySet
  <2> QED
    BY <2>1
<1>2. times \in SUBSET Nat /\ times # {} /\ IsFiniteSet(times)
  <2>1. IsFiniteSet(times)
    <3> DEFINE f == [e \in S |-> TimeOf(e)]
    <3>1. f \in Surjection(S, times)
      BY DEF Surjection
    <3> QED
      BY <3>1, FS_Surjection
  <2>2. times \in SUBSET Nat /\ times # {}
    OBVIOUS
  <2> QED
    BY <2>1, <2>2
<1>3. PICK first \in times : \A t \in times : first <= t
  BY <1>2, LeastExists
<1>4. first \in early
  <2>1. Below(first) = {}
    BY <1>2, <1>3
  <2>2. Cardinality(Below(first)) = 0
    BY <2>1, FS_EmptySet
  <2> QED
    BY <1>1, <1>3, <2>2
<1>5. early \in SUBSET Nat /\ early # {} /\ IsFiniteSet(early)
  BY <1>2, <1>4, FS_Subset
<1>6. PICK last \in early : \A t \in early : t <= last
  BY <1>5, GreatestExists
<1>7. Cardinality(UpTo(last)) > k
  <2>1. CASE \A t \in times : t <= last
    <3>1. UpTo(last) = S
      BY <2>1
    <3> QED
      BY <1>1, <3>1
  <2>2. CASE ~ \A t \in times : t <= last
    <3> DEFINE later == {t \in times : t > last}
    <3>1. later \in SUBSET Nat /\ later # {}
      BY <1>2, <1>6, <2>2
    <3>2. PICK next \in later : \A t \in later : next <= t
      BY <3>1, LeastExists
    <3>3. UpTo(last) = Below(next)
      <4>1. last \in Nat /\ next \in Nat /\ next > last
        BY <1>5, <1>6, <3>1, <3>2
      <4>2. ASSUME NEW e \in S PROVE TimeOf(e) <= last <=> TimeOf(e) < next
        <5>1. TimeOf(e) \in Nat /\ TimeOf(e) \in times
          OBVIOUS
        <5>2. TimeOf(e) > last => next <= TimeOf(e)
          BY <3>2, <5>1
        <5> QED
          BY <4>1, <5>1, <5>2
      <4> QED
        BY <4>2
    <3>4. next \in times /\ next \notin early
      <4>1. last \in Nat /\ next \in Nat /\ next > last /\ next \in times
        BY <1>5, <1>6, <3>1, <3>2
      <4> QED
        BY <1>6, <4>1
    <3>5. Cardinality(Below(next)) \in Nat
      BY FS_Subset, FS_CardinalityType
    <3> QED
      BY <1>1, <3>3, <3>4, <3>5
  <2> QED
    BY <2>1, <2>2
<1>8. last \in times /\ AtPlace(k, S, last)
  BY <1>6, <1>7 DEF AtPlace
<1>9. HeldOut(S) \in times
  BY <1>8 DEF HeldOut
<1> QED
  BY <1>2, <1>9

-----------------------------------------------------------------------------
(* Links *)

\* An event that has arrived belongs to nobody or to a party of its own tenant.
Linked ==
    /\ Arrived \subseteq Events
    /\ link \in [Arrived -> Parties \cup {None}]
    /\ \A e \in Arrived : link[e] # None => PartyTenant[link[e]] = Facts[e].tenant

\* compute_features, compute_snapshots, compute_beneficiary_snapshots and the tracks leave
\* the links alone; resolve_parties links within a tenant.
LEMMA LinkedInv == Spec => []Linked
<1>1. Init => Linked
  BY WorldAssumption DEF Init, Linked, Arrived
<1>2. Linked /\ [Next]_vars => Linked'
  <2> SUFFICES ASSUME Linked, [Next]_vars PROVE Linked'
    OBVIOUS
  <2>1. CASE \E e \in Events : Arrive(e)
    <3>1. PICK e \in Events : Arrive(e)
      BY <2>1
    <3>2. /\ link' = [x \in Arrived \cup {e} |-> IF x = e THEN None ELSE link[x]]
          /\ e \notin Arrived
      BY <3>1 DEF Arrive
    <3> QED
      BY <3>2 DEF Linked, Arrived
  <2>2. CASE \E e \in Arrived, p \in Parties : Resolve(e, p)
    <3>1. PICK e \in Arrived, p \in Parties : Resolve(e, p)
      BY <2>2
    <3>2. link' = [link EXCEPT ![e] = p] /\ PartyTenant[p] = Facts[e].tenant
      BY <3>1 DEF Resolve
    <3> QED
      BY <3>2 DEF Linked, Arrived
  <2>3. CASE UNCHANGED link
    BY <2>3 DEF Linked, Arrived
  <2> QED
    BY <2>1, <2>2, <2>3 DEF Next, Rebuild, Capture, ComputeFeatures, ComputeSnapshots,
       ComputeBeneficiaries, TrainAndScore, ClusterAndScore, ScoreDrift, ScoreFunnelDrift,
       ComputeFinalScore, vars, tables
<1> QED
  BY <1>1, <1>2, PTL DEF Spec

-----------------------------------------------------------------------------
(* The rows describe the events *)

\* A party with an event that counts is found by every run that covers its tenant.
LEMMA Found ==
    ASSUME Linked, NEW scope \in Scopes, NEW p \in PartiesIn(scope), NEW e \in EventsOf(p)
    PROVE  p \in Parties /\ e \in InScope(scope) /\ link[e] = p
<1>1. p \in Parties /\ Covers(scope, PartyTenant[p]) /\ e \in Arrived /\ link[e] = p
  BY DEF PartiesIn, EventsOf
<1> QED
  BY <1>1, PartyAssumption DEF Linked, InScope

\* compute_features: a party has one row, about all its events.
LEMMA FeaturesRun ==
    ASSUME Linked, NEW scope \in Scopes, ComputeFeatures(scope), NEW p \in PartiesIn(scope)
    PROVE  FeaturesDescribe(p)'
<1> DEFINE found == Grouped(scope, LAMBDA e : TRUE)
           Row(q) == [party |-> q, tenant |-> PartyTenant[q], about |-> EventsOf(q)]
<1>1. EventsOf(p)' = EventsOf(p)
  BY DEF ComputeFeatures, EventsOf, Arrived
<1>2. features' = FeaturesKept(found) \cup {Row(q) : q \in found}
  BY DEF ComputeFeatures
<1>3. EventsOf(p) # {} => p \in found
  BY Found DEF Grouped
<1>4. ASSUME p \in found PROVE {x \in features' : x.party = p} = {Row(p)}
  <2>1. \A x \in FeaturesKept(found) : x.party # p
    BY <1>4 DEF FeaturesKept
  <2>2. \A q \in found : Row(q).party = q
    OBVIOUS
  <2> HIDE DEF Row
  <2> QED
    BY <1>2, <1>4, <2>1, <2>2
<1>5. EventsOf(p) # {} => {r.about : r \in {x \in features' : x.party = p}} = {EventsOf(p)}
  <2>1. Row(p).about = EventsOf(p)
    OBVIOUS
  <2> HIDE DEF Row
  <2> QED
    BY <1>3, <1>4, <2>1
<1> QED
  BY <1>1, <1>5 DEF FeaturesDescribe

\* _build_snapshot: every row compute_snapshots makes for a party is that party's, about
\* some of its events.
LEMMA MadeRows ==
    ASSUME NEW scope, NEW p, NEW r \in SnapshotsOf(p, scope)
    PROVE  \E week, S, split : r = Snapshot(p, week, S, split) /\ S \subseteq EventsOf(p)
<1> DEFINE S == {e \in EventsOf(p) : Dated(e)}
           cutoff == Cutoff(scope, p)
           SplitOf(w) == IF cutoff # None /\ 7 * w >= cutoff THEN "test" ELSE "train"
<1>1. SnapshotsOf(p, scope) =
          CASE S = {}       -> {}
            [] Weekly(p, S) -> {Snapshot(p, w, InWeek(S, w), SplitOf(w)) : w \in WeeksOf(S)}
            [] OTHER        -> {Snapshot(p, None, S, "train")}
  BY DEF SnapshotsOf
<1>2. S \subseteq EventsOf(p) /\ \A w : InWeek(S, w) \subseteq S
  BY DEF InWeek
<1> HIDE DEF S, cutoff, SplitOf
<1> QED
  BY <1>1, <1>2

\* After a run the rows of a party it has found are those it has made.
LEMMA RowsAreMade ==
    ASSUME NEW scope, ComputeSnapshots(scope), NEW p \in Grouped(scope, Timed)
    PROVE  {r \in snapshots' : r.party = p} = SnapshotsOf(p, scope)
<1> DEFINE found == Grouped(scope, Timed)
<1>1. snapshots' = SnapshotsKept(found) \cup UNION {SnapshotsOf(q, scope) : q \in found}
  BY DEF ComputeSnapshots
<1>2. \A r \in SnapshotsKept(found) : r.party # p
  BY DEF SnapshotsKept
<1>3. \A q \in found : \A r \in SnapshotsOf(q, scope) : r.party = q
  BY MadeRows DEF Snapshot
<1> HIDE DEF found
<1>4. p \in found
  BY DEF found
<1> QED
  BY <1>1, <1>2, <1>3, <1>4

\* compute_snapshots: a party's rows share out its dated events.
LEMMA SnapshotsRun ==
    ASSUME Linked, NEW scope \in Scopes, ComputeSnapshots(scope), NEW p \in PartiesIn(scope)
    PROVE  SnapshotsDescribe(p)'
<1> DEFINE rows == {r \in snapshots' : r.party = p}
           S == {e \in EventsOf(p) : Dated(e)}
           cutoff == Cutoff(scope, p)
           SplitOf(w) == IF cutoff # None /\ 7 * w >= cutoff THEN "test" ELSE "train"
           Row(w) == Snapshot(p, w, InWeek(S, w), SplitOf(w))
           Goal == /\ SharedOut(S, rows)
                   /\ \A r \in rows : IF Weekly(p, S) THEN WeeksOf(r.about) = {r.week}
                                       ELSE r.about = S
<1>1. EventsOf(p)' = EventsOf(p)
  BY DEF ComputeSnapshots, EventsOf, Arrived
<1>2. SnapshotsDescribe(p)' <=> ((\E e \in EventsOf(p) : Timed(e)) => Goal)
  BY <1>1 DEF SnapshotsDescribe
<1> SUFFICES ASSUME NEW e \in EventsOf(p), Timed(e) PROVE Goal
  BY <1>2
<1>3. p \in Grouped(scope, Timed)
  BY Found DEF Grouped
<1>4. rows = SnapshotsOf(p, scope)
  BY <1>3, RowsAreMade
<1>5. rows = CASE S = {}       -> {}
               [] Weekly(p, S) -> {Row(w) : w \in WeeksOf(S)}
               [] OTHER        -> {Snapshot(p, None, S, "train")}
  BY <1>4 DEF SnapshotsOf
<1>6. \A w : Row(w).about = InWeek(S, w) /\ Row(w).week = w
  BY DEF Snapshot
<1>7. \A r \in {Snapshot(p, None, S, "train")} : r.about = S
  BY DEF Snapshot
<1> HIDE DEF rows, S, SplitOf, Row
<1>8. CASE S = {}
  <2>1. {Row(w) : w \in WeeksOf(S)} = {}
    BY <1>8 DEF WeeksOf
  <2>2. rows = {}
    BY <1>5, <1>8, <2>1
  <2> QED
    BY <1>8, <2>2 DEF SharedOut
<1>9. CASE S # {} /\ Weekly(p, S)
  <2>1. rows = {Row(w) : w \in WeeksOf(S)}
    BY <1>5, <1>9
  <2>2. UNION {r.about : r \in rows} = S
    <3>1. UNION {r.about : r \in rows} = UNION {InWeek(S, w) : w \in WeeksOf(S)}
      BY <1>6, <2>1
    <3> QED
      BY <3>1 DEF InWeek, WeeksOf
  <2>3. \A w \in WeeksOf(S) : WeeksOf(InWeek(S, w)) = {w}
    BY DEF InWeek, WeeksOf
  <2>4. \A r \in rows : WeeksOf(r.about) = {r.week}
    BY <1>6, <2>1, <2>3
  <2>5. \A v, w \in WeeksOf(S) : v # w => InWeek(S, v) \cap InWeek(S, w) = {}
    BY DEF InWeek
  <2>6. SharedOut(S, rows)
    <3>1. \A r, q \in rows : r # q => r.about \cap q.about = {}
      BY <1>6, <2>1, <2>5
    <3>2. \A r \in rows : r.about # {}
      BY <2>4 DEF WeeksOf
    <3> QED
      BY <2>2, <3>1, <3>2 DEF SharedOut
  <2> QED
    BY <1>9, <2>4, <2>6
<1>10. CASE S # {} /\ ~Weekly(p, S)
  <2>1. rows = {Snapshot(p, None, S, "train")}
    BY <1>5, <1>10
  <2>2. {r.about : r \in rows} = {S} /\ \A r \in rows : r.about = S
    BY <1>7, <2>1
  <2>3. \A r, q \in rows : r = q
    BY <2>1
  <2>4. SharedOut(S, rows)
    BY <1>10, <2>2, <2>3 DEF SharedOut
  <2> QED
    BY <1>10, <2>2, <2>4
<1> QED
  BY <1>8, <1>9, <1>10

\* The row of a key for a week, and what it says.
MadeFor(b, S, w) ==
    [tenant |-> b.tenant, key |-> b.key, week |-> w, about |-> InWeek(S, w),
     senders |-> Senders(InWeek(S, w)),
     newSenders |-> Senders(InWeek(S, w)) \ SeenBefore(S, w), drift |-> None]

\* compute_beneficiary_snapshots makes one row for each week with a payment.
LEMMA MadeForWeeks ==
    ASSUME NEW b, NEW S
    PROVE  /\ BeneficiaryRows(b, S) = {MadeFor(b, S, w) : w \in WeeksOf(S)}
           /\ \A w : /\ MadeFor(b, S, w).tenant = b.tenant
                     /\ MadeFor(b, S, w).key = b.key
                     /\ MadeFor(b, S, w).week = w
                     /\ MadeFor(b, S, w).about = InWeek(S, w)
                     /\ MadeFor(b, S, w).senders = Senders(InWeek(S, w))
                     /\ MadeFor(b, S, w).newSenders = Senders(InWeek(S, w)) \ SeenBefore(S, w)
BY DEF BeneficiaryRows, MadeFor

\* The payments to a key in the scope of a run, and the keys it finds.
PaidTo(scope, b) == {e \in Paying(scope) : Received(e) = b}
KeysFound(scope) == {Received(e) : e \in Paying(scope)}
KeyRows(b) == {r \in beneficiaries : [tenant |-> r.tenant, key |-> r.key] = b}

\* After a run the rows of a key it has found are those it has made; others stay.
LEMMA KeyRowsAreMade ==
    ASSUME NEW scope, ComputeBeneficiaries(scope), NEW b
    PROVE  /\ b \in KeysFound(scope) => KeyRows(b)' = BeneficiaryRows(b, PaidTo(scope, b))
           /\ b \notin KeysFound(scope) => KeyRows(b)' = KeyRows(b)
<1> DEFINE Key(r) == [tenant |-> r.tenant, key |-> r.key]
           found == KeysFound(scope)
           kept == BeneficiariesKept(found)
           Made(x) == BeneficiaryRows(x, PaidTo(scope, x))
<1>1. beneficiaries' = kept \cup UNION {Made(x) : x \in found}
  BY DEF ComputeBeneficiaries, PaidTo, KeysFound
<1>2. \A x \in found : x = [tenant |-> x.tenant, key |-> x.key]
  BY DEF KeysFound, Received
<1>3. \A x \in found : \A r \in Made(x) : Key(r) = x
  <2> SUFFICES ASSUME NEW x \in found, NEW r \in Made(x) PROVE Key(r) = x
    OBVIOUS
  <2> HIDE DEF found
  <2>1. r.tenant = x.tenant /\ r.key = x.key
    BY MadeForWeeks
  <2> QED
    BY <1>2, <2>1
<1>4. \A r : r \in kept <=> r \in beneficiaries /\ Key(r) \notin found
  BY DEF BeneficiariesKept
<1>5. KeyRows(b)' = {r \in beneficiaries' : Key(r) = b} /\ KeyRows(b) = {r \in beneficiaries : Key(r) = b}
  BY DEF KeyRows
<1> HIDE DEF found, kept, Made, Key
<1>6. b \in found => KeyRows(b)' = Made(b)
  BY <1>1, <1>3, <1>4, <1>5
<1>7. b \notin found => KeyRows(b)' = KeyRows(b)
  BY <1>1, <1>3, <1>4, <1>5
<1> QED
  BY <1>6, <1>7 DEF found, Made

\* compute_beneficiary_snapshots: the rows of a key share out the payments to it.
LEMMA BeneficiariesRun ==
    ASSUME NEW scope \in Scopes, ComputeBeneficiaries(scope), NEW e \in Paying(scope)
    PROVE  BeneficiaryDescribed(Received(e))'
<1> DEFINE b == Received(e)
           S == PaidTo(scope, b)
           rows == {r \in beneficiaries' : r.tenant = b.tenant /\ r.key = b.key}
           own == {x \in Paying(b.tenant) : Received(x) = b}
<1>1. b' = b /\ own' = own
  BY DEF ComputeBeneficiaries, Received, KeyOf, Paying, InScope, Arrived
<1>2. BeneficiaryDescribed(b)' <=> /\ SharedOut(own, rows)
                                   /\ \A r \in rows : WeeksOf(r.about) = {r.week}
  BY <1>1 DEF BeneficiaryDescribed
<1>3. own = S
  BY DEF PaidTo, Paying, InScope, Covers, Received, Scopes
<1>4. PICK c : c = b
  OBVIOUS
<1>5. c \in KeysFound(scope)
  BY <1>4 DEF KeysFound
<1>6. c = [tenant |-> c.tenant, key |-> c.key] /\ c.tenant = b.tenant /\ c.key = b.key
  BY <1>4 DEF Received
<1>7. KeyRows(c)' = {r \in beneficiaries' : [tenant |-> r.tenant, key |-> r.key] = c}
  BY DEF KeyRows
<1> HIDE DEF b
<1>8. rows = KeyRows(c)'
  <2>1. \A t, k : [tenant |-> t, key |-> k] = c <=> t = b.tenant /\ k = b.key
    BY <1>6
  <2> QED
    BY <1>7, <2>1
<1>9. rows = BeneficiaryRows(b, S)
  BY <1>4, <1>5, <1>8, KeyRowsAreMade
<1>10. /\ \A r \in rows : r.week \in WeeksOf(S) /\ r.about = InWeek(S, r.week)
       /\ \A w \in WeeksOf(S) : \E r \in rows : r.week = w
       /\ \A r, q \in rows : r.week = q.week => r = q
  <2> HIDE DEF S, rows
  <2> QED
    BY <1>9, MadeForWeeks
<1> HIDE DEF S, rows
<1>11. \A r \in rows : WeeksOf(r.about) = {r.week}
  BY <1>10 DEF InWeek, WeeksOf
<1>12. SharedOut(S, rows)
  <2>1. UNION {r.about : r \in rows} = S
    BY <1>10 DEF InWeek, WeeksOf
  <2>2. \A r, q \in rows : r # q => r.about \cap q.about = {}
    BY <1>10 DEF InWeek
  <2>3. \A r \in rows : r.about # {}
    BY <1>11 DEF WeeksOf
  <2> QED
    BY <2>1, <2>2, <2>3 DEF SharedOut
<1> QED
  BY <1>2, <1>3, <1>11, <1>12 DEF b

\* RunsDescribeEvents, for all worlds: whichever events moved and whichever scopes were run
\* before, after a run the rows in its scope share out the events.
THEOREM RunsDescribe == Spec => []RunsDescribeEvents
<1>1. Init => RunsDescribeEvents
  BY DEF Init, NoRun, RunsDescribeEvents
<1>2. Linked /\ RunsDescribeEvents /\ [Next]_vars => RunsDescribeEvents'
  <2> SUFFICES ASSUME Linked, RunsDescribeEvents, [Next]_vars PROVE RunsDescribeEvents'
    OBVIOUS
  <2>1. CASE \E scope \in Scopes : ComputeFeatures(scope)
    <3>1. PICK scope \in Scopes : ComputeFeatures(scope)
      BY <2>1
    <3>2. aux_run' = <<"features", scope>> /\ PartiesIn(scope)' = PartiesIn(scope)
      BY <3>1 DEF ComputeFeatures, PartiesIn
    <3> QED
      BY <3>1, <3>2, FeaturesRun DEF RunsDescribeEvents
  <2>2. CASE \E scope \in Scopes : ComputeSnapshots(scope)
    <3>1. PICK scope \in Scopes : ComputeSnapshots(scope)
      BY <2>2
    <3>2. aux_run' = <<"snapshots", scope>> /\ PartiesIn(scope)' = PartiesIn(scope)
      BY <3>1 DEF ComputeSnapshots, PartiesIn
    <3> QED
      BY <3>1, <3>2, SnapshotsRun DEF RunsDescribeEvents
  <2>3. CASE \E scope \in Scopes : ComputeBeneficiaries(scope)
    <3>1. PICK scope \in Scopes : ComputeBeneficiaries(scope)
      BY <2>3
    <3>2. aux_run' = <<"beneficiaries", scope>> /\ Paying(scope)' = Paying(scope)
      BY <3>1 DEF ComputeBeneficiaries, Paying, InScope, Arrived
    <3> QED
      BY <3>1, <3>2, BeneficiariesRun DEF RunsDescribeEvents
  <2>4. CASE aux_run' = NoRun
    BY <2>4 DEF NoRun, RunsDescribeEvents
  <2>5. CASE UNCHANGED vars
    BY <2>5 DEF vars, tables, RunsDescribeEvents, PartiesIn, FeaturesDescribe, SnapshotsDescribe,
       BeneficiaryDescribed, EventsOf, Paying, InScope, Received, KeyOf, Arrived
  <2> QED
    BY <2>1, <2>2, <2>3, <2>4, <2>5 DEF Next, Rebuild, Arrive, Capture, Resolve, Change,
       TrainAndScore, ClusterAndScore, ScoreDrift, ScoreFunnelDrift, ComputeFinalScore
<1> QED
  BY <1>1, <1>2, LinkedInv, PTL DEF Spec

-----------------------------------------------------------------------------
(* Training and test weeks *)

\* The cutoff of a run is one time for all its parties, or none.
LEMMA CutoffIsTime ==
    ASSUME Linked, NEW scope, NEW p, NEW q
    PROVE  /\ Cutoff(scope, p) = Cutoff(scope, q)
           /\ Cutoff(scope, p) \in Nat \cup {None}
<1> DEFINE all == {e \in InScope(scope) : link[e] # None /\ Dated(e)}
<1>1. Cutoff(scope, p) = Cutoff(scope, q)
  BY DEF Cutoff
<1>2. Cutoff(scope, p) = IF Cardinality(all) < 5 THEN None ELSE HeldOut(all)
  BY DEF Cutoff
<1>3. IsFiniteSet(all)
  BY EventsAssumption, FS_Subset DEF Linked, InScope
<1>4. \A e \in all : TimeOf(e) \in Nat
  BY FactsAssumption DEF Linked, InScope, Dated, TimeOf
<1> HIDE DEF all
<1>5. CASE all = {}
  BY <1>1, <1>2, <1>5, FS_EmptySet
<1>6. CASE all # {}
  BY <1>1, <1>2, <1>3, <1>4, <1>6, HeldOutIsTime
<1> QED
  BY <1>5, <1>6

\* A weekly row has a number for its week, and its split is by the cutoff.
LEMMA SplitIs ==
    ASSUME Linked, NEW scope, NEW p, NEW r \in SnapshotsOf(p, scope), r.week # None
    PROVE  /\ r.week \in Nat
           /\ r.split = IF Cutoff(scope, p) # None /\ 7 * r.week >= Cutoff(scope, p)
                        THEN "test" ELSE "train"
<1> DEFINE S == {e \in EventsOf(p) : Dated(e)}
           cutoff == Cutoff(scope, p)
           SplitOf(w) == IF cutoff # None /\ 7 * w >= cutoff THEN "test" ELSE "train"
           Row(w) == Snapshot(p, w, InWeek(S, w), SplitOf(w))
<1>1. SnapshotsOf(p, scope) =
          CASE S = {}       -> {}
            [] Weekly(p, S) -> {Row(w) : w \in WeeksOf(S)}
            [] OTHER        -> {Snapshot(p, None, S, "train")}
  BY DEF SnapshotsOf
<1>2. \A w \in WeeksOf(S) : w \in Nat
  <2>1. \A e \in S : TimeOf(e) \in Nat
    BY FactsAssumption DEF Linked, EventsOf, Dated, TimeOf
  <2> QED
    BY <2>1 DEF WeeksOf, WeekOf
<1>3. \A w : Row(w).week = w /\ Row(w).split = SplitOf(w)
  BY DEF Snapshot
<1>4. Snapshot(p, None, S, "train").week = None
  BY DEF Snapshot
<1> HIDE DEF S, Row
<1>5. \E w \in WeeksOf(S) : r = Row(w)
  BY <1>1, <1>4
<1> QED
  BY <1>2, <1>3, <1>5

\* SplitByTime, for all worlds: what is held out is later than what is trained on.
THEOREM HeldOutIsLater == Spec => []SplitByTime
<1>1. Init => SplitByTime
  BY DEF Init, NoRun, SplitByTime
<1>2. Linked /\ SplitByTime /\ [Next]_vars => SplitByTime'
  <2> SUFFICES ASSUME Linked, SplitByTime, [Next]_vars PROVE SplitByTime'
    OBVIOUS
  <2>1. CASE \E scope \in Scopes : ComputeSnapshots(scope)
    <3>1. PICK scope \in Scopes : ComputeSnapshots(scope)
      BY <2>1
    <3> DEFINE found == Grouped(scope, Timed)
    <3>2. aux_run' = <<"snapshots", scope>> /\ Grouped(scope, Timed)' = found
      BY <3>1 DEF ComputeSnapshots, Grouped, InScope, Arrived, Timed
    <3>3. SplitByTime' <=>
            \A r, q \in {x \in snapshots' : x.week # None /\ x.party \in found} :
                r.split = "train" /\ q.split = "test" => r.week < q.week
      BY <3>2 DEF SplitByTime
    <3> SUFFICES ASSUME NEW r \in snapshots', NEW q \in snapshots',
                        r.week # None, r.party \in found, q.week # None, q.party \in found,
                        r.split = "train", q.split = "test"
                 PROVE  r.week < q.week
      BY <3>3
    <3> DEFINE cutoff == Cutoff(scope, r.party)
    <3>4. r \in SnapshotsOf(r.party, scope) /\ q \in SnapshotsOf(q.party, scope)
      BY <3>1, RowsAreMade
    <3>5. cutoff = Cutoff(scope, q.party) /\ cutoff \in Nat \cup {None}
      BY CutoffIsTime
    <3>6. r.week \in Nat /\ q.week \in Nat
      BY <3>4, SplitIs
    <3>7. r.split = IF cutoff # None /\ 7 * r.week >= cutoff THEN "test" ELSE "train"
      BY <3>4, SplitIs
    <3>8. q.split = IF cutoff # None /\ 7 * q.week >= cutoff THEN "test" ELSE "train"
      BY <3>4, <3>5, SplitIs
    <3> HIDE DEF cutoff
    <3> QED
      BY <3>5, <3>6, <3>7, <3>8
  <2>2. CASE \E scope \in Scopes : ComputeFeatures(scope) \/ ComputeBeneficiaries(scope)
    BY <2>2 DEF ComputeFeatures, ComputeBeneficiaries, SplitByTime
  <2>3. CASE aux_run' = NoRun
    BY <2>3 DEF NoRun, SplitByTime
  <2>4. CASE UNCHANGED vars
    BY <2>4 DEF vars, tables, SplitByTime, Grouped, InScope, Arrived, Timed
  <2> QED
    BY <2>1, <2>2, <2>3, <2>4 DEF Next, Rebuild, Arrive, Capture, Resolve, Change,
       TrainAndScore, ClusterAndScore, ScoreDrift, ScoreFunnelDrift, ComputeFinalScore
<1> QED
  BY <1>1, <1>2, LinkedInv, PTL DEF Spec

-----------------------------------------------------------------------------
(* The bands *)

\* The columns of a snapshot.
Shaped(r) ==
    /\ r.about \subseteq Events
    /\ r.segment \in {"MERCHANT", "INDIVIDUAL"}
    /\ r = [party |-> r.party, tenant |-> r.tenant, segment |-> r.segment, week |-> r.week,
            about |-> r.about, split |-> r.split, iso |-> r.iso, changed |-> r.changed,
            drift |-> r.drift, band |-> r.band]
AllShaped == IsFiniteSet(snapshots) /\ \A r \in snapshots : Shaped(r)

\* r with the columns of the tracks written again.
Rewrites(q, r) == /\ Shaped(q)
                  /\ q.party = r.party /\ q.week = r.week /\ q.tenant = r.tenant
                  /\ q.about = r.about

\* The rows of T that a merchant's row r can be judged by.
Earlier(T, r) == {q \in T : q.party = r.party /\ q.week # None /\ r.week # None /\ q.week < r.week}

\* What a track may add to r: a score; a change or a drift if there are rows to judge it by.
Learns(q, r) ==
    /\ q.iso \in Score \cup {r.iso}
    /\ q.changed \in BOOLEAN \cup {None, r.changed}
    /\ q.drift \in Score \cup {None, r.drift}
    /\ q.changed = TRUE => r.changed = TRUE \/ Earlier(snapshots, r) # {}
    /\ q.drift # None => r.drift # None \/ Cardinality(Earlier(snapshots, r)) >= 2

\* A track that writes another column than the band.
TrackStep ==
    \E f : /\ snapshots' = {f[r] : r \in snapshots}
          /\ \A r \in snapshots : Rewrites(f[r], r) /\ f[r].band = r.band /\ Learns(f[r], r)

\* _rescale_to_percentile: a place in n rows gives a score.
LEMMA PercentileIs ==
    ASSUME NEW n \in Nat, NEW place \in 0..(n - 1)
    PROVE  Percentile(place, n) \in Score
<1>1. CASE n = 1
  BY <1>1 DEF Percentile, Score
<1>2. CASE n # 1
  <2> DEFINE m == n - 1
             a == 100 * (n - 1 - place)
             q == a \div m
  <2>1. m \in Nat \ {0} /\ a \in Nat /\ a <= 100 * m
    BY <1>2
  <2> HIDE DEF m, a
  <2>2. a = m * (a \div m) + (a % m) /\ a % m \in 0..(m - 1) /\ a \div m \in Int
    BY <2>1, Z3
  <2>3. q <= 100
    <3> SUFFICES ASSUME q >= 101 PROVE FALSE
      BY <2>2
    <3>1. m * q >= m * 101
      BY <2>1, <2>2, Z3
    <3> QED
      BY <2>1, <2>2, <3>1
  <2>4. q >= 0
    <3> SUFFICES ASSUME q <= -1 PROVE FALSE
      BY <2>2
    <3>1. m * q <= -m
      BY <2>1, <2>2, Z3
    <3> QED
      BY <2>1, <2>2, <3>1
  <2>5. Percentile(place, n) = q
    BY <1>2 DEF Percentile, a, m
  <2> QED
    BY <2>2, <2>3, <2>4, <2>5 DEF Score
<1> QED
  BY <1>1, <1>2

\* _score_sequence: nothing is said where fewer than two rows came before.
LEMMA NoDrift ==
    ASSUME NEW now, NEW before, IsFiniteSet(DOMAIN before), Cardinality(DOMAIN before) < 2
    PROVE  Drift(now, before) = None
<1> DEFINE Prior(i) == Known([k \in DOMAIN before |-> before[k][i]], None)
           judged == {i \in DOMAIN now : now[i] # None /\ Judged(Prior(i))}
<1>1. ASSUME NEW i PROVE ~Judged(Prior(i))
  <2> DEFINE s == [k \in DOMAIN before |-> before[k][i]]
             D == {k \in DOMAIN before : s[k] # None}
  <2>1. DOMAIN Prior(i) = D
    BY DEF Known, Restrict
  <2>2. D \in SUBSET DOMAIN before
    OBVIOUS
  <2> HIDE DEF D
  <2>3. IsFiniteSet(D) /\ Cardinality(D) <= Cardinality(DOMAIN before)
    BY <2>2, FS_Subset
  <2>4. Cardinality(D) \in Nat /\ Cardinality(DOMAIN before) \in Nat
    BY <2>3, FS_CardinalityType
  <2> QED
    BY <2>1, <2>3, <2>4 DEF Judged, Size, MinPrior
<1>2. judged = {}
  BY <1>1
<1> HIDE DEF Prior
<1> QED
  BY <1>2 DEF Drift, Prior

\* amount_total: the amounts that are known, summed up in some order.
LEMMA TotalIs ==
    ASSUME NEW S \in SUBSET Events
    PROVE  Total(S) \in Nat \cup {None}
<1> DEFINE known == {e \in S : Facts[e].amount # None}
           a == [e \in known |-> Facts[e].amount]
           IsTotal(F) == F = [s \in SUBSET known |->
                              IF s = {} THEN 0 ELSE F[s \ {Pick(s)}] + Facts[Pick(s)].amount]
<1>1. IsFiniteSet(known) /\ \A e \in known : Facts[e].amount \in Nat
  BY EventsAssumption, FactsAssumption, FS_Subset
<1> HIDE DEF known
<1>2. \E F : IsTotal(F)
  <2>1. PICK F : IsSum(a, known, F)
    BY <1>1, IterExists
  <2>2. Whole(a, known)
    BY <1>1 DEF Whole
  <2>3. ASSUME NEW s \in SUBSET known PROVE F[s] \in Int
    <3>1. F[s] = SumFunctionOnSet(a, s) /\ IsFiniteSet(s) /\ Whole(a, s)
      BY <1>1, <2>1, <2>2, SumIs, FS_Subset DEF Whole
    <3> QED
      BY <3>1, SumType
  <2>4. ASSUME NEW s \in SUBSET known, s # {}
        PROVE  a[Pick(s)] + F[s \ {Pick(s)}] = F[s \ {Pick(s)}] + Facts[Pick(s)].amount
    <3>1. Pick(s) \in known
      BY <2>4, PickIn
    <3>2. F[s \ {Pick(s)}] \in Int
      BY <2>3
    <3>3. a[Pick(s)] = Facts[Pick(s)].amount
      BY <3>1
    <3> QED
      BY <1>1, <3>1, <3>2, <3>3
  <2> HIDE DEF a
  <2>5. IsTotal(F)
    BY <2>1, <2>4 DEF IsSum
  <2> HIDE DEF IsTotal
  <2> QED
    BY <2>5
<1>3. known # {} => \E F : IsTotal(F) /\ Total(S) = F[known]
  BY <1>2 DEF Total, FoldSet, MapThenFoldSet, Pick, known
<1>4. ASSUME NEW F, IsTotal(F) PROVE F[known] \in Nat
  <2> DEFINE T == {s \in SUBSET known : F[s] \in Nat}
  <2>1. ASSUME NEW s \in SUBSET known, \A x \in s : s \ {x} \in T PROVE s \in T
    <3>1. F[s] = IF s = {} THEN 0 ELSE F[s \ {Pick(s)}] + Facts[Pick(s)].amount
      BY <1>4
    <3>2. s # {} => Pick(s) \in s /\ Pick(s) \in known
      BY PickIn
    <3>3. s # {} => F[s \ {Pick(s)}] \in Nat /\ Facts[Pick(s)].amount \in Nat
      BY <1>1, <2>1, <3>2
    <3> HIDE DEF IsTotal
    <3>4. F[s] \in Nat
      BY <3>1, <3>3
    <3> QED
      BY <3>4
  <2> HIDE DEF T
  <2>2. SUBSET known \subseteq T
    BY <1>1, <2>1, SubsetInduction
  <2> QED
    BY <2>2 DEF T
<1>5. known = {} => Total(S) = None
  BY DEF Total, known
<1> HIDE DEF IsTotal
<1> QED
  BY <1>3, <1>4, <1>5

\* _score_sequence gives a score, or nothing.
LEMMA DriftType ==
    ASSUME NEW now, IsFiniteSet(DOMAIN now), \A i \in DOMAIN now : now[i] \in Int \cup {None},
           NEW before, IsFiniteSet(DOMAIN before),
           \A k \in DOMAIN before : \A i \in DOMAIN now : before[k][i] \in Int \cup {None}
    PROVE  Drift(now, before) \in Score \cup {None}
<1> DEFINE Prior(i) == Known([k \in DOMAIN before |-> before[k][i]], None)
           judged == {i \in DOMAIN now : now[i] # None /\ Judged(Prior(i))}
           z == [i \in judged |-> TenfoldZ(now[i], Prior(i))]
           capped == IF Average(z) > ZCap THEN ZCap ELSE Average(z)
<1>1. ASSUME NEW i \in DOMAIN now PROVE Sample(Prior(i))
  <2> DEFINE s == [k \in DOMAIN before |-> before[k][i]]
             D == {k \in DOMAIN before : s[k] # None}
  <2>1. DOMAIN Prior(i) = D /\ \A k \in D : Prior(i)[k] = before[k][i]
    BY DEF Known, Restrict
  <2>2. IsFiniteSet(D) /\ \A k \in D : before[k][i] \in Int
    BY FS_Subset
  <2> HIDE DEF D, Prior
  <2> QED
    BY <2>1, <2>2 DEF Sample, Whole
<1>2. Drift(now, before) = IF judged = {} THEN None ELSE 2 * capped
  BY DEF Drift
<1> HIDE DEF Prior
<1>3. IsFiniteSet(judged) /\ DOMAIN z = judged
  BY FS_Subset
<1>4. \A i \in DOMAIN z : z[i] \in Nat
  <2> SUFFICES ASSUME NEW i \in judged PROVE TenfoldZ(now[i], Prior(i)) \in Nat
    OBVIOUS
  <2> QED
    BY <1>1, ZType
<1> HIDE DEF z, judged
<1>5. judged # {} => Average(z) \in Nat
  BY <1>3, <1>4, AverageType
<1>6. judged # {} => capped \in 0..50
  BY <1>5 DEF ZCap
<1> HIDE DEF capped
<1> QED
  BY <1>2, <1>6 DEF Score

\* compute_snapshots and score_drift: what a merchant's week is compared by.
LEMMA DriftFeaturesType ==
    ASSUME NEW r, r.about \subseteq Events
    PROVE  /\ DOMAIN DriftFeatures(r) = 1..3
           /\ \A i \in 1..3 : DriftFeatures(r)[i] \in Int \cup {None}
<1> DEFINE S == r.about
           names == [e \in Named(S) |-> Facts[e].payee]
<1>1. IsFiniteSet(S) /\ Cardinality(S) \in Nat
  BY EventsAssumption, FS_Subset, FS_CardinalityType
<1>2. IsFiniteSet(Named(S)) /\ Cardinality(Named(S)) \in Nat
  BY <1>1, FS_Subset, FS_CardinalityType DEF Named
<1>3. Cardinality(NewNames(S)) \in Nat
  <2>1. DOMAIN names = Named(S) /\ NewNames(S) = {names[e] : e \in Named(S)}
    BY DEF NewNames
  <2> HIDE DEF names
  <2>2. IsFiniteSet(NewNames(S))
    BY <1>2, <2>1, FiniteImage
  <2> QED
    BY <2>2, FS_CardinalityType
<1>4. NewRatio(S) \in Int \cup {None}
  <2>1. Named(S) # {} => Cardinality(Named(S)) > 0
    BY <1>2, FS_EmptySet
  <2> QED
    BY <1>2, <1>3, <2>1 DEF NewRatio
<1>5. Total(S) \in Int \cup {None}
  BY TotalIs
<1> QED
  BY <1>1, <1>4, <1>5 DEF DriftFeatures

\* A function of the rows in scope gives such a step.
LEMMA ScoredStep ==
    ASSUME AllShaped, NEW rows \in SUBSET snapshots, NEW f,
           snapshots' = Scored(snapshots, Marked(rows, f)),
           \A r \in rows : Rewrites(f[r], r) /\ f[r].band = r.band /\ Learns(f[r], r)
    PROVE  TrackStep
<1> DEFINE g == [r \in snapshots |-> IF r \in rows THEN f[r] ELSE r]
<1>1. snapshots' = {g[r] : r \in snapshots}
  <2>1. \A r \in snapshots : g[r] = IF r \in rows THEN f[r] ELSE r
    OBVIOUS
  <2>2. \A x : x \in snapshots' <=> \E r \in snapshots : x = IF r \in rows THEN f[r] ELSE r
    BY ScoredIs
  <2> HIDE DEF g
  <2> QED
    BY <2>1, <2>2
<1>2. \A r \in snapshots : Rewrites(g[r], r) /\ g[r].band = r.band /\ Learns(g[r], r)
  BY DEF AllShaped, Rewrites, Learns
<1> QED
  BY <1>1, <1>2 DEF TrackStep

\* train_and_score, cluster_and_score and score_drift.
LEMMA TracksStep ==
    ASSUME AllShaped, NEW scope,
           TrainAndScore(scope) \/ ClusterAndScore(scope) \/ ScoreDrift(scope)
    PROVE  TrackStep
<1>1. \A r \in snapshots : \A x : LET q == [r EXCEPT !.iso = x] IN
         /\ Rewrites(q, r) /\ q.band = r.band
         /\ q.iso = x /\ q.changed = r.changed /\ q.drift = r.drift
  BY DEF AllShaped, Shaped, Rewrites
<1>2. \A r \in snapshots : \A x : LET q == [r EXCEPT !.changed = x] IN
         /\ Rewrites(q, r) /\ q.band = r.band
         /\ q.iso = r.iso /\ q.changed = x /\ q.drift = r.drift
  BY DEF AllShaped, Shaped, Rewrites
<1>3. \A r \in snapshots : \A x : LET q == [r EXCEPT !.drift = x] IN
         /\ Rewrites(q, r) /\ q.band = r.band
         /\ q.iso = r.iso /\ q.changed = r.changed /\ q.drift = x
  BY DEF AllShaped, Shaped, Rewrites
<1>4. SnapshotsIn(scope) \in SUBSET snapshots
  BY DEF SnapshotsIn
<1>5. CASE TrainAndScore(scope)
  <2> DEFINE rows == SnapshotsIn(scope)
             segment(type) == {r \in rows : r.segment = type}
             n(r) == Cardinality(segment(r.segment))
             Place(r, merchants, individuals) ==
                 IF r.segment = "MERCHANT" THEN merchants[r] ELSE individuals[r]
  <2>1. PICK merchants \in Rankings(segment("MERCHANT")),
             individuals \in Rankings(segment("INDIVIDUAL")) :
            snapshots' = Scored(snapshots,
                {[was |-> r, now |-> WithIso(r, Percentile(Place(r, merchants, individuals), n(r)))]
                     : r \in rows})
    BY <1>5, Zenon DEF TrainAndScore
  <2> DEFINE score(r) == Percentile(Place(r, merchants, individuals), n(r))
             f == [r \in rows |-> [r EXCEPT !.iso = score(r)]]
  <2>2. snapshots' = Scored(snapshots, Marked(rows, f))
    <3>0. snapshots' = Scored(snapshots, {[was |-> r, now |-> WithIso(r, score(r))] : r \in rows})
      BY <2>1
    <3> HIDE DEF score, rows
    <3>1. \A r \in rows : f[r] = WithIso(r, score(r))
      BY DEF WithIso
    <3> HIDE DEF f
    <3>2. Marked(rows, f) = {[was |-> r, now |-> WithIso(r, score(r))] : r \in rows}
      BY <3>1 DEF Marked
    <3> QED
      BY <3>0, <3>2
  <2>3. \A r \in rows : score(r) \in Score
    <3> SUFFICES ASSUME NEW r \in rows PROVE score(r) \in Score
      OBVIOUS
    <3> DEFINE segm == segment(r.segment)
    <3>1. r \in segm /\ segm \in SUBSET snapshots
      BY <1>4
    <3>2. r.segment \in {"MERCHANT", "INDIVIDUAL"} /\ IsFiniteSet(snapshots)
      BY <1>4 DEF AllShaped, Shaped
    <3>3. IsFiniteSet(segm) /\ Cardinality(segm) \in Nat
      BY <3>1, <3>2, FS_Subset, FS_CardinalityType
    <3>4. /\ merchants \in [segment("MERCHANT") -> 0..(Cardinality(segment("MERCHANT")) - 1)]
          /\ individuals \in [segment("INDIVIDUAL") -> 0..(Cardinality(segment("INDIVIDUAL")) - 1)]
      <4> HIDE DEF segment
      <4> QED
        BY <2>1 DEF Rankings, Bijection, Injection
    <3>5. Place(r, merchants, individuals) \in 0..(Cardinality(segm) - 1)
      <4>1. CASE r.segment = "MERCHANT"
        BY <3>1, <3>4, <4>1
      <4>2. CASE r.segment = "INDIVIDUAL"
        BY <3>1, <3>4, <4>2
      <4> QED
        BY <3>2, <4>1, <4>2
    <3> HIDE DEF segm, Place
    <3>6. Percentile(Place(r, merchants, individuals), Cardinality(segm)) \in Score
      BY <3>3, <3>5, PercentileIs
    <3> QED
      BY <3>6 DEF segm
  <2>4. ASSUME NEW r \in rows
        PROVE  Rewrites(f[r], r) /\ f[r].band = r.band /\ Learns(f[r], r)
    <3> HIDE DEF score, rows
    <3>1. f[r] = [r EXCEPT !.iso = score(r)]
      OBVIOUS
    <3> HIDE DEF f
    <3> QED
      BY <1>1, <1>4, <2>3, <3>1 DEF Learns, rows
  <2> HIDE DEF f
  <2> QED
    BY <1>4, <2>2, <2>4, ScoredStep
<1>6. CASE ClusterAndScore(scope)
  <2> DEFINE rows == SnapshotsIn(scope)
  <2>1. PICK label :
            snapshots' = Scored(snapshots,
                {[was |-> r, now |-> WithChanged(r, rows, label)] : r \in rows})
    BY <1>6 DEF ClusterAndScore
  <2> DEFINE f == [r \in rows |-> WithChanged(r, rows, label)]
  <2>2. snapshots' = Scored(snapshots, Marked(rows, f))
    BY <2>1 DEF Marked
  <2>3. \A r \in rows : HasWeekBefore(r, rows) => Earlier(snapshots, r) # {}
    BY <1>4 DEF HasWeekBefore, Earlier
  <2>4. ASSUME NEW r \in rows
        PROVE  Rewrites(f[r], r) /\ f[r].band = r.band /\ Learns(f[r], r)
    <3> DEFINE x == IF HasWeekBefore(r, rows) THEN label[r] # label[WeekBefore(r, rows)] ELSE None
    <3>1. f[r] = [r EXCEPT !.changed = x]
      BY DEF WithChanged
    <3>2. x \in BOOLEAN \cup {None} /\ (x = TRUE => Earlier(snapshots, r) # {})
      BY <2>3, TrackAssumption
    <3> HIDE DEF x, f, rows
    <3> QED
      BY <1>2, <1>4, <3>1, <3>2 DEF Learns, rows
  <2> HIDE DEF f
  <2> QED
    BY <1>4, <2>2, <2>4, ScoredStep
<1>7. CASE ScoreDrift(scope)
  <2> DEFINE rows == {r \in SnapshotsIn(scope) : r.segment = "MERCHANT" /\ r.week # None}
             DriftOf(r) ==
                 LET before == {q \in rows : q.party = r.party /\ q.week < r.week}
                 IN Drift(DriftFeatures(r), [q \in before |-> DriftFeatures(q)])
             f == [r \in rows |-> [r EXCEPT !.drift = DriftOf(r)]]
  <2>1. snapshots' = Scored(snapshots,
            {[was |-> r, now |-> [r EXCEPT !.drift = DriftOf(r)]] : r \in rows})
    BY <1>7 DEF ScoreDrift
  <2> HIDE DEF DriftOf
  <2>2. snapshots' = Scored(snapshots, Marked(rows, f))
    BY <2>1 DEF Marked
  <2>3. rows \in SUBSET snapshots
    BY <1>4
  <2>4. ASSUME NEW r \in rows, DriftOf(r) # None
        PROVE  Cardinality(Earlier(snapshots, r)) >= 2
    <3> DEFINE before == {q \in rows : q.party = r.party /\ q.week < r.week}
               D == [q \in before |-> DriftFeatures(q)]
    <3>1. before \in SUBSET Earlier(snapshots, r) /\ Earlier(snapshots, r) \in SUBSET snapshots
      BY <2>3 DEF Earlier
    <3>2. /\ IsFiniteSet(Earlier(snapshots, r)) /\ IsFiniteSet(before)
          /\ Cardinality(before) <= Cardinality(Earlier(snapshots, r))
          /\ Cardinality(before) \in Nat /\ Cardinality(Earlier(snapshots, r)) \in Nat
      BY <3>1, FS_Subset, FS_CardinalityType DEF AllShaped
    <3>3. DriftOf(r) = Drift(DriftFeatures(r), D) /\ DOMAIN D = before
      BY DEF DriftOf
    <3> HIDE DEF before, D
    <3>4. ~(Cardinality(before) < 2)
      BY <2>4, <3>2, <3>3, NoDrift
    <3> QED
      BY <3>2, <3>4
  <2>6. ASSUME NEW r \in rows PROVE DriftOf(r) \in Score \cup {None}
    <3> DEFINE before == {q \in rows : q.party = r.party /\ q.week < r.week}
               D == [q \in before |-> DriftFeatures(q)]
    <3>1. \A q \in rows : q.about \subseteq Events
      BY <2>3 DEF AllShaped, Shaped
    <3>2. before \subseteq snapshots /\ before \subseteq rows
      BY <2>3
    <3>3. DriftOf(r) = Drift(DriftFeatures(r), D)
      BY DEF DriftOf
    <3> HIDE DEF before, rows
    <3>4. IsFiniteSet(DOMAIN D)
      BY <3>2, FS_Subset DEF AllShaped
    <3>5. \A q \in DOMAIN D : \A i \in 1..3 : D[q][i] \in Int \cup {None}
      BY <3>1, <3>2, DriftFeaturesType
    <3> HIDE DEF D
    <3>6. IsFiniteSet(1..3)
      <4>1. 1 \in Int /\ 3 \in Int
        OBVIOUS
      <4> QED
        BY <4>1, FS_Interval
    <3>7. r.about \subseteq Events
      BY <2>6, <3>1
    <3> QED
      BY <3>3, <3>4, <3>5, <3>6, <3>7, DriftFeaturesType, DriftType
  <2>5. ASSUME NEW r \in rows
        PROVE  Rewrites(f[r], r) /\ f[r].band = r.band /\ Learns(f[r], r)
    <3>1. f[r] = [r EXCEPT !.drift = DriftOf(r)]
      OBVIOUS
    <3> HIDE DEF f, rows
    <3> QED
      BY <1>3, <2>3, <2>4, <2>6, <3>1 DEF Learns
  <2> HIDE DEF f, rows
  <2> QED
    BY <2>2, <2>3, <2>5, ScoredStep
<1> QED
  BY <1>5, <1>6, <1>7

\* A step of another track gives nobody a band.
LEMMA TrackStepKeeps ==
    ASSUME AllShaped, TrackStep, NEW t
    PROVE  AllShaped' /\ BandedTogether(t)
<1>1. PICK f : /\ snapshots' = {f[r] : r \in snapshots}
               /\ \A r \in snapshots : Rewrites(f[r], r) /\ f[r].band = r.band
  BY DEF TrackStep
<1>2. AllShaped'
  <2>1. \A q \in snapshots' : Shaped(q)
    BY <1>1 DEF Rewrites
  <2>2. IsFiniteSet(snapshots')
    <3> DEFINE g == [r \in snapshots |-> f[r]]
    <3>0. IsFiniteSet(snapshots)
      BY DEF AllShaped
    <3>1. DOMAIN g = snapshots /\ \A r \in snapshots : g[r] = f[r]
      OBVIOUS
    <3> HIDE DEF g
    <3>2. IsFiniteSet({g[r] : r \in snapshots})
      BY <3>0, <3>1, FiniteImage
    <3> QED
      BY <1>1, <3>1, <3>2
  <2> QED
    BY <2>1, <2>2 DEF AllShaped, Shaped
<1>3. BandedFor(t)' = {<<q.party, q.week>> : q \in {x \in {y \in snapshots' : y.tenant = t} : x.band # None}}
  BY DEF BandedFor, Banded, RowsOf
<1>4. ASSUME NEW q \in snapshots', q.tenant = t, q.band # None
      PROVE  <<q.party, q.week>> \in BandedFor(t)
  <2>1. PICK r \in snapshots : q = f[r]
    BY <1>1
  <2>2. q.party = r.party /\ q.week = r.week /\ q.tenant = r.tenant /\ q.band = r.band
    BY <1>1, <2>1 DEF Rewrites
  <2>3. r \in Banded(t)
    BY <1>4, <2>2 DEF Banded, RowsOf
  <2> QED
    BY <2>2, <2>3 DEF BandedFor
<1> QED
  BY <1>2, <1>3, <1>4 DEF BandedTogether

\* compute_snapshots: finitely many events make finitely many rows.
LEMMA SnapshotsFinite ==
    ASSUME Linked, IsFiniteSet(snapshots), NEW scope, ComputeSnapshots(scope)
    PROVE  IsFiniteSet(snapshots')
<1> DEFINE found == Grouped(scope, Timed)
<1>1. IsFiniteSet(Arrived)
  BY EventsAssumption, FS_Subset DEF Linked
<1>2. IsFiniteSet(found)
  <2>1. IsFiniteSet({link[e] : e \in Arrived})
    BY <1>1, FiniteImage DEF Arrived
  <2>2. found \in SUBSET {link[e] : e \in Arrived}
    BY DEF Grouped, InScope
  <2> QED
    BY <2>1, <2>2, FS_Subset
<1>3. ASSUME NEW p PROVE IsFiniteSet(SnapshotsOf(p, scope))
  <2> DEFINE S == {e \in EventsOf(p) : Dated(e)}
             cutoff == Cutoff(scope, p)
             SplitOf(w) == IF cutoff # None /\ 7 * w >= cutoff THEN "test" ELSE "train"
             row == [w \in WeeksOf(S) |-> Snapshot(p, w, InWeek(S, w), SplitOf(w))]
             week == [e \in S |-> WeekOf(e)]
  <2>1. IsFiniteSet(S)
    <3>1. S \in SUBSET Arrived
      BY DEF EventsOf
    <3> QED
      BY <1>1, <3>1, FS_Subset
  <2>2. IsFiniteSet(WeeksOf(S))
    <3>1. WeeksOf(S) = {week[e] : e \in S}
      BY DEF WeeksOf
    <3> HIDE DEF S
    <3>2. DOMAIN week = S
      OBVIOUS
    <3> HIDE DEF week
    <3> QED
      BY <2>1, <3>1, <3>2, FiniteImage
  <2>3. IsFiniteSet({row[w] : w \in WeeksOf(S)})
    <3>1. DOMAIN row = WeeksOf(S)
      OBVIOUS
    <3> HIDE DEF row, S
    <3> QED
      BY <2>2, <3>1, FiniteImage
  <2>4. SnapshotsOf(p, scope) =
            CASE S = {}       -> {}
              [] Weekly(p, S) -> {Snapshot(p, w, InWeek(S, w), SplitOf(w)) : w \in WeeksOf(S)}
              [] OTHER        -> {Snapshot(p, None, S, "train")}
    BY DEF SnapshotsOf
  <2>5. {row[w] : w \in WeeksOf(S)} = {Snapshot(p, w, InWeek(S, w), SplitOf(w)) : w \in WeeksOf(S)}
    <3> HIDE DEF S, SplitOf
    <3> QED
      OBVIOUS
  <2> HIDE DEF S, row, SplitOf
  <2>6. SnapshotsOf(p, scope) \in {{}, {row[w] : w \in WeeksOf(S)}, {Snapshot(p, None, S, "train")}}
    BY <2>4, <2>5
  <2>7. IsFiniteSet({}) /\ IsFiniteSet({Snapshot(p, None, S, "train")})
    BY FS_EmptySet, FS_Singleton
  <2> QED
    BY <2>3, <2>6, <2>7
<1> DEFINE made == [p \in found |-> SnapshotsOf(p, scope)]
<1>4. IsFiniteSet({made[p] : p \in found})
  BY <1>2, FiniteImage
<1>5. \A T \in {made[p] : p \in found} : IsFiniteSet(T)
  BY <1>3
<1>6. IsFiniteSet(UNION {made[p] : p \in found})
  <2> HIDE DEF made
  <2> QED
    BY <1>4, <1>5, FS_UNION
<1>7. IsFiniteSet(SnapshotsKept(found))
  BY FS_Subset DEF SnapshotsKept
<1>8. snapshots' = SnapshotsKept(found) \cup UNION {made[p] : p \in found}
  BY DEF ComputeSnapshots
<1> HIDE DEF made
<1> QED
  BY <1>6, <1>7, <1>8, FS_Union

\* compute_snapshots: new rows have no band.
LEMMA RebuildKeeps ==
    ASSUME Linked, AllShaped, NEW scope, ComputeSnapshots(scope), NEW t
    PROVE  AllShaped' /\ BandedTogether(t)
<1>1. \A q \in snapshots' : q \in snapshots \/ \E p \in Parties : q \in SnapshotsOf(p, scope)
  BY DEF ComputeSnapshots, SnapshotsKept, Grouped
<1>2. \A q \in snapshots' : q \in snapshots \/ (Shaped(q) /\ q.band = None)
  <2> SUFFICES ASSUME NEW q \in snapshots', q \notin snapshots PROVE Shaped(q) /\ q.band = None
    OBVIOUS
  <2>1. PICK p, week, S, split : q = Snapshot(p, week, S, split) /\ S \subseteq EventsOf(p)
    BY <1>1, MadeRows
  <2>2. S \subseteq Events
    BY <2>1 DEF EventsOf, Linked
  <2> QED
    BY <2>1, <2>2 DEF Snapshot, Shaped, Type
<1>3. AllShaped'
  <2>1. \A q \in snapshots' : Shaped(q)
    BY <1>2 DEF AllShaped
  <2>2. IsFiniteSet(snapshots')
    BY SnapshotsFinite DEF AllShaped
  <2> QED
    BY <2>1, <2>2 DEF AllShaped, Shaped
<1>4. Banded(t)' \subseteq Banded(t)
  BY <1>2 DEF Banded, RowsOf
<1> QED
  BY <1>3, <1>4 DEF BandedTogether, BandedFor

\* compute_final_score: the rows in its scope are written again with a band.
LEMMA FinalIs ==
    ASSUME NEW scope, ComputeFinalScore(scope)
    PROVE  LET rows == SnapshotsIn(scope)
               f == [r \in rows |-> WithBand(r)]
               g == [r \in snapshots |-> IF r \in rows THEN f[r] ELSE r]
           IN snapshots' = {g[r] : r \in snapshots}
<1> DEFINE rows == SnapshotsIn(scope)
           f == [r \in rows |-> WithBand(r)]
           g == [r \in snapshots |-> IF r \in rows THEN f[r] ELSE r]
<1>1. snapshots' = Scored(snapshots, {[was |-> r, now |-> WithBand(r)] : r \in rows})
  BY DEF ComputeFinalScore
<1>2. {[was |-> r, now |-> WithBand(r)] : r \in rows} = Marked(rows, f)
  BY DEF Marked
<1>3. rows \in SUBSET snapshots
  BY DEF SnapshotsIn
<1>4. \A r \in snapshots : g[r] = IF r \in rows THEN f[r] ELSE r
  OBVIOUS
<1> HIDE DEF f, g, rows
<1>5. \A x : x \in snapshots' <=> \E r \in snapshots : x = IF r \in rows THEN f[r] ELSE r
  BY <1>1, <1>2, <1>3, ScoredIs
<1>6. snapshots' = {g[r] : r \in snapshots}
  BY <1>4, <1>5
<1> QED
  BY <1>6 DEF f, g, rows

\* compute_final_score writes no other column than the band.
LEMMA FinalRewrites ==
    ASSUME AllShaped, NEW scope, ComputeFinalScore(scope)
    PROVE  \E f : /\ snapshots' = {f[r] : r \in snapshots}
                  /\ \A r \in snapshots : Rewrites(f[r], r) /\ f[r].band \in Bands \cup {r.band}
                                          /\ f[r].iso = r.iso /\ f[r].changed = r.changed
                                          /\ f[r].drift = r.drift
<1> DEFINE rows == SnapshotsIn(scope)
           f == [r \in rows |-> WithBand(r)]
           g == [r \in snapshots |-> IF r \in rows THEN f[r] ELSE r]
<1>1. snapshots' = {g[r] : r \in snapshots}
  BY FinalIs
<1>2. \A final : Band(final) \in Bands
  BY DEF Band, Bands
<1>3. ASSUME NEW r \in snapshots
      PROVE  /\ Rewrites(g[r], r) /\ g[r].band \in Bands \cup {r.band}
             /\ g[r].iso = r.iso /\ g[r].changed = r.changed /\ g[r].drift = r.drift
  <2> DEFINE band == Band(Final(r))
  <2>1. Shaped(r) /\ band \in Bands
    BY <1>2 DEF AllShaped
  <2>2. g[r] = r \/ g[r] = [r EXCEPT !.band = band]
    BY DEF WithBand
  <2> HIDE DEF band, g
  <2> QED
    BY <2>1, <2>2 DEF Shaped, Rewrites
<1> HIDE DEF g
<1> QED
  BY <1>1, <1>3

\* compute_final_score: a tenant in its scope has all its rows banded, another none anew.
LEMMA FinalStep ==
    ASSUME AllShaped, NEW scope, ComputeFinalScore(scope), NEW t
    PROVE  AllShaped' /\ BandedTogether(t)
<1> DEFINE rows == SnapshotsIn(scope)
           f == [r \in rows |-> WithBand(r)]
           g == [r \in snapshots |-> IF r \in rows THEN f[r] ELSE r]
<1>1. \A final : Band(final) \in Bands
  BY DEF Band, Bands
<1>2. \A r \in rows : r \in snapshots /\ r.iso # None /\ Covers(scope, r.tenant)
  BY DEF ComputeFinalScore, Bandable, SnapshotsIn
<1>3. \A r \in rows : Rewrites(f[r], r) /\ f[r].band \in Bands
  <2> SUFFICES ASSUME NEW r \in rows PROVE Rewrites(f[r], r) /\ f[r].band \in Bands
    OBVIOUS
  <2> DEFINE band == Band(Final(r))
  <2>1. f[r] = [r EXCEPT !.band = band] /\ band \in Bands /\ Shaped(r)
    BY <1>1, <1>2 DEF WithBand, AllShaped
  <2> HIDE DEF band, f
  <2> QED
    BY <2>1 DEF Shaped, Rewrites
<1>4. snapshots' = {g[r] : r \in snapshots}
  BY FinalIs
<1>5. \A r \in snapshots : Rewrites(g[r], r) /\ (g[r].band \in Bands \/ (r \notin rows /\ g[r] = r))
  <2> HIDE DEF f
  <2> QED
    BY <1>3 DEF AllShaped, Rewrites
<1> HIDE DEF g, f
<1>6. AllShaped'
  <2>1. \A q \in snapshots' : Shaped(q)
    BY <1>4, <1>5 DEF Rewrites
  <2>2. IsFiniteSet(snapshots')
    <3>1. DOMAIN g = snapshots
      BY DEF g
    <3> QED
      BY <1>4, <3>1, FiniteImage DEF AllShaped
  <2> QED
    BY <2>1, <2>2 DEF AllShaped, Shaped
<1>7. CASE Covers(scope, t)
  <2>1. \A q \in snapshots' : q.tenant = t => q.band # None
    <3> SUFFICES ASSUME NEW q \in snapshots', q.tenant = t PROVE q.band # None
      OBVIOUS
    <3>1. PICK r \in snapshots : q = g[r]
      BY <1>4
    <3>2. r.tenant = t
      BY <1>5, <3>1 DEF Rewrites
    <3>3. r \in rows
      BY <1>7, <3>2 DEF SnapshotsIn
    <3> QED
      BY <1>5, <3>1, <3>3, TrackAssumption
  <2> QED
    BY <1>6, <2>1 DEF BandedTogether, Banded, RowsOf
<1>8. CASE ~Covers(scope, t)
  <2>1. \A q \in snapshots' : q.tenant = t => q \in snapshots
    <3> SUFFICES ASSUME NEW q \in snapshots', q.tenant = t PROVE q \in snapshots
      OBVIOUS
    <3>1. PICK r \in snapshots : q = g[r]
      BY <1>4
    <3>2. r.tenant = t
      BY <1>5, <3>1 DEF Rewrites
    <3>3. r \notin rows
      BY <1>2, <1>8, <3>2
    <3> QED
      BY <3>1, <3>3 DEF g
  <2>2. Banded(t)' \subseteq Banded(t)
    BY <2>1 DEF Banded, RowsOf
  <2> QED
    BY <1>6, <2>2 DEF BandedTogether, BandedFor
<1> QED
  BY <1>7, <1>8

\* Every row has the columns of a snapshot.
LEMMA BandStep ==
    ASSUME Linked, AllShaped, [Next]_vars, NEW t
    PROVE  AllShaped' /\ BandedTogether(t)
<1>1. CASE \E scope \in Scopes : TrainAndScore(scope) \/ ClusterAndScore(scope) \/ ScoreDrift(scope)
  BY <1>1, TracksStep, TrackStepKeeps
<1>2. CASE \E scope \in Scopes : ComputeSnapshots(scope)
  BY <1>2, RebuildKeeps
<1>3. CASE \E scope \in Scopes : ComputeFinalScore(scope)
  BY <1>3, FinalStep
<1>4. CASE UNCHANGED snapshots
  BY <1>4 DEF AllShaped, Shaped, BandedTogether, BandedFor, Banded, RowsOf
<1> QED
  BY <1>1, <1>2, <1>3, <1>4 DEF Next, Rebuild, Arrive, Capture, Resolve, Change, tables, vars,
     ComputeFeatures, ComputeBeneficiaries, ScoreFunnelDrift

\* There are always finitely many rows, each with its columns.
LEMMA ShapedInv == Spec => []AllShaped
<1>1. Init => AllShaped
  BY FS_EmptySet DEF Init, AllShaped
<1>2. Linked /\ AllShaped /\ [Next]_vars => AllShaped'
  BY BandStep
<1> QED
  BY <1>1, <1>2, LinkedInv, PTL DEF Spec

\* FinalIsAllOrNothing, for all worlds: when some row of a tenant gets a band, all have one.
THEOREM FinalForAll == Spec => FinalIsAllOrNothing
<1>1. AllShaped /\ Linked /\ [Next]_vars =>
          [\A t \in Tenants : BandedTogether(t)]_vars
  BY BandStep
<1> QED
  BY <1>1, ShapedInv, LinkedInv, PTL DEF Spec, FinalIsAllOrNothing

-----------------------------------------------------------------------------
(* Material bands *)

\* What the rows B before it allow a row r to have.
Grounded(r, B) ==
    /\ B = {} => r.changed # TRUE /\ r.band \notin {"High", "Critical"}
    /\ Cardinality(B) < 2 => r.drift = None /\ r.band # "Critical"

\* A party has one row for a week, and no row has more than the rows before it allow.
Founded ==
    /\ \A r, q \in snapshots : r.party = q.party /\ r.week = q.week => r = q
    /\ \A r \in snapshots : r.iso \in Score \cup {None} /\ Grounded(r, Earlier(snapshots, r))

\* A step that rewrites columns leaves every row as many rows before it as it had.
LEMMA RewritesKeep ==
    ASSUME AllShaped, Founded, NEW f, snapshots' = {f[r] : r \in snapshots},
           \A r \in snapshots : /\ Rewrites(f[r], r) /\ f[r].iso \in Score \cup {None}
                                /\ Grounded(f[r], Earlier(snapshots, r))
    PROVE  Founded'
<1>0. \A r \in snapshots : f[r].party = r.party /\ f[r].week = r.week
  BY DEF Rewrites
<1>1. \A r, q \in snapshots : f[r].party = f[q].party /\ f[r].week = f[q].week => r = q
  BY <1>0 DEF Founded
<1>2. \A r, q \in snapshots' : r.party = q.party /\ r.week = q.week => r = q
  BY <1>1
<1>3. ASSUME NEW r \in snapshots
      PROVE  Grounded(f[r], Earlier(snapshots', f[r]))
  <2> DEFINE B == Earlier(snapshots, r)
             C == Earlier(snapshots', f[r])
             g == [q \in B |-> f[q]]
  <2>1. \A x : x \in C <=> \E q \in B : x = f[q]
    BY <1>0 DEF Earlier
  <2>2. B \in SUBSET snapshots
    BY DEF Earlier
  <2> HIDE DEF B, C
  <2>3. g \in Bijection(B, C)
    BY <1>1, <2>1, <2>2 DEF Bijection, Injection, Surjection, IsInjective
  <2>4. IsFiniteSet(B)
    <3>1. IsFiniteSet(snapshots)
      BY DEF AllShaped
    <3> QED
      BY <2>2, <3>1, FS_Subset
  <2>5. Cardinality(C) = Cardinality(B)
    BY <2>3, <2>4, FS_Bijection DEF ExistsBijection
  <2>6. B = {} <=> C = {}
    BY <2>1
  <2>7. Grounded(f[r], B)
    BY DEF B
  <2>8. Grounded(f[r], C)
    BY <2>5, <2>6, <2>7 DEF Grounded
  <2> QED
    BY <2>8 DEF C
<1>4. \A q \in snapshots' : q.iso \in Score \cup {None} /\ Grounded(q, Earlier(snapshots', q))
  BY <1>3
<1>5. Founded' <=> /\ \A r, q \in snapshots' : r.party = q.party /\ r.week = q.week => r = q
                   /\ \A q \in snapshots' : /\ q.iso \in Score \cup {None}
                                            /\ Grounded(q, Earlier(snapshots', q))
  BY DEF Founded, Grounded, Earlier, Score
<1> QED
  BY <1>2, <1>4, <1>5

\* A change or a drift is added only where there are rows to judge it by.
LEMMA TrackFounded ==
    ASSUME AllShaped, Founded, TrackStep
    PROVE  Founded'
<1>1. PICK f : /\ snapshots' = {f[r] : r \in snapshots}
               /\ \A r \in snapshots : Rewrites(f[r], r) /\ f[r].band = r.band /\ Learns(f[r], r)
  BY DEF TrackStep
<1>2. ASSUME NEW r \in snapshots
      PROVE  /\ Rewrites(f[r], r) /\ f[r].iso \in Score \cup {None}
             /\ Grounded(f[r], Earlier(snapshots, r))
  <2>1. Rewrites(f[r], r) /\ f[r].band = r.band /\ Learns(f[r], r)
    BY <1>1
  <2>2. r.iso \in Score \cup {None} /\ Grounded(r, Earlier(snapshots, r))
    BY DEF Founded
  <2> DEFINE B == Earlier(snapshots, r)
  <2>3. IsFiniteSet(B)
    <3>1. B \in SUBSET snapshots /\ IsFiniteSet(snapshots)
      BY DEF Earlier, AllShaped
    <3> QED
      BY <3>1, FS_Subset
  <2>4. Cardinality(B) \in Nat
    BY <2>3, FS_CardinalityType
  <2>6. /\ f[r].changed = TRUE => r.changed = TRUE \/ B # {}
        /\ f[r].drift # None => r.drift # None \/ ~(Cardinality(B) < 2)
    BY <2>1, <2>4 DEF Learns
  <2>7. Grounded(r, B)
    BY <2>2
  <2> HIDE DEF B
  <2>5. Grounded(f[r], B)
    BY <2>1, <2>6, <2>7 DEF Grounded
  <2> QED
    BY <2>1, <2>2, <2>5 DEF Learns, B
<1> QED
  BY <1>1, <1>2, RewritesKeep

\* compute_final_score: without a change and a drift the score is at most 40 of 100, without
\* a drift at most 65; a material band begins at 60, the highest at 80.
LEMMA BandIs ==
    ASSUME NEW r, r.iso \in Score, r.drift = None
    PROVE  /\ Band(Final(r)) # "Critical"
           /\ r.changed # TRUE => Band(Final(r)) \notin {"High", "Critical"}
<1> DEFINE c == ChangeSignal(r.changed)
<1>1. c \in {0, 100} /\ (r.changed # TRUE => c = 0)
  BY DEF ChangeSignal
<1>2. DriftSignal(r.drift) = 0
  BY DEF DriftSignal
<1>3. r.iso \in Int /\ 0 <= r.iso /\ r.iso <= 100
  BY DEF Score
<1> HIDE DEF c
<1>4. Final(r) = 40 * r.iso + 25 * c
  BY <1>1, <1>2, <1>3 DEF Final, c
<1>5. Band(Final(r)) # "Critical"
  <2>1. Final(r) \in Int /\ Final(r) < 8000
    BY <1>1, <1>3, <1>4
  <2> QED
    BY <2>1 DEF Band
<1>6. ASSUME r.changed # TRUE PROVE Band(Final(r)) \notin {"High", "Critical"}
  <2>1. Final(r) = 40 * r.iso
    BY <1>1, <1>3, <1>4, <1>6
  <2>2. Final(r) \in Int /\ Final(r) < 6000
    BY <1>3, <2>1
  <2> QED
    BY <2>2 DEF Band
<1> QED
  BY <1>5, <1>6

\* compute_final_score gives no band that the rows before do not allow.
LEMMA FinalFounded ==
    ASSUME AllShaped, Founded, NEW scope, ComputeFinalScore(scope)
    PROVE  Founded'
<1> DEFINE rows == SnapshotsIn(scope)
           f == [r \in rows |-> WithBand(r)]
           g == [r \in snapshots |-> IF r \in rows THEN f[r] ELSE r]
<1>1. snapshots' = {g[r] : r \in snapshots}
  BY FinalIs
<1>2. ASSUME NEW r \in snapshots
      PROVE  /\ Rewrites(g[r], r) /\ g[r].iso \in Score \cup {None}
             /\ Grounded(g[r], Earlier(snapshots, r))
  <2>1. Shaped(r) /\ r.iso \in Score \cup {None} /\ Grounded(r, Earlier(snapshots, r))
    BY DEF AllShaped, Founded
  <2>2. CASE g[r] = r
    BY <2>1, <2>2 DEF Rewrites
  <2>3. CASE r.iso # None /\ g[r] = [r EXCEPT !.band = Band(Final(r))]
    <3> DEFINE band == Band(Final(r))
               B == Earlier(snapshots, r)
    <3>1. r.iso \in Score
      BY <2>1, <2>3
    <3>4. g[r] = [r EXCEPT !.band = band] /\ Grounded(r, B)
      BY <2>1, <2>3
    <3>7. r.drift = None => /\ band # "Critical"
                            /\ r.changed # TRUE => band \notin {"High", "Critical"}
      BY <3>1, BandIs
    <3> HIDE DEF band, g, B
    <3>2. Cardinality(B) < 2 => band # "Critical"
      BY <3>4, <3>7 DEF Grounded
    <3>3. B = {} => band \notin {"High", "Critical"}
      <4>1. B = {} => Cardinality(B) < 2
        BY FS_EmptySet
      <4> QED
        BY <3>4, <3>7, <4>1 DEF Grounded
    <3>5. /\ Rewrites(g[r], r) /\ g[r].band = band /\ g[r].iso = r.iso
          /\ g[r].changed = r.changed /\ g[r].drift = r.drift
      BY <2>1, <3>4 DEF Shaped, Rewrites
    <3>6. Grounded(g[r], B)
      BY <3>2, <3>3, <3>4, <3>5 DEF Grounded
    <3> QED
      BY <2>1, <3>5, <3>6 DEF B
  <2>4. g[r] = r \/ (r.iso # None /\ g[r] = [r EXCEPT !.band = Band(Final(r))])
    BY DEF WithBand
  <2> QED
    BY <2>2, <2>3, <2>4
<1> HIDE DEF g
<1> QED
  BY <1>1, <1>2, RewritesKeep

\* compute_snapshots gives a party all its rows anew or none.
LEMMA RebuildFounded ==
    ASSUME Founded, NEW scope, ComputeSnapshots(scope)
    PROVE  Founded'
<1> DEFINE found == Grouped(scope, Timed)
<1>1. snapshots' = SnapshotsKept(found) \cup UNION {SnapshotsOf(p, scope) : p \in found}
  BY DEF ComputeSnapshots
<1>2. \A p : \A q \in SnapshotsOf(p, scope) :
          q.party = p /\ q.iso = None /\ q.changed = None /\ q.drift = None /\ q.band = None
  BY MadeRows DEF Snapshot
<1>3. \A p : \A r, q \in SnapshotsOf(p, scope) : r.week = q.week => r = q
  <2> SUFFICES ASSUME NEW p, NEW r \in SnapshotsOf(p, scope), NEW q \in SnapshotsOf(p, scope),
                      r.week = q.week
               PROVE  r = q
    OBVIOUS
  <2> DEFINE S == {e \in EventsOf(p) : Dated(e)}
             cutoff == Cutoff(scope, p)
             SplitOf(w) == IF cutoff # None /\ 7 * w >= cutoff THEN "test" ELSE "train"
  <2>1. SnapshotsOf(p, scope) =
            CASE S = {}       -> {}
              [] Weekly(p, S) -> {Snapshot(p, w, InWeek(S, w), SplitOf(w)) : w \in WeeksOf(S)}
              [] OTHER        -> {Snapshot(p, None, S, "train")}
    BY DEF SnapshotsOf
  <2>2. \A w, T, split : Snapshot(p, w, T, split).week = w
    BY DEF Snapshot
  <2> HIDE DEF S, cutoff, SplitOf
  <2> QED
    BY <2>1, <2>2
<1> HIDE DEF found
<1>4. \A q \in snapshots' : IF q.party \in found THEN q \in SnapshotsOf(q.party, scope)
                                                 ELSE q \in snapshots
  BY <1>1, <1>2 DEF SnapshotsKept
<1>5. \A r, q \in snapshots' : r.party = q.party /\ r.week = q.week => r = q
  BY <1>3, <1>4 DEF Founded
<1>6. ASSUME NEW q \in snapshots'
      PROVE  q.iso \in Score \cup {None} /\ Grounded(q, Earlier(snapshots', q))
  <2>1. CASE q.party \in found
    <3>1. q.iso = None /\ q.changed = None /\ q.drift = None /\ q.band = None
      BY <1>2, <1>4, <2>1
    <3> QED
      BY <3>1, TrackAssumption DEF Grounded, Bands
  <2>2. CASE q.party \notin found
    <3>1. q \in snapshots
      BY <1>4, <2>2
    <3>2. Earlier(snapshots', q) = Earlier(snapshots, q)
      BY <1>1, <1>2, <1>4, <2>2 DEF Earlier, SnapshotsKept
    <3> QED
      BY <3>1, <3>2 DEF Founded
  <2> QED
    BY <2>1, <2>2
<1>7. Founded' <=> /\ \A r, q \in snapshots' : r.party = q.party /\ r.week = q.week => r = q
                   /\ \A q \in snapshots' : /\ q.iso \in Score \cup {None}
                                            /\ Grounded(q, Earlier(snapshots', q))
  BY DEF Founded, Grounded, Earlier, Score
<1> QED
  BY <1>5, <1>6, <1>7

\* MaterialNeedsHistory, for all worlds: no order of rebuilds and tracks gives a row a band
\* that the rows before it do not allow.
THEOREM MaterialForAll == Spec => []MaterialNeedsHistory
<1>1. Init => Founded
  BY DEF Init, Founded
<1>2. AllShaped /\ Founded /\ [Next]_vars => Founded'
  <2> SUFFICES ASSUME AllShaped, Founded, [Next]_vars PROVE Founded'
    OBVIOUS
  <2>1. CASE \E scope \in Scopes : TrainAndScore(scope) \/ ClusterAndScore(scope) \/ ScoreDrift(scope)
    BY <2>1, TracksStep, TrackFounded
  <2>2. CASE \E scope \in Scopes : ComputeSnapshots(scope)
    BY <2>2, RebuildFounded
  <2>3. CASE \E scope \in Scopes : ComputeFinalScore(scope)
    BY <2>3, FinalFounded
  <2>4. CASE UNCHANGED snapshots
    BY <2>4 DEF Founded, Grounded, Earlier, Score
  <2> QED
    BY <2>1, <2>2, <2>3, <2>4 DEF Next, Rebuild, Arrive, Capture, Resolve, Change, tables, vars,
       ComputeFeatures, ComputeBeneficiaries, ScoreFunnelDrift
<1>3. Founded => MaterialNeedsHistory
  <2> SUFFICES ASSUME Founded, NEW r \in snapshots
               PROVE  LET B == Earlier(snapshots, r) IN
                      /\ B = {} => r.band \notin {"High", "Critical"}
                      /\ Cardinality(B) < 2 => r.drift = None /\ r.band # "Critical"
    BY DEF MaterialNeedsHistory, Earlier
  <2> QED
    BY DEF Founded, Grounded
<1> QED
  BY <1>1, <1>2, <1>3, ShapedInv, PTL DEF Spec

-----------------------------------------------------------------------------
(* New senders *)

\* The rows B of one key: one for a week, and new in it are those senders that no earlier
\* one of these rows has.
Chronicle(B) ==
    /\ \A r \in B : r.week \in Nat
    /\ \A r, q \in B : r.week = q.week => r = q
    /\ \A r \in B : \A s : s \in r.newSenders <=>
           s \in r.senders /\ \A q \in B : q.week < r.week => s \notin q.senders

BeneficiaryShaped(r) ==
    r = [tenant |-> r.tenant, key |-> r.key, week |-> r.week, about |-> r.about,
         senders |-> r.senders, newSenders |-> r.newSenders, drift |-> r.drift]
Historical == /\ \A r \in beneficiaries : BeneficiaryShaped(r)
              /\ \A b : Chronicle(KeyRows(b))

\* compute_beneficiary_snapshots: the rows it makes for a key are such a chronicle.
LEMMA MadeChronicle ==
    ASSUME NEW b, NEW S, \A e \in S : TimeOf(e) \in Nat
    PROVE  Chronicle(BeneficiaryRows(b, S)) /\ \A r \in BeneficiaryRows(b, S) : BeneficiaryShaped(r)
<1> DEFINE B == BeneficiaryRows(b, S)
           Row(w) == MadeFor(b, S, w)
<1>1. B = {Row(w) : w \in WeeksOf(S)}
  BY MadeForWeeks
<1>2. \A w \in WeeksOf(S) : w \in Nat
  BY DEF WeeksOf, WeekOf
<1>3. \A w : /\ Row(w).week = w /\ Row(w).senders = Senders(InWeek(S, w))
            /\ Row(w).newSenders = Senders(InWeek(S, w)) \ SeenBefore(S, w)
  BY DEF MadeFor
<1>4. ASSUME NEW w, NEW s
      PROVE  s \in SeenBefore(S, w) <=> \E v \in WeeksOf(S) : v < w /\ s \in Senders(InWeek(S, v))
  BY DEF SeenBefore, Senders, WeeksOf, InWeek
<1>5. \A w : BeneficiaryShaped(Row(w))
  BY DEF BeneficiaryShaped, MadeFor
<1> HIDE DEF B, Row
<1>6. \A r \in B : \E w \in WeeksOf(S) : r = Row(w)
  BY <1>1
<1>7. \A r, q \in B : r.week \in Nat /\ (r.week = q.week => r = q)
  BY <1>2, <1>3, <1>6
<1>8. ASSUME NEW r \in B, NEW s
      PROVE  s \in r.newSenders <=>
                 s \in r.senders /\ \A q \in B : q.week < r.week => s \notin q.senders
  <2>1. PICK w \in WeeksOf(S) : r = Row(w)
    BY <1>6
  <2>2. s \in r.newSenders <=> s \in r.senders /\ s \notin SeenBefore(S, w)
    BY <1>3, <2>1
  <2>3. s \in SeenBefore(S, w) <=> \E q \in B : q.week < r.week /\ s \in q.senders
    BY <1>1, <1>3, <1>4, <2>1
  <2> QED
    BY <2>2, <2>3
<1>9. Chronicle(B)
  BY <1>7, <1>8 DEF Chronicle
<1> QED
  BY <1>1, <1>5, <1>9 DEF B

\* Rows that say the same of weeks and senders.
SameEntry(q, r) == q.week = r.week /\ q.senders = r.senders /\ q.newSenders = r.newSenders

\* The rows of a chronicle with other drifts are one.
LEMMA SameChronicle ==
    ASSUME NEW A, NEW B, Chronicle(A),
           \A q \in B : \E r \in A : SameEntry(q, r),
           \A r \in A : \E q \in B : SameEntry(q, r),
           \A q, p \in B : q.week = p.week => q = p
    PROVE  Chronicle(B)
<1>2. \A q \in B : \E r \in A : q.week = r.week /\ q.senders = r.senders /\ q.newSenders = r.newSenders
  BY DEF SameEntry
<1>3. \A r \in A : \E q \in B : q.week = r.week /\ q.senders = r.senders /\ q.newSenders = r.newSenders
  BY DEF SameEntry
<1>4. ASSUME NEW q \in B, NEW s
      PROVE  s \in q.newSenders <=>
                 s \in q.senders /\ \A p \in B : p.week < q.week => s \notin p.senders
  <2>1. PICK r \in A : q.week = r.week /\ q.senders = r.senders /\ q.newSenders = r.newSenders
    BY <1>2
  <2>2. s \in r.newSenders <=>
            s \in r.senders /\ \A x \in A : x.week < r.week => s \notin x.senders
    BY DEF Chronicle
  <2>3. (\A x \in A : x.week < r.week => s \notin x.senders)
        <=> \A p \in B : p.week < q.week => s \notin p.senders
    BY <1>2, <1>3, <2>1
  <2> QED
    BY <2>1, <2>2, <2>3
<1>5. \A q \in B : q.week \in Nat
  BY <1>2 DEF Chronicle
<1> QED
  BY <1>4, <1>5 DEF Chronicle

\* In a chronicle a sender is new once, the first time.
LEMMA NewOnce ==
    ASSUME NEW B, Chronicle(B), NEW r \in B, NEW s \in r.senders
    PROVE  LET weeks == {q \in B : s \in q.senders}
               first == {q \in weeks : s \in q.newSenders}
           IN Cardinality(first) = 1 /\ \A q \in first : q.week <= r.week
<1> DEFINE weeks == {q \in B : s \in q.senders}
           first == {q \in weeks : s \in q.newSenders}
           T == {q.week : q \in weeks}
<1>1. T \in SUBSET Nat /\ r.week \in T
  BY DEF Chronicle
<1>2. PICK w \in T : \A v \in T : w <= v
  <2> HIDE DEF T
  <2> QED
    BY <1>1, LeastExists
<1>3. PICK p \in weeks : p.week = w
  OBVIOUS
<1>4. \A q \in weeks : q.week \in Nat /\ p.week <= q.week
  BY <1>1, <1>2, <1>3
<1>5. p \in first
  BY <1>4 DEF Chronicle
<1>6. \A q \in first : q = p
  <2> SUFFICES ASSUME NEW q \in first PROVE q = p
    OBVIOUS
  <2>1. ~(p.week < q.week)
    BY <1>3 DEF Chronicle
  <2>2. p.week = q.week
    BY <1>3, <1>4, <2>1
  <2> QED
    BY <1>3, <2>2 DEF Chronicle
<1>7. first = {p}
  BY <1>5, <1>6
<1>8. Cardinality(first) = 1
  BY <1>7, FS_Singleton
<1> QED
  BY <1>4, <1>7, <1>8

\* compute_beneficiary_snapshots and score_funnel_drift keep the rows of a key a chronicle.
LEMMA BeneficiariesKeepHistory ==
    ASSUME Linked, Historical, NEW scope, ComputeBeneficiaries(scope)
    PROVE  Historical'
<1>1. ASSUME NEW b
      PROVE  Chronicle(KeyRows(b)') /\ \A r \in KeyRows(b)' : BeneficiaryShaped(r)
  <2>1. CASE b \in KeysFound(scope)
    <3>1. \A e \in PaidTo(scope, b) : TimeOf(e) \in Nat
      BY FactsAssumption DEF Linked, PaidTo, Paying, InScope, Dated, TimeOf
    <3> QED
      BY <2>1, <3>1, KeyRowsAreMade, MadeChronicle
  <2>2. CASE b \notin KeysFound(scope)
    <3>1. KeyRows(b)' = KeyRows(b)
      BY <2>2, KeyRowsAreMade
    <3>2. \A r \in KeyRows(b) : BeneficiaryShaped(r)
      BY DEF KeyRows, Historical
    <3> QED
      BY <3>1, <3>2 DEF Historical
  <2> QED
    BY <2>1, <2>2
<1>2. \A r \in beneficiaries' : \E b : r \in KeyRows(b)'
  BY DEF KeyRows
<1>3. \A r \in beneficiaries' : BeneficiaryShaped(r)
  BY <1>1, <1>2
<1>4. \A b : Chronicle(KeyRows(b)')
  BY <1>1
<1>5. Historical' <=> /\ \A r \in beneficiaries' : BeneficiaryShaped(r)
                      /\ \A b : Chronicle(KeyRows(b)')
  BY DEF Historical, Chronicle, BeneficiaryShaped
<1> QED
  BY <1>3, <1>4, <1>5

\* What the columns of a beneficiary's row may be.
BeneficiaryTyped(r) == /\ r.tenant \in Tenants /\ r.drift \in Score \cup {None}
                       /\ IsFiniteSet(r.senders) /\ r.newSenders \subseteq r.senders
BeneficiariesTyped == IsFiniteSet(beneficiaries) /\ \A r \in beneficiaries : BeneficiaryTyped(r)

\* compute_beneficiary_snapshots and score_funnel_drift: what a beneficiary's week is
\* compared by.
LEMMA FunnelFeaturesType ==
    ASSUME NEW r, BeneficiaryTyped(r)
    PROVE  /\ DOMAIN FunnelFeatures(r) = 1..2
           /\ \A i \in 1..2 : FunnelFeatures(r)[i] \in Int \cup {None}
<1>1. Cardinality(r.senders) \in Nat /\ Cardinality(r.newSenders) \in Nat
  BY FS_Subset, FS_CardinalityType DEF BeneficiaryTyped
<1>2. r.senders # {} => Cardinality(r.senders) > 0
  BY <1>1, FS_EmptySet DEF BeneficiaryTyped
<1> QED
  BY <1>1, <1>2 DEF FunnelFeatures

\* score_funnel_drift writes the drift of some rows: a score or nothing.
LEMMA FunnelStep ==
    ASSUME NEW scope, ScoreFunnelDrift(scope)
    PROVE  \E drift, rows : /\ rows \in SUBSET beneficiaries
                            /\ BeneficiariesTyped => \A r \in rows : drift[r] \in Score \cup {None}
                            /\ beneficiaries' = Scored(beneficiaries,
                                   Marked(rows, [r \in rows |-> [r EXCEPT !.drift = drift[r]]]))
<1> DEFINE rows == {r \in beneficiaries : Covers(scope, r.tenant)}
           DriftOf(r, order) ==
               LET before == FunnelPrior(r, rows, order)
               IN Drift(FunnelFeatures(r), [q \in before |-> FunnelFeatures(q)])
<1>1. PICK order \in Orders(rows) :
          beneficiaries' = Scored(beneficiaries,
              {[was |-> r, now |-> [r EXCEPT !.drift = DriftOf(r, order)]] : r \in rows})
  BY Zenon DEF ScoreFunnelDrift
<1> DEFINE drift == [r \in rows |-> DriftOf(r, order)]
           f == [r \in rows |-> [r EXCEPT !.drift = drift[r]]]
<1>2. rows \in SUBSET beneficiaries
  OBVIOUS
<1>7. ASSUME BeneficiariesTyped, NEW r \in rows PROVE DriftOf(r, order) \in Score \cup {None}
  <2> DEFINE before == FunnelPrior(r, rows, order)
             D == [q \in before |-> FunnelFeatures(q)]
  <2>1. before \subseteq beneficiaries /\ r \in beneficiaries
    BY <1>2 DEF FunnelPrior
  <2>2. DriftOf(r, order) = Drift(FunnelFeatures(r), D)
    OBVIOUS
  <2> HIDE DEF before, rows, DriftOf
  <2>3. IsFiniteSet(DOMAIN D)
    BY <1>7, <2>1, FS_Subset DEF BeneficiariesTyped
  <2>4. \A q \in DOMAIN D : \A i \in 1..2 : D[q][i] \in Int \cup {None}
    BY <1>7, <2>1, FunnelFeaturesType DEF BeneficiariesTyped
  <2> HIDE DEF D
  <2>5. IsFiniteSet(1..2)
    <3>1. 1 \in Int /\ 2 \in Int
      OBVIOUS
    <3> QED
      BY <3>1, FS_Interval
  <2>6. BeneficiaryTyped(r)
    BY <1>7, <2>1 DEF BeneficiariesTyped
  <2> QED
    BY <2>2, <2>3, <2>4, <2>5, <2>6, FunnelFeaturesType, DriftType
<1> HIDE DEF DriftOf, rows
<1>3. \A r \in rows : drift[r] = DriftOf(r, order)
  OBVIOUS
<1> HIDE DEF drift
<1>4. \A r \in rows : f[r] = [r EXCEPT !.drift = DriftOf(r, order)]
  BY <1>3
<1> HIDE DEF f
<1>5. Marked(rows, f) = {[was |-> r, now |-> [r EXCEPT !.drift = DriftOf(r, order)]] : r \in rows}
  BY <1>4 DEF Marked
<1>6. beneficiaries' = Scored(beneficiaries, Marked(rows, f))
  BY <1>1, <1>5
<1>8. BeneficiariesTyped => \A r \in rows : drift[r] \in Score \cup {None}
  BY <1>3, <1>7
<1> QED
  BY <1>2, <1>6, <1>8, Zenon DEF f

\* score_funnel_drift keeps what the rows say of senders.
LEMMA FunnelKeepsHistory ==
    ASSUME Historical, NEW scope, ScoreFunnelDrift(scope)
    PROVE  Historical'
<1>1. PICK drift, rows :
          /\ rows \in SUBSET beneficiaries
          /\ beneficiaries' = Scored(beneficiaries,
                 Marked(rows, [r \in rows |-> [r EXCEPT !.drift = drift[r]]]))
  BY FunnelStep
<1> DEFINE f == [r \in rows |-> [r EXCEPT !.drift = drift[r]]]
           g == [r \in beneficiaries |-> IF r \in rows THEN f[r] ELSE r]
<1>2. \A r \in beneficiaries : /\ SameEntry(g[r], r) /\ BeneficiaryShaped(g[r])
                               /\ g[r].tenant = r.tenant /\ g[r].key = r.key
  BY DEF Historical, BeneficiaryShaped, SameEntry
<1>3. \A x : x \in beneficiaries' <=> \E r \in beneficiaries : x = g[r]
  <2>1. \A r \in beneficiaries : g[r] = IF r \in rows THEN f[r] ELSE r
    OBVIOUS
  <2>2. beneficiaries' = Scored(beneficiaries, Marked(rows, f))
    BY <1>1
  <2> HIDE DEF f, g
  <2>3. \A x : x \in beneficiaries' <=> \E r \in beneficiaries : x = IF r \in rows THEN f[r] ELSE r
    BY <1>1, <2>2, ScoredIs
  <2> QED
    BY <2>1, <2>3
<1> HIDE DEF g
<1>4. ASSUME NEW b PROVE Chronicle(KeyRows(b)')
  <2> DEFINE A == KeyRows(b)
             B == KeyRows(b)'
  <2>1. A = {r \in beneficiaries : [tenant |-> r.tenant, key |-> r.key] = b}
    BY DEF KeyRows
  <2>2. B = {r \in beneficiaries' : [tenant |-> r.tenant, key |-> r.key] = b}
    BY DEF KeyRows
  <2>3. Chronicle(A)
    BY DEF Historical
  <2> HIDE DEF A, B
  <2>4. \A q : q \in B <=> \E r \in A : q = g[r]
    BY <1>2, <1>3, <2>1, <2>2
  <2>5. \A r \in A : r \in beneficiaries /\ SameEntry(g[r], r)
    BY <1>2, <2>1
  <2>6. \A q, p \in B : q.week = p.week => q = p
    <3> SUFFICES ASSUME NEW q \in B, NEW p \in B, q.week = p.week PROVE q = p
      OBVIOUS
    <3>1. PICK r \in A : q = g[r]
      BY <2>4
    <3>2. PICK s \in A : p = g[s]
      BY <2>4
    <3>3. r.week = s.week
      BY <2>5, <3>1, <3>2 DEF SameEntry
    <3> QED
      BY <2>3, <3>1, <3>2, <3>3 DEF Chronicle
  <2>7. \A q \in B : \E r \in A : SameEntry(q, r)
    BY <2>4, <2>5
  <2>8. \A r \in A : \E q \in B : SameEntry(q, r)
    BY <2>4, <2>5
  <2>9. Chronicle(B)
    BY <2>3, <2>6, <2>7, <2>8, SameChronicle
  <2> QED
    BY <2>9 DEF B
<1>5. \A r \in beneficiaries' : BeneficiaryShaped(r)
  BY <1>2, <1>3
<1>6. Historical' <=> /\ \A r \in beneficiaries' : BeneficiaryShaped(r)
                      /\ \A b : Chronicle(KeyRows(b)')
  BY DEF Historical, Chronicle, BeneficiaryShaped
<1> QED
  BY <1>4, <1>5, <1>6

\* Historical says what SendersNewOnce says, for each beneficiary.
LEMMA HistoricalIsOnce == Historical => SendersNewOnce
<1> SUFFICES ASSUME Historical, NEW r \in beneficiaries, NEW s \in r.senders
             PROVE  LET weeks == {q \in beneficiaries : q.tenant = r.tenant /\ q.key = r.key /\ s \in q.senders}
                        first == {q \in weeks : s \in q.newSenders}
                    IN Cardinality(first) = 1 /\ \A q \in first : q.week <= r.week
  BY DEF SendersNewOnce
<1> DEFINE b == [tenant |-> r.tenant, key |-> r.key]
           B == KeyRows(b)
<1>1. Chronicle(B)
  BY DEF Historical
<1>2. \A q : q \in B <=> q \in beneficiaries /\ q.tenant = r.tenant /\ q.key = r.key
  BY DEF KeyRows
<1> HIDE DEF B
<1>3. LET weeks == {q \in B : s \in q.senders}
          first == {q \in weeks : s \in q.newSenders}
      IN Cardinality(first) = 1 /\ \A q \in first : q.week <= r.week
  BY <1>1, <1>2, NewOnce
<1>4. {q \in B : s \in q.senders}
      = {q \in beneficiaries : q.tenant = r.tenant /\ q.key = r.key /\ s \in q.senders}
  BY <1>2
<1> QED
  BY <1>3, <1>4

\* No rebuild and no track breaks what the rows say of senders.
LEMMA HistoricalInv == Spec => []Historical
<1>1. Init => Historical
  BY DEF Init, Historical, KeyRows, Chronicle
<1>2. Linked /\ Historical /\ [Next]_vars => Historical'
  <2> SUFFICES ASSUME Linked, Historical, [Next]_vars PROVE Historical'
    OBVIOUS
  <2>1. CASE \E scope \in Scopes : ComputeBeneficiaries(scope)
    BY <2>1, BeneficiariesKeepHistory
  <2>2. CASE \E scope \in Scopes : ScoreFunnelDrift(scope)
    BY <2>2, FunnelKeepsHistory
  <2>3. CASE UNCHANGED beneficiaries
    BY <2>3 DEF Historical, KeyRows, Chronicle, BeneficiaryShaped
  <2> QED
    BY <2>1, <2>2, <2>3 DEF Next, Rebuild, Arrive, Capture, Resolve, Change, tables, vars,
       ComputeFeatures, ComputeSnapshots, TrainAndScore, ClusterAndScore, ScoreDrift,
       ComputeFinalScore
<1> QED
  BY <1>1, <1>2, LinkedInv, PTL DEF Spec

\* SendersNewOnce, for all worlds: a sender of a beneficiary is new in one week, its first.
THEOREM NewSendersOnce == Spec => []SendersNewOnce
  BY HistoricalInv, HistoricalIsOnce, PTL

-----------------------------------------------------------------------------
(* The shape of the state *)

\* What the columns of a snapshot may be.
SnapshotTyped(r) ==
    /\ r.party \in Parties
    /\ r.iso \in Score \cup {None} /\ r.drift \in Score \cup {None}
    /\ r.changed \in BOOLEAN \cup {None}
    /\ r.band \in Bands \cup {None}
AboutArrived(T) == \A r \in T : r.about \subseteq Arrived

EventsTyped ==
    /\ account \in [Arrived -> Accounts \cup {None}] /\ left \in Nat
    /\ \A r \in features : r.party \in Parties
    /\ AboutArrived(features) /\ AboutArrived(snapshots)
SnapshotsTyped == \A r \in snapshots : SnapshotTyped(r)

\* Events stay: what arrives has no account yet, a later file may fill it in, and no row
\* that a run makes is about anything else.
LEMMA EventsStep ==
    ASSUME Linked, AllShaped, EventsTyped, [Next]_vars
    PROVE  EventsTyped'
<1>1. CASE \E e \in Events : Arrive(e)
  <2>1. PICK e \in Events : Arrive(e)
    BY <1>1
  <2>2. Arrived' = Arrived \cup {e}
    BY <2>1 DEF Arrive, Arrived
  <2>3. account' \in [Arrived' -> Accounts \cup {None}]
    <3>1. account' = [x \in Arrived' |-> IF x = e THEN None ELSE account[x]]
      BY <2>1, <2>2 DEF Arrive
    <3> QED
      BY <2>2, <3>1 DEF EventsTyped
  <2> QED
    BY <2>1, <2>2, <2>3 DEF EventsTyped, AboutArrived, Arrive, Change, tables
<1>2. CASE \E e \in Arrived, a \in Accounts : Capture(e, a)
  <2>1. PICK e \in Arrived, a \in Accounts : Capture(e, a)
    BY <1>2
  <2> QED
    BY <2>1 DEF EventsTyped, AboutArrived, Capture, Change, tables, Arrived
<1>3. CASE \E e \in Arrived, p \in Parties : Resolve(e, p)
  <2>1. PICK e \in Arrived, p \in Parties : Resolve(e, p)
    BY <1>3
  <2>2. Arrived' = Arrived
    BY <2>1 DEF Resolve, Arrived
  <2> QED
    BY <2>1, <2>2 DEF EventsTyped, AboutArrived, Resolve, Change, tables
<1>4. CASE \E scope \in Scopes : ComputeFeatures(scope)
  <2>1. PICK scope \in Scopes : ComputeFeatures(scope)
    BY <1>4
  <2> DEFINE found == Grouped(scope, LAMBDA e : TRUE)
             Row(p) == [party |-> p, tenant |-> PartyTenant[p], about |-> EventsOf(p)]
  <2>2. features' = FeaturesKept(found) \cup {Row(p) : p \in found}
    BY <2>1 DEF ComputeFeatures
  <2>3. \A p \in found : p \in Parties
    BY DEF Grouped
  <2>4. \A p : Row(p).party = p /\ Row(p).about \subseteq Arrived
    BY DEF EventsOf
  <2>5. FeaturesKept(found) \subseteq features
    BY DEF FeaturesKept
  <2> HIDE DEF found, Row
  <2>6. \A r \in features' : r.party \in Parties /\ r.about \subseteq Arrived
    BY <2>2, <2>3, <2>4, <2>5 DEF EventsTyped, AboutArrived
  <2>7. Arrived' = Arrived /\ UNCHANGED <<account, left, snapshots>>
    BY <2>1 DEF ComputeFeatures, Arrived
  <2> QED
    BY <2>6, <2>7 DEF EventsTyped, AboutArrived
<1>5. CASE \E scope \in Scopes : ComputeSnapshots(scope)
  <2>1. PICK scope \in Scopes : ComputeSnapshots(scope)
    BY <1>5
  <2>2. \A r \in snapshots' : r \in snapshots \/ \E p : r \in SnapshotsOf(p, scope)
    BY <2>1 DEF ComputeSnapshots, SnapshotsKept
  <2>3. \A p : \A r \in SnapshotsOf(p, scope) : r.about \subseteq Arrived
    BY MadeRows DEF Snapshot, EventsOf
  <2>4. Arrived' = Arrived /\ UNCHANGED <<account, left, features>>
    BY <2>1 DEF ComputeSnapshots, Arrived
  <2> QED
    BY <2>2, <2>3, <2>4 DEF EventsTyped, AboutArrived
<1>6. CASE /\ UNCHANGED <<link, account, features, left>>
           /\ \E f : /\ snapshots' = {f[r] : r \in snapshots}
                     /\ \A r \in snapshots : Rewrites(f[r], r)
  <2>1. PICK f : /\ snapshots' = {f[r] : r \in snapshots}
                 /\ \A r \in snapshots : Rewrites(f[r], r)
    BY <1>6
  <2>2. AboutArrived(snapshots')
    BY <2>1 DEF Rewrites, EventsTyped, AboutArrived
  <2>3. Arrived' = Arrived
    BY <1>6 DEF Arrived
  <2> QED
    BY <1>6, <2>2, <2>3 DEF EventsTyped, AboutArrived
<1>7. ASSUME NEW scope, TrainAndScore(scope) \/ ClusterAndScore(scope) \/ ScoreDrift(scope)
      PROVE  EventsTyped'
  <2>1. TrackStep
    BY <1>7, TracksStep
  <2>2. UNCHANGED <<link, account, features, left>>
    BY <1>7 DEF TrainAndScore, ClusterAndScore, ScoreDrift
  <2>3. \E f : /\ snapshots' = {f[r] : r \in snapshots}
               /\ \A r \in snapshots : Rewrites(f[r], r)
    BY <2>1 DEF TrackStep
  <2> QED
    BY <1>6, <2>2, <2>3
<1>8. ASSUME NEW scope, ComputeFinalScore(scope) PROVE EventsTyped'
  <2>1. \E f : /\ snapshots' = {f[r] : r \in snapshots}
               /\ \A r \in snapshots : Rewrites(f[r], r) /\ f[r].band \in Bands \cup {r.band}
                                       /\ f[r].iso = r.iso /\ f[r].changed = r.changed
                                       /\ f[r].drift = r.drift
    BY <1>8, FinalRewrites
  <2>2. UNCHANGED <<link, account, features, left>>
    BY <1>8 DEF ComputeFinalScore
  <2> QED
    BY <1>6, <2>1, <2>2
<1>9. CASE UNCHANGED <<link, account, features, snapshots, left>>
  BY <1>9 DEF EventsTyped, AboutArrived, Arrived
<1> QED
  BY <1>1, <1>2, <1>3, <1>4, <1>5, <1>7, <1>8, <1>9
     DEF Next, Rebuild, ComputeBeneficiaries, ScoreFunnelDrift, vars, tables

\* The tracks write scores, labels, drifts and bands, whatever order they run in.
LEMMA SnapshotsStep ==
    ASSUME Linked, AllShaped, SnapshotsTyped, [Next]_vars
    PROVE  SnapshotsTyped'
<1>1. ASSUME NEW scope \in Scopes, ComputeSnapshots(scope) PROVE SnapshotsTyped'
  <2>1. \A r \in snapshots' : r \in snapshots \/ \E p \in Parties : r \in SnapshotsOf(p, scope)
    BY <1>1 DEF ComputeSnapshots, SnapshotsKept, Grouped
  <2>2. \A p \in Parties : \A r \in SnapshotsOf(p, scope) : SnapshotTyped(r)
    BY MadeRows DEF Snapshot, SnapshotTyped
  <2>3. \A r \in snapshots' : SnapshotTyped(r)
    BY <2>1, <2>2 DEF SnapshotsTyped
  <2> QED
    BY <2>3 DEF SnapshotsTyped, SnapshotTyped
<1>2. ASSUME NEW f, snapshots' = {f[r] : r \in snapshots},
             \A r \in snapshots : SnapshotTyped(r) => SnapshotTyped(f[r])
      PROVE  SnapshotsTyped'
  <2>1. \A r \in snapshots' : SnapshotTyped(r)
    BY <1>2 DEF SnapshotsTyped
  <2> QED
    BY <2>1 DEF SnapshotsTyped, SnapshotTyped
<1>3. ASSUME NEW scope \in Scopes,
             TrainAndScore(scope) \/ ClusterAndScore(scope) \/ ScoreDrift(scope)
      PROVE  SnapshotsTyped'
  <2>1. TrackStep
    BY <1>3, TracksStep
  <2>2. PICK f : /\ snapshots' = {f[r] : r \in snapshots}
                 /\ \A r \in snapshots : Rewrites(f[r], r) /\ f[r].band = r.band /\ Learns(f[r], r)
    BY <2>1 DEF TrackStep
  <2>3. \A r \in snapshots : SnapshotTyped(r) => SnapshotTyped(f[r])
    BY <2>2 DEF SnapshotTyped, Rewrites, Learns
  <2> QED
    BY <1>2, <2>2, <2>3
<1>4. ASSUME NEW scope \in Scopes, ComputeFinalScore(scope) PROVE SnapshotsTyped'
  <2>1. PICK f : /\ snapshots' = {f[r] : r \in snapshots}
                 /\ \A r \in snapshots : Rewrites(f[r], r) /\ f[r].band \in Bands \cup {r.band}
                                         /\ f[r].iso = r.iso /\ f[r].changed = r.changed
                                         /\ f[r].drift = r.drift
    BY <1>4, FinalRewrites
  <2>2. \A r \in snapshots : SnapshotTyped(r) => SnapshotTyped(f[r])
    BY <2>1 DEF SnapshotTyped, Rewrites
  <2> QED
    BY <1>2, <2>1, <2>2
<1>5. CASE UNCHANGED snapshots
  BY <1>5 DEF SnapshotsTyped, SnapshotTyped
<1> QED
  BY <1>1, <1>3, <1>4, <1>5 DEF Next, Rebuild, Arrive, Capture, Resolve, Change, tables, vars,
     ComputeFeatures, ComputeBeneficiaries, ScoreFunnelDrift

\* compute_beneficiary_snapshots: finitely many rows, each about finitely many senders.
LEMMA MadeBeneficiaries ==
    ASSUME Linked, NEW scope, NEW b \in KeysFound(scope)
    PROVE  LET rows == BeneficiaryRows(b, PaidTo(scope, b)) IN
           IsFiniteSet(rows) /\ \A r \in rows : BeneficiaryTyped(r)
<1> DEFINE S == PaidTo(scope, b)
           row == [w \in WeeksOf(S) |-> MadeFor(b, S, w)]
           week == [e \in S |-> WeekOf(e)]
<1>1. S \subseteq Events /\ IsFiniteSet(S)
  <2>1. S \subseteq Events
    BY DEF PaidTo, Paying, InScope, Linked
  <2> QED
    BY <2>1, EventsAssumption, FS_Subset
<1>2. b.tenant \in Tenants
  <2>1. PICK e \in Paying(scope) : b = Received(e)
    BY DEF KeysFound
  <2>2. e \in Events
    BY DEF Paying, InScope, Linked
  <2> QED
    BY <2>1, <2>2, FactsAssumption DEF Received
<1> HIDE DEF S
<1>3. IsFiniteSet(WeeksOf(S))
  <2>1. DOMAIN week = S /\ WeeksOf(S) = {week[e] : e \in S}
    BY DEF WeeksOf
  <2> HIDE DEF week
  <2> QED
    BY <1>1, <2>1, FiniteImage
<1>4. BeneficiaryRows(b, S) = {row[w] : w \in WeeksOf(S)} /\ DOMAIN row = WeeksOf(S)
  BY MadeForWeeks
<1>5. IsFiniteSet(BeneficiaryRows(b, S))
  <2> HIDE DEF row
  <2> QED
    BY <1>3, <1>4, FiniteImage
<1>6. ASSUME NEW w PROVE IsFiniteSet(Senders(InWeek(S, w)))
  <2> DEFINE R == InWeek(S, w)
             sender == [e \in R |-> SenderOf(e)]
  <2>1. IsFiniteSet(R)
    BY <1>1, FS_Subset DEF InWeek
  <2> HIDE DEF R
  <2>2. DOMAIN sender = R /\ Senders(R) \subseteq {sender[e] : e \in R}
    BY DEF Senders
  <2> HIDE DEF sender
  <2>3. IsFiniteSet({sender[e] : e \in R})
    BY <2>1, <2>2, FiniteImage
  <2> QED
    BY <2>2, <2>3, FS_Subset DEF R
<1>7. \A r \in BeneficiaryRows(b, S) : BeneficiaryTyped(r)
  <2> SUFFICES ASSUME NEW w \in WeeksOf(S) PROVE BeneficiaryTyped(MadeFor(b, S, w))
    BY MadeForWeeks
  <2> QED
    BY <1>2, <1>6 DEF MadeFor, BeneficiaryTyped
<1> QED
  BY <1>5, <1>7 DEF S

\* compute_beneficiary_snapshots and score_funnel_drift keep the rows finitely many, with
\* scores as their drifts.
LEMMA BeneficiariesStep ==
    ASSUME Linked, Historical, BeneficiariesTyped, [Next]_vars
    PROVE  BeneficiariesTyped'
<1>1. ASSUME NEW scope \in Scopes, ComputeBeneficiaries(scope) PROVE BeneficiariesTyped'
  <2> DEFINE found == KeysFound(scope)
             made == [b \in found |-> BeneficiaryRows(b, PaidTo(scope, b))]
             received == [e \in Paying(scope) |-> Received(e)]
  <2>1. beneficiaries' = BeneficiariesKept(found) \cup UNION {made[b] : b \in found}
    BY <1>1 DEF ComputeBeneficiaries, PaidTo, KeysFound
  <2>2. IsFiniteSet(found)
    <3>1. Paying(scope) \subseteq Events
      BY DEF Paying, InScope, Linked
    <3>2. IsFiniteSet(Paying(scope))
      BY <3>1, EventsAssumption, FS_Subset
    <3>3. DOMAIN received = Paying(scope) /\ found = {received[e] : e \in Paying(scope)}
      BY DEF KeysFound
    <3> HIDE DEF received, found
    <3> QED
      BY <3>2, <3>3, FiniteImage
  <2>3. \A b \in found : IsFiniteSet(made[b]) /\ \A r \in made[b] : BeneficiaryTyped(r)
    BY MadeBeneficiaries
  <2>4. DOMAIN made = found
    OBVIOUS
  <2>5. IsFiniteSet(BeneficiariesKept(found)) /\ BeneficiariesKept(found) \subseteq beneficiaries
    <3>1. BeneficiariesKept(found) \subseteq beneficiaries
      BY DEF BeneficiariesKept
    <3> QED
      BY <3>1, FS_Subset DEF BeneficiariesTyped
  <2> HIDE DEF made, found
  <2>6. IsFiniteSet(UNION {made[b] : b \in found})
    <3>1. IsFiniteSet({made[b] : b \in found})
      BY <2>2, <2>4, FiniteImage
    <3>2. \A T \in {made[b] : b \in found} : IsFiniteSet(T)
      BY <2>3
    <3> QED
      BY <3>1, <3>2, FS_UNION
  <2>7. IsFiniteSet(beneficiaries')
    BY <2>1, <2>5, <2>6, FS_Union
  <2>8. \A r \in beneficiaries' : BeneficiaryTyped(r)
    BY <2>1, <2>3, <2>5 DEF BeneficiariesTyped
  <2> QED
    BY <2>7, <2>8 DEF BeneficiariesTyped, BeneficiaryTyped, Score
<1>2. ASSUME NEW scope \in Scopes, ScoreFunnelDrift(scope) PROVE BeneficiariesTyped'
  <2>1. PICK drift, rows :
            /\ rows \in SUBSET beneficiaries
            /\ BeneficiariesTyped => \A r \in rows : drift[r] \in Score \cup {None}
            /\ beneficiaries' = Scored(beneficiaries,
                   Marked(rows, [r \in rows |-> [r EXCEPT !.drift = drift[r]]]))
    BY <1>2, FunnelStep
  <2> DEFINE f == [r \in rows |-> [r EXCEPT !.drift = drift[r]]]
             g == [r \in beneficiaries |-> IF r \in rows THEN f[r] ELSE r]
  <2>2. \A r \in beneficiaries : BeneficiaryTyped(g[r])
    BY <2>1 DEF BeneficiariesTyped, BeneficiaryTyped, Historical, BeneficiaryShaped
  <2>3. beneficiaries' = {g[r] : r \in beneficiaries} /\ DOMAIN g = beneficiaries
    <3>1. \A r \in beneficiaries : g[r] = IF r \in rows THEN f[r] ELSE r
      OBVIOUS
    <3>2. beneficiaries' = Scored(beneficiaries, Marked(rows, f)) /\ DOMAIN g = beneficiaries
      BY <2>1
    <3> HIDE DEF f, g
    <3>3. \A x : x \in beneficiaries' <=> \E r \in beneficiaries : x = IF r \in rows THEN f[r] ELSE r
      BY <2>1, <3>2, ScoredIs
    <3> QED
      BY <3>1, <3>2, <3>3
  <2> HIDE DEF g
  <2>4. IsFiniteSet(beneficiaries')
    BY <2>3, FiniteImage DEF BeneficiariesTyped
  <2>5. \A r \in beneficiaries' : BeneficiaryTyped(r)
    BY <2>2, <2>3
  <2> QED
    BY <2>4, <2>5 DEF BeneficiariesTyped, BeneficiaryTyped, Score
<1>3. CASE UNCHANGED beneficiaries
  BY <1>3 DEF BeneficiariesTyped, BeneficiaryTyped, Score
<1> QED
  BY <1>1, <1>2, <1>3 DEF Next, Rebuild, Arrive, Capture, Resolve, Change, tables, vars,
     ComputeFeatures, ComputeSnapshots, TrainAndScore, ClusterAndScore, ScoreDrift,
     ComputeFinalScore

\* TypeOK for all worlds.  The scores are what it is about: no sequence of rows, however many
\* values in it are missing or alike, makes _score_sequence leave 0 to 100 or divide by 0.
THEOREM TypeCorrect == Spec => []TypeOK
<1>1. Init => EventsTyped /\ SnapshotsTyped /\ BeneficiariesTyped
  <2> SUFFICES ASSUME Init PROVE EventsTyped /\ SnapshotsTyped /\ BeneficiariesTyped
    OBVIOUS
  <2>1. account \in [Arrived -> Accounts \cup {None}] /\ left \in Nat
    BY WorldAssumption DEF Init, Arrived
  <2> QED
    BY <2>1, FS_EmptySet DEF Init, EventsTyped, AboutArrived, SnapshotsTyped, BeneficiariesTyped
<1>2. Linked /\ AllShaped /\ Historical
      /\ (EventsTyped /\ SnapshotsTyped /\ BeneficiariesTyped) /\ [Next]_vars
      => (EventsTyped /\ SnapshotsTyped /\ BeneficiariesTyped)'
  BY EventsStep, SnapshotsStep, BeneficiariesStep
<1>3. Linked /\ EventsTyped /\ SnapshotsTyped /\ BeneficiariesTyped => TypeOK
  BY DEF Linked, EventsTyped, AboutArrived, SnapshotsTyped, SnapshotTyped, BeneficiariesTyped,
         BeneficiaryTyped, TypeOK
<1> QED
  BY <1>1, <1>2, <1>3, LinkedInv, ShapedInv, HistoricalInv, PTL DEF Spec
===============================================================================
