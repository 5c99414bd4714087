------------------------------ MODULE ViewsProofs ------------------------------
(***************************************************************************)
(* The views agree, for any histories, rows of claims, ranges of dates,    *)
(* merges, reviews and orders of runs: the four invariants of CaseViews.   *)
(*                                                                         *)
(* Of the constants only the types of the columns are assumed and the keys *)
(* of the tables (Claims).  Two invariants carry the proof: TablesInv,     *)
(* what the tables keep under merges and detector runs, and CasesInv, that *)
(* until a claim or an event changes there is one case for every cluster.  *)
(* The rest is counting: each view counts or sums up by a field of its     *)
(* own, and CountedBy and SummedBy say that this loses nothing.            *)
(***************************************************************************)
EXTENDS CaseViews, FiniteFacts, SequenceTheorems

-----------------------------------------------------------------------------
(* The folds of the views are sums *)

\* A total of counts is their sum.
LEMMA CountIs == \A c : CountOf(c) = SumFunctionOnSet(c, DOMAIN c)
  BY DEF CountOf, FoldFunction, FoldFunctionOnSet, SumFunctionOnSet

\* So is a total over some of the keys.
LEMMA SumIsOn == \A c, S : Sum(c, S) = SumFunctionOnSet(c, S \cap DOMAIN c)
  BY DEF Sum, FoldFunctionOnSet, SumFunctionOnSet

\* The folds over sets of events and claims, of snapshots and of breaks are sums.
LEMMA AmountsAre ==
    ASSUME NEW S, IsFiniteSet(S), NEW a, \A x \in S : a[x] = Amount(x)
    PROVE  SumAmounts(S) = SumFunctionOnSet(a, S)
<1> DEFINE IsFold(F) == F = [s \in SUBSET S |-> IF s = {} THEN 0
                                               ELSE Amount(Pick(s)) + F[s \ {Pick(s)}]]
           G == CHOOSE F : IsFold(F)
<1>1. \A F : IsFold(F) <=> IsSum(a, S, F)
  <2>1. \A s \in SUBSET S : s # {} => Amount(Pick(s)) = a[Pick(s)]
    BY PickIn
  <2> QED
    BY <2>1 DEF IsSum
<1>2. SumAmounts(S) = G[S]
  BY DEF SumAmounts, MapThenSumSet, MapThenFoldSet, Pick
<1>3. \E F : IsFold(F)
  BY <1>1, IterExists
<1> HIDE DEF IsFold
<1>4. IsFold(G)
  BY <1>3
<1> HIDE DEF G
<1> QED
  BY <1>1, <1>2, <1>4, SumIs

\* The same of the totals of snapshots.
LEMMA TotalsAre ==
    ASSUME NEW S, IsFiniteSet(S), NEW a, \A x \in S : a[x] = SnapshotTotal(x)
    PROVE  SumTotals(S) = SumFunctionOnSet(a, S)
<1> DEFINE IsFold(F) == F = [s \in SUBSET S |-> IF s = {} THEN 0
                                               ELSE SnapshotTotal(Pick(s)) + F[s \ {Pick(s)}]]
           G == CHOOSE F : IsFold(F)
<1>1. \A F : IsFold(F) <=> IsSum(a, S, F)
  <2>1. \A s \in SUBSET S : s # {} => SnapshotTotal(Pick(s)) = a[Pick(s)]
    BY PickIn
  <2> QED
    BY <2>1 DEF IsSum
<1>2. SumTotals(S) = G[S]
  BY DEF SumTotals, MapThenSumSet, MapThenFoldSet, Pick
<1>3. \E F : IsFold(F)
  BY <1>1, IterExists
<1> HIDE DEF IsFold
<1>4. IsFold(G)
  BY <1>3
<1> HIDE DEF G
<1> QED
  BY <1>1, <1>2, <1>4, SumIs

\* The same of the variances of breaks.
LEMMA VariancesAre ==
    ASSUME NEW S, IsFiniteSet(S), NEW a, \A x \in S : a[x] = Variance(x)
    PROVE  SumVariances(S) = SumFunctionOnSet(a, S)
<1> DEFINE IsFold(F) == F = [s \in SUBSET S |-> IF s = {} THEN 0
                                               ELSE Variance(Pick(s)) + F[s \ {Pick(s)}]]
           G == CHOOSE F : IsFold(F)
<1>1. \A F : IsFold(F) <=> IsSum(a, S, F)
  <2>1. \A s \in SUBSET S : s # {} => Variance(Pick(s)) = a[Pick(s)]
    BY PickIn
  <2> QED
    BY <2>1 DEF IsSum
<1>2. SumVariances(S) = G[S]
  BY DEF SumVariances, MapThenSumSet, MapThenFoldSet, Pick
<1>3. \E F : IsFold(F)
  BY <1>1, IterExists
<1> HIDE DEF IsFold
<1>4. IsFold(G)
  BY <1>3
<1> HIDE DEF G
<1> QED
  BY <1>1, <1>2, <1>4, SumIs

\* c counts the elements of S by their values of f; or it sums up their amounts.
CountsBy(c, f, S) ==
    /\ DOMAIN c = {f[x] : x \in S}
    /\ \A v \in DOMAIN c : c[v] = Cardinality({x \in S : f[x] = v})
SumsBy(c, f, S) ==
    /\ DOMAIN c = {f[x] : x \in S}
    /\ \A v \in DOMAIN c : c[v] = SumAmounts({x \in S : f[x] = v})

\* What is counted by some field is all that is counted.
LEMMA CountedBy ==
    ASSUME NEW S, IsFiniteSet(S), NEW f, DOMAIN f = S, NEW c, CountsBy(c, f, S)
    PROVE  CountOf(c) = Cardinality(S)
<1> DEFINE K == DOMAIN c
<1>1. IsFiniteSet(K)
  BY FiniteImage DEF CountsBy
<1>2. Keyed(S, f, K)
  BY DEF Keyed, CountsBy
<1>3. Counts(c, K, f, S)
  <2> SUFFICES ASSUME NEW k \in K PROVE c[k] = Cardinality(With(S, f, {k}))
    BY DEF Counts
  <2>1. With(S, f, {k}) = {x \in S : f[x] = k}
    BY DEF With
  <2> QED
    BY <2>1 DEF CountsBy
<1> HIDE DEF K
<1>4. SumFunctionOnSet(c, K) = Cardinality(S)
  BY <1>1, <1>2, <1>3, CountByKey
<1> QED
  BY <1>4, CountIs DEF K

\* Amounts are whole.
Priced(S) == \A x \in S : x.amount \in Amounts

\* A sum of amounts is one of a function, and no amount is negative.
LEMMA PricedSum ==
    ASSUME NEW S, IsFiniteSet(S), Priced(S), NEW a, a = [x \in S |-> Amount(x)]
    PROVE  /\ \A s \in SUBSET S : SumAmounts(s) = SumFunctionOnSet(a, s) /\ SumAmounts(s) \in Nat
           /\ \A x \in S : a[x] \in Nat
           /\ Whole(a, S)
<1>1. \A x \in S : a[x] = Amount(x) /\ a[x] \in Nat
  BY DEF Priced, Amounts, Amount, OrZero
<1>2. ASSUME NEW s \in SUBSET S
      PROVE  SumAmounts(s) = SumFunctionOnSet(a, s) /\ SumAmounts(s) \in Nat
  <2>1. IsFiniteSet(s) /\ \A x \in s : a[x] = Amount(x) /\ a[x] \in Nat
    BY <1>1, FS_Subset
  <2>2. SumAmounts(s) = SumFunctionOnSet(a, s)
    BY <2>1, AmountsAre
  <2>3. SumFunctionOnSet(a, s) \in Nat
    BY <2>1, SumNat
  <2> QED
    BY <2>2, <2>3
<1> QED
  BY <1>1, <1>2 DEF Whole

\* What is summed up by some field is all that is summed up.
LEMMA SummedBy ==
    ASSUME NEW S, IsFiniteSet(S), Priced(S), NEW f, DOMAIN f = S, NEW c, SumsBy(c, f, S)
    PROVE  CountOf(c) = SumAmounts(S)
<1> DEFINE K == DOMAIN c
           a == [x \in S |-> Amount(x)]
<1>1. IsFiniteSet(K)
  BY FiniteImage DEF SumsBy
<1>2. Keyed(S, f, K)
  BY DEF Keyed, SumsBy
<1>3. /\ \A s \in SUBSET S : SumAmounts(s) = SumFunctionOnSet(a, s)
      /\ Whole(a, S)
  BY PricedSum
<1> HIDE DEF a
<1>4. Shares(c, K, f, a, S)
  <2> SUFFICES ASSUME NEW k \in K PROVE c[k] = SumFunctionOnSet(a, With(S, f, {k}))
    BY DEF Shares
  <2>1. With(S, f, {k}) = {x \in S : f[x] = k} /\ With(S, f, {k}) \in SUBSET S
    BY DEF With
  <2> QED
    BY <1>3, <2>1 DEF SumsBy
<1> HIDE DEF K
<1>5. SumFunctionOnSet(c, K) = SumFunctionOnSet(a, S)
  BY <1>1, <1>2, <1>3, <1>4, SumByKey
<1> QED
  BY <1>3, <1>5, CountIs DEF K

\* Two sets that share nothing, and a part of a set, in sums of amounts.
LEMMA SplitSum ==
    ASSUME NEW A, NEW B, IsFiniteSet(A), IsFiniteSet(B), Priced(A \cup B), A \cap B = {}
    PROVE  SumAmounts(A \cup B) = SumAmounts(A) + SumAmounts(B)
<1> DEFINE S == A \cup B
           a == [x \in S |-> Amount(x)]
<1>1. IsFiniteSet(S)
  BY FS_Union
<1>2. /\ \A s \in SUBSET S : SumAmounts(s) = SumFunctionOnSet(a, s)
      /\ Whole(a, S)
  BY <1>1, PricedSum
<1> HIDE DEF a
<1>3. SumFunctionOnSet(a, A \cup B) = SumFunctionOnSet(a, A) + SumFunctionOnSet(a, B)
  BY <1>2, SumUnion
<1> QED
  BY <1>2, <1>3

\* A part sums up to no more than all.
LEMMA PartSum ==
    ASSUME NEW S, IsFiniteSet(S), Priced(S), NEW s \in SUBSET S
    PROVE  SumAmounts(s) <= SumAmounts(S) /\ SumAmounts(s) \in Nat
<1> DEFINE a == [x \in S |-> Amount(x)]
<1>1. /\ \A t \in SUBSET S : SumAmounts(t) = SumFunctionOnSet(a, t) /\ SumAmounts(t) \in Nat
      /\ \A x \in S : a[x] \in Nat
  BY PricedSum
<1> HIDE DEF a
<1>2. SumFunctionOnSet(a, s) <= SumFunctionOnSet(a, S)
  BY <1>1, SumSubset
<1> QED
  BY <1>1, <1>2

-----------------------------------------------------------------------------
(* The tables *)

\* What every step keeps of the events and of the claims.
Stored ==
    /\ events \in Seq(EventRows)
    /\ \A k \in DOMAIN events : events[k].rail # None
    /\ \A j, k \in DOMAIN events :
          events[j].rail = events[k].rail /\ events[j].txn = events[k].txn => j = k
Listed ==
    /\ issues \subseteq IssueRows
    /\ breaks \subseteq BreakRows /\ \A b \in breaks : EventOf(b) # None
    /\ snapshots = SnapshotRows /\ beneficiaries = BeneficiaryRows

\* The least of a set of places.
LEMMA MinIn ==
    ASSUME NEW S \in SUBSET Nat, S # {}
    PROVE  Min(S) \in S /\ \A y \in S : Min(S) <= y
  BY LeastExists DEF Min

\* The places of a sequence of events, and what is there.
LEMMA PlacesAre ==
    ASSUME NEW es \in Seq(EventRows)
    PROVE  /\ DOMAIN es \in SUBSET Nat /\ DOMAIN es = 1..Len(es) /\ Len(es) \in Nat
           /\ \A k \in DOMAIN es : es[k] \in EventRows
  BY LenProperties, ElementOfSeq

\* A row of canonical_events is one, and its columns have their types.
LEMMA RowIs ==
    ASSUME NEW e \in EventRows
    PROVE  e # None /\ e.amount \in Amounts /\ e.at \in Dates \cup Garbled
  BY NoneAssumption DEF EventRows

\* upsert_canonical_event leaves a row.
LEMMA MergedIs ==
    ASSUME NEW row \in EventRows, NEW e \in EventRows,
           NEW f, f = [c \in DOMAIN row |-> IF row[c] # None THEN row[c] ELSE e[c]]
    PROVE  /\ f \in EventRows
           /\ f.rail = IF row.rail # None THEN row.rail ELSE e.rail
           /\ f.txn = IF row.txn # None THEN row.txn ELSE e.txn
  BY DEF EventRows

\* Whatever is merged and detected again, an event has one row with a rail, a claim is one of
\* those the tables may hold, and the event of a break stays.
THEOREM TablesInv == Spec => [](Stored /\ Listed)
<1>1. Init => Stored /\ Listed
  <2> SUFFICES ASSUME TablesInit PROVE Stored /\ Listed
    BY DEF Init
  <2>1. events \in Histories
    BY DEF TablesInit
  <2>2. \A k \in DOMAIN events : events[k] \in Rows
    BY <2>1 DEF Rows, ToSet
  <2>3. Stored
    BY <2>1, <2>2, EventAssumption DEF Stored
  <2>4. Listed
    BY DEF Listed, TablesInit, FoundIssues, FoundBreaks
  <2> QED
    BY <2>3, <2>4
<1>2. Stored /\ Listed /\ [Next]_vars => (Stored /\ Listed)'
  <2> SUFFICES ASSUME Stored, Listed, [Next]_vars
               PROVE  (Stored /\ Listed)'
    OBVIOUS
  <2>1. ASSUME NEW row \in Merges, Merge(row) PROVE (Stored /\ Listed)'
    <3>1. PICK i \in DOMAIN events :
              /\ events[i].rail = row.rail /\ events[i].txn = row.txn
              /\ events' = [events EXCEPT ![i] =
                    [c \in DOMAIN row |-> IF row[c] # None THEN row[c] ELSE events[i][c]]]
      BY <2>1 DEF Merge
    <3> DEFINE f == [c \in DOMAIN row |-> IF row[c] # None THEN row[c] ELSE events[i][c]]
    <3>2. /\ row \in EventRows /\ events[i] \in EventRows
          /\ DOMAIN events \in SUBSET Nat /\ DOMAIN events = 1..Len(events) /\ Len(events) \in Nat
          /\ \A k \in DOMAIN events : events[k] \in EventRows
      BY EventAssumption, PlacesAre DEF Stored
    <3>3. f \in EventRows /\ f.rail = events[i].rail /\ f.txn = events[i].txn
      BY <3>1, <3>2, MergedIs
    <3>4. events' = [events EXCEPT ![i] = f]
      BY <3>1
    <3> HIDE DEF f
    <3>5. /\ events' \in Seq(EventRows) /\ DOMAIN events' = DOMAIN events
          /\ \A k \in DOMAIN events : events'[k] = IF k = i THEN f ELSE events[k]
      BY <3>2, <3>3, <3>4, ExceptSeq DEF Stored
    <3>6. \A k \in DOMAIN events : /\ events'[k].rail = events[k].rail
                                   /\ events'[k].txn = events[k].txn
      BY <3>3, <3>5
    <3>7. Stored'
      BY <3>5, <3>6 DEF Stored
    <3>8. ASSUME NEW b \in breaks PROVE EventOf(b)' # None
      <4> DEFINE S == {k \in DOMAIN events : events[k].rail = b.rail /\ events[k].txn = b.txn}
      <4>1. S # {}
        BY DEF Listed, EventOf, ByRailTxn, First
      <4>2. Min(S) \in S
        BY <3>2, <4>1, MinIn
      <4>3. {k \in DOMAIN events' : events'[k].rail = b.rail /\ events'[k].txn = b.txn} = S
        BY <3>5, <3>6
      <4>4. EventOf(b)' = events'[Min(S)]
        BY <4>1, <4>3 DEF EventOf, ByRailTxn, First
      <4>5. events'[Min(S)] \in EventRows
        BY <3>2, <3>3, <3>5, <4>2
      <4> QED
        BY <4>4, <4>5, RowIs
    <3>9. Listed'
      BY <2>1, <3>8 DEF Listed, Merge
    <3> QED
      BY <3>7, <3>9
  <2>2. CASE Detect
    BY <2>2 DEF Detect, Stored, Listed, FoundIssues, FoundBreaks, EventOf, ByRailTxn, First
  <2>3. CASE UNCHANGED <<events, issues, breaks, snapshots, beneficiaries>>
    BY <2>3 DEF Stored, Listed, EventOf, ByRailTxn, First
  <2> QED
    BY <2>1, <2>2, <2>3 DEF Next, vars, tables, SetReview, ComputeCases, Validate, ComputeHealth
<1> QED
  BY <1>1, <1>2, PTL DEF Spec

-----------------------------------------------------------------------------
(* Lookups, dates and ranges *)

\* The sets of rows the views read are finite.
LEMMA TablesFinite ==
    ASSUME Stored, Listed
    PROVE  /\ IsFiniteSet(ToSet(events)) /\ IsFiniteSet(DOMAIN events)
           /\ IsFiniteSet(issues) /\ IsFiniteSet(breaks)
           /\ IsFiniteSet(snapshots) /\ IsFiniteSet(beneficiaries)
<1>1. DOMAIN events = 1..Len(events) /\ Len(events) \in Nat
  BY PlacesAre DEF Stored
<1>2. IsFiniteSet(DOMAIN events)
  BY <1>1, FS_Interval
<1>3. IsFiniteSet(ToSet(events))
  BY <1>2, FiniteImage DEF ToSet
<1>4. /\ IsFiniteSet(IssueRows) /\ IsFiniteSet(BreakRows)
      /\ IsFiniteSet(SnapshotRows) /\ IsFiniteSet(BeneficiaryRows)
  BY RowAssumption
<1> QED
  BY <1>2, <1>3, <1>4, FS_Subset DEF Listed

\* The events have their types, a rail, and each its key.
LEMMA EventsAre ==
    ASSUME Stored
    PROVE  /\ \A e \in ToSet(events) : /\ e \in EventRows /\ e # None /\ e.rail # None
                                       /\ e.amount \in Amounts /\ e.at \in Dates \cup Garbled
           /\ \A e, f \in ToSet(events) : e.rail = f.rail /\ e.txn = f.txn => e = f
  BY PlacesAre, RowIs DEF Stored, ToSet

\* The first of some places is the event at one of them.
LEMMA FirstIs ==
    ASSUME Stored, NEW S \in SUBSET DOMAIN events
    PROVE  /\ First(S) = None <=> S = {}
           /\ S # {} => First(S) \in EventsAt(S)
           /\ EventsAt(S) \subseteq ToSet(events)
<1>1. DOMAIN events \in SUBSET Nat /\ \A k \in DOMAIN events : events[k] \in EventRows
  BY PlacesAre DEF Stored
<1>2. S # {} => Min(S) \in S
  BY <1>1, MinIn
<1>3. \A k \in DOMAIN events : events[k] # None
  BY <1>1, RowIs
<1> QED
  BY <1>2, <1>3 DEF First, EventsAt, ToSet

\* The event of a break is stored, and it has the break's key.
LEMMA BreakEvent ==
    ASSUME Stored, Listed, NEW b \in breaks
    PROVE  EventOf(b) \in ToSet(events) /\ EventOf(b).rail = b.rail /\ EventOf(b).txn = b.txn
<1> DEFINE S == {k \in DOMAIN events : events[k].rail = b.rail /\ events[k].txn = b.txn}
<1>1. EventOf(b) = First(S) /\ EventOf(b) # None
  BY DEF EventOf, ByRailTxn, Listed
<1>2. First(S) \in EventsAt(S) /\ EventsAt(S) \subseteq ToSet(events)
  BY <1>1, FirstIs
<1> QED
  BY <1>1, <1>2 DEF EventsAt

\* What an issue refers to is stored.
LEMMA IssueEvents ==
    ASSUME Stored, Listed, NEW i \in issues
    PROVE  /\ EventsOf(i) \in SUBSET DOMAIN events
           /\ EventsAt(EventsOf(i)) \subseteq ToSet(events)
           /\ First(EventsOf(i)) = None <=> EventsOf(i) = {}
           /\ First(EventsOf(i)) # None => First(EventsOf(i)) \in EventsAt(EventsOf(i))
           /\ i.type \in PartyIssues => First(EventsOf(i)) = None
<1>1. i.type \in TransactionIssues \cup BatchIssues \cup PartyIssues
  BY ClaimAssumption DEF Listed
<1>2. EventsOf(i) \in SUBSET DOMAIN events
  BY <1>1 DEF EventsOf, AllByTxn, AllByBatch
<1>3. i.type \in PartyIssues => EventsOf(i) = {}
  BY DEF EventsOf, PartyIssues, TransactionIssues, BatchIssues
<1> QED
  BY <1>2, <1>3, FirstIs

\* Every date is a day or unknown.
LEMMA ParsedIs ==
    ASSUME NEW e, e = None \/ e.at \in Dates \cup Garbled
    PROVE  ParseOccurred(e) \in Dates
  BY DEF ParseOccurred, Dates

\* The date of every claim is a day or unknown.
LEMMA DatesAre ==
    ASSUME Stored, Listed
    PROVE  /\ \A i \in issues : /\ OperationalIssueDate(i) \in Dates
                                /\ ParseOccurred(First(EventsOf(i))) \in Dates
                                /\ i.type \notin PartyIssues
                                     => OperationalIssueDate(i) = ParseOccurred(First(EventsOf(i)))
           /\ \A b \in breaks : ReconciliationBreakDate(b) \in Dates
           /\ \A s \in snapshots : s.end \in Dates
           /\ \A b \in beneficiaries : b.end \in Dates
<1>1. ASSUME NEW i \in issues
      PROVE  ParseOccurred(First(EventsOf(i))) \in Dates
  BY IssueEvents, EventsAre, ParsedIs
<1>2. ASSUME NEW b \in breaks
      PROVE  ReconciliationBreakDate(b) \in Dates
  BY BreakEvent, EventsAre, ParsedIs DEF ReconciliationBreakDate
<1> QED
  BY <1>1, <1>2, ClaimAssumption DEF Listed, OperationalIssueDate

\* The checks of a date in the database and in Python agree.
LEMMA RangesAgree ==
    ASSUME NEW w \in Windows
    PROVE  /\ \A day \in Dates : EndInRange(day, w) <=> DateInRange(day, w)
           /\ \A e \in EventRows : DateInRange(ParseOccurred(e), w) => TextInRange(e.at, w)
<1>1. w.from \in Dates /\ w.to \in Dates
  BY WindowAssumption
<1>2. None \notin Int /\ Garbled \cap Int = {}
  BY NoneAssumption
<1>3. ASSUME NEW day \in Dates PROVE EndInRange(day, w) <=> DateInRange(day, w)
  BY <1>1, <1>2 DEF EndInRange, DateInRange, NextDay, Dates
<1>4. ASSUME NEW e \in EventRows, DateInRange(ParseOccurred(e), w) PROVE TextInRange(e.at, w)
  <2>1. e # None /\ e.at \in Dates \cup Garbled
    BY RowIs
  <2>2. CASE Unbounded(w)
    BY <2>2 DEF TextInRange
  <2>3. CASE ~Unbounded(w)
    <3>1. ParseOccurred(e) # None /\ ParseOccurred(e) = e.at /\ e.at \notin Garbled
      BY <1>4, <2>1, <2>3 DEF DateInRange, ParseOccurred
    <3>2. e.at \in Int
      BY <2>1, <3>1 DEF Dates
    <3> QED
      BY <1>1, <1>2, <1>4, <2>3, <3>1, <3>2 DEF DateInRange, TextInRange, NextDay, Dates, Garbled
  <2> QED
    BY <2>2, <2>3
<1> QED
  BY <1>3, <1>4

\* The event of a claim in a range is in it as well.
LEMMA EventInRange ==
    ASSUME Stored, Listed, NEW w \in Windows
    PROVE  /\ \A b \in BreaksIn(w) : EventOf(b) \in EventsIn(w)
           /\ \A e \in ToSet(events) : DateInRange(ParseOccurred(e), w) => e \in EventsIn(w)
<1>1. \A e \in ToSet(events) : DateInRange(ParseOccurred(e), w) => e \in EventsIn(w)
  BY EventsAre, RangesAgree DEF EventsIn
<1> QED
  BY <1>1, BreakEvent DEF BreaksIn, ReconciliationBreakDate

-----------------------------------------------------------------------------
(* Rates *)

\* What is not below 0.
LEMMA MaxIs == \A n \in Int : Max({0, n}) = IF n >= 0 THEN n ELSE 0
<1> SUFFICES ASSUME NEW n \in Int PROVE Max({0, n}) = IF n >= 0 THEN n ELSE 0
  OBVIOUS
<1>1. \E x \in {0, n} : \A y \in {0, n} : x >= y
  OBVIOUS
<1>2. Max({0, n}) \in {0, n} /\ \A y \in {0, n} : Max({0, n}) >= y
  BY <1>1 DEF Max
<1> QED
  BY <1>2

\* A part of a whole is no more than 100 % of it.
LEMMA PartOfWhole ==
    ASSUME NEW part \in Nat, NEW whole \in Nat, part <= whole, whole # 0
    PROVE  (100 * part) \div whole \in 0..100
<1> DEFINE q == (100 * part) \div whole
<1>1. q \in Int /\ whole * q <= 100 * part /\ 100 * part < whole * q + whole
  OBVIOUS
<1> HIDE DEF q
<1>2. q >= 0
  <2> SUFFICES ASSUME q <= -1 PROVE FALSE
    BY <1>1
  <2>1. whole * q <= whole * (-1)
    BY <1>1
  <2> QED
    BY <1>1, <2>1
<1>3. q <= 100
  <2> SUFFICES ASSUME q >= 101 PROVE FALSE
    BY <1>1
  <2>1. whole * q >= whole * 101
    BY <1>1
  <2> QED
    BY <1>1, <2>1
<1> QED
  BY <1>1, <1>2, <1>3 DEF q

Occurred(r, t, w) == \E e \in EventsIn(w) : e.rail = r /\ e.txn = t

\* Of what is flagged on a rail, the event is one of the range.
LEMMA FlaggedAre ==
    ASSUME Stored, Listed, NEW w \in Windows, NEW r, NEW t \in Flagged(r, w)
    PROVE  /\ <<r, t>> \in Touched(w)
           /\ Occurred(r, t, w)
<1>1. CASE \E i \in TransactionIssueRows :
               LET e == First(EventsOf(i)) IN
               e # None /\ DateInRange(ParseOccurred(e), w) /\ e.rail = r /\ e.txn = t
  <2>1. PICK i \in TransactionIssueRows :
               LET e == First(EventsOf(i)) IN
               e # None /\ DateInRange(ParseOccurred(e), w) /\ e.rail = r /\ e.txn = t
    BY <1>1
  <2> DEFINE e == First(EventsOf(i))
  <2>2. i \in issues /\ e \in ToSet(events)
    BY <2>1, IssueEvents DEF TransactionIssueRows
  <2>3. e \in EventsIn(w)
    BY <2>1, <2>2, EventInRange
  <2>4. e \in TouchedBy(i)
    BY <2>1 DEF TouchedBy, TransactionIssueRows
  <2> HIDE DEF e
  <2>5. Key(e) \in Referenced /\ Key(e) = <<r, t>>
    BY <2>1, <2>2, <2>4 DEF Referenced, Key, e
  <2> QED
    BY <2>1, <2>3, <2>5 DEF Touched, Occurred, e
<1>2. CASE \E b \in BreaksIn(w) : b.rail = r /\ b.txn = t
  <2>1. PICK b \in BreaksIn(w) : b.rail = r /\ b.txn = t
    BY <1>2
  <2>2. b \in breaks
    BY DEF BreaksIn
  <2>3. EventOf(b) \in EventsIn(w) /\ EventOf(b).rail = r /\ EventOf(b).txn = t
    BY <2>1, <2>2, BreakEvent, EventInRange
  <2>4. Key(b) \in Referenced /\ Key(b) = <<r, t>> /\ Key(EventOf(b)) = <<r, t>>
    BY <2>1, <2>2, <2>3 DEF Referenced, Key
  <2> QED
    BY <2>3, <2>4 DEF Touched, Occurred
<1> QED
  BY <1>1, <1>2 DEF Flagged, FlaggedEvents

\* A view touches no more payments than there are.
LEMMA TouchedFewer ==
    ASSUME Stored, Listed, NEW w \in Windows
    PROVE  /\ Cardinality(Touched(w)) <= Cardinality(EventsIn(w))
           /\ IsFiniteSet(Touched(w)) /\ IsFiniteSet(EventsIn(w))
<1> DEFINE f == [e \in EventsIn(w) |-> Key(e)]
<1>1. IsFiniteSet(EventsIn(w))
  BY TablesFinite, FS_Subset DEF EventsIn
<1>2. DOMAIN f = EventsIn(w) /\ Touched(w) \in SUBSET {f[e] : e \in EventsIn(w)}
  BY DEF Touched
<1> HIDE DEF f
<1> QED
  BY <1>1, <1>2, ImageFewer

\* No rail has more flagged than it has payments.
LEMMA FlaggedFewer ==
    ASSUME Stored, Listed, NEW w \in Windows, NEW r
    PROVE  /\ SuccessRate(r, w) \in {None} \cup 0..100
           /\ IsFiniteSet(Flagged(r, w))
<1>0. \A t \in Flagged(r, w) : Occurred(r, t, w)
  BY FlaggedAre
<1> DEFINE S == {e \in EventsIn(w) : e.rail = r}
           f == [e \in S |-> e.txn]
           c == Cardinality(Flagged(r, w))
           n == Cardinality(S)
<1>1. IsFiniteSet(S)
  BY TouchedFewer, FS_Subset
<1>2. DOMAIN f = S /\ Flagged(r, w) \in SUBSET {f[e] : e \in S}
  <2> SUFFICES ASSUME NEW t \in Flagged(r, w) PROVE \E e \in S : t = f[e]
    OBVIOUS
  <2> QED
    BY <1>0 DEF Occurred
<1>3. n = RailTotal(r, w)
  BY DEF RailTotal
<1> HIDE DEF f, S
<1>4. c <= n /\ IsFiniteSet(Flagged(r, w)) /\ c \in Nat /\ n \in Nat
  BY <1>1, <1>2, ImageFewer
<1>5. SuccessRate(r, w) = IF n = 0 THEN None ELSE (100 * (n - c)) \div n
  BY <1>3 DEF SuccessRate, Percent
<1> HIDE DEF n, c
<1>6. n - c \in Nat /\ n - c <= n
  BY <1>4
<1> QED
  BY <1>4, <1>5, <1>6, PartOfWhole DEF c

\* A flagged payment is touched, on whichever rail it is.
LEMMA FlaggedTouched ==
    ASSUME Stored, Listed, NEW w \in Windows, NEW rails, IsFiniteSet(rails)
    PROVE  CountOf([r \in rails |-> Cardinality(Flagged(r, w))]) <= Cardinality(Touched(w))
<1> DEFINE P == {p \in Touched(w) : p[1] \in rails /\ p = <<p[1], p[2]>> /\ p[2] \in Flagged(p[1], w)}
           f == [p \in P |-> p[1]]
           flagged == [r \in rails |-> Cardinality(Flagged(r, w))]
<1>1. IsFiniteSet(P) /\ Cardinality(P) <= Cardinality(Touched(w))
  BY TouchedFewer, FS_Subset
<1>2. Keyed(P, f, rails)
  BY DEF Keyed
<1>3. Counts(flagged, rails, f, P)
  <2> SUFFICES ASSUME NEW r \in rails PROVE Cardinality(Flagged(r, w)) = Cardinality(With(P, f, {r}))
    BY DEF Counts
  <2> DEFINE g == [t \in Flagged(r, w) |-> <<r, t>>]
  <2>1. {g[t] : t \in Flagged(r, w)} = With(P, f, {r})
    <3>1. \A t \in Flagged(r, w) : g[t] \in With(P, f, {r})
      BY FlaggedAre DEF With
    <3>2. \A p \in With(P, f, {r}) : p[2] \in Flagged(r, w) /\ p = g[p[2]]
      BY DEF With
    <3> QED
      BY <3>1, <3>2
  <2>2. DOMAIN g = Flagged(r, w) /\ \A t, u \in Flagged(r, w) : g[t] = g[u] => t = u
    OBVIOUS
  <2> HIDE DEF g, P, f
  <2> QED
    BY <2>1, <2>2, FlaggedFewer, ImageCount
<1>4. DOMAIN flagged = rails
  OBVIOUS
<1> HIDE DEF P, f, flagged
<1>5. SumFunctionOnSet(flagged, rails) = Cardinality(P)
  BY <1>1, <1>2, <1>3, CountByKey
<1> QED
  BY <1>1, <1>4, <1>5, CountIs DEF flagged

\* The claims of a range are finitely many.
LEMMA ClaimsFinite ==
    ASSUME Stored, Listed, NEW w, NEW d \in Domains
    PROVE  IsFiniteSet(ClaimIds(w)[d])
<1>1. /\ IsFiniteSet(IssuesIn(w)) /\ IsFiniteSet(BreaksIn(w))
      /\ IsFiniteSet({x \in MaterialSnapshots : DateInRange(x.end, w)})
      /\ IsFiniteSet({x \in FunnelAccounts : DateInRange(x.end, w)})
  BY TablesFinite, FS_Subset DEF IssuesIn, BreaksIn, MaterialSnapshots, FunnelAccounts
<1>2. ASSUME NEW S, IsFiniteSet(S) PROVE IsFiniteSet({x.id : x \in S})
  <2> DEFINE f == [x \in S |-> x.id]
  <2>1. DOMAIN f = S /\ {f[x] : x \in S} = {x.id : x \in S}
    OBVIOUS
  <2> HIDE DEF f
  <2> QED
    BY <1>2, <2>1, FiniteImage
<1> QED
  BY <1>1, <1>2 DEF ClaimIds, Domains

\* The review summary: what is reviewed is a part of the claims, the rest is pending.
LEMMA ReviewsAddUp ==
    ASSUME Stored, Listed, NEW w, NEW d \in Domains
    PROVE  LET review == GetReviewSummary(w)[d] IN review.reviewed + review.pending = review.total
<1> DEFINE ids == ClaimIds(w)[d]
           done == {id \in ids : Decided(d, id)}
           n == Cardinality(ids)
           k == Cardinality(done)
<1>1. IsFiniteSet(ids)
  BY ClaimsFinite
<1>2. done \in SUBSET ids
  OBVIOUS
<1>3. /\ GetReviewSummary(w)[d].total = n /\ GetReviewSummary(w)[d].reviewed = k
      /\ GetReviewSummary(w)[d].pending = Max({0, n - k})
  BY DEF GetReviewSummary
<1> HIDE DEF done, ids
<1>4. k <= n /\ n \in Nat /\ k \in Nat
  BY <1>1, <1>2, FS_Subset, FS_CardinalityType
<1> HIDE DEF n, k
<1> QED
  BY <1>3, <1>4, MaxIs

\* The sums over parts of the breaks and of the snapshots.
LEMMA PartOfBreaks ==
    ASSUME Stored, Listed, NEW S \in SUBSET breaks
    PROVE  /\ SumVariances(S) <= SumVariances(breaks)
           /\ \A b \in S : Variance(b) <= SumVariances(S)
<1> DEFINE a == [b \in breaks |-> Variance(b)]
<1>1. \A b \in breaks : a[b] = Variance(b) /\ a[b] \in Nat
  BY ClaimAssumption DEF Listed, Amounts, Variance, OrZero
<1> HIDE DEF a
<1>2. IsFiniteSet(breaks) /\ IsFiniteSet(S)
  BY TablesFinite, FS_Subset
<1>3. SumVariances(S) = SumFunctionOnSet(a, S) /\ SumVariances(breaks) = SumFunctionOnSet(a, breaks)
  BY <1>1, <1>2, VariancesAre
<1>4. SumFunctionOnSet(a, S) <= SumFunctionOnSet(a, breaks)
  BY <1>1, <1>2, SumSubset
<1>5. ASSUME NEW b \in S PROVE a[b] <= SumFunctionOnSet(a, S)
  <2>1. Whole(a, S) /\ \A x \in S \ {b} : a[x] \in Nat
    BY <1>1 DEF Whole
  <2>2. SumFunctionOnSet(a, S) = a[b] + SumFunctionOnSet(a, S \ {b})
    BY <1>2, <2>1, SumOf1
  <2>3. SumFunctionOnSet(a, S \ {b}) \in Nat
    BY <1>2, <2>1, FS_Subset, SumNat
  <2> QED
    BY <1>1, <2>2, <2>3
<1> QED
  BY <1>1, <1>3, <1>4, <1>5

\* The same of the totals of snapshots.
LEMMA PartOfSnapshots ==
    ASSUME Stored, Listed, NEW s \in snapshots, NEW S \in SUBSET (snapshots \ {s}), NEW T \in SUBSET snapshots,
           S \subseteq T
    PROVE  SnapshotTotal(s) + SumTotals(S) <= SumTotals(T \cup {s})
<1> DEFINE a == [x \in snapshots |-> SnapshotTotal(x)]
           U == S \cup {s}
           V == T \cup {s}
<1>1. \A x \in snapshots : a[x] = SnapshotTotal(x) /\ a[x] \in Nat
  BY ClaimAssumption DEF Listed, Amounts, SnapshotTotal, OrZero
<1> HIDE DEF a
<1>2. /\ IsFiniteSet(S) /\ IsFiniteSet(U) /\ IsFiniteSet(V)
      /\ U \in SUBSET V /\ V \in SUBSET snapshots /\ S \in SUBSET snapshots
      /\ s \in U /\ U \ {s} = S
  BY TablesFinite, FS_Subset
<1> HIDE DEF U, V
<1>3. SumTotals(S) = SumFunctionOnSet(a, S) /\ SumTotals(V) = SumFunctionOnSet(a, V)
  BY <1>1, <1>2, TotalsAre
<1>4. SumFunctionOnSet(a, U) <= SumFunctionOnSet(a, V)
  BY <1>1, <1>2, SumSubset
<1>5. Whole(a, U)
  BY <1>1, <1>2 DEF Whole
<1>6. SumFunctionOnSet(a, U) = a[s] + SumFunctionOnSet(a, S)
  BY <1>2, <1>5, SumOf1
<1> QED
  BY <1>1, <1>3, <1>4, <1>6 DEF V

\* An incident's share is part of the whole.
LEMMA ImpactsAreParts ==
    ASSUME Stored, Listed
    PROVE  /\ \A s \in snapshots :
                 GetEnterpriseImpact("fraud_anomaly", s).fraud <= SumTotals(MaterialSnapshots \cup {s})
           /\ \A b \in breaks :
                 LET impact == GetEnterpriseImpact("reconciliation_break", b) IN
                 /\ impact.reconciliation <= SumVariances(breaks)
                 /\ EventOf(b) # None /\ EventOf(b).party # None => impact.reconciliation >= Variance(b)
<1>1. ASSUME NEW s \in snapshots
      PROVE  GetEnterpriseImpact("fraud_anomaly", s).fraud <= SumTotals(MaterialSnapshots \cup {s})
  <2> DEFINE S == SnapshotsOf({s.party}, "fraud_anomaly", s)
  <2>1. GetEnterpriseImpact("fraud_anomaly", s).fraud = SnapshotTotal(s) + SumTotals(S)
    BY DEF GetEnterpriseImpact, ResolveIncident, Incident, SnapshotTotal
  <2>2. S \in SUBSET (snapshots \ {s}) /\ MaterialSnapshots \in SUBSET snapshots /\ S \subseteq MaterialSnapshots
    BY DEF SnapshotsOf, MaterialSnapshots
  <2> HIDE DEF S
  <2> QED
    BY <2>1, <2>2, PartOfSnapshots
<1>2. ASSUME NEW b \in breaks
      PROVE  LET impact == GetEnterpriseImpact("reconciliation_break", b) IN
             /\ impact.reconciliation <= SumVariances(breaks)
             /\ EventOf(b) # None /\ EventOf(b).party # None => impact.reconciliation >= Variance(b)
  <2> DEFINE parties == Payers({EventOf(b)} \ {None})
             S == BreaksOf(parties)
  <2>1. GetEnterpriseImpact("reconciliation_break", b).reconciliation = SumVariances(S)
    BY DEF GetEnterpriseImpact, ResolveIncident, Incident
  <2>2. S \in SUBSET breaks
    BY DEF BreaksOf
  <2>3. EventOf(b) # None /\ EventOf(b).party # None => b \in S
    BY DEF BreaksOf, Payers
  <2> HIDE DEF S
  <2>4. SumVariances(S) <= SumVariances(breaks) /\ \A x \in S : Variance(x) <= SumVariances(S)
    BY <2>2, PartOfBreaks
  <2>5. EventOf(b) # None /\ EventOf(b).party # None => SumVariances(S) >= Variance(b)
    <3>1. b \in breaks => Variance(b) \in Nat
      BY ClaimAssumption DEF Listed, Amounts, Variance, OrZero
    <3> QED
      BY <2>3, <2>4, <3>1
  <2> QED
    BY <2>1, <2>4, <2>5
<1> QED
  BY <1>1, <1>2

\* A component of the health score is a percentage.
LEMMA ComponentIs ==
    ASSUME NEW bad \in Nat, NEW whole \in Nat
    PROVE  Component(bad, whole) \in 0..100
<1>1. CASE whole = 0
  BY <1>1 DEF Component
<1>2. CASE whole # 0
  <2> DEFINE q == (100 * bad) \div whole
  <2>1. q \in Int /\ whole * q <= 100 * bad /\ 100 * bad < whole * q + whole
    BY <1>2
  <2>2. Component(bad, whole) = Max({0, 100 - q})
    BY <1>2 DEF Component
  <2> HIDE DEF q
  <2>3. q >= 0
    <3> SUFFICES ASSUME q <= -1 PROVE FALSE
      BY <2>1
    <3>1. whole * q <= whole * (-1)
      BY <2>1
    <3> QED
      BY <2>1, <3>1
  <2> QED
    BY <2>1, <2>2, <2>3, MaxIs
<1> QED
  BY <1>1, <1>2

\* All four are, and so is the score.
LEMMA HealthIs ==
    ASSUME Stored, Listed
    PROVE  /\ HealthComponents \in [settlement: 0..100, anomaly: 0..100, operational: 0..100,
                                    reconciliation: 0..100]
           /\ HealthScore(HealthComponents) \in 0..100
<1> DEFINE all == ToSet(events)
           N(S) == Cardinality(S)
           crit == {s \in snapshots : s.band = "Critical"}
           high == {s \in snapshots : s.band = "High"}
           open == {e \in all : ~e.settled}
           recon == {e \in all : e.recon}
<1>1. /\ N(all) \in Nat /\ N(open) \in Nat /\ N(recon) \in Nat /\ N(crit) \in Nat /\ N(high) \in Nat
      /\ N(snapshots) \in Nat /\ N(issues) \in Nat /\ N(breaks) \in Nat
  <2>1. /\ IsFiniteSet(all) /\ IsFiniteSet(open) /\ IsFiniteSet(recon) /\ IsFiniteSet(crit)
        /\ IsFiniteSet(high) /\ IsFiniteSet(snapshots) /\ IsFiniteSet(issues) /\ IsFiniteSet(breaks)
    BY TablesFinite, FS_Subset
  <2> QED
    BY <2>1, FS_CardinalityType
<1>2. HealthComponents = [settlement |-> Component(N(open), N(all)),
                          anomaly |-> Component(2 * N(crit) + N(high), N(snapshots)),
                          operational |-> Component(N(issues), N(all)),
                          reconciliation |-> Component(N(breaks), N(recon))]
  BY DEF HealthComponents
<1> HIDE DEF all, N, crit, high, open, recon
<1>3. /\ Component(N(open), N(all)) \in 0..100 /\ Component(N(issues), N(all)) \in 0..100
      /\ Component(N(breaks), N(recon)) \in 0..100
      /\ Component(2 * N(crit) + N(high), N(snapshots)) \in 0..100
  <2>1. 2 * N(crit) + N(high) \in Nat
    BY <1>1
  <2> QED
    BY <1>1, <2>1, ComponentIs
<1>4. HealthComponents \in [settlement: 0..100, anomaly: 0..100, operational: 0..100,
                            reconciliation: 0..100]
  BY <1>2, <1>3
<1>5. ASSUME NEW c1 \in 0..100, NEW c2 \in 0..100, NEW c3 \in 0..100, NEW c4 \in 0..100
      PROVE  (30 * c1 + 30 * c2 + 20 * c3 + 20 * c4) \div 100 \in 0..100
  <2> DEFINE t == 30 * c1 + 30 * c2 + 20 * c3 + 20 * c4
  <2>1. t \in Int
    OBVIOUS
  <2>2. 0 <= t
    OBVIOUS
  <2>3. t <= 10000
    OBVIOUS
  <2> HIDE DEF t
  <2>4. t \div 100 \in 0..100
    BY <2>1, <2>2, <2>3
  <2> QED
    BY <2>4 DEF t
<1>6. HealthScore(HealthComponents) \in 0..100
  <2> DEFINE c == HealthComponents
  <2>1. /\ c.settlement \in 0..100 /\ c.anomaly \in 0..100
        /\ c.operational \in 0..100 /\ c.reconciliation \in 0..100
    BY <1>4
  <2> HIDE DEF c
  <2>2. HealthScore(c) \in 0..100
    BY <1>5, <2>1 DEF HealthScore
  <2> QED
    BY <2>2 DEF c
<1> QED
  BY <1>4, <1>6

Scores == [score: 0..100, band: {"Healthy", "Watch", "At Risk", "Critical"}]
Healthy ==
    /\ history \in Seq(Scores)
    /\ health # None =>
          /\ health.components \in [settlement: 0..100, anomaly: 0..100, operational: 0..100,
                                    reconciliation: 0..100]
          /\ Last(history).score = health.score /\ health.score \in 0..100

\* The row is the end of the history, and only compute_health_scores writes either.
THEOREM HealthInv == Spec => []Healthy
<1>1. Init => Healthy
  BY DEF Init, Healthy
<1>2. Healthy /\ Stored /\ Listed /\ [Next]_vars => Healthy'
  <2> SUFFICES ASSUME Healthy, Stored, Listed, [Next]_vars PROVE Healthy'
    OBVIOUS
  <2>1. CASE ComputeHealth
    <3> DEFINE score == HealthScore(HealthComponents)
               row == [score |-> score, band |-> HealthBand(score)]
    <3>1. /\ health'.score = score /\ health'.components = HealthComponents
          /\ history' = Append(history, row)
      BY <2>1 DEF ComputeHealth
    <3>2. row \in Scores /\ row.score = score
      BY HealthIs DEF Scores, HealthBand
    <3> HIDE DEF row
    <3>3. /\ history' \in Seq(Scores) /\ Len(history') = Len(history) + 1
          /\ history'[Len(history) + 1] = row
      BY <3>1, <3>2, AppendProperties DEF Healthy
    <3>4. Last(history') = row
      BY <3>3 DEF Last
    <3> QED
      BY <3>1, <3>2, <3>3, <3>4, HealthIs DEF Healthy
  <2>2. CASE UNCHANGED <<health, history>>
    BY <2>2 DEF Healthy, Last
  <2> QED
    BY <2>1, <2>2 DEF Next, vars, Claimed, ComputeCases, Validate
<1> QED
  BY <1>1, <1>2, TablesInv, PTL DEF Spec

\* RatesAreRates for any histories, claims and ranges: no part exceeds what it is a part of.
THEOREM RatesHold == Spec => []RatesAreRates
<1>1. Stored /\ Listed /\ Healthy => RatesAreRates
  <2> SUFFICES ASSUME Stored, Listed, Healthy PROVE RatesAreRates
    OBVIOUS
  <2>1. ASSUME NEW w \in Windows
        PROVE  LET normalcy == GetPaymentNormalcy(w)
                   rails    == {e.rail : e \in ToSet(events)}
                   flagged  == [r \in rails |-> Cardinality(Flagged(r, w))]
                   review   == GetReviewSummary(w)
               IN /\ normalcy.touched <= normalcy.total
                  /\ Cardinality(Covered(w)) <= GetOverview(w).total
                  /\ \A r \in rails : SuccessRate(r, w) \in {None} \cup 0..100
                  /\ CountOf(flagged) <= normalcy.touched
                  /\ \A d \in Domains : review[d].reviewed + review[d].pending = review[d].total
    <3> DEFINE rails == {e.rail : e \in ToSet(events)}
               f == [e \in ToSet(events) |-> e.rail]
    <3>1. IsFiniteSet(rails)
      <4>1. DOMAIN f = ToSet(events) /\ rails = {f[e] : e \in ToSet(events)}
        OBVIOUS
      <4> HIDE DEF f, rails
      <4> QED
        BY <4>1, TablesFinite, FiniteImage
    <3>2. Cardinality(Covered(w)) <= Cardinality(EventsIn(w))
      BY TouchedFewer, FS_Subset DEF Covered
    <3> HIDE DEF rails
    <3>3. CountOf([r \in rails |-> Cardinality(Flagged(r, w))]) <= Cardinality(Touched(w))
      BY <3>1, FlaggedTouched
    <3>4. \A r \in rails : SuccessRate(r, w) \in {None} \cup 0..100
      BY FlaggedFewer
    <3>5. \A d \in Domains : LET review == GetReviewSummary(w)[d] IN
                              review.reviewed + review.pending = review.total
      BY ReviewsAddUp
    <3>6. /\ GetPaymentNormalcy(w).total = Cardinality(EventsIn(w))
          /\ GetPaymentNormalcy(w).touched = Cardinality(Touched(w))
          /\ GetOverview(w).total = Cardinality(EventsIn(w))
      BY DEF GetPaymentNormalcy, GetOverview
    <3> QED
      BY <3>2, <3>3, <3>4, <3>5, <3>6, TouchedFewer DEF rails
  <2>2. health # None =>
          /\ \A c \in DOMAIN health.components : health.components[c] \in 0..100
          /\ Last(history).score = health.score /\ health.score \in 0..100
    BY DEF Healthy
  <2> QED
    BY <2>1, <2>2, ImpactsAreParts DEF RatesAreRates
<1> QED
  BY <1>1, TablesInv, HealthInv, PTL

-----------------------------------------------------------------------------
(* Counts of one range *)

\* Rows have ids of their own.
Numbered(S) == \A x, y \in S : x.id = y.id => x = y

\* Then they are as many as their ids.
LEMMA IdsCount ==
    ASSUME NEW S, IsFiniteSet(S), Numbered(S)
    PROVE  Cardinality({x.id : x \in S}) = Cardinality(S)
<1> DEFINE f == [x \in S |-> x.id]
<1>1. DOMAIN f = S /\ {f[x] : x \in S} = {x.id : x \in S} /\ \A x, y \in S : f[x] = f[y] => x = y
  BY DEF Numbered
<1> HIDE DEF f
<1> QED
  BY <1>1, ImageCount

\* The rows of every table have ids of their own.
LEMMA TablesNumbered ==
    ASSUME Listed
    PROVE  /\ \A S \in SUBSET issues : Numbered(S)
           /\ \A S \in SUBSET breaks : Numbered(S)
           /\ \A S \in SUBSET snapshots : Numbered(S)
           /\ \A S \in SUBSET beneficiaries : Numbered(S)
  BY RowAssumption DEF Listed, Numbered

\* The claims of each kind in a range.
LEMMA InRangeFinite ==
    ASSUME Stored, Listed, NEW w
    PROVE  /\ IssuesIn(w) \in SUBSET issues /\ IsFiniteSet(IssuesIn(w))
           /\ BreaksIn(w) \in SUBSET breaks /\ IsFiniteSet(BreaksIn(w))
           /\ SnapshotsIn(w) \in SUBSET snapshots /\ IsFiniteSet(SnapshotsIn(w))
  BY TablesFinite, FS_Subset DEF IssuesIn, BreaksIn, SnapshotsIn

\* The counts by type are those of the review summary and of the volume.
LEMMA IssuesCount ==
    ASSUME Stored, Listed, NEW w
    PROVE  /\ CountOf(GetOverview(w).issues) = Cardinality(IssuesIn(w))
           /\ GetReviewSummary(w)["operational_issue"].total = Cardinality(IssuesIn(w))
<1> DEFINE S == IssuesIn(w)
           f == [i \in S |-> i.type]
           c == GetOverview(w).issues
<1>1. IsFiniteSet(S) /\ Numbered(S)
  BY InRangeFinite, TablesNumbered
<1>2. CountsBy(c, f, S)
  BY DEF CountsBy, GetOverview, CountBy, TypeOf
<1>3. DOMAIN f = S
  OBVIOUS
<1>4. GetReviewSummary(w)["operational_issue"].total = Cardinality({i.id : i \in S})
  BY DEF GetReviewSummary, ClaimIds, Domains
<1> HIDE DEF S, f, c
<1> QED
  BY <1>1, <1>2, <1>3, <1>4, CountedBy, IdsCount DEF S, c

\* The same of breaks.
LEMMA BreaksCount ==
    ASSUME Stored, Listed, NEW w
    PROVE  /\ CountOf(GetOverview(w).breaks) = Cardinality(BreaksIn(w))
           /\ GetReviewSummary(w)["reconciliation_break"].total = Cardinality(BreaksIn(w))
<1> DEFINE S == BreaksIn(w)
           f == [i \in S |-> i.type]
           c == GetOverview(w).breaks
<1>1. IsFiniteSet(S) /\ Numbered(S)
  BY InRangeFinite, TablesNumbered
<1>2. CountsBy(c, f, S)
  BY DEF CountsBy, GetOverview, CountBy, TypeOf
<1>3. DOMAIN f = S
  OBVIOUS
<1>4. GetReviewSummary(w)["reconciliation_break"].total = Cardinality({i.id : i \in S})
  BY DEF GetReviewSummary, ClaimIds, Domains
<1> HIDE DEF S, f, c
<1> QED
  BY <1>1, <1>2, <1>3, <1>4, CountedBy, IdsCount DEF S, c

\* The rail table has a row for the rail of every break: its event is of the range, too.
LEMMA RailsCount ==
    ASSUME Stored, Listed, NEW w \in Windows
    PROVE  LET rails == GetRailStats(w) IN
           CountOf([rail \in DOMAIN rails |-> rails[rail].breaks]) = Cardinality(BreaksIn(w))
<1> DEFINE S == BreaksIn(w)
           f == [b \in S |-> b.rail]
           K == {e.rail : e \in EventsIn(w)}
           rails == GetRailStats(w)
           c == [rail \in DOMAIN rails |-> rails[rail].breaks]
<1>1. IsFiniteSet(S)
  BY InRangeFinite
<1>2. IsFiniteSet(K)
  <2> DEFINE g == [e \in EventsIn(w) |-> e.rail]
  <2>1. DOMAIN g = EventsIn(w) /\ K = {g[e] : e \in EventsIn(w)}
    OBVIOUS
  <2> HIDE DEF g, K
  <2> QED
    BY <2>1, TouchedFewer, FiniteImage
<1>3. Keyed(S, f, K)
  <2> SUFFICES ASSUME NEW b \in S PROVE b.rail \in K
    BY DEF Keyed
  <2>1. EventOf(b) \in EventsIn(w) /\ EventOf(b).rail = b.rail
    BY EventInRange, BreakEvent DEF BreaksIn
  <2> QED
    BY <2>1
<1>4. DOMAIN c = K
  BY DEF GetRailStats
<1>5. Counts(c, K, f, S)
  <2> SUFFICES ASSUME NEW r \in K PROVE c[r] = Cardinality(With(S, f, {r}))
    BY DEF Counts
  <2>1. With(S, f, {r}) = {b \in S : b.rail = r}
    BY DEF With
  <2>2. c[r] = IF \E b \in S : b.rail = r THEN Cardinality({b \in S : b.rail = r}) ELSE 0
    BY DEF GetRailStats, CountBy, RailOf
  <2>3. ~(\E b \in S : b.rail = r) => Cardinality({b \in S : b.rail = r}) = 0
    <3>1. ~(\E b \in S : b.rail = r) => {b \in S : b.rail = r} = {}
      OBVIOUS
    <3> QED
      BY <3>1, FS_EmptySet
  <2> HIDE DEF c, S, f, K
  <2> QED
    BY <2>1, <2>2, <2>3
<1> HIDE DEF S, f, K, c
<1>6. SumFunctionOnSet(c, K) = Cardinality(S)
  BY <1>1, <1>2, <1>3, <1>5, CountByKey
<1> QED
  BY <1>4, <1>6, CountIs DEF c, S

\* And exposure.py has one claim for each break of the range.
LEMMA BreakClaimsCount ==
    ASSUME Stored, Listed, NEW w
    PROVE  Cardinality({c \in AllClaims(w) : c.domain = "reconciliation_break"}) = Cardinality(BreaksIn(w))
<1> DEFINE S == BreaksIn(w)
           T == {c \in AllClaims(w) : c.domain = "reconciliation_break"}
           f == [b \in S |-> Claim("reconciliation_break", b, OrZero(b.amount), b.rail, ReconciliationBreakDate(b))]
<1>1. T = {f[b] : b \in S}
  BY DEF AllClaims, FraudAnomalyClaims, ReconciliationClaims, OperationalClaims, BreaksIn, Claim
<1>2. \A b, q \in S : f[b] = f[q] => b = q
  BY InRangeFinite, TablesNumbered DEF Numbered, Claim
<1>3. IsFiniteSet(S) /\ DOMAIN f = S
  BY InRangeFinite
<1> HIDE DEF S, f, T
<1> QED
  BY <1>1, <1>2, <1>3, ImageCount DEF S, T

\* The counts of some bands are the snapshots in them.
LEMMA BandsCount ==
    ASSUME Stored, Listed, NEW w, NEW B
    PROVE  Sum(GetOverview(w).bands, B) = Cardinality({s \in SnapshotsIn(w) : s.band \in B})
<1> DEFINE c == GetOverview(w).bands
           S == {s \in SnapshotsIn(w) : s.band \in B}
           f == [s \in S |-> s.band]
           K == B \cap DOMAIN c
           g == [s \in SnapshotsIn(w) |-> s.band]
<1>1. IsFiniteSet(SnapshotsIn(w)) /\ IsFiniteSet(S)
  BY InRangeFinite, FS_Subset
<1>2. DOMAIN c = {g[s] : s \in SnapshotsIn(w)} /\ DOMAIN g = SnapshotsIn(w)
  BY DEF GetOverview, CountBy, BandOf
<1>3. Keyed(S, f, K)
  BY <1>2 DEF Keyed
<1>4. Counts(c, K, f, S)
  <2> SUFFICES ASSUME NEW k \in K PROVE c[k] = Cardinality(With(S, f, {k}))
    BY DEF Counts
  <2>1. With(S, f, {k}) = {s \in SnapshotsIn(w) : s.band = k}
    BY DEF With
  <2>2. c[k] = Cardinality({s \in SnapshotsIn(w) : s.band = k})
    BY DEF GetOverview, CountBy, BandOf
  <2> QED
    BY <2>1, <2>2
<1> HIDE DEF c, S, f, g
<1>5. IsFiniteSet(DOMAIN c)
  BY <1>1, <1>2, FiniteImage
<1>6. IsFiniteSet(K)
  BY <1>5, FS_Subset
<1> HIDE DEF K
<1>7. SumFunctionOnSet(c, K) = Cardinality(S)
  BY <1>1, <1>3, <1>4, <1>6, CountByKey
<1> QED
  BY <1>7, SumIsOn DEF c, S, K

\* All bands together, and the snapshots that are claims.
LEMMA SnapshotsCount ==
    ASSUME Stored, Listed, NEW w \in Windows
    PROVE  /\ CountOf(GetOverview(w).bands) = DetectionVolume(w).fraud
           /\ Sum(GetOverview(w).bands, Material) = GetReviewSummary(w)["fraud_anomaly"].total
<1> DEFINE S == SnapshotsIn(w)
           f == [s \in S |-> s.band]
           c == GetOverview(w).bands
           M == {s \in SnapshotsIn(w) : s.band \in Material}
<1>0. /\ S = {s \in snapshots : DateInRange(s.end, w)}
      /\ M = {x \in MaterialSnapshots : DateInRange(x.end, w)}
  BY DatesAre, RangesAgree DEF SnapshotsIn, MaterialSnapshots
<1>1. IsFiniteSet(S) /\ Numbered(M) /\ IsFiniteSet(M)
  BY InRangeFinite, TablesNumbered, FS_Subset
<1>2. CountsBy(c, f, S)
  BY DEF CountsBy, GetOverview, CountBy, BandOf
<1>3. DOMAIN f = S
  OBVIOUS
<1>4. DetectionVolume(w).fraud = Cardinality(S)
  BY <1>0 DEF DetectionVolume
<1>5. GetReviewSummary(w)["fraud_anomaly"].total = Cardinality({x.id : x \in M})
  BY <1>0 DEF GetReviewSummary, ClaimIds, Domains
<1>6. Sum(GetOverview(w).bands, Material) = Cardinality(M)
  BY BandsCount
<1> HIDE DEF S, f, c, M
<1> QED
  BY <1>1, <1>2, <1>3, <1>4, <1>5, <1>6, CountedBy, IdsCount DEF c

\* The four levels.
LEMMA LevelsFinite == IsFiniteSet(Levels)
<1> DEFINE A == {"Critical"}
           B == {"High"}
           C == {"Medium"}
           D == {"Low"}
<1>1. IsFiniteSet(A) /\ IsFiniteSet(B) /\ IsFiniteSet(C) /\ IsFiniteSet(D)
  BY FS_Singleton
<1>2. Levels = (A \cup B) \cup (C \cup D)
  BY DEF Levels
<1> HIDE DEF A, B, C, D
<1>3. IsFiniteSet(A \cup B) /\ IsFiniteSet(C \cup D)
  BY <1>1, FS_Union
<1> QED
  BY <1>2, <1>3, FS_Union

\* The values of c are those of a and b together.
Adds(c, a, b, S) == \A x \in S : c[x] = a[x] + b[x]

\* Its sum is, too.
LEMMA SumAdds ==
    ASSUME NEW a, NEW b, NEW c, NEW S, IsFiniteSet(S), Whole(a, S), Whole(b, S), Adds(c, a, b, S)
    PROVE  /\ SumFunctionOnSet(c, S) = SumFunctionOnSet(a, S) + SumFunctionOnSet(b, S)
           /\ Whole(c, S)
<1>1. \A x \in S : c[x] = a[x] + b[x]
  BY DEF Adds
<1>2. Whole(c, S)
  BY <1>1 DEF Whole
<1> QED
  BY <1>1, <1>2, SumPlus

\* Every claim has one level.
LEMMA LevelsCount ==
    ASSUME NEW S, IsFiniteSet(S), NEW f, Keyed(S, f, Levels), NEW a, DOMAIN a = Levels,
           \A l \in Levels : a[l] = Cardinality({x \in S : f[x] = l})
    PROVE  SumFunctionOnSet(a, Levels) = Cardinality(S) /\ Whole(a, Levels)
<1>1. IsFiniteSet(Levels)
  BY LevelsFinite
<1>2. Counts(a, Levels, f, S)
  <2> SUFFICES ASSUME NEW l \in Levels PROVE a[l] = Cardinality(With(S, f, {l}))
    BY DEF Counts
  <2>1. With(S, f, {l}) = {x \in S : f[x] = l}
    BY DEF With
  <2> QED
    BY <2>1
<1>3. Whole(a, Levels)
  <2> SUFFICES ASSUME NEW l \in Levels PROVE a[l] \in Int
    BY DEF Whole
  <2>1. IsFiniteSet({x \in S : f[x] = l})
    BY FS_Subset
  <2> QED
    BY <2>1, FS_CardinalityType
<1> QED
  BY <1>1, <1>2, <1>3, CountByKey

\* The levels share out the issues, the breaks and the snapshots that have a level.
LEMMA PrioritiesCount ==
    ASSUME Stored, Listed, NEW w
    PROVE  CountOf(GetPriorityDistribution(w))
           = Cardinality(IssuesIn(w)) + Cardinality(BreaksIn(w))
             + Cardinality({s \in SnapshotsIn(w) : s.band \in DOMAIN BandLevel})
<1> DEFINE S == {s \in SnapshotsIn(w) : s.band \in DOMAIN BandLevel}
           fs == [s \in S |-> BandLevel[s.band]]
           fi == [i \in IssuesIn(w) |-> IssueLevel(i)]
           fb == [b \in BreaksIn(w) |-> BreakLevel(b)]
           as == [l \in Levels |-> Cardinality({s \in S : fs[s] = l})]
           ai == [l \in Levels |-> Cardinality({i \in IssuesIn(w) : fi[i] = l})]
           ab == [l \in Levels |-> Cardinality({b \in BreaksIn(w) : fb[b] = l})]
           ap == [l \in Levels |-> as[l] + ai[l]]
           c == GetPriorityDistribution(w)
<1>1. IsFiniteSet(S) /\ IsFiniteSet(IssuesIn(w)) /\ IsFiniteSet(BreaksIn(w))
  BY InRangeFinite, FS_Subset
<1>2. Keyed(S, fs, Levels) /\ Keyed(IssuesIn(w), fi, Levels) /\ Keyed(BreaksIn(w), fb, Levels)
  BY DEF Keyed, BandLevel, Levels, IssueLevel, BreakLevel, Level
<1>3. Adds(c, ap, ab, Levels)
  <2> SUFFICES ASSUME NEW l \in Levels PROVE c[l] = ap[l] + ab[l]
    BY DEF Adds
  <2>1. {s \in S : fs[s] = l} = {s \in SnapshotsIn(w) : s.band \in DOMAIN BandLevel /\ BandLevel[s.band] = l}
    OBVIOUS
  <2>2. {i \in IssuesIn(w) : fi[i] = l} = {i \in IssuesIn(w) : IssueLevel(i) = l}
    OBVIOUS
  <2>3. {b \in BreaksIn(w) : fb[b] = l} = {b \in BreaksIn(w) : BreakLevel(b) = l}
    OBVIOUS
  <2> QED
    BY <2>1, <2>2, <2>3 DEF GetPriorityDistribution
<1>4. DOMAIN c = Levels
  BY DEF GetPriorityDistribution
<1>5. Adds(ap, as, ai, Levels)
  BY DEF Adds
<1> HIDE DEF c, ap
<1>7. SumFunctionOnSet(as, Levels) = Cardinality(S) /\ Whole(as, Levels)
  BY <1>1, <1>2, LevelsCount
<1>8. SumFunctionOnSet(ai, Levels) = Cardinality(IssuesIn(w)) /\ Whole(ai, Levels)
  BY <1>1, <1>2, LevelsCount
<1>9. SumFunctionOnSet(ab, Levels) = Cardinality(BreaksIn(w)) /\ Whole(ab, Levels)
  BY <1>1, <1>2, LevelsCount
<1> HIDE DEF as, ai, ab, S, fs, fi, fb
<1>6. SumFunctionOnSet(ap, Levels) = SumFunctionOnSet(as, Levels) + SumFunctionOnSet(ai, Levels)
      /\ Whole(ap, Levels)
  BY <1>5, <1>7, <1>8, LevelsFinite, SumAdds
<1>10. SumFunctionOnSet(c, Levels) = SumFunctionOnSet(ap, Levels) + SumFunctionOnSet(ab, Levels)
  <2>1. Adds(c, ap, ab, Levels) /\ Whole(ap, Levels) /\ Whole(ab, Levels)
    BY <1>3, <1>6, <1>9
  <2> QED
    BY <2>1, LevelsFinite, SumAdds
<1>11. Cardinality(S) \in Nat /\ Cardinality(IssuesIn(w)) \in Nat /\ Cardinality(BreaksIn(w)) \in Nat
  BY <1>1, FS_CardinalityType
<1> QED
  BY <1>4, <1>6, <1>7, <1>8, <1>9, <1>10, <1>11, CountIs DEF c, S

\* A date of a range that is cut in two is in one of the halves, and in no other case.
LEMMA CutInTwo ==
    ASSUME NEW u \in Windows, NEW v \in Windows, NEW w \in Windows, Split(u, v, w), NEW day \in Dates
    PROVE  /\ DateInRange(day, w) <=> DateInRange(day, u) \/ DateInRange(day, v)
           /\ ~(DateInRange(day, u) /\ DateInRange(day, v))
<1>1. /\ u.from \in Dates /\ u.to \in Dates /\ v.from \in Dates /\ v.to \in Dates
      /\ w.from \in Dates /\ w.to \in Dates /\ None \notin Int
  BY WindowAssumption, NoneAssumption
<1> QED
  BY <1>1 DEF Split, Unbounded, DateInRange, Dates

\* So are the claims of a range that is cut in two.
LEMMA ClaimsCut ==
    ASSUME Stored, Listed, NEW u \in Windows, NEW v \in Windows, NEW w \in Windows, Split(u, v, w),
           NEW d \in Domains
    PROVE  /\ ClaimIds(w)[d] = ClaimIds(u)[d] \cup ClaimIds(v)[d]
           /\ ClaimIds(u)[d] \cap ClaimIds(v)[d] = {}
<1>1. CASE d = "operational_issue"
  BY <1>1, CutInTwo, DatesAre, TablesNumbered DEF ClaimIds, IssuesIn, Numbered
<1>2. CASE d = "reconciliation_break"
  BY <1>2, CutInTwo, DatesAre, TablesNumbered DEF ClaimIds, BreaksIn, Numbered
<1>3. CASE d = "fraud_anomaly"
  BY <1>3, CutInTwo, DatesAre, TablesNumbered DEF ClaimIds, MaterialSnapshots, Numbered
<1>4. CASE d = "funnel_account"
  BY <1>4, CutInTwo, DatesAre, TablesNumbered DEF ClaimIds, FunnelAccounts, Numbered
<1> QED
  BY <1>1, <1>2, <1>3, <1>4 DEF Domains

\* WindowsAgree for any histories, claims and ranges: every view counts the same claims of a
\* range, and a range cut in two loses none and counts none twice.
THEOREM WindowsMatch == Spec => []WindowsAgree
<1>1. Stored /\ Listed => WindowsAgree
  <2> SUFFICES ASSUME Stored, Listed PROVE WindowsAgree
    OBVIOUS
  <2>1. ASSUME NEW w \in Windows
        PROVE  LET o == GetOverview(w)
                   r == GetReviewSummary(w)
                   v == DetectionVolume(w)
                   rails == GetRailStats(w)
               IN /\ {CountOf(o.issues), v.operational} = {r["operational_issue"].total}
                  /\ {CountOf(o.breaks), v.reconciliation,
                      CountOf([rail \in DOMAIN rails |-> rails[rail].breaks]),
                      Cardinality({c \in AllClaims(w) : c.domain = "reconciliation_break"})}
                     = {r["reconciliation_break"].total}
                  /\ Sum(o.bands, Material) = r["fraud_anomaly"].total
                  /\ CountOf(o.bands) = v.fraud
                  /\ CountOf(GetPriorityDistribution(w))
                     = CountOf(o.issues) + CountOf(o.breaks) + Sum(o.bands, DOMAIN BandLevel)
    <3>1. /\ DetectionVolume(w).operational = Cardinality(IssuesIn(w))
          /\ DetectionVolume(w).reconciliation = Cardinality(BreaksIn(w))
      BY DEF DetectionVolume
    <3>2. Sum(GetOverview(w).bands, DOMAIN BandLevel)
          = Cardinality({s \in SnapshotsIn(w) : s.band \in DOMAIN BandLevel})
      BY BandsCount
    <3> QED
      BY <3>1, <3>2, IssuesCount, BreaksCount, RailsCount, BreakClaimsCount, SnapshotsCount, PrioritiesCount
  <2>2. ASSUME NEW u \in Windows, NEW v \in Windows, NEW w \in Windows, Split(u, v, w)
        PROVE  LET whole == ClaimIds(w)
                   first == ClaimIds(u)
                   second == ClaimIds(v)
               IN \A d \in Domains : whole[d] = first[d] \cup second[d] /\ first[d] \cap second[d] = {}
    BY <2>2, ClaimsCut
  <2>3. LET mix == GetPatternMix IN
        mix.known + mix.newly = Cardinality(MaterialSnapshots) + Cardinality(FunnelAccounts)
    <3> DEFINE known == {s \in MaterialSnapshots : Tags(s) # {}}
               rest == MaterialSnapshots \ known
    <3>1. IsFiniteSet(MaterialSnapshots) /\ IsFiniteSet(FunnelAccounts)
      BY TablesFinite, FS_Subset DEF MaterialSnapshots, FunnelAccounts
    <3>2. known \cup rest = MaterialSnapshots /\ known \cap rest = {}
      OBVIOUS
    <3>3. IsFiniteSet(known) /\ IsFiniteSet(rest)
      BY <3>1, FS_Subset
    <3>4. GetPatternMix.known = Cardinality(known) + Cardinality(FunnelAccounts)
          /\ GetPatternMix.newly = Cardinality(rest)
      BY DEF GetPatternMix
    <3> HIDE DEF known, rest
    <3>5. Cardinality(MaterialSnapshots) = Cardinality(known) + Cardinality(rest)
      <4>1. Cardinality(known \cup rest)
            = Cardinality(known) + Cardinality(rest) - Cardinality(known \cap rest)
        BY <3>3, FS_Union
      <4>2. Cardinality(known \cap rest) = 0
        BY <3>2, FS_EmptySet
      <4>3. Cardinality(known) \in Nat /\ Cardinality(rest) \in Nat
        BY <3>3, FS_CardinalityType
      <4>4. Cardinality(MaterialSnapshots) = Cardinality(known \cup rest)
        BY <3>2, Zenon
      <4> QED
        BY <4>1, <4>2, <4>3, <4>4
    <3>6. /\ Cardinality(known) \in Nat /\ Cardinality(rest) \in Nat
          /\ Cardinality(FunnelAccounts) \in Nat
      BY <3>1, <3>3, FS_CardinalityType
    <3> QED
      BY <3>4, <3>5, <3>6
  <2> QED
    BY <2>1, <2>2, <2>3 DEF WindowsAgree
<1> QED
  BY <1>1, TablesInv, PTL

-----------------------------------------------------------------------------
(* The money behind the claims *)

\* The events of an issue have a sum.
LEMMA IssueAmount ==
    ASSUME Stored, Listed, NEW i \in issues
    PROVE  SumAmounts(EventsAt(EventsOf(i))) \in Nat
<1> DEFINE S == EventsAt(EventsOf(i))
<1>1. S \subseteq ToSet(events)
  BY IssueEvents
<1> HIDE DEF S
<1>2. IsFiniteSet(S) /\ Priced(S)
  BY <1>1, TablesFinite, EventsAre, FS_Subset DEF Priced
<1>3. SumAmounts(S) \in Nat
  BY <1>2, PartSum
<1> QED
  BY <1>3 DEF S

\* The claims of a range are finitely many; each has an amount, a domain and a date of the
\* range, and those about a party have no rail.
LEMMA ClaimsAre ==
    ASSUME Stored, Listed, NEW w
    PROVE  /\ IsFiniteSet(AllClaims(w)) /\ Priced(AllClaims(w))
           /\ \A c \in AllClaims(w) : /\ c.domain \in ExposureDomains /\ c.at \in Dates
                                      /\ DateInRange(c.at, w)
                                      /\ c.domain = "fraud_anomaly" => c.rail = None
<1> DEFINE F == FraudAnomalyClaims
           R == ReconciliationClaims
           O == OperationalClaims
           M == MaterialSnapshots
           P == {x \in issues : x.type \notin PartyIssues}
           RailOfFirst(i) == IF First(EventsOf(i)) = None THEN None ELSE First(EventsOf(i)).rail
           f == [s \in M |-> Claim("fraud_anomaly", s, OrZero(s.total), None, s.end)]
           r == [b \in breaks |->
                   Claim("reconciliation_break", b, OrZero(b.amount), b.rail, ReconciliationBreakDate(b))]
           o == [i \in P |-> Claim("operational_issue", i, SumAmounts(EventsAt(EventsOf(i))),
                                   RailOfFirst(i), ParseOccurred(First(EventsOf(i))))]
<1>1. IsFiniteSet(M) /\ IsFiniteSet(breaks) /\ IsFiniteSet(P)
  BY TablesFinite, FS_Subset DEF MaterialSnapshots
<1>2. /\ F = {f[s] : s \in M} /\ DOMAIN f = M
      /\ R = {r[b] : b \in breaks} /\ DOMAIN r = breaks
      /\ O = {o[i] : i \in P} /\ DOMAIN o = P
  BY DEF FraudAnomalyClaims, ReconciliationClaims, OperationalClaims
<1>3. \A s \in M : /\ f[s].domain = "fraud_anomaly" /\ f[s].rail = None
                   /\ f[s].amount \in Nat /\ f[s].at \in Dates
  BY ClaimAssumption DEF Claim, MaterialSnapshots, Listed, OrZero, Amounts
<1>4. \A b \in breaks : /\ r[b].domain = "reconciliation_break"
                        /\ r[b].amount \in Nat /\ r[b].at \in Dates
  BY ClaimAssumption, DatesAre DEF Claim, Listed, OrZero, Amounts
<1>5. \A i \in P : /\ o[i].domain = "operational_issue"
                   /\ o[i].amount \in Nat /\ o[i].at \in Dates
  BY IssueAmount, DatesAre DEF Claim
<1>6. AllClaims(w) = {c \in F \cup R \cup O : DateInRange(c.at, w)}
  BY DEF AllClaims
<1> HIDE DEF F, R, O, M, P, f, r, o
<1>7. IsFiniteSet(F) /\ IsFiniteSet(R) /\ IsFiniteSet(O)
  BY <1>1, <1>2, FiniteImage
<1>8. IsFiniteSet(F \cup R \cup O)
  BY <1>7, FS_Union
<1>9. IsFiniteSet(AllClaims(w))
  BY <1>6, <1>8, FS_Subset
<1>10. \A c \in F \cup R \cup O : /\ c.domain \in ExposureDomains /\ c.at \in Dates
                                  /\ c.amount \in Nat
                                  /\ c.domain = "fraud_anomaly" => c.rail = None
  BY <1>2, <1>3, <1>4, <1>5 DEF ExposureDomains
<1> QED
  BY <1>6, <1>9, <1>10 DEF Priced, Amounts

\* The three domains.
LEMMA DomainsFinite == IsFiniteSet(ExposureDomains)
<1> DEFINE A == {"fraud_anomaly"}
           B == {"reconciliation_break"}
           C == {"operational_issue"}
<1>1. IsFiniteSet(A) /\ IsFiniteSet(B) /\ IsFiniteSet(C)
  BY FS_Singleton
<1>2. ExposureDomains = A \cup (B \cup C)
  BY DEF ExposureDomains
<1> HIDE DEF A, B, C
<1>3. IsFiniteSet(B \cup C)
  BY <1>1, FS_Union
<1> QED
  BY <1>1, <1>2, <1>3, FS_Union

\* The amounts by domain are all amounts.
LEMMA DomainsSum ==
    ASSUME NEW S, IsFiniteSet(S), Priced(S), \A c \in S : c.domain \in ExposureDomains
    PROVE  CountOf(ByDomain(S)) = SumAmounts(S)
<1> DEFINE a == [x \in S |-> Amount(x)]
           f == [x \in S |-> x.domain]
           b == ByDomain(S)
<1>1. /\ \A s \in SUBSET S : SumAmounts(s) = SumFunctionOnSet(a, s)
      /\ Whole(a, S)
  BY PricedSum
<1> HIDE DEF a
<1>2. Keyed(S, f, ExposureDomains)
  BY DEF Keyed
<1>3. DOMAIN b = ExposureDomains /\ Shares(b, ExposureDomains, f, a, S)
  <2> SUFFICES ASSUME NEW d \in ExposureDomains PROVE b[d] = SumFunctionOnSet(a, With(S, f, {d}))
    BY DEF Shares, ByDomain
  <2>1. With(S, f, {d}) = {c \in S : c.domain = d} /\ With(S, f, {d}) \in SUBSET S
    BY DEF With
  <2>2. b[d] = SumAmounts({c \in S : c.domain = d})
    BY DEF ByDomain
  <2> QED
    BY <1>1, <2>1, <2>2
<1> HIDE DEF f, b
<1>4. SumFunctionOnSet(b, ExposureDomains) = SumFunctionOnSet(a, S)
  BY <1>1, <1>2, <1>3, DomainsFinite, SumByKey
<1> QED
  BY <1>1, <1>3, <1>4, CountIs DEF b

\* What is mitigated and the residual are all, of all claims and of one domain.
LEMMA ProgressAddsUp ==
    ASSUME NEW S, IsFiniteSet(S), Priced(S)
    PROVE  SumAmounts({c \in S : Residual(c)}) + SumAmounts({c \in S : Mitigated(c)}) = SumAmounts(S)
<1> DEFINE A == {c \in S : Residual(c)}
           B == {c \in S : Mitigated(c)}
<1>1. A \cup B = S /\ A \cap B = {}
  BY DEF Residual
<1>2. IsFiniteSet(A) /\ IsFiniteSet(B)
  BY FS_Subset
<1> HIDE DEF A, B
<1>3. SumAmounts(A \cup B) = SumAmounts(A) + SumAmounts(B)
  BY <1>1, <1>2, SplitSum
<1>4. SumAmounts(A \cup B) = SumAmounts(S)
  BY <1>1, Zenon
<1> QED
  BY <1>3, <1>4 DEF A, B

\* The same in each domain.
LEMMA DomainProgress ==
    ASSUME Stored, Listed, NEW w, NEW d \in ExposureDomains
    PROVE  LET parts == GetMitigationProgressByDomain(w) IN
           parts.residual[d] + parts.mitigated[d] = GetExposureByDomain(w)[d]
<1> DEFINE S == {c \in AllClaims(w) : c.domain = d}
           A == {c \in {x \in AllClaims(w) : Residual(x)} : c.domain = d}
           B == {c \in {x \in AllClaims(w) : Mitigated(x)} : c.domain = d}
<1>1. IsFiniteSet(S) /\ Priced(S)
  BY ClaimsAre, FS_Subset DEF Priced
<1>2. A = {c \in S : Residual(c)} /\ B = {c \in S : Mitigated(c)}
  OBVIOUS
<1>3. /\ GetMitigationProgressByDomain(w).residual[d] = SumAmounts(A)
      /\ GetMitigationProgressByDomain(w).mitigated[d] = SumAmounts(B)
      /\ GetExposureByDomain(w)[d] = SumAmounts(S)
  BY DEF GetMitigationProgressByDomain, GetExposureByDomain, ByDomain
<1> HIDE DEF S
<1>4. SumAmounts({c \in S : Residual(c)}) + SumAmounts({c \in S : Mitigated(c)}) = SumAmounts(S)
  BY <1>1, ProgressAddsUp
<1> HIDE DEF A, B
<1> QED
  BY <1>2, <1>3, <1>4

\* The weeks have the dated amounts; of a bounded range all claims are dated.
LEMMA TrendAddsUp ==
    ASSUME Stored, Listed, NEW w \in Windows,
           NEW undated, undated = {c \in AllClaims(w) : c.at = None}
    PROVE  /\ CountOf(GetExposureTrend(w)) + SumAmounts(undated) = SumAmounts(AllClaims(w))
           /\ w # Everything => undated = {}
<1> DEFINE dated == {c \in AllClaims(w) : c.at # None}
           f == [c \in dated |-> WeekOf(c.at)]
           g == GetExposureTrend(w)
<1>1. dated \cup undated = AllClaims(w) /\ dated \cap undated = {}
  OBVIOUS
<1>2. IsFiniteSet(dated) /\ IsFiniteSet(undated) /\ Priced(dated) /\ Priced(dated \cup undated)
  BY ClaimsAre, FS_Subset DEF Priced
<1>3. SumsBy(g, f, dated) /\ DOMAIN f = dated
  BY DEF SumsBy, GetExposureTrend
<1>4. w # Everything => ~Unbounded(w)
  BY WindowAssumption DEF Unbounded, Everything
<1>5. w # Everything => undated = {}
  BY <1>4, ClaimsAre DEF DateInRange
<1> HIDE DEF dated, f, g
<1>6. CountOf(g) = SumAmounts(dated)
  BY <1>2, <1>3, SummedBy
<1>7. SumAmounts(dated \cup undated) = SumAmounts(dated) + SumAmounts(undated)
  BY <1>1, <1>2, SplitSum
<1>8. SumAmounts(dated \cup undated) = SumAmounts(AllClaims(w))
  BY <1>1, Zenon
<1> QED
  BY <1>5, <1>6, <1>7, <1>8 DEF g

\* The rails are charged with what is not a party's.
LEMMA RailsAddUp ==
    ASSUME Stored, Listed, NEW w
    PROVE  CountOf(GetExposureByRail(w))
           <= SumAmounts(AllClaims(w)) - GetExposureByDomain(w)["fraud_anomaly"]
<1> DEFINE S == OnRail(w)
           F == {c \in AllClaims(w) : c.domain = "fraud_anomaly"}
           N == AllClaims(w) \ F
           f == [c \in S |-> c.rail]
           g == GetExposureByRail(w)
<1>1. F \cup N = AllClaims(w) /\ F \cap N = {} /\ S \in SUBSET N
  BY ClaimsAre DEF OnRail
<1>2. /\ IsFiniteSet(F) /\ IsFiniteSet(N) /\ IsFiniteSet(S)
      /\ Priced(S) /\ Priced(N) /\ Priced(F) /\ Priced(F \cup N)
  BY ClaimsAre, FS_Subset DEF Priced, OnRail
<1>3. SumsBy(g, f, S) /\ DOMAIN f = S
  BY DEF SumsBy, GetExposureByRail
<1>4. GetExposureByDomain(w)["fraud_anomaly"] = SumAmounts(F)
  BY DEF GetExposureByDomain, ByDomain, ExposureDomains
<1> HIDE DEF S, F, N, f, g
<1>5. CountOf(g) = SumAmounts(S)
  BY <1>2, <1>3, SummedBy
<1>6. SumAmounts(F \cup N) = SumAmounts(F) + SumAmounts(N)
  BY <1>1, <1>2, SplitSum
<1>7. SumAmounts(F \cup N) = SumAmounts(AllClaims(w))
  BY <1>1, Zenon
<1>8. SumAmounts(S) <= SumAmounts(N) /\ SumAmounts(S) \in Nat
  BY <1>1, <1>2, PartSum
<1>9. SumAmounts(F) \in Nat /\ SumAmounts(N) \in Nat
  BY <1>2, PartSum
<1> QED
  BY <1>4, <1>5, <1>6, <1>7, <1>8, <1>9 DEF g

\* A claim of the heatmap is a break or an issue of the range.
LEMMA HeatmapAddsUp ==
    ASSUME Stored, Listed, NEW w
    PROVE  CountOf(GetAnomalyHeatmap(w)) <= Cardinality(BreaksIn(w)) + Cardinality(IssuesIn(w))
<1> DEFINE S == {c \in OnRail(w) : c.domain # "fraud_anomaly"}
           f == [c \in S |-> <<c.rail, c.domain>>]
           g == GetAnomalyHeatmap(w)
           RailOfFirst(i) == IF First(EventsOf(i)) = None THEN None ELSE First(EventsOf(i)).rail
           r == [b \in BreaksIn(w) |->
                   Claim("reconciliation_break", b, OrZero(b.amount), b.rail, ReconciliationBreakDate(b))]
           o == [i \in IssuesIn(w) |->
                   Claim("operational_issue", i, SumAmounts(EventsAt(EventsOf(i))),
                         RailOfFirst(i), ParseOccurred(First(EventsOf(i))))]
           R == {c \in S : c.domain = "reconciliation_break"}
           O == {c \in S : c.domain = "operational_issue"}
<1>1. IsFiniteSet(S)
  BY ClaimsAre, FS_Subset DEF OnRail
<1>2. CountsBy(g, f, S) /\ DOMAIN f = S
  BY DEF CountsBy, GetAnomalyHeatmap
<1>3. R \in SUBSET {r[b] : b \in BreaksIn(w)} /\ DOMAIN r = BreaksIn(w)
  BY DEF OnRail, AllClaims, FraudAnomalyClaims, ReconciliationClaims, OperationalClaims, BreaksIn, Claim
<1>4. O \in SUBSET {o[i] : i \in IssuesIn(w)} /\ DOMAIN o = IssuesIn(w)
  <2> SUFFICES ASSUME NEW c \in O PROVE \E i \in IssuesIn(w) : c = o[i]
    OBVIOUS
  <2>1. c \in OperationalClaims /\ DateInRange(c.at, w)
    BY DEF OnRail, AllClaims, FraudAnomalyClaims, ReconciliationClaims, Claim
  <2>2. PICK i \in issues : /\ i.type \notin PartyIssues
                            /\ c = Claim("operational_issue", i, SumAmounts(EventsAt(EventsOf(i))),
                                         RailOfFirst(i), ParseOccurred(First(EventsOf(i))))
    BY <2>1 DEF OperationalClaims
  <2>3. i \in IssuesIn(w)
    BY <2>1, <2>2, DatesAre DEF IssuesIn, Claim
  <2> QED
    BY <2>2, <2>3
<1>5. S = R \cup O
  BY ClaimsAre DEF OnRail, ExposureDomains
<1>6. IsFiniteSet(BreaksIn(w)) /\ IsFiniteSet(IssuesIn(w))
  BY InRangeFinite
<1> HIDE DEF S, f, g, r, o, R, O
<1>7. CountOf(g) = Cardinality(S)
  BY <1>1, <1>2, CountedBy
<1>8. /\ Cardinality(R) <= Cardinality(BreaksIn(w)) /\ IsFiniteSet(R)
      /\ Cardinality(R) \in Nat /\ Cardinality(BreaksIn(w)) \in Nat
  BY <1>3, <1>6, ImageFewer
<1>9. /\ Cardinality(O) <= Cardinality(IssuesIn(w)) /\ IsFiniteSet(O)
      /\ Cardinality(O) \in Nat /\ Cardinality(IssuesIn(w)) \in Nat
  BY <1>4, <1>6, ImageFewer
<1>10. Cardinality(R \cup O) <= Cardinality(R) + Cardinality(O) /\ Cardinality(R \cup O) \in Nat
  <2>1. /\ IsFiniteSet(R \cup O)
        /\ Cardinality(R \cup O) = Cardinality(R) + Cardinality(O) - Cardinality(R \cap O)
    BY <1>8, <1>9, FS_Union
  <2>2. IsFiniteSet(R \cap O)
    BY <1>8, FS_Intersection
  <2>3. Cardinality(R \cap O) \in Nat /\ Cardinality(R \cup O) \in Nat
    BY <2>1, <2>2, FS_CardinalityType
  <2> QED
    BY <1>8, <1>9, <2>1, <2>3
<1>11. Cardinality(S) = Cardinality(R \cup O)
  BY <1>5, Zenon
<1> QED
  BY <1>7, <1>8, <1>9, <1>10, <1>11 DEF g

\* A rail has no more impacted than it moved, nor than its claims amount to.
LEMMA ValuesSplit ==
    ASSUME Stored, Listed, NEW w, NEW r \in DOMAIN GetPaymentValueByRail(w)
    PROVE  LET value == GetPaymentValueByRail(w)[r] IN
           value.protected >= 0 /\ value.impacted <= Sum(GetExposureByRail(w), {r})
<1> DEFINE V == {e \in {x \in EventsIn(w) : x.amount # None} : e.rail = r}
           B == {c \in ReconciliationClaims : c.rail = r /\ DateInRange(c.at, w)}
           C == {c \in OnRail(w) : c.rail = r}
           moved == SumAmounts(V)
           broken == SumAmounts(B)
           g == GetExposureByRail(w)
<1>1. /\ GetPaymentValueByRail(w)[r].impacted = Min({broken, moved})
      /\ GetPaymentValueByRail(w)[r].protected = moved - Min({broken, moved})
  BY DEF GetPaymentValueByRail
<1>2. V \subseteq ToSet(events) /\ r # None
  BY EventsAre DEF GetPaymentValueByRail, EventsIn
<1>3. IsFiniteSet(V) /\ Priced(V)
  BY <1>2, TablesFinite, EventsAre, FS_Subset DEF Priced
<1>4. B \in SUBSET C /\ C \in SUBSET AllClaims(w)
  BY <1>2 DEF OnRail, AllClaims
<1>5. IsFiniteSet(C) /\ Priced(C)
  BY <1>4, ClaimsAre, FS_Subset DEF Priced
<1>6. /\ r \in DOMAIN g => g[r] = SumAmounts(C)
      /\ r \notin DOMAIN g => C = {}
  BY DEF GetExposureByRail
<1> HIDE DEF V, B, C, g
<1>7. moved \in Nat /\ broken \in Nat /\ broken <= SumAmounts(C) /\ SumAmounts(C) \in Nat
  BY <1>3, <1>4, <1>5, PartSum
<1> HIDE DEF moved, broken
<1>8. Min({broken, moved}) \in {broken, moved} /\ \A y \in {broken, moved} : Min({broken, moved}) <= y
  BY <1>7, MinIn
<1>9. Sum(g, {r}) = SumAmounts(C)
  <2>1. CASE r \in DOMAIN g
    <3>1. {r} \cap DOMAIN g = {r}
      BY <2>1
    <3>2. Whole(g, {r}) /\ IsFiniteSet({r})
      <4>1. g[r] \in Int
        BY <1>6, <1>7, <2>1
      <4> QED
        BY <4>1, FS_Singleton DEF Whole
    <3>3. SumFunctionOnSet(g, {r}) = g[r] + SumFunctionOnSet(g, {r} \ {r})
      BY <3>2, SumRemove
    <3>4. SumFunctionOnSet(g, {r}) = g[r] + SumFunctionOnSet(g, {})
      <4>1. {r} \ {r} = {}
        OBVIOUS
      <4> QED
        BY <3>3, <4>1, Zenon
    <3>5. SumFunctionOnSet(g, {r}) = g[r]
      BY <1>6, <1>7, <2>1, <3>4, SumEmpty
    <3> QED
      BY <1>6, <2>1, <3>1, <3>5, SumIsOn
  <2>2. CASE r \notin DOMAIN g
    <3>1. {r} \cap DOMAIN g = {} /\ C = {}
      BY <1>6, <2>2
    <3>2. Sum(g, {r}) = 0
      BY <3>1, SumIsOn, SumEmpty
    <3>3. SumAmounts({}) = 0
      BY FS_EmptySet, AmountsAre, SumEmpty
    <3> QED
      BY <3>1, <3>2, <3>3
  <2> QED
    BY <2>1, <2>2
<1> QED
  BY <1>1, <1>7, <1>8, <1>9 DEF g

\* MoneySplitsAlike for any amounts, claims and ranges: every split of the amounts behind the
\* claims has the same total.
THEOREM MoneyMatches == Spec => []MoneySplitsAlike
<1>1. Stored /\ Listed => MoneySplitsAlike
  <2> SUFFICES ASSUME Stored, Listed, NEW w \in Windows,
                      NEW undated, undated = {c \in AllClaims(w) : c.at = None}
               PROVE  /\ GetMitigationProgress(w).residual + GetMitigationProgress(w).mitigated
                         = CountOf(GetExposureByDomain(w))
                      /\ \A d \in ExposureDomains :
                            GetMitigationProgressByDomain(w).residual[d]
                            + GetMitigationProgressByDomain(w).mitigated[d] = GetExposureByDomain(w)[d]
                      /\ CountOf(GetExposureTrend(w)) + SumAmounts(undated)
                         = CountOf(GetExposureByDomain(w))
                      /\ w # Everything => undated = {}
                      /\ CountOf(GetExposureByRail(w))
                         <= CountOf(GetExposureByDomain(w)) - GetExposureByDomain(w)["fraud_anomaly"]
                      /\ CountOf(GetAnomalyHeatmap(w)) <= Cardinality(BreaksIn(w)) + Cardinality(IssuesIn(w))
                      /\ \A r \in DOMAIN GetPaymentValueByRail(w) :
                            /\ GetPaymentValueByRail(w)[r].protected >= 0
                            /\ GetPaymentValueByRail(w)[r].impacted <= Sum(GetExposureByRail(w), {r})
    BY DEF MoneySplitsAlike
  <2>1. CountOf(GetExposureByDomain(w)) = SumAmounts(AllClaims(w))
    BY ClaimsAre, DomainsSum DEF GetExposureByDomain
  <2>2. GetMitigationProgress(w).residual + GetMitigationProgress(w).mitigated = SumAmounts(AllClaims(w))
    BY ClaimsAre, ProgressAddsUp DEF GetMitigationProgress
  <2> QED
    BY <2>1, <2>2, DomainProgress, TrendAddsUp, RailsAddUp, HeatmapAddsUp, ValuesSplit
<1> QED
  BY <1>1, TablesInv, PTL

-----------------------------------------------------------------------------
(* Cases and the clusters they are made of *)

Signals == OperationalSignals \cup ReconciliationSignals \cup FraudSignals
OfKind(kind) == {s \in Signals : KindOf(s) = kind}
ClustersNow  == UNION {Clusters(OfKind(kind)) : kind \in {KindOf(s) : s \in Signals}}

\* What compute_cases leaves, until a claim or an event changes: one case for every cluster.
CasesOfClusters ==
    aux_current =>
        /\ {c.alerts : c \in cases} = ClustersNow
        /\ \A c \in cases : c = [CreateCase(c.alerts) EXCEPT !.status = c.status]
        /\ \A c, d \in cases : c.alerts = d.alerts => c = d

\* Reviews and health scores are no part of a claim.
LEMMA SignalsKept ==
    ASSUME UNCHANGED <<events, issues, breaks, snapshots>>
    PROVE  ClustersNow' = ClustersNow
<1>1. /\ \A places : First(places)' = First(places)
      /\ \A i : EventsOf(i)' = EventsOf(i)
  BY DEF First, EventsOf, AllByTxn, AllByBatch
<1>2. \A i : IssueSize(i)' = IssueSize(i)
  BY <1>1 DEF IssueSize
<1>3. \A i : IssueScore(i)' = IssueScore(i)
  BY <1>2 DEF IssueScore, PercentileRank
<1>4. \A b : BreakScore(b)' = BreakScore(b)
  BY DEF BreakScore, PercentileRank, BreakSize
<1>5. OperationalSignals' = OperationalSignals
  BY <1>1, <1>3 DEF OperationalSignals, RailForIssue, IssueLevel
<1>6. ReconciliationSignals' = ReconciliationSignals
  BY <1>4 DEF ReconciliationSignals, BreakLevel
<1>7. FraudSignals' = FraudSignals
  BY DEF FraudSignals, MaterialSnapshots
<1>8. Signals' = Signals
  BY <1>5, <1>6, <1>7 DEF Signals
<1>9. \A kind : OfKind(kind)' = OfKind(kind)
  BY <1>8 DEF OfKind
<1> QED
  BY <1>8, <1>9 DEF ClustersNow

\* compute_cases makes one case for every cluster.
LEMMA ComputedCases ==
    ASSUME ComputeCases
    PROVE  CasesOfClusters'
<1>1. /\ cases' = {CreateCase(cluster) : cluster \in ClustersNow}
      /\ UNCHANGED <<events, issues, breaks, snapshots>>
  BY DEF ComputeCases, ClustersNow, OfKind, Signals, tables
<1>2. ClustersNow' = ClustersNow
  BY <1>1, SignalsKept
<1>3. \A c : /\ CreateCase(c).alerts = c
             /\ CreateCase(c) = [CreateCase(c) EXCEPT !.status = CreateCase(c).status]
  BY DEF CreateCase
<1>4. {c.alerts : c \in cases'} = ClustersNow
  BY <1>1, <1>3
<1>5. \A c \in cases' : c = [CreateCase(c.alerts) EXCEPT !.status = c.status]
  BY <1>1, <1>3
<1>6. \A c, d \in cases' : c.alerts = d.alerts => c = d
  BY <1>1, <1>3
<1> QED
  BY <1>2, <1>4, <1>5, <1>6 DEF CasesOfClusters

\* A validation changes the status of one case and nothing else of it.
LEMMA ValidatedCases ==
    ASSUME CasesOfClusters, NEW case \in cases, NEW status, Validate(case, status)
    PROVE  CasesOfClusters'
<1> DEFINE new == [case EXCEPT !.status = status]
<1>1. /\ cases' = (cases \ {case}) \cup {new}
      /\ UNCHANGED <<events, issues, breaks, snapshots, aux_current>>
  BY DEF Validate
<1>2. ClustersNow' = ClustersNow
  BY <1>1, SignalsKept
<1> SUFFICES ASSUME aux_current PROVE CasesOfClusters'
  BY <1>1 DEF CasesOfClusters
<1>3. /\ {c.alerts : c \in cases} = ClustersNow
      /\ \A c \in cases : c = [CreateCase(c.alerts) EXCEPT !.status = c.status]
      /\ \A c, d \in cases : c.alerts = d.alerts => c = d
  BY DEF CasesOfClusters
<1>4. /\ new.alerts = case.alerts
      /\ new = [CreateCase(case.alerts) EXCEPT !.status = new.status]
  <2> DEFINE made == CreateCase(case.alerts)
  <2>1. case = [made EXCEPT !.status = case.status]
    BY <1>3
  <2>2. made = [c \in DOMAIN made |-> made[c]] /\ "status" \in DOMAIN made
    BY DEF CreateCase
  <2> HIDE DEF made
  <2>3. case = [c \in DOMAIN made |-> IF c = "status" THEN case.status ELSE made[c]]
    BY <2>1, <2>2
  <2>4. new = [c \in DOMAIN made |-> IF c = "status" THEN status ELSE made[c]]
    BY <2>2, <2>3
  <2>5. new.status = status
    BY <2>2, <2>4
  <2>6. new.alerts = case.alerts
    BY <2>3
  <2> QED
    BY <2>2, <2>4, <2>5, <2>6 DEF made
<1> HIDE DEF new
<1>5. {c.alerts : c \in cases'} = ClustersNow
  BY <1>1, <1>3, <1>4
<1>6. \A c \in cases' : c = [CreateCase(c.alerts) EXCEPT !.status = c.status]
  BY <1>1, <1>3, <1>4
<1>7. \A c, d \in cases' : c.alerts = d.alerts => c = d
  BY <1>1, <1>3, <1>4
<1> QED
  BY <1>2, <1>5, <1>6, <1>7 DEF CasesOfClusters

\* As long as no claim or event changes, every cluster has its case.
THEOREM CasesInv == Spec => []CasesOfClusters
<1>1. Init => CasesOfClusters
  BY DEF Init, CasesOfClusters
<1>2. CasesOfClusters /\ [Next]_vars => CasesOfClusters'
  <2> SUFFICES ASSUME CasesOfClusters, [Next]_vars PROVE CasesOfClusters'
    OBVIOUS
  <2>1. ASSUME Claimed PROVE CasesOfClusters'
    BY <2>1 DEF Claimed, CasesOfClusters
  <2>2. ASSUME UNCHANGED <<events, issues, breaks, snapshots, cases, aux_current>>
        PROVE  CasesOfClusters'
    BY <2>2, SignalsKept DEF CasesOfClusters
  <2>3. ASSUME NEW row \in Merges, Merge(row), Claimed PROVE CasesOfClusters'
    BY <2>1, <2>3
  <2>4. ASSUME Detect, Claimed PROVE CasesOfClusters'
    BY <2>1, <2>4
  <2>5. ASSUME NEW d \in Domains, NEW status \in {"PENDING", "CONFIRMED", "DISMISSED"},
               NEW id \in ClaimIds(Everything)[d], SetReview(d, id, status),
               UNCHANGED <<health, history, cases, aux_current>>
        PROVE  CasesOfClusters'
    BY <2>2, <2>5 DEF SetReview
  <2>6. ASSUME ComputeCases PROVE CasesOfClusters'
    BY <2>6, ComputedCases
  <2>7. ASSUME NEW case \in cases, NEW status \in DOMAIN ReviewFor, Validate(case, status)
        PROVE  CasesOfClusters'
    BY <2>7, ValidatedCases
  <2>8. ASSUME ComputeHealth, UNCHANGED <<cases, aux_current>> PROVE CasesOfClusters'
    BY <2>2, <2>8 DEF ComputeHealth, tables
  <2>9. ASSUME UNCHANGED vars PROVE CasesOfClusters'
    BY <2>2, <2>9 DEF vars, tables
  <2> QED
    BY <2>3, <2>4, <2>5, <2>6, <2>7, <2>8, <2>9 DEF Next
<1> QED
  BY <1>1, <1>2, PTL DEF Spec

\* A set of signals has times, and it is cut where no other follows within the window.
Timed(S)        == \A x \in S : x.at \in Int
Continued(S, x) == \E y \in S : y.at > x.at /\ y.at - x.at <= ClusterDays
Within(x, p, q) == p.at <= x.at /\ x.at < q.at

\* Two signals are in one chain if no cut is between them.
LEMMA ChainIs ==
    ASSUME NEW S, Timed(S), NEW p \in S, NEW q \in S
    PROVE  SameChain(S, p, q)
           <=> \A x \in S : Within(x, p, q) \/ Within(x, q, p) => Continued(S, x)
<1>1. p.at \in Int /\ q.at \in Int
  BY DEF Timed
<1>2. Min({p.at, q.at}) = IF p.at <= q.at THEN p.at ELSE q.at
  <2>1. \E x \in {p.at, q.at} : \A y \in {p.at, q.at} : x <= y
    BY <1>1
  <2>2. Min({p.at, q.at}) \in {p.at, q.at} /\ \A y \in {p.at, q.at} : Min({p.at, q.at}) <= y
    BY <2>1 DEF Min
  <2> QED
    BY <1>1, <2>2
<1>3. Max({p.at, q.at}) = IF p.at <= q.at THEN q.at ELSE p.at
  <2>1. \E x \in {p.at, q.at} : \A y \in {p.at, q.at} : x >= y
    BY <1>1
  <2>2. Max({p.at, q.at}) \in {p.at, q.at} /\ \A y \in {p.at, q.at} : Max({p.at, q.at}) >= y
    BY <2>1 DEF Max
  <2> QED
    BY <1>1, <2>2
<1>4. ASSUME NEW x \in S
      PROVE  (x.at >= Min({p.at, q.at}) /\ x.at < Max({p.at, q.at})) <=> Within(x, p, q) \/ Within(x, q, p)
  BY <1>1, <1>2, <1>3 DEF Timed, Within
<1> QED
  BY <1>4 DEF SameChain, Continued

\* To be in one chain is an equivalence.
LEMMA ChainsAre ==
    ASSUME NEW S, Timed(S), NEW p \in S, NEW q \in S
    PROVE  /\ SameChain(S, p, p)
           /\ SameChain(S, p, q) => SameChain(S, q, p)
           /\ SameChain(S, p, q) => \A r \in S : SameChain(S, q, r) => SameChain(S, p, r)
<1>1. SameChain(S, p, p)
  <2>1. \A x \in S : ~Within(x, p, p)
    BY DEF Timed, Within
  <2> QED
    BY <2>1, ChainIs
<1>2. SameChain(S, p, q) => SameChain(S, q, p)
  BY ChainIs
<1>3. ASSUME SameChain(S, p, q), NEW r \in S, SameChain(S, q, r) PROVE SameChain(S, p, r)
  <2>1. ASSUME NEW x \in S, Within(x, p, r) \/ Within(x, r, p) PROVE Continued(S, x)
    <3>1. \/ Within(x, p, q) \/ Within(x, q, p)
          \/ Within(x, q, r) \/ Within(x, r, q)
      BY <2>1 DEF Within, Timed
    <3> QED
      BY <1>3, <3>1, ChainIs
  <2> QED
    BY <2>1, ChainIs
<1> QED
  BY <1>1, <1>2, <1>3

\* The clusters of a set split it.
LEMMA ClustersSplit ==
    ASSUME NEW S, Timed(S)
    PROVE  /\ \A c \in Clusters(S) : c \in SUBSET S /\ c # {}
           /\ \A c, d \in Clusters(S) : c \cap d # {} => c = d
           /\ \A s \in S : \E c \in Clusters(S) : s \in c
<1>1. ASSUME NEW s \in S PROVE s \in {q \in S : SameChain(S, s, q)}
  BY ChainsAre
<1>2. \A c \in Clusters(S) : \E p \in S : c = {q \in S : SameChain(S, p, q)}
  BY DEF Clusters
<1>3. ASSUME NEW c \in Clusters(S), NEW d \in Clusters(S), c \cap d # {} PROVE c = d
  <2>1. PICK p \in S : c = {q \in S : SameChain(S, p, q)}
    BY <1>2
  <2>2. PICK r \in S : d = {q \in S : SameChain(S, r, q)}
    BY <1>2
  <2>3. PICK x \in S : SameChain(S, p, x) /\ SameChain(S, r, x)
    BY <1>3, <2>1, <2>2
  <2>4. SameChain(S, p, r) /\ SameChain(S, r, p)
    BY <2>3, ChainsAre
  <2>5. \A q \in S : SameChain(S, p, q) <=> SameChain(S, r, q)
    BY <2>4, ChainsAre
  <2> QED
    BY <2>1, <2>2, <2>5
<1>4. \A c \in Clusters(S) : c \in SUBSET S /\ c # {}
  BY <1>1, <1>2
<1>5. \A s \in S : {q \in S : SameChain(S, s, q)} \in Clusters(S)
  BY DEF Clusters
<1> QED
  BY <1>1, <1>3, <1>4, <1>5

-----------------------------------------------------------------------------
(* The signals *)

\* A percentile rank is a whole number.
LEMMA PercentIs ==
    ASSUME NEW S, IsFiniteSet(S), S # {}, NEW T \in SUBSET S
    PROVE  (100 * Point * Cardinality(T)) \div Cardinality(S) \in Int
<1>1. IsFiniteSet(T) /\ Cardinality(S) \in Nat /\ Cardinality(T) \in Nat /\ Cardinality(S) # 0
  BY FS_Subset, FS_CardinalityType, FS_EmptySet
<1> QED
  BY <1>1 DEF Point

\* So the score of an issue is one.
LEMMA IssueScored ==
    ASSUME Stored, Listed, NEW i \in issues
    PROVE  IssueScore(i) \in Int
<1>1. i.score \in Int \cup {None}
  BY ClaimAssumption DEF Listed
<1>2. CASE i.type \in PartyIssues /\ i.score # None
  BY <1>1, <1>2 DEF IssueScore
<1>3. CASE ~(i.type \in PartyIssues /\ i.score # None) /\ IssueSize(i) = None
  BY <1>3 DEF IssueScore, MidBand, Point
<1>4. CASE ~(i.type \in PartyIssues /\ i.score # None) /\ IssueSize(i) # None
  <2> DEFINE S == {x \in {y \in issues : y.type = i.type} : IssueSize(x) # None}
             T == {x \in S : IssueSize(x) <= IssueSize(i)}
  <2>1. IssueScore(i) = (100 * Point * Cardinality(T)) \div Cardinality(S)
    BY <1>4 DEF IssueScore, PercentileRank
  <2>2. IsFiniteSet(S) /\ i \in S /\ T \in SUBSET S
    BY <1>4, TablesFinite, FS_Subset
  <2> HIDE DEF S, T
  <2> QED
    BY <2>1, <2>2, PercentIs
<1> QED
  BY <1>2, <1>3, <1>4

\* And that of a break.
LEMMA BreakScored ==
    ASSUME Stored, Listed, NEW b \in breaks
    PROVE  BreakScore(b) \in Int
<1> DEFINE score == IF BreakSize(b) = None THEN MidBand ELSE PercentileRank(b, breaks, BreakSize)
<1>1. score \in Int
  <2>1. CASE BreakSize(b) = None
    BY <2>1 DEF MidBand, Point
  <2>2. CASE BreakSize(b) # None
    <3> DEFINE S == {x \in breaks : BreakSize(x) # None}
               T == {x \in S : BreakSize(x) <= BreakSize(b)}
    <3>1. score = (100 * Point * Cardinality(T)) \div Cardinality(S)
      BY <2>2 DEF PercentileRank
    <3>2. IsFiniteSet(S) /\ b \in S /\ T \in SUBSET S
      BY <2>2, TablesFinite, FS_Subset
    <3> HIDE DEF S, T, score
    <3> QED
      BY <3>1, <3>2, PercentIs
  <2> QED
    BY <2>1, <2>2
<1>2. BreakScore(b) = IF b.type = "CONFIRMED_BREAK" THEN Max({score, MidBand}) ELSE score
  BY DEF BreakScore
<1> HIDE DEF score
<1>3. Max({score, MidBand}) \in Int
  <2>1. \E x \in {score, MidBand} : \A y \in {score, MidBand} : x >= y
    BY <1>1 DEF MidBand, Point
  <2>2. Max({score, MidBand}) \in {score, MidBand}
    BY <2>1 DEF Max
  <2> QED
    BY <1>1, <2>2 DEF MidBand, Point
<1> QED
  BY <1>1, <1>2, <1>3

\* The signals of the three kinds, each that of one row.
IssueSignal(i) ==
    Signal("operational_issue", i, i.type, RailForIssue(i), Now,
           IF i.type \in TransactionIssues THEN i.ref ELSE None, None, IssueScore(i), IssueLevel(i))
BreakSignal(b) ==
    Signal("reconciliation_break", b, b.type, b.rail, Now, b.txn, Variance(b), BreakScore(b), BreakLevel(b))
FraudSignal(s) ==
    Signal("fraud_anomaly", s, s.band, OnlyRail(s), s.end, None, SnapshotTotal(s), BandScore[s.band], s.band)
Dated == {x \in MaterialSnapshots : x.end # None}

\* What compute_cases collects, row by row.
LEMMA SignalsAre ==
    /\ OperationalSignals = {IssueSignal(i) : i \in issues}
    /\ ReconciliationSignals = {BreakSignal(b) : b \in breaks}
    /\ FraudSignals = {FraudSignal(s) : s \in Dated}
  BY DEF OperationalSignals, ReconciliationSignals, FraudSignals, IssueSignal, BreakSignal, FraudSignal, Dated

\* The level of a signal is that of the score before it was rounded.
Scored(s) == \E exact \in Int : s.score = Rounded(exact) /\ s.level = Level(exact)

\* A signal has a time, an id, a score and a level.
LEMMA SignalIs ==
    ASSUME Stored, Listed
    PROVE  /\ Timed(Signals)
           /\ \A s \in Signals : s.id \in Int /\ s.score \in Int /\ Scored(s)
<1>1. ASSUME NEW i \in issues
      PROVE  IssueSignal(i).at \in Int /\ IssueSignal(i).id \in Int /\ Scored(IssueSignal(i))
  <2>1. /\ IssueSignal(i).at = Now /\ IssueSignal(i).id = i.id
        /\ IssueSignal(i).score = Rounded(IssueScore(i))
        /\ IssueSignal(i).level = Level(IssueScore(i))
    BY DEF IssueSignal, Signal, IssueLevel
  <2>2. i.id \in Int /\ Now \in Int
    BY RowAssumption, BoundAssumption DEF Listed
  <2> QED
    BY <2>1, <2>2, IssueScored DEF Scored
<1>2. ASSUME NEW b \in breaks
      PROVE  BreakSignal(b).at \in Int /\ BreakSignal(b).id \in Int /\ Scored(BreakSignal(b))
  <2>1. /\ BreakSignal(b).at = Now /\ BreakSignal(b).id = b.id
        /\ BreakSignal(b).score = Rounded(BreakScore(b))
        /\ BreakSignal(b).level = Level(BreakScore(b))
    BY DEF BreakSignal, Signal, BreakLevel
  <2>2. b.id \in Int /\ Now \in Int
    BY RowAssumption, BoundAssumption DEF Listed
  <2> QED
    BY <2>1, <2>2, BreakScored DEF Scored
<1>3. ASSUME NEW x \in Dated
      PROVE  FraudSignal(x).at \in Int /\ FraudSignal(x).id \in Int /\ Scored(FraudSignal(x))
  <2>1. x.end \in Int /\ x.band \in Material /\ x.id \in Int
    BY ClaimAssumption, RowAssumption DEF Dated, MaterialSnapshots, Listed, Dates
  <2>2. BandScore[x.band] \in Int /\ x.band = Level(BandScore[x.band])
    BY <2>1 DEF BandScore, Material, Level, Point
  <2>3. /\ FraudSignal(x).at = x.end /\ FraudSignal(x).id = x.id
        /\ FraudSignal(x).score = Rounded(BandScore[x.band])
        /\ FraudSignal(x).level = x.band
    BY DEF FraudSignal, Signal
  <2> QED
    BY <2>1, <2>2, <2>3 DEF Scored
<1>4. \A s : Scored(s) => s.score \in Int
  BY DEF Scored, Rounded
<1> QED
  BY <1>1, <1>2, <1>3, <1>4, SignalsAre DEF Signals, Timed

\* One signal for each row of each kind.
LEMMA SignalsCount ==
    ASSUME Stored, Listed
    PROVE  /\ IsFiniteSet(Signals)
           /\ Cardinality(Signals) = Cardinality(issues) + Cardinality(breaks) + Cardinality(Dated)
<1> DEFINE o == [i \in issues |-> IssueSignal(i)]
           r == [b \in breaks |-> BreakSignal(b)]
           f == [s \in Dated |-> FraudSignal(s)]
           O == OperationalSignals
           R == ReconciliationSignals
           F == FraudSignals
<1>1. /\ O = {o[i] : i \in issues} /\ DOMAIN o = issues
      /\ R = {r[b] : b \in breaks} /\ DOMAIN r = breaks
      /\ F = {f[s] : s \in Dated} /\ DOMAIN f = Dated
  BY SignalsAre
<1>2. IsFiniteSet(issues) /\ IsFiniteSet(breaks) /\ IsFiniteSet(Dated)
  BY TablesFinite, FS_Subset DEF Dated, MaterialSnapshots
<1>3. \A i, j \in issues : o[i] = o[j] => i = j
  <2>1. \A i \in issues : o[i].id = i.id
    BY DEF IssueSignal, Signal
  <2> HIDE DEF o
  <2> QED
    BY <2>1, TablesNumbered DEF Numbered
<1>4. \A i, j \in breaks : r[i] = r[j] => i = j
  <2>1. \A i \in breaks : r[i].id = i.id
    BY DEF BreakSignal, Signal
  <2> HIDE DEF r
  <2> QED
    BY <2>1, TablesNumbered DEF Numbered
<1>5. \A i, j \in Dated : f[i] = f[j] => i = j
  <2>1. \A i \in Dated : f[i].id = i.id
    BY DEF FraudSignal, Signal
  <2> HIDE DEF f
  <2> QED
    BY <2>1, TablesNumbered DEF Numbered, Dated, MaterialSnapshots
<1>6. O \cap R = {} /\ (O \cup R) \cap F = {}
  <2>1. /\ \A s \in O : s.domain = "operational_issue"
        /\ \A s \in R : s.domain = "reconciliation_break"
        /\ \A s \in F : s.domain = "fraud_anomaly"
    BY SignalsAre DEF IssueSignal, BreakSignal, FraudSignal, Signal
  <2> HIDE DEF O, R, F
  <2> QED
    BY <2>1
<1> HIDE DEF o, r, f, O, R, F
<1>7. /\ Cardinality(O) = Cardinality(issues) /\ Cardinality(R) = Cardinality(breaks)
      /\ Cardinality(F) = Cardinality(Dated)
  BY <1>1, <1>2, <1>3, <1>4, <1>5, ImageCount
<1>8. IsFiniteSet(O) /\ IsFiniteSet(R) /\ IsFiniteSet(F)
  BY <1>1, <1>2, FiniteImage
<1>9. \A A, B : IsFiniteSet(A) /\ IsFiniteSet(B) /\ A \cap B = {}
                => /\ IsFiniteSet(A \cup B)
                   /\ Cardinality(A \cup B) = Cardinality(A) + Cardinality(B)
  <2> SUFFICES ASSUME NEW A, NEW B, IsFiniteSet(A), IsFiniteSet(B), A \cap B = {}
               PROVE  /\ IsFiniteSet(A \cup B)
                      /\ Cardinality(A \cup B) = Cardinality(A) + Cardinality(B)
    OBVIOUS
  <2>1. /\ IsFiniteSet(A \cup B)
        /\ Cardinality(A \cup B) = Cardinality(A) + Cardinality(B) - Cardinality(A \cap B)
    BY FS_Union
  <2>2. Cardinality(A \cap B) = 0
    BY FS_EmptySet
  <2>3. Cardinality(A) \in Nat /\ Cardinality(B) \in Nat
    BY FS_CardinalityType
  <2> QED
    BY <2>1, <2>2, <2>3
<1>10. /\ IsFiniteSet(O \cup R)
       /\ Cardinality(O \cup R) = Cardinality(O) + Cardinality(R)
  BY <1>6, <1>8, <1>9
<1>11. /\ IsFiniteSet((O \cup R) \cup F)
       /\ Cardinality((O \cup R) \cup F) = Cardinality(O \cup R) + Cardinality(F)
  BY <1>6, <1>8, <1>9, <1>10
<1>12. Signals = (O \cup R) \cup F
  BY DEF Signals, O, R, F
<1> QED
  BY <1>7, <1>10, <1>11, <1>12, Zenon

-----------------------------------------------------------------------------
(* The cases that were just computed *)

\* The clusters of all kinds: each is of one kind, and every signal is in exactly one.
LEMMA ClustersAre ==
    ASSUME Stored, Listed
    PROVE  /\ \A c \in ClustersNow : /\ c \in SUBSET Signals /\ c # {}
                                     /\ \A p, q \in c : KindOf(p) = KindOf(q)
           /\ \A c, d \in ClustersNow : c \cap d # {} => c = d
           /\ \A s \in Signals : \E c \in ClustersNow : s \in c
<1>1. \A kind : Timed(OfKind(kind))
  BY SignalIs DEF OfKind, Timed
<1>2. \A c \in ClustersNow : \E kind : c \in Clusters(OfKind(kind))
  BY DEF ClustersNow
<1>3. \A kind : \A c \in Clusters(OfKind(kind)) : c \in SUBSET OfKind(kind) /\ c # {}
  BY <1>1, ClustersSplit
<1>4. ASSUME NEW c \in ClustersNow
      PROVE  /\ c \in SUBSET Signals /\ c # {}
             /\ \A p, q \in c : KindOf(p) = KindOf(q)
  <2>1. PICK kind : c \in Clusters(OfKind(kind))
    BY <1>2
  <2>2. c \in SUBSET OfKind(kind) /\ c # {}
    BY <1>3, <2>1
  <2> QED
    BY <2>2 DEF OfKind
<1>5. ASSUME NEW c \in ClustersNow, NEW d \in ClustersNow, c \cap d # {}
      PROVE  c = d
  <2>1. PICK k : c \in Clusters(OfKind(k))
    BY <1>2
  <2>2. PICK l : d \in Clusters(OfKind(l))
    BY <1>2
  <2>3. PICK x : x \in c /\ x \in d
    BY <1>5
  <2>4. x \in OfKind(k) /\ x \in OfKind(l)
    BY <1>3, <2>1, <2>2, <2>3
  <2>5. k = l
    BY <2>4 DEF OfKind
  <2>6. c \in Clusters(OfKind(k)) /\ d \in Clusters(OfKind(k))
    BY <2>1, <2>2, <2>5
  <2> QED
    BY <1>1, <1>5, <2>6, ClustersSplit
<1>6. ASSUME NEW s \in Signals PROVE \E c \in ClustersNow : s \in c
  <2>1. s \in OfKind(KindOf(s)) /\ KindOf(s) \in {KindOf(x) : x \in Signals}
    BY DEF OfKind
  <2>2. PICK c \in Clusters(OfKind(KindOf(s))) : s \in c
    BY <1>1, <2>1, ClustersSplit
  <2> QED
    BY <2>1, <2>2 DEF ClustersNow
<1> QED
  BY <1>4, <1>5, <1>6

\* The worst of some signals is one of them, and none has a higher score.
LEMMA WorstIs ==
    ASSUME Stored, Listed, NEW S \in SUBSET Signals, S # {}
    PROVE  Worst(S) \in S /\ \A q \in S : q.score <= Worst(S).score
<1> DEFINE a == [x \in S |-> x.score]
           b == [x \in S |-> -x.at]
           c == [x \in S |-> -x.id]
           Top   == {x \in S : \A y \in S : y.score <= x.score}
           Soonest == {x \in Top : \A y \in Top : x.at <= y.at}
<1>1. IsFiniteSet(S) /\ \A x \in S : x.score \in Int /\ x.at \in Int /\ x.id \in Int
  BY SignalsCount, SignalIs, FS_Subset DEF Timed
<1>2. IsFiniteSet(Top) /\ Top \subseteq S /\ Top # {}
  <2>1. \E x \in S : \A y \in S : a[y] <= a[x]
    BY <1>1, TopExists DEF Whole
  <2> QED
    BY <1>1, <2>1, FS_Subset
<1>3. IsFiniteSet(Soonest) /\ Soonest \subseteq Top /\ Soonest # {}
  <2>1. Whole(b, Top)
    BY <1>1, <1>2 DEF Whole
  <2>2. PICK x \in Top : \A y \in Top : b[y] <= b[x]
    BY <1>2, <2>1, TopExists
  <2>3. \A y \in Top : x.at <= y.at
    BY <1>1, <1>2, <2>2
  <2> QED
    BY <1>2, <2>3, FS_Subset
<1>4. PICK x \in Soonest : \A y \in Soonest : x.id <= y.id
  <2>1. Whole(c, Soonest)
    BY <1>1, <1>2, <1>3 DEF Whole
  <2>2. PICK x \in Soonest : \A y \in Soonest : c[y] <= c[x]
    BY <1>3, <2>1, TopExists
  <2>3. \A y \in Soonest : x.id <= y.id
    BY <1>1, <1>2, <1>3, <2>2
  <2> QED
    BY <2>3
<1>5. x \in Top /\ x \in S
  BY <1>2, <1>3
<1>6. ASSUME NEW y \in S PROVE y.score < x.score \/ (y.score = x.score /\ Ahead(x, y))
  <2>1. CASE y \notin Top
    <3>1. PICK z \in S : ~(z.score <= y.score)
      BY <2>1
    <3> QED
      BY <1>1, <1>5, <3>1
  <2>2. CASE y \in Top /\ y \notin Soonest
    <3>1. y.score = x.score
      BY <1>1, <1>5, <2>2
    <3>2. PICK z \in Top : ~(y.at <= z.at)
      BY <2>2
    <3>3. x.at <= z.at
      BY <1>4, <3>2
    <3> QED
      BY <1>1, <1>2, <1>5, <3>1, <3>2, <3>3 DEF Ahead
  <2>3. CASE y \in Soonest
    <3>1. y \in Top /\ x.at <= y.at /\ y.at <= x.at
      BY <1>3, <1>4, <1>5, <2>3
    <3>2. y.score <= x.score /\ x.score <= y.score
      BY <1>5, <3>1
    <3>3. y.at = x.at
      BY <1>1, <1>5, <3>1
    <3>4. y.score = x.score
      BY <1>1, <1>5, <3>2
    <3> QED
      BY <1>4, <2>3, <3>3, <3>4 DEF Ahead
  <2> QED
    BY <2>1, <2>2, <2>3
<1> HIDE DEF a, b, c, Top, Soonest
<1>7. /\ Worst(S) \in S
      /\ \A q \in S : q.score < Worst(S).score \/ (q.score = Worst(S).score /\ Ahead(Worst(S), q))
  BY <1>5, <1>6 DEF Worst
<1> QED
  BY <1>1, <1>7

\* A case is that of its cluster: its category, rail and level are those of the worst signal.
LEMMA CaseIs ==
    ASSUME Stored, Listed, CasesOfClusters, aux_current, NEW c \in cases
    PROVE  /\ c.alerts \in ClustersNow /\ c.alerts \in SUBSET Signals /\ c.alerts # {}
           /\ \A a \in c.alerts : KindOf(a) = KindOf(c)
           /\ \E worst \in c.alerts : /\ c.level = worst.level /\ c.score = worst.score
                                      /\ \A a \in c.alerts : a.score <= worst.score
<1> DEFINE A == c.alerts
           worst == Worst(A)
<1>1. A \in ClustersNow
  BY DEF CasesOfClusters
<1>2. A \in SUBSET Signals /\ A # {} /\ \A p, q \in A : KindOf(p) = KindOf(q)
  BY <1>1, ClustersAre
<1>3. c = [CreateCase(A) EXCEPT !.status = c.status]
  BY DEF CasesOfClusters
<1> HIDE DEF A
<1>4. worst \in A /\ \A q \in A : q.score <= worst.score
  BY <1>2, WorstIs
<1>5. /\ c.category = worst.category /\ c.rail = worst.rail
      /\ c.level = worst.level /\ c.score = worst.score
  BY <1>3 DEF CreateCase
<1>6. KindOf(c) = KindOf(worst)
  BY <1>5 DEF KindOf
<1> HIDE DEF worst
<1> QED
  BY <1>1, <1>2, <1>4, <1>5, <1>6 DEF A

\* No claim is in two cases.
LEMMA CasesApart ==
    ASSUME Stored, Listed, CasesOfClusters, aux_current, NEW c \in cases, NEW d \in cases, c # d
    PROVE  c.alerts \cap d.alerts = {}
<1>1. c.alerts # d.alerts
  BY DEF CasesOfClusters
<1>2. c.alerts \in ClustersNow /\ d.alerts \in ClustersNow
  BY CaseIs
<1> QED
  BY <1>1, <1>2, ClustersAre

\* The alerts of a category on a rail are all its signals.
LEMMA AlertsAre ==
    ASSUME Stored, Listed, CasesOfClusters, aux_current
    PROVE  /\ \A kind : AlertsOf(kind) = OfKind(kind)
           /\ Kinds = {KindOf(s) : s \in Signals}
<1>1. \A s \in Signals : \E c \in cases : s \in c.alerts
  <2> SUFFICES ASSUME NEW s \in Signals PROVE \E c \in cases : s \in c.alerts
    OBVIOUS
  <2>1. PICK A \in ClustersNow : s \in A
    BY ClustersAre
  <2>2. A \in {c.alerts : c \in cases}
    BY <2>1 DEF CasesOfClusters
  <2> QED
    BY <2>1, <2>2
<1>2. ASSUME NEW kind PROVE AlertsOf(kind) = OfKind(kind)
  <2>1. \A s \in AlertsOf(kind) : s \in OfKind(kind)
    BY CaseIs DEF AlertsOf, OfKind
  <2>2. \A s \in OfKind(kind) : s \in AlertsOf(kind)
    BY <1>1, CaseIs DEF AlertsOf, OfKind
  <2> QED
    BY <2>1, <2>2
<1>3. \A k \in Kinds : k \in {KindOf(s) : s \in Signals}
  BY CaseIs DEF Kinds
<1>4. \A k \in {KindOf(s) : s \in Signals} : k \in Kinds
  BY <1>1, CaseIs DEF Kinds
<1> QED
  BY <1>2, <1>3, <1>4

\* Every claim is in a case, and in one of one kind.
LEMMA AlertsCount ==
    ASSUME Stored, Listed, CasesOfClusters, aux_current
    PROVE  CountOf([k \in Kinds |-> Cardinality(AlertsOf(k))])
           = Cardinality(issues) + Cardinality(breaks) + Cardinality({s \in MaterialSnapshots : s.end # None})
<1> DEFINE f == [s \in Signals |-> KindOf(s)]
           c == [k \in Kinds |-> Cardinality(AlertsOf(k))]
<1>1. CountsBy(c, f, Signals)
  <2>1. DOMAIN c = {f[s] : s \in Signals}
    BY AlertsAre
  <2>2. ASSUME NEW k \in Kinds PROVE c[k] = Cardinality({s \in Signals : f[s] = k})
    <3>1. AlertsOf(k) = {s \in Signals : f[s] = k}
      BY AlertsAre DEF OfKind
    <3> QED
      BY <3>1
  <2> QED
    BY <2>1, <2>2 DEF CountsBy
<1>2. DOMAIN f = Signals
  OBVIOUS
<1> HIDE DEF f, c
<1>3. CountOf(c) = Cardinality(Signals)
  BY <1>1, <1>2, CountedBy, SignalsCount
<1> QED
  BY <1>3, SignalsCount DEF c, Dated

\* A score that is higher after rounding has no lower level.
LEMMA LevelGrows ==
    ASSUME NEW p \in Int, NEW q \in Int, Rounded(p) < Rounded(q)
    PROVE  Urgency[Level(p)] <= Urgency[Level(q)]
<1>1. p < q
  BY DEF Rounded
<1> QED
  BY <1>1 DEF Urgency, Level, Point

\* A case is as urgent as each of its claims with another score.
LEMMA CaseUrgent ==
    ASSUME Stored, Listed, CasesOfClusters, aux_current, NEW c \in cases, NEW a \in c.alerts
    PROVE  Urgency[a.level] <= Urgency[c.level] \/ a.score = c.score
<1>1. PICK worst \in c.alerts : /\ c.level = worst.level /\ c.score = worst.score
                                /\ \A q \in c.alerts : q.score <= worst.score
  BY CaseIs
<1>2. a \in Signals /\ worst \in Signals
  BY CaseIs
<1>3. a.score \in Int /\ worst.score \in Int
  BY <1>2, SignalIs
<1>4. PICK p \in Int : a.score = Rounded(p) /\ a.level = Level(p)
  BY <1>2, SignalIs DEF Scored
<1>5. PICK q \in Int : worst.score = Rounded(q) /\ worst.level = Level(q)
  BY <1>2, SignalIs DEF Scored
<1>6. a.score = worst.score \/ a.score < worst.score
  BY <1>1, <1>3
<1> QED
  BY <1>1, <1>4, <1>5, <1>6, LevelGrows

-----------------------------------------------------------------------------
(* Trends *)

\* Rows with two columns are as many as their numbers.
LEMMA PointsCount ==
    ASSUME NEW T, IsFiniteSet(T), Numbered(T), NEW day
    PROVE  /\ Cardinality({[id |-> x.id, at |-> day[x]] : x \in T}) = Cardinality(T)
           /\ IsFiniteSet({[id |-> x.id, at |-> day[x]] : x \in T})
<1> DEFINE f == [x \in T |-> [id |-> x.id, at |-> day[x]]]
<1>1. DOMAIN f = T /\ {f[x] : x \in T} = {[id |-> x.id, at |-> day[x]] : x \in T}
  OBVIOUS
<1>2. \A x, y \in T : f[x] = f[y] => x = y
  <2>1. \A x \in T : f[x].id = x.id
    OBVIOUS
  <2> HIDE DEF f
  <2> QED
    BY <2>1 DEF Numbered
<1> HIDE DEF f
<1> QED
  BY <1>1, <1>2, ImageCount, FiniteImage

\* The three kinds of categories share none.
LEMMA CategoriesApart ==
    ASSUME Listed
    PROVE  /\ \A i \in issues : i.type \notin Material /\ i.type \notin BreakTypes
           /\ \A b \in breaks : b.type \in BreakTypes /\ b.type \notin Material
           /\ \A s \in MaterialSnapshots : s.band \in Material
           /\ Material \cap BreakTypes = {}
<1>1. /\ \A i \in issues : i.type \in TransactionIssues \cup BatchIssues \cup PartyIssues
      /\ \A b \in breaks : b.type \in BreakTypes
  BY ClaimAssumption DEF Listed
<1> QED
  BY <1>1 DEF Material, BreakTypes, TransactionIssues, BatchIssues, PartyIssues, MaterialSnapshots

\* The rows of a category on a rail.
IssuesOn(kind) == {x \in issues : <<x.type, RailForIssue(x)>> = kind}
BreaksOn(kind) == {x \in breaks : <<x.type, x.rail>> = kind}
FraudOn(kind)  == {x \in Dated : <<x.band, OnlyRail(x)>> = kind}

\* The signals of a kind are theirs.
LEMMA KindRows ==
    ASSUME Stored, Listed, NEW kind
    PROVE  OfKind(kind) = {IssueSignal(i) : i \in IssuesOn(kind)} \cup
                          {BreakSignal(b) : b \in BreaksOn(kind)} \cup
                          {FraudSignal(s) : s \in FraudOn(kind)}
<1>1. /\ \A i \in issues : KindOf(IssueSignal(i)) = <<i.type, RailForIssue(i)>>
      /\ \A b \in breaks : KindOf(BreakSignal(b)) = <<b.type, b.rail>>
      /\ \A s \in Dated : KindOf(FraudSignal(s)) = <<s.band, OnlyRail(s)>>
  BY DEF KindOf, IssueSignal, BreakSignal, FraudSignal, Signal
<1> QED
  BY <1>1, SignalsAre DEF OfKind, Signals, IssuesOn, BreaksOn, FraudOn

\* The date of an alert is that of its row.
LEMMA AlertDates ==
    ASSUME Stored, Listed
    PROVE  /\ \A i \in issues : DateOf(IssueSignal(i)) = OperationalIssueDate(i)
           /\ \A b \in breaks : DateOf(BreakSignal(b)) = ReconciliationBreakDate(b)
           /\ \A s \in Dated : DateOf(FraudSignal(s)) = s.end
<1>1. ASSUME NEW i \in issues PROVE DateOf(IssueSignal(i)) = OperationalIssueDate(i)
  <2>1. (CHOOSE x \in issues : x.id = i.id) = i
    BY TablesNumbered DEF Numbered
  <2>2. IssueSignal(i).domain = "operational_issue" /\ IssueSignal(i).id = i.id
    BY DEF IssueSignal, Signal
  <2> QED
    BY <2>1, <2>2 DEF DateOf
<1>2. ASSUME NEW b \in breaks PROVE DateOf(BreakSignal(b)) = ReconciliationBreakDate(b)
  <2>1. (CHOOSE x \in breaks : x.id = b.id) = b
    BY TablesNumbered DEF Numbered
  <2>2. BreakSignal(b).domain = "reconciliation_break" /\ BreakSignal(b).id = b.id
    BY DEF BreakSignal, Signal
  <2> QED
    BY <2>1, <2>2 DEF DateOf
<1>3. ASSUME NEW s \in Dated PROVE DateOf(FraudSignal(s)) = s.end
  BY DEF FraudSignal, Signal, DateOf
<1> QED
  BY <1>1, <1>2, <1>3

\* Of one kind of rows: as many alerts with a date as rows with one.
LEMMA DatedAlerts ==
    ASSUME NEW T, IsFiniteSet(T), Numbered(T), NEW signal, DOMAIN signal = T,
           \A x \in T : signal[x].id = x.id, NEW day, \A x \in T : DateOf(signal[x]) = day[x]
    PROVE  Cardinality({a \in {signal[x] : x \in T} : DateOf(a) # None})
           = Cardinality({x \in T : day[x] # None})
<1> DEFINE U == {x \in T : day[x] # None}
           f == [x \in U |-> signal[x]]
<1>1. {a \in {signal[x] : x \in T} : DateOf(a) # None} = {f[x] : x \in U}
  OBVIOUS
<1>2. \A x, y \in U : f[x] = f[y] => x = y
  BY DEF Numbered
<1>3. IsFiniteSet(U) /\ DOMAIN f = U
  BY FS_Subset
<1>4. Cardinality({f[x] : x \in U}) = Cardinality(U)
  <2> HIDE DEF U, f
  <2> QED
    BY <1>2, <1>3, ImageCount
<1> HIDE DEF f
<1> QED
  BY <1>1, <1>4, Zenon DEF U

\* Its dated rows are the points of the trend.
LEMMA DatedPoints ==
    ASSUME NEW T, IsFiniteSet(T), Numbered(T), NEW signal, DOMAIN signal = T,
           \A x \in T : signal[x].id = x.id, NEW day, \A x \in T : DateOf(signal[x]) = day[x]
    PROVE  Cardinality({p \in {[id |-> x.id, at |-> day[x]] : x \in T} : p.at # None})
           = Cardinality({a \in {signal[x] : x \in T} : DateOf(a) # None})
<1> DEFINE U == {x \in T : day[x] # None}
<1>1. {p \in {[id |-> x.id, at |-> day[x]] : x \in T} : p.at # None}
      = {[id |-> x.id, at |-> day[x]] : x \in U}
  OBVIOUS
<1>2. IsFiniteSet(U) /\ Numbered(U)
  BY FS_Subset DEF Numbered
<1>3. Cardinality({a \in {signal[x] : x \in T} : DateOf(a) # None}) = Cardinality(U)
  BY DatedAlerts
<1> HIDE DEF U
<1>4. Cardinality({[id |-> x.id, at |-> day[x]] : x \in U}) = Cardinality(U)
  BY <1>2, PointsCount
<1> QED
  BY <1>1, <1>3, <1>4, Zenon

\* A snapshot has one rail if it has only that.
LEMMA OnlyRailIs ==
    ASSUME Listed, NEW s \in snapshots, NEW rail, rail # None
    PROVE  OnlyRail(s) = rail <=> s.rails = {rail}
<1>1. IsFiniteSet(s.rails)
  BY ClaimAssumption DEF Listed
<1>2. Cardinality(s.rails) = 1 <=> \E r : s.rails = {r}
  BY <1>1, FS_Singleton
<1>3. ASSUME NEW r, s.rails = {r} PROVE OnlyRail(s) = r
  BY <1>2, <1>3 DEF OnlyRail
<1> QED
  BY <1>2, <1>3 DEF OnlyRail

\* The trend of a category on a rail counts the dated claims of its cases.
LEMMA FraudPoints ==
    ASSUME Stored, Listed, NEW category \in Material, NEW rail, rail # None
    PROVE  Cardinality(Anchors(category, rail))
           = Cardinality({a \in OfKind(<<category, rail>>) : DateOf(a) # None})
<1> DEFINE kind == <<category, rail>>
           T == FraudOn(kind)
           signal == [x \in T |-> FraudSignal(x)]
           day == [x \in T |-> x.end]
<1>1. OfKind(kind) = {signal[x] : x \in T}
  <2>1. IssuesOn(kind) = {}
    BY CategoriesApart DEF IssuesOn
  <2>2. BreaksOn(kind) = {}
    BY CategoriesApart DEF BreaksOn
  <2>3. {signal[x] : x \in T} = {FraudSignal(x) : x \in T}
    OBVIOUS
  <2> HIDE DEF signal
  <2> QED
    BY <2>1, <2>2, <2>3, KindRows
<1>2. T = {x \in snapshots : x.band = category /\ x.rails = {rail} /\ x.end # None}
  BY OnlyRailIs DEF FraudOn, Dated, MaterialSnapshots
<1>3. Anchors(category, rail) = {a \in FraudAnchors(category, rail) : a.at # None}
  BY DEF Anchors, Material, BreakTypes
<1>4. Anchors(category, rail) = {p \in {[id |-> x.id, at |-> day[x]] : x \in T} : p.at # None}
  <2>1. ASSUME NEW p \in Anchors(category, rail) PROVE \E x \in T : p = [id |-> x.id, at |-> day[x]]
    <3>1. PICK x \in snapshots : /\ x.band = category /\ x.rails = {rail}
                                 /\ p = [id |-> x.id, at |-> x.end]
      BY <1>3 DEF FraudAnchors
    <3>2. x \in T
      BY <1>2, <1>3, <3>1
    <3> QED
      BY <3>1, <3>2
  <2>2. ASSUME NEW x \in T PROVE [id |-> x.id, at |-> day[x]] \in Anchors(category, rail)
    <3>1. x \in snapshots /\ x.band = category /\ x.rails = {rail} /\ x.end # None /\ day[x] = x.end
      BY <1>2
    <3>2. [id |-> x.id, at |-> x.end] \in FraudAnchors(category, rail)
      BY <3>1 DEF FraudAnchors
    <3> QED
      BY <1>3, <3>1, <3>2
  <2>3. \A p \in Anchors(category, rail) : p.at # None
    BY <1>3
  <2> QED
    BY <2>1, <2>2, <2>3
<1>5. IsFiniteSet(T) /\ Numbered(T)
  BY <1>2, TablesFinite, TablesNumbered, FS_Subset
<1>6. \A x \in T : signal[x].id = x.id /\ DateOf(signal[x]) = day[x]
  BY AlertDates DEF FraudOn, FraudSignal, Signal
<1>7. DOMAIN signal = T
  OBVIOUS
<1> HIDE DEF T, signal, day
<1> QED
  BY <1>1, <1>4, <1>5, <1>6, <1>7, DatedPoints

\* The same of breaks.
LEMMA BreakPoints ==
    ASSUME Stored, Listed, NEW category \in BreakTypes, NEW rail, rail # None
    PROVE  Cardinality(Anchors(category, rail))
           = Cardinality({a \in OfKind(<<category, rail>>) : DateOf(a) # None})
<1> DEFINE kind == <<category, rail>>
           T == BreaksOn(kind)
           signal == [x \in T |-> BreakSignal(x)]
           day == [x \in T |-> ReconciliationBreakDate(x)]
<1>0. category \notin Material
  BY DEF BreakTypes, Material
<1>1. OfKind(kind) = {signal[x] : x \in T}
  <2>1. IssuesOn(kind) = {}
    BY CategoriesApart DEF IssuesOn
  <2>2. FraudOn(kind) = {}
    BY <1>0, CategoriesApart DEF FraudOn, Dated
  <2>3. {IssueSignal(i) : i \in IssuesOn(kind)} = {}
    BY <2>1
  <2>4. {FraudSignal(s) : s \in FraudOn(kind)} = {}
    BY <2>2
  <2>5. {BreakSignal(b) : b \in BreaksOn(kind)} = {signal[x] : x \in T}
    OBVIOUS
  <2>6. OfKind(kind) = {IssueSignal(i) : i \in IssuesOn(kind)} \cup
          {BreakSignal(b) : b \in BreaksOn(kind)} \cup
          {FraudSignal(s) : s \in FraudOn(kind)}
    BY KindRows
  <2> HIDE DEF signal, T
  <2> QED
    BY <2>3, <2>4, <2>5, <2>6
<1>2. T = {x \in breaks : x.type = category /\ rail \in {None, x.rail}}
  BY DEF BreaksOn
<1>3. Anchors(category, rail) = {a \in BreakAnchors(category, rail) : a.at # None}
  BY <1>0 DEF Anchors
<1>4. Anchors(category, rail) = {p \in {[id |-> x.id, at |-> day[x]] : x \in T} : p.at # None}
  BY <1>2, <1>3 DEF BreakAnchors
<1>5. IsFiniteSet(T) /\ Numbered(T)
  BY <1>2, TablesFinite, TablesNumbered, FS_Subset
<1>6. \A x \in T : signal[x].id = x.id /\ DateOf(signal[x]) = day[x]
  BY AlertDates DEF BreaksOn, BreakSignal, Signal
<1>7. DOMAIN signal = T
  OBVIOUS
<1> HIDE DEF T, signal, day
<1> QED
  BY <1>1, <1>4, <1>5, <1>6, <1>7, DatedPoints

\* The same of issues that are not about a party.
LEMMA IssuePoints ==
    ASSUME Stored, Listed, NEW category, category \notin Material \cup BreakTypes \cup PartyIssues,
           NEW rail, rail # None
    PROVE  Cardinality(Anchors(category, rail))
           = Cardinality({a \in OfKind(<<category, rail>>) : DateOf(a) # None})
<1> DEFINE kind == <<category, rail>>
           T == IssuesOn(kind)
           signal == [x \in T |-> IssueSignal(x)]
           day == [x \in T |-> ParseOccurred(First(EventsOf(x)))]
<1>1. OfKind(kind) = {signal[x] : x \in T}
  <2>1. BreaksOn(kind) = {}
    BY CategoriesApart DEF BreaksOn
  <2>2. FraudOn(kind) = {}
    BY CategoriesApart DEF FraudOn, Dated
  <2>3. {BreakSignal(b) : b \in BreaksOn(kind)} = {}
    BY <2>1
  <2>4. {FraudSignal(s) : s \in FraudOn(kind)} = {}
    BY <2>2
  <2>5. {IssueSignal(i) : i \in IssuesOn(kind)} = {signal[x] : x \in T}
    OBVIOUS
  <2>6. OfKind(kind) = {IssueSignal(i) : i \in IssuesOn(kind)} \cup
          {BreakSignal(b) : b \in BreaksOn(kind)} \cup
          {FraudSignal(s) : s \in FraudOn(kind)}
    BY KindRows
  <2> HIDE DEF signal, T
  <2> QED
    BY <2>3, <2>4, <2>5, <2>6
<1>2. T = {x \in issues : /\ x.type = category /\ First(EventsOf(x)) # None
                          /\ rail \in {None, First(EventsOf(x)).rail}}
  BY DEF IssuesOn, RailForIssue
<1>3. Anchors(category, rail) = {a \in IssueAnchors(category, rail) : a.at # None}
  BY DEF Anchors
<1>4. Anchors(category, rail) = {p \in {[id |-> x.id, at |-> day[x]] : x \in T} : p.at # None}
  BY <1>2, <1>3 DEF IssueAnchors
<1>5. IsFiniteSet(T) /\ Numbered(T)
  BY <1>2, TablesFinite, TablesNumbered, FS_Subset
<1>6. \A x \in T : signal[x].id = x.id /\ DateOf(signal[x]) = day[x]
  BY AlertDates, DatesAre DEF IssuesOn, IssueSignal, Signal
<1>7. DOMAIN signal = T
  OBVIOUS
<1> HIDE DEF T, signal, day
<1> QED
  BY <1>1, <1>4, <1>5, <1>6, <1>7, DatedPoints

\* A kind of cases that has a rail is not that of a spike.
LEMMA KindPoints ==
    ASSUME Stored, Listed, CasesOfClusters, aux_current, NEW kind \in Kinds, kind[2] # None
    PROVE  Cardinality(Anchors(kind[1], kind[2]))
           = Cardinality({a \in AlertsOf(kind) : DateOf(a) # None})
<1>1. PICK s \in Signals : kind = KindOf(s)
  BY AlertsAre
<1>2. kind = <<kind[1], kind[2]>> /\ kind[1] = s.category /\ kind[2] = s.rail
  BY <1>1 DEF KindOf
<1>3. AlertsOf(kind) = OfKind(<<kind[1], kind[2]>>)
  BY <1>2, AlertsAre
<1>4. CASE s \in FraudSignals
  <2>1. kind[1] \in Material
    BY <1>2, <1>4, SignalsAre DEF FraudSignal, Signal, Dated, MaterialSnapshots
  <2> QED
    BY <1>3, <2>1, FraudPoints
<1>5. CASE s \in ReconciliationSignals
  <2>1. kind[1] \in BreakTypes
    BY <1>2, <1>5, SignalsAre, CategoriesApart DEF BreakSignal, Signal
  <2> QED
    BY <1>3, <2>1, BreakPoints
<1>6. CASE s \in OperationalSignals
  <2>1. PICK i \in issues : s = IssueSignal(i)
    BY <1>6, SignalsAre
  <2>2. kind[1] = i.type /\ kind[2] = RailForIssue(i)
    BY <1>2, <2>1 DEF IssueSignal, Signal
  <2>3. i.type \notin PartyIssues
    BY <2>2, IssueEvents DEF RailForIssue
  <2>4. kind[1] \notin Material \cup BreakTypes \cup PartyIssues
    BY <2>2, <2>3, CategoriesApart
  <2> QED
    BY <1>3, <2>4, IssuePoints
<1> QED
  BY <1>4, <1>5, <1>6 DEF Signals

\* The points of a trend are finitely many, and each has a day.
LEMMA AnchorsAre ==
    ASSUME Stored, Listed, NEW category, NEW rail
    PROVE  /\ IsFiniteSet(Anchors(category, rail))
           /\ \A a \in Anchors(category, rail) : a.at \in Int
<1>1. ASSUME NEW T, IsFiniteSet(T), Numbered(T), NEW day, \A x \in T : day[x] \in Dates,
             NEW A \in SUBSET {[id |-> x.id, at |-> day[x]] : x \in T}
      PROVE  IsFiniteSet(A) /\ \A a \in A : a.at \in Dates
  <2>1. IsFiniteSet({[id |-> x.id, at |-> day[x]] : x \in T})
    BY <1>1, PointsCount
  <2> QED
    BY <1>1, <2>1, FS_Subset
<1>2. /\ IsFiniteSet(issues) /\ Numbered(issues) /\ IsFiniteSet(breaks) /\ Numbered(breaks)
      /\ IsFiniteSet(snapshots) /\ Numbered(snapshots)
  BY TablesFinite, TablesNumbered
<1>3. IsFiniteSet(FraudAnchors(category, rail)) /\ \A a \in FraudAnchors(category, rail) : a.at \in Dates
  <2> DEFINE day == [x \in snapshots |-> x.end]
  <2>1. FraudAnchors(category, rail) \in SUBSET {[id |-> x.id, at |-> day[x]] : x \in snapshots}
    BY DEF FraudAnchors
  <2>2. \A x \in snapshots : day[x] \in Dates
    BY DatesAre
  <2> HIDE DEF day
  <2> QED
    BY <1>1, <1>2, <2>1, <2>2
<1>4. IsFiniteSet(BreakAnchors(category, rail)) /\ \A a \in BreakAnchors(category, rail) : a.at \in Dates
  <2> DEFINE day == [x \in breaks |-> ReconciliationBreakDate(x)]
  <2>1. BreakAnchors(category, rail) \in SUBSET {[id |-> x.id, at |-> day[x]] : x \in breaks}
    BY DEF BreakAnchors
  <2>2. \A x \in breaks : day[x] \in Dates
    BY DatesAre
  <2> HIDE DEF day
  <2> QED
    BY <1>1, <1>2, <2>1, <2>2
<1>5. IsFiniteSet(IssueAnchors(category, rail)) /\ \A a \in IssueAnchors(category, rail) : a.at \in Dates
  <2> DEFINE day == [x \in issues |-> IF category \in PartyIssues THEN x.end
                                      ELSE ParseOccurred(First(EventsOf(x)))]
  <2>1. IssueAnchors(category, rail) \in SUBSET {[id |-> x.id, at |-> day[x]] : x \in issues}
    BY DEF IssueAnchors
  <2>2. \A x \in issues : day[x] \in Dates
    BY DatesAre, ClaimAssumption DEF Listed
  <2> HIDE DEF day
  <2> QED
    BY <1>1, <1>2, <2>1, <2>2
<1>6. /\ Anchors(category, rail) \in SUBSET (FraudAnchors(category, rail) \cup BreakAnchors(category, rail)
                                             \cup IssueAnchors(category, rail))
      /\ \A a \in Anchors(category, rail) : a.at # None
  BY DEF Anchors
<1> QED
  <2>1. IsFiniteSet(FraudAnchors(category, rail) \cup BreakAnchors(category, rail)
                    \cup IssueAnchors(category, rail))
    BY <1>3, <1>4, <1>5, FS_Union
  <2>2. IsFiniteSet(Anchors(category, rail))
    BY <1>6, <2>1, FS_Subset
  <2>3. \A a \in Anchors(category, rail) : a.at \in Dates /\ a.at # None
    BY <1>3, <1>4, <1>5, <1>6
  <2> QED
    BY <2>2, <2>3 DEF Dates

\* A change of more than a fifth is one in its direction, rounded as it is.
LEMMA ChangeSign ==
    ASSUME NEW latest \in Nat, NEW prior \in Nat, prior >= 1, NEW sum \in Nat, sum >= prior,
           NEW tenths, tenths = (20 * sum + prior) \div (2 * prior)
    PROVE  /\ 10 * prior * latest > 12 * sum => (1000 * latest) \div tenths - 100 > 0
           /\ 10 * prior * latest < 8 * sum => (1000 * latest) \div tenths - 100 < 0
<1> DEFINE d == 2 * prior
           n == 20 * sum + prior
<1>1. d \in Nat /\ d > 0 /\ n \in Nat
  OBVIOUS
<1> HIDE DEF d, n
<1>2. tenths = n \div d
  BY DEF d, n
<1>3. tenths \in Nat /\ d * tenths <= n /\ n < d * (tenths + 1)
  BY <1>1, <1>2
<1>4. tenths >= 1
  <2>1. n >= d
    BY DEF n, d
  <2> SUFFICES ASSUME tenths = 0 PROVE FALSE
    BY <1>3
  <2> QED
    BY <1>1, <1>3, <2>1
<1> DEFINE vs == (1000 * latest) \div tenths
<1>5. vs \in Nat /\ tenths * vs <= 1000 * latest /\ 1000 * latest < tenths * (vs + 1)
  <2>1. 1000 * latest \in Nat
    OBVIOUS
  <2> QED
    BY <1>3, <1>4, <2>1
<1> HIDE DEF vs
<1>6. d * latest \in Nat /\ d * tenths \in Nat /\ d * latest = 2 * (prior * latest) /\ prior * latest \in Nat
  BY <1>1, <1>3 DEF d
<1>7. d * (tenths + 1) = d * tenths + d
  BY <1>1, <1>3
<1>8. ASSUME 10 * prior * latest > 12 * sum PROVE vs > 100
  <2>1. 10 * (prior * latest) > 12 * sum
    BY <1>8
  <2>2. 101 * (d * tenths) < 1000 * (d * latest)
    BY <1>3, <1>6, <2>1 DEF n
  <2>3. d * (101 * tenths) < d * (1000 * latest)
    BY <1>1, <1>3, <2>2
  <2>4. 101 * tenths < 1000 * latest
    BY <1>1, <1>3, <2>3
  <2>5. SUFFICES ASSUME vs <= 100 PROVE FALSE
    BY <1>5
  <2>6. tenths * (vs + 1) <= tenths * 101
    BY <1>3, <1>5, <2>5
  <2> QED
    BY <1>3, <1>5, <2>4, <2>6
<1>9. ASSUME 10 * prior * latest < 8 * sum PROVE vs < 100
  <2>1. 10 * (prior * latest) < 8 * sum
    BY <1>9
  <2>2. 10 * (d * latest) < d * tenths
    BY <1>3, <1>6, <1>7, <2>1 DEF n, d
  <2>3. d * (10 * latest) < d * tenths
    BY <1>1, <1>3, <2>2
  <2>4. 10 * latest < tenths
    BY <1>1, <1>3, <2>3
  <2>5. SUFFICES ASSUME vs >= 100 PROVE FALSE
    BY <1>5
  <2>6. tenths * vs >= tenths * 100
    BY <1>3, <1>5, <2>5
  <2> QED
    BY <1>3, <1>5, <2>4, <2>6
<1> QED
  BY <1>5, <1>8, <1>9 DEF vs

\* The direction of a trend is the sign of its change.
LEMMA TrendSign ==
    ASSUME Stored, Listed, NEW category, NEW rail, CategoryWeeklyTrend(category, rail) # None,
           NEW trend, trend = CategoryWeeklyTrend(category, rail),
           NEW change, change = (1000 * trend.latest) \div trend.tenths - 100
    PROVE  /\ trend.direction = "increasing" => change > 0
           /\ trend.direction = "decreasing" => change < 0
<1> DEFINE A == Anchors(category, rail)
           f == [a \in A |-> WeekOf(a.at)]
           counts == CountBy(WeekOfAnchor, A)
           weeks == DOMAIN counts
           last == Max(weeks)
           prior == Cardinality(weeks) - 1
           sum == CountOf(counts) - counts[last]
           others == weeks \ {last}
<1>1. IsFiniteSet(A) /\ DOMAIN f = A /\ \A a \in A : f[a] \in Int
  BY AnchorsAre DEF WeekOf
<1>2. CountsBy(counts, f, A)
  BY DEF CountsBy, CountBy, WeekOfAnchor
<1>3. /\ Cardinality(weeks) >= 2
      /\ trend = [counts |-> counts, latest |-> counts[last],
                  tenths |-> (20 * sum + prior) \div (2 * prior),
                  direction |-> IF 10 * prior * counts[last] > 12 * sum THEN "increasing"
                                ELSE IF 10 * prior * counts[last] < 8 * sum THEN "decreasing"
                                ELSE "stable"]
  <2>1. weeks = {f[a] : a \in A}
    BY <1>2 DEF CountsBy
  <2>2. IsFiniteSet(weeks)
    <3> HIDE DEF A, f, counts
    <3> QED
      BY <1>1, <2>1, FiniteImage
  <2>3. Cardinality(weeks) \in Nat
    BY <2>2, FS_CardinalityType
  <2>4. ~(Cardinality(weeks) < 2)
    BY DEF CategoryWeeklyTrend
  <2>5. Cardinality(weeks) >= 2
    BY <2>3, <2>4
  <2>6. trend = [counts |-> counts, latest |-> counts[last],
                 tenths |-> (20 * sum + prior) \div (2 * prior),
                 direction |-> IF 10 * prior * counts[last] > 12 * sum THEN "increasing"
                               ELSE IF 10 * prior * counts[last] < 8 * sum THEN "decreasing"
                               ELSE "stable"]
    BY <2>4 DEF CategoryWeeklyTrend
  <2> QED
    BY <2>5, <2>6
<1> HIDE DEF A, f, counts
<1>4. /\ weeks = {f[a] : a \in A} /\ weeks \subseteq Int
      /\ IsFiniteSet(weeks) /\ Cardinality(weeks) \in Nat /\ weeks # {}
  <2>1. weeks = {f[a] : a \in A} /\ weeks \subseteq Int
    BY <1>1, <1>2 DEF CountsBy
  <2>2. IsFiniteSet(weeks)
    BY <1>1, <2>1, FiniteImage
  <2>3. Cardinality(weeks) \in Nat
    BY <2>2, FS_CardinalityType
  <2>4. weeks # {}
    BY <1>3, FS_EmptySet
  <2> QED
    BY <2>1, <2>2, <2>3, <2>4
<1>5. \A v \in weeks : counts[v] \in Nat /\ counts[v] >= 1
  <2> SUFFICES ASSUME NEW v \in weeks PROVE counts[v] \in Nat /\ counts[v] >= 1
    OBVIOUS
  <2> DEFINE P == {a \in A : f[a] = v}
  <2>1. counts[v] = Cardinality(P)
    BY <1>2 DEF CountsBy
  <2>2. P # {} /\ IsFiniteSet(P)
    BY <1>1, <1>4, FS_Subset
  <2> HIDE DEF P
  <2> QED
    BY <2>1, <2>2, FS_CardinalityType, FS_EmptySet
<1>6. last \in weeks
  <2> DEFINE g == [v \in weeks |-> v]
  <2>1. Whole(g, weeks) /\ \A v \in weeks : g[v] = v
    BY <1>4 DEF Whole
  <2> HIDE DEF g
  <2>2. \E x \in weeks : \A y \in weeks : g[y] <= g[x]
    BY <1>4, <2>1, TopExists
  <2>3. \E x \in weeks : \A y \in weeks : x >= y
    BY <1>4, <2>1, <2>2
  <2> QED
    BY <2>3 DEF Max
<1> HIDE DEF weeks
<1> HIDE DEF last
<1>7. IsFiniteSet(others) /\ Cardinality(others) = prior /\ prior \in Nat /\ prior >= 1
  <2>1. IsFiniteSet(others) /\ Cardinality(others) = Cardinality(weeks) - 1
    BY <1>4, <1>6, FS_RemoveElement
  <2> QED
    BY <1>3, <1>4, <2>1
<1>8. Whole(counts, weeks) /\ Whole(counts, others)
  BY <1>5 DEF Whole
<1>9. sum = SumFunctionOnSet(counts, others) /\ sum \in Nat
  <2>1. CountOf(counts) = SumFunctionOnSet(counts, weeks)
    BY CountIs DEF weeks
  <2>2. SumFunctionOnSet(counts, weeks) = counts[last] + SumFunctionOnSet(counts, others)
    BY <1>4, <1>6, <1>8, SumRemove
  <2>3. SumFunctionOnSet(counts, others) \in Nat
    BY <1>5, <1>7, SumNat
  <2>4. counts[last] \in Nat
    BY <1>5, <1>6
  <2> HIDE DEF others
  <2> QED
    BY <2>1, <2>2, <2>3, <2>4
<1>10. sum >= prior
  <2> DEFINE one == [v \in others |-> 1]
  <2>1. /\ \A v \in others : one[v] = 1
        /\ \A v \in others : one[v] <= counts[v]
        /\ Whole(one, others)
    BY <1>5 DEF Whole
  <2> HIDE DEF one, others, sum, prior
  <2>2. SumFunctionOnSet(one, others) = Cardinality(others)
    BY <1>7, <2>1, SumOnes
  <2>3. SumFunctionOnSet(one, others) <= SumFunctionOnSet(counts, others)
    BY <1>7, <1>8, <2>1, SumMonotonic
  <2>4. Cardinality(others) \in Nat
    BY <1>7
  <2> QED
    BY <1>7, <1>9, <2>2, <2>3, <2>4
<1>11. counts[last] \in Nat
  BY <1>5, <1>6
<1> DEFINE latest == counts[last]
           tenths == (20 * sum + prior) \div (2 * prior)
<1>12. /\ trend.latest = latest /\ trend.tenths = tenths
       /\ trend.direction = "increasing" => 10 * prior * latest > 12 * sum
       /\ trend.direction = "decreasing" => 10 * prior * latest < 8 * sum
  BY <1>3
<1>13. change = (1000 * latest) \div tenths - 100
  BY <1>12
<1> HIDE DEF sum, prior
<1>14. latest \in Nat /\ prior \in Nat /\ sum \in Nat
  BY <1>7, <1>9, <1>11
<1> HIDE DEF latest
<1>15. /\ 10 * prior * latest > 12 * sum => (1000 * latest) \div tenths - 100 > 0
       /\ 10 * prior * latest < 8 * sum => (1000 * latest) \div tenths - 100 < 0
  BY <1>7, <1>10, <1>14, ChangeSign
<1> HIDE DEF tenths
<1> QED
  BY <1>12, <1>13, <1>15

\* CasesAgreeWithViews for any rows, clusters and merges: of cases that were just computed,
\* every claim is in one, none is less urgent than a claim of it with a lower score, and a
\* trend counts the dated claims of its cases and moves where its direction says.
THEOREM CasesMatch == Spec => []CasesAgreeWithViews
<1>1. Stored /\ Listed /\ CasesOfClusters => CasesAgreeWithViews
  <2> SUFFICES ASSUME Stored, Listed, CasesOfClusters, aux_current PROVE CasesAgreeWithViews
    BY DEF CasesAgreeWithViews
  <2>1. \A c, d \in cases : c # d => c.alerts \cap d.alerts = {}
    BY CasesApart
  <2>2. CountOf([k \in Kinds |-> Cardinality(AlertsOf(k))])
        = Cardinality(issues) + Cardinality(breaks) + Cardinality({s \in MaterialSnapshots : s.end # None})
    BY AlertsCount
  <2>3. \A c \in cases : \A a \in c.alerts :
           Urgency[a.level] <= Urgency[c.level] \/ a.score = c.score
    BY CaseUrgent
  <2>4. \A kind \in Kinds : kind[2] # None =>
           Cardinality(Anchors(kind[1], kind[2])) = Cardinality({a \in AlertsOf(kind) : DateOf(a) # None})
    BY KindPoints
  <2>5. ASSUME NEW kind \in IdentifiedPatterns
        PROVE  LET p == Pattern(kind) IN
               /\ p.direction = "increasing" => p.vs_baseline > 0
               /\ p.direction = "decreasing" => p.vs_baseline < 0
    <3> DEFINE trend == CategoryWeeklyTrend(kind[1], kind[2])
    <3>1. trend # None
      BY DEF IdentifiedPatterns
    <3>2. /\ Pattern(kind).direction = trend.direction
          /\ Pattern(kind).vs_baseline = (1000 * trend.latest) \div trend.tenths - 100
      BY DEF Pattern
    <3> QED
      BY <3>1, <3>2, TrendSign
  <2> QED
    BY <2>1, <2>2, <2>3, <2>4, <2>5 DEF CasesAgreeWithViews
<1> QED
  BY <1>1, TablesInv, CasesInv, PTL

==============================================================================
