--------------------------- MODULE InvestigationProofs ---------------------------
(* Proofs about Investigation, for any tenants, subjects, window and number of rows.      *)
EXTENDS Investigation, FiniteFacts

Keys == Types \X Ids
Table == [Ids -> ClaimRow \cup {None}]
ClaimsTyped == claims \in [Types -> Table]

-----------------------------------------------------------------------------
(* Tables of claims *)

\* What is not None in a table of claims is a row.
LEMMA ClaimRows ==
    ASSUME NEW table \in Table, NEW i \in RowsOf(table)
    PROVE  i \in Ids /\ table[i] \in ClaimRow /\ table[i].subject \in Subjects
  BY DEF Table, RowsOf, ClaimRow

\* Rows that are made for subjects are rows.
LEMMA RowIsRow ==
    ASSUME NEW s \in Subjects, NEW material \in BOOLEAN
    PROVE  /\ Row(s, material) \in ClaimRow /\ Row(s, material) # None
           /\ Row(s, material).subject = s /\ Row(s, material).material = material
  BY NoneAssumption DEF Row, ClaimRow

\* A DELETE leaves rows as they were.
LEMMA KeptRows ==
    ASSUME NEW table, NEW gone
    PROVE  /\ RowsOf(Kept(table, gone)) = RowsOf(table) \ gone
           /\ \A i \in RowsOf(table) \ gone : Kept(table, gone)[i] = table[i]
  BY DEF Kept, RowsOf

\* A new row gets an id above all others.
LEMMA NextIdAbove ==
    ASSUME NEW table
    PROVE  /\ NextId(table) \in Nat \ {0}
           /\ \A i \in RowsOf(table) : i < NextId(table)
<1> DEFINE S == RowsOf(table)
           R == {p \in S \X S : p[1] > p[2]}
<1>1. S \in SUBSET (1..MaxId) /\ MaxId \in Nat
  BY BoundAssumption DEF RowsOf, Ids
<1>2. IsFiniteSet(S)
  <2>1. IsFiniteSet(1..MaxId)
    BY <1>1, FS_Interval
  <2> QED
    BY <1>1, <2>1, FS_Subset
<1>3. StrictOrder(S, R)
  BY <1>1 DEF StrictOrder
<1>4. CASE S = {}
  BY <1>4 DEF NextId
<1>5. CASE S # {}
  <2>1. PICK m \in S : \A j \in S : m = j \/ <<m, j>> \in R
    BY <1>2, <1>3, <1>5, FirstExists
  <2>2. \A j \in S : j <= m
    <3> SUFFICES ASSUME NEW j \in S PROVE j <= m
      OBVIOUS
    <3>1. m \in Nat /\ j \in Nat
      BY <1>1
    <3>2. m = j \/ m > j
      BY <2>1
    <3> QED
      BY <3>1, <3>2
  <2> DEFINE last == CHOOSE i \in S : \A j \in S : j <= i
  <2>3. last \in S /\ \A j \in S : j <= last
    BY <2>2
  <2>4. NextId(table) = 1 + last
    BY <1>5 DEF NextId
  <2> HIDE DEF last
  <2> QED
    BY <1>1, <2>3, <2>4
<1> QED
  BY <1>4, <1>5

\* An INSERT of rows for S leaves the rows there were and adds rows about S, one for each at most.
LEMMA AddedRows ==
    ASSUME NEW table \in Table, NEW S \in SUBSET Subjects, NEW material \in BOOLEAN
    PROVE  /\ Added(table, S, material) \in Table
           /\ \A i \in RowsOf(table) : Added(table, S, material)[i] = table[i]
           /\ \A i \in RowsOf(Added(table, S, material)) \ RowsOf(table) :
                 \E s \in S : Place(table, S, s) = i /\ Added(table, S, material)[i] = Row(s, material)
<1> DEFINE At(i) == \E s \in S : Place(table, S, s) = i
           The(i) == CHOOSE s \in S : Place(table, S, s) = i
<1>1. \A i \in Ids : At(i) => The(i) \in S /\ Place(table, S, The(i)) = i
  OBVIOUS
<1>2. \A i \in Ids : Added(table, S, material)[i] = IF At(i) THEN Row(The(i), material) ELSE table[i]
  BY DEF Added
<1>3. \A i \in Ids : Added(table, S, material)[i] \in ClaimRow \cup {None}
  <2> HIDE DEF The, At
  <2> QED
    BY <1>1, <1>2, RowIsRow DEF Table
<1>4. Added(table, S, material) \in Table
  BY <1>3 DEF Added, Table
<1>5. \A i \in RowsOf(table) : ~At(i)
  <2>1. \A s \in S : Place(table, S, s) >= NextId(table)
    <3> SUFFICES ASSUME NEW s \in S PROVE Place(table, S, s) >= NextId(table)
      OBVIOUS
    <3>1. {x \in S : RankOf[x] < RankOf[s]} \in SUBSET Subjects
      OBVIOUS
    <3>2. Cardinality({x \in S : RankOf[x] < RankOf[s]}) \in Nat
      BY <3>1, FiniteAssumption, FS_Subset, FS_CardinalityType
    <3> QED
      BY <3>2, NextIdAbove DEF Place
  <2>2. \A i \in RowsOf(table) : i \in Int /\ i < NextId(table) /\ NextId(table) \in Int
    BY NextIdAbove DEF RowsOf, Ids
  <2>3. \A s \in S : Place(table, S, s) \notin RowsOf(table)
    BY <2>1, <2>2
  <2> QED
    BY <2>3
<1> HIDE DEF The, At
<1>6. ASSUME NEW i \in RowsOf(Added(table, S, material)) \ RowsOf(table)
      PROVE  \E s \in S : Place(table, S, s) = i /\ Added(table, S, material)[i] = Row(s, material)
  <2>1. i \in Ids /\ table[i] = None /\ Added(table, S, material)[i] # None
    BY DEF RowsOf
  <2>2. At(i)
    BY <1>2, <2>1
  <2> QED
    BY <1>1, <1>2, <2>1, <2>2
<1> QED
  BY <1>2, <1>4, <1>5, <1>6 DEF RowsOf

Fit(table) == \A i, j \in RowsOf(table) : i # j => Coexist(table[i].subject, table[j].subject)

\* It does not matter which of two subjects is named first.
LEMMA CoexistBoth == \A a, b : Coexist(a, b) => Coexist(b, a)
  BY DEF Coexist

\* Rows about subjects that fit together and fit those of the table leave it fitting.
LEMMA AddedFit ==
    ASSUME NEW table \in Table, NEW S \in SUBSET Subjects, NEW material \in BOOLEAN,
           Fit(table), \A a, b \in S : a # b => Coexist(a, b),
           \A i \in RowsOf(table) : \A s \in S : Coexist(table[i].subject, s)
    PROVE  Fit(Added(table, S, material))
<1> DEFINE new == Added(table, S, material)
<1> SUFFICES ASSUME NEW i \in RowsOf(new), NEW j \in RowsOf(new), i # j
             PROVE  Coexist(new[i].subject, new[j].subject)
  BY DEF Fit
<1>1. \A k \in RowsOf(new) : \/ k \in RowsOf(table) /\ new[k] = table[k]
                             \/ k \notin RowsOf(table)
                                /\ \E s \in S : Place(table, S, s) = k /\ new[k].subject = s
  <2> SUFFICES ASSUME NEW k \in RowsOf(new) PROVE
          \/ k \in RowsOf(table) /\ new[k] = table[k]
          \/ k \notin RowsOf(table) /\ \E s \in S : Place(table, S, s) = k /\ new[k].subject = s
    OBVIOUS
  <2>1. CASE k \in RowsOf(table)
    BY <2>1, AddedRows
  <2>2. CASE k \notin RowsOf(table)
    <3>0. \A x \in RowsOf(new) \ RowsOf(table) :
              \E s \in S : Place(table, S, s) = x /\ new[x] = Row(s, material)
      BY AddedRows
    <3>1. PICK s \in S : Place(table, S, s) = k /\ new[k] = Row(s, material)
      BY <2>2, <3>0
    <3> QED
      BY <2>2, <3>1, RowIsRow
  <2> QED
    BY <2>1, <2>2
<1> HIDE DEF new
<1>2. CASE i \in RowsOf(table) /\ j \in RowsOf(table)
  BY <1>1, <1>2 DEF Fit
<1>3. CASE i \in RowsOf(table) /\ j \notin RowsOf(table)
  BY <1>1, <1>3
<1>4. CASE i \notin RowsOf(table) /\ j \in RowsOf(table)
  BY <1>1, <1>4, CoexistBoth
<1>5. CASE i \notin RowsOf(table) /\ j \notin RowsOf(table)
  BY <1>1, <1>5
<1> QED
  BY <1>2, <1>3, <1>4, <1>5

\* detect_reconciliation_breaks, compute_snapshots, and the scoring: the tables keep their
\* shape and fit.  What is found is part of one picture, and fits by itself; rows of the
\* parties found are gone before, and those of other parties fit anything.
LEMMA ClaimsStep ==
    ASSUME ClaimsTyped, OneRowPerSubject, shown \in Pictures, NEW scope \in Scopes,
           DetectBreaks(scope) \/ ComputeSnapshots(scope) \/ ScoreSnapshots(scope)
    PROVE  ClaimsTyped' /\ OneRowPerSubject'
<1>0. /\ "reconciliation_break" \in Types /\ "fraud_anomaly" \in Types
      /\ OneRowPerSubject <=> \A type \in Types : Fit(claims[type])
      /\ OneRowPerSubject' <=> \A type \in Types : Fit(claims'[type])
      /\ \A type \in Types : claims[type] \in Table
  BY DEF Types, OneRowPerSubject, Fit, ClaimsTyped
<1>1. ASSUME NEW type \in Types, NEW table \in Table, Fit(table),
             claims' = [claims EXCEPT ![type] = table]
      PROVE  ClaimsTyped' /\ OneRowPerSubject'
  <2>1. ClaimsTyped'
    BY <1>1 DEF ClaimsTyped
  <2>2. \A x \in Types : claims'[x] = IF x = type THEN table ELSE claims[x]
    BY <1>1 DEF ClaimsTyped
  <2> QED
    BY <1>0, <1>1, <2>1, <2>2
<1>2. ASSUME NEW table \in Table, Fit(table), NEW gone
      PROVE  Kept(table, gone) \in Table /\ Fit(Kept(table, gone))
  <2>1. Kept(table, gone) \in Table
    BY DEF Kept, Table
  <2> QED
    BY <1>2, <2>1, KeptRows DEF Fit
<1>3. CASE DetectBreaks(scope)
  <2> DEFINE type == "reconciliation_break"
             table == Kept(claims[type], RowsInScope(type, scope))
             found == {s \in shown \cap Breaks : Covers(scope, TenantOf[s])}
             new == Added(table, found, TRUE)
  <2>1. table \in Table /\ Fit(table)
    BY <1>0, <1>2
  <2>2. \A i \in RowsOf(table) : \A s \in found : Coexist(table[i].subject, s)
    <3> SUFFICES ASSUME NEW i \in RowsOf(table), NEW s \in found PROVE Coexist(table[i].subject, s)
      OBVIOUS
    <3>1. i \in RowsOf(claims[type]) \ RowsInScope(type, scope) /\ table[i] = claims[type][i]
      BY KeptRows
    <3>2. table[i].subject # s
      BY <3>1 DEF RowsInScope, ClaimTenant
    <3>3. s \in Breaks /\ s \in Subjects /\ table[i].subject \in Subjects
      BY <2>1, ClaimRows DEF Subjects
    <3> QED
      BY <3>2, <3>3, SubjectAssumption DEF Coexist
  <2>3. found \in SUBSET Subjects /\ \A a, b \in found : a # b => Coexist(a, b)
    BY PictureAssumption DEF Subjects
  <2> HIDE DEF table, found
  <2>4. new \in Table /\ Fit(new)
    BY <2>1, <2>2, <2>3, AddedRows, AddedFit
  <2>5. claims' = [claims EXCEPT ![type] = new]
    BY <1>3 DEF DetectBreaks, table, found
  <2> HIDE DEF new
  <2> QED
    BY <1>0, <1>1, <2>4, <2>5
<1>4. CASE ComputeSnapshots(scope)
  <2> DEFINE type == "fraud_anomaly"
             found == {s \in shown \cap Snapshots : Covers(scope, TenantOf[s])}
             table == Kept(claims[type], Replaced(found))
             new == Added(table, found, FALSE)
  <2>1. table \in Table /\ Fit(table)
    BY <1>0, <1>2
  <2>2. \A i \in RowsOf(table) : \A s \in found : Coexist(table[i].subject, s)
    <3> SUFFICES ASSUME NEW i \in RowsOf(table), NEW s \in found PROVE Coexist(table[i].subject, s)
      OBVIOUS
    <3>1. i \in RowsOf(claims[type]) \ Replaced(found) /\ table[i] = claims[type][i]
      BY KeptRows
    <3>2. PartyOf[s] # PartyOf[table[i].subject]
      BY <3>1 DEF Replaced
    <3> QED
      BY <3>2 DEF Coexist
  <2>3. found \in SUBSET Subjects /\ \A a, b \in found : a # b => Coexist(a, b)
    BY PictureAssumption DEF Subjects
  <2> HIDE DEF table, found
  <2>4. new \in Table /\ Fit(new)
    BY <2>1, <2>2, <2>3, AddedRows, AddedFit
  <2>5. claims' = [claims EXCEPT ![type] = new]
    BY <1>4 DEF ComputeSnapshots, table, found
  <2> HIDE DEF new
  <2> QED
    BY <1>0, <1>1, <2>4, <2>5
<1>5. CASE ScoreSnapshots(scope)
  <2> DEFINE type == "fraud_anomaly"
             table == claims[type]
             scored == RowsInScope(type, scope)
  <2>1. PICK hot \in SUBSET scored :
            claims' = [claims EXCEPT ![type] =
                [i \in Ids |-> IF i \in scored THEN Row(table[i].subject, i \in hot) ELSE table[i]]]
    BY <1>5 DEF ScoreSnapshots
  <2> DEFINE new == [i \in Ids |-> IF i \in scored THEN Row(table[i].subject, i \in hot) ELSE table[i]]
  <2>2. table \in Table /\ Fit(table) /\ scored \subseteq RowsOf(table)
    BY <1>0 DEF RowsInScope
  <2>3. \A i \in scored : /\ new[i] \in ClaimRow /\ new[i] # None
                          /\ new[i].subject = table[i].subject
    <3> SUFFICES ASSUME NEW i \in scored
                 PROVE /\ new[i] \in ClaimRow /\ new[i] # None
                       /\ new[i].subject = table[i].subject
      OBVIOUS
    <3>1. i \in Ids /\ table[i].subject \in Subjects /\ (i \in hot) \in BOOLEAN
      BY <2>2, ClaimRows
    <3> QED
      BY <3>1, RowIsRow
  <2>4. \A i \in Ids \ scored : new[i] = table[i]
    OBVIOUS
  <2>5. new \in Table
    BY <2>2, <2>3, <2>4 DEF Table
  <2> HIDE DEF new, scored, table
  <2>6. Fit(new)
    BY <2>2, <2>3, <2>4 DEF Fit, RowsOf
  <2> QED
    BY <1>0, <1>1, <2>1, <2>5, <2>6 DEF new, scored, table
<1> QED
  BY <1>3, <1>4, <1>5

-----------------------------------------------------------------------------
(* The order of signals and the clusters *)

BeforeIn(S) == {p \in S \X S : Before(p[1], p[2])}
Present == {k \in Keys : claims[k[1]][k[2]] # None}

\* Subjects of rows are subjects, and have a time.
LEMMA PresentRows ==
    ASSUME ClaimsTyped, NEW k \in Present
    PROVE  SubjectOf(k) \in Subjects /\ Time(k) \in Nat /\ Group(k)[1] \in Tenants /\ Group(k)[2] \in Groups
<1>1. k[1] \in Types /\ k[2] \in RowsOf(claims[k[1]]) /\ claims[k[1]] \in Table
  BY DEF Present, Keys, ClaimsTyped, RowsOf
<1> QED
  BY <1>1, ClaimRows, SubjectAssumption DEF SubjectOf, Time, Group, Groups

\* The sort of the claims is strict and total.
LEMMA BeforeOrder ==
    ASSUME ClaimsTyped, NEW S \in SUBSET Present
    PROVE  /\ IsFiniteSet(S) /\ StrictOrder(S, BeforeIn(S))
           /\ \A x \in S : ~Before(x, x)
           /\ \A x, y, z \in S : Before(x, y) /\ Before(y, z) => Before(x, z)
           /\ \A x, y \in S : x = y \/ Before(x, y) \/ Before(y, x)
<1>1. IsFiniteSet(S)
  <2>1. IsFiniteSet(Ids)
    BY BoundAssumption, FS_Interval DEF Ids
  <2>2. IsFiniteSet({"reconciliation_break"} \cup {"fraud_anomaly"})
    BY FS_Singleton, FS_Union
  <2>3. IsFiniteSet(Types)
    <3>1. Types = {"reconciliation_break"} \cup {"fraud_anomaly"}
      BY DEF Types
    <3> QED
      BY <2>2, <3>1
  <2>4. IsFiniteSet(Types \X Ids)
    BY <2>1, <2>3, FS_Product
  <2>5. S \in SUBSET (Types \X Ids)
    BY DEF Present, Keys
  <2> QED
    BY <2>4, <2>5, FS_Subset
<1>2. \A k \in S : Time(k) \in Nat /\ k[1] \in Types /\ k[2] \in Nat /\ k = <<k[1], k[2]>>
  BY PresentRows, BoundAssumption DEF Present, Keys, Ids
<1>3. \A k \in S : ~Before(k, k)
  BY <1>2 DEF Before, CollectedBefore, Types
<1>4. \A k, l, m \in S : Before(k, l) /\ Before(l, m) => Before(k, m)
  BY <1>2 DEF Before, CollectedBefore, Types
<1>5. \A k, l \in S : k = l \/ Before(k, l) \/ Before(l, k)
  BY <1>2 DEF Before, CollectedBefore, Types
<1>6. StrictOrder(S, BeforeIn(S))
  BY <1>3, <1>4, <1>5 DEF StrictOrder, BeforeIn
<1> QED
  BY <1>1, <1>3, <1>4, <1>5, <1>6

GroupIn(k, signals) == {x \in signals : Group(x) = Group(k)}
Opening(x, G)       == \A y \in G : Before(y, x) => Apart(Time(x) - Time(y))
BetweenIn(a, b, G)  == {x \in G : Before(a, x) /\ (x = b \/ Before(x, b))}
Linked(x, k, G)     == \A y \in BetweenIn(x, k, G) \cup BetweenIn(k, x, G) : ~Opening(y, G)

\* A cluster is what is linked within a group.
LEMMA ClusterIs ==
    ASSUME NEW signals, NEW k
    PROVE  ClusterOf(k, signals) = {x \in GroupIn(k, signals) : Linked(x, k, GroupIn(k, signals))}
  BY DEF ClusterOf, GroupIn, Opening, BetweenIn, Linked

\* Being linked is an equivalence, so that clusters are equal or disjoint.
LEMMA ClusterSame ==
    ASSUME ClaimsTyped, NEW signals \in SUBSET Present, NEW k \in signals
    PROVE  /\ k \in ClusterOf(k, signals)
           /\ ClusterOf(k, signals) \subseteq signals
           /\ \A x \in ClusterOf(k, signals) : /\ Group(x) = Group(k)
                                               /\ ClusterOf(x, signals) = ClusterOf(k, signals)
<1> DEFINE G == GroupIn(k, signals)
<1>1. G \subseteq signals /\ k \in G
  BY DEF GroupIn
<1>2. /\ \A x \in signals : ~Before(x, x)
      /\ \A x, y, z \in signals : Before(x, y) /\ Before(y, z) => Before(x, z)
      /\ \A x, y \in signals : x = y \/ Before(x, y) \/ Before(y, x)
  BY BeforeOrder
<1>3. k \in ClusterOf(k, signals)
  <2>1. BetweenIn(k, k, G) = {}
    BY <1>1, <1>2 DEF BetweenIn
  <2> QED
    BY <1>1, <2>1, ClusterIs DEF Linked
<1>4. ASSUME NEW x \in ClusterOf(k, signals)
      PROVE  Group(x) = Group(k) /\ ClusterOf(x, signals) = ClusterOf(k, signals)
  <2>1. x \in G /\ Linked(x, k, G) /\ Group(x) = Group(k)
    BY ClusterIs DEF GroupIn
  <2>2. GroupIn(x, signals) = G
    BY <2>1 DEF GroupIn
  <2>3. \A a, b, c \in G : Linked(a, b, G) /\ Linked(b, c, G) => Linked(a, c, G)
    <3> SUFFICES ASSUME NEW a \in G, NEW b \in G, NEW c \in G, Linked(a, b, G), Linked(b, c, G)
                 PROVE  Linked(a, c, G)
      OBVIOUS
    <3>1. \A y \in BetweenIn(a, c, G) : y \in BetweenIn(a, b, G) \cup BetweenIn(b, c, G)
      BY <1>1, <1>2 DEF BetweenIn
    <3>2. \A y \in BetweenIn(c, a, G) : y \in BetweenIn(c, b, G) \cup BetweenIn(b, a, G)
      BY <1>1, <1>2 DEF BetweenIn
    <3> QED
      BY <3>1, <3>2 DEF Linked
  <2>4. \A a, b : Linked(a, b, G) <=> Linked(b, a, G)
    BY DEF Linked
  <2>5. \A z \in G : Linked(z, x, G) <=> Linked(z, k, G)
    BY <1>1, <2>1, <2>3, <2>4
  <2> QED
    BY <2>1, <2>2, <2>5, ClusterIs
<1>5. ClusterOf(k, signals) \subseteq signals
  BY <1>1, ClusterIs
<1> QED
  BY <1>3, <1>4, <1>5

\* What clusters are: disjoint sets of present claims of one group, each with a first one.
LEMMA ClusterFacts ==
    ASSUME ClaimsTyped, NEW signals \in SUBSET Present, NEW c \in Clusters(signals)
    PROVE  /\ c \in SUBSET signals /\ IsFiniteSet(c) /\ StrictOrder(c, BeforeIn(c))
           /\ First(c) \in c
           /\ \A k \in c : k = First(c) \/ Before(First(c), k)
           /\ \A k \in c : Group(k) = Group(First(c))
           /\ \A k \in c : ClusterOf(k, signals) = c
           /\ \A d \in Clusters(signals) : c \cap d # {} => c = d
<1>1. PICK k \in signals : c = ClusterOf(k, signals)
  BY DEF Clusters
<1>2. k \in c /\ c \in SUBSET signals /\ \A x \in c : Group(x) = Group(k) /\ ClusterOf(x, signals) = c
  BY <1>1, ClusterSame
<1>3. c \in SUBSET Present
  BY <1>2
<1>4. IsFiniteSet(c) /\ StrictOrder(c, BeforeIn(c))
  <2>1. \A S \in SUBSET Present : IsFiniteSet(S) /\ StrictOrder(S, BeforeIn(S))
    BY BeforeOrder
  <2> QED
    BY <1>3, <2>1
<1>5. PICK f \in c : \A x \in c : f = x \/ Before(f, x)
  <2>1. \E f \in c : \A x \in c : f = x \/ <<f, x>> \in BeforeIn(c)
    BY <1>2, <1>4, FirstExists
  <2>2. \A f, x : <<f, x>> \in BeforeIn(c) => Before(f, x)
    BY DEF BeforeIn
  <2> QED
    BY <2>1, <2>2
<1>0. /\ \A x \in c : ~Before(x, x)
      /\ \A x, y, z \in c : Before(x, y) /\ Before(y, z) => Before(x, z)
      /\ \A x, y \in c : x = y \/ Before(x, y) \/ Before(y, x)
  BY <1>4 DEF StrictOrder, BeforeIn
<1>6. \A x \in c : ~Before(x, f)
  BY <1>0, <1>5
<1>7. First(c) \in c /\ \A x \in c : ~Before(x, First(c))
  <2>1. \E y \in c : \A x \in c : ~Before(x, y)
    BY <1>6
  <2> QED
    BY <2>1 DEF First
<1>8. \A x \in c : x = First(c) \/ Before(First(c), x)
  BY <1>0, <1>7
<1>9. ASSUME NEW d \in Clusters(signals), c \cap d # {} PROVE c = d
  <2>1. PICK l \in signals : d = ClusterOf(l, signals)
    BY DEF Clusters
  <2>2. PICK x \in c : x \in d
    BY <1>9
  <2> QED
    BY <1>2, <2>1, <2>2, ClusterSame
<1> QED
  BY <1>2, <1>4, <1>7, <1>8, <1>9

\* Every claim is in a cluster, and there are finitely many.
LEMMA ClustersCover ==
    ASSUME ClaimsTyped, NEW signals \in SUBSET Present
    PROVE  /\ \A k \in signals : ClusterOf(k, signals) \in Clusters(signals) /\ k \in ClusterOf(k, signals)
           /\ IsFiniteSet(Clusters(signals))
<1>1. \A k \in signals : ClusterOf(k, signals) \in Clusters(signals) /\ k \in ClusterOf(k, signals)
  BY ClusterSame DEF Clusters
<1>2. IsFiniteSet(signals)
  BY BeforeOrder
<1>3. [k \in signals |-> ClusterOf(k, signals)] \in Surjection(signals, Clusters(signals))
  BY DEF Surjection, Clusters
<1>4. IsFiniteSet(Clusters(signals))
  BY <1>2, <1>3, FS_Surjection
<1> QED
  BY <1>1, <1>4

-----------------------------------------------------------------------------
(* The order in which cases are created *)

CollectedIn(S)   == {p \in S \X S : CollectedBefore(p[1], p[2])}
Met(g, signals)  == {k \in signals : Group(k) = g}
Lead(g, signals) == CHOOSE k \in Met(g, signals) : \A x \in Met(g, signals) : k = x \/ CollectedBefore(k, x)

\* So is the order in which the claims are collected.
LEMMA CollectedOrder ==
    ASSUME NEW S \in SUBSET Keys
    PROVE  /\ \A k \in S : ~CollectedBefore(k, k)
           /\ \A k, l, m \in S : CollectedBefore(k, l) /\ CollectedBefore(l, m) => CollectedBefore(k, m)
           /\ \A k, l \in S : k = l \/ CollectedBefore(k, l) \/ CollectedBefore(l, k)
           /\ StrictOrder(S, CollectedIn(S))
<1>1. \A k \in S : k[1] \in Types /\ k[2] \in Nat /\ k = <<k[1], k[2]>>
  BY BoundAssumption DEF Keys, Ids
<1>2. \A k \in S : ~CollectedBefore(k, k)
  BY <1>1 DEF CollectedBefore, Types
<1>3. \A k, l, m \in S : CollectedBefore(k, l) /\ CollectedBefore(l, m) => CollectedBefore(k, m)
  BY <1>1 DEF CollectedBefore, Types
<1>4. \A k, l \in S : k = l \/ CollectedBefore(k, l) \/ CollectedBefore(l, k)
  BY <1>1 DEF CollectedBefore, Types
<1>5. StrictOrder(S, CollectedIn(S))
  BY <1>2, <1>3, <1>4 DEF StrictOrder, CollectedIn
<1> QED
  BY <1>2, <1>3, <1>4, <1>5

\* The first claim of a group that is collected.
LEMMA LeadFacts ==
    ASSUME ClaimsTyped, NEW signals \in SUBSET Present, NEW g, Met(g, signals) # {}
    PROVE  /\ Lead(g, signals) \in signals /\ Group(Lead(g, signals)) = g
           /\ \A x \in Met(g, signals) : Lead(g, signals) = x \/ CollectedBefore(Lead(g, signals), x)
<1> DEFINE M == Met(g, signals)
<1>1. M \in SUBSET signals /\ M \in SUBSET Present /\ M \in SUBSET Keys
  BY DEF Met, Present
<1>2. IsFiniteSet(M)
  BY <1>1, BeforeOrder
<1>3. StrictOrder(M, CollectedIn(M))
  BY <1>1, CollectedOrder
<1>4. \E k \in M : \A x \in M : k = x \/ <<k, x>> \in CollectedIn(M)
  BY <1>2, <1>3, FirstExists
<1>5. \A k, x : <<k, x>> \in CollectedIn(M) => CollectedBefore(k, x)
  BY DEF CollectedIn
<1>6. \E k \in M : \A x \in M : k = x \/ CollectedBefore(k, x)
  BY <1>4, <1>5
<1>7. Lead(g, signals) \in M /\ \A x \in M : Lead(g, signals) = x \/ CollectedBefore(Lead(g, signals), x)
  BY <1>6 DEF Lead
<1> QED
  BY <1>7 DEF Met

\* Of two groups, the one is created first that was met first.
LEMMA CreatedIs ==
    ASSUME ClaimsTyped, NEW signals \in SUBSET Present,
           NEW c \in Clusters(signals), NEW d \in Clusters(signals)
    PROVE  CreatedBefore(c, d, signals) <=>
               IF Group(First(c)) = Group(First(d)) THEN Before(First(c), First(d))
               ELSE CollectedBefore(Lead(Group(First(c)), signals), Lead(Group(First(d)), signals))
<1> DEFINE g == Group(First(c))
           h == Group(First(d))
<1>1. First(c) \in Met(g, signals) /\ First(d) \in Met(h, signals)
  BY ClusterFacts DEF Met
<1> HIDE DEF g, h
<1>2. /\ Lead(g, signals) \in Met(g, signals) /\ Lead(h, signals) \in Met(h, signals)
      /\ \A x \in Met(g, signals) : Lead(g, signals) = x \/ CollectedBefore(Lead(g, signals), x)
      /\ \A x \in Met(h, signals) : Lead(h, signals) = x \/ CollectedBefore(Lead(h, signals), x)
  BY <1>1, LeadFacts DEF Met
<1>3. \A k, l, m \in signals : CollectedBefore(k, l) /\ CollectedBefore(l, m) => CollectedBefore(k, m)
  <2>1. signals \in SUBSET Keys
    BY DEF Present
  <2> QED
    BY <2>1, CollectedOrder
<1>4. Met(g, signals) \subseteq signals /\ Met(h, signals) \subseteq signals
  BY DEF Met
<1>5. (\E k \in Met(g, signals) : \A x \in Met(h, signals) : CollectedBefore(k, x))
          <=> CollectedBefore(Lead(g, signals), Lead(h, signals))
  BY <1>2, <1>3, <1>4
<1>6. CreatedBefore(c, d, signals) <=>
          IF g = h THEN Before(First(c), First(d))
          ELSE \E k \in Met(g, signals) : \A x \in Met(h, signals) : CollectedBefore(k, x)
  BY DEF CreatedBefore, Met, g, h
<1> QED
  BY <1>5, <1>6 DEF g, h

CreatedIn(signals) ==
    {p \in Clusters(signals) \X Clusters(signals) : p[1] # p[2] /\ CreatedBefore(p[1], p[2], signals)}

\* Cases are created one after the other.
LEMMA CreatedOrder ==
    ASSUME ClaimsTyped, NEW signals \in SUBSET Present
    PROVE  StrictOrder(Clusters(signals), CreatedIn(signals))
<1> DEFINE C == Clusters(signals)
           G(c) == Group(First(c))
           L(c) == Lead(G(c), signals)
<1>1. \A c, d \in C : CreatedBefore(c, d, signals) <=>
          IF G(c) = G(d) THEN Before(First(c), First(d)) ELSE CollectedBefore(L(c), L(d))
  BY CreatedIs
<1>2. \A c \in C : L(c) \in signals /\ Group(L(c)) = G(c) /\ First(c) \in signals
  <2> SUFFICES ASSUME NEW c \in C
               PROVE  L(c) \in signals /\ Group(L(c)) = G(c) /\ First(c) \in signals
    OBVIOUS
  <2>1. First(c) \in signals /\ Met(G(c), signals) # {}
    BY ClusterFacts DEF Met
  <2> HIDE DEF G
  <2> QED
    BY <2>1, LeadFacts
<1>3. \A c, d \in C : First(c) = First(d) => c = d
  <2> SUFFICES ASSUME NEW c \in C, NEW d \in C, First(c) = First(d) PROVE c = d
    OBVIOUS
  <2>1. First(c) \in c /\ First(d) \in d /\ (c \cap d # {} => c = d)
    BY ClusterFacts
  <2> QED
    BY <2>1
<1>4. /\ \A x \in signals : ~Before(x, x)
      /\ \A x, y, z \in signals : Before(x, y) /\ Before(y, z) => Before(x, z)
      /\ \A x, y \in signals : x = y \/ Before(x, y) \/ Before(y, x)
  BY BeforeOrder
<1>5. /\ \A x \in signals : ~CollectedBefore(x, x)
      /\ \A x, y, z \in signals : CollectedBefore(x, y) /\ CollectedBefore(y, z) => CollectedBefore(x, z)
      /\ \A x, y \in signals : x = y \/ CollectedBefore(x, y) \/ CollectedBefore(y, x)
  <2>1. signals \in SUBSET Keys
    BY DEF Present
  <2> QED
    BY <2>1, CollectedOrder
<1> HIDE DEF G, L, C
<1>6. \A c, d, e \in C : CreatedBefore(c, d, signals) /\ CreatedBefore(d, e, signals)
                             => CreatedBefore(c, e, signals) /\ c # e
  <2> SUFFICES ASSUME NEW c \in C, NEW d \in C, NEW e \in C,
                      CreatedBefore(c, d, signals), CreatedBefore(d, e, signals)
               PROVE  CreatedBefore(c, e, signals) /\ c # e
    OBVIOUS
  <2>1. CASE G(c) = G(d) /\ G(d) = G(e)
    BY <1>1, <1>2, <1>4, <2>1
  <2>2. CASE G(c) # G(d) /\ G(d) = G(e)
    <3>1. L(d) = L(e)
      BY <2>2 DEF L
    <3> QED
      BY <1>1, <2>2, <3>1
  <2>3. CASE G(c) = G(d) /\ G(d) # G(e)
    <3>1. L(c) = L(d)
      BY <2>3 DEF L
    <3> QED
      BY <1>1, <2>3, <3>1
  <2>4. CASE G(c) # G(d) /\ G(d) # G(e)
    <3>1. CollectedBefore(L(c), L(d)) /\ CollectedBefore(L(d), L(e))
      BY <1>1, <2>4
    <3>2. CollectedBefore(L(c), L(e)) /\ L(c) # L(e)
      BY <1>2, <1>5, <3>1
    <3>3. G(c) # G(e)
      BY <3>2 DEF L
    <3> QED
      BY <1>1, <3>2, <3>3
  <2> QED
    BY <2>1, <2>2, <2>3, <2>4
<1>7. \A c, d \in C : c = d \/ CreatedBefore(c, d, signals) \/ CreatedBefore(d, c, signals)
  BY <1>1, <1>2, <1>3, <1>4, <1>5
<1> QED
  BY <1>6, <1>7 DEF StrictOrder, CreatedIn, C

\* The ids of new cases: distinct, above those of the table, and within Ids if they fit.
LEMMA CasePlaces ==
    ASSUME ClaimsTyped, NEW signals \in SUBSET Present, NEW table,
           Fits(table, Cardinality(Clusters(signals)))
    PROVE  /\ \A c \in Clusters(signals) : CasePlace(table, c, signals) \in Ids \ RowsOf(table)
           /\ \A c, d \in Clusters(signals) :
                 CasePlace(table, c, signals) = CasePlace(table, d, signals) => c = d
<1> DEFINE C == Clusters(signals)
           R == CreatedIn(signals)
<1>1. IsFiniteSet(C) /\ StrictOrder(C, R) /\ Cardinality(C) \in Nat
  BY ClustersCover, CreatedOrder, FS_CardinalityType
<1>2. \A c \in C : Rank(c, C, R) \in 1..Cardinality(C)
  BY <1>1, SmallerFewer
<1>3. \A c \in C : /\ CasePlace(table, c, signals) = NextId(table) + Cardinality(Smaller(c, C, R))
                   /\ Cardinality(Smaller(c, C, R)) \in Nat
  <2> SUFFICES ASSUME NEW c \in C
               PROVE  /\ CasePlace(table, c, signals) = NextId(table) + Cardinality(Smaller(c, C, R))
                      /\ Cardinality(Smaller(c, C, R)) \in Nat
    OBVIOUS
  <2>1. {d \in C : d # c /\ CreatedBefore(d, c, signals)} = Smaller(c, C, R)
    BY DEF Smaller, CreatedIn
  <2>2. Cardinality(Smaller(c, C, R)) \in Nat
    BY <1>1, SmallerFewer
  <2> QED
    BY <2>1, <2>2 DEF CasePlace
<1>4. NextId(table) \in Nat \ {0} /\ \A i \in RowsOf(table) : i < NextId(table)
  BY NextIdAbove
<1>5. NextId(table) + Cardinality(C) <= MaxId + 1 /\ MaxId \in Nat
  BY BoundAssumption DEF Fits
<1>6. ASSUME NEW c \in C
      PROVE  CasePlace(table, c, signals) \in Ids \ RowsOf(table)
  <2>1. /\ CasePlace(table, c, signals) = NextId(table) + Rank(c, C, R) - 1
        /\ Rank(c, C, R) \in 1..Cardinality(C)
    BY <1>2, <1>3, <1>4 DEF Rank
  <2> HIDE DEF C, R
  <2>2. CasePlace(table, c, signals) \in 1..MaxId /\ CasePlace(table, c, signals) >= NextId(table)
    BY <1>1, <1>4, <1>5, <2>1
  <2> QED
    BY <1>4, <2>2 DEF Ids
<1>7. ASSUME NEW c \in C, NEW d \in C, CasePlace(table, c, signals) = CasePlace(table, d, signals)
      PROVE  c = d
  <2>1. Rank(c, C, R) = Rank(d, C, R)
    BY <1>3, <1>4, <1>7 DEF Rank
  <2> QED
    BY <1>1, <2>1, RankInjective
<1> QED
  BY <1>6, <1>7

-----------------------------------------------------------------------------
(* What compute_cases makes *)

AlertsFor(c, id) == {NewAlert(k, c, id) : k \in c}
CasesTyped       == cases \in [Ids -> CaseRow \cup {None}] /\ alerts \subseteq Alert

\* The claims that are collected are rows of the tables.
LEMMA SignalsPresent ==
    ASSUME NEW scope
    PROVE  Signals(scope) \in SUBSET Present
  BY DEF Signals, Present, Keys, IsClaim

\* A case is opened for the tenant and the group of its claims, and not yet validated.
LEMMA NewCaseRow ==
    ASSUME ClaimsTyped, NEW signals \in SUBSET Present, NEW c \in Clusters(signals)
    PROVE  /\ NewCase(c) \in CaseRow /\ NewCase(c) # None
           /\ NewCase(c).status = "PENDING"
           /\ \A k \in c : Group(k) = <<NewCase(c).tenant, NewCase(c).group>>
<1>1. /\ First(c) \in Present
      /\ \A k \in c : Group(k) = Group(First(c))
  BY ClusterFacts
<1>2. Group(First(c))[1] \in Tenants /\ Group(First(c))[2] \in Groups
  BY <1>1, PresentRows
<1>3. NewCase(c) = [tenant |-> Group(First(c))[1], group |-> Group(First(c))[2], status |-> "PENDING"]
  BY DEF NewCase, Case
<1>4. Group(First(c)) = <<Group(First(c))[1], Group(First(c))[2]>>
  BY DEF Group
<1>5. NewCase(c) \in CaseRow
  BY <1>2, <1>3 DEF CaseRow, Stati
<1>6. NewCase(c) # None
  BY <1>5, NoneAssumption
<1> QED
  BY <1>1, <1>3, <1>4, <1>5, <1>6

\* The alerts of a new case are one for each claim, numbered from 1 on.
LEMMA AlertsMade ==
    ASSUME ClaimsTyped, NEW signals \in SUBSET Present, NEW c \in Clusters(signals), NEW id \in Ids
    PROVE  /\ AlertsFor(c, id) \subseteq Alert /\ AlertsFor(c, id) # {}
           /\ IsFiniteSet(AlertsFor(c, id)) /\ Cardinality(AlertsFor(c, id)) = Cardinality(c)
           /\ {a.pos : a \in AlertsFor(c, id)} = 1..Cardinality(AlertsFor(c, id))
           /\ \A a \in AlertsFor(c, id) : a.case = id /\ a.tenant = NewCase(c).tenant
           /\ \A k \in c : NewAlert(k, c, id).type = k[1] /\ NewAlert(k, c, id).source = k[2]
                           /\ k = <<k[1], k[2]>> /\ NewAlert(k, c, id).pos = Position(k, c)
<1>1. /\ c \in SUBSET Present /\ IsFiniteSet(c) /\ StrictOrder(c, BeforeIn(c)) /\ First(c) \in c
  BY ClusterFacts
<1>2. \A k \in c : Position(k, c) = Rank(k, c, BeforeIn(c))
  <2> SUFFICES ASSUME NEW k \in c PROVE Position(k, c) = Rank(k, c, BeforeIn(c))
    OBVIOUS
  <2>1. {x \in c : Before(x, k)} = Smaller(k, c, BeforeIn(c))
    BY DEF Smaller, BeforeIn
  <2> QED
    BY <2>1 DEF Position, Rank
<1>3. {Rank(k, c, BeforeIn(c)) : k \in c} = 1..Cardinality(c)
  BY <1>1, RankSurjective
<1>4. \A k \in c : Position(k, c) \in Nat \ {0}
  <2>1. \A k \in c : Rank(k, c, BeforeIn(c)) \in 1..Cardinality(c)
    BY <1>1, SmallerFewer
  <2>2. Cardinality(c) \in Nat
    BY <1>1, FS_CardinalityType
  <2> QED
    BY <1>2, <2>1, <2>2
<1>5. \A k \in c : k \in Keys /\ k = <<k[1], k[2]>> /\ Group(k)[1] \in Tenants
                    /\ Group(k)[1] = NewCase(c).tenant
  <2>1. \A k \in c : k \in Keys /\ k = <<k[1], k[2]>>
    BY <1>1 DEF Present, Keys
  <2>2. \A k \in c : Group(k)[1] \in Tenants
    BY <1>1, PresentRows
  <2>3. \A k \in c : Group(k) = <<NewCase(c).tenant, NewCase(c).group>>
    BY NewCaseRow
  <2> QED
    BY <2>1, <2>2, <2>3
<1>6. \A k \in c : NewAlert(k, c, id) =
          [case |-> id, tenant |-> Group(k)[1], type |-> k[1], source |-> k[2], pos |-> Position(k, c)]
  BY DEF NewAlert
<1>7. AlertsFor(c, id) \subseteq Alert
  BY <1>4, <1>5, <1>6 DEF AlertsFor, Alert, Keys
<1>8. \A k, l \in c : NewAlert(k, c, id) = NewAlert(l, c, id) => k = l
  BY <1>5, <1>6
<1>9. IsFiniteSet(AlertsFor(c, id)) /\ Cardinality(AlertsFor(c, id)) = Cardinality(c)
  <2> DEFINE f == [k \in c |-> NewAlert(k, c, id)]
  <2>1. f \in [c -> AlertsFor(c, id)]
    BY DEF AlertsFor
  <2>2. f \in Injection(c, AlertsFor(c, id))
    BY <1>8, <2>1 DEF Injection, IsInjective
  <2>3. f \in Surjection(c, AlertsFor(c, id))
    BY <2>1 DEF Surjection, AlertsFor
  <2> QED
    BY <1>1, <2>2, <2>3, FS_Surjection
<1>10. {a.pos : a \in AlertsFor(c, id)} = 1..Cardinality(c)
  <2>1. {a.pos : a \in AlertsFor(c, id)} = {Rank(k, c, BeforeIn(c)) : k \in c}
    BY <1>2, <1>6 DEF AlertsFor
  <2> QED
    BY <1>3, <2>1
<1>11. AlertsFor(c, id) # {}
  BY <1>1 DEF AlertsFor
<1>12. \A a \in AlertsFor(c, id) : a.case = id /\ a.tenant = NewCase(c).tenant
  BY <1>5, <1>6 DEF AlertsFor
<1>13. \A k \in c : NewAlert(k, c, id).type = k[1] /\ NewAlert(k, c, id).source = k[2]
                   /\ k = <<k[1], k[2]>> /\ NewAlert(k, c, id).pos = Position(k, c)
  BY <1>5, <1>6
<1> QED
  BY <1>7, <1>9, <1>10, <1>11, <1>12, <1>13

Rest(scope)      == Kept(cases, {i \in RowsOf(cases) : Covers(scope, cases[i].tenant)})
IdOf(scope, c)   == CasePlace(Rest(scope), c, Signals(scope))
Made(scope)      == Clusters(Signals(scope))

\* The tables after compute_cases.
LEMMA CasesMade ==
    ASSUME ClaimsTyped, CasesTyped, NEW scope, ComputeCases(scope)
    PROVE  /\ \A c \in Made(scope) : /\ IdOf(scope, c) \in Ids \ RowsOf(Rest(scope))
                                     /\ cases'[IdOf(scope, c)] = NewCase(c)
           /\ \A c, d \in Made(scope) : IdOf(scope, c) = IdOf(scope, d) => c = d
           /\ \A i \in RowsOf(Rest(scope)) : /\ i \in RowsOf(cases) /\ ~Covers(scope, cases[i].tenant)
                                             /\ cases'[i] = cases[i]
           /\ \A i \in RowsOf(cases) : ~Covers(scope, cases[i].tenant) => i \in RowsOf(Rest(scope))
           /\ \A i \in RowsOf(cases') : i \in RowsOf(Rest(scope)) \/ \E c \in Made(scope) : i = IdOf(scope, c)
           /\ alerts' = AlertsOutside(scope) \cup UNION {AlertsFor(c, IdOf(scope, c)) : c \in Made(scope)}
           /\ CasesTyped'
<1> DEFINE C == Made(scope)
           Id(c) == IdOf(scope, c)
           table == Rest(scope)
<1>1. Signals(scope) \in SUBSET Present
  BY SignalsPresent
<1>2. /\ Fits(table, Cardinality(C))
      /\ cases' = [i \in Ids |-> IF \E c \in C : Id(c) = i
                                 THEN NewCase(CHOOSE c \in C : Id(c) = i) ELSE table[i]]
      /\ alerts' = AlertsOutside(scope) \cup UNION {AlertsFor(c, Id(c)) : c \in C}
  BY DEF ComputeCases, Rest, IdOf, Made, AlertsFor
<1>3. /\ \A c \in C : Id(c) \in Ids \ RowsOf(table)
      /\ \A c, d \in C : Id(c) = Id(d) => c = d
  BY <1>1, <1>2, CasePlaces DEF IdOf, Made
<1>4. /\ RowsOf(table) = {i \in RowsOf(cases) : ~Covers(scope, cases[i].tenant)}
      /\ \A i \in RowsOf(table) : table[i] = cases[i]
  BY KeptRows DEF Rest
<1>5. \A c \in C : NewCase(c) \in CaseRow /\ NewCase(c) # None
  BY <1>1, NewCaseRow DEF Made
<1>6. table \in [Ids -> CaseRow \cup {None}]
  BY DEF Rest, Kept, CasesTyped
<1> HIDE DEF C, Id, table
<1>7. \A c \in C : cases'[Id(c)] = NewCase(c)
  <2> SUFFICES ASSUME NEW c \in C PROVE cases'[Id(c)] = NewCase(c)
    OBVIOUS
  <2>1. (CHOOSE d \in C : Id(d) = Id(c)) = c
    BY <1>3
  <2> QED
    BY <1>2, <1>3, <2>1
<1>8. \A i \in Ids : (~\E c \in C : Id(c) = i) => cases'[i] = table[i]
  BY <1>2
<1>9. RowsOf(table) \subseteq Ids
  BY DEF RowsOf
<1>10. \A i \in RowsOf(table) : cases'[i] = cases[i]
  BY <1>3, <1>4, <1>8, <1>9
<1>11. \A i \in RowsOf(cases') : i \in RowsOf(table) \/ \E c \in C : i = Id(c)
  BY <1>8 DEF RowsOf
<1>12. cases' \in [Ids -> CaseRow \cup {None}]
  <2>1. \A i \in Ids : cases'[i] \in CaseRow \cup {None}
    BY <1>5, <1>6, <1>7, <1>8
  <2> QED
    BY <1>2, <2>1
<1>13. alerts' \subseteq Alert
  <2>1. \A c \in C : AlertsFor(c, Id(c)) \subseteq Alert
    BY <1>1, <1>3, AlertsMade DEF C, Made
  <2>2. AlertsOutside(scope) \subseteq Alert
    BY DEF AlertsOutside, CasesTyped
  <2> QED
    BY <1>2, <2>1, <2>2
<1> QED
  BY <1>2, <1>3, <1>4, <1>7, <1>10, <1>11, <1>12, <1>13 DEF C, Id, table, CasesTyped

\* After compute_cases, an alert is one of a tenant out of scope and of a case that was
\* kept, or one of a new case.
LEMMA MadeAlerts ==
    ASSUME ClaimsTyped, CasesTyped, AlertsHaveTheirCase, NEW scope, ComputeCases(scope)
    PROVE  /\ \A a \in alerts' :
                 \/ a \in alerts /\ ~Covers(scope, a.tenant) /\ a.case \in RowsOf(Rest(scope))
                 \/ Covers(scope, a.tenant) /\ \E c \in Made(scope) : a \in AlertsFor(c, IdOf(scope, c))
           /\ \A a \in alerts : ~Covers(scope, a.tenant) => a \in alerts' /\ a.case \in RowsOf(Rest(scope))
           /\ \A c \in Made(scope) : AlertsFor(c, IdOf(scope, c)) \subseteq alerts'
<1>1. \A a \in alerts : a.case \in RowsOf(cases) /\ cases[a.case].tenant = a.tenant
  BY DEF AlertsHaveTheirCase, CasesTyped, RowsOf, Alert
<1>2. \A a \in AlertsOutside(scope) :
          a \in alerts /\ ~Covers(scope, a.tenant) /\ a.case \in RowsOf(Rest(scope))
  BY <1>1, CasesMade DEF AlertsOutside
<1>3. alerts' = AlertsOutside(scope) \cup UNION {AlertsFor(c, IdOf(scope, c)) : c \in Made(scope)}
  BY CasesMade
<1>4. ASSUME NEW c \in Made(scope), NEW a \in AlertsFor(c, IdOf(scope, c))
      PROVE  Covers(scope, a.tenant)
  <2>1. c \in Clusters(Signals(scope)) /\ Signals(scope) \in SUBSET Present /\ IdOf(scope, c) \in Ids
    BY SignalsPresent, CasesMade DEF Made
  <2>2. PICK k \in c : a = NewAlert(k, c, IdOf(scope, c))
    BY <1>4 DEF AlertsFor
  <2>3. k \in Signals(scope)
    BY <2>1, ClusterFacts
  <2>4. Covers(scope, Group(k)[1])
    BY <2>3 DEF Signals, Group, SubjectOf, ClaimTenant
  <2> QED
    BY <2>2, <2>4 DEF NewAlert
<1>5. \A a \in alerts : ~Covers(scope, a.tenant) => a \in AlertsOutside(scope)
  BY DEF AlertsOutside
<1> QED
  BY <1>2, <1>3, <1>4, <1>5

\* compute_cases leaves the alerts of kept cases and makes those of new ones, and all of
\* them belong to a case of their tenant and are numbered.
LEMMA AlertsStep ==
    ASSUME ClaimsTyped, CasesTyped, AlertsHaveTheirCase, NEW scope, ComputeCases(scope)
    PROVE  /\ \A i \in RowsOf(Rest(scope)) : AlertsOf(i, cases[i].tenant)' = AlertsOf(i, cases[i].tenant)
           /\ \A c \in Made(scope) :
                 {a \in alerts' : a.case = IdOf(scope, c) /\ a.tenant = NewCase(c).tenant}
                     = AlertsFor(c, IdOf(scope, c))
           /\ AlertsHaveTheirCase'
<1>1. /\ \A c \in Made(scope) : /\ IdOf(scope, c) \in Ids \ RowsOf(Rest(scope))
                                /\ cases'[IdOf(scope, c)] = NewCase(c)
      /\ \A c, d \in Made(scope) : IdOf(scope, c) = IdOf(scope, d) => c = d
      /\ \A i \in RowsOf(Rest(scope)) : /\ i \in RowsOf(cases) /\ ~Covers(scope, cases[i].tenant)
                                        /\ cases'[i] = cases[i]
      /\ \A i \in RowsOf(cases') : i \in RowsOf(Rest(scope)) \/ \E c \in Made(scope) : i = IdOf(scope, c)
  BY CasesMade
<1>2. /\ \A a \in alerts' :
            \/ a \in alerts /\ ~Covers(scope, a.tenant) /\ a.case \in RowsOf(Rest(scope))
            \/ Covers(scope, a.tenant) /\ \E c \in Made(scope) : a \in AlertsFor(c, IdOf(scope, c))
      /\ \A a \in alerts : ~Covers(scope, a.tenant) => a \in alerts' /\ a.case \in RowsOf(Rest(scope))
      /\ \A c \in Made(scope) : AlertsFor(c, IdOf(scope, c)) \subseteq alerts'
  BY MadeAlerts
<1>3. \A c \in Made(scope) :
          /\ AlertsFor(c, IdOf(scope, c)) # {}
          /\ {a.pos : a \in AlertsFor(c, IdOf(scope, c))} = 1..Cardinality(AlertsFor(c, IdOf(scope, c)))
          /\ \A a \in AlertsFor(c, IdOf(scope, c)) : a.case = IdOf(scope, c) /\ a.tenant = NewCase(c).tenant
          /\ NewCase(c) # None
  <2> SUFFICES ASSUME NEW c \in Made(scope)
               PROVE
          /\ AlertsFor(c, IdOf(scope, c)) # {}
          /\ {a.pos : a \in AlertsFor(c, IdOf(scope, c))} = 1..Cardinality(AlertsFor(c, IdOf(scope, c)))
          /\ \A a \in AlertsFor(c, IdOf(scope, c)) : a.case = IdOf(scope, c) /\ a.tenant = NewCase(c).tenant
          /\ NewCase(c) # None
    OBVIOUS
  <2>1. c \in Clusters(Signals(scope)) /\ Signals(scope) \in SUBSET Present /\ IdOf(scope, c) \in Ids
    BY <1>1, SignalsPresent DEF Made
  <2> QED
    BY <2>1, AlertsMade, NewCaseRow
<1>4. \A a \in alerts : cases[a.case] # None /\ cases[a.case].tenant = a.tenant
  BY DEF AlertsHaveTheirCase
<1>5. ASSUME NEW i \in RowsOf(Rest(scope))
      PROVE  AlertsOf(i, cases[i].tenant)' = AlertsOf(i, cases[i].tenant)
  <2>1. {a \in alerts' : a.case = i /\ a.tenant = cases'[i].tenant}
            = {a \in alerts : a.case = i /\ a.tenant = cases[i].tenant}
    BY <1>1, <1>2, <1>3
  <2> QED
    BY <2>1 DEF AlertsOf
<1>6. ASSUME NEW c \in Made(scope)
      PROVE  {a \in alerts' : a.case = IdOf(scope, c) /\ a.tenant = NewCase(c).tenant}
                 = AlertsFor(c, IdOf(scope, c))
  BY <1>1, <1>2, <1>3
<1>7. \A a \in alerts' : cases'[a.case] # None /\ cases'[a.case].tenant = a.tenant
  BY <1>1, <1>2, <1>3, <1>4
<1>8. ASSUME NEW i \in RowsOf(cases')
      PROVE  LET own == AlertsOf(i, cases[i].tenant)' IN
             own # {} /\ {a.pos : a \in own} = 1..Cardinality(own)
  <2>1. CASE i \in RowsOf(Rest(scope))
    BY <1>1, <1>5, <2>1 DEF AlertsHaveTheirCase
  <2>2. CASE \E c \in Made(scope) : i = IdOf(scope, c)
    <3>1. PICK c \in Made(scope) : i = IdOf(scope, c)
      BY <2>2
    <3>2. AlertsOf(i, cases[i].tenant)' = AlertsFor(c, IdOf(scope, c))
      BY <1>1, <1>6, <3>1 DEF AlertsOf
    <3> QED
      BY <1>3, <3>1, <3>2
  <2> QED
    BY <1>1, <2>1, <2>2
<1>9. RowsOf(cases)' = RowsOf(cases')
  BY DEF RowsOf
<1>10. AlertsHaveTheirCase'
  BY <1>7, <1>8, <1>9 DEF AlertsHaveTheirCase
<1> QED
  BY <1>5, <1>6, <1>10

-----------------------------------------------------------------------------
(* The verdicts *)

\* A validation changes nothing of a case but its status.
LEMMA ValidatedCase ==
    ASSUME CasesTyped, NEW i \in RowsOf(cases), NEW status \in Stati, NEW n, ValidateUpTo(i, status, n)
    PROVE  /\ cases' \in [Ids -> CaseRow \cup {None}] /\ RowsOf(cases)' = RowsOf(cases)
           /\ \A j \in RowsOf(cases) : cases'[j].tenant = cases[j].tenant /\ cases'[j].group = cases[j].group
           /\ \A j \in RowsOf(cases) : cases'[j].status = IF j = i THEN status ELSE cases[j].status
<1> DEFINE row == Case(cases[i].tenant, cases[i].group, status)
<1>1. cases' = [cases EXCEPT ![i] = row]
  BY DEF ValidateUpTo
<1>2. i \in Ids /\ cases[i] \in CaseRow
  BY DEF RowsOf, CasesTyped
<1>3. row \in CaseRow /\ row.tenant = cases[i].tenant /\ row.group = cases[i].group /\ row.status = status
  BY <1>2 DEF Case, CaseRow
<1> HIDE DEF row
<1>4. row # None
  BY <1>3, NoneAssumption
<1>5. \A j \in Ids : cases'[j] = IF j = i THEN row ELSE cases[j]
  BY <1>1 DEF CasesTyped
<1>6. cases' \in [Ids -> CaseRow \cup {None}]
  BY <1>1, <1>3, <1>5 DEF CasesTyped
<1>7. RowsOf(cases)' = RowsOf(cases)
  BY <1>2, <1>4, <1>5 DEF RowsOf
<1>8. RowsOf(cases) \subseteq Ids
  BY DEF RowsOf
<1> QED
  BY <1>3, <1>5, <1>6, <1>7, <1>8

\* The verdicts that a validation gives are review statuses.
LEMMA VerdictIs ==
    ASSUME NEW status \in Stati
    PROVE  VerdictFor(status) \in Verdicts
  BY DEF VerdictFor, Verdicts, Stati

\* What a review is about is a subject, or nothing.
LEMMA AboutIs ==
    ASSUME ClaimsTyped, NEW k \in Types \X Tenants \X Ids
    PROVE  About(k) \in Subjects \cup {None}
<1>1. k[1] \in Types /\ k[3] \in Ids
  OBVIOUS
<1>2. claims[k[1]] \in Table
  BY <1>1 DEF ClaimsTyped
<1>3. CASE claims[k[1]][k[3]] = None
  BY <1>3 DEF About
<1>4. CASE claims[k[1]][k[3]] # None
  <2>1. k[3] \in RowsOf(claims[k[1]])
    BY <1>1, <1>4 DEF RowsOf
  <2> QED
    BY <1>2, <1>4, <2>1, ClaimRows DEF About
<1> QED
  BY <1>3, <1>4

ReviewsTyped == /\ reviews \in [Types \X Tenants \X Ids -> Verdicts \cup {None}]
                /\ aux_about \in [Types \X Tenants \X Ids -> Subjects \cup {None}]
                /\ verdicts \in 0..MaxVerdicts

\* Reviews are written for keys and leave the others.
LEMMA ReviewedTyped ==
    ASSUME ClaimsTyped, ReviewsTyped, NEW keys, NEW verdict \in Verdicts, Reviewed(keys, verdict)
    PROVE  /\ ReviewsTyped'
           /\ \A k \in Types \X Tenants \X Ids : reviews'[k] = IF k \in keys THEN verdict ELSE reviews[k]
<1> DEFINE K == Types \X Tenants \X Ids
<1>1. DOMAIN reviews = K /\ DOMAIN aux_about = K
  BY DEF ReviewsTyped
<1>2. /\ reviews' = [k \in K |-> IF k \in keys THEN verdict ELSE reviews[k]]
      /\ aux_about' = [k \in K |-> IF k \in keys THEN About(k) ELSE aux_about[k]]
  BY <1>1 DEF Reviewed
<1>3. \A k \in K : About(k) \in Subjects \cup {None}
  BY AboutIs
<1> HIDE DEF K
<1>4. reviews' \in [K -> Verdicts \cup {None}]
  BY <1>2 DEF ReviewsTyped, K
<1>5. aux_about' \in [K -> Subjects \cup {None}]
  BY <1>2, <1>3 DEF ReviewsTyped, K
<1>6. verdicts' \in 0..MaxVerdicts
  BY BoundAssumption DEF Reviewed, ReviewsTyped
<1> QED
  BY <1>2, <1>4, <1>5, <1>6 DEF ReviewsTyped, K

\* The key of an alert is that of a review.
LEMMA KeyIsKey ==
    ASSUME CasesTyped, NEW a \in alerts
    PROVE  KeyOf(a) \in Types \X Tenants \X Ids
  BY DEF KeyOf, CasesTyped, Alert

\* A validation that is not cut short reaches every alert; one that is marks its case.
LEMMA ValidationStep ==
    ASSUME ClaimsTyped, CasesTyped, ReviewsTyped, AlertsHaveTheirCase, ValidationReachesAlerts,
           NEW i \in RowsOf(cases), NEW status \in Stati, NEW n, ValidateUpTo(i, status, n)
    PROVE  ValidationReachesAlerts'
<1> DEFINE t == cases[i].tenant
           keys == ReviewedAlerts(i, t, n)
           other == {j \in RowsOf(cases) \ {i} : \E a \in alerts : a.case = j /\ KeyOf(a) \in keys}
<1>1. /\ RowsOf(cases)' = RowsOf(cases)
      /\ \A j \in RowsOf(cases) : cases'[j].tenant = cases[j].tenant
      /\ \A j \in RowsOf(cases) : cases'[j].status = IF j = i THEN status ELSE cases[j].status
  BY ValidatedCase
<1>2. /\ Reviewed(keys, VerdictFor(status)) /\ alerts' = alerts
      /\ aux_mixed' = IF n = Cardinality(AlertsOf(i, t)) THEN (aux_mixed \cup other) \ {i}
                       ELSE aux_mixed \cup other \cup {i}
  BY DEF ValidateUpTo
<1>3. \A k \in Types \X Tenants \X Ids : reviews'[k] = IF k \in keys THEN VerdictFor(status) ELSE reviews[k]
  BY <1>2, VerdictIs, ReviewedTyped
<1>4. \A a \in alerts : KeyOf(a) \in Types \X Tenants \X Ids
  BY KeyIsKey
<1>5. SUFFICES ASSUME NEW j \in RowsOf(cases), j \notin aux_mixed', cases'[j].status # "PENDING",
                      NEW a \in alerts, a.case = j, a.tenant = cases[j].tenant
               PROVE  reviews'[KeyOf(a)] = VerdictFor(cases'[j].status)
  <2>1. \A j \in RowsOf(cases) : {a \in alerts' : a.case = j /\ a.tenant = cases'[j].tenant}
                                     = {a \in alerts : a.case = j /\ a.tenant = cases[j].tenant}
    BY <1>1, <1>2
  <2>2. \A j \in RowsOf(cases) \ aux_mixed' : cases'[j].status # "PENDING" =>
            \A a \in {a \in alerts : a.case = j /\ a.tenant = cases[j].tenant} :
                reviews'[KeyOf(a)] = VerdictFor(cases'[j].status)
    BY <1>5
  <2>3. ValidationReachesAlerts' <=>
            \A j \in RowsOf(cases)' \ aux_mixed' : cases'[j].status # "PENDING" =>
                \A a \in {a \in alerts' : a.case = j /\ a.tenant = cases'[j].tenant} :
                    reviews'[KeyOf(a)] = VerdictFor(cases'[j].status)
    BY DEF ValidationReachesAlerts, AlertsOf, KeyOf, VerdictFor
  <2> QED
    BY <1>1, <2>1, <2>2, <2>3
<1>6. CASE j = i
  <2>1. n = Cardinality(AlertsOf(i, t))
    BY <1>2, <1>5, <1>6
  <2>2. a \in AlertsOf(i, t)
    BY <1>5, <1>6 DEF AlertsOf
  <2>3. a.pos \in 1..n
    BY <2>1, <2>2 DEF AlertsHaveTheirCase
  <2>4. a.pos <= n
    BY <2>3
  <2>5. KeyOf(a) \in keys
    BY <2>2, <2>4 DEF ReviewedAlerts
  <2> HIDE DEF keys
  <2> QED
    BY <1>1, <1>3, <1>4, <1>6, <2>5
<1>7. CASE j # i
  <2>1. j \notin aux_mixed /\ j \notin other
    BY <1>2, <1>5, <1>7
  <2>2. KeyOf(a) \notin keys
    BY <1>5, <1>7, <2>1
  <2>3. reviews'[KeyOf(a)] = reviews[KeyOf(a)] /\ cases'[j].status = cases[j].status
    BY <1>1, <1>3, <1>4, <1>7, <2>2
  <2> QED
    BY <1>5, <2>1, <2>3 DEF ValidationReachesAlerts, AlertsOf
<1> QED
  BY <1>6, <1>7

\* A review of one claim marks the cases with an alert for it.
LEMMA ReviewStep ==
    ASSUME ClaimsTyped, CasesTyped, ReviewsTyped, ValidationReachesAlerts,
           NEW key, NEW verdict \in Verdicts, SetReview(key, verdict)
    PROVE  ValidationReachesAlerts'
<1>1. /\ cases' = cases /\ alerts' = alerts
      /\ aux_mixed' = aux_mixed \cup {i \in RowsOf(cases) : \E a \in alerts : a.case = i /\ KeyOf(a) = key}
      /\ Reviewed({key}, verdict)
  BY DEF SetReview
<1>2. \A k \in Types \X Tenants \X Ids : reviews'[k] = IF k \in {key} THEN verdict ELSE reviews[k]
  BY <1>1, ReviewedTyped
<1>3. SUFFICES ASSUME NEW j \in RowsOf(cases), j \notin aux_mixed', cases[j].status # "PENDING",
                      NEW a \in alerts, a.case = j, a.tenant = cases[j].tenant
               PROVE  reviews'[KeyOf(a)] = VerdictFor(cases[j].status)
  <2>1. \A j \in RowsOf(cases) \ aux_mixed' : cases[j].status # "PENDING" =>
            \A a \in {a \in alerts : a.case = j /\ a.tenant = cases[j].tenant} :
                reviews'[KeyOf(a)] = VerdictFor(cases[j].status)
    BY <1>3
  <2>2. ValidationReachesAlerts' <=>
            \A j \in RowsOf(cases') \ aux_mixed' : cases'[j].status # "PENDING" =>
                \A a \in {a \in alerts' : a.case = j /\ a.tenant = cases'[j].tenant} :
                    reviews'[KeyOf(a)] = VerdictFor(cases'[j].status)
    BY DEF ValidationReachesAlerts, AlertsOf, KeyOf, VerdictFor, RowsOf
  <2> QED
    BY <1>1, <2>1, <2>2
<1>4. KeyOf(a) # key /\ j \notin aux_mixed
  BY <1>1, <1>3
<1>5. KeyOf(a) \in Types \X Tenants \X Ids
  BY KeyIsKey
<1>6. reviews'[KeyOf(a)] = reviews[KeyOf(a)]
  BY <1>2, <1>4, <1>5
<1> QED
  BY <1>3, <1>4, <1>6 DEF ValidationReachesAlerts, AlertsOf

\* compute_cases starts its cases unvalidated and leaves the others with their alerts.
LEMMA RebuildKeepsVerdicts ==
    ASSUME ClaimsTyped, CasesTyped, AlertsHaveTheirCase, ValidationReachesAlerts,
           NEW scope, ComputeCases(scope)
    PROVE  ValidationReachesAlerts'
<1>1. /\ \A c \in Made(scope) : cases'[IdOf(scope, c)] = NewCase(c)
      /\ \A i \in RowsOf(Rest(scope)) : i \in RowsOf(cases) /\ cases'[i] = cases[i]
      /\ \A i \in RowsOf(cases') : i \in RowsOf(Rest(scope)) \/ \E c \in Made(scope) : i = IdOf(scope, c)
  BY CasesMade
<1>2. \A c \in Made(scope) : NewCase(c).status = "PENDING"
  <2>1. \A c \in Made(scope) : c \in Clusters(Signals(scope)) /\ Signals(scope) \in SUBSET Present
    BY SignalsPresent DEF Made
  <2> QED
    BY <2>1, NewCaseRow
<1>3. \A i \in RowsOf(Rest(scope)) : {a \in alerts' : a.case = i /\ a.tenant = cases'[i].tenant}
                                        = {a \in alerts : a.case = i /\ a.tenant = cases[i].tenant}
  <2>1. \A i \in RowsOf(Rest(scope)) : AlertsOf(i, cases[i].tenant)' = AlertsOf(i, cases[i].tenant)
    BY AlertsStep
  <2> QED
    BY <2>1 DEF AlertsOf
<1>4. reviews' = reviews /\ aux_mixed' = {i \in aux_mixed : Rest(scope)[i] # None}
  BY DEF ComputeCases, Rest
<1>5. \A i \in RowsOf(Rest(scope)) \ aux_mixed' : i \notin aux_mixed
  BY <1>4 DEF RowsOf
<1>6. SUFFICES ASSUME NEW j \in RowsOf(cases') \ aux_mixed', cases'[j].status # "PENDING",
                      NEW a \in {a \in alerts' : a.case = j /\ a.tenant = cases'[j].tenant}
               PROVE  reviews'[KeyOf(a)] = VerdictFor(cases'[j].status)
  <2>1. ValidationReachesAlerts' <=>
            \A j \in RowsOf(cases') \ aux_mixed' : cases'[j].status # "PENDING" =>
                \A a \in {a \in alerts' : a.case = j /\ a.tenant = cases'[j].tenant} :
                    reviews'[KeyOf(a)] = VerdictFor(cases'[j].status)
    BY DEF ValidationReachesAlerts, AlertsOf, KeyOf, VerdictFor, RowsOf
  <2> QED
    BY <1>6, <2>1
<1>7. j \in RowsOf(Rest(scope))
  BY <1>1, <1>2, <1>6
<1>8. j \in RowsOf(cases) \ aux_mixed /\ cases'[j] = cases[j]
  BY <1>1, <1>5, <1>6, <1>7
<1>9. a \in AlertsOf(j, cases[j].tenant)
  BY <1>3, <1>6, <1>7 DEF AlertsOf
<1> QED
  BY <1>4, <1>6, <1>8, <1>9 DEF ValidationReachesAlerts

-----------------------------------------------------------------------------
(* Claims of a tenant that a rebuild does not cover *)

SameRows(t, type) ==
    \A i \in Ids :
        /\ claims[type][i] # None /\ TenantOf[claims[type][i].subject] = t
              => claims'[type][i] = claims[type][i]
        /\ claims'[type][i] # None /\ TenantOf[claims'[type][i].subject] = t
              => claims'[type][i] = claims[type][i]

\* Deleting and adding rows of other tenants.
LEMMA OthersRows ==
    ASSUME ClaimsTyped, NEW type \in Types, NEW gone, NEW S \in SUBSET Subjects,
           NEW material \in BOOLEAN, NEW t,
           \A i \in RowsOf(claims[type]) : i \in gone => ClaimTenant(type, i) # t,
           \A s \in S : TenantOf[s] # t,
           claims' = [claims EXCEPT ![type] = Added(Kept(claims[type], gone), S, material)]
    PROVE  SameRows(t, type)
<1> DEFINE table == Kept(claims[type], gone)
           new == Added(table, S, material)
<1>1. claims'[type] = new
  BY DEF ClaimsTyped
<1>2. table \in Table
  BY DEF ClaimsTyped, Table, Kept
<1>3. RowsOf(table) = RowsOf(claims[type]) \ gone /\ \A i \in RowsOf(table) : table[i] = claims[type][i]
  BY KeptRows
<1> HIDE DEF table
<1>4. /\ \A i \in RowsOf(table) : new[i] = table[i]
      /\ \A i \in RowsOf(new) \ RowsOf(table) : \E s \in S : new[i] = Row(s, material)
  <2>1. /\ \A i \in RowsOf(table) : Added(table, S, material)[i] = table[i]
        /\ \A i \in RowsOf(Added(table, S, material)) \ RowsOf(table) :
              \E s \in S : Place(table, S, s) = i /\ Added(table, S, material)[i] = Row(s, material)
    BY <1>2, AddedRows
  <2> QED
    BY <2>1
<1> HIDE DEF new
<1> SUFFICES ASSUME NEW i \in Ids
             PROVE  /\ claims[type][i] # None /\ TenantOf[claims[type][i].subject] = t
                           => new[i] = claims[type][i]
                    /\ new[i] # None /\ TenantOf[new[i].subject] = t => new[i] = claims[type][i]
  BY <1>1 DEF SameRows
<1>5. CASE i \in RowsOf(table)
  BY <1>3, <1>4, <1>5
<1>6. CASE i \notin RowsOf(table)
  <2>1. ASSUME claims[type][i] # None PROVE TenantOf[claims[type][i].subject] # t
    <3>1. i \in RowsOf(claims[type]) /\ i \in gone
      BY <1>3, <1>6, <2>1 DEF RowsOf
    <3> QED
      BY <3>1 DEF ClaimTenant
  <2>2. ASSUME new[i] # None PROVE TenantOf[new[i].subject] # t
    <3>1. i \in RowsOf(new) \ RowsOf(table)
      BY <1>6, <2>2 DEF RowsOf
    <3>2. PICK s \in S : new[i] = Row(s, material)
      BY <1>4, <3>1
    <3> QED
      BY <3>2, RowIsRow
  <2> QED
    BY <2>1, <2>2
<1> QED
  BY <1>5, <1>6

\* A detector or the scoring changes no claim of a tenant out of its scope.
LEMMA OthersClaims ==
    ASSUME ClaimsTyped, NEW scope \in Scopes, NEW t \in Tenants, ~Covers(scope, t),
           DetectBreaks(scope) \/ ComputeSnapshots(scope) \/ ScoreSnapshots(scope)
    PROVE  /\ ClaimsOf(t)' = ClaimsOf(t)
           /\ \A k \in ClaimsOf(t) : claims'[k[1]][k[2]] = claims[k[1]][k[2]]
<1>1. \A type \in Types : claims'[type] = claims[type] => SameRows(t, type)
  BY DEF SameRows
<1>2. \A type \in Types : SameRows(t, type)
  <2>1. CASE DetectBreaks(scope)
    <3> DEFINE type == "reconciliation_break"
               gone == RowsInScope(type, scope)
               found == {s \in shown \cap Breaks : Covers(scope, TenantOf[s])}
    <3>1. claims' = [claims EXCEPT ![type] = Added(Kept(claims[type], gone), found, TRUE)]
      BY <2>1 DEF DetectBreaks
    <3>2. \A i \in RowsOf(claims[type]) : i \in gone => ClaimTenant(type, i) # t
      BY DEF RowsInScope
    <3>3. found \in SUBSET Subjects /\ \A s \in found : TenantOf[s] # t
      BY DEF Subjects
    <3>4. claims'["fraud_anomaly"] = claims["fraud_anomaly"]
      BY <3>1 DEF ClaimsTyped, Types
    <3> HIDE DEF gone, found
    <3>5. type \in Types
      BY DEF Types
    <3>6. SameRows(t, "reconciliation_break")
      BY <3>1, <3>2, <3>3, <3>5, OthersRows
    <3> QED
      BY <1>1, <3>4, <3>6 DEF Types
  <2>2. CASE ComputeSnapshots(scope)
    <3> DEFINE type == "fraud_anomaly"
               found == {s \in shown \cap Snapshots : Covers(scope, TenantOf[s])}
               gone == Replaced(found)
    <3>1. claims' = [claims EXCEPT ![type] = Added(Kept(claims[type], gone), found, FALSE)]
      BY <2>2 DEF ComputeSnapshots
    <3>2. found \in SUBSET Subjects /\ \A s \in found : TenantOf[s] # t
      BY DEF Subjects
    <3>0. \A i \in RowsOf(claims[type]) : claims[type][i].subject \in Subjects
      <4>1. claims[type] \in Table
        BY DEF ClaimsTyped, Types
      <4> QED
        BY <4>1, ClaimRows
    <3>3. \A i \in RowsOf(claims[type]) : i \in gone => ClaimTenant(type, i) # t
      BY <3>0, <3>2, SubjectAssumption DEF Replaced, ClaimTenant
    <3>4. claims'["reconciliation_break"] = claims["reconciliation_break"]
      BY <3>1 DEF ClaimsTyped, Types
    <3> HIDE DEF gone, found
    <3>5. type \in Types
      BY DEF Types
    <3>6. SameRows(t, "fraud_anomaly")
      BY <3>1, <3>2, <3>3, <3>5, OthersRows
    <3> QED
      BY <1>1, <3>4, <3>6 DEF Types
  <2>3. CASE ScoreSnapshots(scope)
    <3> DEFINE type == "fraud_anomaly"
               table == claims[type]
               scored == RowsInScope(type, scope)
    <3>1. PICK hot \in SUBSET scored : claims' = [claims EXCEPT ![type] =
              [i \in Ids |-> IF i \in scored THEN Row(table[i].subject, i \in hot) ELSE table[i]]]
      BY <2>3 DEF ScoreSnapshots
    <3>2. claims'["reconciliation_break"] = claims["reconciliation_break"]
      BY <3>1 DEF ClaimsTyped, Types
    <3>3. claims'[type] = [i \in Ids |-> IF i \in scored THEN Row(table[i].subject, i \in hot) ELSE table[i]]
      BY <3>1 DEF ClaimsTyped, Types
    <3>4. \A i \in scored : TenantOf[table[i].subject] # t
      BY DEF RowsInScope, ClaimTenant
    <3> HIDE DEF scored
    <3>5. SameRows(t, "fraud_anomaly")
      BY <3>3, <3>4 DEF Row, SameRows
    <3> QED
      BY <1>1, <3>2, <3>5 DEF Types
  <2> QED
    BY <2>1, <2>2, <2>3
<1>3. ClaimsOf(t)' = {k \in Types \X Ids : /\ claims'[k[1]][k[2]] # None /\ claims'[k[1]][k[2]].material
                                           /\ TenantOf[claims'[k[1]][k[2]].subject] = t}
  BY DEF ClaimsOf, IsClaim, ClaimTenant
<1>4. ClaimsOf(t) = {k \in Types \X Ids : /\ claims[k[1]][k[2]] # None /\ claims[k[1]][k[2]].material
                                          /\ TenantOf[claims[k[1]][k[2]].subject] = t}
  BY DEF ClaimsOf, IsClaim, ClaimTenant
<1>5. \A k \in Types \X Ids : k[1] \in Types /\ k[2] \in Ids
  OBVIOUS
<1>6. \A k \in Types \X Ids :
          /\ claims[k[1]][k[2]] # None /\ TenantOf[claims[k[1]][k[2]].subject] = t
                => claims'[k[1]][k[2]] = claims[k[1]][k[2]]
          /\ claims'[k[1]][k[2]] # None /\ TenantOf[claims'[k[1]][k[2]].subject] = t
                => claims'[k[1]][k[2]] = claims[k[1]][k[2]]
  <2> SUFFICES ASSUME NEW k \in Types \X Ids
               PROVE
          /\ claims[k[1]][k[2]] # None /\ TenantOf[claims[k[1]][k[2]].subject] = t
                => claims'[k[1]][k[2]] = claims[k[1]][k[2]]
          /\ claims'[k[1]][k[2]] # None /\ TenantOf[claims'[k[1]][k[2]].subject] = t
                => claims'[k[1]][k[2]] = claims[k[1]][k[2]]
    OBVIOUS
  <2>1. \A type \in Types, i \in Ids :
            /\ claims[type][i] # None /\ TenantOf[claims[type][i].subject] = t
                  => claims'[type][i] = claims[type][i]
            /\ claims'[type][i] # None /\ TenantOf[claims'[type][i].subject] = t
                  => claims'[type][i] = claims[type][i]
    BY <1>2 DEF SameRows
  <2> QED
    BY <1>5, <2>1
<1>7. ClaimsOf(t)' = ClaimsOf(t)
  BY <1>3, <1>4, <1>6
<1>8. \A k \in ClaimsOf(t) : claims'[k[1]][k[2]] = claims[k[1]][k[2]]
  BY <1>4, <1>6
<1> QED
  BY <1>7, <1>8

-----------------------------------------------------------------------------
(* Fresh cases *)

FreshIn(t) ==
    LET own == {a \in alerts : a.tenant = t} IN
    /\ {<<a.type, a.source>> : a \in own} = ClaimsOf(t)
    /\ Cardinality(own) = Cardinality(ClaimsOf(t))
    /\ \A a \in own : cases[a.case].group = GroupOf[SubjectOf(<<a.type, a.source>>)]

CloseTo(k, l) == Time(k) <= Time(l) /\ Time(l) - Time(k) <= Window
ChainedIn(t) ==
    \A a, b \in {x \in alerts : x.tenant = t} :
        /\ a.case = b.case /\ b.pos = a.pos + 1 => CloseTo(<<a.type, a.source>>, <<b.type, b.source>>)
        /\ a.case # b.case /\ cases[a.case].group = cases[b.case].group
               => ~CloseTo(<<a.type, a.source>>, <<b.type, b.source>>)

\* Both properties say something of each fresh tenant alone, since a case has one tenant.
LEMMA TenantWise ==
    ASSUME AlertsHaveTheirCase
    PROVE  /\ FreshCasesSplitClaims <=> \A t \in aux_fresh : FreshIn(t)
           /\ ChainsOfWindow <=> \A t \in aux_fresh : ChainedIn(t)
<1>1. FreshCasesSplitClaims <=> \A t \in aux_fresh : FreshIn(t)
  BY DEF FreshCasesSplitClaims, FreshIn
<1>2. \A a, b \in alerts : a.case = b.case => a.tenant = b.tenant
  BY DEF AlertsHaveTheirCase
<1>3. ChainsOfWindow <=> \A a, b \in {x \in alerts : x.tenant \in aux_fresh} :
          /\ (a.case = b.case /\ b.pos = a.pos + 1) => CloseTo(<<a.type, a.source>>, <<b.type, b.source>>)
          /\ (a.case # b.case /\ a.tenant = b.tenant /\ cases[a.case].group = cases[b.case].group)
                 => ~CloseTo(<<a.type, a.source>>, <<b.type, b.source>>)
  BY DEF ChainsOfWindow, CloseTo
<1>4. ChainsOfWindow <=> \A t \in aux_fresh : ChainedIn(t)
  BY <1>2, <1>3 DEF ChainedIn
<1> QED
  BY <1>1, <1>4

\* What keeps the alerts, the groups of their cases and the claims of a tenant keeps both.
LEMMA FreshKept ==
    ASSUME NEW t,
           FreshIn(t), ChainedIn(t),
           {a \in alerts' : a.tenant = t} = {a \in alerts : a.tenant = t},
           \A a \in alerts : a.tenant = t => cases'[a.case].group = cases[a.case].group,
           ClaimsOf(t)' = ClaimsOf(t),
           \A k \in ClaimsOf(t) : claims'[k[1]][k[2]] = claims[k[1]][k[2]]
    PROVE  FreshIn(t)' /\ ChainedIn(t)'
<1> DEFINE own == {a \in alerts : a.tenant = t}
           K(a) == <<a.type, a.source>>
<1>1. \A a \in own : K(a) \in ClaimsOf(t)
  BY DEF FreshIn
<1>2. \A a \in own : claims'[a.type][a.source] = claims[a.type][a.source]
  <2> SUFFICES ASSUME NEW a \in own PROVE claims'[a.type][a.source] = claims[a.type][a.source]
    OBVIOUS
  <2>1. K(a)[1] = a.type /\ K(a)[2] = a.source /\ K(a) \in ClaimsOf(t)
    BY <1>1
  <2> QED
    BY <2>1
<1>3. FreshIn(t)' <=>
          LET mine == {a \in alerts' : a.tenant = t} IN
          /\ {<<a.type, a.source>> : a \in mine} = ClaimsOf(t)'
          /\ Cardinality(mine) = Cardinality(ClaimsOf(t)')
          /\ \A a \in mine : cases'[a.case].group = GroupOf[claims'[a.type][a.source].subject]
  BY DEF FreshIn, SubjectOf
<1>4. FreshIn(t) <=>
          /\ {<<a.type, a.source>> : a \in own} = ClaimsOf(t)
          /\ Cardinality(own) = Cardinality(ClaimsOf(t))
          /\ \A a \in own : cases[a.case].group = GroupOf[claims[a.type][a.source].subject]
  BY DEF FreshIn, SubjectOf
<1>5. FreshIn(t)'
  BY <1>2, <1>3, <1>4
<1> DEFINE T(a)     == EndOf[claims[a.type][a.source].subject]
           Close(a, b) == T(a) <= T(b) /\ T(b) - T(a) <= Window
           TN(a)    == EndOf[claims'[a.type][a.source].subject]
           CloseN(a, b) == TN(a) <= TN(b) /\ TN(b) - TN(a) <= Window
<1>6. ChainedIn(t)' <=>
          \A a, b \in {x \in alerts' : x.tenant = t} :
              /\ a.case = b.case /\ b.pos = a.pos + 1 => CloseN(a, b)
              /\ a.case # b.case /\ cases'[a.case].group = cases'[b.case].group => ~CloseN(a, b)
  BY DEF ChainedIn, CloseTo, Time, SubjectOf
<1>7. ChainedIn(t) <=>
          \A a, b \in own :
              /\ a.case = b.case /\ b.pos = a.pos + 1 => Close(a, b)
              /\ a.case # b.case /\ cases[a.case].group = cases[b.case].group => ~Close(a, b)
  BY DEF ChainedIn, CloseTo, Time, SubjectOf
<1>8. \A a, b \in own : CloseN(a, b) <=> Close(a, b)
  BY <1>2
<1>9. \A a \in own : cases'[a.case].group = cases[a.case].group
  OBVIOUS
<1> HIDE DEF Close, CloseN
<1>10. ChainedIn(t)'
  BY <1>6, <1>7, <1>8, <1>9
<1> QED
  BY <1>5, <1>10

\* Two claims that follow each other in a cluster are close.
LEMMA ClusterChain ==
    ASSUME ClaimsTyped, NEW signals \in SUBSET Present, NEW c \in Clusters(signals),
           NEW a \in c, NEW b \in c, Position(b, c) = Position(a, c) + 1
    PROVE  CloseTo(a, b)
<1> DEFINE G == GroupIn(a, signals)
<1>1. /\ c \in SUBSET Present /\ c \subseteq signals /\ IsFiniteSet(c) /\ StrictOrder(c, BeforeIn(c))
      /\ ClusterOf(a, signals) = c
      /\ \A k \in c : ClusterOf(k, signals) = c
      /\ Group(a) = Group(b)
  BY ClusterFacts
<1>2. /\ \A x \in signals : ~Before(x, x)
      /\ \A x, y, z \in signals : Before(x, y) /\ Before(y, z) => Before(x, z)
      /\ \A x, y \in signals : x = y \/ Before(x, y) \/ Before(y, x)
  BY BeforeOrder
<1>3. \A k \in c : Position(k, c) = Rank(k, c, BeforeIn(c)) /\ Rank(k, c, BeforeIn(c)) \in Int
  <2> SUFFICES ASSUME NEW k \in c
               PROVE  Position(k, c) = Rank(k, c, BeforeIn(c)) /\ Rank(k, c, BeforeIn(c)) \in Int
    OBVIOUS
  <2>1. {x \in c : Before(x, k)} = Smaller(k, c, BeforeIn(c))
    BY DEF Smaller, BeforeIn
  <2>2. Rank(k, c, BeforeIn(c)) \in 1..Cardinality(c) /\ Cardinality(c) \in Nat
    BY <1>1, SmallerFewer, FS_CardinalityType
  <2> QED
    BY <2>1, <2>2 DEF Position, Rank
<1>4. \A k, l \in c : Before(k, l) => Rank(k, c, BeforeIn(c)) < Rank(l, c, BeforeIn(c))
  <2>1. \A k, l \in c : Before(k, l) => <<k, l>> \in BeforeIn(c)
    BY DEF BeforeIn
  <2> QED
    BY <1>1, <2>1, RankGrows
<1>5. \A x \in c : ~(Before(a, x) /\ Before(x, b))
  BY <1>3, <1>4
<1>6. Before(a, b)
  <2>1. a # b /\ ~Before(b, a)
    BY <1>3, <1>4
  <2> QED
    BY <1>1, <1>2, <2>1
<1>7. a \in G /\ b \in G /\ G \subseteq signals /\ Linked(b, a, G)
  <2>1. b \in {x \in G : Linked(x, a, G)}
    BY <1>1, ClusterIs
  <2> QED
    BY <1>1, <2>1 DEF GroupIn
<1>8. ~Opening(b, G)
  <2>1. b \in BetweenIn(a, b, G)
    BY <1>6, <1>7 DEF BetweenIn
  <2> QED
    BY <1>7, <2>1 DEF Linked
<1>9. PICK y \in G : Before(y, b) /\ ~Apart(Time(b) - Time(y))
  BY <1>8 DEF Opening
<1>10. ~Before(a, y)
  <2>1. ASSUME Before(a, y) PROVE FALSE
    <3>1. y \in c
      <4>1. BetweenIn(a, y, G) \subseteq BetweenIn(a, b, G)
        BY <1>2, <1>7, <1>9 DEF BetweenIn
      <4>2. BetweenIn(y, a, G) = {}
        BY <1>2, <1>7, <1>9, <2>1 DEF BetweenIn
      <4>3. Linked(y, a, G)
        BY <1>7, <4>1, <4>2 DEF Linked
      <4> QED
        BY <1>1, <1>9, <4>3, ClusterIs
    <3> QED
      BY <1>5, <1>9, <2>1, <3>1
  <2> QED
    BY <2>1
<1>11. Time(a) \in Nat /\ Time(b) \in Nat /\ Time(y) \in Nat
  BY <1>1, <1>7, PresentRows
<1>12. Time(y) <= Time(a)
  <2>1. y = a \/ Before(y, a)
    BY <1>2, <1>7, <1>10
  <2> QED
    BY <1>11, <2>1 DEF Before
<1>13. Time(a) <= Time(b)
  BY <1>6, <1>11 DEF Before
<1> QED
  BY <1>9, <1>11, <1>12, <1>13, BoundAssumption DEF CloseTo, Apart

\* Claims of one group in two clusters are not.
LEMMA ClustersApart ==
    ASSUME ClaimsTyped, NEW signals \in SUBSET Present,
           NEW c \in Clusters(signals), NEW d \in Clusters(signals), c # d,
           NEW a \in c, NEW b \in d, Group(a) = Group(b)
    PROVE  ~CloseTo(a, b)
<1> DEFINE G == GroupIn(b, signals)
<1>1. /\ c \subseteq signals /\ d \subseteq signals /\ ClusterOf(b, signals) = d
      /\ ~(c \cap d # {})
  BY ClusterFacts
<1>2. a \in G /\ b \in G /\ a \notin d /\ G \subseteq signals
  BY <1>1 DEF GroupIn
<1>3. PICK y \in BetweenIn(a, b, G) \cup BetweenIn(b, a, G) : Opening(y, G)
  <2>1. ~Linked(a, b, G)
    BY <1>1, <1>2, ClusterIs
  <2> QED
    BY <2>1 DEF Linked
<1>4. y \in G
  BY <1>3 DEF BetweenIn
<1>5. Time(a) \in Nat /\ Time(b) \in Nat /\ Time(y) \in Nat
  BY <1>2, <1>4, PresentRows
<1>6. CASE y \in BetweenIn(a, b, G)
  <2>1. Before(a, y) /\ Apart(Time(y) - Time(a))
    BY <1>2, <1>3, <1>6 DEF BetweenIn, Opening
  <2>2. Time(y) <= Time(b)
    BY <1>5, <1>6 DEF BetweenIn, Before
  <2> QED
    BY <1>5, <2>1, <2>2, BoundAssumption DEF CloseTo, Apart
<1>7. CASE y \in BetweenIn(b, a, G)
  <2>1. Before(b, y) /\ Apart(Time(y) - Time(b))
    BY <1>2, <1>3, <1>7 DEF BetweenIn, Opening
  <2>2. Time(y) <= Time(a) /\ Time(b) <= Time(y)
    BY <1>5, <1>7, <2>1 DEF BetweenIn, Before
  <2> QED
    BY <1>5, <2>1, <2>2, BoundAssumption DEF CloseTo, Apart
<1> QED
  BY <1>3, <1>6, <1>7

\* An alert of a tenant in the scope is for a claim of one of the new clusters.
LEMMA NewAlerts ==
    ASSUME ClaimsTyped, CasesTyped, AlertsHaveTheirCase, NEW scope, ComputeCases(scope),
           NEW t \in Tenants, Covers(scope, t), NEW a \in alerts', a.tenant = t
    PROVE  \E c \in Made(scope) : \E k \in c :
               /\ a = NewAlert(k, c, IdOf(scope, c)) /\ k = <<a.type, a.source>>
               /\ a.case = IdOf(scope, c) /\ a.pos = Position(k, c)
               /\ Group(k) = <<t, cases'[a.case].group>>
<1>1. PICK c \in Made(scope) : a \in AlertsFor(c, IdOf(scope, c))
  BY MadeAlerts
<1>2. PICK k \in c : a = NewAlert(k, c, IdOf(scope, c))
  BY <1>1 DEF AlertsFor
<1>3. c \in Clusters(Signals(scope)) /\ Signals(scope) \in SUBSET Present /\ IdOf(scope, c) \in Ids
  BY CasesMade, SignalsPresent DEF Made
<1>4. cases'[IdOf(scope, c)] = NewCase(c)
  BY CasesMade
<1>5. a.tenant = NewCase(c).tenant /\ a.case = IdOf(scope, c)
  BY <1>1, <1>3, AlertsMade
<1>6. k = <<k[1], k[2]>> /\ a.type = k[1] /\ a.source = k[2] /\ a.pos = Position(k, c)
  BY <1>2, <1>3, AlertsMade
<1>7. Group(k) = <<NewCase(c).tenant, NewCase(c).group>>
  BY <1>3, NewCaseRow
<1> QED
  BY <1>2, <1>4, <1>5, <1>6, <1>7

\* compute_cases makes its tenants fresh.
LEMMA FreshMade ==
    ASSUME ClaimsTyped, CasesTyped, AlertsHaveTheirCase, NEW scope, ComputeCases(scope),
           NEW t \in Tenants, Covers(scope, t)
    PROVE  FreshIn(t)' /\ ChainedIn(t)'
<1> DEFINE own == {a \in alerts' : a.tenant = t}
           K(a) == <<a.type, a.source>>
           C == Made(scope)
<1>1. Signals(scope) \in SUBSET Present /\ C = Clusters(Signals(scope)) /\ claims' = claims
  BY SignalsPresent DEF Made, ComputeCases
<1>2. \A a \in own : \E c \in C : \E k \in c :
          /\ a = NewAlert(k, c, IdOf(scope, c)) /\ k = K(a)
          /\ a.case = IdOf(scope, c) /\ a.pos = Position(k, c)
          /\ Group(k) = <<t, cases'[a.case].group>>
  BY NewAlerts
<1>3. ClaimsOf(t) = {k \in Signals(scope) : Group(k)[1] = t}
  BY DEF ClaimsOf, Signals, Group, SubjectOf, ClaimTenant
<1>4. \A c \in C : c \subseteq Signals(scope)
  BY <1>1, ClusterFacts
<1>5. \A a \in own : K(a) \in ClaimsOf(t)
  BY <1>2, <1>3, <1>4
<1>6. \A k \in ClaimsOf(t) : \E a \in own : K(a) = k
  <2> SUFFICES ASSUME NEW k \in ClaimsOf(t) PROVE \E a \in own : K(a) = k
    OBVIOUS
  <2> DEFINE c == ClusterOf(k, Signals(scope))
             a == NewAlert(k, c, IdOf(scope, c))
  <2>1. k \in Signals(scope) /\ Group(k)[1] = t
    BY <1>3
  <2>2. c \in C /\ k \in c
    BY <1>1, <2>1, ClustersCover
  <2> HIDE DEF c
  <2>3. IdOf(scope, c) \in Ids
    BY <2>2, CasesMade
  <2>4. a \in alerts'
    BY <2>2, MadeAlerts DEF AlertsFor
  <2>5. a.type = k[1] /\ a.source = k[2] /\ k = <<k[1], k[2]>>
    BY <1>1, <2>2, <2>3, AlertsMade
  <2>6. a.tenant = t
    BY <2>1 DEF NewAlert
  <2> QED
    BY <2>4, <2>5, <2>6
<1>7. \A a, b \in own : K(a) = K(b) => a = b
  <2> SUFFICES ASSUME NEW a \in own, NEW b \in own, K(a) = K(b) PROVE a = b
    OBVIOUS
  <2>1. PICK c \in C : K(a) \in c /\ a = NewAlert(K(a), c, IdOf(scope, c))
    BY <1>2
  <2>2. PICK d \in C : K(b) \in d /\ b = NewAlert(K(b), d, IdOf(scope, d))
    BY <1>2
  <2>3. c \cap d # {}
    BY <2>1, <2>2
  <2>4. c = d
    BY <1>1, <2>3, ClusterFacts
  <2> QED
    BY <2>1, <2>2, <2>4
<1>8. {K(a) : a \in own} = ClaimsOf(t)
  BY <1>5, <1>6
<1>9. Cardinality(own) = Cardinality(ClaimsOf(t))
  <2> DEFINE f == [a \in own |-> K(a)]
  <2>1. f \in [own -> ClaimsOf(t)]
    BY <1>5
  <2>2. f \in Injection(own, ClaimsOf(t))
    BY <1>7, <2>1 DEF Injection, IsInjective
  <2>3. f \in Surjection(own, ClaimsOf(t))
    BY <1>6, <2>1 DEF Surjection
  <2>4. ClaimsOf(t) \in SUBSET Present
    BY <1>1, <1>3
  <2>5. IsFiniteSet(ClaimsOf(t))
    BY <2>4, BeforeOrder
  <2> QED
    BY <2>2, <2>3, <2>5, FS_Injection
<1>10. \A a \in own : cases'[a.case].group = GroupOf[SubjectOf(K(a))]
  BY <1>2 DEF Group
<1>11. FreshIn(t)'
  <2>1. ClaimsOf(t)' = ClaimsOf(t)
    BY <1>1 DEF ClaimsOf, IsClaim, ClaimTenant
  <2>2. FreshIn(t)' <=>
            /\ {<<a.type, a.source>> : a \in own} = ClaimsOf(t)'
            /\ Cardinality(own) = Cardinality(ClaimsOf(t)')
            /\ \A a \in own : cases'[a.case].group = GroupOf[claims'[a.type][a.source].subject]
    BY DEF FreshIn, SubjectOf
  <2>3. \A a \in own : cases'[a.case].group = GroupOf[claims[a.type][a.source].subject]
    BY <1>10 DEF SubjectOf
  <2> QED
    BY <1>1, <1>8, <1>9, <2>1, <2>2, <2>3
<1>12. ASSUME NEW a \in own, NEW b \in own
       PROVE  /\ a.case = b.case /\ b.pos = a.pos + 1 => CloseTo(K(a), K(b))
              /\ a.case # b.case /\ cases'[a.case].group = cases'[b.case].group => ~CloseTo(K(a), K(b))
  <2>1. PICK c \in C : /\ K(a) \in c /\ a.case = IdOf(scope, c) /\ a.pos = Position(K(a), c)
                       /\ Group(K(a)) = <<t, cases'[a.case].group>>
    BY <1>2
  <2>2. PICK d \in C : /\ K(b) \in d /\ b.case = IdOf(scope, d) /\ b.pos = Position(K(b), d)
                       /\ Group(K(b)) = <<t, cases'[b.case].group>>
    BY <1>2
  <2> HIDE DEF K, own
  <2>3. ASSUME a.case = b.case, b.pos = a.pos + 1 PROVE CloseTo(K(a), K(b))
    <3>1. c = d
      BY <2>1, <2>2, <2>3, CasesMade
    <3> QED
      BY <1>1, <2>1, <2>2, <2>3, <3>1, ClusterChain
  <2>4. ASSUME a.case # b.case, cases'[a.case].group = cases'[b.case].group PROVE ~CloseTo(K(a), K(b))
    <3>1. c # d /\ Group(K(a)) = Group(K(b))
      BY <2>1, <2>2, <2>4
    <3> QED
      BY <1>1, <2>1, <2>2, <3>1, ClustersApart
  <2> QED
    BY <2>3, <2>4
<1>13. ChainedIn(t)'
  <2>1. ChainedIn(t)' <=>
            \A a, b \in own :
                /\ a.case = b.case /\ b.pos = a.pos + 1 => CloseTo(K(a), K(b))'
                /\ a.case # b.case /\ cases'[a.case].group = cases'[b.case].group => ~CloseTo(K(a), K(b))'
    BY DEF ChainedIn
  <2>2. \A k, l : CloseTo(k, l)' <=> CloseTo(k, l)
    BY <1>1 DEF CloseTo, Time, SubjectOf
  <2> QED
    BY <1>12, <2>1, <2>2
<1> QED
  BY <1>11, <1>13

-----------------------------------------------------------------------------
(* The invariant *)

FreshOnes == \A t \in aux_fresh : FreshIn(t) /\ ChainedIn(t)
IInv == /\ TypeOK /\ OneRowPerSubject /\ AlertsHaveTheirCase
        /\ ValidationReachesAlerts /\ FreshOnes

\* The type invariant in the parts that the lemmas ask for.
LEMMA TypeParts ==
    TypeOK <=> /\ shown \in Pictures /\ ClaimsTyped /\ CasesTyped /\ ReviewsTyped
               /\ runs \in 0..MaxRuns /\ aux_fresh \subseteq Tenants /\ aux_mixed \subseteq RowsOf(cases)
  BY DEF TypeOK, ClaimsTyped, Table, CasesTyped, ReviewsTyped

\* Nothing is there at first.
LEMMA InitInv ==
    ASSUME Init
    PROVE  IInv
<1>1. \A type \in Types : RowsOf(claims[type]) = {}
  BY DEF Init, RowsOf
<1>2. RowsOf(cases) = {}
  BY DEF Init, RowsOf
<1>3. TypeOK
  BY <1>2, BoundAssumption DEF Init, TypeOK
<1>4. OneRowPerSubject
  BY <1>1 DEF OneRowPerSubject
<1>5. AlertsHaveTheirCase /\ ValidationReachesAlerts
  BY <1>2 DEF Init, AlertsHaveTheirCase, ValidationReachesAlerts
<1>6. FreshOnes
  BY DEF Init, FreshOnes
<1> QED
  BY <1>3, <1>4, <1>5, <1>6 DEF IInv

\* What leaves the tables of claims alone leaves what there is in them.
LEMMA SameClaims ==
    ASSUME claims' = claims
    PROVE  /\ \A t : ClaimsOf(t)' = ClaimsOf(t)
           /\ OneRowPerSubject' <=> OneRowPerSubject
           /\ ClaimsTyped' <=> ClaimsTyped
  BY DEF ClaimsOf, IsClaim, ClaimTenant, OneRowPerSubject, ClaimsTyped

\* What leaves the cases, their alerts and the reviews alone leaves what is said of them.
LEMMA SameCases ==
    ASSUME cases' = cases, alerts' = alerts, reviews' = reviews, aux_mixed' = aux_mixed,
           aux_about' = aux_about, verdicts' = verdicts
    PROVE  /\ AlertsHaveTheirCase' <=> AlertsHaveTheirCase
           /\ ValidationReachesAlerts' <=> ValidationReachesAlerts
           /\ CasesTyped' <=> CasesTyped
           /\ ReviewsTyped' <=> ReviewsTyped
           /\ RowsOf(cases)' = RowsOf(cases)
<1>1. AlertsHaveTheirCase' <=> AlertsHaveTheirCase
  BY DEF AlertsHaveTheirCase, AlertsOf, RowsOf
<1>2. ValidationReachesAlerts' <=> ValidationReachesAlerts
  BY DEF ValidationReachesAlerts, AlertsOf, RowsOf, KeyOf
<1>3. (CasesTyped' <=> CasesTyped) /\ (ReviewsTyped' <=> ReviewsTyped)
  BY DEF CasesTyped, ReviewsTyped
<1> QED
  BY <1>1, <1>2, <1>3 DEF RowsOf

\* What leaves claims, cases and alerts alone leaves the fresh cases.
LEMMA SameFresh ==
    ASSUME FreshOnes, claims' = claims, cases' = cases, alerts' = alerts, aux_fresh' = aux_fresh
    PROVE  FreshOnes'
<1>1. ASSUME NEW t \in aux_fresh' PROVE FreshIn(t)' /\ ChainedIn(t)'
  <2>1. FreshIn(t) /\ ChainedIn(t)
    BY DEF FreshOnes
  <2>2. ClaimsOf(t)' = ClaimsOf(t)
    BY SameClaims
  <2> QED
    BY <2>1, <2>2, FreshKept
<1> QED
  BY <1>1 DEF FreshOnes

\* A detector or the scoring.
LEMMA DetectionInv ==
    ASSUME IInv, NEW scope \in Scopes,
           DetectBreaks(scope) \/ ComputeSnapshots(scope) \/ ScoreSnapshots(scope)
    PROVE  IInv'
<1>0. /\ shown \in Pictures /\ ClaimsTyped /\ CasesTyped /\ ReviewsTyped
      /\ runs \in 0..MaxRuns /\ aux_fresh \subseteq Tenants /\ aux_mixed \subseteq RowsOf(cases)
      /\ OneRowPerSubject /\ AlertsHaveTheirCase /\ ValidationReachesAlerts /\ FreshOnes
  BY TypeParts DEF IInv
<1>1. Detection(scope)
  BY DEF DetectBreaks, ComputeSnapshots, ScoreSnapshots
<1>2. /\ runs < MaxRuns /\ runs' = runs + 1
      /\ aux_fresh' = {t \in aux_fresh : ~Covers(scope, t)}
      /\ shown' = shown /\ cases' = cases /\ alerts' = alerts /\ reviews' = reviews
      /\ verdicts' = verdicts /\ aux_about' = aux_about /\ aux_mixed' = aux_mixed
  BY <1>1 DEF Detection
<1>3. ClaimsTyped' /\ OneRowPerSubject'
  BY <1>0, ClaimsStep
<1>4. /\ AlertsHaveTheirCase' /\ ValidationReachesAlerts' /\ CasesTyped' /\ ReviewsTyped'
      /\ RowsOf(cases)' = RowsOf(cases)
  BY <1>0, <1>2, SameCases
<1>5. runs' \in 0..MaxRuns
  BY <1>0, <1>2, BoundAssumption
<1>6. TypeOK'
  <2>1. /\ shown' \in Pictures /\ ClaimsTyped' /\ CasesTyped' /\ ReviewsTyped'
        /\ runs' \in 0..MaxRuns /\ aux_fresh' \subseteq Tenants /\ aux_mixed' \subseteq RowsOf(cases)'
    BY <1>0, <1>2, <1>3, <1>4, <1>5
  <2> QED
    BY <2>1 DEF TypeOK, ClaimsTyped, Table, CasesTyped, ReviewsTyped
<1>7. ASSUME NEW t \in aux_fresh' PROVE FreshIn(t)' /\ ChainedIn(t)'
  <2>1. t \in Tenants /\ t \in aux_fresh /\ ~Covers(scope, t) /\ FreshIn(t) /\ ChainedIn(t)
    BY <1>0, <1>2 DEF FreshOnes
  <2>2. /\ ClaimsOf(t)' = ClaimsOf(t)
        /\ \A k \in ClaimsOf(t) : claims'[k[1]][k[2]] = claims[k[1]][k[2]]
    BY <1>0, <2>1, OthersClaims
  <2>3. /\ {a \in alerts' : a.tenant = t} = {a \in alerts : a.tenant = t}
        /\ \A a \in alerts : a.tenant = t => cases'[a.case].group = cases[a.case].group
    BY <1>2
  <2> QED
    BY <2>1, <2>2, <2>3, FreshKept
<1>8. FreshOnes'
  BY <1>7 DEF FreshOnes
<1> QED
  BY <1>3, <1>4, <1>6, <1>8 DEF IInv

\* compute_cases.
LEMMA CasesInv ==
    ASSUME IInv, NEW scope \in Scopes, ComputeCases(scope)
    PROVE  IInv'
<1>0. /\ shown \in Pictures /\ ClaimsTyped /\ CasesTyped /\ ReviewsTyped
      /\ runs \in 0..MaxRuns /\ aux_fresh \subseteq Tenants /\ aux_mixed \subseteq RowsOf(cases)
      /\ OneRowPerSubject /\ AlertsHaveTheirCase /\ ValidationReachesAlerts /\ FreshOnes
  BY TypeParts DEF IInv
<1>1. /\ runs < MaxRuns /\ runs' = runs + 1
      /\ aux_fresh' = aux_fresh \cup {t \in Tenants : Covers(scope, t)}
      /\ aux_mixed' = {i \in aux_mixed : Rest(scope)[i] # None}
      /\ shown' = shown /\ claims' = claims /\ reviews' = reviews /\ verdicts' = verdicts
      /\ aux_about' = aux_about
  BY DEF ComputeCases, Rest
<1>2. /\ \A i \in RowsOf(Rest(scope)) : i \in RowsOf(cases) /\ cases'[i] = cases[i]
      /\ CasesTyped'
  BY <1>0, CasesMade
<1>3. AlertsHaveTheirCase' /\ ValidationReachesAlerts'
  BY <1>0, AlertsStep, RebuildKeepsVerdicts
<1>4. ClaimsTyped' /\ OneRowPerSubject' /\ \A t : ClaimsOf(t)' = ClaimsOf(t)
  BY <1>0, <1>1, SameClaims
<1>5. ReviewsTyped'
  BY <1>0, <1>1 DEF ReviewsTyped
<1>6. aux_mixed' \subseteq RowsOf(cases)'
  <2>1. \A i \in aux_mixed' : i \in RowsOf(Rest(scope))
    BY <1>0, <1>1 DEF RowsOf
  <2>2. \A i \in RowsOf(Rest(scope)) : i \in Ids /\ cases'[i] # None
    BY <1>2 DEF RowsOf
  <2> QED
    BY <2>1, <2>2 DEF RowsOf
<1>7. TypeOK'
  <2>1. runs' \in 0..MaxRuns /\ aux_fresh' \subseteq Tenants /\ shown' \in Pictures
    BY <1>0, <1>1, BoundAssumption
  <2> QED
    BY <1>2, <1>4, <1>5, <1>6, <2>1 DEF TypeOK, ClaimsTyped, Table, CasesTyped, ReviewsTyped
<1>8. ASSUME NEW t \in aux_fresh' PROVE FreshIn(t)' /\ ChainedIn(t)'
  <2>0. t \in Tenants
    BY <1>0, <1>1
  <2>1. CASE Covers(scope, t)
    BY <1>0, <2>0, <2>1, FreshMade
  <2>2. CASE ~Covers(scope, t)
    <3>1. FreshIn(t) /\ ChainedIn(t)
      BY <1>0, <1>1, <2>2 DEF FreshOnes
    <3>2. {a \in alerts' : a.tenant = t} = {a \in alerts : a.tenant = t}
      BY <1>0, <2>2, MadeAlerts
    <3>3. \A a \in alerts : a.tenant = t => cases'[a.case].group = cases[a.case].group
      BY <1>0, <1>2, <2>2, MadeAlerts
    <3>4. \A k \in ClaimsOf(t) : claims'[k[1]][k[2]] = claims[k[1]][k[2]]
      BY <1>1
    <3> QED
      BY <1>4, <3>1, <3>2, <3>3, <3>4, FreshKept
  <2> QED
    BY <2>1, <2>2
<1>9. FreshOnes'
  BY <1>8 DEF FreshOnes
<1> QED
  BY <1>3, <1>4, <1>7, <1>9 DEF IInv

\* A verdict on one claim or on a case: the claims, the alerts and the groups of cases stay.
LEMMA VerdictInv ==
    ASSUME IInv, claims' = claims, alerts' = alerts, shown' = shown, runs' = runs, aux_fresh' = aux_fresh,
           CasesTyped', ReviewsTyped', ValidationReachesAlerts',
           RowsOf(cases)' = RowsOf(cases), aux_mixed' \subseteq RowsOf(cases),
           \A i \in RowsOf(cases) : cases'[i].tenant = cases[i].tenant /\ cases'[i].group = cases[i].group
    PROVE  IInv'
<1>0. /\ shown \in Pictures /\ ClaimsTyped /\ CasesTyped
      /\ runs \in 0..MaxRuns /\ aux_fresh \subseteq Tenants
      /\ OneRowPerSubject /\ AlertsHaveTheirCase /\ FreshOnes
  BY TypeParts DEF IInv
<1>1. ClaimsTyped' /\ OneRowPerSubject' /\ \A t : ClaimsOf(t)' = ClaimsOf(t)
  BY <1>0, SameClaims
<1>2. TypeOK'
  BY <1>0, <1>1 DEF TypeOK, ClaimsTyped, Table, CasesTyped, ReviewsTyped
<1>3. \A a \in alerts : a.case \in RowsOf(cases) /\ cases[a.case].tenant = a.tenant
  BY <1>0 DEF AlertsHaveTheirCase, CasesTyped, RowsOf, Alert
<1>4. AlertsHaveTheirCase'
  <2>1. \A a \in alerts : cases'[a.case] # None /\ cases'[a.case].tenant = a.tenant
    <3>1. \A i \in RowsOf(cases) : cases'[i] # None
      BY DEF RowsOf
    <3> QED
      BY <1>3, <3>1
  <2>2. \A i \in RowsOf(cases) :
            LET own == {a \in alerts : a.case = i /\ a.tenant = cases'[i].tenant} IN
            own # {} /\ {a.pos : a \in own} = 1..Cardinality(own)
    <3>1. \A i \in RowsOf(cases) : {a \in alerts : a.case = i /\ a.tenant = cases'[i].tenant}
                                      = AlertsOf(i, cases[i].tenant)
      BY DEF AlertsOf
    <3> QED
      BY <1>0, <3>1 DEF AlertsHaveTheirCase
  <2>3. AlertsHaveTheirCase' <=>
            /\ \A a \in alerts' : cases'[a.case] # None /\ cases'[a.case].tenant = a.tenant
            /\ \A i \in RowsOf(cases)' :
                   LET own == {a \in alerts' : a.case = i /\ a.tenant = cases'[i].tenant} IN
                   own # {} /\ {a.pos : a \in own} = 1..Cardinality(own)
    BY DEF AlertsHaveTheirCase, AlertsOf
  <2> QED
    BY <2>1, <2>2, <2>3
<1>5. ASSUME NEW t \in aux_fresh' PROVE FreshIn(t)' /\ ChainedIn(t)'
  <2>1. FreshIn(t) /\ ChainedIn(t)
    BY <1>0 DEF FreshOnes
  <2>2. \A a \in alerts : a.tenant = t => cases'[a.case].group = cases[a.case].group
    BY <1>3
  <2>3. /\ ClaimsOf(t)' = ClaimsOf(t)
        /\ \A k \in ClaimsOf(t) : claims'[k[1]][k[2]] = claims[k[1]][k[2]]
        /\ {a \in alerts' : a.tenant = t} = {a \in alerts : a.tenant = t}
    BY <1>1
  <2> QED
    BY <2>1, <2>2, <2>3, FreshKept
<1>6. FreshOnes'
  BY <1>5 DEF FreshOnes
<1> QED
  BY <1>1, <1>2, <1>4, <1>6 DEF IInv

\* set_review.
LEMMA SetReviewInv ==
    ASSUME IInv, NEW key, NEW verdict \in Verdicts, SetReview(key, verdict)
    PROVE  IInv'
<1>0. /\ ClaimsTyped /\ CasesTyped /\ ReviewsTyped /\ aux_mixed \subseteq RowsOf(cases)
      /\ AlertsHaveTheirCase /\ ValidationReachesAlerts
  BY TypeParts DEF IInv
<1>1. /\ claims' = claims /\ alerts' = alerts /\ shown' = shown /\ runs' = runs /\ aux_fresh' = aux_fresh
      /\ cases' = cases /\ Reviewed({key}, verdict)
      /\ aux_mixed' = aux_mixed \cup {i \in RowsOf(cases) : \E a \in alerts : a.case = i /\ KeyOf(a) = key}
  BY DEF SetReview
<1>2. ReviewsTyped' /\ ValidationReachesAlerts'
  BY <1>0, <1>1, ReviewedTyped, ReviewStep
<1>3. CasesTyped' /\ RowsOf(cases)' = RowsOf(cases) /\ aux_mixed' \subseteq RowsOf(cases)
  BY <1>0, <1>1 DEF CasesTyped, RowsOf
<1> QED
  BY <1>1, <1>2, <1>3, VerdictInv

\* validate_investigation_case, to the end or cut short.
LEMMA ValidateInv ==
    ASSUME IInv, NEW i \in Ids, cases[i] # None, NEW status \in Stati, NEW n, ValidateUpTo(i, status, n)
    PROVE  IInv'
<1>0. /\ ClaimsTyped /\ CasesTyped /\ ReviewsTyped /\ aux_mixed \subseteq RowsOf(cases)
      /\ AlertsHaveTheirCase /\ ValidationReachesAlerts
  BY TypeParts DEF IInv
<1> DEFINE t == cases[i].tenant
           keys == ReviewedAlerts(i, t, n)
           other == {j \in RowsOf(cases) \ {i} : \E a \in alerts : a.case = j /\ KeyOf(a) \in keys}
<1>1. /\ claims' = claims /\ alerts' = alerts /\ shown' = shown /\ runs' = runs /\ aux_fresh' = aux_fresh
      /\ Reviewed(keys, VerdictFor(status))
      /\ aux_mixed' = IF n = Cardinality(AlertsOf(i, t)) THEN (aux_mixed \cup other) \ {i}
                       ELSE aux_mixed \cup other \cup {i}
  BY DEF ValidateUpTo
<1>2. i \in RowsOf(cases)
  BY DEF RowsOf
<1>3. /\ cases' \in [Ids -> CaseRow \cup {None}] /\ RowsOf(cases)' = RowsOf(cases)
      /\ \A j \in RowsOf(cases) : cases'[j].tenant = cases[j].tenant /\ cases'[j].group = cases[j].group
  BY <1>0, <1>2, ValidatedCase
<1>4. ReviewsTyped'
  BY <1>0, <1>1, VerdictIs, ReviewedTyped
<1>5. ValidationReachesAlerts'
  BY <1>0, <1>2, ValidationStep
<1>6. aux_mixed' \subseteq RowsOf(cases)
  BY <1>0, <1>1, <1>2
<1>7. CasesTyped'
  BY <1>0, <1>1, <1>3 DEF CasesTyped
<1> QED
  BY <1>1, <1>3, <1>4, <1>5, <1>6, <1>7, VerdictInv

\* Every step keeps the invariant.
LEMMA NextInv ==
    ASSUME IInv, [Next]_vars
    PROVE  IInv'
<1>1. ASSUME NEW picture \in Pictures, Ingest(picture) PROVE IInv'
  <2>0. /\ shown \in Pictures /\ ClaimsTyped /\ CasesTyped /\ ReviewsTyped /\ FreshOnes
        /\ runs \in 0..MaxRuns /\ aux_fresh \subseteq Tenants /\ aux_mixed \subseteq RowsOf(cases)
        /\ OneRowPerSubject /\ AlertsHaveTheirCase /\ ValidationReachesAlerts
    BY TypeParts DEF IInv
  <2>1. /\ claims' = claims /\ cases' = cases /\ alerts' = alerts /\ reviews' = reviews /\ runs' = runs
        /\ verdicts' = verdicts /\ aux_about' = aux_about /\ aux_fresh' = aux_fresh /\ aux_mixed' = aux_mixed
    BY <1>1 DEF Ingest
  <2>2. shown' \in Pictures
    BY <1>1 DEF Ingest
  <2>3. TypeOK'
    BY <2>0, <2>1, <2>2 DEF TypeOK, ClaimsTyped, Table, CasesTyped, ReviewsTyped, RowsOf
  <2>4. OneRowPerSubject' /\ AlertsHaveTheirCase' /\ ValidationReachesAlerts'
    BY <2>0, <2>1, SameClaims, SameCases
  <2>5. FreshOnes'
    BY <2>0, <2>1, SameFresh
  <2> QED
    BY <2>3, <2>4, <2>5 DEF IInv
<1>2. ASSUME NEW scope \in Scopes, DetectBreaks(scope) \/ ComputeSnapshots(scope) \/ ScoreSnapshots(scope)
      PROVE  IInv'
  BY <1>2, DetectionInv
<1>3. ASSUME NEW scope \in Scopes, ComputeCases(scope) PROVE IInv'
  BY <1>3, CasesInv
<1>4. ASSUME NEW key, NEW verdict \in Verdicts, SetReview(key, verdict) PROVE IInv'
  BY <1>4, SetReviewInv
<1>5. ASSUME NEW i \in Ids, NEW status \in Stati, Validate(i, status) \/ ValidateCrash(i, status) PROVE IInv'
  <2>1. cases[i] # None
    BY <1>5 DEF Validate, ValidateCrash
  <2>2. CASE Validate(i, status)
    BY <2>1, <2>2, ValidateInv DEF Validate
  <2>3. CASE ValidateCrash(i, status)
    <3>1. PICK n \in 1..(Cardinality(AlertsOf(i, cases[i].tenant)) - 1) : ValidateUpTo(i, status, n)
      BY <2>3 DEF ValidateCrash
    <3> QED
      BY <2>1, <3>1, ValidateInv
  <2> QED
    BY <1>5, <2>2, <2>3
<1>6. CASE UNCHANGED vars
  <2>1. /\ claims' = claims /\ cases' = cases /\ alerts' = alerts /\ reviews' = reviews /\ runs' = runs
        /\ verdicts' = verdicts /\ aux_about' = aux_about /\ aux_fresh' = aux_fresh /\ aux_mixed' = aux_mixed
        /\ shown' = shown
    BY <1>6 DEF vars
  <2>2. TypeOK' /\ OneRowPerSubject' /\ AlertsHaveTheirCase' /\ ValidationReachesAlerts'
    BY <2>1, SameClaims, SameCases DEF IInv, TypeOK, RowsOf
  <2>3. FreshOnes'
    BY <2>1, SameFresh DEF IInv
  <2> QED
    BY <2>2, <2>3 DEF IInv
<1> QED
  BY <1>1, <1>2, <1>3, <1>4, <1>5, <1>6 DEF Next

\* IInv is inductive.
THEOREM Invariance == Spec => []IInv
<1>1. Init => IInv
  BY InitInv
<1>2. IInv /\ [Next]_vars => IInv'
  BY NextInv
<1> QED
  BY <1>1, <1>2, PTL DEF Spec

\* The invariant has all but the last of the properties of the model.
LEMMA FromInv ==
    ASSUME IInv
    PROVE  FreshCasesSplitClaims /\ ChainsOfWindow
  BY TenantWise DEF IInv, FreshOnes

AllValidated(t) == \A i \in RowsOf(cases) : cases[i].tenant = t =>
                       cases[i].status \in {"VALID", "INVALID"} /\ i \notin aux_mixed

\* Where all cases are validated, the alert of every claim has carried the verdict to it.
LEMMA NonePending ==
    ASSUME IInv, NEW t \in aux_fresh, AllValidated(t), NEW k \in ClaimsOf(t)
    PROVE  <<k[1], t, k[2]>> \in ReviewsCounted(t)
<1>1. PICK a \in alerts : a.tenant = t /\ <<a.type, a.source>> = k
  BY FromInv DEF FreshCasesSplitClaims
<1>2. /\ t \in Tenants /\ a \in Alert
      /\ DOMAIN reviews = Types \X Tenants \X Ids
  BY DEF IInv, TypeOK
<1>3. a.case \in RowsOf(cases) /\ cases[a.case].tenant = t /\ a \in AlertsOf(a.case, t)
  BY <1>1, <1>2 DEF IInv, AlertsHaveTheirCase, RowsOf, AlertsOf, Alert
<1>4. /\ reviews[KeyOf(a)] = VerdictFor(cases[a.case].status)
      /\ cases[a.case].status \in {"VALID", "INVALID"}
  BY <1>3 DEF IInv, ValidationReachesAlerts, AllValidated
<1>5. reviews[KeyOf(a)] \in {"CONFIRMED", "DISMISSED"}
  BY <1>4 DEF VerdictFor
<1>6. k[1] = a.type /\ k[2] = a.source /\ KeyOf(a) = <<k[1], t, k[2]>>
  BY <1>1 DEF KeyOf
<1>7. KeyOf(a) \in Types \X Tenants \X Ids
  BY <1>1, <1>2 DEF KeyOf, Alert
<1>8. <<k[1], k[2]>> = k
  BY <1>1, <1>6
<1> QED
  BY <1>2, <1>5, <1>6, <1>7, <1>8 DEF ReviewsCounted, DecidedReviews

\* The tables, the cases with their alerts and the reviews keep their shape.
THEOREM TypeCorrect == Spec => []TypeOK
<1>1. IInv => TypeOK
  BY DEF IInv
<1> QED
  BY <1>1, Invariance, PTL

\* However the detectors, the snapshots and the scoring are run for one tenant or for all,
\* and whatever the events show meanwhile, no transaction is reported by two breaks, no week
\* of a party has two snapshots, and none has weekly rows beside a to-date row or two to-date
\* rows.
THEOREM NoSubjectTwice == Spec => []OneRowPerSubject
<1>1. IInv => OneRowPerSubject
  BY DEF IInv
<1> QED
  BY <1>1, Invariance, PTL

\* An alert never points to the case of another tenant or to none, although every rebuild
\* deletes cases and gives their ids away again, and the alerts of a case are numbered
\* from 1 without a gap.
THEOREM AlertsWithTheirCases == Spec => []AlertsHaveTheirCase
<1>1. IInv => AlertsHaveTheirCase
  BY DEF IInv
<1> QED
  BY <1>1, Invariance, PTL

\* The cases of a tenant that were computed after its last detector run split its claims:
\* each of them is in one alert, of a case of its own group.
THEOREM FreshCasesSplit == Spec => []FreshCasesSplitClaims
<1>1. IInv => FreshCasesSplitClaims
  BY FromInv
<1> QED
  BY <1>1, Invariance, PTL

\* Within such a case each claim follows the previous one within the window, and claims of
\* two cases of one group are further apart.
THEOREM ChainsWithinWindow == Spec => []ChainsOfWindow
<1>1. IInv => ChainsOfWindow
  BY FromInv
<1> QED
  BY <1>1, Invariance, PTL

\* After a validation that was not cut short every alert of the case has the verdict, until
\* one of its claims is reviewed on its own, across any number of rebuilds of other tenants.
THEOREM ValidationsReach == Spec => []ValidationReachesAlerts
<1>1. IInv => ValidationReachesAlerts
  BY DEF IInv
<1> QED
  BY <1>1, Invariance, PTL

\* Validating every case of a tenant leaves no claim of it pending.
THEOREM ValidatedNonePending == Spec => []AllValidatedNonePending
<1>1. IInv => AllValidatedNonePending
  BY NonePending, Zenon DEF AllValidatedNonePending, AllValidated
<1> QED
  BY <1>1, Invariance, PTL
================================================================================
