--------------------------- MODULE OperationsProofs ---------------------------
(***************************************************************************)
(* What Operations keeps for all files, stores and parties, with TLAPS: an *)
(* event has one row, a run replaces only rows of its own, an overdue      *)
(* batch is listed, so is a payment that went through twice, and a spike   *)
(* is one by the party's own past.                                         *)
(*                                                                         *)
(* FreshRows and SpikeRows carry the last three: while nothing in a run's  *)
(* scope changes, its rows are what the detector would find now, so that   *)
(* what is left to show is what the detector finds in one store, or in the *)
(* weeks of one party.                                                     *)
(***************************************************************************)
EXTENDS Operations, FiniteFacts, FiniteSetTheorems, SequenceTheorems, TLAPS

-----------------------------------------------------------------------------
(* Some of the events *)

\* Min of numbers is the least of them.
LEMMA MinIs ==
    ASSUME NEW S \in SUBSET Nat, S # {}
    PROVE  Min(S) \in S /\ \A y \in S : Min(S) <= y
BY LeastExists DEF Min

\* Max of finitely many numbers is the greatest of them.
LEMMA MaxIs ==
    ASSUME NEW S \in SUBSET Nat, S # {}, IsFiniteSet(S)
    PROVE  Max(S) \in S /\ \A y \in S : y <= Max(S)
BY GreatestExists DEF Max

\* Some of the events, by their ids.
ById(rows) == /\ DOMAIN rows \in SUBSET Nat /\ IsFiniteSet(DOMAIN rows)
              /\ \A i \in DOMAIN rows : IsRow(rows[i])
              /\ \A i, j \in DOMAIN rows : rows[i] = rows[j] => i = j

\* The rows of a run are the events of the tenants it covers, by their ids.
LEMMA InScopeIs ==
    ASSUME IsStore(events), NEW scope
    PROVE  /\ ById(InScope(scope))
           /\ \A e : e \in Range(InScope(scope)) <=> e \in Range(events) /\ Covers(scope, e.tenant)
<1> DEFINE rows == InScope(scope)
<1>1. DOMAIN events = 1..Len(events) /\ Len(events) \in Nat
  BY DEF IsStore
<1>2. /\ DOMAIN rows = {i \in DOMAIN events : Covers(scope, events[i].tenant)}
      /\ \A i \in DOMAIN rows : rows[i] = events[i]
  BY DEF InScope, RestrictValues, Restrict
<1>3. IsFiniteSet(1..Len(events))
  BY <1>1, FS_Interval
<1>4. DOMAIN rows \in SUBSET (1..Len(events))
  BY <1>1, <1>2
<1>5. IsFiniteSet(DOMAIN rows)
  BY <1>3, <1>4, FS_Subset
<1> HIDE DEF rows
<1>6. ById(rows)
  BY <1>1, <1>2, <1>4, <1>5 DEF ById, IsStore, SameEvent
<1>7. \A e : e \in Range(rows) <=> e \in Range(events) /\ Covers(scope, e.tenant)
  BY <1>2 DEF Range
<1> QED
  BY <1>6, <1>7 DEF rows

\* A choice among such rows is one again.
LEMMA ChoiceIs ==
    ASSUME NEW rows, ById(rows), NEW S \in SUBSET DOMAIN rows
    PROVE  /\ ById(Restrict(rows, S))
           /\ \A e : e \in Range(Restrict(rows, S)) <=> \E i \in S : e = rows[i]
<1>1. DOMAIN Restrict(rows, S) = S /\ \A i \in S : Restrict(rows, S)[i] = rows[i]
  BY DEF Restrict
<1>2. IsFiniteSet(S)
  BY FS_Subset DEF ById
<1>3. \A e : e \in Range(Restrict(rows, S)) <=> \E i \in S : e = rows[i]
  BY <1>1 DEF Range
<1> QED
  BY <1>1, <1>2, <1>3 DEF ById

\* events[0] of some rows is one of them.
LEMMA FirstIs ==
    ASSUME NEW rows, ById(rows), Range(rows) # {}
    PROVE  First(rows) \in Range(rows)
<1>1. DOMAIN rows # {}
  BY DEF Range
<1>2. Min(DOMAIN rows) \in DOMAIN rows
  BY <1>1, MinIs DEF ById
<1> QED
  BY <1>2 DEF First, Range

\* merge_into_record: a merge leaves an event the columns of its key.
LEMMA MergedKeeps ==
    ASSUME NEW a, NEW e, IsRow(a), IsRow(e), SameEvent(a, e)
    PROVE  IsRow(Merged(a, e)) /\ \A c \in KeyColumns : Merged(a, e)[c] = e[c]
BY DEF IsRow, Merged, SameEvent, KeyColumns, DataColumns

\* A sequence is a sequence of its own elements.
LEMMA OwnRange ==
    ASSUME NEW V, NEW s \in Seq(V)
    PROVE  s \in Seq(Range(s))
<1>1. Seq(V) = UNION {[1..n -> V] : n \in Nat}
  BY SeqDef
<1>2. \E n \in Nat : s \in [1..n -> V]
  BY <1>1, Zenon
<1>3. \A n : s \in [1..n -> V] => s \in [1..n -> Range(s)]
  BY Zenon DEF Range
<1>4. Seq(Range(s)) = UNION {[1..m -> Range(s)] : m \in Nat}
  BY SeqDef
<1>5. s \in UNION {[1..m -> Range(s)] : m \in Nat}
  BY <1>2, <1>3, Zenon
<1> QED
  BY <1>4, <1>5, Zenon

\* upsert_canonical_event: one row per event, before and after.
LEMMA UpsertKeeps ==
    ASSUME NEW rows, NEW a, IsStore(rows), IsRow(a)
    PROVE  IsStore(Upserted(rows, a))
<1> DEFINE Seen == \E i \in DOMAIN rows : SameEvent(a, rows[i])
<1>0. rows \in Seq(Range(rows)) /\ Len(rows) \in Nat /\ DOMAIN rows = 1..Len(rows)
  BY DEF IsStore
<1>1. CASE Seen
  <2> DEFINE new == [i \in DOMAIN rows |-> IF SameEvent(a, rows[i]) THEN Merged(a, rows[i]) ELSE rows[i]]
  <2>1. Upserted(rows, a) = new
    BY <1>1 DEF Upserted
  <2>2. new \in Seq(Range(new))
    BY <1>0 DEF Range
  <2>3. \A i \in DOMAIN rows : IsRow(new[i]) /\ \A c \in KeyColumns : new[i][c] = rows[i][c]
    BY MergedKeeps DEF IsStore
  <2>4. DOMAIN new = DOMAIN rows
    OBVIOUS
  <2> HIDE DEF new
  <2>5. \A i, j \in DOMAIN new : SameEvent(new[i], new[j]) => SameEvent(rows[i], rows[j])
    BY <2>3, <2>4 DEF SameEvent
  <2> QED
    BY <2>1, <2>2, <2>3, <2>4, <2>5 DEF IsStore
<1>2. CASE ~Seen
  <2> DEFINE new == Append(rows, a)
             V == Range(rows) \cup {a}
  <2>1. Upserted(rows, a) = new
    BY <1>2 DEF Upserted
  <2>2. rows \in Seq(V)
    BY <1>0
  <2>3. /\ new \in Seq(V) /\ Len(new) = Len(rows) + 1 /\ DOMAIN new = 1..(Len(rows) + 1)
        /\ \A i \in 1..Len(rows) : new[i] = rows[i]
        /\ new[Len(rows) + 1] = a
    BY <2>2, <1>0
  <2>9. new \in Seq(V)
    BY <2>3
  <2> HIDE DEF new, V
  <2>4. new \in Seq(Range(new))
    BY <2>9, OwnRange, Zenon
  <2>5. \A i \in DOMAIN new : (i \in DOMAIN rows /\ new[i] = rows[i]) \/ (i = Len(rows) + 1 /\ new[i] = a)
    BY <2>3, <1>0
  <2>6. \A i \in DOMAIN rows : ~SameEvent(a, rows[i]) /\ ~SameEvent(rows[i], a)
    BY <1>2 DEF SameEvent
  <2>7. \A i \in DOMAIN new : IsRow(new[i])
    BY <2>5 DEF IsStore
  <2>8. \A i, j \in DOMAIN new : SameEvent(new[i], new[j]) => i = j
    BY <2>5, <2>6 DEF IsStore
  <2> QED
    BY <2>1, <2>4, <2>7, <2>8 DEF IsStore
<1> QED
  BY <1>1, <1>2

-----------------------------------------------------------------------------
(* What a run finds is of the tenants it covers *)

\* detect_unsettled_batches: the rows of a batch are those with its id.
LEMMA BatchIs ==
    ASSUME NEW rows, ById(rows), NEW b
    PROVE  /\ ById(BatchRows(b, rows))
           /\ \A e : e \in Range(BatchRows(b, rows)) <=> e \in Range(rows) /\ e.batch = b
<1> DEFINE S == {i \in DOMAIN rows : rows[i].batch = b}
<1>1. BatchRows(b, rows) = Restrict(rows, S)
  BY DEF BatchRows, RestrictValues
<1>2. S \in SUBSET DOMAIN rows
  OBVIOUS
<1>3. \A e : (\E i \in S : e = rows[i]) <=> e \in Range(rows) /\ e.batch = b
  BY DEF Range
<1> HIDE DEF S
<1> QED
  BY <1>1, <1>2, <1>3, ChoiceIs

\* The rows of a batch that name a deadline.
LEMMA DeadlinesIs ==
    ASSUME NEW rows, ById(rows)
    PROVE  /\ ById(Deadlines(rows))
           /\ \A e : e \in Range(Deadlines(rows)) <=> e \in Range(rows) /\ e.due # None
<1> DEFINE S == {i \in DOMAIN rows : rows[i].due # None}
<1>1. Deadlines(rows) = Restrict(rows, S)
  BY DEF Deadlines, RestrictValues
<1>2. S \in SUBSET DOMAIN rows
  OBVIOUS
<1>3. \A e : (\E i \in S : e = rows[i]) <=> e \in Range(rows) /\ e.due # None
  BY DEF Range
<1> HIDE DEF S
<1> QED
  BY <1>1, <1>2, <1>3, ChoiceIs

\* detect_unsettled_batches: there is a row for a batch when its first deadline has passed.
LEMMA OverdueAre ==
    ASSUME NEW scope
    PROVE  \A r : r \in OverdueBatches(scope) <=>
               \E b : LET batch == BatchRows(b, InScope(scope)) IN
                      /\ b # None /\ \E e \in Range(InScope(scope)) : e.batch = b
                      /\ ~NotYetDue(batch) /\ Unsettled(batch) # {}
                      /\ r = BatchIssue(b, batch)
BY DEF OverdueBatches

\* An overdue batch is listed for the tenant of one of the rows of the run.
LEMMA OverdueCovered ==
    ASSUME IsStore(events), NEW scope, NEW r \in OverdueBatches(scope)
    PROVE  \E e \in Range(InScope(scope)) : r.tenant = e.tenant
<1>1. PICK b : LET batch == BatchRows(b, InScope(scope)) IN
                   Unsettled(batch) # {} /\ r = BatchIssue(b, batch)
  BY OverdueAre
<1> DEFINE batch == BatchRows(b, InScope(scope))
<1>2. ById(batch) /\ Range(batch) \subseteq Range(InScope(scope))
  BY InScopeIs, BatchIs
<1>3. Unsettled(batch) # {} /\ r = BatchIssue(b, batch)
  BY <1>1
<1> HIDE DEF batch
<1>4. Range(batch) # {}
  BY <1>3 DEF Unsettled
<1> QED
  BY <1>2, <1>3, <1>4, FirstIs DEF BatchIssue

\* detect_duplicate_payments: there is a row for a group when two of its payments are settled.
LEMMA DuplicatesAre ==
    ASSUME NEW scope
    PROVE  \A r : r \in Duplicates(scope) <=>
               \E g \in Groups(InScope(scope)) : Size(Settled(g)) >= 2 /\ r = Duplicate(g)
BY Zenon DEF Duplicates

\* A group is that of a key or that of a retry and its original.
LEMMA GroupsAre ==
    ASSUME NEW rows
    PROVE  \A g : g \in Groups(rows) <=>
               \E e \in Range(rows) : \/ e.idem # None /\ g = KeyGroup(e, rows)
                                      \/ Links(e, rows) /\ g = LinkGroup(e, rows)
BY Zenon DEF Groups

\* No detector adds a row for a tenant that its run does not cover.
LEMMA DetectedCovered ==
    ASSUME IsStore(events), NEW table \in Tables, NEW scope \in Scopes,
           NEW r \in Detected(table, scope)
    PROVE  r.tenant \in Tenants /\ Covers(scope, r.tenant)
<1>0. \A e \in Range(InScope(scope)) : e.tenant \in Tenants /\ Covers(scope, e.tenant)
  <2>1. \A e \in Range(events) : e.tenant \in Tenants
    BY DEF IsStore, IsRow, Range
  <2> QED
    BY <2>1, InScopeIs
<1>1. CASE table = "BATCH_NOT_SETTLED"
  BY <1>0, <1>1, OverdueCovered DEF Detected
<1>2. CASE table = "DUPLICATE_PAYMENT"
  <2>0. r \in Duplicates(scope)
    BY <1>2 DEF Detected
  <2>1. PICK g \in Groups(InScope(scope)) : r = Duplicate(g)
    BY <2>0, DuplicatesAre
  <2>2. \E e \in Range(InScope(scope)) : g.tenant = e.tenant
    <3>1. PICK e \in Range(InScope(scope)) : g \in {KeyGroup(e, InScope(scope)), LinkGroup(e, InScope(scope))}
      BY <2>1, GroupsAre
    <3> QED
      BY <3>1 DEF KeyGroup, LinkGroup
  <2> QED
    BY <1>0, <2>1, <2>2 DEF Duplicate
<1>3. CASE table = "FORMAT_REJECTION"
  BY <1>0, <1>3 DEF Detected, Rejections
<1>4. CASE table \in Spikes
  <2>1. \A ratio, limit : r \in SpikeWeeks(scope, ratio, limit) =>
            \E p \in Parties : Covers(scope, PartyTenant[p]) /\ r.tenant = PartyTenant[p]
    BY DEF SpikeWeeks
  <2>2. \E ratio, limit : r \in SpikeWeeks(scope, ratio, limit)
    BY <1>4 DEF Detected, Spikes, TimeoutSpikes, RejectSpikes
  <2> QED
    BY <2>1, <2>2, PartyAssumption
<1>5. CASE table = "RECONCILIATION_BREAK"
  <2>1. \E e \in Range(InScope(scope)) : r.tenant = e.tenant
    BY <1>5 DEF Detected, Breaks, Break
  <2> QED
    BY <1>0, <2>1
<1> QED
  BY <1>1, <1>2, <1>3, <1>4, <1>5 DEF Tables, Issues, Spikes

-----------------------------------------------------------------------------
(* The shape of the state; scopes *)

\* A run is fresh for a tenant only if it covered the tenant.
FreshCovers == \A table \in Tables : \A f \in aux_fresh[table] : Covers(f[2], f[1])

\* TypeOK for all tables of arrivals and weeks: merging keeps one row for each event.
THEOREM TypeCorrect == Spec => []TypeOK
<1>1. Init => TypeOK
  <2> SUFFICES ASSUME Init PROVE TypeOK
    OBVIOUS
  <2>1. IsStore(<<>>)
    BY DEF IsStore, Range
  <2>2. IsStore(events)
    BY <2>1, ArrivalsAssumption DEF Init
  <2>3. weekly \in [Parties -> Seq(Weeks)]
    <3>1. \A p \in Parties : <<>> \in Seq(Weeks)
      OBVIOUS
    <3>2. [Parties -> Pasts] \subseteq [Parties -> Seq(Weeks)]
      BY PartyAssumption
    <3> QED
      BY <3>1, <3>2 DEF Init
  <2> QED
    BY <2>2, <2>3, BoundAssumption DEF Init, TypeOK
<1>2. TypeOK /\ [Next]_vars => TypeOK'
  <2> SUFFICES ASSUME TypeOK, [Next]_vars PROVE TypeOK'
    OBVIOUS
  <2>1. ASSUME NEW a \in Arrivals, Arrive(a) PROVE TypeOK'
    <3>1. IsStore(events')
      BY <2>1, UpsertKeeps, ArrivalsAssumption DEF Arrive, TypeOK
    <3>2. aux_fresh' \in [Tables -> SUBSET (Tenants \X Scopes)]
      BY <2>1 DEF Arrive, Stale, TypeOK
    <3>3. /\ UNCHANGED <<weekly, found, today, runs>>
          /\ changes < MaxChanges /\ changes' = changes + 1
      BY <2>1 DEF Arrive, Change
    <3> QED
      BY <3>1, <3>2, <3>3, BoundAssumption DEF TypeOK
  <2>2. ASSUME NEW p \in Parties, NEW week \in Weeks, Week(p, week) PROVE TypeOK'
    <3>1. weekly' \in [Parties -> Seq(Weeks)]
      BY <2>2 DEF Week, TypeOK
    <3>2. aux_fresh' \in [Tables -> SUBSET (Tenants \X Scopes)]
      BY <2>2 DEF Week, Stale, TypeOK
    <3> QED
      BY <2>2, <3>1, <3>2, BoundAssumption DEF Week, Change, TypeOK
  <2>3. CASE Day
    <3>1. aux_fresh' \in [Tables -> SUBSET (Tenants \X Scopes)]
      BY <2>3 DEF Day, TypeOK
    <3> QED
      BY <2>3, <3>1, BoundAssumption DEF Day, Change, TypeOK
  <2>4. ASSUME NEW table \in Tables, NEW scope \in Scopes, Detect(table, scope) PROVE TypeOK'
    <3>1. \A r \in Detected(table, scope) : r.tenant \in Tenants
      BY DetectedCovered DEF TypeOK
    <3>2. \A tb \in Tables : \A r \in found'[tb] : r.tenant \in Tenants
      BY <2>4, <3>1 DEF Detect, Kept, TypeOK
    <3>3. Covered(scope) \X {scope} \in SUBSET (Tenants \X Scopes)
      BY DEF Covered
    <3>4. aux_fresh' \in [Tables -> SUBSET (Tenants \X Scopes)]
      BY <2>4, <3>3 DEF Detect, TypeOK
    <3> QED
      BY <2>4, <3>2, <3>4, BoundAssumption DEF Detect, TypeOK
  <2>5. CASE UNCHANGED vars
    BY <2>5 DEF vars, TypeOK
  <2> QED
    BY <2>1, <2>2, <2>3, <2>4, <2>5 DEF Next
<1> QED
  BY <1>1, <1>2, PTL DEF Spec

\* FreshCovers and TypeOK.
LEMMA ShapeInv == Spec => [](TypeOK /\ FreshCovers)
<1>1. Init => FreshCovers
  BY DEF Init, FreshCovers
<1>2. TypeOK /\ FreshCovers /\ [Next]_vars => FreshCovers'
  <2> SUFFICES ASSUME TypeOK, FreshCovers, [Next]_vars PROVE FreshCovers'
    OBVIOUS
  <2>1. ASSUME NEW tables, NEW t, aux_fresh' = Stale(tables, t) PROVE FreshCovers'
    BY <2>1 DEF Stale, FreshCovers
  <2>2. ASSUME NEW table \in Tables, NEW scope \in Scopes, Detect(table, scope)
        PROVE  FreshCovers'
    <3>1. \A tb \in Tables : \A f \in aux_fresh'[tb] :
              f \in aux_fresh[tb] \/ f \in Covered(scope) \X {scope}
      BY <2>2 DEF Detect, TypeOK
    <3>2. \A f \in Covered(scope) \X {scope} : Covers(f[2], f[1])
      BY DEF Covered
    <3> QED
      BY <3>1, <3>2 DEF FreshCovers
  <2>3. CASE Day
    BY <2>3 DEF Day, TypeOK, FreshCovers
  <2>4. CASE UNCHANGED aux_fresh
    BY <2>4 DEF FreshCovers
  <2> QED
    BY <2>1, <2>2, <2>3, <2>4 DEF Next, Arrive, Week, vars
<1> QED
  BY <1>1, <1>2, TypeCorrect, PTL DEF Spec

-----------------------------------------------------------------------------
(* The deletes are scoped *)

\* A step changes the rows of a tenant in a table only if it is a run of it over the tenant.
RowsKept == \A table \in Tables, t \in Tenants :
                {r \in found'[table] : r.tenant = t} # RowsOf(table, t)
                    => aux_last' \in {<<table, t>>, <<table, None>>}
\* ScopedRebuild for all tables: a run replaces rows of its table and of the tenants it
\* covers, and no step but a run touches any.
THEOREM ScopedDeletes == Spec => ScopedRebuild
<1>1. TypeOK /\ Next => RowsKept
  <2> SUFFICES ASSUME TypeOK, Next PROVE RowsKept
    OBVIOUS
  <2>1. ASSUME NEW tb \in Tables, NEW scope \in Scopes, Detect(tb, scope) PROVE RowsKept
    <3> SUFFICES ASSUME NEW table \in Tables, NEW t \in Tenants,
                        aux_last' \notin {<<table, t>>, <<table, None>>}
                 PROVE  {r \in found'[table] : r.tenant = t} = RowsOf(table, t)
      BY DEF RowsKept
    <3>1. aux_last' = <<tb, scope>>
      BY <2>1 DEF Detect
    <3>2. CASE table # tb
      BY <2>1, <3>2 DEF Detect, TypeOK, RowsOf
    <3>3. CASE table = tb
      <4>1. ~Covers(scope, t)
        BY <3>1, <3>3 DEF Covers
      <4>2. found'[table] = Kept(table, scope) \cup Detected(table, scope)
        BY <2>1, <3>3 DEF Detect, TypeOK
      <4>3. \A r \in Detected(table, scope) : r.tenant # t
        BY <4>1, DetectedCovered DEF TypeOK
      <4> QED
        BY <4>1, <4>2, <4>3 DEF Kept, RowsOf
    <3> QED
      BY <3>2, <3>3
  <2>2. CASE UNCHANGED found
    BY <2>2 DEF RowsKept, RowsOf
  <2> QED
    BY <2>1, <2>2 DEF Next, Arrive, Week, Day
<1> QED
  BY <1>1, TypeCorrect, PTL DEF Spec, ScopedRebuild, RowsKept

-----------------------------------------------------------------------------
(* Fresh rows are what a run would find now *)

FreshRows(table) ==
    \A f \in aux_fresh[table] :
        RowsOf(table, f[1]) = {r \in Detected(table, f[2]) : r.tenant = f[1]}

\* upsert_canonical_event: an event that a scope does not cover changes nothing in it.
LEMMA ArrivalElsewhere ==
    ASSUME IsStore(events), NEW a, IsRow(a), NEW scope, ~Covers(scope, a.tenant),
           events' = Upserted(events, a)
    PROVE  InScope(scope)' = InScope(scope)
<1> DEFINE Here(rows) == {i \in DOMAIN rows : Covers(scope, rows[i].tenant)}
<1>0. events \in Seq(Range(events)) /\ Len(events) \in Nat /\ DOMAIN events = 1..Len(events)
  BY DEF IsStore
<1>1. /\ InScope(scope) = [i \in Here(events) |-> events[i]]
      /\ InScope(scope)' = [i \in Here(events') |-> events'[i]]
  BY DEF InScope, RestrictValues, Restrict
<1>2. Here(events') = Here(events) /\ \A i \in Here(events) : events'[i] = events[i]
  <2>1. CASE \E i \in DOMAIN events : SameEvent(a, events[i])
    <3>1. events' = [i \in DOMAIN events |-> IF SameEvent(a, events[i]) THEN Merged(a, events[i])
                                                                      ELSE events[i]]
      BY <2>1 DEF Upserted
    <3>2. \A i \in DOMAIN events : SameEvent(a, events[i]) =>
              Merged(a, events[i]).tenant = a.tenant /\ events[i].tenant = a.tenant
      BY MergedKeeps DEF SameEvent, KeyColumns, IsStore
    <3> QED
      BY <3>1, <3>2
  <2>2. CASE ~\E i \in DOMAIN events : SameEvent(a, events[i])
    <3>1. events' = Append(events, a)
      BY <2>2 DEF Upserted
    <3> DEFINE V == Range(events) \cup {a}
    <3>2. events \in Seq(V)
      BY <1>0
    <3>3. /\ DOMAIN events' = 1..(Len(events) + 1) /\ events'[Len(events) + 1] = a
          /\ \A i \in 1..Len(events) : events'[i] = events[i]
      BY <3>1, <3>2
    <3> QED
      BY <3>3, <1>0
  <2> QED
    BY <2>1, <2>2
<1> QED
  BY <1>1, <1>2

\* The rows of a run are read from the events alone.
LEMMA SameScope ==
    ASSUME events' = events
    PROVE  \A scope : InScope(scope)' = InScope(scope)
BY DEF InScope, RestrictValues, Restrict

\* A detector of events finds the same when its scope and the date are the same.
LEMMA SameFound ==
    ASSUME NEW scope, InScope(scope)' = InScope(scope), NEW table,
           \/ table = "DUPLICATE_PAYMENT"
           \/ table = "BATCH_NOT_SETTLED" /\ today' = today
    PROVE  Detected(table, scope)' = Detected(table, scope)
<1>1. CASE table = "DUPLICATE_PAYMENT"
  <2>1. Duplicates(scope)' = Duplicates(scope)
    BY DEF Duplicates
  <2> QED
    BY <1>1, <2>1 DEF Detected
<1>2. CASE table = "BATCH_NOT_SETTLED" /\ today' = today
  <2>1. OverdueBatches(scope)' = OverdueBatches(scope)
    BY <1>2 DEF OverdueBatches, NotYetDue
  <2> QED
    BY <1>2, <2>1 DEF Detected
<1> QED
  BY <1>1, <1>2

\* A step that neither runs the detector nor makes a tenant fresh.
LEMMA FreshStays ==
    ASSUME NEW table \in {"BATCH_NOT_SETTLED", "DUPLICATE_PAYMENT"}, FreshRows(table),
           NEW S \in SUBSET aux_fresh[table], aux_fresh'[table] = S, found' = found,
           \A f \in S : InScope(f[2])' = InScope(f[2]),
           S = {} \/ table = "DUPLICATE_PAYMENT" \/ today' = today
    PROVE  FreshRows(table)'
<1>1. \A f \in S : Detected(table, f[2])' = Detected(table, f[2])
  BY SameFound
<1>2. FreshRows(table)' <=> \A f \in S : {r \in found'[table] : r.tenant = f[1]}
                                          = {r \in Detected(table, f[2])' : r.tenant = f[1]}
  BY DEF FreshRows, RowsOf
<1> QED
  BY <1>1, <1>2 DEF FreshRows, RowsOf

\* A run makes fresh what it covers and leaves alone what it does not.
LEMMA FreshDetect ==
    ASSUME TypeOK, NEW table \in {"BATCH_NOT_SETTLED", "DUPLICATE_PAYMENT"}, FreshRows(table),
           NEW tb \in Tables, NEW scope \in Scopes, Detect(tb, scope)
    PROVE  FreshRows(table)'
<1>1. \A sc : InScope(sc)' = InScope(sc)
  BY SameScope DEF Detect
<1>2. \A sc : Detected(table, sc)' = Detected(table, sc)
  BY <1>1, SameFound DEF Detect
<1>3. FreshRows(table)' <=> \A f \in aux_fresh'[table] :
          {r \in found'[table] : r.tenant = f[1]} = {r \in Detected(table, f[2]) : r.tenant = f[1]}
  BY <1>2 DEF FreshRows, RowsOf
<1>4. table \in Tables
  BY DEF Tables, Issues
<1>5. CASE tb # table
  <2>1. found'[table] = found[table] /\ aux_fresh'[table] = aux_fresh[table]
    BY <1>4, <1>5 DEF Detect, TypeOK
  <2> QED
    BY <1>3, <2>1 DEF FreshRows, RowsOf
<1>6. CASE tb = table
  <2>1. /\ found'[table] = Kept(table, scope) \cup Detected(table, scope)
        /\ aux_fresh'[table] = {f \in aux_fresh[table] : ~Covers(scope, f[1])}
                               \cup (Covered(scope) \X {scope})
    BY <1>4, <1>6 DEF Detect, TypeOK
  <2>2. \A r \in Detected(table, scope) : Covers(scope, r.tenant)
    BY <1>4, DetectedCovered DEF TypeOK
  <2>3. ASSUME NEW f \in aux_fresh[table], ~Covers(scope, f[1])
        PROVE  {r \in found'[table] : r.tenant = f[1]} = {r \in Detected(table, f[2]) : r.tenant = f[1]}
    <3>1. {r \in found'[table] : r.tenant = f[1]} = RowsOf(table, f[1])
      BY <2>1, <2>2, <2>3 DEF Kept, RowsOf
    <3> QED
      BY <3>1 DEF FreshRows
  <2>4. ASSUME NEW f \in Covered(scope) \X {scope}
        PROVE  {r \in found'[table] : r.tenant = f[1]} = {r \in Detected(table, f[2]) : r.tenant = f[1]}
    <3>1. f[2] = scope /\ Covers(scope, f[1])
      BY DEF Covered
    <3> QED
      BY <2>1, <3>1 DEF Kept
  <2> QED
    BY <1>3, <2>1, <2>3, <2>4
<1> QED
  BY <1>5, <1>6

\* The rows of a fresh tenant are what a run over the same scope would find now.
LEMMA FreshInv ==
    Spec => [](FreshRows("BATCH_NOT_SETTLED") /\ FreshRows("DUPLICATE_PAYMENT"))
<1>1. Init => FreshRows("BATCH_NOT_SETTLED") /\ FreshRows("DUPLICATE_PAYMENT")
  BY DEF Init, FreshRows, Tables, Issues
<1>2. ASSUME TypeOK, FreshRows("BATCH_NOT_SETTLED"), FreshRows("DUPLICATE_PAYMENT"), [Next]_vars
      PROVE  FreshRows("BATCH_NOT_SETTLED")' /\ FreshRows("DUPLICATE_PAYMENT")'
  <2> SUFFICES ASSUME NEW table \in {"BATCH_NOT_SETTLED", "DUPLICATE_PAYMENT"}, FreshRows(table)
               PROVE  FreshRows(table)'
    BY <1>2
  <2>0. table \in Tables /\ table \notin Spikes
    BY DEF Tables, Issues, Spikes
  <2>1. ASSUME NEW a \in Arrivals, Arrive(a) PROVE FreshRows(table)'
    <3> DEFINE S == {f \in aux_fresh[table] : ~Covers(f[2], a.tenant)}
    <3>1. aux_fresh'[table] = S
      BY <2>0, <2>1 DEF Arrive, Stale
    <3>2. \A f \in S : InScope(f[2])' = InScope(f[2])
      BY <1>2, <2>1, ArrivalElsewhere, ArrivalsAssumption DEF Arrive, TypeOK
    <3>3. S \in SUBSET aux_fresh[table] /\ found' = found /\ today' = today
      BY <2>1 DEF Arrive
    <3> HIDE DEF S
    <3> QED
      BY <3>1, <3>2, <3>3, FreshStays
  <2>2. ASSUME NEW p \in Parties, NEW week \in Weeks, Week(p, week) PROVE FreshRows(table)'
    <3>1. aux_fresh'[table] = aux_fresh[table]
      BY <2>0, <2>2 DEF Week, Stale
    <3>2. \A sc : InScope(sc)' = InScope(sc)
      BY <2>2, SameScope DEF Week
    <3> QED
      BY <2>2, <3>1, <3>2, FreshStays DEF Week
  <2>3. CASE Day
    <3>1. aux_fresh'[table] = IF table = "BATCH_NOT_SETTLED" THEN {} ELSE aux_fresh[table]
      BY <1>2, <2>0, <2>3 DEF Day, TypeOK
    <3>2. \A sc : InScope(sc)' = InScope(sc)
      BY <2>3, SameScope DEF Day
    <3> QED
      BY <2>3, <3>1, <3>2, FreshStays DEF Day
  <2>4. ASSUME NEW tb \in Tables, NEW scope \in Scopes, Detect(tb, scope) PROVE FreshRows(table)'
    BY <1>2, <2>4, FreshDetect
  <2>5. CASE UNCHANGED vars
    <3>1. \A sc : InScope(sc)' = InScope(sc)
      BY <2>5, SameScope DEF vars
    <3> QED
      BY <2>5, <3>1, FreshStays DEF vars
  <2> QED
    BY <1>2, <2>1, <2>2, <2>3, <2>4, <2>5 DEF Next
<1> QED
  BY <1>1, <1>2, TypeCorrect, PTL DEF Spec

-----------------------------------------------------------------------------
(* Unsettled batches *)

\* What one fresh tenant's rows say of one batch id.
BatchListed(t, scope, b) ==
    LET own  == {e \in EventsOf(t) : e.batch = b}
        open == {e \in own : e.reached # TRUE}
        due  == {e.due : e \in own} \ {None}
        listed == {r \in RowsOf("BATCH_NOT_SETTLED", t) : r.ref = b}
    IN scope = t \/ (\A e \in Range(events) : e.batch = b => e.tenant = t)
       => /\ open # {} /\ due # {} /\ (\A d \in due : d <= today)
                 => {r.about : r \in listed} = {open}
          /\ open = {} \/ (\A d \in due : d > today) => listed = {}

\* A batch of one tenant is listed as its deadlines say, whichever comes first.
LEMMA BatchIsListed ==
    ASSUME IsStore(events), today \in Nat, NEW t \in Tenants, NEW scope, Covers(scope, t), NEW b, b # None,
           RowsOf("BATCH_NOT_SETTLED", t) = {r \in OverdueBatches(scope) : r.tenant = t}
    PROVE  BatchListed(t, scope, b)
<1> DEFINE batch == BatchRows(b, InScope(scope))
           own  == {e \in EventsOf(t) : e.batch = b}
           open == {e \in own : e.reached # TRUE}
           due  == {e.due : e \in own} \ {None}
           listed == {r \in RowsOf("BATCH_NOT_SETTLED", t) : r.ref = b}
<1>1. SUFFICES ASSUME scope = t \/ (\A e \in Range(events) : e.batch = b => e.tenant = t)
               PROVE  /\ open # {} /\ due # {} /\ (\A d \in due : d <= today)
                             => {r.about : r \in listed} = {open}
                      /\ open = {} \/ (\A d \in due : d > today) => listed = {}
  BY DEF BatchListed
<1>2. /\ ById(batch)
      /\ \A e : e \in Range(batch) <=> e \in Range(events) /\ Covers(scope, e.tenant) /\ e.batch = b
  BY InScopeIs, BatchIs
<1>3. Range(batch) = own
  <2>1. \A e \in Range(events) : e.batch = b => (Covers(scope, e.tenant) <=> e.tenant = t)
    BY <1>1, ScopeAssumption DEF Covers
  <2> QED
    BY <1>2, <2>1 DEF EventsOf
<1>4. Unsettled(batch) = open
  BY <1>3 DEF Unsettled
<1>5. \A r : r \in listed <=> /\ open # {} /\ ~NotYetDue(batch) /\ r = BatchIssue(b, batch)
                              /\ r.tenant = t
  <2>1. \A x : BatchIssue(x, BatchRows(x, InScope(scope))).ref = x
    BY DEF BatchIssue
  <2>2. \A r : r \in listed <=> r \in OverdueBatches(scope) /\ r.tenant = t /\ r.ref = b
    OBVIOUS
  <2>3. open # {} => \E e \in Range(InScope(scope)) : e.batch = b
    <3>1. Range(batch) \subseteq Range(InScope(scope)) /\ \A e \in Range(batch) : e.batch = b
      BY InScopeIs, BatchIs
    <3> QED
      BY <1>3, <3>1
  <2> HIDE DEF open, listed
  <2> QED
    BY <1>4, <2>1, <2>2, <2>3, OverdueAre
<1>6. ASSUME open # {} PROVE BatchIssue(b, batch).tenant = t
  <2>1. First(batch) \in own
    BY <1>2, <1>3, <1>6, FirstIs
  <2> QED
    BY <2>1 DEF BatchIssue, EventsOf
<1>7. \A e \in own : e.due \in Int \cup {None}
  BY DEF EventsOf, Range, IsStore, IsRow
<1>8. /\ ById(Deadlines(batch))
      /\ \A e : e \in Range(Deadlines(batch)) <=> e \in own /\ e.due # None
  BY <1>2, <1>3, DeadlinesIs
<1>9. ASSUME open # {}, due # {}, \A d \in due : d <= today
      PROVE  {r.about : r \in listed} = {open}
  <2>1. Range(Deadlines(batch)) # {}
    BY <1>8, <1>9
  <2>2. First(Deadlines(batch)).due \in due /\ First(Deadlines(batch)).due \in Int
    BY <1>7, <1>8, <2>1, FirstIs
  <2>3. ~NotYetDue(batch)
    BY <1>9, <2>1, <2>2 DEF NotYetDue
  <2>4. listed = {BatchIssue(b, batch)}
    <3> HIDE DEF listed, open, batch
    <3> QED
      BY <1>5, <1>6, <1>9, <2>3
  <2>5. BatchIssue(b, batch).about = open
    BY <1>4 DEF BatchIssue
  <2> HIDE DEF listed, open
  <2> QED
    BY <2>4, <2>5
<1>10. ASSUME \A d \in due : d > today PROVE NotYetDue(batch)
  <2>1. CASE Range(Deadlines(batch)) = {}
    BY <2>1 DEF NotYetDue
  <2>2. CASE Range(Deadlines(batch)) # {}
    <3>1. First(Deadlines(batch)).due \in due
      BY <1>8, <2>2, FirstIs
    <3> QED
      BY <1>10, <3>1 DEF NotYetDue
  <2> QED
    BY <2>1, <2>2
<1>11. open = {} \/ (\A d \in due : d > today) => listed = {}
  BY <1>5, <1>10
<1> QED
  BY <1>9, <1>11

\* OverdueBatchesListed for any number of tenants, events and batches: no order of merges,
\* days and runs makes the rows of a fresh tenant miss an overdue batch or show another.
THEOREM OverdueListed == Spec => []OverdueBatchesListed
<1>1. TypeOK /\ FreshCovers /\ FreshRows("BATCH_NOT_SETTLED") => OverdueBatchesListed
  <2> SUFFICES ASSUME TypeOK, FreshCovers, FreshRows("BATCH_NOT_SETTLED"),
                      NEW f \in aux_fresh["BATCH_NOT_SETTLED"],
                      NEW b \in {e.batch : e \in Range(events)} \ {None}
               PROVE  BatchListed(f[1], f[2], b)
    BY DEF OverdueBatchesListed, BatchListed
  <2>1. "BATCH_NOT_SETTLED" \in Tables
    BY DEF Tables, Issues
  <2>2. f[1] \in Tenants /\ Covers(f[2], f[1])
    BY <2>1 DEF TypeOK, FreshCovers
  <2>3. RowsOf("BATCH_NOT_SETTLED", f[1]) = {r \in OverdueBatches(f[2]) : r.tenant = f[1]}
    BY DEF FreshRows, Detected
  <2>4. IsStore(events) /\ today \in Nat
    BY DEF TypeOK
  <2> QED
    BY <2>2, <2>3, <2>4, BatchIsListed
<1> QED
  BY <1>1, ShapeInv, FreshInv, PTL DEF Spec

-----------------------------------------------------------------------------
(* Payments that went through twice *)

\* A finite set has two elements or more if some two of its elements differ.
LEMMA TwoElements ==
    ASSUME NEW S, IsFiniteSet(S)
    PROVE  Cardinality(S) >= 2 <=> \E x, y \in S : x # y
<1>1. ASSUME Cardinality(S) >= 2 PROVE \E x, y \in S : x # y
  <2>1. PICK x : x \in S
    BY <1>1, FS_EmptySet
  <2>2. IsFiniteSet(S \ {x}) /\ Cardinality(S \ {x}) = Cardinality(S) - 1
    BY <2>1, FS_RemoveElement
  <2>3. S \ {x} # {}
    BY <1>1, <2>2, FS_EmptySet, FS_CardinalityType
  <2> QED
    BY <2>1, <2>3
<1>2. ASSUME NEW x \in S, NEW y \in S, x # y PROVE Cardinality(S) >= 2
  <2>1. IsFiniteSet({x}) /\ Cardinality({x}) = 1
    BY FS_Singleton
  <2>2. Cardinality({x} \cup {y}) = 2
    BY <1>2, <2>1, FS_AddElement
  <2>3. {x} \cup {y} \in SUBSET S
    OBVIOUS
  <2>4. Cardinality({x} \cup {y}) <= Cardinality(S)
    BY <2>3, FS_Subset
  <2> QED
    BY <2>2, <2>4, FS_CardinalityType
<1> QED
  BY <1>1, <1>2

\* Some of the events are two or more if some two of them differ.
LEMMA SizeIs ==
    ASSUME NEW rows, ById(rows)
    PROVE  /\ IsFiniteSet(Range(rows))
           /\ Size(rows) >= 2 <=> \E e, f \in Range(rows) : e # f
<1> DEFINE g == [i \in DOMAIN rows |-> rows[i]]
<1>1. g \in Surjection(DOMAIN rows, Range(rows))
  BY DEF Surjection, Range
<1>2. IsFiniteSet(Range(rows))
  BY <1>1, FS_Surjection DEF ById
<1>3. Size(rows) >= 2 <=> \E i, j \in DOMAIN rows : i # j
  BY TwoElements DEF Size, ById
<1>4. (\E i, j \in DOMAIN rows : i # j) <=> \E e, f \in Range(rows) : e # f
  BY DEF Range, ById
<1> QED
  BY <1>2, <1>3, <1>4

\* The settled members of a group.
LEMMA SettledIs ==
    ASSUME NEW g, ById(g.members)
    PROVE  /\ ById(Settled(g))
           /\ \A e : e \in Range(Settled(g)) <=> e \in Range(g.members) /\ e.status = "SETTLED"
<1> DEFINE S == {i \in DOMAIN g.members : g.members[i].status = "SETTLED"}
<1>1. Settled(g) = Restrict(g.members, S)
  BY DEF Settled, RestrictValues
<1>2. S \in SUBSET DOMAIN g.members
  OBVIOUS
<1>3. \A e : (\E i \in S : e = g.members[i]) <=> e \in Range(g.members) /\ e.status = "SETTLED"
  BY DEF Range
<1> HIDE DEF S
<1> QED
  BY <1>1, <1>2, <1>3, ChoiceIs

\* The rows of a tenant that share the key of e.
LEMMA KeyGroupIs ==
    ASSUME NEW rows, ById(rows), NEW e, NEW g, g = KeyGroup(e, rows)
    PROVE  /\ g.tenant = e.tenant /\ ById(g.members)
           /\ \A m : m \in Range(g.members)
                     <=> m \in Range(rows) /\ m.tenant = e.tenant /\ m.idem = e.idem
<1> DEFINE S == {i \in DOMAIN rows : rows[i].tenant = e.tenant /\ rows[i].idem = e.idem}
<1>1. g.members = Restrict(rows, S) /\ g.tenant = e.tenant
  BY DEF KeyGroup, RestrictValues
<1>2. S \in SUBSET DOMAIN rows
  OBVIOUS
<1>3. \A m : (\E i \in S : m = rows[i])
             <=> m \in Range(rows) /\ m.tenant = e.tenant /\ m.idem = e.idem
  BY DEF Range
<1> HIDE DEF S
<1> QED
  BY <1>1, <1>2, <1>3, ChoiceIs

\* by_txn_id: the original of a retry is a row of its tenant with the id the retry names.
LEMMA OriginalIs ==
    ASSUME NEW rows, ById(rows), NEW e, Originals(e, rows) # {}
    PROVE  OriginalOf(e, rows) \in Originals(e, rows)
<1>1. Originals(e, rows) \in SUBSET DOMAIN rows
  BY DEF Originals
<1>2. IsFiniteSet(Originals(e, rows)) /\ Originals(e, rows) \in SUBSET Nat
  BY <1>1, FS_Subset DEF ById
<1> QED
  BY <1>2, MaxIs DEF OriginalOf

\* The original that e names, and the linked retries that name it too.
LEMMA LinkGroupIs ==
    ASSUME NEW rows, ById(rows), NEW e \in Range(rows), Links(e, rows)
    PROVE  LET g == LinkGroup(e, rows)
               o == rows[OriginalOf(e, rows)]
           IN /\ g.tenant = e.tenant /\ ById(g.members)
              /\ o \in Range(rows) /\ o.tenant = e.tenant /\ o.txn = e.original
              /\ \A m : m \in Range(g.members)
                        <=> \/ m = o
                            \/ /\ m \in Range(rows) /\ m.tenant = e.tenant
                               /\ m.original = e.original /\ Links(m, rows)
<1> DEFINE S == Retries(e, rows) \cup {OriginalOf(e, rows)}
           o == rows[OriginalOf(e, rows)]
<1>1. LinkGroup(e, rows).members = Restrict(rows, S) /\ LinkGroup(e, rows).tenant = e.tenant
  BY DEF LinkGroup
<1>2. OriginalOf(e, rows) \in Originals(e, rows)
  BY OriginalIs DEF Links
<1>3. OriginalOf(e, rows) \in DOMAIN rows /\ o.tenant = e.tenant /\ o.txn = e.original
  BY <1>2 DEF Originals
<1>4. S \in SUBSET DOMAIN rows
  BY <1>3 DEF Retries
<1>5. \A m : (\E i \in S : m = rows[i])
             <=> \/ m = o
                 \/ /\ m \in Range(rows) /\ m.tenant = e.tenant
                    /\ m.original = e.original /\ Links(m, rows)
  BY DEF Range, Retries
<1>6. o \in Range(rows)
  BY <1>3 DEF Range
<1> HIDE DEF S
<1> QED
  BY <1>1, <1>3, <1>4, <1>5, <1>6, ChoiceIs

\* What a group holds: rows of one tenant, of which any two hang together.
LEMMA GroupShape ==
    ASSUME NEW rows, ById(rows), NEW g \in Groups(rows)
    PROVE  /\ ById(g.members)
           /\ \A m \in Range(g.members) : m \in Range(rows) /\ m.tenant = g.tenant
           /\ \A m, n \in Range(g.members) : m # n => Related(m, n)
<1>1. PICK e \in Range(rows) : \/ e.idem # None /\ g = KeyGroup(e, rows)
                               \/ Links(e, rows) /\ g = LinkGroup(e, rows)
  BY GroupsAre
<1>2. CASE e.idem # None /\ g = KeyGroup(e, rows)
  <2>1. /\ g.tenant = e.tenant /\ ById(g.members)
        /\ \A m : m \in Range(g.members)
                  <=> m \in Range(rows) /\ m.tenant = e.tenant /\ m.idem = e.idem
    <3> DEFINE k == KeyGroup(e, rows)
    <3>1. /\ k.tenant = e.tenant /\ ById(k.members)
          /\ \A m : m \in Range(k.members)
                    <=> m \in Range(rows) /\ m.tenant = e.tenant /\ m.idem = e.idem
      BY KeyGroupIs
    <3> HIDE DEF k
    <3>2. g = k
      BY <1>2 DEF k
    <3> QED
      BY <3>1, <3>2
  <2>2. \A m, n \in Range(g.members) : ShareKey(m, n)
    BY <1>2, <2>1 DEF ShareKey
  <2> QED
    BY <2>1, <2>2 DEF Related
<1>3. CASE Links(e, rows) /\ g = LinkGroup(e, rows)
  <2> DEFINE o == rows[OriginalOf(e, rows)]
  <2>1. /\ g.tenant = e.tenant /\ ById(g.members)
        /\ o \in Range(rows) /\ o.tenant = e.tenant /\ o.txn = e.original
        /\ \A m : m \in Range(g.members)
                  <=> \/ m = o
                      \/ /\ m \in Range(rows) /\ m.tenant = e.tenant
                         /\ m.original = e.original /\ Links(m, rows)
    BY <1>3, LinkGroupIs
  <2> HIDE DEF o
  <2>2. \A m \in Range(g.members) : m = o \/ (m.retry = TRUE /\ m.original = e.original)
    BY <2>1 DEF Links
  <2>3. \A m, n \in Range(g.members) : m # n => Related(m, n)
    BY <2>1, <2>2 DEF Related, RetryOf
  <2> QED
    BY <2>1, <2>3
<1> QED
  BY <1>1, <1>2, <1>3

\* Two settled payments of one group are listed together.
LEMMA PairIsListed ==
    ASSUME NEW rows, ById(rows), NEW g \in Groups(rows),
           NEW e \in Range(g.members), NEW f \in Range(g.members), e # f,
           e.status = "SETTLED", f.status = "SETTLED"
    PROVE  /\ Size(Settled(g)) >= 2 /\ Duplicate(g).tenant = g.tenant
           /\ {e, f} \subseteq Duplicate(g).about
<1>1. ById(Settled(g)) /\ e \in Range(Settled(g)) /\ f \in Range(Settled(g))
  BY GroupShape, SettledIs
<1>2. Size(Settled(g)) >= 2
  BY <1>1, SizeIs
<1> QED
  BY <1>1, <1>2 DEF Duplicate

\* What one fresh tenant's rows say of the payments that went through twice.
PairsListed(t) ==
    LET rows == RowsOf("DUPLICATE_PAYMENT", t)
        OnlyRow(o) == \A f \in EventsOf(t) : f.txn = o.txn => f = o
        Paid == {e \in EventsOf(t) : e.status = "SETTLED"}
    IN \A e, f \in Paid :
           e # f /\ (ShareKey(e, f) \/ (RetryOf(e, f) /\ OnlyRow(f)))
           => \E r \in rows : {e, f} \subseteq r.about
OnlyPairsListed(t) ==
    LET Paid == {e \in EventsOf(t) : e.status = "SETTLED"}
    IN \A r \in RowsOf("DUPLICATE_PAYMENT", t) :
           /\ r.about \subseteq Paid /\ Cardinality(r.about) > 1
           /\ \A e, f \in r.about : e # f => Related(e, f)

\* Payments that share a key, or a retry and its only original, get into one group.
LEMMA PairsAreListed ==
    ASSUME IsStore(events), NEW t \in Tenants, NEW scope, Covers(scope, t),
           RowsOf("DUPLICATE_PAYMENT", t) = {r \in Duplicates(scope) : r.tenant = t}
    PROVE  PairsListed(t)
<1> DEFINE R == InScope(scope)
<1>1. ById(R) /\ \A e : e \in Range(R) <=> e \in Range(events) /\ Covers(scope, e.tenant)
  BY InScopeIs
<1> HIDE DEF R
<1> SUFFICES ASSUME NEW e \in EventsOf(t), NEW f \in EventsOf(t), e # f,
                    e.status = "SETTLED", f.status = "SETTLED",
                    \/ ShareKey(e, f)
                    \/ RetryOf(e, f) /\ \A x \in EventsOf(t) : x.txn = f.txn => x = f
             PROVE  \E r \in RowsOf("DUPLICATE_PAYMENT", t) : {e, f} \subseteq r.about
  BY DEF PairsListed
<1>2. e \in Range(R) /\ f \in Range(R) /\ e.tenant = t /\ f.tenant = t
  BY <1>1 DEF EventsOf
<1>3. ASSUME NEW g \in Groups(R), g.tenant = t, e \in Range(g.members), f \in Range(g.members)
      PROVE  \E r \in RowsOf("DUPLICATE_PAYMENT", t) : {e, f} \subseteq r.about
  <2>1. /\ Size(Settled(g)) >= 2 /\ Duplicate(g).tenant = t
        /\ {e, f} \subseteq Duplicate(g).about
    BY <1>1, <1>3, PairIsListed
  <2>2. Duplicate(g) \in Duplicates(scope)
    BY <1>3, <2>1, DuplicatesAre DEF R
  <2> QED
    BY <2>1, <2>2
<1>4. CASE ShareKey(e, f)
  <2> DEFINE g == KeyGroup(e, R)
  <2>1. g \in Groups(R)
    BY <1>2, <1>4, GroupsAre DEF ShareKey
  <2>2. /\ g.tenant = e.tenant
        /\ \A m : m \in Range(g.members)
                  <=> m \in Range(R) /\ m.tenant = e.tenant /\ m.idem = e.idem
    BY <1>1, KeyGroupIs
  <2> HIDE DEF g
  <2>3. g.tenant = t /\ e \in Range(g.members) /\ f \in Range(g.members)
    BY <1>2, <1>4, <2>2 DEF ShareKey
  <2> QED
    BY <1>3, <2>1, <2>3
<1>5. CASE /\ ~ShareKey(e, f) /\ RetryOf(e, f)
           /\ \A x \in EventsOf(t) : x.txn = f.txn => x = f
  <2> DEFINE o == OriginalOf(e, R)
             g == LinkGroup(e, R)
  <2>1. Originals(e, R) # {}
    BY <1>2, <1>5 DEF Originals, Range, RetryOf
  <2>2. o \in DOMAIN R /\ R[o].tenant = t /\ R[o].txn = f.txn
    BY <1>1, <1>2, <1>5, <2>1, OriginalIs DEF Originals, RetryOf
  <2>3. R[o] \in EventsOf(t)
    BY <1>1, <2>2 DEF EventsOf, Range
  <2>4. R[o] = f
    BY <1>5, <2>2, <2>3
  <2>5. f.txn # None
    BY DEF EventsOf, Range, IsStore, IsRow
  <2>6. Links(e, R)
    BY <1>5, <2>1, <2>4, <2>5 DEF Links, RetryOf
  <2>7. g \in Groups(R)
    BY <1>2, <2>6, GroupsAre
  <2>8. g.tenant = t /\ e \in Range(g.members) /\ f \in Range(g.members)
    BY <1>1, <1>2, <2>4, <2>6, LinkGroupIs
  <2> QED
    BY <1>3, <2>7, <2>8
<1> QED
  BY <1>4, <1>5

\* A row lists settled payments of its tenant, two or more, that hang together.
LEMMA OnlyPairsAreListed ==
    ASSUME IsStore(events), NEW t \in Tenants, NEW scope,
           RowsOf("DUPLICATE_PAYMENT", t) = {r \in Duplicates(scope) : r.tenant = t}
    PROVE  OnlyPairsListed(t)
<1> SUFFICES ASSUME NEW r \in Duplicates(scope), r.tenant = t
             PROVE  /\ r.about \subseteq {e \in EventsOf(t) : e.status = "SETTLED"}
                    /\ Cardinality(r.about) > 1
                    /\ \A e, f \in r.about : e # f => Related(e, f)
  BY DEF OnlyPairsListed
<1>1. /\ ById(InScope(scope))
      /\ \A e : e \in Range(InScope(scope)) => e \in Range(events)
  BY InScopeIs
<1>2. PICK g \in Groups(InScope(scope)) : Size(Settled(g)) >= 2 /\ r = Duplicate(g)
  BY DuplicatesAre
<1>3. /\ ById(g.members)
      /\ \A m \in Range(g.members) : m \in Range(InScope(scope)) /\ m.tenant = g.tenant
      /\ \A m, n \in Range(g.members) : m # n => Related(m, n)
  BY <1>1, GroupShape
<1>4. /\ ById(Settled(g))
      /\ \A e : e \in Range(Settled(g)) <=> e \in Range(g.members) /\ e.status = "SETTLED"
  BY <1>3, SettledIs
<1>5. r.about = Range(Settled(g)) /\ g.tenant = t
  BY <1>2 DEF Duplicate
<1>6. IsFiniteSet(r.about) /\ \E e, f \in r.about : e # f
  BY <1>2, <1>4, <1>5, SizeIs
<1>7. Cardinality(r.about) > 1
  BY <1>6, TwoElements, FS_CardinalityType
<1>8. r.about \subseteq {e \in EventsOf(t) : e.status = "SETTLED"}
  BY <1>1, <1>3, <1>4, <1>5 DEF EventsOf
<1> QED
  BY <1>3, <1>4, <1>5, <1>7, <1>8

\* PaidTwiceIsListed for any number of tenants and events: no order of merges and runs makes
\* the rows of a fresh tenant miss a payment that went through twice or show another.
THEOREM DuplicatesListed == Spec => []PaidTwiceIsListed
<1>1. TypeOK /\ FreshCovers /\ FreshRows("DUPLICATE_PAYMENT") => PaidTwiceIsListed
  <2> SUFFICES ASSUME TypeOK, FreshCovers, FreshRows("DUPLICATE_PAYMENT"),
                      NEW f \in aux_fresh["DUPLICATE_PAYMENT"]
               PROVE  PairsListed(f[1]) /\ OnlyPairsListed(f[1])
    <3>1. PaidTwiceIsListed <=> \A t \in Fresh("DUPLICATE_PAYMENT") :
                                    PairsListed(t) /\ OnlyPairsListed(t)
      BY DEF PaidTwiceIsListed, PairsListed, OnlyPairsListed
    <3>2. \A t \in Fresh("DUPLICATE_PAYMENT") : \E f \in aux_fresh["DUPLICATE_PAYMENT"] : t = f[1]
      BY DEF Fresh
    <3> QED
      BY <3>1, <3>2
  <2>1. "DUPLICATE_PAYMENT" \in Tables
    BY DEF Tables, Issues
  <2>2. f[1] \in Tenants /\ Covers(f[2], f[1]) /\ IsStore(events)
    BY <2>1 DEF TypeOK, FreshCovers
  <2>3. RowsOf("DUPLICATE_PAYMENT", f[1]) = {r \in Duplicates(f[2]) : r.tenant = f[1]}
    BY DEF FreshRows, Detected
  <2> QED
    BY <2>2, <2>3, PairsAreListed, OnlyPairsAreListed
<1> QED
  BY <1>1, ShapeInv, FreshInv, PTL DEF Spec

-----------------------------------------------------------------------------
(* Spikes *)

LimitOf(table) == IF table = "NETWORK_TIMEOUT_SPIKE" THEN 2 ELSE 3
Spiked(table, p, w) == w \in 1..Len(weekly[p]) /\ Drifted(p, w, RatioOf(table), LimitOf(table))

\* Each row is about a party of its tenant; the weeks listed for a party of a fresh tenant
\* are those that drifted.
OwnRows(table) == \A r \in found[table] : r.ref \in Parties /\ r.tenant = PartyTenant[r.ref]
SpikeRows(table) ==
    /\ OwnRows(table)
    /\ \A f \in aux_fresh[table], p \in Parties :
          PartyTenant[p] = f[1] => \A w : Listed(table, p, w) <=> Spiked(table, p, w)

\* detect_timeout_spikes, score_format_rejection_drift: what a run finds.
LEMMA SpikesAre ==
    ASSUME NEW table \in Spikes, NEW scope
    PROVE  \A r : r \in Detected(table, scope) <=>
               \E p \in Parties : \E w \in 1..Len(weekly[p]) :
                   /\ Covers(scope, PartyTenant[p])
                   /\ Drifted(p, w, RatioOf(table), LimitOf(table))
                   /\ r = [tenant |-> PartyTenant[p], ref |-> p, week |-> w]
<1>1. Detected(table, scope) = SpikeWeeks(scope, RatioOf(table), LimitOf(table))
  <2>1. CASE table = "NETWORK_TIMEOUT_SPIKE"
    BY <2>1 DEF Detected, TimeoutSpikes, RatioOf, LimitOf
  <2>2. CASE table = "FORMAT_REJECTION_SPIKE"
    BY <2>2 DEF Detected, RejectSpikes, RatioOf, LimitOf
  <2> QED
    BY <2>1, <2>2 DEF Spikes
<1> QED
  BY <1>1 DEF SpikeWeeks

\* A party whose weeks stay has spikes in the weeks in which it had them.
LEMMA SpikedStays ==
    ASSUME NEW table, NEW p, weekly'[p] = weekly[p]
    PROVE  \A w : Spiked(table, p, w)' <=> Spiked(table, p, w)
  BY DEF Spiked, Drifted, Baseline

\* A step without a run and without another week for a party of a fresh tenant.
LEMMA SpikesStay ==
    ASSUME NEW table, SpikeRows(table), found' = found,
           NEW S \in SUBSET aux_fresh[table], aux_fresh'[table] = S,
           \A f \in S, p \in Parties : PartyTenant[p] = f[1] => weekly'[p] = weekly[p]
    PROVE  SpikeRows(table)'
<1>1. OwnRows(table)' /\ \A p, w : Listed(table, p, w)' <=> Listed(table, p, w)
  BY DEF SpikeRows, OwnRows, Listed
<1>2. ASSUME NEW f \in S, NEW p \in Parties, PartyTenant[p] = f[1], NEW w
      PROVE  Listed(table, p, w)' <=> Spiked(table, p, w)'
  <2>1. Spiked(table, p, w)' <=> Spiked(table, p, w)
    BY <1>2, SpikedStays
  <2>2. Listed(table, p, w) <=> Spiked(table, p, w)
    BY <1>2 DEF SpikeRows
  <2> QED
    BY <1>1, <2>1, <2>2
<1> QED
  BY <1>1, <1>2 DEF SpikeRows

\* A run lists anew the weeks of the parties it covers and leaves the others alone.
LEMMA SpikesDetect ==
    ASSUME TypeOK, NEW table \in Spikes, SpikeRows(table),
           NEW tb \in Tables, NEW scope \in Scopes, Detect(tb, scope)
    PROVE  SpikeRows(table)'
<1>0. table \in Tables /\ weekly' = weekly
  BY DEF Spikes, Tables, Issues, Detect
<1>1. \A p, w : Spiked(table, p, w)' <=> Spiked(table, p, w)
  BY <1>0, SpikedStays
<1>2. CASE tb # table
  <2>1. found'[table] = found[table] /\ aux_fresh'[table] = aux_fresh[table]
    BY <1>0, <1>2 DEF Detect, TypeOK
  <2> QED
    BY <1>1, <2>1 DEF SpikeRows, OwnRows, Listed
<1>3. CASE tb = table
  <2>1. /\ found'[table] = Kept(table, scope) \cup Detected(table, scope)
        /\ aux_fresh'[table] = {f \in aux_fresh[table] : ~Covers(scope, f[1])}
                               \cup (Covered(scope) \X {scope})
    BY <1>0, <1>3 DEF Detect, TypeOK
  <2>2. \A r \in Detected(table, scope) :
            r.ref \in Parties /\ r.tenant = PartyTenant[r.ref] /\ Covers(scope, r.tenant)
    BY SpikesAre
  <2>3. OwnRows(table)'
    BY <2>1, <2>2 DEF Kept, SpikeRows, OwnRows
  <2>4. ASSUME NEW p \in Parties, ~Covers(scope, PartyTenant[p]), NEW w
        PROVE  Listed(table, p, w)' <=> Listed(table, p, w)
    BY <2>1, <2>2, <2>4 DEF Kept, Listed, SpikeRows, OwnRows
  <2>5. ASSUME NEW p \in Parties, Covers(scope, PartyTenant[p]), NEW w
        PROVE  Listed(table, p, w)' <=> Spiked(table, p, w)
    <3>1. Listed(table, p, w)' <=> \E r \in Detected(table, scope) : r.ref = p /\ r.week = w
      BY <2>1, <2>5 DEF Kept, Listed, SpikeRows, OwnRows
    <3>2. Spiked(table, p, w) <=> \E r \in Detected(table, scope) : r.ref = p /\ r.week = w
      <4>1. ASSUME Spiked(table, p, w)
            PROVE  \E r \in Detected(table, scope) : r.ref = p /\ r.week = w
        <5> DEFINE r == [tenant |-> PartyTenant[p], ref |-> p, week |-> w]
        <5>1. r \in Detected(table, scope)
          BY <2>5, <4>1, SpikesAre DEF Spiked
        <5> QED
          BY <5>1
      <4>2. ASSUME NEW r \in Detected(table, scope), r.ref = p, r.week = w
            PROVE  Spiked(table, p, w)
        BY <4>2, SpikesAre DEF Spiked
      <4> QED
        BY <4>1, <4>2
    <3> QED
      BY <3>1, <3>2
  <2>6. \A f \in aux_fresh'[table] : Covers(scope, f[1]) \/ f \in aux_fresh[table]
    BY <2>1 DEF Covered
  <2>7. ASSUME NEW f \in aux_fresh'[table], NEW p \in Parties, PartyTenant[p] = f[1], NEW w
        PROVE  Listed(table, p, w)' <=> Spiked(table, p, w)'
    <3>1. CASE Covers(scope, f[1])
      BY <1>1, <2>5, <2>7, <3>1
    <3>2. CASE ~Covers(scope, f[1])
      <4>1. Listed(table, p, w) <=> Spiked(table, p, w)
        BY <2>6, <2>7, <3>2 DEF SpikeRows
      <4> QED
        BY <1>1, <2>4, <2>7, <3>2, <4>1
    <3> QED
      BY <3>1, <3>2
  <2> QED
    BY <2>3, <2>7 DEF SpikeRows
<1> QED
  BY <1>2, <1>3

\* SpikeRows for both tables.
LEMMA SpikesInv ==
    Spec => [](SpikeRows("NETWORK_TIMEOUT_SPIKE") /\ SpikeRows("FORMAT_REJECTION_SPIKE"))
<1>1. Init => SpikeRows("NETWORK_TIMEOUT_SPIKE") /\ SpikeRows("FORMAT_REJECTION_SPIKE")
  BY DEF Init, SpikeRows, OwnRows, Tables, Issues
<1>2. ASSUME TypeOK, FreshCovers, [Next]_vars,
             NEW table \in Spikes, SpikeRows(table)
      PROVE  SpikeRows(table)'
  <2>0. table \in Tables
    BY DEF Spikes, Tables, Issues
  <2>1. ASSUME NEW a \in Arrivals, Arrive(a) PROVE SpikeRows(table)'
    <3>1. aux_fresh'[table] = aux_fresh[table] /\ found' = found /\ weekly' = weekly
      BY <2>0, <2>1 DEF Arrive, Stale
    <3> QED
      BY <1>2, <3>1, SpikesStay
  <2>2. ASSUME NEW p \in Parties, NEW week \in Weeks, Week(p, week) PROVE SpikeRows(table)'
    <3> DEFINE S == {f \in aux_fresh[table] : ~Covers(f[2], PartyTenant[p])}
    <3>1. aux_fresh'[table] = S /\ found' = found
      BY <2>0, <2>2 DEF Week, Stale
    <3>2. \A f \in S, q \in Parties : PartyTenant[q] = f[1] => q # p
      BY <2>0, <1>2 DEF FreshCovers
    <3>3. \A q \in Parties : q # p => weekly'[q] = weekly[q]
      BY <1>2, <2>2 DEF Week, TypeOK
    <3>4. S \in SUBSET aux_fresh[table]
      OBVIOUS
    <3> HIDE DEF S
    <3> QED
      BY <1>2, <3>1, <3>2, <3>3, <3>4, SpikesStay
  <2>3. CASE Day
    <3>1. aux_fresh'[table] = aux_fresh[table] /\ found' = found /\ weekly' = weekly
      BY <1>2, <2>0, <2>3 DEF Day, TypeOK, Spikes
    <3> QED
      BY <1>2, <3>1, SpikesStay
  <2>4. ASSUME NEW tb \in Tables, NEW scope \in Scopes, Detect(tb, scope) PROVE SpikeRows(table)'
    BY <1>2, <2>4, SpikesDetect
  <2>5. CASE UNCHANGED vars
    <3>1. aux_fresh'[table] = aux_fresh[table] /\ found' = found /\ weekly' = weekly
      BY <2>5 DEF vars
    <3> QED
      BY <1>2, <3>1, SpikesStay
  <2> QED
    BY <1>2, <2>1, <2>2, <2>3, <2>4, <2>5 DEF Next
<1>3. TypeOK /\ FreshCovers /\ [Next]_vars
      /\ SpikeRows("NETWORK_TIMEOUT_SPIKE") /\ SpikeRows("FORMAT_REJECTION_SPIKE")
      => (SpikeRows("NETWORK_TIMEOUT_SPIKE") /\ SpikeRows("FORMAT_REJECTION_SPIKE"))'
  <2>1. "NETWORK_TIMEOUT_SPIKE" \in Spikes /\ "FORMAT_REJECTION_SPIKE" \in Spikes
    BY DEF Spikes
  <2> QED
    BY <1>2, <2>1
<1> QED
  BY <1>1, <1>3, ShapeInv, PTL DEF Spec

\* The weeks before w that were measured are a sample of whole numbers.
LEMMA PastIs ==
    ASSUME TypeOK, NEW table \in Spikes, NEW p \in Parties, NEW w \in 1..Len(weekly[p])
    PROVE  LET ratio == RatioOf(table)
               now   == weekly[p][w][ratio]
               prior == {i \in 1..(w - 1) : weekly[p][i][ratio] # None}
               past  == Known(Baseline(p, w, ratio), None)
           IN /\ DOMAIN past = prior /\ \A i \in prior : past[i] = weekly[p][i][ratio]
              /\ Sample(past) /\ Size(past) = Cardinality(prior)
              /\ now # None => now \in Int
<1> DEFINE ratio == RatioOf(table)
           prior == {i \in 1..(w - 1) : weekly[p][i][ratio] # None}
           past  == Known(Baseline(p, w, ratio), None)
<1>1. weekly[p] \in Seq(Weeks) /\ Len(weekly[p]) \in Nat /\ DOMAIN weekly[p] = 1..Len(weekly[p])
  BY DEF TypeOK
<1>2. ratio \in {"timeout", "reject"}
  BY DEF RatioOf
<1>3. \A i \in 1..w : weekly[p][i][ratio] # None => weekly[p][i][ratio] \in Int
  <2> SUFFICES ASSUME NEW i \in 1..w
               PROVE  weekly[p][i][ratio] # None => weekly[p][i][ratio] \in Int
    OBVIOUS
  <2>1. i \in 1..Len(weekly[p])
    BY <1>1
  <2>2. weekly[p][i] \in [timeout : Ratios, reject : Ratios]
    BY <1>1, <2>1, PartyAssumption
  <2>3. weekly[p][i][ratio] \in Ratios
    BY <1>2, <2>2
  <2> QED
    BY <2>3, PartyAssumption
<1>4. DOMAIN past = prior /\ \A i \in prior : past[i] = weekly[p][i][ratio]
  BY DEF Known, Restrict, Baseline
<1>5. IsFiniteSet(prior)
  <2>1. IsFiniteSet(1..(w - 1)) /\ prior \subseteq 1..(w - 1)
    <3>1. w \in Int /\ 1 \in Int /\ w - 1 \in Int
      BY <1>1
    <3> QED
      BY <3>1, FS_Interval
  <2> HIDE DEF prior
  <2> QED
    BY <2>1, FS_Subset
<1>6. Sample(past)
  <2>1. \A i \in prior : weekly[p][i][ratio] \in Int
    BY <1>1, <1>3
  <2> HIDE DEF past, prior
  <2> QED
    BY <1>4, <1>5, <2>1 DEF Sample, Whole
<1>7. Size(past) = Cardinality(prior)
  BY <1>4 DEF Size
<1>8. w \in 1..w
  BY <1>1
<1> QED
  BY <1>3, <1>4, <1>6, <1>7, <1>8

\* SpikesJudgedByPast for any weeks, parties and runs: a week is a spike by the party's own
\* past alone, and with at most five weeks behind it only outside of what they were.
THEOREM SpikesAreOwn == Spec => []SpikesJudgedByPast
<1>1. ASSUME TypeOK, SpikeRows("NETWORK_TIMEOUT_SPIKE"), SpikeRows("FORMAT_REJECTION_SPIKE")
      PROVE  SpikesJudgedByPast
  <2> SUFFICES ASSUME NEW table \in Spikes, NEW p \in Parties, PartyTenant[p] \in Fresh(table),
                      NEW w \in 1..Len(weekly[p])
               PROVE  LET ratio == RatioOf(table)
                          now   == weekly[p][w][ratio]
                          prior == Measured(p, w, ratio)
                          Seen  == {weekly[p][i][ratio] : i \in prior}
                      IN /\ Listed(table, p, w) => now # None /\ Cardinality(prior) >= 2
                         /\ Cardinality(prior) >= 2 /\ Cardinality(Seen) = 1 /\ now # None =>
                                /\ (\A v \in Seen : v < now) => Listed(table, p, w)
                                /\ now \in Seen => ~Listed(table, p, w)
                         /\ Listed(table, p, w) /\ Cardinality(prior) <= 5 =>
                                (\A v \in Seen : v < now) \/ (\A v \in Seen : v > now)
    BY DEF SpikesJudgedByPast
  <2> DEFINE ratio == RatioOf(table)
             limit == LimitOf(table)
             now   == weekly[p][w][ratio]
             prior == Measured(p, w, ratio)
             Seen  == {weekly[p][i][ratio] : i \in prior}
             past  == Known(Baseline(p, w, ratio), None)
  <2>1. Listed(table, p, w) <=> Drifted(p, w, ratio, limit)
    BY <1>1 DEF SpikeRows, Spiked, Spikes, Fresh
  <2>2. Drifted(p, w, ratio, limit) <=> now # None /\ Judged(past) /\ AtLeast(limit, now, past)
    BY DEF Drifted
  <2>3. /\ DOMAIN past = prior /\ \A i \in prior : past[i] = weekly[p][i][ratio]
        /\ Sample(past) /\ Size(past) = Cardinality(prior)
        /\ now # None => now \in Int
    BY <1>1, PastIs DEF Measured
  <2>4. Seen = {past[i] : i \in prior}
    BY <2>3
  <2>5. limit \in {2, 3}
    BY DEF LimitOf
  <2> HIDE DEF ratio, limit, now, prior, Seen, past
  <2>6. Judged(past) <=> Cardinality(prior) >= 2
    BY <2>3 DEF Judged, MinPrior
  <2>7. ASSUME Cardinality(prior) >= 2, Cardinality(Seen) = 1, now # None
        PROVE  /\ (\A v \in Seen : v < now) => Listed(table, p, w)
               /\ now \in Seen => ~Listed(table, p, w)
    <3>1. PICK i \in prior : TRUE
      <4>1. prior # {}
        <5> SUFFICES ASSUME prior = {} PROVE FALSE
          OBVIOUS
        <5>1. IsFiniteSet(prior) /\ Cardinality(prior) = 0
          BY FS_EmptySet
        <5> QED
          BY <2>7, <5>1
      <4> QED
        BY <4>1
    <3>2. Seen = {past[i]}
      <4>1. IsFiniteSet(prior) /\ IsFiniteSet(Seen)
        <5>1. IsFiniteSet({past[k] : k \in DOMAIN past})
          BY <2>3, FiniteImage DEF Sample
        <5> QED
          BY <2>3, <2>4, <5>1 DEF Sample
      <4>2. \A u, v \in Seen : u = v
        <5> SUFFICES ASSUME NEW u \in Seen, NEW v \in Seen, u # v PROVE FALSE
          OBVIOUS
        <5>1. {u} \in SUBSET Seen /\ {u} # Seen /\ Cardinality({u}) = 1
          BY FS_Singleton
        <5> QED
          BY <2>7, <4>1, <5>1, FS_Subset
      <4> QED
        BY <2>4, <3>1, <4>2
    <3>3. \A k \in DOMAIN past : past[k] = past[i]
      BY <2>3, <2>4, <3>2
    <3>4. AtLeast(limit, now, past) <=> now # past[i]
      BY <2>3, <2>7, <3>1, <3>3, ConstantFar
    <3>5. Listed(table, p, w) <=> now \notin Seen
      BY <2>1, <2>2, <2>6, <2>7, <3>2, <3>4
    <3>6. past[i] < now => now # past[i]
      BY <2>3, <2>7, <3>1 DEF Sample, Whole
    <3> QED
      BY <3>2, <3>5, <3>6
  <2>8. ASSUME Listed(table, p, w), Cardinality(prior) <= 5
        PROVE  (\A v \in Seen : v < now) \/ (\A v \in Seen : v > now)
    <3> SUFFICES ASSUME NEW u \in Seen, NEW v \in Seen, ~(u < now), ~(v > now) PROVE FALSE
      OBVIOUS
    <3>1. PICK i \in prior, j \in prior : u = past[i] /\ v = past[j]
      BY <2>4
    <3>2. now \in Int /\ AtLeast(limit, now, past)
      BY <2>1, <2>2, <2>3, <2>8
    <3>3. u \in Int /\ v \in Int
      BY <2>3, <3>1 DEF Sample, Whole
    <3>4. v <= now /\ now <= u
      BY <3>2, <3>3
    <3> QED
      BY <2>3, <2>5, <2>8, <3>1, <3>2, <3>4, WithinNotFar
  <2> QED
    BY <2>1, <2>2, <2>6, <2>7, <2>8 DEF ratio, now, prior, Seen
<1> QED
  BY <1>1, TypeCorrect, SpikesInv, PTL DEF Spec
================================================================================
