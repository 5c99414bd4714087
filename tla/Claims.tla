-------------------------------- MODULE Claims --------------------------------
(***************************************************************************)
(* The tables the read-only views look at, and how a view places a claim   *)
(* in time: canonical_event_lookup, claim_dates and date_filter.  What     *)
(* writes those tables is in Ingestion, Operations, Tracks and             *)
(* Investigation; here a table holds whatever of its rows the events       *)
(* support, and the events may be merged again after it was computed.      *)
(*                                                                         *)
(* Every query of a view filters on one tenant, and its handler never      *)
(* awaits: one tenant, and a view is a function of the state.              *)
(***************************************************************************)
EXTENDS Integers, Sequences, FiniteSets, SequencesExt, FiniteSetsExt

CONSTANTS
    Histories,        \* what may have been ingested: sequences of canonical events
    Merges,           \* rows that may be merged into them later
    IssueRows,        \* rows operational_issues may hold
    BreakRows,        \* rows reconciliation_breaks may hold
    SnapshotRows,     \* rows of anomaly_entity_snapshots, scored
    BeneficiaryRows,  \* rows of anomaly_beneficiary_snapshots
    Windows,          \* date ranges: from and to, each a day or None
    None,             \* NULL, or no row
    Early, Late,      \* a transaction_occurred_at that fromisoformat cannot read: as text
                      \* before every day, or after
    Now,              \* the day on which the detectors run
    MaxChanges        \* bound of the model: merges, rebuilds and reviews in all

TransactionIssues == {"DUPLICATE_PAYMENT", "FORMAT_REJECTION"}
BatchIssues       == {"BATCH_NOT_SETTLED"}
PartyIssues       == {"NETWORK_TIMEOUT_SPIKE", "FORMAT_REJECTION_SPIKE"}
BreakTypes        == {"CONFIRMED_BREAK", "PROVISIONAL_VARIANCE"}

Everything == [from |-> None, to |-> None]
Amounts == Nat \cup {None}
Dates   == Int \cup {None}
Garbled == {Early, Late}
Rows    == Merges \cup UNION {ToSet(h) : h \in Histories}

\* The columns of canonical_events the views read.  Amounts are not negative: of a break's
\* signed variance, as of most amounts, the views take abs.
EventRows ==
    [rail: {e.rail : e \in Rows}, txn: {e.txn : e \in Rows}, batch: {e.batch : e \in Rows},
     amount: Amounts, at: Dates \cup Garbled, settled: BOOLEAN, recon: BOOLEAN,
     party: {e.party : e \in Rows}]

ASSUME NoneAssumption == ({None} \cup Garbled) \cap Int = {} /\ Early # Late /\ None \notin EventRows \cup Garbled
ASSUME WindowAssumption == Everything \in Windows /\ Windows \subseteq [from: Dates, to: Dates]
ASSUME EventAssumption ==      \* rail_type is not nullable, and with the txn it is the key
    /\ Merges \subseteq EventRows /\ \A row \in Rows : row.rail # None
    /\ \A h \in Histories :
          /\ h \in Seq(EventRows)
          /\ \A i, j \in DOMAIN h : h[i].rail = h[j].rail /\ h[i].txn = h[j].txn => i = j
ASSUME RowAssumption ==
    \A S \in {IssueRows, BreakRows, SnapshotRows, BeneficiaryRows} :
        /\ IsFiniteSet(S) /\ \A r \in S : r.id \in Nat
        /\ \A r, q \in S : r.id = q.id => r = q
ASSUME ClaimAssumption ==      \* window_end is set by the two spike detectors only
    /\ \A i \in IssueRows : /\ i.type \in TransactionIssues \cup BatchIssues \cup PartyIssues
                            /\ i.end \in Dates /\ (i.type \in PartyIssues \/ i.end = None)
                            /\ {i.score, i.overdue} \subseteq Int \cup {None}
    /\ \A b \in BreakRows : b.type \in BreakTypes /\ {b.variance, b.amount} \subseteq Amounts
    /\ \A s \in SnapshotRows : /\ s.end \in Dates /\ s.total \in Amounts
                               /\ IsFiniteSet(s.rails) /\ None \notin s.rails
    /\ \A b \in BeneficiaryRows : b.end \in Dates
ASSUME BoundAssumption == Now \in Nat /\ MaxChanges \in Nat

VARIABLES
    events,         \* canonical_events in the order of their ids
    issues,         \* operational_issues
    breaks,         \* reconciliation_breaks
    snapshots,      \* anomaly_entity_snapshots
    beneficiaries,  \* anomaly_beneficiary_snapshots
    reviews,        \* analyst_reviews: for some of Domains \X ids the status
    changes         \* merges, rebuilds and reviews so far

tables == <<events, issues, breaks, snapshots, beneficiaries, reviews>>

-----------------------------------------------------------------------------
(* CanonicalEventLookup *)

\* Its lists are in the order of the ids: the set of places in events.
First(places)  == IF places = {} THEN None ELSE events[Min(places)]
EventsAt(places) == {events[k] : k \in places}

AllByTxn(txn)     == {k \in DOMAIN events : txn # None /\ events[k].txn = txn}
AllByBatch(batch) == {k \in DOMAIN events : batch # None /\ events[k].batch = batch}
ByRailTxn(rail, txn) == First({k \in DOMAIN events : events[k].rail = rail /\ events[k].txn = txn})

\* The places of the events that a row of operational_issues refers to.
EventsOf(issue) == CASE issue.type \in TransactionIssues -> AllByTxn(issue.ref)
                     [] issue.type \in BatchIssues       -> AllByBatch(issue.ref)
                     [] issue.type \in PartyIssues       -> {}
EventOf(brk) == ByRailTxn(brk.rail, brk.txn)

-----------------------------------------------------------------------------
(* claim_dates *)

ParseOccurred(e) == IF e = None THEN None ELSE IF e.at \in Garbled THEN None ELSE e.at

OperationalIssueDate(issue) ==
    IF issue.end # None THEN issue.end ELSE ParseOccurred(First(EventsOf(issue)))
ReconciliationBreakDate(brk) == ParseOccurred(EventOf(brk))

-----------------------------------------------------------------------------
(* date_filter.  A day is its extended ISO text, "lexicographic string      *)
(* comparison matches chronological order".  The end of a range counts in   *)
(* full: below the next day.                                                *)

NextDay(day) == day + 1

Unbounded(w) == w.from = None /\ w.to = None

\* A filter on the text column: occurred_at_bounds.
TextInRange(at, w) ==
    \/ Unbounded(w)
    \/ /\ at # None
       /\ w.from = None \/ at = Late \/ (at # Early /\ at >= w.from)
       /\ w.to = None \/ at = Early \/ (at # Late /\ at < NextDay(w.to))

\* A filter on a DateTime column: datetime_bounds.
EndInRange(end, w) ==
    \/ Unbounded(w)
    \/ /\ end # None
       /\ w.from = None \/ end >= w.from
       /\ w.to = None \/ end < NextDay(w.to)

DateInRangeBefore(date, w) ==
    \/ Unbounded(w)
    \/ date # None /\ (w.from = None \/ date >= w.from) /\ (w.to = None \/ date < w.to)
\* The check in Python of a claim already joined: date_in_range.
DateInRange(date, w) ==
    \/ Unbounded(w)
    \/ date # None /\ (w.from = None \/ date >= w.from) /\ (w.to = None \/ date <= w.to)

EventsIn(w) == {e \in ToSet(events) : TextInRange(e.at, w)}

-----------------------------------------------------------------------------
(* What changes the tables *)

Domains  == {"operational_issue", "reconciliation_break", "fraud_anomaly", "funnel_account"}
Material == {"High", "Critical"}                    \* _MATERIAL_ANOMALY_BANDS
Funnel   == 50                                      \* FUNNEL_ACCOUNT_THRESHOLD

MaterialSnapshots == {s \in snapshots : s.band \in Material}
FunnelAccounts    == {b \in beneficiaries : b.drift # None /\ b.drift >= Funnel}

\* The rows the detectors can have found in what is ingested.
FoundIssues == {i \in IssueRows : i.type \in PartyIssues \/ EventsOf(i) # {}}
FoundBreaks == {b \in BreakRows : EventOf(b) # None}

NoReviews == [k \in {} |-> None]
TablesInit ==
    /\ events \in Histories
    /\ \E types \in SUBSET {i.type : i \in FoundIssues} :     \* the detectors that have run
          issues = {i \in FoundIssues : i.type \in types}
    /\ breaks \in {{}, FoundBreaks}
    /\ snapshots = SnapshotRows
    /\ beneficiaries = BeneficiaryRows
    /\ reviews = NoReviews
    /\ changes = 0

Change == changes < MaxChanges /\ changes' = changes + 1

\* upsert_canonical_event of a row that brings another date or amount.
Merge(row) ==
    /\ Change
    /\ \E i \in DOMAIN events :
          /\ events[i].rail = row.rail /\ events[i].txn = row.txn
          /\ events' = [events EXCEPT ![i] =
                [c \in DOMAIN row |-> IF row[c] # None THEN row[c] ELSE events[i][c]]]
    /\ UNCHANGED <<issues, breaks, snapshots, beneficiaries, reviews>>

\* The detectors again, on the events as they are now, with all they can find.
Detect ==
    /\ Change
    /\ issues' = FoundIssues
    /\ breaks' = FoundBreaks
    /\ UNCHANGED <<events, snapshots, beneficiaries, reviews>>

\* set_review: PENDING again is a row as well.
SetReview(domain, id, status) ==
    /\ Change
    /\ reviews' = [k \in DOMAIN reviews \cup {<<domain, id>>} |->
                      IF k = <<domain, id>> THEN status ELSE reviews[k]]
    /\ UNCHANGED <<events, issues, breaks, snapshots, beneficiaries>>

Decided(domain, id) ==
    <<domain, id>> \in DOMAIN reviews /\ reviews[<<domain, id>>] \in {"CONFIRMED", "DISMISSED"}
=============================================================================
