# A verification project for Payment_Anamoly

The program is a payments back office for several tenant banks: it ingests settlement files,
resolves the parties in them, detects operational issues, reconciliation breaks and anomalies,
groups the detections into investigation cases, lets analysts review them, has a language model
narrate them and shows all of it on dashboards.  It is one FastAPI process over one SQLite file.
The TLA+ modules here model the parts of it that keep state and the views computed from that state,
TLC checks them on small instances, and TLAPS proves what holds for every instance.

    tlc -workers 2 -config MCIngestion.cfg MCIngestion
    tlapm IngestionProofs.tla

## 1. Inventory

### Components

| component | source | state it keeps | operations | correct when |
|---|---|---|---|---|
| ingestion and canonical store | `app/ingestion.py`, `app/canonical_store.py` | `canonical_events`, `ingestion_log` | `process_file`, `upsert_canonical_event` | the log tells the truth, a merge loses nothing, the write lock is given back |
| entity resolution | `app/resolution.py` | links on events, `merchants`, `individuals` | `resolve_parties` | one party per event, of its own tenant; profiles only grow; nothing is passed over |
| party features, entity and beneficiary snapshots | `app/feature_store.py`, `app/anomaly/features.py`, `beneficiary_features.py` | `party_features`, `anomaly_entity_snapshots`, `anomaly_beneficiary_snapshots` | `compute_features`, `compute_snapshots`, `compute_beneficiary_snapshots` | rows share out the events their parties have now; a held-out week is later than a trained one |
| scoring tracks | `app/anomaly/isolation_forest.py`, `clustering.py`, `timeseries.py` | columns of the snapshots | `train_and_score`, `cluster_and_score`, `score_drift`, `score_funnel_drift`, `compute_final_score` | bands come for all rows or none, and need history |
| operational issues and breaks | `app/operations/*.py`, `app/reconciliation/breaks.py` | `operational_issues`, `reconciliation_breaks` | six detectors | what the events ask for is listed; each run replaces exactly its own rows |
| investigation cases | `app/investigation/cases.py` | `investigation_cases`, `investigation_case_alerts` | `compute_cases` | cases split the claims along 48 hour chains |
| analyst review | `app/review/service.py`, `app/routers/analyst.py` | `analyst_reviews`, a case's `validation_status` | `set_review`, `validate_investigation_case`, summaries | a verdict stays with the claim it was given for; what is validated is not pending |
| narration | `app/agent/narration.py` | `agent_narratives` | `narrate_endpoint` | a narrative describes the row it is shown with; every request ends |
| dates and windows | `app/claim_dates.py`, `app/date_filter.py`, `app/canonical_event_lookup.py` | none | the date of a claim, three range checks | all views agree which claims a range holds |
| exposure | `app/exposure.py` | none | amounts by domain, rail, week, review | every split has the same total |
| dashboards, priority, patterns, impact | `app/dashboard.py`, `app/priority.py`, `app/anomaly/categories.py`, `app/incident_impact.py` | none | counts and rates | a rate is a rate; a part is part of its whole |
| payment health | `app/health/scoring.py` | `payment_health_scores` and its history | `compute_health` | a score of 0 to 100 that ends its history |
| case views | `app/investigation/{trend,patterns,sla}.py` | none | trend, patterns, countdown | they agree with the cases they are about |
| transforms, keys, database, scripts | `app/transforms.py`, `app/config.py`, `app/database.py`, `scripts/` | none | conversions, start-up, seeds | section 6 |

### How they interact

Everything goes through the database.  Ingestion writes events; resolution writes links on events
and the party tables; the detectors delete and rebuild their own tables from the events;
the tracks write columns on the snapshots; `compute_cases` reads the detectors' tables and rebuilds
the cases; reviews and narratives are keyed by the row ids of all these derived tables; the views
join all of it.  No component calls another, except that `validate_investigation_case` calls
`set_review`, and that `compute_cases` deletes narratives.  Nothing orders the endpoints: an operator
(or the front end) calls them in whatever order and for whatever scope, one tenant or all.

### What is hard

* **One event loop.**  Handlers are `async` functions over a synchronous session, so a handler
  runs alone until it awaits.  Only two do: the upload is read before ingestion starts, and
  narration awaits the API and sleeps between attempts, with a cached read on one side and a write
  on the other.
* **Two processes.**  `scripts/ingest_*.py` call `process_file` on the same file as the server.
  SQLite (WAL) gives one writer at a time; pysqlite opens a transaction at the first write and not
  at the SELECT before it, so what was read can be outdated when it is written back.
* **Commits in the middle.**  `process_file` commits every 500 mapped rows, `set_review` after every
  alert of a case; a restart or an error between two commits leaves half an operation.
* **Rollbacks.**  A database error in one row rolls back the whole batch behind it.
* **Reused ids.**  No table is declared `AUTOINCREMENT` in SQLite's sense: after the delete that
  starts each rebuild the ids are given out again, while alerts, reviews and narratives still hold
  them.
* **Order of arrival.**  PRE and POST files, and the source ids inside them, arrive in any order;
  an event may be merged, or move to another party, after something was computed from it.
* **Scopes.**  Every rebuild runs for one tenant or for all, and the two do not group alike
  everywhere: a batch id, a beneficiary key or a training set may be shared by tenants.
* **Thin history.**  Baselines of fewer than two weeks, constant baselines, unknown ratios and parties
  with a single row each take a branch of their own in the scores.
* **Many answers to one question.**  Overview, rail table, exposure, review summary, priorities and
  cases each join, date and filter the claims on their own and should count the same ones.

The `hazards` of `PROJECT.json` list each of these at its line.

## 2. Plan

Most important behaviour first.

1. `Ingestion` with proofs: the only data that cannot be rebuilt.
2. `Resolution` with proofs, `Investigation` and `Narration`: the places where state is read,
   replaced and used later.
3. `PartyRegister`, the abstract specification `Resolution` implements, and the proof of it.
4. `Narration` with proofs.
5. `Operations`, `Snapshots` and `Tracks`: detectors and tracks on merged events and moving links.
6. `Claims`, `Exposure`, `Dashboard`, `CaseViews`: the views, checked against each other.
7. `Investigation` with proofs.
8. `Tracks` and `Operations` with proofs.
9. `CaseViews` with proofs, and with it every invariant and action property of the passing runs.

All of these are done.  What would come next, in this order: a composition of `Operations` with
`Investigation` in which one rebuild's rows are the other's claims (now the two meet in `CaseViews`, for
one tenant); a `MergeStore` whose one step merges a whole row, implemented by `Ingestion` with one
writer.

## 3. Modules

| module | models | uses |
|---|---|---|
| `Ingestion` (`MCIngestion`, `IngestionProofs`) | `process_file` and `upsert_canonical_event`, several writers, one lock | |
| `Resolution` (`MCResolution`, `ResolutionProofs`) | `resolve_parties` around ingestion | `PartyRegister` |
| `PartyRegister` | abstract: what resolution promises its readers (the refinement is proved in `ResolutionProofs`) | |
| `Investigation` (`MCInvestigation`, `InvestigationProofs`) | rebuilds of claims and cases, reviews and validations | |
| `Narration` (`MCNarration`, `NarrationProofs`) | narration requests across their awaits, rebuilds in between | |
| `FiniteFacts` | lemmas on finite sets for the other proof modules: ranks, extremes, induction over subsets, sums, the statistics | `Statistics` |
| `Statistics` | z-scores and baselines of samples (functions to whole numbers) | |
| `Operations` (`MCOperations`, `OperationsProofs`) | the six detectors, merges, weeks and days | `Statistics` |
| `Snapshots` | features, entity and beneficiary snapshots around moving links | `Statistics` |
| `Tracks` (`MCTracks`, `TracksProofs`) | the five tracks on those snapshots | `Snapshots` |
| `Claims` | the tables the views read, dates and ranges | |
| `Exposure`, `Dashboard` | the views as operators over them | `Claims` |
| `CaseViews` (`MCViews`, `ViewsProofs`) | cases, validation, countdown, trend, patterns, health; the composition of all views | `Dashboard` |

Ghost variables, which no guard reads, are called `aux_...`.

### Ingestion

`disk` is `canonical_events` as committed and `pending` the same table inside the open write
transaction; `lock` is its owner.  `job[w]` is the local state of one `process_file` call: the row
it is at and its two counters.  One row is `Lookup` (the SELECT of `upsert_canonical_event`) and then
`FlushRow` or, when the batch is full, `FlushAndCommit`; the merge uses what `Lookup` returned
(`loaded`).  `Statement` is what SQLAlchemy sends: only columns that differ from the loaded ones, a
dict column being one column.  This is why two processes can lose a risk flag but never a plain
column.  The other outcomes of a row are `BadRow` (an exception before the database is touched),
`RowError` (an SQLAlchemyError and the rollback) and `CommitError`.  `Finish` commits the log with
the last rows; `FinishError` is its failure outside the try; `Crash` is a restart.

Abstracted: column names to `Cols`, keys of a dict column to `Flags`, the mapping of a raw row to
its result (a row with no key is one whose mapping fails).

### Resolution and PartyRegister

`Begin` is the first query, `ResolveMerchant` and `ResolveIndividual` one row of a pass,
`MerchantsDone` the flush and the second query, `Commit` and `Fail` the two ends.  An error in one row is
swallowed by the code, with two outcomes: a failed lookup loses the row only and the run is committed
without it (`SkipRow`), a failed flush leaves the session unusable and the run is lost (`Fail`).  `work`
is what the session holds, `link` and `parties` what is committed.  A merge (`Arrive`) may come in between
as long as the run has not flushed anything.  The random party ids are represented by what they
stand for, (tenant, source id), since the table has that pair as a unique key and is never deleted
from.

`PartyRegister` is what a reader of the results relies on: an owner per event, a set of registered
parties that only grows, facts about them that are never contradicted, and one step (`Answer`) per
run.  `Resolution` maps to it by what is committed: `owner` from the two link columns, `registered`
and `facts` from the two party tables, `asked` from the scope of the run in progress.  The passes,
the flush and merges are stutters, `Begin` is `Ask`, `Commit` is `Answer`, `Fail` is `GiveUp`.

The register is what the code does, not what `resolve_parties` says of itself.  Its docstring promises
that "a row already carrying a resolved id is never touched again" and that no id changes
(`app/resolution.py:125-127`); the first pass asks for an empty merchant link only, so an event linked
to an individual is linked to a merchant by a later run, once its merchant's source id has arrived
(`Promotes`).  Arrival of an individual's source id, a run, arrival of a merchant's, a run: the fourth step
changes a resolved id.  Nothing that passes demands this.  `QuietIsResolved` asks for some link of an event
that names a party, so it would hold of the docstring's program as well, and the register permits what the
code does and does not ask for it.

### Investigation

`claims` holds two of the tables claims come from, `reconciliation_breaks` and
`anomaly_entity_snapshots`, as rowid to row; `Kept` and `Added` are a DELETE with a scope and the
INSERTs after it, with SQLite's rule for the next rowid.  A row is only what tells rows apart: its
subject and whether its band makes it a claim.  The subject of a break is a transaction, that of a
snapshot a party *and a span of its events*: a merchant with 15 dated events or more has one row for each
active week, everybody else one to-date row (`Weekly`, `PartyOf`; `app/anomaly/features.py:267`).
`Pictures` are what the events may show at one time or another, and `Ingest` goes from one to the next:
a merchant gets busy, a party loses its events, a break is reconciled.  `Replaced` deletes by party, as the
code does, so the weekly rows replace the to-date row.
Scoring picks any set of material rows; it stands for `train_and_score` and `compute_final_score`
in a row, since the band changes in the latter only and the latter needs the former (`Tracks` has them
apart).  `ComputeCases`
is the whole of `compute_cases`: clusters, ids, alerts with their position, the deletes.
`ClusterOf` describes a cluster without the loop: the signals of a group with no gap above the window
between them.
`ValidateCrash` is a validation that dies after n of its per-alert commits.  Narratives are the
business of `Narration`, so `ComputeCases` does not mention them.

### Narration

A slot is a (signal type, row id).  Its row now and the row its cached narrative was written from
are both numbers from one counter, so they can be compared.  `Ask` is everything in
`narrate_endpoint` up to the first await; `AttemptFails`, `Wake` and `KeyFails` are the loop of
`_complete_with_retry`; `GoodAnswer` and `BadAnswer` are what happens when `narrate` returns or
raises.  `Storable` is the condition under which the session can write: an UPDATE finds the row it
had loaded, an INSERT finds none.  `Rebuild` is any run that replaces the rows of one type; only the
one for cases purges narratives.

### Operations

`events` is the sequence of canonical events in id order, each a record of the columns some detector
reads; `Arrive` merges a row by (tenant, transaction, rail), the key of
`upsert_canonical_event`.  `weekly` are a merchant's weekly ratios.  `Detect(table, scope)` is one
endpoint: `Kept` is its DELETE and `Detected` the rows it adds.  The details that decide are kept: the
batch's deadline is that of its first row that names one and its tenant that of the first row; a
retry finds its original by transaction id, the last rail winning; a retry group is left out if the
two share a key; the timeout spike needs |z| of 2, the rejection score of 60 needs |z| of 3, both
multiplied out in `Statistics` so that neither a mean nor a root is computed.

A query's rows are kept as a function from the ids of the events (`InScope`), so that `First` is the row
with the least id.  The ghost `aux_fresh` has, for each table, the pairs of a tenant and the scope its last
run had, as long as nothing that such a run reads has changed: a run for all tenants reads the
events of the others too, and one of them may share a batch id.

### Snapshots and Tracks

`link` says which party an arrived event belongs to, `account` its account reference; `Arrive`,
`Resolve` and `Capture` change them as ingestion and resolution may.  `ComputeFeatures`,
`ComputeSnapshots` and `ComputeBeneficiaries` delete the rows of the parties (or keys) *found* in the
scope and add new ones.  Time is in days, a week is seven of them from a Monday; the train/test cutoff
is the time of the event at four fifths of the run's events.  A row of `snapshots` carries the columns
of the tracks, NULL until their endpoint has run.  `TrainAndScore` and `ClusterAndScore` take any
ranking and any labels where the code calls the forest and HDBSCAN; what the code does with the result
(percentiles per segment, change against the week before, noise for a lone row) is computed, and so are
`ScoreDrift`, `ScoreFunnelDrift` (including how a run for all tenants groups by key alone) and
`ComputeFinalScore` with its weights, bands and the exception that leaves all rows alone.

### Claims, Exposure, Dashboard, CaseViews

The views are read-only, so they are operators over the state, named after the functions they
translate.  `Claims` holds the tables, the lookups, the date of each kind of claim and the three
range checks (on the text column, on a DateTime column, joined in Python).  A garbled time is excluded by
the last and not by the first, which compares text: it may sort before every day (`Early`) or after
(`Late`, "N/A" for one), and is kept by a range without the bound it would violate.  A readable time is
its day: the model takes the text to be extended ISO, as `app/date_filter.py` says it is (a compact
`20260301`, which `fromisoformat` reads too, sorts elsewhere), and leaves the time of day out, so that an
inclusive end is the next day's beginning in all three.  Scores are whole numbers of hundredths; what is
handed on is rounded to tenths, a half up (Python rounds a half to even), and the level is that of the exact
score, as in `app/priority.py`.  What fills the tables is in the modules above;
here they hold any of a set of rows that the events support, and then events are merged
(`Merge`), detected again (`Detect`), reviewed (`SetReview`), gathered into cases (`ComputeCases`),
validated (`Validate`) and scored (`ComputeHealth`).  A lookup returns the places of events (`EventsOf`)
and `EventsAt` the rows there.  The handlers never await and all filter on one
tenant, so a view is a function of the state and one tenant is enough.

## 4. Runs

Seven runs pass and five show a disagreement.  Every property of a passing run has a mutant in
`PROJECT.json`: a plausible bug in one mapped definition that makes TLC find the property violated.

**`ingestion`** (two processes, overlapping files, errors, rollbacks, crashes)
* `TypeOK`; `LockOnlyWhileOpen`: the write lock is held only by a process with an open
  transaction, on every error path.
* `CleanLogIsComplete`: a log without failed rows means that every row is stored.
* `LossBounded`: a logged failure costs less than a batch of other rows, so `rows_mapped` overstates
  what is stored by that at most.
* `NeverNullsColumn`: no merge of any process replaces a value with NULL.
* `FreshMergeKeepsEvidence`: a merge keeps flags and snapshots, unless the row it was computed from was
  outdated by the other process.
* `IngestTerminates`: every file started ends, in a log or a crash.

**`resolution`** (merges before, between and in the middle of runs that may fail)
* `MutuallyExclusive`, `LinksLead`: never two links on an event, never a link to nowhere or to
  another tenant's party.
* `QuietIsResolved`: after a committed run that no merge disturbed and that reported no row error, every
  event of its scope that names a party is linked to one, also after later runs of other scopes.
* `ProfilesOnlyGrow`: what is known of a party is never replaced or lost.
* `ImplementsRegister`: the refinement of `PartyRegister`, by which merges in the middle of a run and
  runs that fail half way are invisible to readers.

**`investigation`** (rebuilds for one tenant or all, in any order, with verdicts)
* `OneRowPerSubject`: no transaction has two break rows, and a party's rows are of one moment: one to-date
  row, or rows of different weeks, also after it has turned from the one to the other.
* `AlertsHaveTheirCase`: although ids come back, an alert always belongs to a case of its tenant, and
  positions have no gap.
* `FreshCasesSplitClaims`, `ChainsOfWindow`: until the next detector run, cases split the claims; members
  follow each other within the window; two cases of one group are further apart.
* `ValidationReachesAlerts`: a validation that was not cut short agrees with the reviews of its alerts
  until one of them is reviewed on its own.
* `AllValidatedNonePending`: when all cases of a tenant are validated in full and its claims have not
  changed, the summary finds a decided review for every claim.  Alerts, reviews and summary share nothing
  but a type, a tenant and a reused id, so this takes the whole way from claim to case to review.

**`narration`** (two requests at once, three in all, failing keys, restarts, rebuilds during the await)
* `NoKeyLeftUntried`: the API's error is answered only after every key has been tried.
* `CaseNarrativeCurrent`: a cached narrative of a case is about the case that has the id now, unless a
  rebuild came during its await.
* `CacheStable`: a cached narrative goes by a purge or a forced regeneration only.
* `EveryRequestAnswered`: whatever the keys answer, a request ends.

**`operations`** (six detectors over merged events and weekly ratios, while days pass)
* `OverdueBatchesListed`: after a run, whatever was merged in which order, a batch is listed with its
  unsettled rows once all deadlines named for it have passed, and not listed if none has.
* `PaidTwiceIsListed`: two settled rows that share a key, or a retry and its only original, are listed
  together, and what is listed together belongs together.
* `SpikesJudgedByPast`: no spike without two measured earlier weeks; after a constant history every week
  above it and none equal to it; never a week within what was seen before.  It requires nothing of weeks
  below their history, of which code and documentation disagree (section 6).
* `ScopedRebuild`: a run changes no row of another tenant or another detector.

**`tracks`** (features, snapshots and the five tracks, while events arrive and change parties)
* `RunsDescribeEvents`: after a run the rows of its scope share out the events exactly, whoever they
  belonged to in earlier runs.
* `SendersNewOnce`: a sender is new in exactly one week of a beneficiary, the first.
* `SplitByTime`: no merchant is trained on a week later than one that is held out for another.
* `MaterialNeedsHistory`: a single row, or a merchant's first week, never reaches a material band, and a
  second week never "Critical".
* `FinalIsAllOrNothing`: a tenant's rows get their bands together or not at all.

**`views`** (all read-only views over claims of every kind, before and after merges)
* `WindowsAgree`: exposure, overview, review summary and the rail table count the same claims in every
  range, and a range that is cut in two adds up to its parts (`Split`; the cut lies between the ends, as
  between dates that are the wrong way round there is nothing to cut).
* `MoneySplitsAlike`: the amounts by domain, by rail, by week and by review status split one total, also
  where one payment is at risk twice.
* `RatesAreRates`: each of the shares, rates and scores the dashboards show lies between 0 and 1 (or 0 and
  100), for claims that were found before their events were merged again.
* `CasesAgreeWithViews`: each claim is in one case, a case is as urgent as every claim of it that has a
  lower score, and the trend of its category counts what its cases group.  The countdown is not part of it:
  `sla_clock` is about that.

The violation runs, each a `finding` in `PROJECT.json` with the quoted line:

* `late_pre_file`: a late PRE file overwrites the settled status.
* `review_identity`: a verdict moves to another claim with the same row id.
* `stale_narrative`: the purge misses a request in its await.
* `pooled_funnel`: a run for all tenants scores a week of a beneficiary that has fewer than two earlier
  weeks of its own, because another bank's weeks under the same key are counted as its history.  In the
  trace it is a second week, with one own week and one of the other bank before it.
* `sla_clock`: the time of a run becomes the present of all pending cases.

### Bounds

| run | bounds | why the case still happens |
|---|---|---|
| `ingestion` | 2 writers, 2 events, 3 kinds of file of up to 3 rows, `BatchSize` 2, 2 files in all | a batch boundary inside a file, a rollback with rows before it, both writers on one event |
| `resolution` | 3 events, 2 tenants, 2 source ids, 6 possible merges of which 4 come | both ids on one event, in both orders, over several runs and a failed one |
| `investigation` | 2 tenants; 2 breaks; individuals at 0 and 96 hours, a merchant with a to-date row at 48 or weekly ones at 49 and 217, so gaps of exactly the window and an hour above; 2 pictures; `MaxRuns` 4, `MaxVerdicts` 2, `MaxId` 5 | snapshots, scores, cases and a validation are three runs and a verdict, after which one more rebuild meets the old ids; a party of each kind changes between the pictures |
| `narration` | 2 open requests, 3 in all; 2 keys, 2 attempts, 2 ids, 2 versions | both requests on one slot; a rebuild during an await; failover |
| `operations` | after histories of up to 3 of 7 rows, or up to 3 weeks of ratios from {0, 1, 9, NULL}: 1 change, 2 runs | two tenants with one batch id, a retry with its original on two rails, a fourth week after a constant history |
| `tracks` | 7 worlds over 9 events, 2 tenants, up to 1 change; `MinWeekly` 2, `MinOwnModel` 4 | a merchant with three weeks, two banks with one payee, a party that loses its events; all tracks in all orders |
| `views` | 3 histories, 1 later merge, 5 issues, 2 breaks, 3 entity and 2 beneficiary snapshots, 4 ranges; 2 changes, 1 entry of health history | dated and undated claims, garbled ones of both kinds; one payment under two claims; one transaction id on two rails |

Symmetry is not used: most instances tie their values to particular tenants and times.  Except for
`resolution`, which checks deadlock, the behaviours stop when a bound is used up, so that deadlock is
not checked; in none of these components can the code wait for something but in narration and for the
lock, and for both there is a liveness property.

### Fairness

`Ingestion` is weakly fair for the next step of each writer: the loop does not wait for anything but the
write lock, and SQLite gives up on that after its timeout, which is `RowError`; so a step of a file in
progress is always enabled and the process takes it.  Nothing forces a crash or another file.
`Narration` is weakly fair for `Progress`, the steps a request takes by itself or by the API's reply:
asyncio wakes a task that sleeps, and an API call returns or raises.  New requests, rebuilds and restarts are
not fair.
All other specifications are safety only: their handlers run to the end in one step.

## 5. Proofs

Each proof module holds for all values of the constants that satisfy the assumptions its model names;
these say that `None` is no value, that maps have the domains and ranges their names say, that bounds are
numbers, that the subjects, claims and events of one instance are finite in number and, in `Operations`
and `Claims`, that columns hold whole numbers or NULL.

**`FiniteFacts`**: what several of the proofs need of finite sets.

* In a finite set with a strict total order, `1 +` the number of smaller elements is a bijection onto
  `1..n` (`RankInjective`, `RankSurjective`); there are least and greatest elements.
* The folds of the community modules pick elements in an order of their own.  `SumRemove` shows that the
  order is irrelevant, and the usual laws of sums follow from it.  The induction behind it is
  `SubsetInduction` (and `NatSubset` for numbers): the provers cannot instantiate a principle that takes
  a predicate, so these take a *set*, the subsets for which the claim holds.  This puts sums, averages
  and the root of `Statistics`, which is a recursive function, within reach.
* `SumByKey` and `CountByKey`: summing or counting part by part, by any field, loses nothing.
* `SpreadBounds` is Samuelson's inequality (no value of a sample is further from its mean than its spread
  allows), `WithinNotFar` and `ConstantFar` what follows for z-scores, `RootIs` and `ZType` that the
  root and the z-scores are whole numbers.

**`IngestionProofs`**: `TypeOK`, `LockOnlyWhileOpen`, `CleanLogIsComplete`, `LossBounded`, and the
steps satisfy `NeverNullsColumn` and `FreshMergeKeepsEvidence`.

* The properties are not inductive by themselves.  `IInv` adds where a writer stands (`Placed`), how
  its counters relate (`Counted`) and what its open transaction may contain (`Ahead`).  `Counted` splits the
  mapped rows into saved, lost and open ones (the ghost `aux_tx`), bounds the lost ones by a batch per
  failure, and bounds the open ones by `mapped % BatchSize`: this is what keeps an open transaction
  below a full batch, and hence what one rollback can take.
* `NextInv` has one case per action; the arithmetic of the batch counter (`ModStep`, `OneMoreBatch`)
  is kept in lemmas without state.
* For the merge rule, `Ahead` says that `pending` is never poorer than `disk` in plain columns, since a
  flush replaces a value only by a populated one (`StatementKeepsColumns`).  For flags and snapshots this
  needs the loaded row to be the current one (`FreshStatementKeepsEvidence`), which is what
  `OutdatedMerge` excludes; writers are kept apart by the lock.

**`ResolutionProofs`**: every property of the run `resolution`, the refinement included.

* The checked invariants are about committed state, which only `Commit` changes, and then to whatever
  the session holds.  So `IInv` states them of the session as well (`Running`), together with how the
  session relates to what was committed when it began: tables have only grown (`Outlives`) and links
  have only been promoted (`Promotes`).  The two action properties are these relations at the commit.
* That no event gets both links in the second pass needs what its rows are like (`Queued`: no link of
  either kind).  That the first pass may leave an old link to an individual alone, when its row
  names none, needs that a link exists only where a source id does (`Named`), for the columns as the
  session loaded them.  Those may be outdated, but merges only add ids (`Loaded`).
* `QuietIsResolved` needs how far an undisturbed run has come (`Undisturbed`); a row error takes its tenant
  out of it.  A tenant that was resolved before stays so through later runs of any scope, because a run
  replaces a link but clears none without setting the other.

The same module has the refinement, `ResolutionImplementsRegister`.  Under the mapping of section 3 the
initial states agree (`InitMaps`) and each action is one of the register's or a stutter.  The step that
needs the invariant is `Commit`: that every event of the scope has an owner in its tenant, that the
registered parties have grown and that no fact is contradicted all come from `IInv`; in addition the
scope of a run is that of the question it answers (`Scoped`).

**`NarrationProofs`**: `TypeOK`, `NoKeyLeftUntried`, `CaseNarrativeCurrent`, and the steps
satisfy `CacheStable`.

* `IInv` adds that versions are drawn from one counter (`Placed`: what a request or a narrative carries
  was a row once, and no two rows of a type have one version) and that what a request read of its row
  is still the row unless a rebuild marked it (`FactsCurrent`).  `NoKeyLeftUntried` is inductive with the
  key a request is at.
* Requests are kept apart by two lemmas, one for a step that changes one request (`RequestStep`) and one
  for its answer (`AnswerStep`); the actions are instances of them.

**`InvestigationProofs`**: every property of the run `investigation`, for any number of tenants,
subjects and ids, any window, and any interleaving of rebuilds and verdicts.

* The ids are what makes it hard: the model gives them by `NextId` and a cardinality, as SQLite and the
  loop over the clusters do.  The bijection of `FiniteFacts` gives the positions of
  alerts (claims of a cluster, by time), the ids of cases (clusters, in the order of creation) and that
  a maximum exists for `NextId`.
* `BeforeOrder` and `CreatedOrder` show that the two orders are total: the second by the first
  claim of each group that is collected (`LeadFacts`, `CreatedIs`).
* `ClusterSame` shows that being linked by gaps of at most the window is an equivalence, so that the
  clusters split the claims; `ClusterChain` and `ClustersApart` are the two halves of `ChainsOfWindow`.
* `CasesMade` and `AlertsStep` say what `compute_cases` leaves and makes: kept cases have the alerts they
  had, new ones exactly those for their claims, and the ids do not meet.  `OthersClaims` says that a
  detector changes no claim outside its scope, which is why fresh cases of other tenants stay fresh.
* `IInv` is the conjunction of the checked invariants, the two about fresh cases said tenant by
  tenant (`FreshOnes`).  `ValidationReachesAlerts` uses `AlertsHaveTheirCase`: the alerts with a
  position up to their number are all of them.
* `OneRowPerSubject` is kept by a rebuild because the rows it leaves are of parties it did not find, and
  those it adds are of one picture, whose spans may coexist.
* `AllValidatedNonePending` follows from the invariant (`NonePending`), with its parts used in a row: a
  claim has an alert since fresh cases split the claims, the alert has its case, the case's validation has
  reached it, and the review's key is the claim's own.

**`TracksProofs`**: `TypeOK`, `RunsDescribeEvents`, `SendersNewOnce`, `SplitByTime`, `MaterialNeedsHistory` and
the steps satisfy `FinalIsAllOrNothing`, for any worlds of finitely many events.

* `TypeOK` is about what is computed: a sum of amounts, an average, a percentile or a z-score is a number
  of its range only if the set behind it is finite and not empty, for every order of rebuilds and tracks.
* `Linked` (an event belongs to nobody or to a party of its own tenant) is what makes a run over one
  tenant find the same parties as one over all.  With it `RunsDescribe` shows for each of the three
  rebuilds that the rows a run leaves in its scope share out the events, however the links had moved.
* `HeldOutIsTime` shows that the time at four fifths of the sorted times exists: the greatest number of
  smaller times that does not exceed the place.  `SplitIs` says what a row's split then is, and
  `HeldOutIsLater` compares two rows by their weeks.
* `FinalForAll` needs that every row has all columns (`AllShaped`), so that a track that writes one
  leaves the others (`TrackStep`): only `FinalStep` gives bands, and it raises or gives all.
* `SendersNewOnce` is not inductive: it says nothing of a sender without a first week.  `Historical`
  does: the rows of a key are a `Chronicle`, one row for a week, new in it exactly those senders that no
  earlier row has.
* `MaterialNeedsHistory` says nothing of the columns a band is made from, so `Founded` adds them: a party
  has one row for a week, and a row without earlier ones is not marked as changed.  A track that rewrites
  rows keeps the number before each (`RewritesKeep`, a bijection); it marks a change only against an earlier
  row and leaves a drift unknown before there are two (`Learns`, `NoDrift`); `BandIs` is the arithmetic
  of the weights; a rebuild gives a party all its rows anew or none (`RebuildFounded`).

**`OperationsProofs`**: `TypeOK`, `OverdueBatchesListed`, `PaidTwiceIsListed`, `SpikesJudgedByPast`, and
the steps satisfy `ScopedRebuild`, for any store, files, tenants and parties.

* `IsStore` (one row per event) is kept by `UpsertKeeps`: a merge leaves the key columns, and a row is
  added only for a new key.  `DetectedCovered` says of each of the six detectors that what it adds is of
  a tenant its run covers; with the DELETE this is `ScopedRebuild`.
* The two properties about what is listed are not inductive.  `FreshRows` is: while a pair is in
  `aux_fresh`, the tenant's rows are what the detector would find now over that scope.  It needs that a
  merge outside a scope leaves the rows of a run over it as they are (`ArrivalElsewhere`), and that a run
  replaces nothing it does not cover (`FreshDetect`).
* What is left is about one store.  `BatchIsListed`: the deadline that decides is one of those named,
  and the rows of a batch are the tenant's own when the scope or the batch id says so.
  `PairsAreListed` and `OnlyPairsAreListed`: two payments that share a key or are a retry and its only
  original are in one group, and a group holds nothing that does not hang together (`GroupShape`).

* `SpikeRows` is `FreshRows` for the two tables of spikes, party by party: a week is listed while the
  history that was judged is the one that is there.  Then `SpikesJudgedByPast` is about one history: after
  constant ratios the code lists a week exactly if it differs (`ConstantFar`), of which the property asks
  the half about weeks above and the one about equal weeks; a week within what was seen before is never
  listed, which is Samuelson's inequality with the code's thresholds (`WithinNotFar`).

**`ViewsProofs`**: `WindowsAgree`, `MoneySplitsAlike`, `RatesAreRates` and `CasesAgreeWithViews`, for any
histories, merges, claims, amounts and ranges.  What is assumed of the columns is the schema (rails and
transaction ids are not nullable and are the key with the tenant, rows have ids of their own) and what the
detectors write: the type of an issue is one of five and `window_end` is set by the two spikes only.

* `TablesInv`: under merges and detector runs an event keeps its place, rail and transaction, and every
  break has its event (`Stored`, `Listed`).  `HealthInv`: the score is that of the last entry of its
  history.  With the lookups as sets of places, `FirstIs`, `BreakEvent` and `IssueEvents` say what they
  return after any merges.
* Each view counts or sums by a field of its own.  `CountedBy` and `SummedBy` bring all of them to the
  number, or the sum, of one set of claims; `RangesAgree` does the same for the three range checks, and
  `CutInTwo` for a range and its halves.
* `CasesInv` is the inductive invariant behind `CasesAgreeWithViews` (it was also checked with TLC): until a
  claim or an event changes, the cases are those of the clusters, one each, whatever was reviewed or
  validated since. `ClustersSplit` shows that being in one chain is an equivalence, so that every signal is
  in one cluster; `WorstIs` that it has a first signal of the highest rounded score, `CaseUrgent` that no
  signal with a lower one is more urgent, as levels grow with the exact scores; `KindPoints` that what the
  trend joins for itself are the dated claims of those cases; `ChangeSign` is the arithmetic of the rounded
  change against the baseline.

Model-checked only: the liveness properties `IngestTerminates` and `EveryRequestAnswered`, as liveness under
fairness and ENABLED are outside what TLAPS proves here.  Every invariant and action property of the
passing runs, and the refinement, is proved; the runs that expect a violation have nothing to prove.

## 6. Not modelled

* **Transforms and coercion** (`app/transforms.py`): pure conversions of strings, each with its unit
  tests; `Ingestion` abstracts them to the result of mapping a row.
* **Numerics of the library tracks**: the isolation forest, HDBSCAN and PCA are any ranking and any
  labels; scores are whole numbers.
* **Parts of the views**: `failure_rate_trend`, the two quality trends, detection latencies, new patterns,
  the status breakdown and the detection attention list.  They bucket or rank what the
  modelled views count, by a timestamp the model does not have (when a review was made, when a claim was
  detected).
* **Text**: titles, reasons, prompts and what a narrative says; `narrate` accepting or rejecting an answer
  is a free choice.
* **Keys, database, start-up, seeds, the API generator, routes' declarations**: no behaviour beyond what
  the modelled parts take from them (the number of keys, one file, WAL, autoflush off).

Smaller disagreements between code and text that were met while modelling and that no run is spent on:

* `new_counterparty_ratio` compares names within the row only (`app/anomaly/features.py:116-130`), while its
  docstring speaks of the entity's own history; the model has the code's ratio (`NewRatio`).
* `compute_snapshots` and `compute_features` replace the rows of the parties they find; the rows of a party
  that has no event any more stay.  `RunsDescribeEvents` speaks of the parties found only.
* `train_and_score` for all tenants ranks the tenants' rows together, `cluster_and_score` does not.
* A run of `detect_unsettled_batches` for all tenants files a shared batch id under the tenant of its first
  row (`app/operations/rules.py:50`); `OverdueBatchesListed` excepts exactly this.
* A retry whose original shares its idempotency key is left to the key's group; of two rails with one
  transaction id the last one is the original (`app/operations/duplicate_payment.py:52`).
* A resolved row is touched again, in spite of the docstring of `resolve_parties`
  (`app/resolution.py:125-127`): see section 3.
* Both spikes are judged by the absolute deviation (`app/anomaly/timeseries.py:91`,
  `app/operations/drift.py:70`).  For timeouts this is documented ("|z-score| beyond this", `drift.py:24`);
  the rejection spikes are said to be weeks that "drifted meaningfully above" their history
  (`app/operations/format_rejection.py:71-73`, and "meaningfully elevated" in 30-31), yet after two weeks of
  rejections a week without any is listed.
* "A case is at least as urgent as its single most severe contributing alert"
  (`app/investigation/cases.py:270`), up to rounding: the alert is chosen by scores rounded to tenths
  (`app/priority.py:126`, `:148`) and its level is that of the exact score, so of 59.96 (Medium) and 60.0
  (High) the first one counts.  `CasesAgreeWithViews` excepts exactly equal rounded scores, and the run has
  such a pair.
* `breaks.py` looks at the variance of rows that have a reconciliation status only.
* Two requests for one uncached narrative both ask the API; the second INSERT fails (`narration.py:373`).
  A key is given up after its last transient failure as well, not only "when its failure says so"
  (`narration.py:266`).
* Only cases have their narratives purged; those of breaks, issues and snapshots stay when their ids are
  given out again.
* A case's `validation_status` is not touched when one of its alerts is reviewed later
  (`app/routers/analyst.py:771`); case codes change with every rebuild although called stable
  (`app/investigation/models.py:18`).
* A time that cannot be parsed is kept by the filters on text and dropped by those on dates
  (`app/date_filter.py:45`).  The first count events and the second claims, so that with one bound
  only, an event may be counted whose break is not; `WindowsAgree` compares claims with claims.
