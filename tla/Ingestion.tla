------------------------------ MODULE Ingestion ------------------------------
(***************************************************************************)
(* Settlement files merged into the canonical_events table:                *)
(* app/ingestion.py (process_file) and app/canonical_store.py              *)
(* (upsert_canonical_event).                                               *)
(*                                                                         *)
(* A writer is a process that runs process_file: the one uvicorn worker    *)
(* behind POST /ingest/file (its handler is synchronous after the upload   *)
(* is read, so one worker ingests one file at a time) or a run of          *)
(* scripts/ingest_*.py on the same SQLite file.  A writer SELECTs an event *)
(* outside any transaction, its first flush opens the transaction and      *)
(* takes SQLite's write lock, and the lock is held until the batch is      *)
(* committed or rolled back.                                               *)
(***************************************************************************)
EXTENDS Integers, Sequences

CONSTANTS
    Writers,    \* processes that ingest files
    Keys,       \* (tenant_bank_id, rail_type, transaction_id)
    Cols,       \* plain columns in _MUTABLE_FIELDS
    Flags,      \* keys of a JSON_MERGE dict column such as risk_flags
    Vals,       \* values a column or a flag can hold
    Raws,       \* raw rows, as kept in the snapshot columns
    None,       \* NULL, what _is_populated rejects
    Files,      \* the files that may be sent, each any number of times
    BatchSize,  \* _COMMIT_BATCH_SIZE
    MaxJobs     \* bound of the model: files started in all

\* A row after _apply_mappings.  key = None: the row fails there, because it maps to no
\* transaction_id or one of its values cannot be coerced to its column's type.
Row == [key   : Keys \cup {None},
        cols  : [Cols -> Vals \cup {None}],
        flags : [Flags -> Vals \cup {None}],
        raw   : Raws]

File == [stage : {"PRE", "POST"}, rows : Seq(Row)]

ASSUME NoneAssumption  == None \notin Keys \cup Vals \cup Raws \cup Writers \cup Files
ASSUME BatchAssumption == BatchSize \in Nat \ {0}
ASSUME FilesAssumption == \A f \in Files : f \in File
ASSUME JobsAssumption  == MaxJobs \in Nat

VARIABLES
    disk,     \* canonical_events as committed
    pending,  \* canonical_events as the open write transaction sees it
    lock,     \* the writer that holds the write lock, or None
    job,      \* per writer: the file in progress and process_file's counters
    loaded,   \* per writer: the event the last lookup returned
    logs,     \* committed ingestion_logs
    jobs,     \* files started so far
    aux_tx,   \* per writer: rows of the file in the open transaction, durable, lost
    aux_stale \* per writer: the open transaction merged into an outdated event

vars == <<disk, pending, lock, job, loaded, logs, jobs, aux_tx, aux_stale>>

-----------------------------------------------------------------------------
\* A canonical_events row.  One that exists holds at least one raw snapshot, so the
\* absence of a row is the event with neither.
Event == [cols  : [Cols -> Vals \cup {None}],
          flags : [Flags -> Vals \cup {None}],
          pre   : Raws \cup {None},
          post  : Raws \cup {None}]

NoEvent == [cols  |-> [c \in Cols |-> None],
            flags |-> [f \in Flags |-> None],
            pre   |-> None,
            post  |-> None]

Exists(e) == e.pre # None \/ e.post # None

\* Only a populated value replaces what is there; dict columns merge like this per key.
OverlayEverything(old, new) == new
Overlay(old, new) == [x \in DOMAIN old |-> IF new[x] # None THEN new[x] ELSE old[x]]

\* A snapshot slot is written once.
SlotRewritten(old, raw) == raw
Slot(old, raw) == IF old = None THEN raw ELSE old

Merge(e, row, stage) ==
    [cols  |-> Overlay(e.cols, row.cols),
     flags |-> Overlay(e.flags, row.flags),
     pre   |-> IF stage = "PRE"  THEN Slot(e.pre, row.raw)  ELSE e.pre,
     post  |-> IF stage = "POST" THEN Slot(e.post, row.raw) ELSE e.post]

\* The statement the session flushes names only the columns whose value differs from the
\* one it loaded; a dict column is one column.
Dirty(current, old, new) == IF new # old THEN new ELSE current

Statement(current, old, new) ==
    [cols  |-> [c \in Cols |-> Dirty(current.cols[c], old.cols[c], new.cols[c])],
     flags |-> Dirty(current.flags, old.flags, new.flags),
     pre   |-> Dirty(current.pre, old.pre, new.pre),
     post  |-> Dirty(current.post, old.post, new.post)]

-----------------------------------------------------------------------------
Job(pc, file, pos, mapped, failed) ==
    [pc |-> pc, file |-> file, pos |-> pos, mapped |-> mapped, failed |-> failed]
Tx(open, saved, lost) == [open |-> open, saved |-> saved, lost |-> lost]

NoJob == Job("idle", None, 0, 0, 0)
NoTx  == Tx(0, 0, 0)

Init ==
    /\ disk = [k \in Keys |-> NoEvent]
    /\ pending = disk
    /\ lock = None
    /\ job = [w \in Writers |-> NoJob]
    /\ loaded = [w \in Writers |-> NoEvent]
    /\ logs = {}
    /\ jobs = 0
    /\ aux_tx = [w \in Writers |-> NoTx]
    /\ aux_stale = [w \in Writers |-> FALSE]

Visible(w)    == IF lock = w THEN pending ELSE disk
CanWrite(w)   == lock \in {w, None}
CurrentRow(w) == job[w].file.rows[job[w].pos]
RowsLeft(w)   == job[w].pos <= Len(job[w].file.rows)

BatchNeverFull(n) == FALSE
BatchFull(n) == n % BatchSize = 0

\* The counters after one more row, at the top of the loop.
NextRow(w, mapped, failed) ==
    job' = [job EXCEPT ![w] = Job("row", job[w].file, job[w].pos + 1,
                                  job[w].mapped + mapped, job[w].failed + failed)]

\* What becomes of the rows flushed since the last commit, plus `last` of this one.
RowsSaved(w, last) ==
    aux_tx' = [aux_tx EXCEPT ![w] = Tx(0, aux_tx[w].saved + aux_tx[w].open + last, aux_tx[w].lost)]
RowsLost(w, last) ==
    aux_tx' = [aux_tx EXCEPT ![w] = Tx(0, aux_tx[w].saved, aux_tx[w].lost + aux_tx[w].open + last)]

Committed(db) == disk' = db /\ pending' = db /\ lock' = None

\* session.rollback(): everything flushed since the last commit goes.
NotRolledBack(w) == UNCHANGED <<disk, pending, lock, aux_stale>>
RolledBack(w) ==
    /\ UNCHANGED disk
    /\ IF lock = w THEN pending' = disk /\ lock' = None ELSE UNCHANGED <<pending, lock>>
    /\ aux_stale' = [aux_stale EXCEPT ![w] = FALSE]

-----------------------------------------------------------------------------
Start(w, f) ==
    /\ job[w].pc = "idle"
    /\ jobs < MaxJobs
    /\ jobs' = jobs + 1
    /\ job' = [job EXCEPT ![w] = Job("row", f, 1, 0, 0)]
    /\ aux_tx' = [aux_tx EXCEPT ![w] = NoTx]
    /\ UNCHANGED <<disk, pending, lock, loaded, logs, aux_stale>>

\* The mapping of the row raises: the row is counted and nothing is rolled back.
BadRow(w) ==
    /\ job[w].pc = "row" /\ RowsLeft(w)
    /\ CurrentRow(w).key = None
    /\ NextRow(w, 0, 1)
    /\ UNCHANGED <<disk, pending, lock, loaded, logs, jobs, aux_tx, aux_stale>>

Lookup(w) ==
    /\ job[w].pc = "row" /\ RowsLeft(w)
    /\ CurrentRow(w).key # None
    /\ loaded' = [loaded EXCEPT ![w] = Visible(w)[CurrentRow(w).key]]
    /\ job' = [job EXCEPT ![w] = Job("flush", @.file, @.pos, @.mapped, @.failed)]
    /\ UNCHANGED <<disk, pending, lock, logs, jobs, aux_tx, aux_stale>>

\* The flush that ends upsert_canonical_event can go through: the write lock is free or
\* ours, and an INSERT meets no row of the same key (uq on the composite key).
Flushable(w) ==
    /\ job[w].pc = "flush"
    /\ CanWrite(w)
    /\ Exists(Visible(w)[CurrentRow(w).key]) => Exists(loaded[w])

Flushed(w) ==
    LET k == CurrentRow(w).key IN
    [Visible(w) EXCEPT ![k] =
        Statement(@, loaded[w], Merge(loaded[w], CurrentRow(w), job[w].file.stage))]

StaleFlush(w) == Visible(w)[CurrentRow(w).key] # loaded[w]

FlushRow(w) ==
    /\ Flushable(w)
    /\ ~BatchFull(job[w].mapped + 1)
    /\ pending' = Flushed(w) /\ lock' = w
    /\ NextRow(w, 1, 0)
    /\ aux_tx' = [aux_tx EXCEPT ![w] = Tx(@.open + 1, @.saved, @.lost)]
    /\ aux_stale' = [aux_stale EXCEPT ![w] = @ \/ StaleFlush(w)]
    /\ UNCHANGED <<disk, loaded, logs, jobs>>

\* The row fills the batch: the flush and the commit after it.
FlushAndCommit(w) ==
    /\ Flushable(w)
    /\ BatchFull(job[w].mapped + 1)
    /\ Committed(Flushed(w))
    /\ NextRow(w, 1, 0)
    /\ RowsSaved(w, 1)
    /\ aux_stale' = [aux_stale EXCEPT ![w] = FALSE]
    /\ UNCHANGED <<loaded, logs, jobs>>

\* A SQLAlchemyError before the row is counted: "database is locked", the unique
\* constraint, a full disk.  The rollback takes the rows flushed before it as well.
RowErrorUncounted(w) ==
    /\ job[w].pc = "flush"
    /\ RolledBack(w)
    /\ NextRow(w, 0, 0)
    /\ RowsLost(w, 0)
    /\ UNCHANGED <<loaded, logs, jobs>>
RowErrorRetried(w) ==
    /\ job[w].pc = "flush"
    /\ RolledBack(w)
    /\ job' = [job EXCEPT ![w].pc = "row"]
    /\ UNCHANGED <<loaded, logs, jobs, aux_tx>>
RowError(w) ==
    /\ job[w].pc = "flush"
    /\ RolledBack(w)
    /\ NextRow(w, 0, 1)
    /\ RowsLost(w, 0)
    /\ UNCHANGED <<loaded, logs, jobs>>

\* The batch's commit raises: its last row has been counted as mapped and is now also
\* counted as failed.
CommitError(w) ==
    /\ Flushable(w)
    /\ BatchFull(job[w].mapped + 1)
    /\ RolledBack(w)
    /\ NextRow(w, 1, 1)
    /\ RowsLost(w, 1)
    /\ UNCHANGED <<loaded, logs, jobs>>

\* The ingestion log is committed together with the rows of the last, partial batch.
LogEntry(w) ==
    [file |-> job[w].file, mapped |-> job[w].mapped, failed |-> job[w].failed,
     saved |-> aux_tx[w].saved + aux_tx[w].open, lost |-> aux_tx[w].lost]

Finish(w) ==
    /\ job[w].pc = "row" /\ ~RowsLeft(w)
    /\ CanWrite(w)
    /\ Committed(Visible(w))
    /\ logs' = logs \cup {LogEntry(w)}
    /\ job' = [job EXCEPT ![w] = NoJob]
    /\ aux_tx' = [aux_tx EXCEPT ![w] = NoTx]
    /\ aux_stale' = [aux_stale EXCEPT ![w] = FALSE]
    /\ UNCHANGED <<loaded, jobs>>

Abandoned(w) ==
    /\ RolledBack(w)
    /\ job' = [job EXCEPT ![w] = NoJob]
    /\ aux_tx' = [aux_tx EXCEPT ![w] = NoTx]
    /\ UNCHANGED <<loaded, logs, jobs>>

\* The last commit is outside the try: its failure leaves process_file and no log.
FinishError(w) ==
    /\ job[w].pc = "row" /\ ~RowsLeft(w)
    /\ Abandoned(w)

\* The process is killed or restarted in the middle of a file.
Crash(w) ==
    /\ job[w].pc # "idle"
    /\ Abandoned(w)

Step(w) ==
    \/ BadRow(w) \/ Lookup(w) \/ FlushRow(w) \/ FlushAndCommit(w)
    \/ RowError(w) \/ CommitError(w) \/ Finish(w) \/ FinishError(w)

Next == \E w \in Writers :
    \/ \E f \in Files : Start(w, f)
    \/ Step(w)
    \/ Crash(w)

Spec == Init /\ [][Next]_vars

\* The loop of process_file does not block: SQLite gives up on a busy lock after its
\* timeout, so a writer that is inside a file always takes its next step.
FairSpec == Spec /\ \A w \in Writers : WF_vars(Step(w))
-----------------------------------------------------------------------------
(* Properties *)

JobType == [pc : {"idle", "row", "flush"}, file : Files \cup {None},
            pos : Nat, mapped : Nat, failed : Nat]

LogType == [file : Files, mapped : Nat, failed : Nat, saved : Nat, lost : Nat]

\* The shape of the state.  An open transaction never holds a full batch, and a writer
\* inside a file stands at one of its rows or just behind the last.
TypeOK ==
    /\ disk \in [Keys -> Event] /\ pending \in [Keys -> Event]
    /\ lock \in Writers \cup {None}
    /\ job \in [Writers -> JobType]
    /\ loaded \in [Writers -> Event]
    /\ logs \in SUBSET LogType
    /\ jobs \in 0..MaxJobs
    /\ aux_tx \in [Writers -> [open : 0..(BatchSize - 1), saved : Nat, lost : Nat]]
    /\ aux_stale \in [Writers -> BOOLEAN]
    /\ \A w \in Writers : job[w].pc # "idle" =>
           /\ job[w].file \in Files
           /\ job[w].pos \in 1..(Len(job[w].file.rows) + 1)

\* A writer keeps SQLite's only write lock no longer than it has rows of a running file
\* to commit, and while nobody holds it there is no uncommitted change: process_file
\* never returns, fails or dies with a transaction left open behind it.
LockOnlyWhileOpen ==
    /\ lock = None => pending = disk
    /\ \A w \in Writers : lock = w <=> aux_tx[w].open > 0
    /\ \A w \in Writers : lock = w => job[w].pc # "idle"

\* An ingestion_log with rows_failed = 0 can be believed: every row of the file was
\* committed, whatever errors, commits and crashes other files met.
CleanLogIsComplete ==
    \A l \in logs : l.failed = 0 => l.saved = Len(l.file.rows) /\ l.lost = 0

\* rows_mapped also counts rows that a later error rolled back.  The log bounds them: one
\* counted failure takes at most one batch with it, and no row is in neither counter.
LossBounded ==
    \A l \in logs :
        /\ l.saved + l.lost = l.mapped
        /\ l.lost <= BatchSize * l.failed
        /\ l.mapped + l.failed >= Len(l.file.rows)

\* upsert_canonical_event: "a later arrival can never null out a field an earlier arrival
\* already populated".  For plain columns this survives even two processes that merge
\* into the same event, because the UPDATE names only columns with a new value.
NeverNulled ==
    \A k \in Keys, c \in Cols : disk[k].cols[c] # None => disk'[k].cols[c] # None
NeverNullsColumn == [][NeverNulled]_vars

\* A key of a merged dict column stays, and a raw snapshot is never rewritten, by any
\* commit whose rows were merged into the event as it was when they were flushed.  Only a
\* second process that commits between a lookup and its flush can break it.
KeepsEvidence(old, new) ==
    /\ \A f \in Flags : old.flags[f] # None => new.flags[f] # None
    /\ old.pre  # None => new.pre  = old.pre
    /\ old.post # None => new.post = old.post
OutdatedMerge(w) == aux_stale[w] \/ (job[w].pc = "flush" /\ StaleFlush(w))
FreshMergeKeepsEvidence ==
    [][(\E w \in Writers : OutdatedMerge(w)) \/ \A k \in Keys : KeepsEvidence(disk[k], disk'[k])]_vars

\* Every file is finished, with a log or an error, whatever its rows do.
IngestTerminates ==
    \A w \in Writers : job[w].pc # "idle" ~> job[w].pc = "idle"

\* upsert_canonical_event: "The same rule applies regardless of whether PRE or POST
\* arrives first, so out-of-order arrival is safe".  If only POST rows of a transaction
\* have arrived, the first PRE file to arrive late leaves what they reported in place.
OutOfOrderArrivalSafe ==
    [][\A k \in Keys, c \in Cols :
          /\ disk[k].pre = None /\ disk'[k].pre # None
          /\ disk[k].cols[c] # None
          => disk'[k].cols[c] = disk[k].cols[c]]_vars
=============================================================================
