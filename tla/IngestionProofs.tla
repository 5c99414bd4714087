--------------------------- MODULE IngestionProofs ---------------------------
(***************************************************************************)
(* Proofs about Ingestion, for any number of writers, transactions,        *)
(* columns, flags and files, and any batch size.                           *)
(*                                                                         *)
(* The invariant IInv adds to the checked invariants what makes them       *)
(* inductive: where a writer stands in its file (Placed), how the counters *)
(* of process_file relate to the rows of the open transaction (Counted),   *)
(* and that the open transaction is never behind the committed table       *)
(* (Ahead).                                                                *)
(***************************************************************************)
EXTENDS Ingestion, TLAPS

Placed == \A w \in Writers :
    /\ job[w].pc = "flush" => RowsLeft(w) /\ CurrentRow(w).key # None
    /\ job[w].pc = "idle" => aux_tx[w] = NoTx

\* BatchSize, mapped and open: the open transaction has at most as many rows as were
\* mapped since the last multiple of the batch size.
CountedFor(w) ==
    /\ aux_tx[w].saved + aux_tx[w].lost + aux_tx[w].open = job[w].mapped
    /\ aux_tx[w].open <= job[w].mapped % BatchSize
    /\ aux_tx[w].lost <= BatchSize * job[w].failed
    /\ job[w].pc # "idle" => job[w].pos - 1 <= job[w].mapped + job[w].failed
    /\ job[w].pc # "idle" /\ job[w].failed = 0 => job[w].mapped = job[w].pos - 1
Counted == \A w \in Writers : job[w].pc # "idle" => CountedFor(w)

Ahead ==
    /\ \A k \in Keys, c \in Cols : disk[k].cols[c] # None => pending[k].cols[c] # None
    /\ \A w \in Writers : lock = w /\ ~aux_stale[w] =>
           \A k \in Keys : KeepsEvidence(disk[k], pending[k])

IInv == TypeOK /\ LockOnlyWhileOpen /\ Placed /\ Counted /\ Ahead

-----------------------------------------------------------------------------
(* What the merge of a row does to an event. *)

\* Merging keeps events well formed.
LEMMA MergeType ==
    ASSUME NEW e \in Event, NEW row \in Row, NEW stage \in {"PRE", "POST"}
    PROVE  Merge(e, row, stage) \in Event
<1>1. Overlay(e.cols, row.cols) \in [Cols -> Vals \cup {None}]
  BY DEF Event, Row, Overlay
<1>2. Overlay(e.flags, row.flags) \in [Flags -> Vals \cup {None}]
  BY DEF Event, Row, Overlay
<1> QED
  BY <1>1, <1>2 DEF Event, Row, Merge, Slot

\* So does the statement the session flushes, whatever event it had loaded.
LEMMA StatementType ==
    ASSUME NEW current \in Event, NEW old \in Event, NEW new \in Event
    PROVE  Statement(current, old, new) \in Event
  BY DEF Event, Statement, Dirty

\* A flush never nulls a plain column, even one merged into an outdated event.
LEMMA StatementKeepsColumns ==
    ASSUME NEW current \in Event, NEW old \in Event, NEW row \in Row,
           NEW stage \in {"PRE", "POST"}, NEW c \in Cols, current.cols[c] # None
    PROVE  Statement(current, old, Merge(old, row, stage)).cols[c] # None
<1>1. Merge(old, row, stage).cols[c] = IF row.cols[c] # None THEN row.cols[c] ELSE old.cols[c]
  BY DEF Merge, Overlay, Event
<1> QED
  BY <1>1 DEF Statement, Dirty

\* A flush merged into the event as it is keeps its flags and its snapshots.
LEMMA FreshStatementKeepsEvidence ==
    ASSUME NEW e \in Event, NEW row \in Row, NEW stage \in {"PRE", "POST"}
    PROVE  KeepsEvidence(e, Statement(e, e, Merge(e, row, stage)))
<1>1. ASSUME NEW f \in Flags, e.flags[f] # None
      PROVE  Statement(e, e, Merge(e, row, stage)).flags[f] # None
  <2>1. Merge(e, row, stage).flags[f] # None
    BY <1>1 DEF Merge, Overlay, Event
  <2> QED
    BY <1>1, <2>1 DEF Statement, Dirty
<1> QED
  BY <1>1 DEF KeepsEvidence, Statement, Dirty, Merge, Slot

-----------------------------------------------------------------------------
(* Arithmetic of the batch counter. *)

\* Two multiples of B less than B apart are the same.
LEMMA SmallMultiple ==
    ASSUME NEW B \in Nat \ {0}, NEW q \in Int, NEW p \in Int,
           B * q - B * p < B, B * p - B * q < B
    PROVE  p = q
<1>1. CASE p >= q + 1
  <2>1. B * p >= B * (q + 1)
    BY <1>1
  <2> QED
    BY <2>1
<1>2. CASE q >= p + 1
  <2>1. B * q >= B * (p + 1)
    BY <1>2
  <2> QED
    BY <2>1
<1> QED
  BY <1>1, <1>2

\* One more row moves the batch counter by one unless it fills the batch.
LEMMA ModStep ==
    ASSUME NEW B \in Nat \ {0}, NEW m \in Nat, (m + 1) % B # 0
    PROVE  (m + 1) % B = (m % B) + 1
<1>1. m = B * (m \div B) + (m % B) /\ m % B \in 0..(B - 1) /\ m \div B \in Int
  BY Z3
<1>2. /\ m + 1 = B * ((m + 1) \div B) + ((m + 1) % B)
      /\ (m + 1) % B \in 0..(B - 1)
      /\ (m + 1) \div B \in Int
  BY Z3
<1> DEFINE q == m \div B
           p == (m + 1) \div B
           r == m % B
           s == (m + 1) % B
<1>3. /\ m = B * q + r /\ r \in 0..(B - 1) /\ q \in Int
      /\ m + 1 = B * p + s /\ s \in 1..(B - 1) /\ p \in Int
  BY <1>1, <1>2
<1> HIDE DEF q, p, r, s
<1>4. B * q \in Int /\ B * p \in Int
  BY <1>3
<1>5. p = q
  <2>1. B * q - B * p < B /\ B * p - B * q < B
    BY <1>3, <1>4
  <2> QED
    BY <2>1, <1>3, SmallMultiple
<1>6. s = r + 1
  BY <1>3, <1>4, <1>5
<1> QED
  BY <1>6 DEF s, r

\* A remainder is below the batch size.
LEMMA ModRange ==
    ASSUME NEW B \in Nat \ {0}, NEW m \in Nat
    PROVE  m % B \in 0..(B - 1)
  BY Z3

\* One more failure pays for one more batch.
LEMMA OneMoreBatch ==
    ASSUME NEW B \in Nat \ {0}, NEW failed \in Nat, NEW lost \in Nat,
           lost <= B * failed, NEW more \in 0..B
    PROVE  lost + more <= B * (failed + 1)
  OBVIOUS

-----------------------------------------------------------------------------
(* What a writer that is about to flush a row works with. *)

\* The row under the cursor is a row of the file and names a transaction, and the flush
\* turns a table into a table.
LEMMA AboutToFlush ==
    ASSUME TypeOK, Placed, NEW w \in Writers, job[w].pc = "flush"
    PROVE  /\ CurrentRow(w) \in Row
           /\ CurrentRow(w).key \in Keys
           /\ job[w].file.stage \in {"PRE", "POST"}
           /\ Visible(w) \in [Keys -> Event]
           /\ Flushed(w) \in [Keys -> Event]
<1>1. job[w].file \in Files /\ job[w].file \in File
  BY FilesAssumption DEF TypeOK
<1>2. job[w].file.stage \in {"PRE", "POST"} /\ job[w].file.rows \in Seq(Row)
  BY <1>1 DEF File
<1>3. job[w].pos \in 1..Len(job[w].file.rows)
  BY <1>2 DEF TypeOK, Placed, RowsLeft
<1>4. CurrentRow(w) \in Row
  BY <1>2, <1>3 DEF CurrentRow
<1>5. CurrentRow(w).key \in Keys
  BY <1>4 DEF Placed, Row
<1>6. Visible(w) \in [Keys -> Event]
  BY DEF TypeOK, Visible
<1>7. Flushed(w) \in [Keys -> Event]
  <2>1. loaded[w] \in Event
    BY DEF TypeOK
  <2>2. Merge(loaded[w], CurrentRow(w), job[w].file.stage) \in Event
    BY <2>1, <1>2, <1>4, MergeType
  <2>3. Visible(w)[CurrentRow(w).key] \in Event
    BY <1>5, <1>6
  <2>4. Statement(Visible(w)[CurrentRow(w).key], loaded[w],
                  Merge(loaded[w], CurrentRow(w), job[w].file.stage)) \in Event
    BY <2>1, <2>2, <2>3, StatementType
  <2> QED
    BY <2>4, <1>6 DEF Flushed
<1> QED
  BY <1>2, <1>4, <1>5, <1>6, <1>7

\* The flush nulls no column of the table it is applied to, and if the event loaded is
\* the current one it keeps all evidence.
LEMMA FlushKeeps ==
    ASSUME TypeOK, Placed, NEW w \in Writers, job[w].pc = "flush", NEW k \in Keys
    PROVE  /\ \A c \in Cols : Visible(w)[k].cols[c] # None => Flushed(w)[k].cols[c] # None
           /\ ~StaleFlush(w) => KeepsEvidence(Visible(w)[k], Flushed(w)[k])
<1> DEFINE row == CurrentRow(w)
           stage == job[w].file.stage
<1>1. /\ row \in Row /\ row.key \in Keys /\ stage \in {"PRE", "POST"}
      /\ Visible(w) \in [Keys -> Event] /\ loaded[w] \in Event
  BY AboutToFlush DEF TypeOK
<1>2. CASE k # row.key
  BY <1>1, <1>2 DEF Flushed, KeepsEvidence
<1>3. CASE k = row.key
  <2>1. Flushed(w)[k] = Statement(Visible(w)[k], loaded[w], Merge(loaded[w], row, stage))
    BY <1>1, <1>3 DEF Flushed
  <2>2. ASSUME NEW c \in Cols, Visible(w)[k].cols[c] # None
        PROVE  Flushed(w)[k].cols[c] # None
    <3>1. Visible(w)[k] \in Event
      BY <1>1
    <3> HIDE DEF row, stage
    <3> QED
      BY <1>1, <2>1, <2>2, <3>1, StatementKeepsColumns
  <2>3. ASSUME ~StaleFlush(w)
        PROVE  KeepsEvidence(Visible(w)[k], Flushed(w)[k])
    <3>1. Visible(w)[k] = loaded[w]
      BY <1>3, <2>3 DEF StaleFlush
    <3> HIDE DEF row, stage
    <3> QED
      BY <1>1, <2>1, <3>1, FreshStatementKeepsEvidence
  <2> QED
    BY <2>2, <2>3
<1> QED
  BY <1>2, <1>3

\* Keeping evidence is transitive: what two flushes in a row keep, the pair keeps.
LEMMA KeepsEvidenceTransitive ==
    ASSUME NEW a, NEW b, NEW c, KeepsEvidence(a, b), KeepsEvidence(b, c)
    PROVE  KeepsEvidence(a, c)
  BY DEF KeepsEvidence

-----------------------------------------------------------------------------
(* IInv is inductive: one lemma per action. *)

\* No transaction is open and no file in progress at first.
LEMMA InitInv == Init => IInv
<1> SUFFICES ASSUME Init PROVE IInv
  OBVIOUS
<1>1. NoEvent \in Event
  BY DEF NoEvent, Event
<1>2. NoJob \in JobType /\ NoTx \in [open : 0..(BatchSize - 1), saved : Nat, lost : Nat]
  BY BatchAssumption DEF NoJob, Job, NoTx, Tx, JobType
<1>3. TypeOK
  BY <1>1, <1>2, JobsAssumption DEF Init, TypeOK, NoJob, Job
<1>4. LockOnlyWhileOpen
  BY NoneAssumption DEF Init, LockOnlyWhileOpen, NoTx, Tx
<1>5. Placed /\ Counted
  BY DEF Init, Placed, Counted, NoJob, Job, NoTx, Tx
<1>6. Ahead
  BY NoneAssumption DEF Init, Ahead, NoEvent
<1> QED
  BY <1>3, <1>4, <1>5, <1>6 DEF IInv

\* A file begins with fresh counters and an empty transaction.
LEMMA StartInv ==
    ASSUME IInv, NEW w \in Writers, NEW f \in Files, Start(w, f)
    PROVE  IInv'
<1>1. f \in File /\ Len(f.rows) \in Nat
  BY FilesAssumption DEF File
<1>2. /\ job' = [job EXCEPT ![w] = [pc |-> "row", file |-> f, pos |-> 1,
                                    mapped |-> 0, failed |-> 0]]
      /\ aux_tx' = [aux_tx EXCEPT ![w] = [open |-> 0, saved |-> 0, lost |-> 0]]
      /\ job[w].pc = "idle" /\ jobs < MaxJobs /\ jobs' = jobs + 1
      /\ UNCHANGED <<disk, pending, lock, loaded, logs, aux_stale>>
  BY DEF Start, Job, NoTx, Tx
<1>3. TypeOK'
  <2>1. job' \in [Writers -> JobType]
    BY <1>2 DEF IInv, TypeOK, JobType
  <2>2. aux_tx' \in [Writers -> [open : 0..(BatchSize - 1), saved : Nat, lost : Nat]]
    BY <1>2, BatchAssumption DEF IInv, TypeOK
  <2>3. jobs' \in 0..MaxJobs
    BY <1>2, JobsAssumption DEF IInv, TypeOK
  <2>4. ASSUME NEW v \in Writers, job'[v].pc # "idle"
        PROVE  job'[v].file \in Files /\ job'[v].pos \in 1..(Len(job'[v].file.rows) + 1)
    BY <1>1, <1>2, <2>4 DEF IInv, TypeOK
  <2> QED
    BY <1>2, <2>1, <2>2, <2>3, <2>4 DEF IInv, TypeOK
<1>4. LockOnlyWhileOpen'
  <2>1. lock # w /\ aux_tx[w].open = 0
    BY <1>2 DEF IInv, LockOnlyWhileOpen, Placed, NoTx, Tx
  <2> QED
    BY <1>2, <2>1 DEF IInv, LockOnlyWhileOpen, TypeOK
<1>5. Placed'
  BY <1>2 DEF IInv, Placed, TypeOK, RowsLeft, CurrentRow
<1>6. Counted'
  <2>1. ASSUME NEW v \in Writers, job'[v].pc # "idle"
        PROVE  CountedFor(v)'
    <3>1. CASE v = w
      <4>1. 0 % BatchSize \in Nat /\ BatchSize * 0 = 0
        BY BatchAssumption, ModRange
      <4> QED
        BY <1>2, <3>1, <4>1 DEF CountedFor, IInv, TypeOK
    <3>2. CASE v # w
      BY <1>2, <2>1, <3>2 DEF CountedFor, Counted, IInv, TypeOK
    <3> QED
      BY <3>1, <3>2
  <2> QED
    BY <2>1 DEF Counted
<1>7. Ahead'
  BY <1>2 DEF IInv, Ahead
<1> QED
  BY <1>3, <1>4, <1>5, <1>6, <1>7 DEF IInv

\* A row that fails before the database is touched counts as one failure and loses nothing else.
LEMMA BadRowInv ==
    ASSUME IInv, NEW w \in Writers, BadRow(w)
    PROVE  IInv'
<1>1. /\ job' = [job EXCEPT ![w] = [pc |-> "row", file |-> job[w].file, pos |-> job[w].pos + 1,
                                    mapped |-> job[w].mapped + 0, failed |-> job[w].failed + 1]]
      /\ job[w].pc = "row" /\ job[w].pos <= Len(job[w].file.rows)
      /\ UNCHANGED <<disk, pending, lock, loaded, logs, jobs, aux_tx, aux_stale>>
  BY DEF BadRow, NextRow, RowsLeft, Job
<1>2. job[w] \in JobType /\ job[w].file \in Files /\ Len(job[w].file.rows) \in Nat
  BY <1>1, FilesAssumption DEF IInv, TypeOK, File
<1>3. TypeOK'
  <2>1. job' \in [Writers -> JobType]
    <3> DEFINE next == [pc |-> "row", file |-> job[w].file, pos |-> job[w].pos + 1,
                        mapped |-> job[w].mapped + 0, failed |-> job[w].failed + 1]
    <3>1. next \in JobType
      BY <1>2 DEF JobType
    <3>2. job' = [job EXCEPT ![w] = next] /\ job \in [Writers -> JobType]
      BY <1>1 DEF IInv, TypeOK
    <3> HIDE DEF next
    <3> QED
      BY <3>1, <3>2
  <2>2. ASSUME NEW v \in Writers, job'[v].pc # "idle"
        PROVE  job'[v].file \in Files /\ job'[v].pos \in 1..(Len(job'[v].file.rows) + 1)
    BY <1>1, <1>2, <2>2 DEF IInv, TypeOK, JobType
  <2> QED
    BY <1>1, <2>1, <2>2 DEF IInv, TypeOK
<1>4. LockOnlyWhileOpen'
  BY <1>1 DEF IInv, LockOnlyWhileOpen, TypeOK
<1>5. Placed'
  BY <1>1 DEF IInv, Placed, TypeOK, RowsLeft, CurrentRow
<1>6. Counted'
  <2>1. ASSUME NEW v \in Writers, job'[v].pc # "idle"
        PROVE  CountedFor(v)'
    <3>1. CASE v = w
      <4>1. CountedFor(w)
        BY <1>1 DEF IInv, Counted
      <4>2. aux_tx[w].lost + 0 <= BatchSize * (job[w].failed + 1)
        <5>1. aux_tx[w].lost \in Nat /\ job[w].failed \in Nat
          BY <1>2 DEF IInv, TypeOK, JobType
        <5>2. aux_tx[w].lost <= BatchSize * job[w].failed
          BY <4>1 DEF CountedFor
        <5>3. 0 \in 0..BatchSize
          BY BatchAssumption
        <5> QED
          BY <5>1, <5>2, <5>3, OneMoreBatch, BatchAssumption
      <4>3. /\ job'[w].mapped = job[w].mapped /\ job'[w].pos = job[w].pos + 1
            /\ job'[w].failed = job[w].failed + 1 /\ aux_tx'[w] = aux_tx[w]
        BY <1>1, <1>2 DEF IInv, TypeOK, JobType
      <4>4. aux_tx[w].lost \in Nat /\ job[w].pc # "idle"
            /\ job[w].mapped \in Nat /\ job[w].failed \in Nat /\ job[w].pos \in Nat
        BY <1>1, <1>2 DEF IInv, TypeOK, JobType
      <4> QED
        BY <3>1, <4>1, <4>2, <4>3, <4>4 DEF CountedFor
    <3>2. CASE v # w
      BY <1>1, <2>1, <3>2 DEF CountedFor, Counted, IInv, TypeOK
    <3> QED
      BY <3>1, <3>2
  <2> QED
    BY <2>1 DEF Counted
<1>7. Ahead'
  BY <1>1 DEF IInv, Ahead
<1> QED
  BY <1>3, <1>4, <1>5, <1>6, <1>7 DEF IInv

\* The SELECT before a merge changes nothing but what the writer has loaded.
LEMMA LookupInv ==
    ASSUME IInv, NEW w \in Writers, Lookup(w)
    PROVE  IInv'
<1>1. /\ job' = [job EXCEPT ![w] = [pc |-> "flush", file |-> job[w].file, pos |-> job[w].pos,
                                    mapped |-> job[w].mapped, failed |-> job[w].failed]]
      /\ loaded' = [loaded EXCEPT ![w] = Visible(w)[CurrentRow(w).key]]
      /\ job[w].pc = "row" /\ RowsLeft(w) /\ CurrentRow(w).key # None
      /\ UNCHANGED <<disk, pending, lock, logs, jobs, aux_tx, aux_stale>>
  BY DEF Lookup, Job
<1>2. CurrentRow(w).key \in Keys
  <2>1. job[w].file \in File /\ job[w].pos \in 1..Len(job[w].file.rows)
    BY <1>1, FilesAssumption DEF IInv, TypeOK, RowsLeft, File
  <2>2. CurrentRow(w) \in Row
    BY <2>1 DEF CurrentRow, File
  <2> QED
    BY <1>1, <2>2 DEF Row
<1>3. TypeOK'
  BY <1>1, <1>2 DEF IInv, TypeOK, JobType, Visible
<1>4. LockOnlyWhileOpen'
  BY <1>1 DEF IInv, LockOnlyWhileOpen, TypeOK
<1>5. Placed'
  BY <1>1 DEF IInv, Placed, TypeOK, RowsLeft, CurrentRow
<1>6. Counted'
  BY <1>1 DEF IInv, Counted, CountedFor, TypeOK
<1>7. Ahead'
  BY <1>1 DEF IInv, Ahead
<1> QED
  BY <1>3, <1>4, <1>5, <1>6, <1>7 DEF IInv

\* What a rollback leaves of the tables and the lock.
LEMMA RollbackTables ==
    ASSUME IInv, NEW w \in Writers, RolledBack(w)
    PROVE  /\ disk' = disk /\ pending' \in [Keys -> Event]
           /\ lock' \in Writers \cup {None} /\ lock' # w
           /\ lock' = None => pending' = disk'
           /\ \A v \in Writers \ {w} : lock' = v <=> lock = v
           /\ aux_stale' \in [Writers -> BOOLEAN]
           /\ Ahead'
<1>1. w # None
  BY NoneAssumption
<1>2. disk' = disk /\ aux_stale' = [aux_stale EXCEPT ![w] = FALSE]
  BY DEF RolledBack
<1>3. CASE lock = w
  <2>1. pending' = disk /\ lock' = None
    BY <1>3 DEF RolledBack
  <2>2. \A v \in Writers : v # None
    BY NoneAssumption
  <2>3. Ahead'
    BY <1>2, <2>1, <2>2 DEF Ahead
  <2> QED
    BY <1>1, <1>2, <1>3, <2>1, <2>2, <2>3 DEF IInv, TypeOK
<1>4. CASE lock # w
  <2>1. pending' = pending /\ lock' = lock
    BY <1>4 DEF RolledBack
  <2>2. Ahead'
    BY <1>2, <1>4, <2>1 DEF IInv, Ahead, TypeOK
  <2> QED
    BY <1>2, <1>4, <2>1, <2>2 DEF IInv, TypeOK, LockOnlyWhileOpen
<1> QED
  BY <1>3, <1>4

\* What a commit leaves of them.
LEMMA CommitTables ==
    ASSUME IInv, NEW db \in [Keys -> Event], Committed(db)
    PROVE  /\ disk' \in [Keys -> Event] /\ pending' = disk' /\ lock' = None
           /\ \A v \in Writers : lock' # v
           /\ Ahead'
  BY NoneAssumption DEF Committed, Ahead

\* The counters of a writer that moves to its next row, when its transaction is closed.
LEMMA CountedAfterClose ==
    ASSUME IInv, NEW w \in Writers, job[w].pc # "idle",
           NEW mapped \in {0, 1}, NEW failed \in {0, 1}, mapped + failed >= 1,
           NEW saved \in Nat, NEW lost \in Nat,
           saved + lost = job[w].mapped + mapped,
           lost <= BatchSize * (job[w].failed + failed),
           NextRow(w, mapped, failed),
           aux_tx' = [aux_tx EXCEPT ![w] = Tx(0, saved, lost)]
    PROVE  Counted'
<1>1. /\ job' = [job EXCEPT ![w] = [pc |-> "row", file |-> job[w].file, pos |-> job[w].pos + 1,
                                    mapped |-> job[w].mapped + mapped,
                                    failed |-> job[w].failed + failed]]
      /\ aux_tx' = [aux_tx EXCEPT ![w] = [open |-> 0, saved |-> saved, lost |-> lost]]
  BY DEF NextRow, Job, Tx
<1>2. job[w] \in JobType /\ CountedFor(w)
  BY DEF IInv, TypeOK, Counted
<1>3. CountedFor(w)'
  <2>1. (job[w].mapped + mapped) % BatchSize \in 0..(BatchSize - 1)
    BY <1>2, BatchAssumption, ModRange DEF JobType
  <2>2. /\ job'[w].mapped = job[w].mapped + mapped /\ job'[w].pos = job[w].pos + 1
        /\ job'[w].failed = job[w].failed + failed
        /\ aux_tx'[w].open = 0 /\ aux_tx'[w].saved = saved /\ aux_tx'[w].lost = lost
    BY <1>1 DEF IInv, TypeOK
  <2>3. /\ aux_tx'[w].saved + aux_tx'[w].lost + aux_tx'[w].open = job'[w].mapped
        /\ aux_tx'[w].open <= job'[w].mapped % BatchSize
        /\ aux_tx'[w].lost <= BatchSize * job'[w].failed
    BY <2>1, <2>2, BatchAssumption
  <2>4. /\ job'[w].pos - 1 <= job'[w].mapped + job'[w].failed
        /\ job'[w].failed = 0 => job'[w].mapped = job'[w].pos - 1
    BY <1>2, <2>2 DEF CountedFor, JobType
  <2> QED
    BY <2>3, <2>4 DEF CountedFor
<1>4. ASSUME NEW v \in Writers \ {w}, job'[v].pc # "idle"
      PROVE  CountedFor(v)'
  BY <1>1, <1>4 DEF CountedFor, Counted, IInv, TypeOK
<1> QED
  BY <1>3, <1>4 DEF Counted

\* The types of a writer's record when it moves to its next row.
LEMMA NextRowType ==
    ASSUME IInv, NEW w \in Writers, job[w].pc # "idle", job[w].pos <= Len(job[w].file.rows),
           NEW mapped \in Nat, NEW failed \in Nat, NextRow(w, mapped, failed)
    PROVE  /\ job' \in [Writers -> JobType]
           /\ \A v \in Writers : job'[v].pc # "idle" =>
                  job'[v].file \in Files /\ job'[v].pos \in 1..(Len(job'[v].file.rows) + 1)
           /\ job'[w].pc = "row"
           /\ \A v \in Writers \ {w} : job'[v] = job[v]
<1>1. job' = [job EXCEPT ![w] = [pc |-> "row", file |-> job[w].file, pos |-> job[w].pos + 1,
                                 mapped |-> job[w].mapped + mapped,
                                 failed |-> job[w].failed + failed]]
  BY DEF NextRow, Job
<1>2. job[w] \in JobType /\ job[w].file \in Files /\ Len(job[w].file.rows) \in Nat
  BY FilesAssumption DEF IInv, TypeOK, File
<1>3. job' \in [Writers -> JobType]
  <2> DEFINE next == [pc |-> "row", file |-> job[w].file, pos |-> job[w].pos + 1,
                      mapped |-> job[w].mapped + mapped, failed |-> job[w].failed + failed]
  <2>1. next \in JobType
    BY <1>2 DEF JobType
  <2>2. job' = [job EXCEPT ![w] = next] /\ job \in [Writers -> JobType]
    BY <1>1 DEF IInv, TypeOK
  <2> HIDE DEF next
  <2> QED
    BY <2>1, <2>2
<1>4. ASSUME NEW v \in Writers, job'[v].pc # "idle"
      PROVE  job'[v].file \in Files /\ job'[v].pos \in 1..(Len(job'[v].file.rows) + 1)
  <2>1. CASE v = w
    <3>1. job'[w].file = job[w].file /\ job'[w].pos = job[w].pos + 1
      BY <1>1 DEF IInv, TypeOK
    <3>2. job[w].pos \in 1..(Len(job[w].file.rows) + 1)
      BY DEF IInv, TypeOK
    <3> QED
      BY <1>2, <2>1, <3>1, <3>2
  <2>2. CASE v # w
    <3>1. job'[v] = job[v]
      BY <1>1, <2>2 DEF IInv, TypeOK
    <3> QED
      BY <1>4, <3>1 DEF IInv, TypeOK
  <2> QED
    BY <2>1, <2>2
<1>5. job'[w].pc = "row" /\ \A v \in Writers \ {w} : job'[v] = job[v]
  <2>1. job \in [Writers -> JobType]
    BY DEF IInv, TypeOK
  <2> QED
    BY <1>1, <2>1
<1> QED
  BY <1>3, <1>4, <1>5

\* A row that does not fill the batch stays in the open transaction.
LEMMA FlushRowInv ==
    ASSUME IInv, NEW w \in Writers, FlushRow(w)
    PROVE  IInv'
<1> DEFINE k == CurrentRow(w).key
<1>1. /\ job[w].pc = "flush" /\ CanWrite(w) /\ ~BatchFull(job[w].mapped + 1)
      /\ pending' = Flushed(w) /\ lock' = w /\ NextRow(w, 1, 0)
      /\ aux_tx' = [aux_tx EXCEPT ![w] = [open |-> aux_tx[w].open + 1, saved |-> aux_tx[w].saved,
                                          lost |-> aux_tx[w].lost]]
      /\ aux_stale' = [aux_stale EXCEPT ![w] = aux_stale[w] \/ StaleFlush(w)]
      /\ UNCHANGED <<disk, loaded, logs, jobs>>
  BY DEF FlushRow, Flushable, Tx
<1>2. w # None /\ job[w].pos <= Len(job[w].file.rows) /\ job[w] \in JobType
  BY <1>1, NoneAssumption DEF IInv, TypeOK, Placed, RowsLeft
<1>3. /\ job' \in [Writers -> JobType]
      /\ \A v \in Writers : job'[v].pc # "idle" =>
             job'[v].file \in Files /\ job'[v].pos \in 1..(Len(job'[v].file.rows) + 1)
      /\ job'[w].pc = "row"
      /\ \A v \in Writers \ {w} : job'[v] = job[v]
  BY <1>1, <1>2, NextRowType
<1>4. CountedFor(w) /\ aux_tx[w] \in [open : 0..(BatchSize - 1), saved : Nat, lost : Nat]
  BY <1>1 DEF IInv, Counted, TypeOK
<1>5. /\ (job[w].mapped + 1) % BatchSize = (job[w].mapped % BatchSize) + 1
      /\ (job[w].mapped + 1) % BatchSize \in 0..(BatchSize - 1)
      /\ job[w].mapped % BatchSize \in 0..(BatchSize - 1)
  BY <1>1, <1>2, BatchAssumption, ModStep, ModRange DEF BatchFull, JobType
<1>6. aux_tx[w].open + 1 \in 0..(BatchSize - 1)
  BY <1>4, <1>5, BatchAssumption DEF CountedFor
<1>7. TypeOK'
  <2>1. aux_tx' \in [Writers -> [open : 0..(BatchSize - 1), saved : Nat, lost : Nat]]
    BY <1>1, <1>4, <1>6 DEF IInv, TypeOK
  <2>2. Flushed(w) \in [Keys -> Event]
    BY <1>1, AboutToFlush DEF IInv
  <2>3. aux_stale' \in [Writers -> BOOLEAN]
    BY <1>1 DEF IInv, TypeOK, StaleFlush
  <2> QED
    BY <1>1, <1>3, <2>1, <2>2, <2>3 DEF IInv, TypeOK
<1>8. LockOnlyWhileOpen'
  <2>1. \A v \in Writers \ {w} : aux_tx'[v].open = aux_tx[v].open /\ lock # v
    <3>1. aux_tx \in [Writers -> [open : 0..(BatchSize - 1), saved : Nat, lost : Nat]]
      BY DEF IInv, TypeOK
    <3>2. \A v \in Writers \ {w} : aux_tx'[v] = aux_tx[v]
      BY <1>1, <3>1
    <3>3. \A v \in Writers \ {w} : lock # v
      BY <1>1, NoneAssumption DEF CanWrite
    <3> QED
      BY <3>2, <3>3
  <2>2. \A v \in Writers \ {w} : ~(aux_tx[v].open > 0)
    BY <2>1 DEF IInv, LockOnlyWhileOpen
  <2>3. aux_tx'[w].open = aux_tx[w].open + 1
    BY <1>1 DEF IInv, TypeOK
  <2> QED
    BY <1>1, <1>2, <1>3, <1>6, <2>1, <2>2, <2>3, <1>4 DEF LockOnlyWhileOpen
<1>9. Placed'
  BY <1>1, <1>3 DEF IInv, TypeOK, Placed, RowsLeft, CurrentRow
<1>10. Counted'
  <2>1. CountedFor(w)'
    <3>1. /\ job'[w].mapped = job[w].mapped + 1 /\ job'[w].pos = job[w].pos + 1
          /\ job'[w].failed = job[w].failed
      BY <1>1, <1>2 DEF NextRow, Job, IInv, TypeOK, JobType
    <3>2. /\ aux_tx'[w].open = aux_tx[w].open + 1 /\ aux_tx'[w].saved = aux_tx[w].saved
          /\ aux_tx'[w].lost = aux_tx[w].lost
      BY <1>1 DEF IInv, TypeOK
    <3>3. aux_tx'[w].open <= job'[w].mapped % BatchSize
      BY <1>4, <1>5, <3>1, <3>2 DEF CountedFor
    <3>4. /\ aux_tx'[w].saved + aux_tx'[w].lost + aux_tx'[w].open = job'[w].mapped
          /\ aux_tx'[w].lost <= BatchSize * job'[w].failed
          /\ job'[w].pos - 1 <= job'[w].mapped + job'[w].failed
          /\ job'[w].failed = 0 => job'[w].mapped = job'[w].pos - 1
      <4>1. /\ job[w].mapped \in Nat /\ job[w].failed \in Nat /\ job[w].pos \in Nat
            /\ aux_tx[w].saved \in Nat /\ aux_tx[w].lost \in Nat /\ aux_tx[w].open \in Nat
        BY <1>2, <1>4 DEF JobType
      <4>2. /\ aux_tx[w].saved + aux_tx[w].lost + aux_tx[w].open = job[w].mapped
            /\ aux_tx[w].lost <= BatchSize * job[w].failed
            /\ job[w].pos - 1 <= job[w].mapped + job[w].failed
            /\ job[w].failed = 0 => job[w].mapped = job[w].pos - 1
        BY <1>1, <1>4 DEF CountedFor
      <4>3. aux_tx'[w].lost <= BatchSize * job'[w].failed
        BY <4>2, <3>1, <3>2
      <4> QED
        BY <4>1, <4>2, <4>3, <3>1, <3>2
    <3> QED
      BY <3>3, <3>4 DEF CountedFor
  <2>2. ASSUME NEW v \in Writers \ {w}, job'[v].pc # "idle"
        PROVE  CountedFor(v)'
    BY <1>1, <1>3, <2>2 DEF CountedFor, Counted, IInv, TypeOK
  <2> QED
    BY <2>1, <2>2 DEF Counted
<1>11. Ahead'
  <2>1. \A key \in Keys : /\ \A c \in Cols : Visible(w)[key].cols[c] # None
                                              => Flushed(w)[key].cols[c] # None
                          /\ ~StaleFlush(w) => KeepsEvidence(Visible(w)[key], Flushed(w)[key])
    BY <1>1, FlushKeeps DEF IInv
  <2>2. \A key \in Keys, c \in Cols : disk[key].cols[c] # None => Visible(w)[key].cols[c] # None
    BY DEF IInv, Ahead, Visible
  <2>3. ASSUME ~aux_stale'[w], NEW key \in Keys
        PROVE  KeepsEvidence(disk[key], Flushed(w)[key])
    <3>1. ~aux_stale[w] /\ ~StaleFlush(w)
      BY <1>1, <2>3 DEF IInv, TypeOK
    <3>2. KeepsEvidence(disk[key], Visible(w)[key])
      BY <3>1 DEF IInv, Ahead, Visible, KeepsEvidence
    <3> QED
      BY <2>1, <3>1, <3>2, KeepsEvidenceTransitive
  <2> QED
    BY <1>1, <2>1, <2>2, <2>3 DEF Ahead
<1> QED
  BY <1>7, <1>8, <1>9, <1>10, <1>11 DEF IInv

\* What an action that closes a writer's transaction, at a row it was flushing, owes to the
\* rest of the invariant: the tables and the lock, the counters and the types.
LEMMA ClosedInv ==
    ASSUME IInv, NEW w \in Writers, job[w].pc = "flush",
           NEW mapped \in {0, 1}, NEW failed \in {0, 1}, mapped + failed >= 1,
           NEW saved \in Nat, NEW lost \in Nat,
           saved + lost = job[w].mapped + mapped,
           lost <= BatchSize * (job[w].failed + failed),
           NextRow(w, mapped, failed),
           aux_tx' = [aux_tx EXCEPT ![w] = Tx(0, saved, lost)],
           UNCHANGED <<loaded, logs, jobs>>,
           disk' \in [Keys -> Event], pending' \in [Keys -> Event],
           lock' \in Writers \cup {None}, lock' # w,
           lock' = None => pending' = disk',
           \A v \in Writers \ {w} : lock' = v <=> lock = v,
           aux_stale' \in [Writers -> BOOLEAN], Ahead'
    PROVE  IInv'
<1>1. aux_tx' = [aux_tx EXCEPT ![w] = [open |-> 0, saved |-> saved, lost |-> lost]]
  BY DEF Tx
<1>2. job[w].pos <= Len(job[w].file.rows)
  BY DEF IInv, Placed, RowsLeft
<1>3. /\ job' \in [Writers -> JobType]
      /\ \A v \in Writers : job'[v].pc # "idle" =>
             job'[v].file \in Files /\ job'[v].pos \in 1..(Len(job'[v].file.rows) + 1)
      /\ job'[w].pc = "row"
      /\ \A v \in Writers \ {w} : job'[v] = job[v]
  BY <1>2, NextRowType
<1>4. aux_tx \in [Writers -> [open : 0..(BatchSize - 1), saved : Nat, lost : Nat]]
  BY DEF IInv, TypeOK
<1>5. aux_tx' \in [Writers -> [open : 0..(BatchSize - 1), saved : Nat, lost : Nat]]
  BY <1>1, <1>4, BatchAssumption
<1>6. TypeOK'
  BY <1>3, <1>5 DEF IInv, TypeOK
<1>7. aux_tx'[w].open = 0 /\ \A v \in Writers \ {w} : aux_tx'[v] = aux_tx[v]
  BY <1>1, <1>4
<1>8. LockOnlyWhileOpen'
  BY <1>3, <1>7 DEF IInv, LockOnlyWhileOpen
<1>9. Placed'
  BY <1>3, <1>7 DEF IInv, Placed, RowsLeft, CurrentRow
<1>10. Counted'
  BY CountedAfterClose
<1> QED
  BY <1>6, <1>8, <1>9, <1>10 DEF IInv

\* The counters of a writer that is flushing a row, as numbers.
LEMMA CountsOf ==
    ASSUME IInv, NEW w \in Writers, job[w].pc # "idle"
    PROVE  /\ job[w].mapped \in Nat /\ job[w].failed \in Nat /\ job[w].pos \in Nat
           /\ aux_tx[w].saved \in Nat /\ aux_tx[w].lost \in Nat
           /\ aux_tx[w].open \in 0..(BatchSize - 1)
           /\ aux_tx[w].saved + aux_tx[w].lost + aux_tx[w].open = job[w].mapped
           /\ aux_tx[w].lost <= BatchSize * job[w].failed
<1>1. job[w] \in JobType /\ aux_tx[w] \in [open : 0..(BatchSize - 1), saved : Nat, lost : Nat]
  BY DEF IInv, TypeOK
<1> QED
  BY <1>1 DEF JobType, IInv, Counted, CountedFor

\* The row that fills the batch commits it.
LEMMA FlushAndCommitInv ==
    ASSUME IInv, NEW w \in Writers, FlushAndCommit(w)
    PROVE  IInv'
<1> DEFINE saved == aux_tx[w].saved + aux_tx[w].open + 1
           lost  == aux_tx[w].lost
<1>1. /\ job[w].pc = "flush" /\ CanWrite(w) /\ Committed(Flushed(w)) /\ NextRow(w, 1, 0)
      /\ aux_tx' = [aux_tx EXCEPT ![w] = Tx(0, saved, lost)]
      /\ aux_stale' = [aux_stale EXCEPT ![w] = FALSE]
      /\ UNCHANGED <<loaded, logs, jobs>>
  BY DEF FlushAndCommit, Flushable, RowsSaved
<1>2. /\ saved \in Nat /\ lost \in Nat /\ saved + lost = job[w].mapped + 1
      /\ lost <= BatchSize * (job[w].failed + 0)
  BY <1>1, CountsOf, BatchAssumption
<1>3. Flushed(w) \in [Keys -> Event]
  BY <1>1, AboutToFlush DEF IInv
<1>4. /\ disk' \in [Keys -> Event] /\ pending' = disk' /\ lock' = None
      /\ \A v \in Writers : lock' # v
      /\ Ahead'
  BY <1>1, <1>3, CommitTables
<1>5. \A v \in Writers \ {w} : lock # v
  BY <1>1, NoneAssumption DEF CanWrite
<1>6. aux_stale' \in [Writers -> BOOLEAN]
  BY <1>1 DEF IInv, TypeOK
<1>7. /\ pending' \in [Keys -> Event] /\ lock' \in Writers \cup {None} /\ lock' # w
      /\ lock' = None => pending' = disk'
      /\ \A v \in Writers \ {w} : lock' = v <=> lock = v
  BY <1>4, <1>5
<1>8. 1 \in {0, 1} /\ 0 \in {0, 1} /\ 1 + 0 >= 1
  OBVIOUS
<1> HIDE DEF saved, lost
<1> QED
  BY <1>1, <1>2, <1>4, <1>6, <1>7, <1>8, ClosedInv, ZenonT(30)

\* A database error loses the open transaction, at most a batch, and counts once.
LEMMA RowErrorInv ==
    ASSUME IInv, NEW w \in Writers, RowError(w)
    PROVE  IInv'
<1> DEFINE saved == aux_tx[w].saved
           lost  == aux_tx[w].lost + aux_tx[w].open + 0
<1>1. /\ job[w].pc = "flush" /\ RolledBack(w) /\ NextRow(w, 0, 1)
      /\ aux_tx' = [aux_tx EXCEPT ![w] = Tx(0, saved, lost)]
      /\ UNCHANGED <<loaded, logs, jobs>>
  BY DEF RowError, RowsLost
<1>2. saved \in Nat /\ lost \in Nat /\ saved + lost = job[w].mapped + 0
  BY <1>1, CountsOf, BatchAssumption
<1>3. lost <= BatchSize * (job[w].failed + 1)
  <2>1. aux_tx[w].open + 0 \in 0..BatchSize
    BY <1>1, CountsOf, BatchAssumption
  <2> QED
    BY <1>1, <2>1, CountsOf, BatchAssumption, OneMoreBatch
<1>4. disk' \in [Keys -> Event]
  BY <1>1, RollbackTables DEF IInv, TypeOK
<1>5. /\ pending' \in [Keys -> Event] /\ lock' \in Writers \cup {None} /\ lock' # w
      /\ lock' = None => pending' = disk'
      /\ \A v \in Writers \ {w} : lock' = v <=> lock = v
      /\ aux_stale' \in [Writers -> BOOLEAN]
      /\ Ahead'
  BY <1>1, RollbackTables
<1>6. 1 \in {0, 1} /\ 0 \in {0, 1} /\ 0 + 1 >= 1
  OBVIOUS
<1> HIDE DEF saved, lost
<1> QED
  BY <1>1, <1>2, <1>3, <1>4, <1>5, <1>6, ClosedInv, ZenonT(30)

\* So does the failure of the commit that the full batch calls for.
LEMMA CommitErrorInv ==
    ASSUME IInv, NEW w \in Writers, CommitError(w)
    PROVE  IInv'
<1> DEFINE saved == aux_tx[w].saved
           lost  == aux_tx[w].lost + aux_tx[w].open + 1
<1>1. /\ job[w].pc = "flush" /\ RolledBack(w) /\ NextRow(w, 1, 1)
      /\ aux_tx' = [aux_tx EXCEPT ![w] = Tx(0, saved, lost)]
      /\ UNCHANGED <<loaded, logs, jobs>>
  BY DEF CommitError, Flushable, RowsLost
<1>2. saved \in Nat /\ lost \in Nat /\ saved + lost = job[w].mapped + 1
  BY <1>1, CountsOf, BatchAssumption
<1>3. lost <= BatchSize * (job[w].failed + 1)
  <2>1. aux_tx[w].open + 1 \in 0..BatchSize
    BY <1>1, CountsOf, BatchAssumption
  <2> QED
    BY <1>1, <2>1, CountsOf, BatchAssumption, OneMoreBatch
<1>4. disk' \in [Keys -> Event]
  BY <1>1, RollbackTables DEF IInv, TypeOK
<1>5. /\ pending' \in [Keys -> Event] /\ lock' \in Writers \cup {None} /\ lock' # w
      /\ lock' = None => pending' = disk'
      /\ \A v \in Writers \ {w} : lock' = v <=> lock = v
      /\ aux_stale' \in [Writers -> BOOLEAN]
      /\ Ahead'
  BY <1>1, RollbackTables
<1>6. 1 \in {0, 1} /\ 0 \in {0, 1} /\ 1 + 1 >= 1
  OBVIOUS
<1> HIDE DEF saved, lost
<1> QED
  BY <1>1, <1>2, <1>3, <1>4, <1>5, <1>6, ClosedInv, ZenonT(30)

\* A writer that leaves process_file, by whatever way, with its transaction closed.
LEMMA LeftInv ==
    ASSUME IInv, NEW w \in Writers,
           job' = [job EXCEPT ![w] = NoJob],
           aux_tx' = [aux_tx EXCEPT ![w] = NoTx],
           UNCHANGED <<loaded, jobs>>, logs' \in SUBSET LogType,
           disk' \in [Keys -> Event], pending' \in [Keys -> Event],
           lock' \in Writers \cup {None}, lock' # w,
           lock' = None => pending' = disk',
           \A v \in Writers \ {w} : lock' = v <=> lock = v,
           aux_stale' \in [Writers -> BOOLEAN], Ahead'
    PROVE  IInv'
<1>1. job \in [Writers -> JobType]
      /\ aux_tx \in [Writers -> [open : 0..(BatchSize - 1), saved : Nat, lost : Nat]]
  BY DEF IInv, TypeOK
<1>2. NoJob \in JobType /\ NoTx \in [open : 0..(BatchSize - 1), saved : Nat, lost : Nat]
  BY BatchAssumption DEF NoJob, Job, NoTx, Tx, JobType
<1>3. /\ job' \in [Writers -> JobType]
      /\ aux_tx' \in [Writers -> [open : 0..(BatchSize - 1), saved : Nat, lost : Nat]]
      /\ job'[w].pc = "idle" /\ aux_tx'[w] = NoTx /\ aux_tx'[w].open = 0
      /\ \A v \in Writers \ {w} : job'[v] = job[v] /\ aux_tx'[v] = aux_tx[v]
  BY <1>1, <1>2 DEF NoJob, Job, NoTx, Tx
<1>4. TypeOK'
  BY <1>3 DEF IInv, TypeOK
<1>5. LockOnlyWhileOpen'
  BY <1>3 DEF IInv, LockOnlyWhileOpen
<1>6. Placed'
  BY <1>3 DEF IInv, Placed, RowsLeft, CurrentRow
<1>7. Counted'
  BY <1>3 DEF IInv, Counted, CountedFor
<1> QED
  BY <1>4, <1>5, <1>6, <1>7 DEF IInv

\* A writer that crashes or fails at its end leaves nothing uncommitted.
LEMMA AbandonedInv ==
    ASSUME IInv, NEW w \in Writers, Abandoned(w)
    PROVE  IInv'
<1>1. /\ RolledBack(w) /\ job' = [job EXCEPT ![w] = NoJob]
      /\ aux_tx' = [aux_tx EXCEPT ![w] = NoTx] /\ UNCHANGED <<loaded, logs, jobs>>
  BY DEF Abandoned
<1>2. disk' \in [Keys -> Event] /\ logs' \in SUBSET LogType
  BY <1>1, RollbackTables DEF IInv, TypeOK
<1> QED
  BY <1>1, <1>2, RollbackTables, LeftInv

\* The entry a finished file leaves, and what it says of the file.
LEMMA FinishedEntry ==
    ASSUME IInv, NEW w \in Writers, Finish(w)
    PROVE  /\ LogEntry(w) \in LogType
           /\ LogEntry(w).saved + LogEntry(w).lost = LogEntry(w).mapped
           /\ LogEntry(w).lost <= BatchSize * LogEntry(w).failed
           /\ LogEntry(w).mapped + LogEntry(w).failed >= Len(LogEntry(w).file.rows)
           /\ LogEntry(w).failed = 0 => /\ LogEntry(w).saved = Len(LogEntry(w).file.rows)
                                        /\ LogEntry(w).lost = 0
<1>1. job[w].pc = "row" /\ ~(job[w].pos <= Len(job[w].file.rows))
  BY DEF Finish, RowsLeft
<1>2. job[w].file \in Files /\ Len(job[w].file.rows) \in Nat
  BY <1>1, FilesAssumption DEF IInv, TypeOK, File
<1>3. job[w].pos = Len(job[w].file.rows) + 1
  <2>1. job[w].pos \in 1..(Len(job[w].file.rows) + 1)
    BY <1>1 DEF IInv, TypeOK
  <2> QED
    BY <1>1, <1>2, <2>1
<1>4. /\ job[w].mapped \in Nat /\ job[w].failed \in Nat
      /\ aux_tx[w].saved \in Nat /\ aux_tx[w].lost \in Nat /\ aux_tx[w].open \in Nat
      /\ aux_tx[w].saved + aux_tx[w].lost + aux_tx[w].open = job[w].mapped
      /\ aux_tx[w].lost <= BatchSize * job[w].failed
  BY <1>1, CountsOf, BatchAssumption
<1>5. /\ job[w].pos - 1 <= job[w].mapped + job[w].failed
      /\ job[w].failed = 0 => job[w].mapped = job[w].pos - 1
  BY <1>1 DEF IInv, Counted, CountedFor
<1>6. job[w].failed = 0 => aux_tx[w].lost = 0
  BY <1>4, BatchAssumption
<1> QED
  BY <1>2, <1>3, <1>4, <1>5, <1>6 DEF LogEntry, LogType

\* The log is committed with the last rows, so its counters tell what the table has.
LEMMA FinishInv ==
    ASSUME IInv, NEW w \in Writers, Finish(w)
    PROVE  IInv'
<1>1. /\ CanWrite(w) /\ Committed(Visible(w)) /\ logs' = logs \cup {LogEntry(w)}
      /\ job' = [job EXCEPT ![w] = NoJob] /\ aux_tx' = [aux_tx EXCEPT ![w] = NoTx]
      /\ aux_stale' = [aux_stale EXCEPT ![w] = FALSE] /\ UNCHANGED <<loaded, jobs>>
  BY DEF Finish
<1>2. logs' \in SUBSET LogType
  BY <1>1, FinishedEntry DEF IInv, TypeOK
<1>3. Visible(w) \in [Keys -> Event]
  BY DEF IInv, TypeOK, Visible
<1>4. /\ disk' \in [Keys -> Event] /\ pending' = disk' /\ lock' = None
      /\ \A v \in Writers : lock' # v
      /\ Ahead'
  BY <1>1, <1>3, CommitTables
<1>5. \A v \in Writers \ {w} : lock # v
  BY <1>1, NoneAssumption DEF CanWrite
<1>6. aux_stale' \in [Writers -> BOOLEAN]
  BY <1>1 DEF IInv, TypeOK
<1> QED
  BY <1>1, <1>2, <1>4, <1>5, <1>6, LeftInv

\* Every step keeps the invariant, case by case.
LEMMA NextInv == IInv /\ [Next]_vars => IInv'
<1> SUFFICES ASSUME IInv, [Next]_vars PROVE IInv'
  OBVIOUS
<1>1. CASE UNCHANGED vars
  BY <1>1 DEF vars, IInv, TypeOK, LockOnlyWhileOpen, Placed, RowsLeft, CurrentRow, Counted,
              CountedFor, Ahead
<1>2. ASSUME NEW w \in Writers, NEW f \in Files, Start(w, f) PROVE IInv'
  BY <1>2, StartInv
<1>3. ASSUME NEW w \in Writers, BadRow(w) PROVE IInv'
  BY <1>3, BadRowInv
<1>4. ASSUME NEW w \in Writers, Lookup(w) PROVE IInv'
  BY <1>4, LookupInv
<1>5. ASSUME NEW w \in Writers, FlushRow(w) PROVE IInv'
  BY <1>5, FlushRowInv
<1>6. ASSUME NEW w \in Writers, FlushAndCommit(w) PROVE IInv'
  BY <1>6, FlushAndCommitInv
<1>7. ASSUME NEW w \in Writers, RowError(w) PROVE IInv'
  BY <1>7, RowErrorInv
<1>8. ASSUME NEW w \in Writers, CommitError(w) PROVE IInv'
  BY <1>8, CommitErrorInv
<1>9. ASSUME NEW w \in Writers, Finish(w) PROVE IInv'
  BY <1>9, FinishInv
<1>10. ASSUME NEW w \in Writers, FinishError(w) \/ Crash(w) PROVE IInv'
  BY <1>10, AbandonedInv DEF FinishError, Crash
<1> QED
  BY <1>1, <1>2, <1>3, <1>4, <1>5, <1>6, <1>7, <1>8, <1>9, <1>10 DEF Next, Step

-----------------------------------------------------------------------------
(* The theorems. *)

\* The inductive invariant holds in every reachable state.
THEOREM Invariance == Spec => []IInv
  BY InitInv, NextInv, PTL DEF Spec

\* No batch outgrows its size and every writer stands inside its file.
THEOREM TypeCorrect == Spec => []TypeOK
<1>1. IInv => TypeOK
  BY DEF IInv
<1> QED
  BY <1>1, Invariance, PTL

\* process_file never leaves a transaction, and with it SQLite's write lock, behind.
THEOREM LockDiscipline == Spec => []LockOnlyWhileOpen
<1>1. IInv => LockOnlyWhileOpen
  BY DEF IInv
<1> QED
  BY <1>1, Invariance, PTL

\* What an ingestion_log promises about the rows of its file.
LEMMA LogsStep ==
    ASSUME IInv, CleanLogIsComplete, LossBounded, [Next]_vars
    PROVE  CleanLogIsComplete' /\ LossBounded'
<1>1. CASE logs' = logs
  BY <1>1 DEF CleanLogIsComplete, LossBounded
<1>2. ASSUME NEW w \in Writers, Finish(w)
      PROVE  CleanLogIsComplete' /\ LossBounded'
  <2>1. logs' = logs \cup {LogEntry(w)}
    BY <1>2 DEF Finish
  <2> QED
    BY <1>2, <2>1, FinishedEntry DEF CleanLogIsComplete, LossBounded
<1>3. logs' = logs \/ \E w \in Writers : Finish(w)
  BY DEF Next, Step, vars, Start, BadRow, Lookup, FlushRow, FlushAndCommit, RowError, CommitError,
         FinishError, Crash, Abandoned
<1> QED
  BY <1>1, <1>2, <1>3

\* A log without failures describes a file that is in the table from the first row to the
\* last.
THEOREM CleanLogs == Spec => []CleanLogIsComplete
<1>1. Init => CleanLogIsComplete /\ LossBounded
  BY DEF Init, CleanLogIsComplete, LossBounded
<1> QED
  BY <1>1, LogsStep, Invariance, PTL DEF Spec

\* A log with failures bounds the rows that a rollback took with it.
THEOREM BoundedLoss == Spec => []LossBounded
<1>1. Init => CleanLogIsComplete /\ LossBounded
  BY DEF Init, CleanLogIsComplete, LossBounded
<1> QED
  BY <1>1, LogsStep, Invariance, PTL DEF Spec

\* A step either leaves the committed table alone or commits what a writer sees, with or
\* without the row it is flushing.
LEMMA DiskStep ==
    ASSUME [Next]_vars
    PROVE  \/ disk' = disk
           \/ \E w \in Writers : Finish(w)
           \/ \E w \in Writers : FlushAndCommit(w)
  BY DEF Next, Step, vars, Start, BadRow, Lookup, FlushRow, RowError, CommitError,
         FinishError, Crash, Abandoned, RolledBack

\* A later arrival never nulls a column an earlier one populated, with any number of
\* processes ingesting at once.
THEOREM NeverNullsColumnHolds == Spec => NeverNullsColumn
<1>1. ASSUME IInv, [Next]_vars PROVE NeverNulled
  <2>1. CASE disk' = disk
    BY <2>1 DEF NeverNulled
  <2>2. ASSUME NEW w \in Writers, Finish(w) PROVE NeverNulled
    <3>1. disk' = Visible(w)
      BY <2>2 DEF Finish, Committed
    <3> QED
      BY <1>1, <3>1 DEF NeverNulled, IInv, Ahead, Visible
  <2>3. ASSUME NEW w \in Writers, FlushAndCommit(w) PROVE NeverNulled
    <3>1. disk' = Flushed(w) /\ job[w].pc = "flush"
      BY <2>3 DEF FlushAndCommit, Flushable, Committed
    <3>2. \A k \in Keys, c \in Cols : disk[k].cols[c] # None => Visible(w)[k].cols[c] # None
      BY <1>1 DEF IInv, Ahead, Visible
    <3>3. \A k \in Keys, c \in Cols : Visible(w)[k].cols[c] # None
                                       => Flushed(w)[k].cols[c] # None
      BY <1>1, <3>1, FlushKeeps DEF IInv
    <3> QED
      BY <3>1, <3>2, <3>3 DEF NeverNulled
  <2> QED
    BY <1>1, <2>1, <2>2, <2>3, DiskStep
<1> QED
  BY <1>1, Invariance, PTL DEF Spec, NeverNullsColumn

\* No commit whose rows were merged into current events drops a flag or rewrites a raw
\* snapshot.
THEOREM FreshMergeHolds == Spec => FreshMergeKeepsEvidence
<1> DEFINE Keeps == (\E w \in Writers : OutdatedMerge(w))
                    \/ \A k \in Keys : KeepsEvidence(disk[k], disk'[k])
<1>1. ASSUME IInv, [Next]_vars PROVE Keeps
  <2> SUFFICES ASSUME \A w \in Writers : ~OutdatedMerge(w), NEW k \in Keys
               PROVE  KeepsEvidence(disk[k], disk'[k])
    OBVIOUS
  <2>1. CASE disk' = disk
    BY <2>1 DEF KeepsEvidence
  <2>2. \A w \in Writers : KeepsEvidence(disk[k], Visible(w)[k])
    BY <1>1 DEF IInv, Ahead, Visible, OutdatedMerge, KeepsEvidence
  <2>3. ASSUME NEW w \in Writers, Finish(w) PROVE KeepsEvidence(disk[k], disk'[k])
    BY <2>2, <2>3 DEF Finish, Committed
  <2>4. ASSUME NEW w \in Writers, FlushAndCommit(w) PROVE KeepsEvidence(disk[k], disk'[k])
    <3>1. disk' = Flushed(w) /\ job[w].pc = "flush" /\ ~StaleFlush(w)
      BY <2>4 DEF FlushAndCommit, Flushable, Committed, OutdatedMerge
    <3>2. KeepsEvidence(Visible(w)[k], Flushed(w)[k])
      BY <1>1, <3>1, FlushKeeps DEF IInv
    <3> QED
      BY <2>2, <3>1, <3>2, KeepsEvidenceTransitive
  <2> QED
    BY <1>1, <2>1, <2>3, <2>4, DiskStep
<1> QED
  BY <1>1, Invariance, PTL DEF Spec, FreshMergeKeepsEvidence
=============================================================================
