----------------------------- MODULE MCIngestion -----------------------------
(* Small instances of Ingestion: two transactions, one plain column (the status)       *)
(* and two keys of the risk_flags column.                                              *)
EXTENDS Ingestion, TLC

CONSTANTS k1, k2, col, ofac, review, pend, settled, rawPre, rawPost, rawAgain

MCFlags == {ofac, review}
MCRaws  == {rawPre, rawPost, rawAgain}

Cells(v)      == (col :> v)
Flag1(v)      == (ofac :> v @@ review :> None)
Flag2(v)      == (ofac :> None @@ review :> v)
NoFlags       == (ofac :> None @@ review :> None)
MCRow(k, v, fs, raw) == [key |-> k, cols |-> Cells(v), flags |-> fs, raw |-> raw]
Unmappable    == MCRow(None, None, NoFlags, rawPre)

\* What the bank knows before settlement, and a second version of it.
PreFile   == [stage |-> "PRE",
              rows  |-> <<MCRow(k1, pend, Flag1(pend), rawPre), MCRow(k2, pend, NoFlags, rawPre)>>]
\* After settlement: other flags, a new status, one column left empty, one bad row.
PostFile  == [stage |-> "POST",
              rows  |-> <<MCRow(k1, settled, Flag2(settled), rawPost), Unmappable,
                          MCRow(k2, None, NoFlags, rawPost)>>]
\* Four rows over two transactions: the second pair meets what the first pair left.
LongFile  == [stage |-> "POST",
              rows  |-> <<MCRow(k1, None, Flag1(settled), rawPost), MCRow(k2, settled, NoFlags, rawPost),
                          MCRow(k1, settled, Flag2(settled), rawAgain), MCRow(k2, None, NoFlags, rawAgain)>>]
MCFiles   == {PreFile, PostFile, LongFile}
SplitFiles == {PreFile, PostFile}
=============================================================================
