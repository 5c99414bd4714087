\* Two processes on one database, batches of two rows, at most two files in all (MaxJobs).
\* The behaviour ends once that many files are done, so deadlock is not checked.
SPECIFICATION FairSpec
CONSTANTS
    Writers = {server, script}
    Keys = {k1, k2}
    Cols = {col}
    Flags <- MCFlags
    Vals = {pend, settled}
    Raws <- MCRaws
    None = None
    Files <- MCFiles
    BatchSize = 2
    MaxJobs = 2
    k1 = k1
    k2 = k2
    col = col
    ofac = ofac
    review = review
    pend = pend
    settled = settled
    rawPre = rawPre
    rawPost = rawPost
    rawAgain = rawAgain
INVARIANTS TypeOK LockOnlyWhileOpen CleanLogIsComplete LossBounded
PROPERTIES NeverNullsColumn FreshMergeKeepsEvidence IngestTerminates
CHECK_DEADLOCK FALSE
