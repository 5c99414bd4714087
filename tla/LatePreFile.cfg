\* One process, and the two files of one settlement in either order: does the late PRE
\* file leave alone what the POST file reported?
SPECIFICATION Spec
CONSTANTS
    Writers = {server}
    Keys = {k1, k2}
    Cols = {col}
    Flags <- MCFlags
    Vals = {pend, settled}
    Raws <- MCRaws
    None = None
    Files <- SplitFiles
    BatchSize = 2
    MaxJobs = 2
    k1 = k1
    k2 = k2
    col = col
    ofac = ofac
    review = review
    pend = pend
    settled = settled
    rawPre = rawPre
    rawPost = rawPost
    rawAgain = rawAgain
PROPERTIES OutOfOrderArrivalSafe
CHECK_DEADLOCK FALSE
