SPECIFICATION Spec
CONSTANTS
    alice = alice
    bob = bob
    None = None
    Early = Early
    Late = Late
    Features = {"new_counterparty_ratio"}
    Histories <- MCHistories
    Merges <- MCMerges
    IssueRows <- MCIssueRows
    BreakRows <- MCBreakRows
    SnapshotRows <- MCSnapshotRows
    BeneficiaryRows <- MCBeneficiaryRows
    Windows <- MCWindows
    Now = 30
    MaxChanges = 2
    MaxHistory = 1
INVARIANTS WindowsAgree MoneySplitsAlike RatesAreRates CasesAgreeWithViews
CHECK_DEADLOCK FALSE
