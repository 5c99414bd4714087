-------------------------------- MODULE MCViews --------------------------------
(* Small instance of CaseViews: two transaction ids on two rails, a batch across them,    *)
(* days 0 to 9 with and without a readable date, claims of every kind, among them two     *)
(* spikes whose scores differ by less than a tenth, on both sides of a level's cutoff.    *)
EXTENDS CaseViews

CONSTANTS alice, bob   \* parties

Event(rail, txn, batch, amount, at, settled, party) ==
    [rail |-> rail, txn |-> txn, batch |-> batch, amount |-> amount, at |-> at,
     settled |-> settled, recon |-> ~settled, party |-> party]

MCHistories ==
    {<<Event("ACH", "x", "b", 3, 2, TRUE, alice), Event("WIRE", "x", "b", 2, 9, FALSE, bob)>>,
     <<Event("ACH", "x", None, 3, Early, FALSE, alice), Event("WIRE", "x", None, None, Late, FALSE, None)>>,
     <<Event("WIRE", "y", "b", 1, None, FALSE, alice), Event("ACH", "x", "b", 2, 4, TRUE, alice)>>}
MCMerges == {Event("ACH", "x", "b", 1, 9, FALSE, alice)}

Issue(id, type, ref, end, overdue, score) ==
    [id |-> id, type |-> type, ref |-> ref, end |-> end, overdue |-> overdue, score |-> score]
MCIssueRows ==
    {Issue(1, "FORMAT_REJECTION", "x", None, None, None),
     Issue(2, "BATCH_NOT_SETTLED", "b", None, 4, None),
     Issue(3, "FORMAT_REJECTION", "y", None, None, None),
     Issue(4, "NETWORK_TIMEOUT_SPIKE", alice, 3, None, 60 * Point - 4),
     Issue(5, "NETWORK_TIMEOUT_SPIKE", bob, 3, None, 60 * Point)}

Break(id, rail, txn, type, variance, amount) ==
    [id |-> id, rail |-> rail, txn |-> txn, type |-> type, variance |-> variance, amount |-> amount]
MCBreakRows ==
    {Break(1, "ACH", "x", "CONFIRMED_BREAK", None, 3),
     Break(2, "WIRE", "x", "PROVISIONAL_VARIANCE", 1, None)}

Snapshot(id, party, band, rails, total, end, feature) ==
    [id |-> id, party |-> party, band |-> band, rails |-> rails, total |-> total, end |-> end,
     segment |-> "MERCHANT", features |-> [f \in Features |-> feature]]
MCSnapshotRows ==
    {Snapshot(1, alice, "Critical", {"ACH"}, 3, 3, 1),
     Snapshot(2, alice, "High", {"ACH", "WIRE"}, 5, 9, None),
     Snapshot(3, bob, "Low-Medium", {"WIRE"}, 2, 4, 0)}
MCBeneficiaryRows == {[id |-> 1, drift |-> 50, end |-> 3, total |-> 4, count |-> 2],
                      [id |-> 2, drift |-> None, end |-> 9, total |-> 1, count |-> 1]}

Days(from, to) == [from |-> from, to |-> to]
MCWindows == {Everything, Days(None, 3), Days(4, 9), Days(None, 9)}
==============================================================================
