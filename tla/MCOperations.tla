----------------------------- MODULE MCOperations -----------------------------
(* Small instance of Operations: two tenants with one batch id, a payment with a retry on *)
(* two rails, and one merchant with up to four weeks behind it.                           *)
EXTENDS Operations, SequencesExt

CONSTANTS t1, t2, p1

Blank == [c \in DataColumns |-> None]
Of(tenant, txn, rail) == [tenant |-> tenant, txn |-> txn, rail |-> rail]
MCRow(tenant, txn, rail, data) == Of(tenant, txn, rail) @@ data @@ Blank

MCArrivals ==
    {MCRow(t1, "x", "ACH", [batch |-> "b", due |-> 0, status |-> "SETTLED", idem |-> "k"]),
     MCRow(t1, "x", "ACH", [reached |-> TRUE, idem |-> "l"]),
     MCRow(t1, "x", "WIRE", [batch |-> "b", due |-> 1, recon |-> "BREAK"]),
     MCRow(t1, "y", "ACH", [status |-> "SETTLED", retry |-> TRUE, original |-> "x", idem |-> "k"]),
     MCRow(t1, "z", "ACH", [status |-> "SETTLED", retry |-> TRUE, original |-> "y", variance |-> 3,
                            recon |-> "MATCHED", format |-> "FAILED"]),
     MCRow(t2, "x", "ACH", [batch |-> "b", due |-> 0, reached |-> TRUE, status |-> "SETTLED", idem |-> "k"]),
     MCRow(t2, "x", "ACH", [status |-> "RETURNED", batch |-> "c"])}
\* What is stored after the rows h: an event for each of their keys, in the order of the first.
MCStore(h) ==
    LET first == SelectSeq([i \in DOMAIN h |-> i],
                           LAMBDA i : \A j \in 1..(i - 1) : ~SameEvent(h[i], h[j]))
        Merge(e, a) == IF SameEvent(a, e) THEN Merged(a, e) ELSE e
    IN [k \in DOMAIN first |-> FoldLeft(Merge, h[first[k]], h)]
MCHistories == {MCStore(h) :
    h \in {s \in BoundedSeq(MCArrivals, 3) : \A i, j \in DOMAIN s : s[i] = s[j] => i = j}}
MCPartyTenant == [p \in Parties |-> t1]
MCWeeks == {[timeout |-> 0, reject |-> 9], [timeout |-> 0, reject |-> None],
            [timeout |-> 1, reject |-> 9], [timeout |-> 9, reject |-> 0]}
MCPasts == BoundedSeq(MCWeeks, 3)
=============================================================================
