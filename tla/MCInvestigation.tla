---------------------------- MODULE MCInvestigation ----------------------------
(* Small instance of Investigation: a break of each of two tenants and three parties in    *)
(* one anomaly band.  Two are individuals, whose snapshots p2 and p3 end 0 and 96 hours    *)
(* in.  The third is a merchant: d is its to-date snapshot up to hour 48, w1 and w2 are    *)
(* those of its two weeks once it has enough events, ending at hours 49 and 217.  So the   *)
(* to-date snapshots form one chain that is longer than the window, of which the first     *)
(* week is an hour too late.                                                               *)
EXTENDS Investigation, TLC

CONSTANTS t1, t2, b1, b2, b3, d, w1, w2, p2, p3, m

MCTenantOf == [s \in Subjects |-> IF s = b3 THEN t2 ELSE t1]
MCPartyOf  == [s \in Subjects |-> IF s \in {d, w1, w2} THEN m ELSE s]
MCGroupOf  == [s \in Subjects |-> IF s \in Breaks THEN "ACH" ELSE "High"]
MCEndOf    == [s \in Subjects |-> CASE s = d -> 48 [] s = w1 -> 49 [] s = w2 -> 217
                                    [] s = p3 -> 96 [] OTHER -> 0]
MCRankOf   == [s \in Subjects |-> CASE s = b1 -> 1 [] s = b2 -> 2 [] s = b3 -> 3 [] s = p3 -> 4
                                    [] s = d -> 5 [] s = w1 -> 6 [] s = w2 -> 7 [] s = p2 -> 8]

\* Before and after the merchant got busy, the events of p3 moved, and b1 was reconciled.
MCPictures == {{b1, b3, d, p2, p3}, {b3, w1, w2, p2}}
\* A break that comes and goes.
BreakPictures == {{b1, b2, p2}, {b2, p2}}
=============================================================================
