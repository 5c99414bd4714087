------------------------------- MODULE MCTracks -------------------------------
(* Small instance of Snapshots and Tracks: a merchant with up to three weeks, a merchant  *)
(* and an individual beside it, and a bank with a payee of the same name.                 *)
EXTENDS Tracks, TLC

CONSTANTS t1, t2, m1, m2, i1, i2, e1, e2, e3, e4, e5, e6, e7, e8, e9

Fact(tenant, time, payee, payer, amount) ==
    [tenant |-> tenant, time |-> time, payee |-> payee, payer |-> payer, amount |-> amount]

MCFacts ==
    (e1 :> Fact(t1, 0, "a", "x", 1)) @@
    (e2 :> Fact(t1, 7, "a", "x", 1)) @@
    (e3 :> Fact(t1, 14, "b", "y", 3)) @@
    (e4 :> Fact(t1, 14, "b", "y", None)) @@
    (e5 :> Fact(t1, Unreadable, "a", "x", 1)) @@
    (e6 :> Fact(t2, 1, "a", None, 1)) @@
    (e7 :> Fact(t2, 9, "a", "z", 1)) @@
    (e8 :> Fact(t1, 16, None, "y", 2)) @@
    (e9 :> Fact(t1, 1, "a", "y", 2))
MCPartyTenant == (m1 :> t1) @@ (m2 :> t1) @@ (i1 :> t1) @@ (i2 :> t2)
MCLabels == {-1, 0}

World(links, n) == [link |-> links, changes |-> n]
MCWorlds ==
    {World([e \in {e1, e2, e6, e7} |-> None], 1),                    \* nothing resolved
     World((e1 :> i1) @@ (e9 :> i1) @@ (e6 :> i2) @@ (e7 :> i2), 0), \* two banks
     World((e1 :> m1) @@ (e3 :> i1) @@ (e5 :> i1), 1),
     World((e1 :> m1) @@ (e3 :> i1), 1),                             \* one event each
     World([e \in {e1, e2, e3} |-> m1], 0),                          \* three weeks
     World([e \in {e1, e2, e3, e4} |-> m1], 0),                      \* too many for a baseline
     World((e1 :> m1) @@ (e2 :> m1) @@ (e3 :> m2) @@ (e4 :> m2) @@ (e8 :> m2) @@ (e9 :> i1), 0)}
===============================================================================
