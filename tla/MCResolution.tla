---------------------------- MODULE MCResolution ----------------------------
(* Small instance of Resolution: two events of one tenant and one of another, which use   *)
(* the same source ids.                                                                   *)
EXTENDS Resolution, TLC

CONSTANTS e1, e2, e3, t1, t2, s1, s2, name, ann, bob

MCTenantOf == (e1 :> t1) @@ (e2 :> t1) @@ (e3 :> t2)

Arrival(e, m, i, n) ==
    [event |-> e, source |-> [merchant |-> m, individual |-> i, profile |-> (name :> n)]]

\* An individual that later turns out to be a merchant, both ids at once, a merchant named
\* by two rows with different names, a source id that is corrected later, another tenant.
MCArrivals == {Arrival(e1, None, s1, ann), Arrival(e1, s1, None, None), Arrival(e2, s1, s1, bob),
               Arrival(e2, s2, None, None), Arrival(e3, s1, None, ann), Arrival(e2, None, s1, ann)}
=============================================================================
