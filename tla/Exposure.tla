------------------------------- MODULE Exposure -------------------------------
(***************************************************************************)
(* app/exposure.py: the amounts behind the claims, by domain, week, rail   *)
(* and review, and the share of payments that no claim touches.  Amounts   *)
(* are whole; a claim without one counts 0.                                *)
(***************************************************************************)
EXTENDS Claims

OrZero(amount) == IF amount = None THEN 0 ELSE amount
Amount(e)      == OrZero(e.amount)
SumAmounts(S)  == MapThenSumSet(Amount, S)

Claim(domain, row, amount, rail, at) ==
    [domain |-> domain, id |-> row.id, amount |-> amount, rail |-> rail, at |-> at]

FraudAnomalyClaims ==
    {Claim("fraud_anomaly", s, OrZero(s.total), None, s.end) : s \in MaterialSnapshots}

ReconciliationClaims ==
    {Claim("reconciliation_break", b, OrZero(b.amount), b.rail, ReconciliationBreakDate(b)) : b \in breaks}

\* Not the spikes: they have no transaction.  The date and the rail are those of the first
\* event, the amount is that of all.
OperationalClaims ==
    LET FirstOf(i) == First(EventsOf(i))
        RailOf(i)  == IF FirstOf(i) = None THEN None ELSE FirstOf(i).rail
    IN {Claim("operational_issue", i, SumAmounts(EventsAt(EventsOf(i))), RailOf(i),
              ParseOccurred(FirstOf(i))) :
           i \in {x \in issues : x.type \notin PartyIssues}}

AllClaims(w) ==
    {c \in FraudAnomalyClaims \cup ReconciliationClaims \cup OperationalClaims : DateInRange(c.at, w)}

-----------------------------------------------------------------------------
(* The views of one response of GET /dashboard/exposure, and two more *)

ExposureDomains == {"fraud_anomaly", "reconciliation_break", "operational_issue"}

ByDomain(claims) == [d \in ExposureDomains |-> SumAmounts({c \in claims : c.domain = d})]
GetExposureByDomain(w) == ByDomain(AllClaims(w))

WeekOf(day) == day \div 7
GetExposureTrend(w) ==
    LET dated == {c \in AllClaims(w) : c.at # None}
    IN [week \in {WeekOf(c.at) : c \in dated} |-> SumAmounts({c \in dated : WeekOf(c.at) = week})]

Mitigated(c)    == Decided(c.domain, c.id)
OpenWithRow(c)  == <<c.domain, c.id>> \in DOMAIN reviews /\ ~Mitigated(c)
\* "PENDING, or never reviewed at all".
Residual(c)     == ~Mitigated(c)

GetMitigationProgress(w) ==
    [residual  |-> SumAmounts({c \in AllClaims(w) : Residual(c)}),
     mitigated |-> SumAmounts({c \in AllClaims(w) : Mitigated(c)})]
GetMitigationProgressByDomain(w) ==
    [residual  |-> ByDomain({c \in AllClaims(w) : Residual(c)}),
     mitigated |-> ByDomain({c \in AllClaims(w) : Mitigated(c)})]

OnRail(w) == {c \in AllClaims(w) : c.rail # None}
GetExposureByRail(w) ==
    [r \in {c.rail : c \in OnRail(w)} |-> SumAmounts({c \in OnRail(w) : c.rail = r})]
GetAnomalyHeatmap(w) ==
    LET counted == {c \in OnRail(w) : c.domain # "fraud_anomaly"}
    IN [k \in {<<c.rail, c.domain>> : c \in counted} |->
           Cardinality({c \in counted : <<c.rail, c.domain>> = k})]

\* Protected and impacted per rail; the breaks of a rail may exceed what it moved, since an
\* event can be merged after its break was reported.
GetPaymentValueByRail(w) ==
    LET valued == {e \in EventsIn(w) : e.amount # None}
        Moved(r)  == SumAmounts({e \in valued : e.rail = r})
        Broken(r) == SumAmounts({c \in ReconciliationClaims : c.rail = r /\ DateInRange(c.at, w)})
        Impacted(r) == Min({Broken(r), Moved(r)})
    IN [r \in {e.rail : e \in valued} |->
           [total |-> Moved(r), protected |-> Moved(r) - Impacted(r), impacted |-> Impacted(r)]]

\* get_payment_normalcy: of a transaction-level issue the first event is touched.
Key(e) == <<e.rail, e.txn>>
TouchedBy(issue) == IF issue.type \in TransactionIssues THEN {First(EventsOf(issue))} \ {None}
                                                        ELSE EventsAt(EventsOf(issue))
Referenced  == {Key(b) : b \in breaks} \cup {Key(e) : e \in UNION {TouchedBy(i) : i \in issues}}
TouchedEver(w) == Referenced
Touched(w)     == Referenced \cap {Key(e) : e \in EventsIn(w)}
GetPaymentNormalcy(w) ==
    [total |-> Cardinality(EventsIn(w)), touched |-> Cardinality(Touched(w))]
===============================================================================
