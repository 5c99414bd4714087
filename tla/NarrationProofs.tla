---------------------------- MODULE NarrationProofs ----------------------------
(* Proofs about Narration, for any number of requests, keys, attempts, rows and ids.      *)
EXTENDS Narration, TLAPS

CaseSlots == {"investigation_case"} \X Ids

\* Where an open request stands: it is about a row it has seen, on one of the keys, with at
\* least one attempt left while it sleeps, and it only found a narrative if it is forced.
Placed ==
    \A r \in Requests : Open(r) =>
        /\ request[r].slot \in Slots
        /\ request[r].facts \in Version
        /\ request[r].key \in 1..Keys
        /\ request[r].attempt \in 1..MaxAttempts
        /\ request[r].pc = "sleeping" => request[r].attempt < MaxAttempts
        /\ request[r].existing => request[r].force

\* What a request for a case read is still the case of that id, unless it was overtaken.
FactsCurrent ==
    \A r \in Requests :
        Open(r) /\ request[r].slot \in CaseSlots /\ request[r].slot \notin aux_overtaken
            => request[r].facts = rows[request[r].slot]

IInv == TypeOK /\ Placed /\ NoKeyLeftUntried /\ FactsCurrent /\ CaseNarrativeCurrent

-----------------------------------------------------------------------------
(* Records of requests *)

\* What a handler leaves behind when it has answered is a request record.
LEMMA ClosedType ==
    ASSUME NEW outcome \in {"none", "served", "unavailable", "failed", "generated"}
    PROVE  Closed(outcome) \in RequestType /\ Closed(outcome).pc = outcome
  BY KeysAssumption, AttemptsAssumption DEF Closed, RequestType

\* Another key or attempt of the same request.
LEMMA AtType ==
    ASSUME NEW q \in RequestType, NEW pc \in {"calling", "sleeping"},
           NEW key \in 0..Keys, NEW attempt \in 0..MaxAttempts
    PROVE  /\ At(q, pc, key, attempt) \in RequestType
           /\ At(q, pc, key, attempt).pc = pc
           /\ At(q, pc, key, attempt).key = key
           /\ At(q, pc, key, attempt).attempt = attempt
           /\ At(q, pc, key, attempt).slot = q.slot
           /\ At(q, pc, key, attempt).facts = q.facts
           /\ At(q, pc, key, attempt).existing = q.existing
           /\ At(q, pc, key, attempt).force = q.force
  BY DEF At, RequestType

\* No row is none.
LEMMA VersionIsRow == \A v \in Version : v # None
  BY NoneAssumption

-----------------------------------------------------------------------------
(* Steps that change one request and no table keep the invariant if the new record fits. *)

\* Fits(q, spent) says of one record what the invariant says of all.
Fits(q, spent) ==
    /\ q \in RequestType
    /\ spent \subseteq 1..Keys
    /\ q.pc = "unavailable" => spent = 1..Keys
    /\ q.pc \in {"calling", "sleeping"} =>
          /\ q.slot \in Slots
          /\ q.facts \in Version
          /\ q.key \in 1..Keys
          /\ q.attempt \in 1..MaxAttempts
          /\ q.pc = "sleeping" => q.attempt < MaxAttempts
          /\ q.existing => q.force
          /\ spent = 1..(q.key - 1)
          /\ q.slot \in CaseSlots /\ q.slot \notin aux_overtaken => q.facts = rows[q.slot]

\* The invariant, request by request.
LEMMA FitsIsInvariant ==
    IInv <=> /\ TypeOK /\ CaseNarrativeCurrent
             /\ \A r \in Requests : Fits(request[r], aux_spent[r])
  BY DEF IInv, TypeOK, Placed, NoKeyLeftUntried, FactsCurrent, Fits, Open

\* One request moves and may store a narrative; the rows and the other requests stay.
LEMMA AnswerStep ==
    ASSUME IInv, NEW r \in Requests,
           request' = [request EXCEPT ![r] = request'[r]],
           aux_spent' = [aux_spent EXCEPT ![r] = aux_spent'[r]],
           Fits(request[r], aux_spent[r])', opened' \in 0..MaxOpened,
           narratives' \in [Slots -> Version \cup {None}], CaseNarrativeCurrent',
           UNCHANGED <<rows, versions, aux_overtaken>>
    PROVE  IInv'
<1>1. TypeOK'
  BY DEF IInv, TypeOK, Fits
<1>2. ASSUME NEW x \in Requests PROVE Fits(request[x], aux_spent[x])'
  <2>1. CASE x = r
    BY <2>1
  <2>2. CASE x # r
    <3>1. request'[x] = request[x] /\ aux_spent'[x] = aux_spent[x]
      BY <2>2 DEF IInv, TypeOK
    <3> QED BY FitsIsInvariant, <3>1 DEF Fits, CaseSlots
  <2> QED BY <2>1, <2>2
<1> QED
  BY <1>1, <1>2 DEF IInv, TypeOK, Placed, NoKeyLeftUntried, FactsCurrent, Fits, Open

\* One request moves, the tables and the other requests stay.
LEMMA RequestStep ==
    ASSUME IInv, NEW r \in Requests,
           request' = [request EXCEPT ![r] = request'[r]],
           aux_spent' = [aux_spent EXCEPT ![r] = aux_spent'[r]],
           Fits(request[r], aux_spent[r])', opened' \in 0..MaxOpened,
           UNCHANGED <<rows, versions, narratives, aux_overtaken>>
    PROVE  IInv'
<1>1. CaseNarrativeCurrent' /\ narratives' \in [Slots -> Version \cup {None}]
  BY DEF IInv, TypeOK, CaseNarrativeCurrent
<1> QED
  BY <1>1, AnswerStep

-----------------------------------------------------------------------------
(* The actions *)

\* What was cached or read before a request leaves no trace in it once it is answered.
LEMMA ClosedFits ==
    ASSUME NEW outcome \in {"none", "served", "unavailable", "failed", "generated"},
           NEW spent \in SUBSET (1..Keys), outcome = "unavailable" => spent = 1..Keys
    PROVE  Fits(Closed(outcome), spent)
  BY ClosedType DEF Fits

LEMMA AskInv ==
    ASSUME IInv, NEW r \in Requests, NEW s \in Slots, NEW force \in BOOLEAN, Ask(r, s, force)
    PROVE  IInv'
<1>1. /\ request'[r] = [pc |-> "calling", slot |-> s, facts |-> rows[s],
                        existing |-> narratives[s] # None, force |-> force, key |-> 1, attempt |-> 1]
      /\ aux_spent'[r] = {}
  BY DEF Ask, IInv, TypeOK
<1>2. rows[s] \in Version /\ (narratives[s] # None => force)
  BY DEF Ask, IInv, TypeOK
<1>3. 1 \in 1..Keys /\ 1 \in 1..MaxAttempts /\ {} = 1..(1 - 1) /\ rows' = rows
  BY KeysAssumption, AttemptsAssumption DEF Ask
<1>4. request'[r] \in RequestType
  BY <1>1, <1>2, <1>3 DEF RequestType
<1>5. Fits(request[r], aux_spent[r])'
  BY <1>1, <1>2, <1>3, <1>4 DEF Fits
<1>6. opened' \in 0..MaxOpened
  BY BoundAssumption DEF Ask, IInv, TypeOK
<1> QED
  BY <1>1, <1>5, <1>6, RequestStep DEF Ask

LEMMA ServeInv ==
    ASSUME IInv, NEW r \in Requests, NEW s \in Slots, Serve(r, s)
    PROVE  IInv'
<1>1. request'[r] = Closed("served") /\ aux_spent'[r] = {}
  BY DEF Serve, IInv, TypeOK
<1>2. Fits(request[r], aux_spent[r])'
  BY <1>1, ClosedType DEF Fits
<1>3. opened' \in 0..MaxOpened
  BY BoundAssumption DEF Serve, IInv, TypeOK
<1> QED
  BY <1>1, <1>2, <1>3, RequestStep DEF Serve

\* A failed attempt that is not the last one of its key: the request sleeps.
LEMMA AttemptFailsInv ==
    ASSUME IInv, NEW r \in Requests, NEW kind \in Failures, AttemptFails(r, kind)
    PROVE  IInv'
<1>1. Fits(request[r], aux_spent[r]) /\ request[r].pc = "calling"
  BY FitsIsInvariant DEF AttemptFails
<1>2. request[r].key \in 0..Keys /\ request[r].attempt \in 1..MaxAttempts
      /\ request[r].attempt < MaxAttempts
  BY <1>1, AttemptsAssumption DEF Fits, RequestType, AttemptFails, Retry
<1>3. /\ request'[r] = At(request[r], "sleeping", request[r].key, request[r].attempt)
      /\ aux_spent'[r] = aux_spent[r]
  BY DEF AttemptFails, IInv, TypeOK
<1>4. Fits(request[r], aux_spent[r])'
  BY <1>1, <1>2, <1>3, AtType DEF Fits, AttemptFails
<1> QED
  BY <1>3, <1>4, RequestStep DEF AttemptFails, IInv, TypeOK

\* The attempt after the pause is still within the limit.
LEMMA WakeInv ==
    ASSUME IInv, NEW r \in Requests, Wake(r)
    PROVE  IInv'
<1>1. Fits(request[r], aux_spent[r]) /\ request[r].pc = "sleeping"
  BY FitsIsInvariant DEF Wake
<1> DEFINE next == request[r].attempt + 1
<1>2. request[r] \in RequestType /\ request[r].key \in 0..Keys
      /\ next \in 1..MaxAttempts /\ next \in 0..MaxAttempts
  BY <1>1, AttemptsAssumption DEF Fits, RequestType
<1>3. /\ request'[r] = At(request[r], "calling", request[r].key, next)
      /\ aux_spent'[r] = aux_spent[r]
  BY DEF Wake, IInv, TypeOK
<1> HIDE DEF next
<1>4. /\ request'[r] \in RequestType
      /\ request'[r].pc = "calling" /\ request'[r].key = request[r].key
      /\ request'[r].attempt = next
      /\ request'[r].slot = request[r].slot /\ request'[r].facts = request[r].facts
      /\ request'[r].existing = request[r].existing /\ request'[r].force = request[r].force
  BY <1>2, <1>3, AtType
<1>5. UNCHANGED <<rows, aux_overtaken>>
  BY DEF Wake
<1>6. Fits(request[r], aux_spent[r])'
  BY <1>1, <1>2, <1>3, <1>4, <1>5 DEF Fits
<1> QED
  BY <1>3, <1>6, RequestStep DEF Wake, IInv, TypeOK

\* A key that is given up is the next one in order; after the last, all have been tried.
LEMMA KeyFailsInv ==
    ASSUME IInv, NEW r \in Requests, NEW kind \in Failures, KeyFails(r, kind)
    PROVE  IInv'
<1> DEFINE k == request[r].key
<1>1. Fits(request[r], aux_spent[r]) /\ request[r].pc = "calling" /\ request[r] \in RequestType
  BY FitsIsInvariant DEF KeyFails, Fits
<1>2. k \in 1..Keys /\ aux_spent[r] = 1..(k - 1) /\ Keys \in Nat
  BY <1>1, KeysAssumption DEF Fits
<1>3. aux_spent'[r] = 1..k
  BY <1>2 DEF KeyFails, IInv, TypeOK
<1>4. Fits(request[r], aux_spent[r])'
  <2>1. CASE LastKey(k)
    <3>1. request'[r] = Closed("unavailable")
      BY <2>1 DEF KeyFails, IInv, TypeOK
    <3> QED
      BY <1>2, <1>3, <2>1, <3>1, ClosedType DEF LastKey, Fits
  <2>2. CASE ~LastKey(k)
    <3>1. request'[r] = At(request[r], "calling", k + 1, 1)
      BY <2>2 DEF KeyFails, IInv, TypeOK
    <3>2. k + 1 \in 1..Keys /\ k + 1 \in 0..Keys /\ 1 \in 1..MaxAttempts /\ 1 \in 0..MaxAttempts
          /\ 1..k = 1..((k + 1) - 1) /\ 1..k \subseteq 1..Keys
      BY <1>2, <2>2, KeysAssumption, AttemptsAssumption DEF LastKey
    <3> HIDE DEF k
    <3>3. /\ request'[r] \in RequestType
          /\ request'[r].pc = "calling" /\ request'[r].key = k + 1 /\ request'[r].attempt = 1
          /\ request'[r].slot = request[r].slot /\ request'[r].facts = request[r].facts
          /\ request'[r].existing = request[r].existing /\ request'[r].force = request[r].force
      BY <1>1, <3>1, <3>2, AtType
    <3>4. UNCHANGED <<rows, aux_overtaken>>
      BY DEF KeyFails
    <3> QED
      BY <1>1, <1>3, <3>2, <3>3, <3>4 DEF Fits
  <2> QED
    BY <2>1, <2>2
<1> QED
  BY <1>4, RequestStep DEF KeyFails, IInv, TypeOK

\* A rejected answer ends the request.
LEMMA BadAnswerInv ==
    ASSUME IInv, NEW r \in Requests, BadAnswer(r)
    PROVE  IInv'
<1>1. request'[r] = Closed("failed") /\ aux_spent'[r] = aux_spent[r] /\ aux_spent[r] \subseteq 1..Keys
  BY DEF BadAnswer, IInv, TypeOK
<1>2. Fits(request[r], aux_spent[r])'
  BY <1>1, ClosedType DEF Fits
<1> QED
  BY <1>1, <1>2, RequestStep DEF BadAnswer, IInv, TypeOK

\* A stored narrative of a case is about the case that has the id, or the slot was overtaken.
LEMMA GoodAnswerInv ==
    ASSUME IInv, NEW r \in Requests, GoodAnswer(r)
    PROVE  IInv'
<1> DEFINE s == request[r].slot
<1>1. Fits(request[r], aux_spent[r]) /\ request[r].pc = "calling"
  BY FitsIsInvariant DEF GoodAnswer
<1>2. s \in Slots /\ request[r].facts \in Version
  BY <1>1 DEF Fits
<1>3. PICK outcome \in {"failed", "generated"} :
          /\ request' = [request EXCEPT ![r] = Closed(outcome)]
          /\ narratives' = narratives \/ narratives' = [narratives EXCEPT ![s] = request[r].facts]
  BY DEF GoodAnswer
<1>4. request'[r] = Closed(outcome) /\ aux_spent' = aux_spent /\ aux_spent[r] \subseteq 1..Keys
  BY <1>3 DEF GoodAnswer, IInv, TypeOK
<1>5. Fits(request[r], aux_spent[r])'
  BY <1>4, ClosedType DEF Fits
<1>6. narratives' \in [Slots -> Version \cup {None}]
  BY <1>2, <1>3 DEF IInv, TypeOK
<1>7. CaseNarrativeCurrent'
  <2> SUFFICES ASSUME NEW c \in CaseSlots, narratives'[c] # None, c \notin aux_overtaken
               PROVE  narratives'[c] = rows[c]
    BY DEF CaseNarrativeCurrent, CaseSlots, GoodAnswer
  <2>1. CASE narratives'[c] = narratives[c]
    BY <2>1 DEF CaseNarrativeCurrent, CaseSlots, IInv
  <2>2. CASE narratives'[c] # narratives[c]
    <3>0. c \in Slots /\ narratives \in [Slots -> Version \cup {None}]
      BY DEF CaseSlots, Slots, Kinds, IInv, TypeOK
    <3>1. c = s /\ narratives'[c] = request[r].facts
      BY <1>2, <1>3, <2>2, <3>0
    <3> QED
      BY <1>1, <3>1 DEF Fits
  <2> QED
    BY <2>1, <2>2
<1> QED
  BY <1>3, <1>4, <1>5, <1>6, <1>7, AnswerStep DEF GoodAnswer, IInv, TypeOK

\* Open requests die with the server.
LEMMA RestartInv ==
    ASSUME IInv, Restart
    PROVE  IInv'
<1>1. \A x \in Requests : request'[x] = IF Open(x) THEN Closed("none") ELSE request[x]
  BY DEF Restart
<1>2. \A x \in Requests : request'[x] \in RequestType /\ ~Open(x)'
  BY <1>1, ClosedType DEF IInv, TypeOK, Open
<1>3. \A x \in Requests : request'[x].pc = "unavailable" => request[x].pc = "unavailable"
  BY <1>1, ClosedType
<1>4. request' \in [Requests -> RequestType]
  BY <1>2 DEF Restart
<1>5. TypeOK'
  BY <1>4 DEF Restart, IInv, TypeOK
<1> QED
  BY <1>2, <1>3, <1>5 DEF Restart, IInv, Placed, NoKeyLeftUntried, FactsCurrent, CaseNarrativeCurrent

\* A rebuild of the cases empties their slots of narratives and marks the waiting requests;
\* a rebuild of other rows leaves the cases alone.
LEMMA RebuildInv ==
    ASSUME IInv, NEW kind \in Kinds, NEW n \in 0..MaxId, Rebuild(kind, n)
    PROVE  IInv'
<1>1. rows' \in [Slots -> Version \cup {None}]
  <2> SUFFICES ASSUME NEW s \in Slots
               PROVE  (IF s[1] # kind THEN rows[s]
                       ELSE IF s[2] <= n THEN versions + s[2] ELSE None) \in Version \cup {None}
    BY DEF Rebuild
  <2>1. s[2] \in 1..MaxId /\ versions \in Nat /\ versions + n <= MaxVersions /\ n \in Nat
    BY BoundAssumption DEF Slots, Ids, IInv, TypeOK, Rebuild
  <2>2. s[2] <= n => versions + s[2] \in Version
    BY <2>1, BoundAssumption DEF Version
  <2> QED
    BY <2>2 DEF IInv, TypeOK
<1>2. TypeOK'
  <2>1. versions' \in 0..MaxVersions
    BY BoundAssumption DEF Rebuild, IInv, TypeOK
  <2>2. narratives' \in [Slots -> Version \cup {None}]
    BY DEF Rebuild, IInv, TypeOK
  <2>3. {kind} \X Ids \subseteq Slots
    BY DEF Slots
  <2> QED
    BY <1>1, <2>1, <2>2, <2>3 DEF Rebuild, IInv, TypeOK
<1>3. Placed' /\ NoKeyLeftUntried'
  BY DEF Rebuild, IInv, Placed, NoKeyLeftUntried, Open
<1>4. CaseSlots \subseteq Slots /\ \A s \in CaseSlots : s[1] = "investigation_case"
  BY DEF CaseSlots, Slots, Kinds
<1>5. CASE kind = "investigation_case"
  <2>1. FactsCurrent'
    BY <1>5 DEF Rebuild, CaseSlots, FactsCurrent, Open
  <2>2. \A s \in CaseSlots : narratives'[s] = None
    BY <1>4, <1>5 DEF Rebuild, Purged, CaseSlots
  <2> QED
    BY <1>2, <1>3, <2>1, <2>2 DEF IInv, CaseNarrativeCurrent, CaseSlots
<1>6. CASE kind # "investigation_case"
  <2>1. \A s \in CaseSlots : rows'[s] = rows[s] /\ narratives'[s] = narratives[s]
    BY <1>4, <1>6 DEF Rebuild, Purged
  <2>2. aux_overtaken \subseteq aux_overtaken' /\ request' = request
    BY DEF Rebuild
  <2>3. FactsCurrent'
    BY <2>1, <2>2 DEF IInv, FactsCurrent, Open, CaseSlots
  <2>4. CaseNarrativeCurrent'
    BY <2>1, <2>2 DEF IInv, CaseNarrativeCurrent, CaseSlots
  <2> QED
    BY <1>2, <1>3, <2>3, <2>4 DEF IInv
<1> QED
  BY <1>5, <1>6

-----------------------------------------------------------------------------
(* The invariant and what follows from it *)

\* Nothing is cached or asked at the start.
LEMMA InitInv == Init => IInv
<1> SUFFICES ASSUME Init PROVE IInv
  OBVIOUS
<1>1. \A r \in Requests : request[r] = Closed("none") /\ aux_spent[r] = {}
  BY DEF Init
<1>2. TypeOK
  BY <1>1, ClosedType, BoundAssumption DEF Init, TypeOK
<1> QED
  BY <1>1, <1>2, ClosedType DEF Init, IInv, Placed, NoKeyLeftUntried, FactsCurrent, CaseNarrativeCurrent,
     Open, Slots, Kinds

\* One case per action.
LEMMA NextInv == IInv /\ [Next]_vars => IInv'
<1> SUFFICES ASSUME IInv, [Next]_vars PROVE IInv'
  OBVIOUS
<1>1. ASSUME NEW r \in Requests, Progress(r) PROVE IInv'
  BY <1>1, AttemptFailsInv, KeyFailsInv, WakeInv, BadAnswerInv, GoodAnswerInv DEF Progress
<1>2. CASE UNCHANGED vars
  BY <1>2 DEF vars, IInv, TypeOK, Placed, NoKeyLeftUntried, FactsCurrent, CaseNarrativeCurrent, Open
<1> QED
  BY <1>1, <1>2, RebuildInv, AskInv, ServeInv, RestartInv DEF Next

\* The strengthened invariant holds always.
LEMMA Inductive == Spec => []IInv
  BY InitInv, NextInv, PTL DEF Spec

\* The state keeps its shape for any number of requests, keys, attempts and rows: no key
\* beyond the last and no attempt beyond MaxAttempts is ever used.
THEOREM TypeCorrect == Spec => []TypeOK
<1>1. IInv => TypeOK
  BY DEF IInv
<1> QED
  BY <1>1, Inductive, PTL

\* _complete_with_retry: a request answered with the API's error has tried every key, in order.
THEOREM EveryKeyTried == Spec => []NoKeyLeftUntried
<1>1. IInv => NoKeyLeftUntried
  BY DEF IInv
<1> QED
  BY <1>1, Inductive, PTL

\* compute_cases' purge: except after a rebuild during the await, the cached narrative of a
\* case is about the case that has its id now.
THEOREM CaseNarrativesCurrent == Spec => []CaseNarrativeCurrent
<1>1. IInv => CaseNarrativeCurrent
  BY DEF IInv
<1> QED
  BY <1>1, Inductive, PTL

\* get_or_create_narrative: a cached narrative changes or goes by a purge of its kind or a
\* forced regeneration only.
THEOREM CacheIsStable == Spec => CacheStable
<1> DEFINE Kept(s) == narratives[s] # None =>
               narratives'[s] = narratives[s] \/ PurgeOf(s) \/ ForcedFor(s)
<1>1. ASSUME IInv, Next, NEW s \in Slots PROVE Kept(s)
  <2>1. ASSUME NEW kind \in Kinds, NEW n \in 0..MaxId, Rebuild(kind, n) PROVE Kept(s)
    <3>1. CASE s \notin Purged(kind)
      BY <2>1, <3>1 DEF Rebuild
    <3>2. CASE s \in Purged(kind)
      <4>1. kind = "investigation_case" /\ s[1] = kind
        BY <3>2 DEF Purged
      <4>2. \A id \in Ids : <<kind, id>> \in Slots /\ <<kind, id>> \in Purged(kind)
        BY <4>1 DEF Purged, Slots
      <4>3. \A id \in Ids : narratives'[<<kind, id>>] = None
        BY <2>1, <4>2 DEF Rebuild
      <4> QED
        BY <2>1, <4>1, <4>3 DEF Rebuild, PurgeOf
    <3> QED
      BY <3>1, <3>2
  <2>2. ASSUME NEW r \in Requests, GoodAnswer(r) PROVE Kept(s)
    <3>1. CASE narratives'[s] = narratives[s]
      BY <3>1
    <3>2. CASE narratives'[s] # narratives[s] /\ narratives[s] # None
      <4>1. /\ request[r].slot = s
            /\ Storable(s, request[r].existing)
            /\ request' = [request EXCEPT ![r] = Closed("generated")]
        BY <2>2, <3>2, <1>1 DEF GoodAnswer, IInv, TypeOK
      <4>2. Open(r) /\ Fits(request[r], aux_spent[r])
        BY <1>1, <2>2, FitsIsInvariant DEF GoodAnswer, Open
      <4>3. request[r].force
        BY <3>2, <4>1, <4>2 DEF Storable, Fits, Open
      <4>4. request'[r].pc = "generated"
        BY <1>1, <4>1, ClosedType DEF IInv, TypeOK
      <4> QED
        BY <4>1, <4>2, <4>3, <4>4 DEF ForcedFor
    <3> QED
      BY <3>1, <3>2
  <2> QED
    BY <1>1, <2>1, <2>2 DEF Next, Progress, Ask, Serve, AttemptFails, KeyFails, Wake, BadAnswer, Restart
<1>2. IInv /\ [Next]_vars => [\A s \in Slots : Kept(s)]_vars
  BY <1>1
<1> QED
  BY <1>2, Inductive, PTL DEF Spec, CacheStable
================================================================================
