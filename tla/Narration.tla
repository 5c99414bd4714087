------------------------------- MODULE Narration -------------------------------
(***************************************************************************)
(* LLM narratives of detected signals: narrate_endpoint                    *)
(* (app/routers/analyst.py), get_or_create_narrative, narrate and          *)
(* _complete_with_retry (app/agent/narration.py), and the rebuilds that    *)
(* replace the rows narratives are about (compute_cases, the detectors).   *)
(*                                                                         *)
(* A request is a handler that gives up the event loop while it awaits     *)
(* the Mistral API and while it sleeps between attempts.  Other requests   *)
(* and rebuilds run to completion in the meantime; what the request read   *)
(* before (the row, its facts, the cached narrative) is used after.        *)
(***************************************************************************)
EXTENDS Integers, FiniteSets

CONSTANTS
    Requests,     \* POST /agent/narrate requests that may be open at once
    Keys,         \* how many API keys are configured
    MaxAttempts,  \* _MAX_ATTEMPTS per key
    MaxId,        \* bound of the model: greatest id of a case or another signal
    MaxVersions,  \* bound of the model: rows created in all
    MaxOpened,    \* bound of the model: requests in all
    None          \* no row

Kinds   == {"investigation_case", "reconciliation_break"}
Ids     == 1..MaxId
Slots   == Kinds \X Ids   \* signal_type and reference_id
Version == 1..MaxVersions

ASSUME NoneAssumption     == None \notin Version
ASSUME KeysAssumption     == Keys \in Nat \ {0}
ASSUME AttemptsAssumption == MaxAttempts \in Nat \ {0}
ASSUME BoundAssumption    == MaxId \in Nat /\ MaxVersions \in Nat /\ MaxOpened \in Nat

VARIABLES
    rows,        \* per slot the signal that has this id now: a fresh number, or None
    versions,    \* rows created so far
    narratives,  \* agent_narratives: per slot the signal it describes, or None
    request,     \* per request: where it is and what it read before its first await
    opened,      \* requests so far
    aux_spent,    \* per request: the keys it has given up
    aux_overtaken \* slots whose row was replaced while a request for it was open

vars == <<rows, versions, narratives, request, opened, aux_spent, aux_overtaken>>

-----------------------------------------------------------------------------
Closed(outcome) == [pc |-> outcome, slot |-> None, facts |-> None, existing |-> FALSE,
                    force |-> FALSE, key |-> 0, attempt |-> 0]

Open(r) == request[r].pc \in {"calling", "sleeping"}

\* An open request goes on with another key or attempt; what it has read stays.
At(q, pc, key, attempt) == [pc |-> pc, slot |-> q.slot, facts |-> q.facts, existing |-> q.existing,
                            force |-> q.force, key |-> key, attempt |-> attempt]

Init ==
    /\ rows = [s \in Slots |-> None]
    /\ versions = 0
    /\ narratives = [s \in Slots |-> None]
    /\ request = [r \in Requests |-> Closed("none")]
    /\ opened = 0
    /\ aux_spent = [r \in Requests |-> {}]
    /\ aux_overtaken = {}

\* A run that rebuilds the rows of one kind: n of them, numbered from 1 (the table was
\* emptied).  compute_cases also deletes the narratives of the cases; no detector does.
PurgedNowhere(kind) == {}
Purged(kind) == IF kind = "investigation_case" THEN {kind} \X Ids ELSE {}

Rebuild(kind, n) ==
    /\ versions + n <= MaxVersions
    /\ versions' = versions + n
    /\ rows' = [s \in Slots |-> IF s[1] # kind THEN rows[s]
                                ELSE IF s[2] <= n THEN versions + s[2] ELSE None]
    /\ narratives' = [s \in Slots |-> IF s \in Purged(kind) THEN None ELSE narratives[s]]
    /\ aux_overtaken' = aux_overtaken \cup {s \in {kind} \X Ids :
                                                \E r \in Requests : Open(r) /\ request[r].slot = s}
    /\ UNCHANGED <<request, opened, aux_spent>>

\* The row is there (else 404) and no narrative is cached, or a new one is forced: the
\* first attempt on the first key goes out.
Ask(r, s, force) ==
    /\ ~Open(r) /\ opened < MaxOpened
    /\ rows[s] # None
    /\ narratives[s] = None \/ force
    /\ opened' = opened + 1
    /\ request' = [request EXCEPT ![r] =
          [pc |-> "calling", slot |-> s, facts |-> rows[s], existing |-> narratives[s] # None,
           force |-> force, key |-> 1, attempt |-> 1]]
    /\ aux_spent' = [aux_spent EXCEPT ![r] = {}]
    /\ UNCHANGED <<rows, versions, narratives, aux_overtaken>>

\* The cached narrative is the answer.
Serve(r, s) ==
    /\ ~Open(r) /\ opened < MaxOpened
    /\ rows[s] # None
    /\ narratives[s] # None
    /\ opened' = opened + 1
    /\ request' = [request EXCEPT ![r] = Closed("served")]
    /\ aux_spent' = [aux_spent EXCEPT ![r] = {}]
    /\ UNCHANGED <<rows, versions, narratives, aux_overtaken>>

-----------------------------------------------------------------------------
(* _complete_with_retry *)

RetryOnceMore(kind, attempt) == kind # "invalid" /\ attempt <= MaxAttempts
\* A rejected key is not tried again, any other failure is, up to the last attempt.
Retry(kind, attempt) == kind # "invalid" /\ attempt < MaxAttempts

LastKeyTooSoon(key) == key + 1 >= Keys
LastKey(key) == key = Keys

AttemptFails(r, kind) ==
    /\ request[r].pc = "calling"
    /\ Retry(kind, request[r].attempt)
    /\ request' = [request EXCEPT ![r] = At(@, "sleeping", @.key, @.attempt)]
    /\ UNCHANGED <<rows, versions, narratives, opened, aux_spent, aux_overtaken>>

WakeUncounted(r) ==
    /\ request[r].pc = "sleeping"
    /\ request' = [request EXCEPT ![r] = At(@, "calling", @.key, @.attempt)]
    /\ UNCHANGED <<rows, versions, narratives, opened, aux_spent, aux_overtaken>>

\* The pause before the next attempt on the same key ends.
Wake(r) ==
    /\ request[r].pc = "sleeping"
    /\ request' = [request EXCEPT ![r] = At(@, "calling", @.key, @.attempt + 1)]
    /\ UNCHANGED <<rows, versions, narratives, opened, aux_spent, aux_overtaken>>

\* The key is given up: the next one is called at once, and after the last one the last
\* error is raised and the request is answered with 502.
KeyFails(r, kind) ==
    /\ request[r].pc = "calling"
    /\ ~Retry(kind, request[r].attempt)
    /\ request' = [request EXCEPT ![r] =
          IF LastKey(@.key) THEN Closed("unavailable")
          ELSE At(@, "calling", @.key + 1, 1)]
    /\ aux_spent' = [aux_spent EXCEPT ![r] = @ \cup {request[r].key}]
    /\ UNCHANGED <<rows, versions, narratives, opened, aux_overtaken>>

\* narrate rejects what the model answered: not JSON, a key missing, or the identifier of
\* the signal not in the text.  Nothing is cached.
BadAnswer(r) ==
    /\ request[r].pc = "calling"
    /\ request' = [request EXCEPT ![r] = Closed("failed")]
    /\ UNCHANGED <<rows, versions, narratives, opened, aux_spent, aux_overtaken>>

\* A grounded answer is stored.  The session decides by what it read before the call: it
\* UPDATEs a narrative it had found, and INSERTs one otherwise.  The first fails if the
\* narrative was purged in the meantime, the second if another request was faster.
StorableAlways(s, existing) == TRUE
Storable(s, existing) == existing <=> narratives[s] # None

GoodAnswer(r) ==
    LET s == request[r].slot IN
    /\ request[r].pc = "calling"
    /\ IF Storable(s, request[r].existing)
       THEN /\ narratives' = [narratives EXCEPT ![s] = request[r].facts]
            /\ request' = [request EXCEPT ![r] = Closed("generated")]
       ELSE /\ request' = [request EXCEPT ![r] = Closed("failed")]
            /\ UNCHANGED narratives
    /\ UNCHANGED <<rows, versions, opened, aux_spent, aux_overtaken>>

\* The server restarts: open requests die, the tables stay.
Restart ==
    /\ \E r \in Requests : Open(r)
    /\ request' = [r \in Requests |-> IF Open(r) THEN Closed("none") ELSE request[r]]
    /\ UNCHANGED <<rows, versions, narratives, opened, aux_spent, aux_overtaken>>

Failures == {"invalid", "exhausted", "transient"}   \* _classify

\* What a call of the API may come back with, and the end of a pause.
Progress(r) ==
    \/ \E kind \in Failures : AttemptFails(r, kind) \/ KeyFails(r, kind)
    \/ Wake(r)
    \/ BadAnswer(r)
    \/ GoodAnswer(r)

Next ==
    \/ \E kind \in Kinds, n \in 0..MaxId : Rebuild(kind, n)
    \/ \E r \in Requests, s \in Slots :
          \/ \E force \in BOOLEAN : Ask(r, s, force)
          \/ Serve(r, s)
    \/ \E r \in Requests : Progress(r)
    \/ Restart

Spec == Init /\ [][Next]_vars

\* asyncio wakes a sleeping request, and a call of the API returns or raises (the client
\* library's own timeout sees to that).
FairSpec == Spec /\ \A r \in Requests : WF_vars(Progress(r))
-----------------------------------------------------------------------------
(* Properties *)

RequestType ==
    [pc       : {"none", "served", "unavailable", "failed", "generated", "calling", "sleeping"},
     slot     : Slots \cup {None},
     facts    : Version \cup {None},
     existing : BOOLEAN,
     force    : BOOLEAN,
     key      : 0..Keys,
     attempt  : 0..MaxAttempts]

\* The shape of the state: no key beyond the last is used, and none more than MaxAttempts
\* times.
TypeOK ==
    /\ rows \in [Slots -> Version \cup {None}]
    /\ narratives \in [Slots -> Version \cup {None}]
    /\ versions \in 0..MaxVersions
    /\ request \in [Requests -> RequestType]
    /\ opened \in 0..MaxOpened
    /\ aux_spent \in [Requests -> SUBSET (1..Keys)]
    /\ aux_overtaken \subseteq Slots

\* "Raises the last real error if every key is exhausted": a request that is answered with
\* the API's error has tried every key, and it works through them in order.
NoKeyLeftUntried ==
    \A r \in Requests :
        /\ request[r].pc = "unavailable" => aux_spent[r] = 1..Keys
        /\ Open(r) => aux_spent[r] = 1..(request[r].key - 1)

\* A cached narrative is stable: it changes or goes only by a purge of its kind or by a
\* forced regeneration, however many requests for it were under way.
PurgeOf(s) == /\ s[1] = "investigation_case"
              /\ \A id \in Ids : narratives'[<<s[1], id>>] = None
              /\ UNCHANGED request
ForcedFor(s) == \E r \in Requests : /\ Open(r) /\ request[r].slot = s /\ request[r].force
                                    /\ request'[r].pc = "generated"
CacheStable ==
    [][\A s \in Slots : narratives[s] # None =>
          narratives'[s] = narratives[s] \/ PurgeOf(s) \/ ForcedFor(s)]_vars

\* Why compute_cases purges: a narrative of a case describes the case that has its id now,
\* unless a request for that id was waiting for the API when the cases were rebuilt.
CaseNarrativeCurrent ==
    \A s \in {"investigation_case"} \X Ids :
        narratives[s] # None /\ s \notin aux_overtaken => narratives[s] = rows[s]

\* Every request is answered.
EveryRequestAnswered == \A r \in Requests : Open(r) ~> ~Open(r)

\* compute_cases: without the purge "a narrative cached under the OLD id/case_code would
\* otherwise get silently served against whatever unrelated case inherits that same numeric
\* id next".
NeverServedAgainstOtherCase ==
    \A s \in {"investigation_case"} \X Ids :
        narratives[s] # None /\ rows[s] # None => narratives[s] = rows[s]

=============================================================================
