------------------------------ MODULE Ingestion ------------------------------
(***************************************************************************)
(* How an agent's report becomes a receipt and a task: the API route       *)
(* v1/claims with its tokens and rate limit, the page                      *)
(* submit-report-page.tsx, and acceptClaim of                              *)
(* packages/database/src/claims.ts.                                        *)
(*                                                                         *)
(* Agents call with any key and payload, as often as they like; the page   *)
(* takes a key per distinct payload.  A call is cut at its awaits.  The    *)
(* checks of the task are Monitoring's: here a job is live or not.         *)
(***************************************************************************)
EXTENDS Integers

CONSTANTS
    Credential,     \* ingestion tokens: rows of app.agent_credentials
    PageUser,       \* the producer identity of the page
    Key,            \* idempotency keys, those of the page used in order
    Request,        \* authorized requests
    Text,           \* what a report says
    Call,           \* calls the server may work on at a time
    Limit,          \* INGESTION_RATE_PER_MINUTE: calls of a producer per window
    MaxEvents,      \* bound: commands, lost answers, new windows
    NONE            \* no payload, no call

Payload == [request : Request, text : Text]

Producer == Credential \cup {PageUser}

ASSUME IngestionAssumption ==
    /\ PageUser \notin Credential /\ NONE \notin Call \cup Payload \cup Key
    /\ Key \subseteq Nat /\ Limit \in Nat /\ MaxEvents \in Nat

VARIABLES
    credential, \* credential[d]: the token
    hits,       \* hits[q]: calls of q counted in the current window
    request,    \* request[r]: may it be reported on
    task,       \* task[r]: the task of the request
    job,        \* job[r]: the live row with key verify:<task>
    receipt,    \* receipt[q][k]: the payload stored for producer and key
    call,       \* call[c]: the local variables of a handler
    page,       \* the state of the page
    events      \* how much of the bound is used

tables == <<credential, hits, request, task, job, receipt>>
vars == <<credential, hits, request, task, job, receipt, call, page, events>>

NoCall == [pc |-> "IDLE", producer |-> PageUser, key |-> NONE, payload |-> NONE,
           known |-> FALSE, answer |-> "NONE"]

Refusals == {"INVALID_INGESTION_TOKEN", "RATE_LIMITED", "DUPLICATE_PAYLOAD_CONFLICT",
             "CLAIM_TIMESTAMP_OUT_OF_WINDOW", "REQUEST_NOT_ACTIVE"}

\* known: the receipt of this key and payload was there when the call arrived.
Calls ==
    [pc : {"IDLE", "AUTH", "RATE", "LOOKUP", "TX", "RESOLVE", "ANSWER"},
     producer : Producer, key : Key \cup {NONE}, payload : Payload \cup {NONE},
     known : BOOLEAN, answer : Refusals \cup {"NONE", "ACCEPTED", "DUPLICATE"}]

\* key and payload: the submission key; used: all keys the page has made.
Pages ==
    [payload : Payload \cup {NONE}, key : Key \cup {NONE}, used : SUBSET Key,
     waiting : Call \cup {NONE}]

TypeOK ==
    /\ credential \in [Credential -> {"NONE", "LIVE", "REVOKED"}]
    /\ hits \in [Producer -> 0..Limit + 1]
    /\ request \in [Request -> {"ACTIVE", "ENDED"}]
    /\ task \in [Request -> {"NONE", "OPEN", "RETIRED"}]
    /\ job \in [Request -> {"NONE", "READY", "LEASED"}]
    /\ receipt \in [Producer -> [Key -> Payload \cup {NONE}]]
    /\ call \in [Call -> Calls] /\ page \in Pages /\ events \in 0..MaxEvents

Event == events < MaxEvents /\ events' = events + 1

\* Requests are registered, nothing is reported, no token exists.
Init ==
    /\ credential = [d \in Credential |-> "NONE"]
    /\ hits = [q \in Producer |-> 0]
    /\ request = [r \in Request |-> "ACTIVE"]
    /\ task = [r \in Request |-> "NONE"] /\ job = [r \in Request |-> "NONE"]
    /\ receipt = [q \in Producer |-> [k \in Key |-> NONE]]
    /\ call = [c \in Call |-> NoCall]
    /\ page = [payload |-> NONE, key |-> NONE, used |-> {},
               waiting |-> NONE]
    /\ events = 0
-----------------------------------------------------------------------------
(***************************************************************************)
(* Callers.                                                                *)
(***************************************************************************)

Arrives(c, q, k, x, at) ==
    /\ call[c].pc = "IDLE"
    /\ call' = [call EXCEPT ![c] = [NoCall EXCEPT !.pc = at, !.producer = q, !.key = k,
                                      !.payload = x, !.known = (receipt[q][k] = x)]]

\* An agent that was given the token calls, for the first time or again.
AgentCalls(c, d, k, x) ==
    /\ credential[d] # "NONE"
    /\ Arrives(c, d, k, x, "AUTH")
    /\ UNCHANGED <<tables, page, events>>

\* The key of the last submission, or a new one when the payload is another.
KeyFor(x, k) ==
    IF page.payload = x THEN k = page.key
    ELSE k \notin page.used /\ \A j \in Key \ page.used : k <= j

Submit(c, x) ==
    /\ page.waiting = NONE
    /\ \E k \in Key :
         /\ KeyFor(x, k)
         /\ Arrives(c, PageUser, k, x, "RATE")
         /\ page' = [page EXCEPT !.payload = x, !.key = k, !.used = @ \cup {k},
                                 !.waiting = c]
    /\ UNCHANGED <<tables, events>>

\* fetch failed: the form stays, with its key, and the call goes on.
Unreachable ==
    /\ page.waiting # NONE /\ Event
    /\ page' = [page EXCEPT !.waiting = NONE]
    /\ UNCHANGED <<tables, call>>

\* The answer is heard.  After a result the page forgets its key.
Answer(c) ==
    /\ call[c].pc = "ANSWER"
    /\ call' = [call EXCEPT ![c] = NoCall]
    /\ page' = IF page.waiting # c THEN page
               ELSE IF call[c].answer \in Refusals THEN [page EXCEPT !.waiting = NONE]
               ELSE [page EXCEPT !.waiting = NONE, !.payload = NONE, !.key = NONE]
    /\ UNCHANGED <<tables, events>>
-----------------------------------------------------------------------------
(***************************************************************************)
(* The handler.                                                            *)
(***************************************************************************)

Goes(c, pc) == call' = [call EXCEPT ![c].pc = pc]

Says(c, a) == call' = [call EXCEPT ![c].pc = "ANSWER", ![c].answer = a]

\* authenticateIngestionToken
Authenticate(c) ==
    /\ call[c].pc = "AUTH"
    /\ IF credential[call[c].producer] = "LIVE" THEN Goes(c, "RATE")
       ELSE Says(c, "INVALID_INGESTION_TOKEN")
    /\ UNCHANGED <<tables, page, events>>

\* enforceRateLimit: count, then compare.
CountHit(c) ==
    LET q == call[c].producer IN
    /\ call[c].pc = "RATE"
    /\ hits' = [hits EXCEPT ![q] = IF @ > Limit THEN @ ELSE @ + 1]
    /\ IF hits'[q] > Limit THEN Says(c, "RATE_LIMITED") ELSE Goes(c, "LOOKUP")
    /\ UNCHANGED <<credential, request, task, job, receipt, page, events>>

Stored(c) == receipt[call[c].producer][call[c].key]

AnswerByKey(c) == Says(c, "DUPLICATE")

\* The receipt of the key answers a call with its payload, and refuses another.
AnswerFromReceipt(c) ==
    Says(c, IF Stored(c) = call[c].payload THEN "DUPLICATE" ELSE "DUPLICATE_PAYLOAD_CONFLICT")

LookUpInTime(c) ==
    /\ call[c].pc = "LOOKUP"
    /\ \/ Stored(c) # NONE /\ AnswerFromReceipt(c)
       \/ call[c].producer \in Credential /\ Says(c, "CLAIM_TIMESTAMP_OUT_OF_WINDOW")
       \/ Stored(c) = NONE /\ Goes(c, "TX")
    /\ UNCHANGED <<tables, page, events>>

\* Identical duplicates resolve first; then the claimed time, which only agents send,
\* may be outside its window.
LookUp(c) ==
    /\ call[c].pc = "LOOKUP"
    /\ \/ Stored(c) # NONE /\ AnswerFromReceipt(c)
       \/ /\ Stored(c) = NONE /\ call[c].producer \in Credential
          /\ Says(c, "CLAIM_TIMESTAMP_OUT_OF_WINDOW")
       \/ Stored(c) = NONE /\ Goes(c, "TX")
    /\ UNCHANGED <<tables, page, events>>

\* The transaction: the request is locked, its task is created or found, the receipt
\* inserted, and a check queued unless the task is retired or has one.
Accept(c) ==
    LET r == call[c].payload.request IN
    /\ call[c].pc = "TX" /\ request[r] = "ACTIVE" /\ Stored(c) = NONE
    /\ task' = [task EXCEPT ![r] = IF @ = "NONE" THEN "OPEN" ELSE @]
    /\ receipt' = [receipt EXCEPT ![call[c].producer][call[c].key] = call[c].payload]
    /\ job' = [job EXCEPT ![r] = IF @ = "NONE" /\ task[r] # "RETIRED" THEN "READY" ELSE @]
    /\ Says(c, "ACCEPTED")
    /\ UNCHANGED <<credential, hits, request, page, events>>

\* REQUEST_NOT_ACTIVE, before the receipt is tried.
Reject(c) ==
    /\ call[c].pc = "TX" /\ request[call[c].payload.request] # "ACTIVE"
    /\ Says(c, "REQUEST_NOT_ACTIVE")
    /\ UNCHANGED <<tables, page, events>>

ViolationKeepsTask(c) ==
    LET r == call[c].payload.request IN
    /\ call[c].pc = "TX" /\ request[r] = "ACTIVE" /\ Stored(c) # NONE
    /\ task' = [task EXCEPT ![r] = IF @ = "NONE" THEN "OPEN" ELSE @]
    /\ Goes(c, "RESOLVE")
    /\ UNCHANGED <<credential, hits, request, job, receipt, page, events>>

\* Another call with the key was first: the unique index undoes the transaction.
UniqueViolation(c) ==
    /\ call[c].pc = "TX" /\ request[call[c].payload.request] = "ACTIVE" /\ Stored(c) # NONE
    /\ Goes(c, "RESOLVE")
    /\ UNCHANGED <<tables, page, events>>

Resolve(c) ==
    /\ call[c].pc = "RESOLVE"
    /\ AnswerFromReceipt(c)
    /\ UNCHANGED <<tables, page, events>>
-----------------------------------------------------------------------------
(***************************************************************************)
(* Tokens, requests, tasks and the worker.                                 *)
(***************************************************************************)

CreateToken(d) ==
    /\ credential[d] = "NONE" /\ Event
    /\ credential' = [credential EXCEPT ![d] = "LIVE"]
    /\ UNCHANGED <<hits, request, task, job, receipt, call, page>>

RevokeByDeleting(d) ==
    /\ credential[d] = "LIVE" /\ Event
    /\ credential' = [credential EXCEPT ![d] = "DELETED"]
    /\ UNCHANGED <<hits, request, task, job, receipt, call, page>>

RevokeToken(d) ==
    /\ credential[d] = "LIVE" /\ Event
    /\ credential' = [credential EXCEPT ![d] = "REVOKED"]
    /\ UNCHANGED <<hits, request, task, job, receipt, call, page>>

\* What the settings page has for a token.
TokenCommand(d) == CreateToken(d) \/ RevokeToken(d)

\* The next minute has its own counters.
NewWindow ==
    /\ Event
    /\ hits' = [q \in Producer |-> 0]
    /\ UNCHANGED <<credential, request, task, job, receipt, call, page>>

\* A correction or a retirement ends the request.
EndRequest(r) ==
    /\ request[r] = "ACTIVE" /\ Event
    /\ request' = [request EXCEPT ![r] = "ENDED"]
    /\ UNCHANGED <<credential, hits, task, job, receipt, call, page>>

\* retireTask cancels the checks that are not running.
RetireTask(r) ==
    /\ task[r] = "OPEN" /\ Event
    /\ task' = [task EXCEPT ![r] = "RETIRED"]
    /\ job' = [job EXCEPT ![r] = IF @ = "READY" THEN "NONE" ELSE @]
    /\ UNCHANGED <<credential, hits, request, receipt, call, page>>

WorkerTakes(r) ==
    /\ job[r] = "READY"
    /\ job' = [job EXCEPT ![r] = "LEASED"]
    /\ UNCHANGED <<credential, hits, request, task, receipt, call, page, events>>

WorkerEnds(r) ==
    /\ job[r] = "LEASED"
    /\ job' = [job EXCEPT ![r] = "NONE"]
    /\ UNCHANGED <<credential, hits, request, task, receipt, call, page, events>>

CallerStep ==
    \/ \E c \in Call, d \in Credential, k \in Key, x \in Payload : AgentCalls(c, d, k, x)
    \/ \E c \in Call, x \in Payload : Submit(c, x)
    \/ Unreachable

CallStep(c) ==
    \/ Authenticate(c) \/ CountHit(c) \/ LookUp(c) \/ Accept(c) \/ Reject(c)
    \/ UniqueViolation(c) \/ Resolve(c) \/ Answer(c)

EnvironmentStep ==
    \/ \E d \in Credential : TokenCommand(d)
    \/ NewWindow
    \/ \E r \in Request : EndRequest(r) \/ RetireTask(r) \/ WorkerTakes(r) \/ WorkerEnds(r)

Next ==
    \/ CallerStep
    \/ \E c \in Call : CallStep(c)
    \/ EnvironmentStep

Spec == Init /\ [][Next]_vars
-----------------------------------------------------------------------------
(***************************************************************************)
(* Properties.                                                             *)
(***************************************************************************)

Said(c, a) == call[c].pc = "ANSWER" /\ call[c].answer = a

\* Whoever is told that a report was accepted, as new or as a duplicate, finds its
\* own payload under its key, on a task (claims.ts:75-90, 183-191); and of calls that
\* race with one key one is new (API-CONTRACT.md:126).
AnswerIsTheReceipt ==
    \A c \in Call :
      /\ Said(c, "ACCEPTED") \/ Said(c, "DUPLICATE") =>
           Stored(c) = call[c].payload /\ task[call[c].payload.request] # "NONE"
      /\ \A b \in Call \ {c} :
           ~(/\ Said(c, "ACCEPTED") /\ Said(b, "ACCEPTED")
             /\ <<call[c].producer, call[c].key>> = <<call[b].producer, call[b].key>>)

\* A retry that arrives after its report was stored gets the receipt: neither the end
\* of the request nor of the time window makes it fail (claims.ts:74).
RetryIsAnswered ==
    \A c \in Call :
      call[c].pc = "ANSWER" /\ call[c].known =>
        call[c].answer \in {"DUPLICATE", "INVALID_INGESTION_TOKEN", "RATE_LIMITED"}

\* A task has the receipt that opened it: a call that is refused after it created
\* the task, for its key, leaves neither (claims.ts:104-182).
TaskHasItsReceipt ==
    \A r \in Request : task[r] # "NONE" =>
      \E q \in Producer, k \in Key : receipt[q][k] # NONE /\ receipt[q][k].request = r
=============================================================================
