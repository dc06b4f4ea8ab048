--------------------------- MODULE IngestionProofs ---------------------------
(***************************************************************************)
(* What callers and tasks can rely on, for any producers, keys, requests,  *)
(* payloads, limits and number of calls.                                   *)
(*                                                                         *)
(* Receipts are never changed and never without a task (ReceiptsHaveTasks),*)
(* so what a call found stays so.  CallsKnow says what a handler that is   *)
(* past its lookup has seen: only one whose report was not stored when it  *)
(* arrived gets to the transaction, or to a refusal other than those of    *)
(* its token and its rate.                                                 *)
(***************************************************************************)
EXTENDS Ingestion, TLAPS

ReceiptsHaveTasks ==
    \A q \in Producer, k \in Key :
      receipt[q][k] # NONE => task[receipt[q][k].request] # "NONE"

CallsKnow ==
    \A c \in Call :
      /\ call[c].pc # "IDLE" => call[c].key \in Key /\ call[c].payload \in Payload
      /\ call[c].pc # "IDLE" /\ call[c].known => Stored(c) = call[c].payload
      /\ call[c].pc \in {"TX", "RESOLVE"} => ~call[c].known
      /\ call[c].pc = "RESOLVE" => Stored(c) # NONE
      /\ call[c].pc = "ANSWER" /\ call[c].known =>
           call[c].answer \in {"DUPLICATE", "INVALID_INGESTION_TOKEN", "RATE_LIMITED"}
      /\ Said(c, "ACCEPTED") \/ Said(c, "DUPLICATE") => Stored(c) = call[c].payload

OneIsNew ==
    \A b, c \in Call :
      /\ b # c /\ Said(b, "ACCEPTED") /\ Said(c, "ACCEPTED")
      => <<call[c].producer, call[c].key>> # <<call[b].producer, call[b].key>>

IInv == TypeOK /\ ReceiptsHaveTasks /\ CallsKnow /\ OneIsNew /\ TaskHasItsReceipt
-----------------------------------------------------------------------------
LEMMA NoneIsNothing == NONE \notin Payload /\ NONE \notin Key /\ NONE \notin Call
BY IngestionAssumption

LEMMA CallTypes ==
    ASSUME TypeOK, NEW c \in Call
    PROVE  /\ call[c] \in Calls
           /\ call[c].pc \in {"IDLE", "AUTH", "RATE", "LOOKUP", "TX", "RESOLVE", "ANSWER"}
           /\ call[c].producer \in Producer /\ call[c].known \in BOOLEAN
           /\ call[c].answer \in Refusals \cup {"NONE", "ACCEPTED", "DUPLICATE"}
BY DEF TypeOK, Calls

\* Steps of tokens, counters, requests, tasks, jobs and the page: what was stored is
\* stored, tasks remain, and calls are as they were.
LEMMA OutsideKeeps ==
    ASSUME IInv, TypeOK', receipt' = receipt, call' = call,
           \A r \in Request : task'[r] = "NONE" <=> task[r] = "NONE"
    PROVE  IInv'
<1>1. \A q \in Producer, k \in Key : receipt[q][k] \in Payload \cup {NONE}
  BY DEF IInv, TypeOK
<1>2. ReceiptsHaveTasks'
  BY <1>1 DEF IInv, ReceiptsHaveTasks, Payload
<1>3. CallsKnow' /\ OneIsNew'
  BY DEF IInv, CallsKnow, OneIsNew, Said, Stored
<1>4. TaskHasItsReceipt'
  BY DEF IInv, TaskHasItsReceipt
<1> QED
  BY <1>2, <1>3, <1>4 DEF IInv

\* A step of one call that stores nothing.
LEMMA CallKeeps ==
    ASSUME IInv, TypeOK', receipt' = receipt, task' = task, NEW c \in Call,
           \A b \in Call \ {c} : call'[b] = call[b],
           ~Said(c, "ACCEPTED")',
           /\ call'[c].pc # "IDLE" => call'[c].key \in Key /\ call'[c].payload \in Payload
           /\ call'[c].pc # "IDLE" /\ call'[c].known => Stored(c)' = call'[c].payload
           /\ call'[c].pc \in {"TX", "RESOLVE"} => ~call'[c].known
           /\ call'[c].pc = "RESOLVE" => Stored(c)' # NONE
           /\ call'[c].pc = "ANSWER" /\ call'[c].known =>
                call'[c].answer \in {"DUPLICATE", "INVALID_INGESTION_TOKEN", "RATE_LIMITED"}
           /\ Said(c, "DUPLICATE")' => Stored(c)' = call'[c].payload
    PROVE  IInv'
<1>1. ReceiptsHaveTasks' /\ TaskHasItsReceipt'
  BY DEF IInv, ReceiptsHaveTasks, TaskHasItsReceipt
<1>2. CallsKnow'
  <2> SUFFICES ASSUME NEW b \in Call
               PROVE  (/\ call[b].pc # "IDLE" => call[b].key \in Key /\ call[b].payload \in Payload
                       /\ call[b].pc # "IDLE" /\ call[b].known => Stored(b) = call[b].payload
                       /\ call[b].pc \in {"TX", "RESOLVE"} => ~call[b].known
                       /\ call[b].pc = "RESOLVE" => Stored(b) # NONE
                       /\ call[b].pc = "ANSWER" /\ call[b].known =>
                            call[b].answer
                              \in {"DUPLICATE", "INVALID_INGESTION_TOKEN", "RATE_LIMITED"}
                       /\ Said(b, "ACCEPTED") \/ Said(b, "DUPLICATE")
                            => Stored(b) = call[b].payload)'
    BY DEF CallsKnow
  <2>1. CASE b = c
    BY <2>1
  <2>2. CASE b # c
    BY <2>2 DEF IInv, CallsKnow, Said, Stored
  <2> QED
    BY <2>1, <2>2
<1>3. OneIsNew'
  BY DEF IInv, OneIsNew, Said
<1> QED
  BY <1>1, <1>2, <1>3 DEF IInv
-----------------------------------------------------------------------------
(***************************************************************************)
(* The steps of calls.                                                     *)
(***************************************************************************)

LEMMA ArrivesKeeps ==
    ASSUME IInv, NEW c \in Call, NEW q \in Producer, NEW k \in Key, NEW x \in Payload,
           NEW at \in {"AUTH", "RATE"}, Arrives(c, q, k, x, at), UNCHANGED tables,
           page' \in Pages, events' = events
    PROVE  IInv'
<1> DEFINE new == [NoCall EXCEPT !.pc = at, !.producer = q, !.key = k, !.payload = x,
                                 !.known = (receipt[q][k] = x)]
<1>1. /\ new.pc = at /\ new.producer = q /\ new.key = k /\ new.payload = x
      /\ new.known = (receipt[q][k] = x) /\ new.answer = "NONE"
  BY DEF NoCall
<1>2. new \in Calls
  BY DEF NoCall, Calls
<1>3. call' = [call EXCEPT ![c] = new]
  BY DEF Arrives
<1> HIDE DEF new
<1>4. /\ call' \in [Call -> Calls] /\ call'[c] = new
      /\ \A b \in Call \ {c} : call'[b] = call[b]
  BY <1>2, <1>3 DEF IInv, TypeOK
<1>5. TypeOK'
  BY <1>4 DEF IInv, TypeOK, tables
<1> QED
  BY <1>1, <1>4, <1>5, CallKeeps DEF tables, Said, Stored

LEMMA AnswerKeeps ==
    ASSUME IInv, NEW c \in Call, Answer(c)
    PROVE  IInv'
<1>1. /\ call' = [call EXCEPT ![c] = NoCall] /\ UNCHANGED tables /\ events' = events
  BY DEF Answer
<1>2. NoCall \in Calls /\ NoCall.pc = "IDLE"
  <2>1. PageUser \in Producer
    BY DEF Producer
  <2> QED
    BY <2>1 DEF NoCall, Calls
<1>3. /\ call' \in [Call -> Calls] /\ call'[c].pc = "IDLE"
      /\ \A b \in Call \ {c} : call'[b] = call[b]
  BY <1>1, <1>2 DEF IInv, TypeOK
<1>4. page' \in Pages
  BY DEF Answer, IInv, TypeOK, Pages
<1>5. TypeOK'
  BY <1>1, <1>3, <1>4 DEF IInv, TypeOK, tables
<1> QED
  BY <1>1, <1>3, <1>5, CallKeeps DEF tables, Said

\* What becomes of a call that goes on or says its answer.
LEMMA GoesTypes ==
    ASSUME TypeOK, NEW c \in Call, NEW pc \in {"RATE", "LOOKUP", "TX", "RESOLVE"}, Goes(c, pc)
    PROVE  /\ call' \in [Call -> Calls] /\ \A b \in Call \ {c} : call'[b] = call[b]
           /\ call'[c].pc = pc /\ call'[c].producer = call[c].producer
           /\ call'[c].key = call[c].key /\ call'[c].payload = call[c].payload
           /\ call'[c].known = call[c].known
BY ZenonT(40) DEF Goes, TypeOK, Calls

LEMMA SaysTypes ==
    ASSUME TypeOK, NEW c \in Call, NEW a \in Refusals \cup {"ACCEPTED", "DUPLICATE"}, Says(c, a)
    PROVE  /\ call' \in [Call -> Calls] /\ \A b \in Call \ {c} : call'[b] = call[b]
           /\ call'[c].pc = "ANSWER" /\ call'[c].producer = call[c].producer
           /\ call'[c].key = call[c].key /\ call'[c].payload = call[c].payload
           /\ call'[c].known = call[c].known /\ call'[c].answer = a
<1>1. call \in [Call -> Calls] /\ call[c] \in Calls
  BY DEF TypeOK
<1>2. call' = [call EXCEPT ![c] = [call[c] EXCEPT !.pc = "ANSWER", !.answer = a]]
  BY <1>1 DEF Says, Calls
<1>3. [call[c] EXCEPT !.pc = "ANSWER", !.answer = a] \in Calls
  BY <1>1 DEF Calls
<1> QED
  BY <1>1, <1>2, <1>3 DEF Calls

\* A call goes on, to the transaction only when its report is not stored.
LEMMA GoesKeeps ==
    ASSUME IInv, TypeOK', receipt' = receipt, task' = task, NEW c \in Call,
           call[c].pc \notin {"IDLE", "ANSWER"},
           NEW pc \in {"RATE", "LOOKUP", "TX", "RESOLVE"}, Goes(c, pc),
           pc = "TX" => Stored(c) = NONE,
           pc = "RESOLVE" => Stored(c) # NONE /\ call[c].pc = "TX"
    PROVE  IInv'
<1>1. /\ \A b \in Call \ {c} : call'[b] = call[b]
      /\ call'[c].pc = pc /\ call'[c].producer = call[c].producer
      /\ call'[c].key = call[c].key /\ call'[c].payload = call[c].payload
      /\ call'[c].known = call[c].known
  BY GoesTypes DEF IInv
<1>2. Stored(c)' = Stored(c)
  BY <1>1 DEF Stored
<1>3. /\ call[c].key \in Key /\ call[c].payload \in Payload
      /\ call[c].known => Stored(c) = call[c].payload
      /\ call[c].pc = "TX" => ~call[c].known
  BY DEF IInv, CallsKnow
<1>4. pc = "TX" => ~call[c].known
  BY <1>3, NoneIsNothing
<1>5. ~Said(c, "ACCEPTED")' /\ ~Said(c, "DUPLICATE")'
  BY <1>1 DEF Said
<1> QED
  BY <1>1, <1>2, <1>3, <1>4, <1>5, CallKeeps

\* A call says no more than it knows.
LEMMA SaysKeeps ==
    ASSUME IInv, TypeOK', receipt' = receipt, task' = task, NEW c \in Call,
           call[c].pc \notin {"IDLE", "ANSWER"},
           NEW a \in Refusals \cup {"DUPLICATE"}, Says(c, a),
           a = "DUPLICATE" => Stored(c) = call[c].payload,
           a \in {"DUPLICATE", "INVALID_INGESTION_TOKEN", "RATE_LIMITED"} \/ ~call[c].known
    PROVE  IInv'
<1>1. /\ \A b \in Call \ {c} : call'[b] = call[b]
      /\ call'[c].pc = "ANSWER" /\ call'[c].producer = call[c].producer
      /\ call'[c].key = call[c].key /\ call'[c].payload = call[c].payload
      /\ call'[c].known = call[c].known /\ call'[c].answer = a
  BY SaysTypes DEF IInv
<1>2. Stored(c)' = Stored(c)
  BY <1>1 DEF Stored
<1>3. /\ call[c].key \in Key /\ call[c].payload \in Payload
      /\ call[c].known => Stored(c) = call[c].payload
  BY DEF IInv, CallsKnow
<1>4. a # "ACCEPTED"
  BY DEF Refusals
<1> QED
  BY <1>1, <1>2, <1>3, <1>4, CallKeeps DEF Said

LEMMA FromReceipt ==
    ASSUME IInv, NEW c \in Call, AnswerFromReceipt(c), UNCHANGED <<tables, page, events>>,
           call[c].pc \notin {"IDLE", "ANSWER"}
    PROVE  IInv'
<1> DEFINE a == IF Stored(c) = call[c].payload THEN "DUPLICATE"
                ELSE "DUPLICATE_PAYLOAD_CONFLICT"
<1>1. a \in Refusals \cup {"DUPLICATE"} /\ Says(c, a)
  BY DEF AnswerFromReceipt, Refusals
<1>2. a = "DUPLICATE" <=> Stored(c) = call[c].payload
  OBVIOUS
<1>3. call[c].known => Stored(c) = call[c].payload
  BY DEF IInv, CallsKnow
<1> HIDE DEF a
<1>4. call' \in [Call -> Calls]
  BY <1>1, SaysTypes DEF IInv
<1>5. TypeOK'
  BY <1>4 DEF IInv, TypeOK, tables
<1> QED
  BY <1>1, <1>2, <1>3, <1>5, SaysKeeps DEF tables

LEMMA AcceptKeeps ==
    ASSUME IInv, NEW c \in Call, Accept(c)
    PROVE  IInv'
<1> DEFINE q == call[c].producer  k == call[c].key  x == call[c].payload  r == x.request
<1>1. /\ call[c].pc = "TX" /\ Stored(c) = NONE /\ Says(c, "ACCEPTED")
      /\ task' = [task EXCEPT ![r] = IF @ = "NONE" THEN "OPEN" ELSE @]
      /\ receipt' = [receipt EXCEPT ![q][k] = x]
      /\ job' = [job EXCEPT ![r] = IF @ = "NONE" /\ task[r] # "RETIRED" THEN "READY" ELSE @]
      /\ UNCHANGED <<credential, hits, request, page, events>>
  BY DEF Accept
<1>2. q \in Producer /\ k \in Key /\ x \in Payload /\ r \in Request /\ ~call[c].known
  BY <1>1, CallTypes DEF IInv, CallsKnow, Payload
<1>3. /\ call' \in [Call -> Calls] /\ \A b \in Call \ {c} : call'[b] = call[b]
      /\ call'[c].pc = "ANSWER" /\ call'[c].producer = q /\ call'[c].key = k
      /\ call'[c].payload = x /\ ~call'[c].known /\ call'[c].answer = "ACCEPTED"
  BY <1>1, <1>2, SaysTypes DEF IInv
<1> HIDE DEF q, k, x, r
<1>4. /\ receipt' \in [Producer -> [Key -> Payload \cup {NONE}]]
      /\ receipt'[q][k] = x /\ receipt[q][k] = NONE
      /\ \A p \in Producer, j \in Key : p # q \/ j # k => receipt'[p][j] = receipt[p][j]
  <2>1. receipt \in [Producer -> [Key -> Payload \cup {NONE}]]
    BY DEF IInv, TypeOK
  <2>2. receipt[q][k] = NONE
    BY <1>1 DEF Stored, q, k
  <2> QED
    BY <1>1, <1>2, <2>1, <2>2
<1>5. /\ task' \in [Request -> {"NONE", "OPEN", "RETIRED"}]
      /\ job' \in [Request -> {"NONE", "READY", "LEASED"}]
      /\ task'[r] # "NONE" /\ \A s \in Request : task[s] # "NONE" => task'[s] # "NONE"
      /\ \A s \in Request : task'[s] # "NONE" => task[s] # "NONE" \/ s = r
  BY <1>1, <1>2 DEF IInv, TypeOK
<1>6. TypeOK'
  BY <1>1, <1>3, <1>4, <1>5 DEF IInv, TypeOK
<1>7. \A p \in Producer, j \in Key : receipt[p][j] \in Payload \cup {NONE}
  BY DEF IInv, TypeOK
<1>8. ReceiptsHaveTasks'
  <2> SUFFICES ASSUME NEW p \in Producer, NEW j \in Key, receipt'[p][j] # NONE
               PROVE  task'[receipt'[p][j].request] # "NONE"
    BY DEF ReceiptsHaveTasks
  <2>1. CASE p = q /\ j = k
    BY <1>4, <1>5, <2>1 DEF r
  <2>2. CASE p # q \/ j # k
    <3>1. receipt'[p][j] = receipt[p][j] /\ receipt[p][j] \in Payload
      BY <1>4, <1>7, <2>2
    <3>2. receipt[p][j].request \in Request
      BY <3>1 DEF Payload
    <3> QED
      BY <1>5, <3>1, <3>2 DEF IInv, ReceiptsHaveTasks
  <2> QED
    BY <2>1, <2>2
<1>9. CallsKnow'
  <2>1. \A b \in Call \ {c} : call[b].pc # "IDLE" =>
          Stored(b)' = Stored(b) \/ (Stored(b) = NONE /\ Stored(b)' # NONE)
    <3> SUFFICES ASSUME NEW b \in Call \ {c}, call[b].pc # "IDLE"
                 PROVE  Stored(b)' = Stored(b) \/ (Stored(b) = NONE /\ Stored(b)' # NONE)
      OBVIOUS
    <3>1. call[b].producer \in Producer /\ call[b].key \in Key
      BY CallTypes DEF IInv, CallsKnow
    <3>2. Stored(b) = receipt[call[b].producer][call[b].key]
          /\ Stored(b)' = receipt'[call[b].producer][call[b].key]
      BY <1>3 DEF Stored
    <3>3. x # NONE
      BY <1>2, NoneIsNothing
    <3> QED
      BY <1>4, <3>1, <3>2, <3>3
  <2>2. ASSUME NEW b \in Call \ {c}
        PROVE  (/\ call[b].pc # "IDLE" => call[b].key \in Key /\ call[b].payload \in Payload
                /\ call[b].pc # "IDLE" /\ call[b].known => Stored(b) = call[b].payload
                /\ call[b].pc \in {"TX", "RESOLVE"} => ~call[b].known
                /\ call[b].pc = "RESOLVE" => Stored(b) # NONE
                /\ call[b].pc = "ANSWER" /\ call[b].known =>
                     call[b].answer
                       \in {"DUPLICATE", "INVALID_INGESTION_TOKEN", "RATE_LIMITED"}
                /\ Said(b, "ACCEPTED") \/ Said(b, "DUPLICATE")
                     => Stored(b) = call[b].payload)'
    <3>1. call'[b] = call[b]
      BY <1>3
    <3>2. call[b].pc # "IDLE" => call[b].payload # NONE
      BY NoneIsNothing DEF IInv, CallsKnow
    <3>3. call[b].pc = "ANSWER" => call[b].pc # "IDLE"
      OBVIOUS
    <3> QED
      BY <2>1, <3>1, <3>2 DEF IInv, CallsKnow, Said
  <2>3. Stored(c)' = x
    BY <1>3, <1>4 DEF Stored
  <2> QED
    BY <1>2, <1>3, <2>2, <2>3 DEF CallsKnow, Said
<1>10. OneIsNew'
  <2>1. ASSUME NEW b \in Call \ {c}, Said(b, "ACCEPTED")
        PROVE  <<q, k>> # <<call[b].producer, call[b].key>>
    <3>1. Stored(b) \in Payload
      BY <2>1 DEF IInv, CallsKnow, Said
    <3> QED
      BY <1>4, <3>1, NoneIsNothing DEF Stored
  <2> QED
    BY <1>3, <2>1 DEF IInv, OneIsNew, Said
<1>11. TaskHasItsReceipt'
  <2> SUFFICES ASSUME NEW s \in Request, task'[s] # "NONE"
               PROVE  \E p \in Producer, j \in Key :
                        receipt'[p][j] # NONE /\ receipt'[p][j].request = s
    BY DEF TaskHasItsReceipt
  <2>1. CASE s = r
    BY <1>2, <1>4, <2>1, NoneIsNothing DEF r
  <2>2. CASE s # r
    <3>1. PICK p \in Producer, j \in Key : receipt[p][j] # NONE /\ receipt[p][j].request = s
      BY <1>5, <2>2 DEF IInv, TaskHasItsReceipt
    <3>2. receipt'[p][j] = receipt[p][j]
      BY <1>4, <3>1
    <3> QED
      BY <3>1, <3>2
  <2> QED
    BY <2>1, <2>2
<1> QED
  BY <1>6, <1>8, <1>9, <1>10, <1>11 DEF IInv

LEMMA HandlerKeeps ==
    ASSUME IInv, NEW c \in Call, CallStep(c)
    PROVE  IInv'
<1>1. ASSUME NEW pc \in {"RATE", "LOOKUP", "TX", "RESOLVE"}, Goes(c, pc),
             UNCHANGED <<tables, page, events>>
      PROVE  TypeOK'
  <2>1. call' \in [Call -> Calls]
    BY <1>1, GoesTypes DEF IInv
  <2> QED
    BY <1>1, <2>1 DEF IInv, TypeOK, tables
<1>2. ASSUME NEW a \in Refusals \cup {"ACCEPTED", "DUPLICATE"}, Says(c, a),
             UNCHANGED <<tables, page, events>>
      PROVE  TypeOK'
  <2>1. call' \in [Call -> Calls]
    BY <1>2, SaysTypes DEF IInv
  <2> QED
    BY <1>2, <2>1 DEF IInv, TypeOK, tables
<1>3. CASE Authenticate(c)
  <2>1. CASE Goes(c, "RATE")
    BY <1>1, <1>3, <2>1, GoesKeeps DEF Authenticate, tables
  <2>2. CASE Says(c, "INVALID_INGESTION_TOKEN")
    <3>1. "INVALID_INGESTION_TOKEN" \in Refusals
      BY DEF Refusals
    <3> QED
      BY <1>2, <1>3, <2>2, <3>1, SaysKeeps DEF Authenticate, tables
  <2> QED
    BY <1>3, <2>1, <2>2 DEF Authenticate
<1>4. CASE CountHit(c)
  <2>1. hits' \in [Producer -> 0..Limit + 1]
    <3>1. call[c].producer \in Producer /\ hits \in [Producer -> 0..Limit + 1] /\ Limit \in Nat
      BY CallTypes, IngestionAssumption DEF IInv, TypeOK
    <3> QED
      BY <1>4, <3>1 DEF CountHit
  <2>2. /\ UNCHANGED <<credential, request, task, job, receipt, page, events>>
        /\ call[c].pc = "RATE"
    BY <1>4 DEF CountHit
  <2>3. CASE Goes(c, "LOOKUP")
    <3>1. call' \in [Call -> Calls]
      BY <2>3, GoesTypes DEF IInv
    <3>2. TypeOK'
      BY <2>1, <2>2, <3>1 DEF IInv, TypeOK
    <3> QED
      BY <2>2, <2>3, <3>2, GoesKeeps
  <2>4. CASE Says(c, "RATE_LIMITED")
    <3>1. "RATE_LIMITED" \in Refusals
      BY DEF Refusals
    <3>2. call' \in [Call -> Calls]
      BY <2>4, <3>1, SaysTypes DEF IInv
    <3>3. TypeOK'
      BY <2>1, <2>2, <3>2 DEF IInv, TypeOK
    <3> QED
      BY <2>2, <2>4, <3>1, <3>3, SaysKeeps
  <2> QED
    BY <1>4, <2>3, <2>4 DEF CountHit
<1>5. CASE LookUp(c)
  <2>1. CASE Stored(c) # NONE /\ AnswerFromReceipt(c)
    BY <1>5, <2>1, FromReceipt DEF LookUp
  <2>2. CASE Stored(c) = NONE /\ Says(c, "CLAIM_TIMESTAMP_OUT_OF_WINDOW")
    <3>1. "CLAIM_TIMESTAMP_OUT_OF_WINDOW" \in Refusals
      BY DEF Refusals
    <3>2. ~call[c].known
      BY <1>5, <2>2, NoneIsNothing DEF LookUp, IInv, CallsKnow
    <3> QED
      BY <1>2, <1>5, <2>2, <3>1, <3>2, SaysKeeps DEF LookUp, tables
  <2>3. CASE Stored(c) = NONE /\ Goes(c, "TX")
    BY <1>1, <1>5, <2>3, GoesKeeps DEF LookUp, tables
  <2> QED
    BY <1>5, <2>1, <2>2, <2>3 DEF LookUp
<1>6. CASE Accept(c)
  BY <1>6, AcceptKeeps
<1>7. CASE Reject(c)
  <2>1. "REQUEST_NOT_ACTIVE" \in Refusals
    BY DEF Refusals
  <2>2. ~call[c].known
    BY <1>7 DEF Reject, IInv, CallsKnow
  <2> QED
    BY <1>2, <1>7, <2>1, <2>2, SaysKeeps DEF Reject, tables
<1>8. CASE UniqueViolation(c)
  BY <1>1, <1>8, GoesKeeps DEF UniqueViolation, tables
<1>9. CASE Resolve(c)
  BY <1>9, FromReceipt DEF Resolve
<1>10. CASE Answer(c)
  BY <1>10, AnswerKeeps
<1> QED
  BY <1>3, <1>4, <1>5, <1>6, <1>7, <1>8, <1>9, <1>10 DEF CallStep

LEMMA CallerKeeps ==
    ASSUME IInv, CallerStep
    PROVE  IInv'
<1>1. ASSUME NEW c \in Call, NEW d \in Credential, NEW k \in Key, NEW x \in Payload,
             AgentCalls(c, d, k, x)
      PROVE  IInv'
  BY <1>1, ArrivesKeeps DEF AgentCalls, Producer, IInv, TypeOK
<1>2. ASSUME NEW c \in Call, NEW x \in Payload, Submit(c, x)
      PROVE  IInv'
  <2>1. PICK k \in Key : /\ Arrives(c, PageUser, k, x, "RATE")
                         /\ page' = [page EXCEPT !.payload = x, !.key = k,
                                                 !.used = @ \cup {k}, !.waiting = c]
    BY <1>2 DEF Submit
  <2>2. page' \in Pages
    BY <2>1 DEF IInv, TypeOK, Pages
  <2>3. PageUser \in Producer /\ UNCHANGED tables /\ events' = events
    BY <1>2 DEF Submit, Producer
  <2> QED
    BY <2>1, <2>2, <2>3, ArrivesKeeps
<1>3. CASE Unreachable
  <2>1. page' \in Pages
    BY <1>3 DEF Unreachable, IInv, TypeOK, Pages
  <2>3. events' \in 0..MaxEvents
    BY <1>3, IngestionAssumption DEF Unreachable, Event, IInv, TypeOK
  <2>2. TypeOK'
    BY <1>3, <2>1, <2>3 DEF Unreachable, IInv, TypeOK, tables
  <2> QED
    BY <1>3, <2>2, OutsideKeeps DEF Unreachable, tables
<1> QED
  BY <1>1, <1>2, <1>3 DEF CallerStep

LEMMA EnvironmentKeeps ==
    ASSUME IInv, EnvironmentStep
    PROVE  IInv'
<1>1. Event => events' \in 0..MaxEvents
  BY IngestionAssumption DEF Event, IInv, TypeOK
<1>2. ASSUME NEW d \in Credential, CreateToken(d) \/ RevokeToken(d) PROVE IInv'
  <2>1. TypeOK'
    BY <1>1, <1>2 DEF CreateToken, RevokeToken, IInv, TypeOK
  <2> QED
    BY <1>2, <2>1, OutsideKeeps DEF CreateToken, RevokeToken
<1>3. CASE NewWindow
  <2>1. TypeOK'
    BY <1>1, <1>3, IngestionAssumption DEF NewWindow, IInv, TypeOK
  <2> QED
    BY <1>3, <2>1, OutsideKeeps DEF NewWindow
<1>4. ASSUME NEW r \in Request, EndRequest(r) PROVE IInv'
  <2>1. TypeOK'
    BY <1>1, <1>4 DEF EndRequest, IInv, TypeOK
  <2> QED
    BY <1>4, <2>1, OutsideKeeps DEF EndRequest
<1>5. ASSUME NEW r \in Request, RetireTask(r) PROVE IInv'
  <2>1. TypeOK'
    BY <1>1, <1>5 DEF RetireTask, IInv, TypeOK
  <2>2. \A s \in Request : task'[s] = "NONE" <=> task[s] = "NONE"
    BY <1>5 DEF RetireTask, IInv, TypeOK
  <2> QED
    BY <1>5, <2>1, <2>2, OutsideKeeps DEF RetireTask
<1>6. ASSUME NEW r \in Request, WorkerTakes(r) \/ WorkerEnds(r) PROVE IInv'
  <2>1. TypeOK'
    BY <1>6 DEF WorkerTakes, WorkerEnds, IInv, TypeOK
  <2> QED
    BY <1>6, <2>1, OutsideKeeps DEF WorkerTakes, WorkerEnds
<1> QED
  BY <1>2, <1>3, <1>4, <1>5, <1>6 DEF EnvironmentStep, TokenCommand
-----------------------------------------------------------------------------
(***************************************************************************)
(* The theorems.                                                           *)
(***************************************************************************)

LEMMA InitInvariant == Init => IInv
<1> SUFFICES ASSUME Init PROVE IInv
  OBVIOUS
<1>1. NoCall \in Calls /\ NoCall.pc = "IDLE"
  BY DEF NoCall, Calls, Producer
<1>2. call \in [Call -> Calls] /\ \A c \in Call : call[c].pc = "IDLE"
  BY <1>1 DEF Init
<1>3. page \in Pages
  BY DEF Init, Pages
<1>4. TypeOK
  BY <1>2, <1>3, IngestionAssumption DEF Init, TypeOK
<1>5. ReceiptsHaveTasks /\ TaskHasItsReceipt
  BY DEF Init, ReceiptsHaveTasks, TaskHasItsReceipt
<1>6. CallsKnow /\ OneIsNew
  BY <1>2 DEF CallsKnow, OneIsNew, Said
<1> QED
  BY <1>4, <1>5, <1>6 DEF IInv

LEMMA NextInvariant == IInv /\ [Next]_vars => IInv'
<1> SUFFICES ASSUME IInv, [Next]_vars PROVE IInv'
  OBVIOUS
<1>1. CASE UNCHANGED vars
  <2>1. TypeOK'
    BY <1>1 DEF vars, IInv, TypeOK
  <2> QED
    BY <1>1, <2>1, OutsideKeeps DEF vars
<1> QED
  BY <1>1, CallerKeeps, HandlerKeeps, EnvironmentKeeps DEF Next

\* Every reachable state of calls, receipts, tasks and tokens satisfies the inductive
\* invariant (claims.ts).
THEOREM Invariance == Spec => []IInv
BY InitInvariant, NextInvariant, PTL DEF Spec

\* Types, for any number of calls, keys, producers and requests.
THEOREM TypeCorrect == Spec => []TypeOK
<1>1. IInv => TypeOK
  BY DEF IInv
<1> QED
  BY <1>1, Invariance, PTL

\* Whoever is told that a report was accepted finds it stored, on a task, and one of
\* the calls that race with a key is told that it is new.
THEOREM AnswerIsTheReceiptAlways == Spec => []AnswerIsTheReceipt
<1>1. IInv => AnswerIsTheReceipt
  <2> SUFFICES ASSUME IInv PROVE AnswerIsTheReceipt
    OBVIOUS
  <2>1. ASSUME NEW c \in Call, Said(c, "ACCEPTED") \/ Said(c, "DUPLICATE")
        PROVE  Stored(c) = call[c].payload /\ task[call[c].payload.request] # "NONE"
    <3>1. /\ Stored(c) = call[c].payload /\ call[c].payload \in Payload /\ call[c].key \in Key
          /\ call[c].producer \in Producer
      BY <2>1, CallTypes DEF IInv, CallsKnow, Said
    <3> QED
      BY <3>1, NoneIsNothing DEF IInv, ReceiptsHaveTasks, Stored
  <2> QED
    BY <2>1 DEF AnswerIsTheReceipt, IInv, OneIsNew
<1> QED
  BY <1>1, Invariance, PTL

\* A retry of a stored report is not refused for what ended since.
THEOREM RetryIsAnsweredAlways == Spec => []RetryIsAnswered
<1>1. IInv => RetryIsAnswered
  BY DEF IInv, CallsKnow, RetryIsAnswered
<1> QED
  BY <1>1, Invariance, PTL

\* No task is left by a transaction that the unique index undid.
THEOREM TaskHasItsReceiptAlways == Spec => []TaskHasItsReceipt
<1>1. IInv => TaskHasItsReceipt
  BY DEF IInv
<1> QED
  BY <1>1, Invariance, PTL
=============================================================================
