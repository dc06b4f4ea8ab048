------------------------- MODULE DemoLifecycleProofs -------------------------
(***************************************************************************)
(* What no order of creations, resets, scenarios, purges, workers and      *)
(* failures does to a demo, for any number of demos, handlers and workers. *)
(*                                                                         *)
(* That a purged demo leaves nothing behind rests on who may still be at   *)
(* work on it: a creation is alone with its demo until the visitor has the *)
(* cookie (CreatesAlone, HandlersOK), and a demo that a tick has chosen    *)
(* has no handler left (HandlersOK, PurgeOK).                              *)
(***************************************************************************)
EXTENDS DemoLifecycle, TLAPS

\* What a handler has in hand where it is, and the demo it works on.
HandlerOK(c) ==
    IF call[c].pc = "IDLE" THEN call[c] = NoCall
    ELSE /\ call[c].demo \in Demo /\ call[c].kind # "NONE"
         /\ workspace[call[c].demo] \in
              IF call[c].pc = "UNDO_ACCOUNT" THEN {"PURGED"} ELSE {"FRESH", "EXPIRED"}
         /\ call[c].kind = "CREATE" <=> call[c].demo \notin session
         /\ call[c].pc \in {"ACCOUNT", "CONNECT", "UNDO", "UNDO_ACCOUNT"} =>
              call[c].kind = "CREATE"
         /\ call[c].pc \in {"ACCOUNT", "CONNECT", "TX", "RESET", "SEED"} => call[c].todo # {}
         /\ call[c].pc = "READ" => call[c].row \in [number : Number, seed : 0..MaxSeeds]
         /\ call[c].pc \in {"REGISTER", "CLAIM"} => call[c].row \in Row

HandlersOK == \A c \in Call : HandlerOK(c)

\* Until its visitor has the cookie, only its creation works on a demo.
CreatesAlone ==
    \A c, e \in Call : call[c].kind = "CREATE" /\ call[c].demo = call[e].demo => c = e

WorkersOK ==
    \A w \in Worker : worker[w].pc # "IDLE" => worker[w].demo \in Demo /\ worker[w].row \in Row

\* What a tick is about to delete was due, and nothing works on it.
PurgeOK == \A d \in purge.todo : Due(d)

SessionsOK == \A d \in session : workspace[d] # "NONE"

\* Requests have tasks, tasks have operations, and a dispatch is counted.
RowsOK ==
    \A d \in Demo :
        /\ task[d] \subseteq request[d]
        /\ \A r \in Row :
             /\ operation[d][r].state # "NONE" => r \in task[d]
             /\ operation[d][r].state = "DISPATCHED" => operation[d][r].count > 0

\* A purged demo has left nothing in the database.
PurgedIsGone ==
    \A d \in Demo : workspace[d] = "PURGED" =>
        /\ d \notin connection /\ request[d] = {} /\ task[d] = {}
        /\ \A r \in Row : operation[d][r].state = "NONE"

IInv ==
    /\ TypeOK /\ HandlersOK /\ CreatesAlone /\ WorkersOK /\ PurgeOK /\ SessionsOK /\ RowsOK
    /\ PurgedIsGone
-----------------------------------------------------------------------------
(***************************************************************************)
(* Handlers of the API.                                                    *)
(***************************************************************************)

LEMMA NoneTypes == NoCall \in Calls /\ NoWork \in Work /\ NoAccount \in Accounts
<1>1. NoAccount \in Accounts
  BY DemoAssumption DEF NoAccount, Accounts
<1> QED
  BY <1>1 DEF NoCall, Calls, NoWork, Work

LEMMA AccountTypes ==
    ASSUME NEW a \in Accounts, NEW s \in 0..MaxSeeds, NEW seed \in [Number -> 0..MaxSeeds],
           NEW by \in [Number -> Row \cup {NONE}], NEW ledger \in SUBSET Row
    PROVE  /\ [a EXCEPT !.seeds = s, !.seed = seed, !.by = by] \in Accounts
           /\ [a EXCEPT !.ledger = ledger, !.by = by] \in Accounts
BY DEF Accounts

\* A handler goes on with its demo.
LEMMA HandlerGoes ==
    ASSUME IInv, NEW c \in Call, UNCHANGED <<workspace, session>>,
           call' \in [Call -> Calls], \A e \in Call \ {c} : call'[e] = call[e],
           call'[c].demo = call[c].demo, call'[c].kind = call[c].kind, HandlerOK(c)'
    PROVE  HandlersOK' /\ CreatesAlone'
<1>1. ASSUME NEW e \in Call, e # c PROVE HandlerOK(e)'
  BY <1>1 DEF IInv, HandlersOK, HandlerOK
<1>2. \A e \in Call : call'[e].demo = call[e].demo /\ call'[e].kind = call[e].kind
  OBVIOUS
<1> QED
  BY <1>1, <1>2 DEF IInv, HandlersOK, CreatesAlone

\* A handler is done.
LEMMA HandlerLeaves ==
    ASSUME IInv, NEW c \in Call, UNCHANGED <<workspace, session>>, Leave(c)
    PROVE  call' \in [Call -> Calls] /\ HandlersOK' /\ CreatesAlone'
<1>1. call' \in [Call -> Calls] /\ call'[c] = NoCall
  BY NoneTypes DEF IInv, TypeOK, Leave
<1>2. \A e \in Call \ {c} : call'[e] = call[e]
  BY DEF IInv, TypeOK, Leave
<1>3. HandlersOK'
  BY <1>1, <1>2 DEF IInv, HandlersOK, HandlerOK, NoCall
<1>4. ASSUME NEW e \in Call, NEW f \in Call, call'[e].kind = "CREATE",
             call'[e].demo = call'[f].demo
      PROVE  e = f
  <2>1. e # c
    BY <1>1, <1>4 DEF NoCall
  <2>2. call[e].kind = "CREATE" /\ call[e].demo \in Demo
    BY <1>2, <1>4, <2>1 DEF IInv, HandlersOK, HandlerOK, NoCall
  <2>3. f # c
    BY <1>1, <1>2, <1>4, <2>1, <2>2, DemoAssumption DEF NoCall
  <2> QED
    BY <1>2, <1>4, <2>1, <2>3 DEF IInv, CreatesAlone
<1> QED
  BY <1>1, <1>3, <1>4 DEF CreatesAlone

\* What only depends on variables that a step leaves alone.
LEMMA Untouched ==
    ASSUME IInv
    PROVE  /\ UNCHANGED <<workspace, rows>> => RowsOK' /\ PurgedIsGone'
           /\ UNCHANGED worker => WorkersOK'
           /\ UNCHANGED <<workspace, purge>> => PurgeOK'
           /\ UNCHANGED <<workspace, session>> => SessionsOK'
<1>1. UNCHANGED <<workspace, rows>> => RowsOK' /\ PurgedIsGone'
  BY DEF IInv, RowsOK, PurgedIsGone, rows
<1>2. UNCHANGED worker => WorkersOK'
  BY DEF IInv, WorkersOK
<1>3. UNCHANGED <<workspace, purge>> => PurgeOK'
  BY DEF IInv, PurgeOK, Due
<1>4. UNCHANGED <<workspace, session>> => SessionsOK'
  BY DEF IInv, SessionsOK
<1> QED
  BY <1>1, <1>2, <1>3, <1>4

LEMMA EventTypes == IInv /\ (Event \/ UNCHANGED events) => events' \in 0..MaxEvents
BY DemoAssumption DEF IInv, TypeOK, Event

\* A handler starts on a demo that is there, for a visitor who has the cookie.
LEMMA StartKeeps ==
    ASSUME IInv, NEW c \in Call, NEW d \in session, workspace[d] = "FRESH", Event,
           NEW kind \in {"RESET", "SCENARIO"}, NEW todo \in SUBSET Number, todo # {},
           NEW pc \in {"TX", "SEED"}, Start(c, kind, d, todo, pc),
           UNCHANGED <<workspace, rows, session, account, worker, purge>>
    PROVE  IInv'
<1> DEFINE new == [pc |-> pc, kind |-> kind, demo |-> d, todo |-> todo, row |-> NONE]
<1>1. d \in Demo
  BY DEF IInv, TypeOK
<1>2. new \in Calls
  BY <1>1 DEF Calls
<1>3. call' = [call EXCEPT ![c] = new]
  BY DEF Start
<1>4. call' \in [Call -> Calls] /\ call'[c] = new /\ \A e \in Call \ {c} : call'[e] = call[e]
  BY <1>2, <1>3 DEF IInv, TypeOK
<1>5. HandlerOK(c)'
  BY <1>1, <1>4 DEF HandlerOK
<1>6. HandlersOK'
  <2>1. ASSUME NEW e \in Call, e # c PROVE HandlerOK(e)'
    BY <1>4, <2>1 DEF IInv, HandlersOK, HandlerOK
  <2> QED
    BY <1>5, <2>1 DEF HandlersOK
<1>7. ASSUME NEW e \in Call, NEW f \in Call, call'[e].kind = "CREATE",
             call'[e].demo = call'[f].demo
      PROVE  e = f
  <2>1. e # c /\ call[e].kind = "CREATE"
    BY <1>4, <1>7
  <2>2. call[e].demo # d
    BY <2>1 DEF IInv, HandlersOK, HandlerOK, NoCall
  <2> QED
    BY <1>4, <1>7, <2>1, <2>2 DEF IInv, CreatesAlone
<1>8. TypeOK'
  BY <1>4, EventTypes DEF IInv, TypeOK, rows
<1> QED
  BY <1>6, <1>7, <1>8, Untouched DEF IInv, CreatesAlone

LEMMA ExploreKeeps == \A c \in Call, d \in Demo : IInv /\ Explore(c, d) => IInv'
<1> SUFFICES ASSUME NEW c \in Call, NEW d \in Demo, IInv, Explore(c, d) PROVE IInv'
  OBVIOUS
<1> DEFINE new == [pc |-> "ACCOUNT", kind |-> "CREATE", demo |-> d, todo |-> Starter,
                   row |-> NONE]
<1>1. new \in Calls
  BY DemoAssumption DEF Calls
<1>2. call' = [call EXCEPT ![c] = new]
  BY DEF Explore, Start
<1>3. call' \in [Call -> Calls] /\ call'[c] = new /\ \A e \in Call \ {c} : call'[e] = call[e]
  BY <1>1, <1>2 DEF IInv, TypeOK
<1>4. workspace' = [workspace EXCEPT ![d] = "FRESH"] /\ workspace[d] = "NONE"
      /\ UNCHANGED <<rows, session, account, worker, purge, events>>
  BY DEF Explore
<1>5. workspace' \in [Demo -> Ages] /\ workspace'[d] = "FRESH"
      /\ \A e \in Demo \ {d} : workspace'[e] = workspace[e]
  BY <1>4 DEF IInv, TypeOK, Ages
<1>6. TypeOK'
  BY <1>3, <1>4, <1>5 DEF IInv, TypeOK, rows
<1>7. d \notin session
  BY <1>4 DEF IInv, SessionsOK
<1>8. \A e \in Call : call[e].demo # d
  BY <1>4, DemoAssumption DEF IInv, HandlersOK, HandlerOK, NoCall
<1>9. HandlersOK'
  <2>1. HandlerOK(c)'
    BY <1>3, <1>4, <1>5, <1>7, DemoAssumption DEF HandlerOK
  <2>2. ASSUME NEW e \in Call, e # c PROVE HandlerOK(e)'
    BY <1>3, <1>4, <1>5, <1>8, <2>2 DEF IInv, HandlersOK, HandlerOK
  <2> QED
    BY <2>1, <2>2 DEF HandlersOK
<1>10. CreatesAlone'
  BY <1>3, <1>8 DEF IInv, CreatesAlone
<1>11. SessionsOK'
  BY <1>4, <1>5 DEF IInv, SessionsOK, TypeOK
<1>12. PurgeOK'
  BY <1>4, <1>5 DEF IInv, PurgeOK, Due, TypeOK
<1>13. RowsOK' /\ PurgedIsGone'
  BY <1>4, <1>5 DEF IInv, RowsOK, PurgedIsGone, rows
<1> QED
  BY <1>4, <1>6, <1>9, <1>10, <1>11, <1>12, <1>13, Untouched DEF IInv

\* A handler that goes on and changes the account at most.
LEMMA AccountStepKeeps ==
    ASSUME IInv, NEW c \in Call, call' \in [Call -> Calls],
           \A e \in Call \ {c} : call'[e] = call[e],
           call'[c].demo = call[c].demo, call'[c].kind = call[c].kind, HandlerOK(c)',
           account' \in [Demo -> Accounts], Event \/ UNCHANGED events,
           UNCHANGED <<workspace, rows, session, worker, purge>>
    PROVE  IInv'
<1>1. HandlersOK' /\ CreatesAlone'
  BY HandlerGoes
<1>2. TypeOK'
  BY EventTypes DEF IInv, TypeOK, rows
<1> QED
  BY <1>1, <1>2, Untouched DEF IInv

LEMMA EnsureAccountKeeps == \A c \in Call : IInv /\ EnsureAccount(c) => IInv'
<1> SUFFICES ASSUME NEW c \in Call, IInv, EnsureAccount(c) PROVE IInv'
  OBVIOUS
<1>1. call' = [call EXCEPT ![c].pc = "CONNECT"] /\ call[c] \in Calls
  BY DEF IInv, TypeOK, EnsureAccount, Goto
<1>2. /\ call' \in [Call -> Calls] /\ \A e \in Call \ {c} : call'[e] = call[e]
      /\ call'[c].demo = call[c].demo /\ call'[c].kind = call[c].kind
      /\ call'[c].pc = "CONNECT" /\ call'[c].todo = call[c].todo
  BY <1>1 DEF IInv, TypeOK, Calls
<1>3. HandlerOK(c) /\ call[c].pc = "ACCOUNT"
  BY DEF IInv, HandlersOK, EnsureAccount, At
<1>4. HandlerOK(c)'
  BY <1>2, <1>3 DEF HandlerOK, EnsureAccount
<1>5. account' \in [Demo -> Accounts]
  <2> DEFINE new == [account[call[c].demo] EXCEPT !.open = TRUE]
  <2>1. account[call[c].demo] \in Accounts
    BY <1>3 DEF IInv, TypeOK, HandlerOK
  <2>2. new \in Accounts
    BY <2>1 DEF Accounts
  <2>3. account' = [account EXCEPT ![call[c].demo] = new]
    BY <1>3 DEF IInv, TypeOK, HandlerOK, EnsureAccount
  <2> QED
    BY <2>2, <2>3 DEF IInv, TypeOK
<1> QED
  BY <1>2, <1>4, <1>5, AccountStepKeeps DEF EnsureAccount

LEMMA SeedKeeps == \A c \in Call : IInv /\ Seed(c) => IInv'
<1> SUFFICES ASSUME NEW c \in Call, IInv, Seed(c) PROVE IInv'
  OBVIOUS
<1> DEFINE d == call[c].demo
           s == account[d].seeds + 1
           n == CHOOSE k \in call[c].todo : TRUE
<1>1. call[c] \in Calls /\ HandlerOK(c) /\ call[c].pc = "SEED"
  BY DEF IInv, TypeOK, HandlersOK, Seed, At
<1>2. d \in Demo /\ n \in Number /\ account[d] \in Accounts
  BY <1>1 DEF HandlerOK, Calls, IInv, TypeOK
<1>3. s \in 1..MaxSeeds
  <2>1. account[d].seeds \in 0..MaxSeeds
    BY <1>2 DEF Accounts
  <2>2. s <= MaxSeeds
    BY DEF Seed
  <2> QED
    BY <2>1, <2>2, DemoAssumption
<1>4. PICK m \in Choice(d, n) :
        /\ account' = [account EXCEPT ![d] =
                         [account[d] EXCEPT !.seeds = s,
                                            !.seed = [account[d].seed EXCEPT ![m] = s],
                                            !.by = [account[d].by EXCEPT ![m] = NONE]]]
        /\ call' = [call EXCEPT ![c].pc = "READ", ![c].todo = @ \ {n},
                                ![c].row = [number |-> m, seed |-> 0]]
  BY DEF Seed
<1> HIDE DEF n, s, d
<1>5. m \in Number
  BY <1>2 DEF Choice
<1>6. [number |-> m, seed |-> 0] \in [number : Number, seed : 0..MaxSeeds]
  BY <1>5, DemoAssumption
<1>7. /\ call' \in [Call -> Calls] /\ \A e \in Call \ {c} : call'[e] = call[e]
      /\ call'[c].demo = call[c].demo /\ call'[c].kind = call[c].kind
      /\ call'[c].pc = "READ" /\ call'[c].row = [number |-> m, seed |-> 0]
  BY <1>1, <1>4, <1>6 DEF IInv, TypeOK, Calls
<1>8. HandlerOK(c)'
  BY <1>1, <1>6, <1>7 DEF HandlerOK, Seed
<1>9. account' \in [Demo -> Accounts]
  <2> DEFINE a == account[d]
             seed == [a.seed EXCEPT ![m] = s]
             by == [a.by EXCEPT ![m] = NONE]
             new == [a EXCEPT !.seeds = s, !.seed = seed, !.by = by]
  <2>1. seed \in [Number -> 0..MaxSeeds] /\ by \in [Number -> Row \cup {NONE}]
    BY <1>2, <1>3, <1>5 DEF Accounts
  <2>2. account' = [account EXCEPT ![d] = new]
    BY <1>4
  <2>3. new \in Accounts
    <3>1. a \in Accounts
      BY <1>2
    <3> HIDE DEF a, seed, by
    <3>2. s \in 0..MaxSeeds
      BY <1>3
    <3>3. [a EXCEPT !.seeds = s, !.seed = seed, !.by = by] \in Accounts
      BY <2>1, <3>1, <3>2, AccountTypes
    <3> QED
      BY <3>3
  <2> HIDE DEF new
  <2> QED
    BY <2>2, <2>3 DEF IInv, TypeOK
<1> QED
  BY <1>7, <1>8, <1>9, AccountStepKeeps DEF Seed

LEMMA ReadKeeps == \A c \in Call : IInv /\ Read(c) => IInv'
<1> SUFFICES ASSUME NEW c \in Call, IInv, Read(c) PROVE IInv'
  OBVIOUS
<1> DEFINE s == account[call[c].demo].seed[call[c].row.number]
<1>1. call[c] \in Calls /\ HandlerOK(c) /\ call[c].pc = "READ"
  BY DEF IInv, TypeOK, HandlersOK, Read, At
<1>2. call[c].row \in [number : Number, seed : 0..MaxSeeds] /\ call[c].demo \in Demo
  BY <1>1 DEF HandlerOK
<1>3. s \in 1..MaxSeeds
  BY <1>2 DEF IInv, TypeOK, Accounts, Read
<1>4. call' = [call EXCEPT ![c].pc = "REGISTER", ![c].row.seed = s]
  BY DEF Read
<1> HIDE DEF s
<1>5. /\ [call[c].row EXCEPT !.seed = s] \in Row
      /\ [call[c].row EXCEPT !.seed = s] \in [number : Number, seed : 0..MaxSeeds]
  BY <1>2, <1>3 DEF Row
<1>6. /\ \A e \in Call \ {c} : call'[e] = call[e]
      /\ call'[c] = [call[c] EXCEPT !.pc = "REGISTER", !.row = [@ EXCEPT !.seed = s]]
      /\ call' = [call EXCEPT ![c] = call'[c]]
  BY <1>1, <1>2, <1>4 DEF IInv, TypeOK, Calls
<1>7. call'[c] \in Calls /\ call'[c].row \in Row /\ call'[c].pc = "REGISTER"
      /\ call'[c].demo = call[c].demo /\ call'[c].kind = call[c].kind
  BY <1>1, <1>5, <1>6 DEF Calls
<1>8. call' \in [Call -> Calls]
  BY <1>6, <1>7 DEF IInv, TypeOK
<1>9. HandlerOK(c)'
  BY <1>1, <1>7 DEF HandlerOK, Read
<1> QED
  BY <1>6, <1>7, <1>8, <1>9, AccountStepKeeps DEF Read, IInv, TypeOK

\* A handler that writes rows of a demo that is there.
LEMMA HandlerRowsKeep ==
    ASSUME IInv, NEW c \in Call, call[c].pc \notin {"IDLE", "UNDO_ACCOUNT"},
           connection' \in SUBSET Demo, connection' \subseteq connection \cup {call[c].demo},
           request' \in [Demo -> SUBSET Row], task' \in [Demo -> SUBSET Row],
           operation' \in [Demo -> [Row -> Operations]],
           \A d \in Demo \ {call[c].demo} : /\ request'[d] = request[d]
                                            /\ task'[d] = task[d]
                                            /\ operation'[d] = operation[d],
           UNCHANGED workspace
    PROVE  PurgedIsGone'
<1>1. workspace[call[c].demo] # "PURGED"
  BY DEF IInv, HandlersOK, HandlerOK
<1> QED
  BY <1>1 DEF IInv, PurgedIsGone

LEMMA ConnectKeeps == \A c \in Call : IInv /\ Connect(c) => IInv'
<1> SUFFICES ASSUME NEW c \in Call, IInv, Connect(c) PROVE IInv'
  OBVIOUS
<1>1. call[c] \in Calls /\ HandlerOK(c) /\ call[c].pc = "CONNECT"
  BY DEF IInv, TypeOK, HandlersOK, Connect, At
<1>2. call[c].demo \in Demo
  BY <1>1 DEF HandlerOK
<1>3. /\ call' \in [Call -> Calls] /\ \A e \in Call \ {c} : call'[e] = call[e]
      /\ call'[c].demo = call[c].demo /\ call'[c].kind = call[c].kind
      /\ call'[c].pc = "SEED" /\ call'[c].todo = call[c].todo
  BY <1>1 DEF IInv, TypeOK, Calls, Connect, Goto
<1>4. HandlerOK(c)'
  BY <1>1, <1>3 DEF HandlerOK, Connect
<1>5. HandlersOK' /\ CreatesAlone'
  BY <1>3, <1>4, HandlerGoes DEF Connect
<1>6. TypeOK'
  BY <1>2, <1>3 DEF IInv, TypeOK, Connect
<1>7. PurgedIsGone'
  BY <1>1, <1>2, HandlerRowsKeep DEF IInv, TypeOK, Connect
<1>8. RowsOK'
  BY DEF IInv, RowsOK, Connect
<1> QED
  BY <1>5, <1>6, <1>7, <1>8, Untouched DEF IInv, Connect

LEMMA RegisterKeeps == \A c \in Call : IInv /\ Register(c) => IInv'
<1> SUFFICES ASSUME NEW c \in Call, IInv, Register(c) PROVE IInv'
  OBVIOUS
<1>1. call[c] \in Calls /\ HandlerOK(c) /\ call[c].pc = "REGISTER"
  BY DEF IInv, TypeOK, HandlersOK, Register, At
<1>2. call[c].demo \in Demo /\ call[c].row \in Row
  BY <1>1 DEF HandlerOK
<1>3. /\ call' \in [Call -> Calls] /\ \A e \in Call \ {c} : call'[e] = call[e]
      /\ call'[c].demo = call[c].demo /\ call'[c].kind = call[c].kind
      /\ call'[c].pc = "CLAIM" /\ call'[c].row = call[c].row
  BY <1>1 DEF IInv, TypeOK, Calls, Register, Goto
<1>4. HandlerOK(c)'
  BY <1>1, <1>3 DEF HandlerOK, Register
<1>5. HandlersOK' /\ CreatesAlone'
  BY <1>3, <1>4, HandlerGoes DEF Register
<1>6. /\ request' = [request EXCEPT ![call[c].demo] = @ \cup {call[c].row}]
      /\ request' \in [Demo -> SUBSET Row]
      /\ \A d \in Demo : request[d] \subseteq request'[d]
  BY <1>2 DEF IInv, TypeOK, Register
<1>7. TypeOK'
  BY <1>3, <1>6 DEF IInv, TypeOK, Register
<1>8. PurgedIsGone'
  BY <1>1, <1>6, HandlerRowsKeep DEF IInv, TypeOK, Register
<1>9. RowsOK'
  BY <1>6 DEF IInv, RowsOK, Register
<1> QED
  BY <1>5, <1>7, <1>8, <1>9, Untouched DEF IInv, Register

\* The cookie is given when the creation is over.
LEMMA HandOver ==
    ASSUME IInv, NEW c \in Call, call[c].pc \notin {"IDLE", "UNDO_ACCOUNT"},
           call[c].kind = "CREATE",
           Leave(c), session' = session \cup {call[c].demo}, UNCHANGED workspace
    PROVE  HandlersOK' /\ CreatesAlone' /\ SessionsOK'
<1> DEFINE d == call[c].demo
<1>1. d \in Demo /\ workspace[d] \in {"FRESH", "EXPIRED"}
  BY DEF IInv, HandlersOK, HandlerOK
<1>2. call'[c] = NoCall /\ \A e \in Call \ {c} : call'[e] = call[e]
  BY DEF IInv, TypeOK, Leave
<1>3. ASSUME NEW e \in Call, e # c PROVE call[e].demo # d
  BY <1>3 DEF IInv, CreatesAlone
<1>4. HandlersOK'
  <2>1. HandlerOK(c)'
    BY <1>2 DEF HandlerOK, NoCall
  <2>2. ASSUME NEW e \in Call, e # c PROVE HandlerOK(e)'
    BY <1>2, <1>3, <2>2 DEF IInv, HandlersOK, HandlerOK
  <2> QED
    BY <2>1, <2>2 DEF HandlersOK
<1>5. ASSUME NEW e \in Call, NEW f \in Call, call'[e].kind = "CREATE",
             call'[e].demo = call'[f].demo
      PROVE  e = f
  <2>1. e # c
    BY <1>2, <1>5 DEF NoCall
  <2>2. call[e].kind = "CREATE" /\ call[e].demo \in Demo
    BY <1>2, <1>5, <2>1 DEF IInv, HandlersOK, HandlerOK, NoCall
  <2>3. f # c
    BY <1>2, <1>5, <2>1, <2>2, DemoAssumption DEF NoCall
  <2> QED
    BY <1>2, <1>5, <2>1, <2>3 DEF IInv, CreatesAlone
<1>6. SessionsOK'
  BY <1>1 DEF IInv, SessionsOK
<1> QED
  BY <1>4, <1>5, <1>6 DEF CreatesAlone

LEMMA ClaimKeeps == \A c \in Call : IInv /\ Claim(c) => IInv'
<1> SUFFICES ASSUME NEW c \in Call, IInv, Claim(c) PROVE IInv'
  OBVIOUS
<1>1. call[c] \in Calls /\ HandlerOK(c) /\ call[c].pc = "CLAIM"
  BY DEF IInv, TypeOK, HandlersOK, Claim, At
<1>2. call[c].demo \in Demo /\ call[c].row \in Row
  BY <1>1 DEF HandlerOK
<1>3. call' \in [Call -> Calls] /\ HandlersOK' /\ CreatesAlone' /\ SessionsOK'
  <2>1. CASE call[c].todo # {}
    <3> Goto(c, "SEED") /\ UNCHANGED session
      BY <2>1 DEF Claim
    <3>1. /\ call' \in [Call -> Calls] /\ \A e \in Call \ {c} : call'[e] = call[e]
          /\ call'[c].demo = call[c].demo /\ call'[c].kind = call[c].kind
          /\ call'[c].pc = "SEED" /\ call'[c].todo = call[c].todo
      BY <1>1 DEF IInv, TypeOK, Calls, Goto
    <3>2. HandlerOK(c)' /\ UNCHANGED session
      BY <1>1, <2>1, <3>1 DEF HandlerOK, Claim
    <3> QED
      BY <3>1, <3>2, HandlerGoes, Untouched DEF Claim
  <2>2. CASE call[c].todo = {} /\ call[c].kind = "CREATE"
    <3>1. Leave(c) /\ session' = session \cup {call[c].demo}
      BY <2>2 DEF Claim
    <3>2. call' \in [Call -> Calls]
      BY <3>1, NoneTypes DEF IInv, TypeOK, Leave
    <3> QED
      BY <1>1, <2>2, <3>1, <3>2, HandOver DEF Claim
  <2>3. CASE call[c].todo = {} /\ call[c].kind # "CREATE"
    BY <2>3, HandlerLeaves, Untouched DEF Claim
  <2> QED
    BY <2>1, <2>2, <2>3
<1>4. /\ task' = [task EXCEPT ![call[c].demo] = @ \cup {call[c].row}]
      /\ task' \in [Demo -> SUBSET Row] /\ \A d \in Demo : task[d] \subseteq task'[d]
  BY <1>2 DEF IInv, TypeOK, Claim
<1>5. session' \subseteq Demo
  BY <1>2 DEF IInv, TypeOK, Claim
<1>6. TypeOK'
  BY <1>3, <1>4, <1>5 DEF IInv, TypeOK, Claim
<1>7. PurgedIsGone'
  BY <1>1, <1>4, HandlerRowsKeep DEF IInv, TypeOK, Claim
<1>8. RowsOK'
  <2>1. ASSUME NEW d \in Demo PROVE task'[d] \subseteq request'[d]
    BY <1>4 DEF IInv, TypeOK, RowsOK, Claim
  <2> QED
    BY <1>4, <2>1 DEF IInv, RowsOK, Claim
<1> QED
  BY <1>3, <1>6, <1>7, <1>8, Untouched DEF IInv, Claim

\* A handler is done and left no other trace.
LEMMA DoneKeeps ==
    ASSUME IInv, NEW c \in Call, Leave(c), account' \in [Demo -> Accounts],
           Event \/ UNCHANGED events, UNCHANGED <<workspace, rows, session, worker, purge>>
    PROVE  IInv'
<1>1. call' \in [Call -> Calls] /\ HandlersOK' /\ CreatesAlone'
  BY HandlerLeaves
<1>2. TypeOK'
  BY <1>1, EventTypes DEF IInv, TypeOK, rows
<1> QED
  BY <1>1, <1>2, Untouched DEF IInv

LEMMA FailsKeeps == \A c \in Call : IInv /\ (Fails(c) \/ Crashes(c)) => IInv'
<1> SUFFICES ASSUME NEW c \in Call, IInv, Fails(c) \/ Crashes(c) PROVE IInv'
  OBVIOUS
<1>1. /\ account' \in [Demo -> Accounts]
      /\ Event \/ UNCHANGED events
      /\ UNCHANGED <<workspace, rows, session, account, worker, purge>>
  BY DEF IInv, TypeOK, Fails, Crashes
<1>2. CASE Leave(c)
  BY <1>1, <1>2, DoneKeeps
<1>3. CASE /\ Goto(c, "UNDO") /\ call[c].kind = "CREATE"
           /\ call[c].pc \notin {"IDLE", "UNDO", "UNDO_ACCOUNT"}
  <2>1. call[c] \in Calls /\ HandlerOK(c)
    BY DEF IInv, TypeOK, HandlersOK
  <2>2. /\ call' \in [Call -> Calls] /\ \A e \in Call \ {c} : call'[e] = call[e]
        /\ call'[c].demo = call[c].demo /\ call'[c].kind = call[c].kind
        /\ call'[c].pc = "UNDO"
    BY <1>3, <2>1 DEF IInv, TypeOK, Calls, Goto
  <2>3. HandlerOK(c)'
    BY <1>1, <1>3, <2>1, <2>2 DEF HandlerOK
  <2> QED
    BY <1>1, <2>2, <2>3, AccountStepKeeps
<1> QED
  BY <1>2, <1>3 DEF Fails, Crashes, At

LEMMA ResetAccountKeeps == \A c \in Call : IInv /\ ResetAccount(c) => IInv'
<1> SUFFICES ASSUME NEW c \in Call, IInv, ResetAccount(c) PROVE IInv'
  OBVIOUS
<1>1. call[c] \in Calls /\ HandlerOK(c) /\ call[c].pc = "RESET"
  BY DEF IInv, TypeOK, HandlersOK, ResetAccount, At
<1>2. /\ call' \in [Call -> Calls] /\ \A e \in Call \ {c} : call'[e] = call[e]
      /\ call'[c].demo = call[c].demo /\ call'[c].kind = call[c].kind
      /\ call'[c].pc = "SEED" /\ call'[c].todo = call[c].todo
  BY <1>1 DEF IInv, TypeOK, Calls, ResetAccount, Goto
<1>3. HandlerOK(c)'
  BY <1>1, <1>2 DEF HandlerOK, ResetAccount
<1>4. account' \in [Demo -> Accounts]
  <2> DEFINE a == account[call[c].demo]
             new == [NoAccount EXCEPT !.open = a.open, !.seeds = a.seeds]
  <2>1. a \in Accounts
    BY <1>1 DEF IInv, TypeOK, HandlerOK
  <2>2. new \in Accounts
    BY <2>1, NoneTypes DEF Accounts
  <2>3. account' = [account EXCEPT ![call[c].demo] = new]
    BY DEF ResetAccount
  <2> HIDE DEF new
  <2> QED
    BY <2>2, <2>3 DEF IInv, TypeOK
<1> QED
  BY <1>2, <1>3, <1>4, AccountStepKeeps DEF ResetAccount

\* The rows of a demo are deleted.
LEMMA DeleteTypes ==
    ASSUME IInv, NEW d \in Demo, DeleteRows(d)
    PROVE  /\ request' \in [Demo -> SUBSET Row] /\ task' \in [Demo -> SUBSET Row]
           /\ operation' \in [Demo -> [Row -> Operations]]
           /\ request'[d] = {} /\ task'[d] = {}
           /\ \A r \in Row : operation'[d][r].state = "NONE"
           /\ \A e \in Demo \ {d} : /\ request'[e] = request[e] /\ task'[e] = task[e]
                                    /\ operation'[e] = operation[e]
           /\ RowsOK'
<1> DEFINE empty == [r \in Row |-> NoOperation]
<1>1. empty \in [Row -> Operations] /\ \A r \in Row : empty[r].state = "NONE"
  BY DemoAssumption DEF NoOperation, Operations
<1>2. operation' = [operation EXCEPT ![d] = empty]
  BY DEF DeleteRows
<1> HIDE DEF empty
<1>3. /\ operation' \in [Demo -> [Row -> Operations]] /\ operation'[d] = empty
      /\ \A e \in Demo \ {d} : operation'[e] = operation[e]
  BY <1>1, <1>2 DEF IInv, TypeOK
<1>4. /\ request' \in [Demo -> SUBSET Row] /\ task' \in [Demo -> SUBSET Row]
      /\ request'[d] = {} /\ task'[d] = {}
      /\ \A e \in Demo \ {d} : request'[e] = request[e] /\ task'[e] = task[e]
  BY DEF IInv, TypeOK, DeleteRows
<1>5. RowsOK'
  BY <1>1, <1>3, <1>4 DEF IInv, RowsOK
<1> QED
  BY <1>1, <1>3, <1>4, <1>5

LEMMA ResetTxKeeps == \A c \in Call : IInv /\ ResetTx(c) => IInv'
<1> SUFFICES ASSUME NEW c \in Call, IInv, ResetTx(c) PROVE IInv'
  OBVIOUS
<1>1. CASE DeleteRaises(call[c].demo)
  BY <1>1, DoneKeeps DEF ResetTx, rows, IInv, TypeOK
<1>2. CASE ~DeleteRaises(call[c].demo)
  <2>1. call[c] \in Calls /\ HandlerOK(c) /\ call[c].pc = "TX"
    BY DEF IInv, TypeOK, HandlersOK, ResetTx, At
  <2>2. call[c].demo \in Demo /\ Goto(c, "RESET") /\ DeleteRows(call[c].demo)
    BY <1>2, <2>1 DEF HandlerOK, ResetTx
  <2>3. /\ call' \in [Call -> Calls] /\ \A e \in Call \ {c} : call'[e] = call[e]
        /\ call'[c].demo = call[c].demo /\ call'[c].kind = call[c].kind
        /\ call'[c].pc = "RESET" /\ call'[c].todo = call[c].todo
    BY <2>1, <2>2 DEF IInv, TypeOK, Calls, Goto
  <2>4. HandlerOK(c)'
    BY <2>1, <2>3 DEF HandlerOK, ResetTx
  <2>5. HandlersOK' /\ CreatesAlone'
    BY <2>3, <2>4, HandlerGoes DEF ResetTx
  <2>6. TypeOK'
    BY <2>2, <2>3, DeleteTypes DEF IInv, TypeOK, ResetTx
  <2>7. PurgedIsGone'
    BY <2>1, <2>2, DeleteTypes DEF IInv, ResetTx, PurgedIsGone
  <2> QED
    BY <2>2, <2>5, <2>6, <2>7, DeleteTypes, Untouched DEF IInv, ResetTx
<1> QED
  BY <1>1, <1>2
-----------------------------------------------------------------------------
(***************************************************************************)
(* Purges, and time.                                                       *)
(***************************************************************************)

LEMMA DeletedAccount ==
    ASSUME IInv, NEW d \in Demo, DeleteAccount(d)
    PROVE  account' \in [Demo -> Accounts] /\ (Event \/ UNCHANGED events)
<1>1. CASE account' = [account EXCEPT ![d] = [NoAccount EXCEPT !.seeds = account[d].seeds]]
  <2> DEFINE new == [NoAccount EXCEPT !.seeds = account[d].seeds]
  <2>1. new \in Accounts
    BY NoneTypes DEF IInv, TypeOK, Accounts
  <2> HIDE DEF new
  <2> QED
    BY <1>1, <2>1 DEF IInv, TypeOK, DeleteAccount, new
<1> QED
  BY <1>1 DEF IInv, TypeOK, DeleteAccount

\* A workspace goes with its rows.
LEMMA DeletedWorkspace ==
    ASSUME IInv, NEW d \in Demo, DeleteWorkspace(d)
    PROVE  /\ workspace' \in [Demo -> Ages] /\ workspace'[d] = "PURGED"
           /\ \A e \in Demo \ {d} : workspace'[e] = workspace[e]
           /\ connection' \in SUBSET Demo
           /\ request' \in [Demo -> SUBSET Row] /\ task' \in [Demo -> SUBSET Row]
           /\ operation' \in [Demo -> [Row -> Operations]]
           /\ RowsOK' /\ PurgedIsGone'
<1>1. /\ workspace' \in [Demo -> Ages] /\ workspace'[d] = "PURGED"
      /\ \A e \in Demo \ {d} : workspace'[e] = workspace[e]
      /\ connection' = connection \ {d}
  BY DEF IInv, TypeOK, DeleteWorkspace, Ages
<1>2. DeleteRows(d)
  BY DEF DeleteWorkspace
<1>3. PurgedIsGone'
  BY <1>1, <1>2, DeleteTypes DEF IInv, PurgedIsGone
<1>4. connection' \in SUBSET Demo
  BY <1>1 DEF IInv, TypeOK
<1> QED
  BY <1>1, <1>2, <1>3, <1>4, DeleteTypes

LEMMA UndoKeeps == \A c \in Call : IInv /\ Undo(c) => IInv'
<1> SUFFICES ASSUME NEW c \in Call, IInv, Undo(c) PROVE IInv'
  OBVIOUS
<1> DEFINE d == call[c].demo
<1>1. CASE DeleteRaises(d)
  BY <1>1, DoneKeeps DEF Undo, IInv, TypeOK
<1>2. CASE ~DeleteRaises(d)
  <2>1. call[c] \in Calls /\ HandlerOK(c) /\ call[c].pc = "UNDO"
    BY DEF IInv, TypeOK, HandlersOK, Undo, At
  <2>2. d \in Demo /\ call[c].kind = "CREATE" /\ d \notin session
        /\ workspace[d] \in {"FRESH", "EXPIRED"}
    BY <2>1 DEF HandlerOK
  <2>3. DeleteWorkspace(d) /\ UNCHANGED <<session, account, worker, purge, events>>
        /\ (Goto(c, "UNDO_ACCOUNT") \/ Leave(c))
    BY <1>2 DEF Undo
  <2>4. \A e \in Call \ {c} : call[e].demo # d
    BY <2>2 DEF IInv, CreatesAlone
  <2>5. /\ call' \in [Call -> Calls] /\ \A e \in Call \ {c} : call'[e] = call[e]
        /\ \/ call'[c] = NoCall
           \/ /\ call'[c].demo = call[c].demo /\ call'[c].kind = call[c].kind
              /\ call'[c].pc = "UNDO_ACCOUNT"
    <3>1. CASE Goto(c, "UNDO_ACCOUNT")
      BY <2>1, <3>1 DEF IInv, TypeOK, Calls, Goto
    <3>2. CASE Leave(c)
      BY <3>2, NoneTypes DEF IInv, TypeOK, Leave
    <3> QED
      BY <2>3, <3>1, <3>2
  <2>6. HandlersOK'
    <3>1. HandlerOK(c)'
      BY <2>2, <2>3, <2>5, DeletedWorkspace DEF HandlerOK, NoCall
    <3>2. ASSUME NEW e \in Call, e # c PROVE HandlerOK(e)'
      BY <2>2, <2>3, <2>4, <2>5, <3>2, DeletedWorkspace DEF IInv, HandlersOK, HandlerOK
    <3> QED
      BY <3>1, <3>2 DEF HandlersOK
  <2>7. ASSUME NEW e \in Call, NEW f \in Call, call'[e].kind = "CREATE",
               call'[e].demo = call'[f].demo
        PROVE  e = f
    <3>1. CASE e = c
      <4>1. call'[c].demo = d
        BY <2>5, <2>7, <3>1 DEF NoCall
      <4> QED
        BY <2>4, <2>5, <2>7, <3>1, <4>1
    <3>2. CASE e # c
      <4>1. call[e].kind = "CREATE" /\ call[e].demo \in Demo /\ call[e].demo # d
        BY <2>4, <2>5, <2>7, <3>2 DEF IInv, HandlersOK, HandlerOK, NoCall
      <4>2. f # c
        BY <2>5, <2>7, <3>2, <4>1, DemoAssumption DEF NoCall
      <4> QED
        BY <2>5, <2>7, <3>2, <4>1, <4>2 DEF IInv, CreatesAlone
    <3> QED
      BY <3>1, <3>2
  <2>8. TypeOK'
    BY <2>2, <2>3, <2>5, DeletedWorkspace DEF IInv, TypeOK
  <2>9. PurgeOK' /\ SessionsOK'
    BY <2>2, <2>3, DeletedWorkspace DEF IInv, TypeOK, PurgeOK, SessionsOK, Due
  <2> QED
    BY <2>2, <2>3, <2>6, <2>7, <2>8, <2>9, DeletedWorkspace, Untouched DEF IInv, CreatesAlone
<1> QED
  BY <1>1, <1>2

LEMMA UndoAccountKeeps == \A c \in Call : IInv /\ UndoAccount(c) => IInv'
<1> SUFFICES ASSUME NEW c \in Call, IInv, UndoAccount(c) PROVE IInv'
  OBVIOUS
<1>1. call[c].demo \in Demo
  BY DEF IInv, HandlersOK, HandlerOK, UndoAccount, At
<1>2. account' \in [Demo -> Accounts] /\ (Event \/ UNCHANGED events)
  BY <1>1, DeletedAccount DEF UndoAccount
<1> QED
  BY <1>2, DoneKeeps DEF UndoAccount

LEMMA TimeKeeps == IInv /\ Time => IInv'
<1> SUFFICES ASSUME IInv, Time PROVE IInv'
  OBVIOUS
<1>1. PICK d \in Demo :
        /\ \/ /\ workspace[d] = "FRESH"
              /\ workspace' = [workspace EXCEPT ![d] = "EXPIRED"]
           \/ /\ workspace[d] = "EXPIRED"
              /\ \A c \in Call : call[c].demo # d
              /\ workspace' = [workspace EXCEPT ![d] = "DUE"]
        /\ UNCHANGED <<rows, session, account, call, worker, purge, events>>
  BY DEF Time
<1>2. /\ workspace' \in [Demo -> Ages] /\ workspace'[d] \in {"EXPIRED", "DUE"}
      /\ workspace[d] \in {"FRESH", "EXPIRED"}
      /\ \A e \in Demo \ {d} : workspace'[e] = workspace[e]
      /\ \A c \in Call : call[c].demo = d => workspace'[d] = "EXPIRED"
  BY <1>1 DEF IInv, TypeOK, Ages
<1>3. TypeOK'
  BY <1>1, <1>2 DEF IInv, TypeOK, rows
<1>4. ASSUME NEW c \in Call PROVE HandlerOK(c)'
  BY <1>1, <1>2 DEF IInv, HandlersOK, HandlerOK
<1>5. PurgeOK' /\ SessionsOK'
  BY <1>1, <1>2 DEF IInv, TypeOK, PurgeOK, SessionsOK, Due
<1>6. RowsOK' /\ PurgedIsGone'
  BY <1>1, <1>2 DEF IInv, RowsOK, PurgedIsGone, rows
<1> QED
  BY <1>1, <1>3, <1>4, <1>5, <1>6, Untouched DEF IInv, HandlersOK, CreatesAlone

LEMMA PurgeKeeps ==
    IInv /\ (PurgeQuery \/ PurgeOne \/ PurgeAccount \/ PurgeDies) => IInv'
<1> SUFFICES ASSUME IInv, PurgeQuery \/ PurgeOne \/ PurgeAccount \/ PurgeDies PROVE IInv'
  OBVIOUS
<1> DEFINE Purges == [todo : SUBSET Demo, skip : SUBSET Demo, account : Demo \cup {NONE}]
<1>0. purge \in Purges /\ NoPurge \in Purges /\ NoPurge.todo = {}
  BY DEF IInv, TypeOK, NoPurge
<1>1. ASSUME UNCHANGED <<workspace, rows, session, call, worker>>, purge' \in Purges,
             purge'.todo \subseteq purge.todo \cup Candidates,
             account' \in [Demo -> Accounts], Event \/ UNCHANGED events
      PROVE  IInv'
  <2>1. TypeOK'
    BY <1>1, EventTypes DEF IInv, TypeOK, rows
  <2>2. HandlersOK' /\ CreatesAlone'
    BY <1>1 DEF IInv, HandlersOK, HandlerOK, CreatesAlone
  <2>3. PurgeOK'
    BY <1>1 DEF IInv, PurgeOK, Candidates, Due
  <2> QED
    BY <1>1, <2>1, <2>2, <2>3, Untouched DEF IInv
<1>2. CASE PurgeQuery
  <2>1. PICK S \in SUBSET Candidates :
          purge' = [purge EXCEPT !.todo = S, !.skip = {d \in S : Skip(d)}]
    BY <1>2 DEF PurgeQuery
  <2>2. S \in SUBSET Demo
    BY DEF Candidates
  <2>3. purge' \in Purges /\ purge'.todo = S
    BY <1>0, <2>1, <2>2
  <2> QED
    BY <1>1, <1>2, <2>3 DEF PurgeQuery, IInv, TypeOK
<1>3. CASE PurgeOne
  <2>1. PICK d \in purge.todo :
         LET rest == [purge EXCEPT !.todo = @ \ {d}, !.skip = @ \ {d}] IN
         \/ d \in purge.skip /\ purge' = rest /\ UNCHANGED <<workspace, rows>>
         \/ /\ d \notin purge.skip /\ DeleteRaises(d)
            /\ purge' = NoPurge /\ UNCHANGED <<workspace, rows>>
         \/ /\ d \notin purge.skip /\ ~DeleteRaises(d)
            /\ DeleteWorkspace(d)
            /\ purge' = [rest EXCEPT !.account = IF d \in connection THEN d ELSE NONE]
    BY <1>3 DEF PurgeOne
  <2>2. d \in Demo /\ Due(d)
    BY <1>0 DEF IInv, PurgeOK
  <2> DEFINE rest == [purge EXCEPT !.todo = @ \ {d}, !.skip = @ \ {d}]
  <2>3. rest \in Purges /\ rest.todo = purge.todo \ {d}
    BY <1>0
  <2>4. CASE d \in purge.skip /\ purge' = rest /\ UNCHANGED <<workspace, rows>>
    BY <1>1, <1>3, <2>3, <2>4 DEF PurgeOne, IInv, TypeOK
  <2>5. CASE purge' = NoPurge /\ UNCHANGED <<workspace, rows>>
    BY <1>0, <1>1, <1>3, <2>5 DEF PurgeOne, IInv, TypeOK
  <2>6. CASE /\ DeleteWorkspace(d)
             /\ purge' = [rest EXCEPT !.account = IF d \in connection THEN d ELSE NONE]
    <3>0. UNCHANGED <<session, account, call, worker, events>>
      BY <1>3 DEF PurgeOne
    <3>1. purge' \in Purges /\ purge'.todo = purge.todo \ {d}
      <4> HIDE DEF rest
      <4> QED
        BY <2>2, <2>3, <2>6
    <3>2. TypeOK'
      BY <2>2, <2>6, <3>0, <3>1, DeletedWorkspace DEF IInv, TypeOK
    <3>3. ASSUME NEW c \in Call PROVE HandlerOK(c)'
      BY <2>2, <2>6, <3>0, DeletedWorkspace DEF IInv, HandlersOK, HandlerOK, Due
    <3>4. PurgeOK' /\ SessionsOK'
      BY <2>2, <2>6, <3>0, <3>1, DeletedWorkspace
      DEF IInv, TypeOK, PurgeOK, SessionsOK, Due
    <3>5. CreatesAlone'
      BY <3>0 DEF IInv, CreatesAlone
    <3> QED
      BY <2>2, <2>6, <3>0, <3>2, <3>3, <3>4, <3>5, DeletedWorkspace, Untouched
      DEF IInv, HandlersOK
  <2> QED
    BY <2>1, <2>4, <2>5, <2>6
<1>4. CASE PurgeAccount
  <2>1. purge.account \in Demo /\ DeleteAccount(purge.account)
    BY <1>0, <1>4 DEF PurgeAccount
  <2>2. purge' \in Purges /\ purge'.todo = purge.todo
    BY <1>0, <1>4 DEF PurgeAccount
  <2> QED
    BY <1>1, <1>4, <2>1, <2>2, DeletedAccount DEF PurgeAccount
<1>5. CASE PurgeDies
  BY <1>0, <1>1, <1>5 DEF PurgeDies, IInv, TypeOK
<1> QED
  BY <1>2, <1>3, <1>4, <1>5
-----------------------------------------------------------------------------
(***************************************************************************)
(* Workers.                                                                *)
(***************************************************************************)

\* A step of a worker, on one operation at most.
LEMMA WorkKeeps ==
    ASSUME IInv, NEW w \in Worker, worker' \in [Worker -> Work],
           \A v \in Worker \ {w} : worker'[v] = worker[v],
           worker'[w].pc # "IDLE" => worker'[w].demo \in Demo /\ worker'[w].row \in Row,
           operation' \in [Demo -> [Row -> Operations]], RowsOK',
           \A d \in Demo, r \in Row :
             operation[d][r].state = "NONE" => operation'[d][r].state = "NONE" \/ r \in task[d],
           account' \in [Demo -> Accounts], Event \/ UNCHANGED events,
           UNCHANGED <<workspace, connection, request, task, session, call, purge>>
    PROVE  IInv'
<1>1. TypeOK'
  BY EventTypes DEF IInv, TypeOK
<1>2. HandlersOK' /\ CreatesAlone'
  BY DEF IInv, HandlersOK, HandlerOK, CreatesAlone
<1>3. WorkersOK'
  BY DEF IInv, WorkersOK
<1>4. PurgedIsGone'
  BY DEF IInv, PurgedIsGone
<1> QED
  BY <1>1, <1>2, <1>3, <1>4, Untouched DEF IInv

\* What a worker does to its own operation.
LEMMA OperationChanged ==
    ASSUME IInv, NEW d \in Demo, NEW r \in Row, NEW o \in Operations,
           operation' = [operation EXCEPT ![d][r] = o], UNCHANGED <<request, task>>,
           o.state # "NONE" => r \in task[d], o.state = "DISPATCHED" => o.count > 0
    PROVE  /\ operation' \in [Demo -> [Row -> Operations]]
           /\ RowsOK'
           /\ \A e \in Demo, q \in Row : operation[e][q].state = "NONE" =>
                operation'[e][q].state = "NONE" \/ q \in task[e]
<1>1. operation' \in [Demo -> [Row -> Operations]]
  BY DEF IInv, TypeOK
<1>2. \A e \in Demo, q \in Row :
        operation'[e][q] = IF e = d /\ q = r THEN o ELSE operation[e][q]
  BY DEF IInv, TypeOK
<1>3. RowsOK'
  BY <1>2 DEF IInv, RowsOK
<1> QED
  BY <1>1, <1>2, <1>3

LEMMA PrepareKeeps == \A w \in Worker, d \in Demo, r \in Row : IInv /\ Prepare(w, d, r) => IInv'
<1> SUFFICES ASSUME NEW w \in Worker, NEW d \in Demo, NEW r \in Row, IInv, Prepare(w, d, r)
             PROVE  IInv'
  OBVIOUS
<1> DEFINE o == [operation[d][r] EXCEPT !.state = "PREPARED"]
<1>1. o \in Operations /\ o.state = "PREPARED"
  BY SMTT(30) DEF IInv, TypeOK, Operations
<1>2. operation' = [operation EXCEPT ![d][r] = o] /\ r \in task[d]
  BY DEF IInv, TypeOK, Prepare
<1>3. /\ worker' \in [Worker -> Work] /\ \A v \in Worker \ {w} : worker'[v] = worker[v]
      /\ worker'[w].demo = d /\ worker'[w].row = r
  BY DEF IInv, TypeOK, Prepare, Take, Work
<1> HIDE DEF o
<1> QED
  BY <1>1, <1>2, <1>3, OperationChanged, WorkKeeps, ZenonT(40) DEF Prepare, IInv, TypeOK

LEMMA ReconcileKeeps ==
    \A w \in Worker, d \in Demo, r \in Row : IInv /\ Reconcile(w, d, r) => IInv'
<1> SUFFICES ASSUME NEW w \in Worker, NEW d \in Demo, NEW r \in Row, IInv, Reconcile(w, d, r)
             PROVE  IInv'
  OBVIOUS
<1>1. /\ worker' \in [Worker -> Work] /\ \A v \in Worker \ {w} : worker'[v] = worker[v]
      /\ worker'[w].demo = d /\ worker'[w].row = r
  BY DEF IInv, TypeOK, Reconcile, Take, Work
<1>2. RowsOK' /\ operation' = operation
  BY Untouched DEF Reconcile, rows
<1> QED
  BY <1>1, <1>2, WorkKeeps DEF Reconcile, rows, IInv, TypeOK

\* A worker that goes on with its operation, or ends.
LEMMA WorkerMoves ==
    ASSUME IInv, NEW w \in Worker, worker[w].pc # "IDLE",
           NEW pc \in {"RESERVE", "SEND", "VERIFY"}, Turn(w, pc) \/ Done(w)
    PROVE  /\ worker' \in [Worker -> Work] /\ \A v \in Worker \ {w} : worker'[v] = worker[v]
           /\ worker'[w].pc # "IDLE" => worker'[w].demo \in Demo /\ worker'[w].row \in Row
<1>1. worker[w] \in Work /\ worker[w].demo \in Demo /\ worker[w].row \in Row
  BY DEF IInv, TypeOK, WorkersOK
<1>2. CASE Turn(w, pc)
  BY <1>1, <1>2 DEF IInv, TypeOK, Work, Turn
<1>3. CASE Done(w)
  BY <1>3, NoneTypes DEF IInv, TypeOK, Done, NoWork
<1> QED
  BY <1>2, <1>3

LEMMA ReserveKeeps == \A w \in Worker : IInv /\ Reserve(w) => IInv'
<1> SUFFICES ASSUME NEW w \in Worker, IInv, Reserve(w) PROVE IInv'
  OBVIOUS
<1> DEFINE d == worker[w].demo
           r == worker[w].row
<1>1. d \in Demo /\ r \in Row /\ worker[w].pc = "RESERVE"
  BY DEF IInv, WorkersOK, Reserve, On
<1>2. CASE MayDispatch(operation[d][r])
  <2> DEFINE o == [state |-> "DISPATCHED", count |-> operation[d][r].count + 1]
  <2>1. operation' = [operation EXCEPT ![d][r] = o] /\ Turn(w, "SEND")
    BY <1>1, <1>2 DEF IInv, TypeOK, Reserve
  <2>2. o \in Operations /\ o.count > 0 /\ r \in task[d]
    <3>1. operation[d][r] \in Operations
      BY <1>1 DEF IInv, TypeOK
    <3>2. /\ operation[d][r].count \in 0..MaxDispatches
          /\ operation[d][r].count < MaxDispatches
          /\ operation[d][r].state # "NONE"
      BY <1>2, <3>1 DEF Operations, MayDispatch
    <3>3. r \in task[d]
      BY <1>1, <3>2 DEF IInv, RowsOK
    <3> QED
      BY <3>2, <3>3, DemoAssumption DEF Operations
  <2> HIDE DEF o, d, r
  <2> QED
    BY <1>1, <2>1, <2>2, OperationChanged, WorkerMoves, WorkKeeps DEF Reserve, IInv, TypeOK
<1>3. CASE ~MayDispatch(operation[d][r])
  <2>1. Done(w) /\ UNCHANGED <<operation, workspace, connection, request, task, session,
                               account, call, purge, events>>
    BY <1>3 DEF Reserve
  <2>2. RowsOK'
    BY <2>1, Untouched DEF rows
  <2> QED
    BY <1>1, <2>1, <2>2, WorkerMoves, WorkKeeps DEF IInv, TypeOK
<1> QED
  BY <1>2, <1>3

LEMMA SendKeeps == \A w \in Worker : IInv /\ (Send(w) \/ SendLost(w)) => IInv'
<1> SUFFICES ASSUME NEW w \in Worker, IInv, Send(w) \/ SendLost(w) PROVE IInv'
  OBVIOUS
<1> DEFINE d == worker[w].demo
           r == worker[w].row
           a == account[d]
           by == [a.by EXCEPT ![r.number] = r]
           ledger == a.ledger \cup {r}
           new == [a EXCEPT !.ledger = ledger, !.by = by]
<1>1. d \in Demo /\ r \in Row /\ worker[w].pc # "IDLE" /\ a \in Accounts
  BY DEF IInv, TypeOK, WorkersOK, Send, SendLost, On
<1>2. account' \in {account, [account EXCEPT ![d] = new]}
  BY DEF Send, SendLost
<1>3. new \in Accounts
  <2>1. by \in [Number -> Row \cup {NONE}] /\ ledger \in SUBSET Row
    BY <1>1 DEF Accounts, Row
  <2> HIDE DEF a, by, ledger
  <2>2. 0 \in 0..MaxSeeds /\ [n \in Number |-> 0] \in [Number -> 0..MaxSeeds]
    BY DemoAssumption
  <2> QED
    BY <1>1, <2>1, <2>2, AccountTypes
<1> HIDE DEF new
<1>4. account' \in [Demo -> Accounts]
  BY <1>2, <1>3 DEF IInv, TypeOK
<1>5. /\ Turn(w, "VERIFY")
      /\ Event \/ UNCHANGED events
      /\ UNCHANGED <<workspace, rows, session, call, purge>>
  BY DEF Send, SendLost
<1>6. RowsOK'
  BY <1>5, Untouched
<1> QED
  BY <1>1, <1>4, <1>5, <1>6, WorkerMoves, WorkKeeps DEF rows, IInv, TypeOK

LEMMA VerifyKeeps == \A w \in Worker : IInv /\ Verify(w) => IInv'
<1> SUFFICES ASSUME NEW w \in Worker, IInv, Verify(w) PROVE IInv'
  OBVIOUS
<1> DEFINE d == worker[w].demo
           r == worker[w].row
<1>1. d \in Demo /\ r \in Row /\ worker[w].pc # "IDLE"
  BY DEF IInv, WorkersOK, Verify, On
<1>2. UNCHANGED <<workspace, connection, request, task, session, account, call, purge, events>>
  BY DEF Verify
<1>3. CASE /\ operation[d][r].state = "DISPATCHED" /\ Done(w)
           /\ operation' = [operation EXCEPT ![d][r].state = "RESOLVED"]
  <2> DEFINE o == [operation[d][r] EXCEPT !.state = "RESOLVED"]
  <2>1. o \in Operations /\ o.state = "RESOLVED"
    <3>1. operation[d][r] \in Operations
      BY <1>1 DEF IInv, TypeOK
    <3> QED
      BY <3>1 DEF Operations
  <2>2. operation' = [operation EXCEPT ![d][r] = o] /\ r \in task[d]
    BY <1>1, <1>3 DEF IInv, TypeOK, RowsOK
  <2> HIDE DEF o
  <2>3. /\ operation' \in [Demo -> [Row -> Operations]]
        /\ RowsOK'
        /\ \A e \in Demo, q \in Row : operation[e][q].state = "NONE" =>
             operation'[e][q].state = "NONE" \/ q \in task[e]
    BY <1>1, <1>2, <2>1, <2>2, OperationChanged
  <2>4. /\ worker' \in [Worker -> Work] /\ \A v \in Worker \ {w} : worker'[v] = worker[v]
        /\ worker'[w].pc # "IDLE" => worker'[w].demo \in Demo /\ worker'[w].row \in Row
    BY <1>1, <1>3, WorkerMoves
  <2>5. account' \in [Demo -> Accounts]
    BY <1>2 DEF IInv, TypeOK
  <2> QED
    BY <1>2, <2>3, <2>4, <2>5, WorkKeeps
<1>4. CASE UNCHANGED operation /\ (Turn(w, "RESERVE") \/ Done(w))
  <2>1. RowsOK'
    BY <1>2, <1>4, Untouched DEF rows
  <2> QED
    BY <1>1, <1>2, <1>4, <2>1, WorkerMoves, WorkKeeps DEF IInv, TypeOK
<1> QED
  BY <1>3, <1>4 DEF Verify

LEMMA WorkerDiesKeeps == \A w \in Worker : IInv /\ WorkerDies(w) => IInv'
<1> SUFFICES ASSUME NEW w \in Worker, IInv, WorkerDies(w) PROVE IInv'
  OBVIOUS
<1>1. /\ Done(w) /\ Event /\ worker[w].pc # "IDLE"
      /\ UNCHANGED <<workspace, rows, session, account, call, purge>>
  BY DEF WorkerDies, On
<1>2. RowsOK'
  BY <1>1, Untouched
<1> QED
  BY <1>1, <1>2, WorkerMoves, WorkKeeps DEF rows, IInv, TypeOK
-----------------------------------------------------------------------------
(***************************************************************************)
(* The theorems.                                                           *)
(***************************************************************************)

LEMMA InitInvariant == Init => IInv
<1> SUFFICES ASSUME Init PROVE IInv
  OBVIOUS
<1>1. NoOperation \in Operations /\ NoOperation.state = "NONE"
  BY DemoAssumption DEF NoOperation, Operations
<1>2. TypeOK
  BY <1>1, NoneTypes, DemoAssumption DEF Init, TypeOK, Ages, NoPurge
<1>3. HandlersOK /\ CreatesAlone /\ WorkersOK
  BY DEF Init, HandlersOK, HandlerOK, CreatesAlone, WorkersOK, NoCall, NoWork
<1>4. PurgeOK /\ SessionsOK
  BY DEF Init, PurgeOK, SessionsOK, NoPurge
<1>5. RowsOK /\ PurgedIsGone
  BY <1>1 DEF Init, RowsOK, PurgedIsGone
<1> QED
  BY <1>2, <1>3, <1>4, <1>5 DEF IInv

LEMMA NextInvariant == IInv /\ [Next]_vars => IInv'
<1> SUFFICES ASSUME IInv, [Next]_vars PROVE IInv'
  OBVIOUS
<1>1. ASSUME NEW c \in Call, Serve(c) PROVE IInv'
  <2>1. ASSUME NEW d \in Demo, AddScenario(c, d) PROVE IInv'
    <3>1. PICK n \in Number : Start(c, "SCENARIO", d, {n}, "SEED")
      BY <2>1 DEF AddScenario
    <3> QED
      BY <2>1, <3>1, StartKeeps DEF AddScenario
  <2>2. ASSUME NEW d \in Demo, Reset(c, d) PROVE IInv'
    BY <2>2, StartKeeps, DemoAssumption DEF Reset
  <2> QED
    BY <1>1, <2>1, <2>2, ExploreKeeps, EnsureAccountKeeps, ConnectKeeps, SeedKeeps, ReadKeeps,
       RegisterKeeps, ClaimKeeps, FailsKeeps, ResetTxKeeps, ResetAccountKeeps, UndoKeeps,
       UndoAccountKeeps
    DEF Serve
<1>2. ASSUME NEW w \in Worker, HandleJob(w) PROVE IInv'
  BY <1>2, PrepareKeeps, ReconcileKeeps, ReserveKeeps, SendKeeps, VerifyKeeps, WorkerDiesKeeps
  DEF HandleJob
<1>3. CASE UNCHANGED vars
  <2>1. TypeOK' /\ HandlersOK' /\ CreatesAlone'
    BY <1>3 DEF vars, rows, IInv, TypeOK, HandlersOK, HandlerOK, CreatesAlone
  <2> QED
    BY <1>3, <2>1, Untouched DEF vars, IInv
<1> QED
  BY <1>1, <1>2, <1>3, TimeKeeps, PurgeKeeps DEF Next

\* Every reachable state of demos, creations, handlers, workers and purges satisfies
\* the inductive invariant (demo.ts).
THEOREM Invariance == Spec => []IInv
BY InitInvariant, NextInvariant, PTL DEF Spec

\* The types of the demos, their sandbox accounts and the handlers at work on them.
THEOREM TypeCorrect == Spec => []TypeOK
<1>1. IInv => TypeOK
  BY DEF IInv
<1> QED
  BY <1>1, Invariance, PTL

\* A purged demo has left nothing in the database, and nothing that still runs brings
\* any of it back: not a creation, a reset, a scenario, a worker nor a second purge.
THEOREM PurgedIsGoneAlways == Spec => []PurgedIsGone
<1>1. IInv => PurgedIsGone
  BY DEF IInv
<1> QED
  BY <1>1, Invariance, PTL

\* The record of a write that may have been sent has its task and its request, in a
\* workspace that is not purged.
UnresolvedIsAnchored ==
    \A d \in Demo, r \in Row : Unresolved(d, r) =>
      /\ operation[d][r].count > 0
      /\ r \in task[d] /\ r \in request[d]
      /\ workspace[d] # "PURGED"

\* The cascades of a reset and a purge stop at a write that may have been sent: its
\* operation never loses the task and the request it is about.
THEOREM UnresolvedIsAnchoredAlways == Spec => []UnresolvedIsAnchored
<1>1. IInv => UnresolvedIsAnchored
  BY DEF IInv, UnresolvedIsAnchored, Unresolved, RowsOK, PurgedIsGone
<1> QED
  BY <1>1, Invariance, PTL

\* Who deletes the rows of a demo has found no unresolved write among them, in the
\* same transaction.
LEMMA DeleteSpares ==
    ASSUME IInv, NEW e \in Demo, DeleteRows(e), ~DeleteRaises(e),
           NEW d \in Demo, NEW r \in Row, Unresolved(d, r)
    PROVE  operation'[d][r].state # "NONE"
<1>1. e # d
  BY DEF DeleteRaises, Blocked
<1>2. operation'[d] = operation[d]
  BY <1>1, DeleteTypes
<1> QED
  BY <1>2 DEF Unresolved

\* No reset, purge or undone creation deletes the record of a write that may have been
\* sent, and no worker takes it back: what was DISPATCHED is DISPATCHED or RESOLVED.
THEOREM UnresolvedIsKeptAlways == Spec => UnresolvedIsKept
<1>1. ASSUME IInv, [Next]_vars, NEW d \in Demo, NEW r \in Row, Unresolved(d, r)
      PROVE  operation'[d][r].state # "NONE"
  <2>0. operation \in [Demo -> [Row -> Operations]] /\ operation[d][r].state = "DISPATCHED"
    BY <1>1 DEF IInv, TypeOK, Unresolved
  <2>1. ASSUME NEW w \in Worker, HandleJob(w) PROVE operation'[d][r].state # "NONE"
    <3>1. CASE UNCHANGED operation
      BY <2>0, <3>1
    <3>2. ASSUME NEW e \in Demo, NEW q \in Row, Prepare(w, e, q)
          PROVE  operation'[d][r].state # "NONE"
      BY <2>0, <3>2 DEF Prepare, Operations
    <3>3. CASE Reserve(w)
      BY <2>0, <3>3 DEF Reserve
    <3>4. CASE Verify(w)
      <4>1. \/ operation' = operation
            \/ operation' = [operation EXCEPT
                  ![worker[w].demo][worker[w].row].state = "RESOLVED"]
        BY <3>4 DEF Verify
      <4> DEFINE done == [operation[d][r] EXCEPT !.state = "RESOLVED"]
      <4>2. done.state = "RESOLVED"
        BY <2>0 DEF Operations
      <4>3. operation'[d][r] \in {operation[d][r], done}
        BY <2>0, <4>1
      <4> QED
        BY <2>0, <4>2, <4>3
    <3> QED
      BY <2>1, <3>1, <3>2, <3>3, <3>4 DEF HandleJob, Reconcile, Send, SendLost, WorkerDies, rows
  <2>2. ASSUME NEW c \in Call, Serve(c) PROVE operation'[d][r].state # "NONE"
    <3>1. CASE UNCHANGED operation
      BY <2>0, <3>1
    <3>2. CASE ResetTx(c) \/ Undo(c)
      <4>1. call[c].demo \in Demo
        BY <1>1, <3>2 DEF IInv, HandlersOK, HandlerOK, ResetTx, Undo, At
      <4>2. \/ UNCHANGED operation
            \/ DeleteRows(call[c].demo) /\ ~DeleteRaises(call[c].demo)
        BY <3>2 DEF ResetTx, Undo, DeleteWorkspace, rows
      <4> QED
        BY <1>1, <3>1, <4>1, <4>2, DeleteSpares
    <3> QED
      BY <2>2, <3>1, <3>2
      DEF Serve, Explore, AddScenario, Reset, EnsureAccount, Connect, Seed, Read, Register,
          Claim, Fails, Crashes, ResetAccount, UndoAccount, rows
  <2>3. CASE PurgeOne
    <3>1. \/ UNCHANGED operation
          \/ \E e \in purge.todo : DeleteRows(e) /\ ~DeleteRaises(e)
      BY <2>3 DEF PurgeOne, DeleteWorkspace, rows
    <3>2. purge.todo \subseteq Demo
      BY <1>1 DEF IInv, TypeOK
    <3> QED
      BY <1>1, <2>0, <3>1, <3>2, DeleteSpares
  <2>4. CASE Time \/ PurgeQuery \/ PurgeAccount \/ PurgeDies \/ UNCHANGED vars
    BY <2>0, <2>4 DEF Time, PurgeQuery, PurgeAccount, PurgeDies, vars, rows
  <2> QED
    BY <1>1, <2>1, <2>2, <2>3, <2>4 DEF Next
<1>2. IInv /\ [Next]_vars =>
        [\A d \in Demo, r \in Row : Unresolved(d, r) => operation'[d][r].state # "NONE"]_vars
  BY <1>1
<1> QED
  BY <1>2, Invariance, PTL DEF Spec, UnresolvedIsKept
=============================================================================
