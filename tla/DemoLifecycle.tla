---------------------------- MODULE DemoLifecycle ----------------------------
(***************************************************************************)
(* The life of demo workspaces: packages/database/src/demo.ts, its routes, *)
(* the admin API of the billing sandbox, and the triggers that protect the *)
(* rows a demo may delete.                                                 *)
(*                                                                         *)
(* Neither creating, resetting nor purging a demo is one transaction: each *)
(* is a row of calls to two services beside the workers that recover.  A   *)
(* handler is cut at every await.  The engine is Recovery's: here an       *)
(* operation is prepared, sent and resolved.  Policies, audit events and   *)
(* what a scenario changes after registration are left out.                *)
(***************************************************************************)
EXTENDS Integers, FiniteSets

CONSTANTS
    Demo,           \* demo workspaces, each with its sandbox account
    Number,         \* numbers of subscriptions
    Starter,        \* those of the starter scenarios, the others are random
    Call,           \* calls the server may work on at a time
    Worker,         \* handlers of RECOVER and RECONCILE jobs
    MaxDispatches,  \* LIMITS.MAX_WRITE_DISPATCHES
    PurgeLimit,     \* the "limit 50" of purgeExpiredDemos
    MaxSeeds,       \* bound: subscriptions ever seeded in an account
    MaxEvents,      \* bound: resets, scenarios, failures, lost leases
    NONE            \* no demo, no row

ASSUME DemoAssumption ==
    /\ Starter \subseteq Number /\ Starter # {} /\ NONE \notin Demo
    /\ MaxDispatches \in Nat \ {0} /\ PurgeLimit \in Nat \ {0}
    /\ MaxSeeds \in Nat \ {0} /\ MaxEvents \in Nat

\* A request names a subscription; seed says which of those that ever had the
\* number.  A request has one task and at most one operation here.
Row == [number : Number, seed : 1..MaxSeeds]

VARIABLES
    workspace,  \* workspace[d]: the row of app.workspaces
    connection, \* demos with a row of app.connections
    session,    \* demos whose visitor was given the signed cookie
    request,    \* request[d]: rows of app.authorized_requests
    task,       \* task[d]: the requests with a task
    operation,  \* operation[d][r]: the row of app.recovery_operations
    account,    \* account[d]: what the billing sandbox holds
    call,       \* call[c]: the local variables of a handler of the API
    worker,     \* worker[w]: the local variables of a handler of a job
    purge,      \* the local variables of purgeExpiredDemos
    events      \* how much of the bound is used

rows == <<connection, request, task, operation>>
vars == <<workspace, rows, session, account, call, worker, purge, events>>

\* EXPIRED after an hour, DUE after a day.
Ages == {"NONE", "FRESH", "EXPIRED", "DUE", "PURGED"}

NoOperation == [state |-> "NONE", count |-> 0]
Operations == [state : {"NONE", "PREPARED", "DISPATCHED", "RESOLVED"}, count : 0..MaxDispatches]

\* open: the account exists; seed[n]: which subscription has the number now, 0 for
\* none; by[n]: the operation that scheduled its cancellation; ledger: the keys of
\* the account's operations.
NoAccount == [open |-> FALSE, seeds |-> 0, seed |-> [n \in Number |-> 0],
              by |-> [n \in Number |-> NONE], ledger |-> {}]
Accounts ==
    [open : BOOLEAN, seeds : 0..MaxSeeds, seed : [Number -> 0..MaxSeeds],
     by : [Number -> Row \cup {NONE}], ledger : SUBSET Row]

NoCall == [pc |-> "IDLE", kind |-> "NONE", demo |-> NONE, todo |-> {}, row |-> NONE]
Calls ==
    [pc : {"IDLE", "ACCOUNT", "CONNECT", "TX", "RESET", "SEED", "READ", "REGISTER",
           "CLAIM", "UNDO", "UNDO_ACCOUNT"},
     kind : {"NONE", "CREATE", "RESET", "SCENARIO"}, demo : Demo \cup {NONE},
     todo : SUBSET Number, row : [number : Number, seed : 0..MaxSeeds] \cup {NONE}]

NoWork == [pc |-> "IDLE", demo |-> NONE, row |-> NONE]
Work == [pc : {"IDLE", "RESERVE", "SEND", "VERIFY"}, demo : Demo \cup {NONE},
         row : Row \cup {NONE}]

\* todo: what is left of the batch; skip: those of it that were blocked when it was
\* queried; account: the sandbox account to delete next.
NoPurge == [todo |-> {}, skip |-> {}, account |-> NONE]

TypeOK ==
    /\ workspace \in [Demo -> Ages]
    /\ connection \subseteq Demo /\ session \subseteq Demo
    /\ request \in [Demo -> SUBSET Row] /\ task \in [Demo -> SUBSET Row]
    /\ operation \in [Demo -> [Row -> Operations]]
    /\ account \in [Demo -> Accounts]
    /\ call \in [Call -> Calls] /\ worker \in [Worker -> Work]
    /\ purge \in [todo : SUBSET Demo, skip : SUBSET Demo, account : Demo \cup {NONE}]
    /\ events \in 0..MaxEvents

Event == events < MaxEvents /\ events' = events + 1

\* The service starts empty.
Init ==
    /\ workspace = [d \in Demo |-> "NONE"] /\ connection = {} /\ session = {}
    /\ request = [d \in Demo |-> {}] /\ task = [d \in Demo |-> {}]
    /\ operation = [d \in Demo |-> [r \in Row |-> NoOperation]]
    /\ account = [d \in Demo |-> NoAccount]
    /\ call = [c \in Call |-> NoCall] /\ worker = [w \in Worker |-> NoWork]
    /\ purge = NoPurge
    /\ events = 0

Exists(d) == workspace[d] \in {"FRESH", "EXPIRED", "DUE"}

\* What the trigger recovery_operations_guard refuses to delete, and what the
\* checks before a reset and a purge look for.
Unresolved(d, r) == operation[d][r].state = "DISPATCHED"
Blocked(d) == \E r \in Row : Unresolved(d, r)
DeleteRaisesLate(d) == \E r \in Row : Unresolved(d, r) /\ operation[d][r].count > 1

DeleteRaises(d) == Blocked(d)

Time ==
    \E d \in Demo :
      /\ \/ /\ workspace[d] = "FRESH"
            /\ workspace' = [workspace EXCEPT ![d] = "EXPIRED"]
         \/ /\ workspace[d] = "EXPIRED"
            /\ \A c \in Call : call[c].demo # d
            /\ workspace' = [workspace EXCEPT ![d] = "DUE"]
      /\ UNCHANGED <<rows, session, account, call, worker, purge, events>>
-----------------------------------------------------------------------------
(***************************************************************************)
(* Creating a demo, and the scenarios of a new or a reset one.             *)
(***************************************************************************)

At(c, pc) == call[c].pc = pc
Goto(c, pc) == call' = [call EXCEPT ![c].pc = pc]
Leave(c) == call' = [call EXCEPT ![c] = NoCall]
Start(c, kind, d, todo, pc) ==
    /\ At(c, "IDLE")
    /\ call' = [call EXCEPT ![c] = [pc |-> pc, kind |-> kind, demo |-> d, todo |-> todo,
                                     row |-> NONE]]

Explore(c, d) ==
    /\ workspace[d] = "NONE"
    /\ Start(c, "CREATE", d, Starter, "ACCOUNT")
    /\ workspace' = [workspace EXCEPT ![d] = "FRESH"]
    /\ UNCHANGED <<rows, session, account, worker, purge, events>>

EnsureAccount(c) ==
    /\ At(c, "ACCOUNT")
    /\ account' = [account EXCEPT ![call[c].demo].open = TRUE]
    /\ Goto(c, "CONNECT")
    /\ UNCHANGED <<workspace, rows, session, worker, purge, events>>

Connect(c) ==
    /\ At(c, "CONNECT")
    /\ connection' = connection \cup {call[c].demo}
    /\ Goto(c, "SEED")
    /\ UNCHANGED <<workspace, request, task, operation, session, account, worker, purge, events>>

\* A control of the scenario library, with its own number or a random one.
AddScenario(c, d) ==
    /\ d \in session /\ workspace[d] = "FRESH" /\ Event
    /\ \E n \in Number : Start(c, "SCENARIO", d, {n}, "SEED")
    /\ UNCHANGED <<workspace, rows, session, account, worker, purge>>

\* The number of the scenario, or a random one when that is taken.
Free(d, n) == account[d].seed[n] = 0
Choice(d, n) == IF Free(d, n) THEN {n} ELSE {m \in Number \ Starter : Free(d, m)}

Seed(c) ==
    /\ At(c, "SEED") /\ account[call[c].demo].open
    /\ LET d == call[c].demo
           a == account[d]
           s == a.seeds + 1
           n == CHOOSE k \in call[c].todo : TRUE
       IN /\ s <= MaxSeeds
          /\ \E m \in Choice(d, n) :
               /\ account' = [account EXCEPT ![d] =
                                [a EXCEPT !.seeds = s, !.seed = [a.seed EXCEPT ![m] = s],
                                          !.by = [a.by EXCEPT ![m] = NONE]]]
               /\ call' = [call EXCEPT ![c].pc = "READ", ![c].todo = @ \ {n},
                                       ![c].row = [number |-> m, seed |-> 0]]
    /\ UNCHANGED <<workspace, rows, session, worker, purge, events>>

\* The boundary comes from an independent read of what is there now.
Read(c) ==
    /\ At(c, "READ")
    /\ LET n == call[c].row.number
           s == account[call[c].demo].seed[n]
       IN /\ s # 0
          /\ call' = [call EXCEPT ![c].pc = "REGISTER", ![c].row.seed = s]
    /\ UNCHANGED <<workspace, rows, session, account, worker, purge, events>>

Register(c) ==
    /\ At(c, "REGISTER") /\ Exists(call[c].demo)
    /\ request' = [request EXCEPT ![call[c].demo] = @ \cup {call[c].row}]
    /\ Goto(c, "CLAIM")
    /\ UNCHANGED <<workspace, connection, task, operation, session, account, worker,
                   purge, events>>

\* The last report ends the loop; a new demo is then handed to its visitor.
Claim(c) ==
    /\ At(c, "CLAIM") /\ call[c].row \in request[call[c].demo]
    /\ task' = [task EXCEPT ![call[c].demo] = @ \cup {call[c].row}]
    /\ IF call[c].todo # {}
         THEN Goto(c, "SEED") /\ UNCHANGED session
         ELSE /\ Leave(c)
              /\ session' = IF call[c].kind = "CREATE" THEN session \cup {call[c].demo}
                                                       ELSE session
    /\ UNCHANGED <<workspace, connection, request, operation, account, worker, purge, events>>

\* The step cannot be done: the account or its subscription is gone, every number
\* is taken (or the bound is used up), the request was reset away.
Impossible(c) ==
    LET d == call[c].demo IN
    \/ /\ At(c, "SEED")
       /\ \/ ~account[d].open \/ account[d].seeds = MaxSeeds
          \/ \E n \in call[c].todo : Choice(d, n) = {}
    \/ At(c, "READ") /\ account[d].seed[call[c].row.number] = 0
    \/ At(c, "REGISTER") /\ ~Exists(d)
    \/ At(c, "CLAIM") /\ call[c].row \notin request[d]

\* A step throws: the creation is undone, what a reset or a scenario did stays.
Fails(c) ==
    /\ ~At(c, "IDLE") /\ call[c].pc \notin {"UNDO", "UNDO_ACCOUNT"}
    /\ \/ Impossible(c) /\ UNCHANGED events
       \/ Event
    /\ IF call[c].kind = "CREATE" THEN Goto(c, "UNDO") ELSE Leave(c)
    /\ UNCHANGED <<workspace, rows, session, account, worker, purge>>

\* The server stops in the handler: nothing is undone, no cookie is sent.
Crashes(c) ==
    /\ ~At(c, "IDLE") /\ Event
    /\ Leave(c)
    /\ UNCHANGED <<workspace, rows, session, account, worker, purge>>
-----------------------------------------------------------------------------
(***************************************************************************)
(* Reset: a check, a transaction, the reset of the account, and the        *)
(* scenarios of a new demo.  Between the two services is no transaction.   *)
(***************************************************************************)

\* The demo's work is deleted.  What is deleted is the same in a reset and a purge.
DeleteRows(d) ==
    /\ request' = [request EXCEPT ![d] = {}] /\ task' = [task EXCEPT ![d] = {}]
    /\ operation' = [operation EXCEPT ![d] = [r \in Row |-> NoOperation]]

Reset(c, d) ==
    /\ d \in session /\ workspace[d] = "FRESH" /\ Event
    /\ ~Blocked(d)
    /\ Start(c, "RESET", d, Starter, "TX")
    /\ UNCHANGED <<workspace, rows, session, account, worker, purge>>

ResetTx(c) ==
    /\ At(c, "TX")
    /\ IF DeleteRaises(call[c].demo)
         THEN Leave(c) /\ UNCHANGED <<request, task, operation>>
         ELSE Goto(c, "RESET") /\ DeleteRows(call[c].demo)
    /\ UNCHANGED <<workspace, connection, session, account, worker, purge, events>>

\* The ledger goes with the subscriptions, and nothing is checked again.
ResetAccount(c) ==
    /\ At(c, "RESET")
    /\ account' = [account EXCEPT ![call[c].demo] =
                     [NoAccount EXCEPT !.open = account[call[c].demo].open,
                                       !.seeds = account[call[c].demo].seeds]]
    /\ Goto(c, "SEED")
    /\ UNCHANGED <<workspace, rows, session, worker, purge, events>>
-----------------------------------------------------------------------------
(***************************************************************************)
(* Workers.                                                                *)
(***************************************************************************)

On(w, pc) == worker[w].pc = pc
Turn(w, pc) == worker' = [worker EXCEPT ![w].pc = pc]
Done(w) == worker' = [worker EXCEPT ![w] = NoWork]
Take(w, d, r, pc) ==
    /\ On(w, "IDLE")
    /\ worker' = [worker EXCEPT ![w] = [pc |-> pc, demo |-> d, row |-> r]]

\* A subscription without its schedule, an approval, no other operation on it.
Prepare(w, d, r) ==
    /\ r \in task[d] /\ operation[d][r].state = "NONE"
    /\ account[d].seed[r.number] # 0 /\ account[d].by[r.number] = NONE
    /\ \A q \in Row : q.number = r.number => operation[d][q].state \in {"NONE", "RESOLVED"}
    /\ Take(w, d, r, "RESERVE")
    /\ operation' = [operation EXCEPT ![d][r].state = "PREPARED"]
    /\ UNCHANGED <<workspace, connection, request, task, session, account, call, purge, events>>

\* Another worker takes over when the lease of the first is lost.
Reconcile(w, d, r) ==
    /\ operation[d][r].state \in {"PREPARED", "DISPATCHED"}
    /\ IF \E v \in Worker : worker[v].demo = d /\ worker[v].row = r
         THEN Event ELSE UNCHANGED events
    /\ Take(w, d, r, IF operation[d][r].count = 0 THEN "RESERVE" ELSE "VERIFY")
    /\ UNCHANGED <<workspace, rows, session, account, call, purge>>

MayDispatchOnceMore(o) == o.state \in {"PREPARED", "DISPATCHED"} /\ o.count <= MaxDispatches

MayDispatch(o) == o.state \in {"PREPARED", "DISPATCHED"} /\ o.count < MaxDispatches

\* An operation that was deleted makes the transaction throw.
Reserve(w) ==
    /\ On(w, "RESERVE")
    /\ LET d == worker[w].demo
           r == worker[w].row
       IN IF MayDispatch(operation[d][r])
            THEN /\ operation' = [operation EXCEPT ![d][r] =
                                    [state |-> "DISPATCHED", count |-> @.count + 1]]
                 /\ Turn(w, "SEND")
            ELSE Done(w) /\ UNCHANGED operation
    /\ UNCHANGED <<workspace, connection, request, task, session, account, call, purge, events>>

\* The sandbox answers a key it knows from the ledger, and applies one it does not.
Send(w) ==
    /\ On(w, "SEND")
    /\ LET d == worker[w].demo
           r == worker[w].row
           a == account[d]
           known == r \in a.ledger \/ a.seed[r.number] = 0
       IN account' = IF known THEN account
                              ELSE [account EXCEPT ![d] =
                                      [a EXCEPT !.ledger = @ \cup {r},
                                                !.by = [a.by EXCEPT ![r.number] = r]]]
    /\ Turn(w, "VERIFY")
    /\ UNCHANGED <<workspace, rows, session, call, purge, events>>

\* The request never reaches the sandbox.
SendLost(w) ==
    /\ On(w, "SEND") /\ Event
    /\ Turn(w, "VERIFY")
    /\ UNCHANGED <<workspace, rows, session, account, call, purge>>

\* The read shows the schedule: resolved.  Not: the same key again while the
\* budget lasts, and after that the operation stays unresolved.
Verify(w) ==
    /\ On(w, "VERIFY")
    /\ LET d == worker[w].demo
           r == worker[w].row
           o == operation[d][r]
       IN \/ /\ o.state = "DISPATCHED" /\ account[d].by[r.number] # NONE
             /\ operation' = [operation EXCEPT ![d][r].state = "RESOLVED"]
             /\ Done(w)
          \/ /\ o.state = "DISPATCHED" /\ account[d].by[r.number] = NONE
             /\ IF MayDispatch(o) /\ account[d].seed[r.number] # 0
                  THEN Turn(w, "RESERVE") ELSE Done(w)
             /\ UNCHANGED operation
          \/ o.state # "DISPATCHED" /\ Done(w) /\ UNCHANGED operation
    /\ UNCHANGED <<workspace, connection, request, task, session, account, call, purge, events>>

WorkerDies(w) ==
    /\ ~On(w, "IDLE") /\ Event
    /\ Done(w)
    /\ UNCHANGED <<workspace, rows, session, account, call, purge>>

HandleJob(w) ==
    \/ \E d \in Demo, r \in Row : Prepare(w, d, r) \/ Reconcile(w, d, r)
    \/ Reserve(w) \/ Send(w) \/ SendLost(w) \/ Verify(w) \/ WorkerDies(w)
-----------------------------------------------------------------------------
(***************************************************************************)
(* Purge: what a worker's tick does for demos a day old, what a creation   *)
(* that failed does for its own.                                           *)
(***************************************************************************)

DeleteWorkspace(d) ==
    /\ workspace' = [workspace EXCEPT ![d] = "PURGED"]
    /\ connection' = connection \ {d}
    /\ DeleteRows(d)

\* The sandbox deletes the account with all in it, or the error is swallowed.
DeleteAccount(d) ==
    \/ /\ account' = [account EXCEPT ![d] = [NoAccount EXCEPT !.seeds = account[d].seeds]]
       /\ UNCHANGED events
    \/ Event /\ UNCHANGED account

Due(d) == workspace[d] = "DUE"

\* At most PurgeLimit candidates in no order; those blocked at this moment are skipped.
Candidates == {d \in Demo : Due(d)}
SkipAll(d) == \E e \in Candidates : Blocked(e)

Skip(d) == Blocked(d)

PurgeQuery ==
    /\ purge = NoPurge
    /\ \E S \in SUBSET Candidates :
         /\ Cardinality(S) <= PurgeLimit
         /\ S = Candidates \/ Cardinality(S) = PurgeLimit
         /\ purge' = [purge EXCEPT !.todo = S, !.skip = {d \in S : Skip(d)}]
    /\ UNCHANGED <<workspace, rows, session, account, call, worker, events>>

\* A demo that was dispatched to since raises, and the loop ends with it.
PurgeOne ==
    /\ purge.account = NONE
    /\ \E d \in purge.todo :
         LET rest == [purge EXCEPT !.todo = @ \ {d}, !.skip = @ \ {d}] IN
         \/ d \in purge.skip /\ purge' = rest /\ UNCHANGED <<workspace, rows>>
         \/ /\ d \notin purge.skip /\ DeleteRaises(d)
            /\ purge' = NoPurge /\ UNCHANGED <<workspace, rows>>
         \/ /\ d \notin purge.skip /\ ~DeleteRaises(d)
            /\ DeleteWorkspace(d)
            /\ purge' = [rest EXCEPT !.account = IF d \in connection THEN d ELSE NONE]
    /\ UNCHANGED <<session, account, call, worker, events>>

PurgeAccount ==
    /\ purge.account # NONE
    /\ DeleteAccount(purge.account)
    /\ purge' = [purge EXCEPT !.account = NONE]
    /\ UNCHANGED <<workspace, rows, session, call, worker>>

\* The worker stops in the loop.
PurgeDies ==
    /\ purge # NoPurge /\ Event
    /\ purge' = NoPurge
    /\ UNCHANGED <<workspace, rows, session, account, call, worker>>

\* The same function in the handler of a failed creation, whose error is swallowed.
Undo(c) ==
    /\ At(c, "UNDO")
    /\ IF DeleteRaises(call[c].demo)
         THEN Leave(c) /\ UNCHANGED <<workspace, rows>>
         ELSE /\ DeleteWorkspace(call[c].demo)
              /\ IF call[c].demo \in connection THEN Goto(c, "UNDO_ACCOUNT") ELSE Leave(c)
    /\ UNCHANGED <<session, account, worker, purge, events>>

UndoAccount(c) ==
    /\ At(c, "UNDO_ACCOUNT")
    /\ DeleteAccount(call[c].demo)
    /\ Leave(c)
    /\ UNCHANGED <<workspace, rows, session, worker, purge>>
-----------------------------------------------------------------------------
Serve(c) ==
    \/ \E d \in Demo : Explore(c, d) \/ AddScenario(c, d) \/ Reset(c, d)
    \/ EnsureAccount(c) \/ Connect(c) \/ Seed(c) \/ Read(c) \/ Register(c) \/ Claim(c)
    \/ Fails(c) \/ Crashes(c) \/ ResetTx(c) \/ ResetAccount(c)
    \/ Undo(c) \/ UndoAccount(c)

Next ==
    \/ Time \/ PurgeQuery \/ PurgeOne \/ PurgeAccount \/ PurgeDies
    \/ \E c \in Call : Serve(c)
    \/ \E w \in Worker : HandleJob(w)

\* Some worker always ticks, and its tick runs the purge to its end.
Fairness == WF_vars(PurgeQuery) /\ WF_vars(PurgeOne) /\ WF_vars(PurgeAccount)

Spec == Init /\ [][Next]_vars /\ Fairness
-----------------------------------------------------------------------------
(***************************************************************************)
(* Properties.                                                             *)
(***************************************************************************)

\* RECOVERY-CONTRACT.md, "including during demo purge/reset": no reset, purge or
\* undone creation deletes the record of a write that may have been sent, however
\* long ago it checked that there was none.
UnresolvedIsKept ==
    [][\A d \in Demo, r \in Row : Unresolved(d, r) => operation'[d][r].state # "NONE"]_vars

\* While no more demos are due than one purge takes, a demo past its retention is
\* purged or has an unresolved write, whatever other demos of the same tick are blocked,
\* raise, or lose their worker (DATA-MODEL.md:72).
DuePurged == \A d \in Demo : Due(d) ~> (workspace[d] = "PURGED" \/ Blocked(d))

=============================================================================
