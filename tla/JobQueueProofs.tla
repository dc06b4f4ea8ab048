--------------------------- MODULE JobQueueProofs ---------------------------
(***************************************************************************)
(* The safety of the job queue for any rows, keys, workers, attempt budget *)
(* and concurrency, and that it implements the keyed queue.                *)
(***************************************************************************)
EXTENDS JobQueue, TLAPS

\* A row has a token exactly while it is leased, and then it is the number of
\* the attempt; every run was leased with an attempt of its own.
TokensOK ==
    /\ \A j \in Job : token[j] # 0 <=> status[j] = "LEASED"
    /\ \A j \in Job : status[j] = "LEASED" => token[j] = attempt[j]
    /\ \A r \in runs : r.token <= attempt[r.job]
    /\ \A q, r \in runs : q.job = r.job /\ q.token = r.token => q = r

\* The budget, with what makes it inductive: a row not inserted was never run.
BudgetOK ==
    /\ AttemptBudget
    /\ \A j \in Job : status[j] = "NONE" => attempt[j] = 0

IInv == TypeOK /\ OneLivePerKey /\ TokensOK /\ BudgetOK
-----------------------------------------------------------------------------
LEMMA InitIInv == Init => IInv
<1> SUFFICES ASSUME Init PROVE IInv
  OBVIOUS
<1> USE QueueAssumption DEF Init
<1>1. TypeOK
  BY DEF TypeOK, Statuses, Finished, Run
<1>2. OneLivePerKey
  BY DEF OneLivePerKey, Live
<1>3. TokensOK
  BY DEF TokensOK
<1>4. BudgetOK
  BY DEF BudgetOK, AttemptBudget
<1> QED
  BY <1>1, <1>2, <1>3, <1>4 DEF IInv

\* A run that still matches its row runs a leased job, in its last attempt.
LEMMA MatchingRun ==
    ASSUME TypeOK, TokensOK, NEW r \in runs, Matches(r)
    PROVE  /\ r.job \in Job
           /\ status[r.job] = "LEASED"
           /\ r.token = attempt[r.job]
BY DEF TypeOK, TokensOK, Matches, Run

\* Settling a run to a status that is not live, or back to READY while the
\* budget lasts, keeps the invariant.
LEMMA SettleIInv ==
    ASSUME IInv, NEW r \in runs, NEW s \in Finished \cup {"READY"},
           s = "READY" => r.token < MaxAttempts,
           Settle(r, s), runs' = runs \ {r}, UNCHANGED <<key, attempt>>
    PROVE  IInv'
<1> USE QueueAssumption
<1>1. CASE ~Matches(r)
  <2>1. UNCHANGED <<status, token, lapsed, due>>
    BY <1>1 DEF Settle
  <2> QED
    BY <2>1 DEF IInv, TypeOK, OneLivePerKey, Live, TokensOK, BudgetOK,
                AttemptBudget
<1>2. CASE Matches(r)
  <2>1. r.job \in Job /\ status[r.job] = "LEASED" /\ r.token = attempt[r.job]
    BY <1>2, MatchingRun DEF IInv
  <2>2. /\ status' = [status EXCEPT ![r.job] = s]
        /\ token' = [token EXCEPT ![r.job] = 0]
        /\ lapsed' = [lapsed EXCEPT ![r.job] = FALSE]
        /\ due' = [due EXCEPT ![r.job] = FALSE]
    BY <1>2 DEF Settle
  <2>3. TypeOK'
    BY <2>2 DEF IInv, TypeOK, Statuses
  <2>4. OneLivePerKey'
    BY <2>1, <2>2 DEF IInv, TypeOK, OneLivePerKey, Live
  <2>5. TokensOK'
    BY <2>1, <2>2 DEF IInv, TypeOK, TokensOK, Finished, Run
  <2>6. BudgetOK'
    BY <2>1, <2>2 DEF IInv, TypeOK, BudgetOK, AttemptBudget, Finished
  <2> QED
    BY <2>3, <2>4, <2>5, <2>6 DEF IInv
<1> QED
  BY <1>1, <1>2

LEMMA NextIInv == IInv /\ [Next]_vars => IInv'
<1> SUFFICES ASSUME IInv, [Next]_vars PROVE IInv'
  OBVIOUS
<1> USE QueueAssumption
<1>1. ASSUME NEW k \in Key, Enqueue(k) PROVE IInv'
  <2>1. PICK j \in Job, d \in BOOLEAN :
            /\ status[j] = "NONE"
            /\ status' = [status EXCEPT ![j] = "READY"]
            /\ key' = [key EXCEPT ![j] = k]
            /\ due' = [due EXCEPT ![j] = d]
    BY <1>1 DEF Enqueue
  <2>2. UNCHANGED <<attempt, token, lapsed, runs>>
    BY <1>1 DEF Enqueue
  <2>3. TypeOK'
    BY <2>1, <2>2 DEF IInv, TypeOK, Statuses
  <2>4. \A i \in Job : Live(i) => key[i] # k
    BY <1>1 DEF Enqueue
  <2>5. OneLivePerKey'
    BY <2>1, <2>2, <2>4 DEF IInv, TypeOK, OneLivePerKey, Live
  <2>6. TokensOK'
    BY <2>1, <2>2 DEF IInv, TypeOK, TokensOK
  <2>7. BudgetOK'
    BY <2>1, <2>2 DEF IInv, TypeOK, BudgetOK, AttemptBudget
  <2> QED
    BY <2>3, <2>5, <2>6, <2>7 DEF IInv
<1>2. ASSUME NEW j \in Job, BecomeDue(j) \/ LeaseLapses(j) PROVE IInv'
  <2>1. UNCHANGED <<status, key, attempt, token, runs>>
    BY <1>2 DEF BecomeDue, LeaseLapses
  <2>2. TypeOK'
    BY <1>2 DEF IInv, TypeOK, BecomeDue, LeaseLapses
  <2> QED
    BY <2>1, <2>2 DEF IInv, OneLivePerKey, Live, TokensOK, BudgetOK,
                      AttemptBudget
<1>3. ASSUME NEW w \in Worker, NEW j \in Job, Lease(w, j) PROVE IInv'
  <2> DEFINE new == [worker |-> w, job |-> j, token |-> attempt[j] + 1]
  <2>1. /\ status[j] = "READY"
        /\ status' = [status EXCEPT ![j] = "LEASED"]
        /\ attempt' = [attempt EXCEPT ![j] = @ + 1]
        /\ token' = [token EXCEPT ![j] = attempt[j] + 1]
        /\ lapsed' = [lapsed EXCEPT ![j] = FALSE]
        /\ runs' = runs \cup {new}
        /\ UNCHANGED <<key, due>>
    BY <1>3 DEF Lease
  <2>2. attempt[j] \in Nat /\ attempt[j] < MaxAttempts
    BY <2>1 DEF IInv, TypeOK, BudgetOK, AttemptBudget
  <2>3. TypeOK'
    BY <2>1, <2>2 DEF IInv, TypeOK, Statuses, Run
  <2>4. OneLivePerKey'
    BY <2>1 DEF IInv, TypeOK, OneLivePerKey, Live
  <2>5. /\ \A i \in Job : token'[i] # 0 <=> status'[i] = "LEASED"
        /\ \A i \in Job : status'[i] = "LEASED" => token'[i] = attempt'[i]
    BY <2>1, <2>2 DEF IInv, TypeOK, TokensOK
  <2>6. \A r \in runs : r.job = j => r.token < attempt[j] + 1
    BY <2>2 DEF IInv, TypeOK, TokensOK, Run
  <2>7. \A r \in runs' : r.token <= attempt'[r.job]
    BY <2>1, <2>2, <2>6 DEF IInv, TypeOK, TokensOK, Run
  <2>8. \A q, r \in runs' : q.job = r.job /\ q.token = r.token => q = r
    BY <2>1, <2>2, <2>6 DEF IInv, TypeOK, TokensOK, Run
  <2>9. TokensOK'
    BY <2>5, <2>7, <2>8 DEF TokensOK
  <2>10. BudgetOK'
    BY <2>1, <2>2 DEF IInv, TypeOK, BudgetOK, AttemptBudget
  <2> QED
    BY <2>3, <2>4, <2>9, <2>10 DEF IInv
<1>4. ASSUME NEW r \in runs, RunStep(r) PROVE IInv'
  <2>1. CASE Heartbeat(r)
    <3>1. TypeOK'
      BY <2>1 DEF Heartbeat, IInv, TypeOK
    <3> QED
      BY <2>1, <3>1 DEF Heartbeat, IInv, OneLivePerKey, Live, TokensOK,
                        BudgetOK, AttemptBudget
  <2>2. CASE CompleteJob(r)
    BY <2>2, SettleIInv DEF CompleteJob, Finished
  <2>3. CASE FailPermanent(r)
    BY <2>3, SettleIInv DEF FailPermanent, Finished
  <2>4. CASE FailRetryable(r)
    <3>1. r.token \in Nat
      BY DEF IInv, TypeOK, Run
    <3>2. CASE r.token >= MaxAttempts
      BY <2>4, <3>2, SettleIInv DEF FailRetryable, Finished
    <3>3. CASE r.token < MaxAttempts
      BY <2>4, <3>1, <3>3, SettleIInv DEF FailRetryable, Finished
    <3> QED
      BY <3>1, <3>2, <3>3
  <2>5. CASE Abandon(r)
    BY <2>5 DEF Abandon, IInv, TypeOK, OneLivePerKey, Live, TokensOK, BudgetOK,
                AttemptBudget
  <2> QED
    BY <1>4, <2>1, <2>2, <2>3, <2>4, <2>5 DEF RunStep
<1>5. CASE ReclaimExpiredLeases
  <2>1. TypeOK'
    BY <1>5 DEF ReclaimExpiredLeases, Reclaimed, IInv, TypeOK, Statuses, Finished
  <2>2. OneLivePerKey'
    BY <1>5 DEF ReclaimExpiredLeases, Reclaimed, Expired, IInv, TypeOK,
                OneLivePerKey, Live
  <2>3. TokensOK'
    BY <1>5 DEF ReclaimExpiredLeases, Reclaimed, Expired, IInv, TypeOK, TokensOK
  <2>4. BudgetOK'
    BY <1>5 DEF ReclaimExpiredLeases, Reclaimed, Expired, IInv, TypeOK, BudgetOK,
                AttemptBudget
  <2> QED
    BY <2>1, <2>2, <2>3, <2>4 DEF IInv
<1>6. CASE CancelPendingTaskJobs
  <2>1. TypeOK'
    BY <1>6 DEF CancelPendingTaskJobs, IInv, TypeOK, Statuses, Finished
  <2>2. OneLivePerKey'
    BY <1>6 DEF CancelPendingTaskJobs, IInv, TypeOK, OneLivePerKey, Live
  <2>3. TokensOK'
    BY <1>6 DEF CancelPendingTaskJobs, IInv, TypeOK, TokensOK
  <2>4. BudgetOK'
    BY <1>6 DEF CancelPendingTaskJobs, IInv, TypeOK, BudgetOK, AttemptBudget
  <2> QED
    BY <2>1, <2>2, <2>3, <2>4 DEF IInv
<1>7. CASE UNCHANGED vars
  BY <1>7 DEF vars, IInv, TypeOK, OneLivePerKey, Live, TokensOK, BudgetOK,
              AttemptBudget
<1> QED
  BY <1>1, <1>2, <1>3, <1>4, <1>5, <1>6, <1>7 DEF Next

LEMMA Inductive == Spec => []IInv
<1> QED
  BY InitIInv, NextIInv, PTL DEF Spec
-----------------------------------------------------------------------------
\* The types of the queue's tables, for every instance.
THEOREM TypeCorrect == Spec => []TypeOK
<1>1. IInv => TypeOK
  BY DEF IInv
<1> QED
  BY <1>1, Inductive, PTL

\* enqueueJob and the partial unique index: one live job per dedupe key.
THEOREM OneLivePerKeyAlways == Spec => []OneLivePerKey
<1>1. IInv => OneLivePerKey
  BY DEF IInv
<1> QED
  BY <1>1, Inductive, PTL

\* Fencing by lease token: at most one run can settle a job.
THEOREM AtMostOneOwnerAlways == Spec => []AtMostOneOwner
<1>1. IInv => AtMostOneOwner
  BY DEF IInv, TokensOK, AtMostOneOwner, Matches
<1> QED
  BY <1>1, Inductive, PTL

\* leaseJobs, failJob and reclaimExpiredLeases: the attempt budget.
THEOREM AttemptBudgetAlways == Spec => []AttemptBudget
<1>1. IInv => AttemptBudget
  BY DEF IInv, BudgetOK
<1> QED
  BY <1>1, Inductive, PTL

\* The row's change at the end of a run depends on the run's token alone.
LEMMA OnlyRunsLeave ==
    ASSUME [Next]_vars, NEW r \in runs \ runs', ~Matches(r)
    PROVE  status'[r.job] = status[r.job] /\ token'[r.job] = token[r.job]
<1>1. PICK q \in runs : RunStep(q) /\ runs' = runs \ {q}
  BY DEF Next, Enqueue, BecomeDue, LeaseLapses, Lease, RunStep, Heartbeat,
         CompleteJob, FailPermanent, FailRetryable, Abandon,
         ReclaimExpiredLeases, CancelPendingTaskJobs, vars
<1>2. q = r
  BY <1>1
<1> QED
  BY <1>1, <1>2 DEF RunStep, Heartbeat, CompleteJob, FailPermanent,
                    FailRetryable, Abandon, Settle

\* completeJob and failJob of a run that lost its lease change nothing.
THEOREM StaleRunsHarmlessAlways == Spec => StaleRunsHarmless
<1>1. [Next]_vars =>
        [\A r \in runs \ runs' :
            ~Matches(r) => /\ status'[r.job] = status[r.job]
                           /\ token'[r.job] = token[r.job]]_vars
  BY OnlyRunsLeave
<1> QED
  BY <1>1, PTL DEF Spec, StaleRunsHarmless

\* A finished job is never run again.
THEOREM FinishedForeverAlways == Spec => FinishedForever
<1>1. IInv /\ [Next]_vars =>
        [\A j \in Job : status[j] \in Finished => status'[j] = status[j]]_vars
  <2> SUFFICES ASSUME IInv, Next, NEW j \in Job, status[j] \in Finished
               PROVE  status'[j] = status[j]
    OBVIOUS
  <2>1. ASSUME NEW r \in runs, RunStep(r) PROVE status'[j] = status[j]
    <3>1. CASE ~Matches(r)
      BY <2>1, <3>1 DEF RunStep, Heartbeat, CompleteJob, FailPermanent,
                        FailRetryable, Abandon, Settle
    <3>2. CASE Matches(r)
      <4>1. status[r.job] = "LEASED"
        BY <3>2, MatchingRun DEF IInv
      <4>2. r.job # j
        BY <4>1 DEF Finished
      <4> QED
        BY <2>1, <4>2 DEF IInv, TypeOK, RunStep, Heartbeat, CompleteJob,
                          FailPermanent, FailRetryable, Abandon, Settle
    <3> QED
      BY <3>1, <3>2
  <2> QED
    BY <2>1 DEF Next, Enqueue, BecomeDue, LeaseLapses, Lease, Finished,
                ReclaimExpiredLeases, Reclaimed, Expired, CancelPendingTaskJobs,
                IInv, TypeOK
<1> QED
  BY <1>1, Inductive, PTL DEF Spec, FinishedForever
-----------------------------------------------------------------------------
(***************************************************************************)
(* The queue implements KeyedQueue: each action of the rows is a step of   *)
(* the keys and leases, or changes nothing of them.                        *)
(***************************************************************************)

\* The first of a pair that holds is the key of a leased row.
LEMMA TakenKeys ==
    ASSUME NEW k \in Keyed!Taken
    PROVE  \E j \in Job : status[j] = "LEASED" /\ key[j] = k
<1>1. PICK h \in HeldKeys : h[1] = k
  BY DEF Keyed!Taken
<1>2. PICK j \in Job : status[j] = "LEASED" /\ h = <<key[j], <<j, token[j]>>>>
  BY DEF HeldKeys
<1> QED
  BY <1>1, <1>2

\* The keys are as exclusive as the rows are.
LEMMA KeysApart ==
    IInv => ReadyKeys \subseteq Key /\ ReadyKeys \cap Keyed!Taken = {}
<1> SUFFICES ASSUME IInv
             PROVE  ReadyKeys \subseteq Key /\ ReadyKeys \cap Keyed!Taken = {}
  OBVIOUS
<1>1. ReadyKeys \subseteq Key
  BY DEF IInv, TypeOK, ReadyKeys
<1>2. ASSUME NEW i \in Job, NEW j \in Job, status[i] = "READY", status[j] = "LEASED"
      PROVE  key[i] # key[j]
  BY <1>2 DEF IInv, OneLivePerKey, Live
<1>3. ReadyKeys \cap Keyed!Taken = {}
  BY <1>2, TakenKeys DEF ReadyKeys
<1> QED
  BY <1>1, <1>3

\* What neither leases nor settles is a command, or changes nothing.
LEMMA CommandRefines ==
    ASSUME IInv, IInv', UNCHANGED <<HeldKeys, GoingLeases>>
    PROVE  Keyed!Next
<1>1. (ReadyKeys \subseteq Key)' /\ (ReadyKeys \cap Keyed!Taken = {})'
  BY KeysApart, PTL
<1>2. Keyed!Taken' = Keyed!Taken
  BY DEF Keyed!Taken
<1> QED
  BY <1>1, <1>2 DEF Keyed!Next, Keyed!Command

LEMMA LeaseRefines ==
    ASSUME IInv, NEW w \in Worker, NEW j \in Job, Lease(w, j)
    PROVE  Keyed!Next
<1> DEFINE l == <<j, attempt[j] + 1>>
<1>1. /\ status[j] = "READY"
      /\ status' = [status EXCEPT ![j] = "LEASED"]
      /\ token' = [token EXCEPT ![j] = attempt[j] + 1]
      /\ runs' = runs \cup {[worker |-> w, job |-> j, token |-> attempt[j] + 1]}
      /\ UNCHANGED key
  BY DEF Lease
<1>2. key[j] \in ReadyKeys /\ key[j] \in Key
  BY <1>1 DEF IInv, TypeOK, ReadyKeys
<1>3. ReadyKeys' = ReadyKeys \ {key[j]}
  <2>1. \A i \in Job : status[i] = "READY" /\ i # j => key[i] # key[j]
    BY <1>1 DEF IInv, OneLivePerKey, Live
  <2> QED
    BY <1>1, <2>1 DEF IInv, TypeOK, ReadyKeys
<1>4. HeldKeys' = HeldKeys \cup {<<key[j], l>>}
  BY <1>1 DEF IInv, TypeOK, HeldKeys
<1>5. GoingLeases' = GoingLeases \cup {l}
  <2> DEFINE new == [worker |-> w, job |-> j, token |-> attempt[j] + 1]
  <2>1. <<new.job, new.token>> = l
    OBVIOUS
  <2> HIDE DEF new, l
  <2>2. runs' = runs \cup {new}
    BY <1>1 DEF new
  <2> QED
    BY <2>1, <2>2 DEF GoingLeases
<1>6. l \notin GoingLeases
  BY DEF IInv, TypeOK, TokensOK, GoingLeases, Run
<1>7. l \notin {h[2] : h \in HeldKeys}
  BY <1>1 DEF HeldKeys
<1>8. l \in GoingLeases' \ GoingLeases /\ l \notin Keyed!Leases
  BY <1>5, <1>6, <1>7 DEF Keyed!Leases
<1> HIDE DEF l
<1>9. Keyed!Take(key[j])
  BY <1>2, <1>3, <1>4, <1>5, <1>8 DEF Keyed!Take
<1> QED
  BY <1>2, <1>9 DEF Keyed!Next

\* The run's lease is no other run's.
LEMMA RunLeaves ==
    ASSUME IInv, NEW r \in runs, runs' = runs \ {r}
    PROVE  /\ <<r.job, r.token>> \in GoingLeases
           /\ GoingLeases' = GoingLeases \ {<<r.job, r.token>>}
<1>1. \A q \in runs : q.job = r.job /\ q.token = r.token => q = r
  BY DEF IInv, TokensOK
<1> QED
  BY <1>1 DEF GoingLeases

LEMMA SettleRefines ==
    ASSUME IInv, NEW r \in runs, NEW s \in Finished \cup {"READY"},
           Settle(r, s), runs' = runs \ {r}, UNCHANGED key
    PROVE  Keyed!Next
<1> DEFINE l == <<r.job, r.token>>
           freed == {h \in HeldKeys : h[2] = l}
<1>1. l \in GoingLeases /\ GoingLeases' = GoingLeases \ {l}
  BY RunLeaves
<1>2. CASE ~Matches(r)
  <2>1. UNCHANGED <<ReadyKeys, HeldKeys>>
    BY <1>2 DEF Settle, ReadyKeys, HeldKeys
  <2>2. Keyed!End(l)
    BY <1>1, <2>1 DEF Keyed!End
  <2> QED
    BY <1>1, <2>2 DEF Keyed!Next
<1>3. CASE Matches(r)
  <2> DEFINE again == IF s = "READY" THEN {key[r.job]} ELSE {}
  <2>1. /\ r.job \in Job /\ status[r.job] = "LEASED"
        /\ token[r.job] = r.token
    BY <1>3, MatchingRun DEF IInv, Matches
  <2>2. status' = [status EXCEPT ![r.job] = s] /\ token' = [token EXCEPT ![r.job] = 0]
    BY <1>3 DEF Settle
  <2>3. freed = {<<key[r.job], l>>}
    BY <2>1 DEF HeldKeys
  <2>4. HeldKeys' = HeldKeys \ {<<key[r.job], l>>}
    <3>1. \A i \in Job : status'[i] = "LEASED" <=> status[i] = "LEASED" /\ i # r.job
      BY <2>1, <2>2 DEF IInv, TypeOK, Finished
    <3>2. \A i \in Job : i # r.job => token'[i] = token[i]
      BY <2>2 DEF IInv, TypeOK
    <3> QED
      BY <2>1, <3>1, <3>2 DEF HeldKeys
  <2>5. ReadyKeys' = ReadyKeys \cup again
    BY <2>1, <2>2 DEF IInv, TypeOK, ReadyKeys, Finished
  <2>6. again \in SUBSET {h[1] : h \in freed}
    <3> DEFINE h == <<key[r.job], l>>
    <3>1. h \in freed /\ h[1] = key[r.job]
      BY <2>3
    <3> HIDE DEF h, freed
    <3> QED
      BY <3>1
  <2> HIDE DEF again, freed, l
  <2>7. HeldKeys' = HeldKeys \ freed
    BY <2>3, <2>4
  <2>8. Keyed!Free(freed)
    BY <2>5, <2>6, <2>7 DEF Keyed!Free
  <2>9. Keyed!End(l)
    BY <1>1, <2>8 DEF Keyed!End, freed
  <2> QED
    BY <1>1, <2>9 DEF Keyed!Next
<1> QED
  BY <1>2, <1>3

LEMMA ReclaimRefines ==
    ASSUME IInv, ReclaimExpiredLeases
    PROVE  Keyed!Next
<1> DEFINE lost == {<<key[j], <<j, token[j]>>>> : j \in Expired}
           again == {key[j] : j \in {i \in Expired : Reclaimed(i) = "READY"}}
<1>1. /\ status' = [j \in Job |-> IF j \in Expired THEN Reclaimed(j) ELSE status[j]]
      /\ token' = [j \in Job |-> IF j \in Expired THEN 0 ELSE token[j]]
      /\ UNCHANGED <<key, runs>>
  BY DEF ReclaimExpiredLeases
<1>2. \A j \in Expired : j \in Job /\ status[j] = "LEASED"
  BY DEF Expired
<1>3. \A j \in Job : Reclaimed(j) \in {"DEAD", "READY"}
  BY DEF Reclaimed
<1>4. lost \in SUBSET HeldKeys
  BY <1>2 DEF HeldKeys
<1>5. \A j \in Job : status'[j] = "LEASED" <=> status[j] = "LEASED" /\ j \notin Expired
  BY <1>1, <1>3
<1>6. HeldKeys' = HeldKeys \ lost
  BY <1>1, <1>2, <1>5 DEF HeldKeys
<1>7. ReadyKeys' = ReadyKeys \cup again
  BY <1>1, <1>2, <1>3 DEF ReadyKeys
<1>8. again \in SUBSET {h[1] : h \in lost}
  <2> SUFFICES ASSUME NEW j \in Expired PROVE key[j] \in {h[1] : h \in lost}
    OBVIOUS
  <2> DEFINE h == <<key[j], <<j, token[j]>>>>
  <2>1. h \in lost /\ h[1] = key[j]
    OBVIOUS
  <2> HIDE DEF h, lost
  <2> QED
    BY <2>1
<1>9. UNCHANGED GoingLeases
  BY <1>1 DEF GoingLeases
<1> HIDE DEF lost, again
<1>10. Keyed!Free(lost)
  BY <1>6, <1>7, <1>8 DEF Keyed!Free
<1>11. Keyed!Reclaim
  BY <1>4, <1>9, <1>10 DEF Keyed!Reclaim
<1> QED
  BY <1>11 DEF Keyed!Next

LEMMA NextRefines ==
    ASSUME IInv, IInv', [Next]_vars
    PROVE  [Keyed!Next]_(Keyed!vars)
<1>1. ASSUME NEW k \in Key, Enqueue(k) PROVE Keyed!Next
  <2>1. PICK j \in Job :
            /\ status[j] = "NONE"
            /\ status' = [status EXCEPT ![j] = "READY"]
            /\ key' = [key EXCEPT ![j] = k]
    BY <1>1 DEF Enqueue
  <2>2. UNCHANGED <<token, runs>>
    BY <1>1 DEF Enqueue
  <2>3. UNCHANGED <<HeldKeys, GoingLeases>>
    BY <2>1, <2>2 DEF IInv, TypeOK, HeldKeys, GoingLeases
  <2> QED
    BY <2>3, CommandRefines
<1>2. ASSUME NEW j \in Job, BecomeDue(j) \/ LeaseLapses(j) PROVE Keyed!Next
  <2>1. UNCHANGED <<HeldKeys, GoingLeases>>
    BY <1>2 DEF BecomeDue, LeaseLapses, HeldKeys, GoingLeases
  <2> QED
    BY <2>1, CommandRefines
<1>3. ASSUME NEW r \in runs, RunStep(r) PROVE Keyed!Next
  <2>1. CASE Heartbeat(r)
    <3>1. UNCHANGED <<HeldKeys, GoingLeases>>
      BY <2>1 DEF Heartbeat, HeldKeys, GoingLeases
    <3> QED
      BY <3>1, CommandRefines
  <2>2. CASE CompleteJob(r)
    BY <2>2, SettleRefines DEF CompleteJob, Finished
  <2>3. CASE FailPermanent(r)
    BY <2>3, SettleRefines DEF FailPermanent, Finished
  <2>4. CASE FailRetryable(r)
    BY <2>4, SettleRefines DEF FailRetryable, Finished
  <2>5. CASE Abandon(r)
    <3>1. UNCHANGED <<ReadyKeys, HeldKeys>> /\ runs' = runs \ {r}
      BY <2>5 DEF Abandon, ReadyKeys, HeldKeys
    <3>2. Keyed!End(<<r.job, r.token>>) /\ <<r.job, r.token>> \in GoingLeases
      BY <3>1, RunLeaves DEF Keyed!End
    <3> QED
      BY <3>2 DEF Keyed!Next
  <2> QED
    BY <1>3, <2>1, <2>2, <2>3, <2>4, <2>5 DEF RunStep
<1>4. CASE CancelPendingTaskJobs
  <2>1. UNCHANGED <<HeldKeys, GoingLeases>>
    BY <1>4 DEF CancelPendingTaskJobs, HeldKeys, GoingLeases
  <2> QED
    BY <2>1, CommandRefines
<1>5. CASE UNCHANGED vars
  BY <1>5 DEF vars, Keyed!vars, ReadyKeys, HeldKeys, GoingLeases
<1> QED
  BY <1>1, <1>2, <1>3, <1>4, <1>5, LeaseRefines, ReclaimRefines DEF Next

LEMMA InitRefines == Init => Keyed!Init
<1> SUFFICES ASSUME Init PROVE Keyed!Init
  OBVIOUS
<1>1. ReadyKeys = {} /\ HeldKeys = {} /\ GoingLeases = {}
  BY DEF Init, ReadyKeys, HeldKeys, GoingLeases
<1> QED
  BY <1>1 DEF Keyed!Init

\* jobs.ts as its users see it: each key has one job, and a job is only settled by
\* the run that holds its lease, or taken back by the maintenance.
THEOREM RefinesKeyedQueue == Spec => ImplementsKeyedQueue
<1>1. IInv /\ IInv' /\ [Next]_vars => [Keyed!Next]_(Keyed!vars)
  BY NextRefines
<1> QED
  BY <1>1, Inductive, InitRefines, PTL DEF Spec, ImplementsKeyedQueue, Keyed!Spec
=============================================================================
