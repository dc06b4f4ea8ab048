--------------------------- MODULE DecisionsProofs ---------------------------
(***************************************************************************)
(* No approval outlives the policy it was given under, and one proposal of *)
(* the task is live, for any number of transactions and proposals.         *)
(*                                                                         *)
(* The argument is that of two-phase locking, for the two rows it needs.   *)
(* A decision that has read the policy shares the workspace's row, so no   *)
(* new policy is between its first lock and its commit (WorkspaceIsHeld);  *)
(* and of transactions past their lock of proposals no two have the same   *)
(* one (ProposalsAreHeld).  So what a transaction found when it got its    *)
(* lock still holds when it commits (HeldIsLive, DecidedIsCurrent), and    *)
(* nothing of what it should have found is missing (ApprovedIsFound,       *)
(* LiveIsFound).                                                           *)
(***************************************************************************)
EXTENDS Decisions, FiniteSetTheorems, WellFoundedInduction, TLAPS

PageShape ==
    /\ DOMAIN page = {"filter", "chosen", "waiting", "decided", "card", "pending", "shown",
                      "asked"}
    /\ page.waiting \in SUBSET Proposal

\* Types, without what a page shows.
Types ==
    /\ policy \in Policies
    /\ paused \in BOOLEAN /\ active \in BOOLEAN /\ retired \in BOOLEAN
    /\ proposal \in [Proposal -> Proposals] /\ call \in [Call -> Calls]
    /\ PageShape

\* How many locks a transaction has when it has that of its proposals.
Where(k) == CASE k = "DECIDE" -> 1 [] k = "EVALUATE" -> 3 [] OTHER -> 2

\* It has locked the proposals of its target.
Holds(c) == Running(c) /\ call[c].step >= Where(call[c].kind)

\* A transaction has as many locks as its plan at most, and has looked for its
\* proposals before it locks them; it asks for what its kind takes.
StepsOK ==
    \A c \in Call : Running(c) =>
      /\ call[c].step <= Len(Steps(c))
      /\ Holds(c) => call[c].scanned
      /\ call[c].kind = "DECIDE" => /\ call[c].scanned
                                    /\ call[c].arg \in {"APPROVE", "REJECT"}
                                    /\ \A p, q \in call[c].target : p = q
      /\ call[c].kind = "POLICY" => /\ call[c].arg \in Mode
                                    /\ call[c].scanned => call[c].step >= 1

WorkspaceIsHeld ==
    \A c, d \in Call :
      /\ call[c].kind = "POLICY" /\ call[c].step >= 1
      /\ call[d].kind = "DECIDE"
      => call[d].step < 2

ProposalsAreHeld ==
    \A c, d \in Call : c # d /\ Holds(c) /\ Holds(d) => call[c].target \cap call[d].target = {}

\* What is locked is live, and waits when it is about to be decided.
HeldIsLive ==
    \A c \in Call : Holds(c) => \A p \in call[c].target :
      /\ proposal[p].status \in LiveStatus
      /\ call[c].kind = "DECIDE" => proposal[p].status = "AWAITING_APPROVAL"

\* A decision past its second lock is about the policy that applies.
DecidedIsCurrent ==
    \A c \in Call : call[c].kind = "DECIDE" /\ call[c].step >= 2 =>
      /\ policy.mode # "OBSERVE_ONLY"
      /\ \A p \in call[c].target : proposal[p].version = policy.version

Approved(p) == proposal[p].status = "AUTHORIZED" /\ proposal[p].decision = "APPROVE"

\* A new policy that has looked for proposals has found every approval there is.
ApprovedIsFound ==
    \A c \in Call : call[c].kind = "POLICY" /\ call[c].scanned =>
      \A p \in Proposal : Approved(p) => p \in call[c].target

\* A check that has looked for the live proposal has found it, and is the only one.
LiveIsFound ==
    \A c \in Call : call[c].kind = "EVALUATE" =>
      /\ call[c].scanned => Live \subseteq call[c].target
      /\ \A d \in Call : call[d].kind = "EVALUATE" => d = c

OneLive == \A p, q \in Live : p = q

IInv ==
    /\ Types /\ StepsOK /\ WorkspaceIsHeld /\ ProposalsAreHeld /\ HeldIsLive
    /\ DecidedIsCurrent /\ ApprovedIsFound /\ LiveIsFound /\ OneLive /\ ApprovalIsCurrent
-----------------------------------------------------------------------------
(***************************************************************************)
(* The plans: where the locks of the two rows are.                         *)
(***************************************************************************)

LEMMA KindIs ==
    Kind = {"DECIDE", "POLICY", "PAUSE", "RETIRE_TASK", "RETIRE_REQUEST", "EVALUATE"}
BY DEF Kind, Plan

\* Of each plan: its length, the place of the proposals' lock and its mode.
LEMMA PlanFacts ==
    ASSUME NEW k \in Kind
    PROVE  /\ Len(Plan[k]) \in 2..4
           /\ Where(k) \in 1..3 /\ Where(k) \in 1..Len(Plan[k])
           /\ \A i \in 1..Len(Plan[k]) : Plan[k][i][1] = "PROPOSAL" <=> i = Where(k)
           /\ Plan[k][Where(k)][2] \in {"UPDATE", "NO KEY UPDATE"}
<1>1. CASE k = "DECIDE"
  <2>1. Len(Plan[k]) = 3 /\ Where(k) = 1 /\ Plan[k][1][1] = "PROPOSAL"
    BY <1>1 DEF Plan, Where
  <2>2. Plan[k][2][1] # "PROPOSAL" /\ Plan[k][3][1] # "PROPOSAL"
    BY <1>1 DEF Plan
  <2>3. Plan[k][1][2] \in {"UPDATE", "NO KEY UPDATE"}
    BY <1>1 DEF Plan
  <2>4. \A i \in 1..3 : i = 1 \/ i = 2 \/ i = 3
    OBVIOUS
  <2>5. \A i \in 1..Len(Plan[k]) : Plan[k][i][1] = "PROPOSAL" <=> i = Where(k)
    BY <2>1, <2>2, <2>4
  <2>6. Len(Plan[k]) \in 2..4 /\ Where(k) \in 1..3 /\ Where(k) \in 1..Len(Plan[k])
    BY <2>1
  <2>7. Plan[k][Where(k)][2] \in {"UPDATE", "NO KEY UPDATE"}
    BY <2>1, <2>3
  <2> QED
    BY <2>5, <2>6, <2>7
<1>2. CASE k = "POLICY"
  <2>1. Len(Plan[k]) = 3 /\ Where(k) = 2 /\ Plan[k][2][1] = "PROPOSAL"
    BY <1>2 DEF Plan, Where
  <2>2. Plan[k][1][1] # "PROPOSAL" /\ Plan[k][3][1] # "PROPOSAL"
    BY <1>2 DEF Plan
  <2>3. Plan[k][2][2] \in {"UPDATE", "NO KEY UPDATE"}
    BY <1>2 DEF Plan
  <2>4. \A i \in 1..3 : i = 1 \/ i = 2 \/ i = 3
    OBVIOUS
  <2>5. \A i \in 1..Len(Plan[k]) : Plan[k][i][1] = "PROPOSAL" <=> i = Where(k)
    BY <2>1, <2>2, <2>4
  <2>6. Len(Plan[k]) \in 2..4 /\ Where(k) \in 1..3 /\ Where(k) \in 1..Len(Plan[k])
    BY <2>1
  <2>7. Plan[k][Where(k)][2] \in {"UPDATE", "NO KEY UPDATE"}
    BY <2>1, <2>3
  <2> QED
    BY <2>5, <2>6, <2>7
<1>3. CASE k = "PAUSE"
  <2>1. Len(Plan[k]) = 2 /\ Where(k) = 2 /\ Plan[k][2][1] = "PROPOSAL"
    BY <1>3 DEF Plan, Where
  <2>2. Plan[k][1][1] # "PROPOSAL"
    BY <1>3 DEF Plan
  <2>3. Plan[k][2][2] \in {"UPDATE", "NO KEY UPDATE"}
    BY <1>3 DEF Plan
  <2>4. \A i \in 1..2 : i = 1 \/ i = 2
    OBVIOUS
  <2>5. \A i \in 1..Len(Plan[k]) : Plan[k][i][1] = "PROPOSAL" <=> i = Where(k)
    BY <2>1, <2>2, <2>4
  <2>6. Len(Plan[k]) \in 2..4 /\ Where(k) \in 1..3 /\ Where(k) \in 1..Len(Plan[k])
    BY <2>1
  <2>7. Plan[k][Where(k)][2] \in {"UPDATE", "NO KEY UPDATE"}
    BY <2>1, <2>3
  <2> QED
    BY <2>5, <2>6, <2>7
<1>4. CASE k = "RETIRE_TASK"
  <2>1. Len(Plan[k]) = 3 /\ Where(k) = 2 /\ Plan[k][2][1] = "PROPOSAL"
    BY <1>4 DEF Plan, Where
  <2>2. Plan[k][1][1] # "PROPOSAL" /\ Plan[k][3][1] # "PROPOSAL"
    BY <1>4 DEF Plan
  <2>3. Plan[k][2][2] \in {"UPDATE", "NO KEY UPDATE"}
    BY <1>4 DEF Plan
  <2>4. \A i \in 1..3 : i = 1 \/ i = 2 \/ i = 3
    OBVIOUS
  <2>5. \A i \in 1..Len(Plan[k]) : Plan[k][i][1] = "PROPOSAL" <=> i = Where(k)
    BY <2>1, <2>2, <2>4
  <2>6. Len(Plan[k]) \in 2..4 /\ Where(k) \in 1..3 /\ Where(k) \in 1..Len(Plan[k])
    BY <2>1
  <2>7. Plan[k][Where(k)][2] \in {"UPDATE", "NO KEY UPDATE"}
    BY <2>1, <2>3
  <2> QED
    BY <2>5, <2>6, <2>7
<1>5. CASE k = "RETIRE_REQUEST"
  <2>1. Len(Plan[k]) = 4 /\ Where(k) = 2 /\ Plan[k][2][1] = "PROPOSAL"
    BY <1>5 DEF Plan, Where
  <2>2. Plan[k][1][1] # "PROPOSAL" /\ Plan[k][3][1] # "PROPOSAL" /\ Plan[k][4][1] # "PROPOSAL"
    BY <1>5 DEF Plan
  <2>3. Plan[k][2][2] \in {"UPDATE", "NO KEY UPDATE"}
    BY <1>5 DEF Plan
  <2>4. \A i \in 1..4 : i = 1 \/ i = 2 \/ i = 3 \/ i = 4
    OBVIOUS
  <2>5. \A i \in 1..Len(Plan[k]) : Plan[k][i][1] = "PROPOSAL" <=> i = Where(k)
    BY <2>1, <2>2, <2>4
  <2>6. Len(Plan[k]) \in 2..4 /\ Where(k) \in 1..3 /\ Where(k) \in 1..Len(Plan[k])
    BY <2>1
  <2>7. Plan[k][Where(k)][2] \in {"UPDATE", "NO KEY UPDATE"}
    BY <2>1, <2>3
  <2> QED
    BY <2>5, <2>6, <2>7
<1>6. CASE k = "EVALUATE"
  <2>1. Len(Plan[k]) = 3 /\ Where(k) = 3 /\ Plan[k][3][1] = "PROPOSAL"
    BY <1>6 DEF Plan, Where
  <2>2. Plan[k][1][1] # "PROPOSAL" /\ Plan[k][2][1] # "PROPOSAL"
    BY <1>6 DEF Plan
  <2>3. Plan[k][3][2] \in {"UPDATE", "NO KEY UPDATE"}
    BY <1>6 DEF Plan
  <2>4. \A i \in 1..3 : i = 1 \/ i = 2 \/ i = 3
    OBVIOUS
  <2>5. \A i \in 1..Len(Plan[k]) : Plan[k][i][1] = "PROPOSAL" <=> i = Where(k)
    BY <2>1, <2>2, <2>4
  <2>6. Len(Plan[k]) \in 2..4 /\ Where(k) \in 1..3 /\ Where(k) \in 1..Len(Plan[k])
    BY <2>1
  <2>7. Plan[k][Where(k)][2] \in {"UPDATE", "NO KEY UPDATE"}
    BY <2>1, <2>3
  <2> QED
    BY <2>5, <2>6, <2>7
<1> QED
  BY <1>1, <1>2, <1>3, <1>4, <1>5, <1>6, KindIs

\* A new policy starts with the workspace, a decision has it second and ends later.
LEMMA WorkspaceSteps ==
    /\ Plan["POLICY"][1] = <<"WORKSPACE", "UPDATE">>
    /\ Plan["DECIDE"][2] = <<"WORKSPACE", "SHARE">>
    /\ Len(Plan["DECIDE"]) = 3 /\ Len(Plan["POLICY"]) = 3 /\ Len(Plan["EVALUATE"]) = 3
    /\ Where("DECIDE") = 1 /\ Where("POLICY") = 2 /\ Where("EVALUATE") = 3
BY DEF Plan, Where

\* Modes that exclude each other.
LEMMA Excluding ==
    /\ Exclude("UPDATE", "SHARE") /\ Exclude("SHARE", "UPDATE")
    /\ \A m, n \in {"UPDATE", "NO KEY UPDATE"} : Exclude(m, n)
BY DEF Exclude, Conflicts

LEMMA CallTypes ==
    ASSUME Types, NEW c \in Call
    PROVE  /\ call[c] \in Calls /\ call[c].step \in 0..4
           /\ call[c].target \in SUBSET Proposal /\ call[c].scanned \in BOOLEAN
BY DEF Types, Calls

\* A transaction that holds the proposals of its target blocks those that want one.
LEMMA ProposalLock ==
    ASSUME Types, NEW c \in Call, NEW d \in Call, c # d, ToLock(c), Blockers(c) = {},
           call[c].step + 1 = Where(call[c].kind), Holds(d)
    PROVE  call[c].target \cap call[d].target = {}
<1> SUFFICES ASSUME call[c].target \cap call[d].target # {} PROVE FALSE
  OBVIOUS
<1> DEFINE n == Where(call[c].kind)  m == Where(call[d].kind)
           want == Steps(c)[n]  held == Steps(d)[m]
<1>1. call[c].kind \in Kind /\ call[d].kind \in Kind
  BY DEF ToLock, Holds, Running
<1>2. n \in 1..3 /\ m \in 1..3
  BY <1>1, PlanFacts
<1>8. n \in 1..Len(Plan[call[c].kind]) /\ m \in 1..Len(Plan[call[d].kind])
  BY <1>1, PlanFacts
<1>9. want[1] = "PROPOSAL" /\ held[1] = "PROPOSAL"
  BY <1>1, <1>8, PlanFacts DEF Steps
<1>10. want[2] \in {"UPDATE", "NO KEY UPDATE"} /\ held[2] \in {"UPDATE", "NO KEY UPDATE"}
  BY <1>1, PlanFacts DEF Steps
<1>3. ~Void(c, n) /\ ~Void(d, m)
  BY DEF Void
<1>4. m \in 1..call[d].step
  <2>1. call[d].step \in 0..4 /\ call[d].step >= m
    BY CallTypes DEF Holds
  <2> QED
    BY <1>2, <2>1
<1>5. held \in Held(d)
  BY <1>3, <1>4 DEF Held, Holds
<1>6. Exclude(held[2], want[2])
  BY <1>10, Excluding
<1>7. d \in Blockers(c)
  BY <1>9, <1>3, <1>5, <1>6 DEF Blockers
<1> QED
  BY <1>7

\* A decision does not get the workspace while a new policy has it, nor the other
\* way round.
LEMMA WorkspaceLock ==
    ASSUME Types, NEW c \in Call, NEW d \in Call, ToLock(c), Blockers(c) = {}
    PROVE  /\ call[c].kind = "DECIDE" /\ call[c].step = 1 /\ call[d].kind = "POLICY"
                => call[d].step < 1
           /\ call[c].kind = "POLICY" /\ call[c].step = 0 /\ call[d].kind = "DECIDE"
                => call[d].step < 2
<1>1. ASSUME call[c].kind = "DECIDE", call[c].step = 1, call[d].kind = "POLICY",
             call[d].step >= 1
      PROVE  FALSE
  <2>1. /\ Steps(c)[2] = <<"WORKSPACE", "SHARE">> /\ Steps(d)[1] = <<"WORKSPACE", "UPDATE">>
        /\ d # c /\ Running(d)
    BY <1>1, WorkspaceSteps, KindIs DEF Steps, Running
  <2>2. ~Void(c, 2) /\ ~Void(d, 1)
    BY <1>1, <2>1 DEF Void
  <2>3. 1 \in 1..call[d].step
    BY <1>1 DEF Types, Calls
  <2>4. <<"WORKSPACE", "UPDATE">> \in Held(d)
    BY <2>1, <2>2, <2>3 DEF Held
  <2>5. /\ call[c].step + 1 = 2 /\ Steps(c)[call[c].step + 1] = <<"WORKSPACE", "SHARE">>
        /\ ~Void(c, call[c].step + 1)
    BY <1>1, <2>1, <2>2
  <2>6. \E lock \in Held(d) :
          /\ lock[1] = "WORKSPACE" /\ Exclude(lock[2], "SHARE")
    BY <2>4, Excluding
  <2>7. d \in Blockers(c)
    BY <2>1, <2>5, <2>6 DEF Blockers
  <2> QED
    BY <2>7
<1>2. ASSUME call[c].kind = "POLICY", call[c].step = 0, call[d].kind = "DECIDE",
             call[d].step >= 2
      PROVE  FALSE
  <2>1. /\ Steps(c)[1] = <<"WORKSPACE", "UPDATE">> /\ Steps(d)[2] = <<"WORKSPACE", "SHARE">>
        /\ d # c /\ Running(d)
    BY <1>2, WorkspaceSteps, KindIs DEF Steps, Running
  <2>2. ~Void(c, 1) /\ ~Void(d, 2)
    BY <1>2, <2>1 DEF Void
  <2>3. 2 \in 1..call[d].step
    BY <1>2 DEF Types, Calls
  <2>4. <<"WORKSPACE", "SHARE">> \in Held(d)
    BY <2>1, <2>2, <2>3 DEF Held
  <2>5. /\ call[c].step + 1 = 1 /\ Steps(c)[call[c].step + 1] = <<"WORKSPACE", "UPDATE">>
        /\ ~Void(c, call[c].step + 1)
    BY <1>2, <2>1, <2>2
  <2>6. \E lock \in Held(d) :
          /\ lock[1] = "WORKSPACE" /\ Exclude(lock[2], "UPDATE")
    BY <2>4, Excluding
  <2>7. d \in Blockers(c)
    BY <2>1, <2>5, <2>6 DEF Blockers
  <2> QED
    BY <2>7
<1>3. call[d].step \in 0..4
  BY DEF Types, Calls
<1> QED
  BY <1>1, <1>2, <1>3
-----------------------------------------------------------------------------
(***************************************************************************)
(* Steps that change no proposal: calls that start, look, lock or end.     *)
(***************************************************************************)

\* The transaction of c is over, the others are where they were.
Ended(c) ==
    /\ call' \in [Call -> Calls] /\ call'[c].kind \notin Kind
    /\ \A d \in Call \ {c} : call'[d] = call[d]

LEMMA IdleTypes == Idle \in Calls /\ Idle.kind = "NONE" /\ "NONE" \notin Kind
                   /\ "ANSWER" \notin Kind
BY KindIs DEF Idle, Calls, NoContext

LEMMA EndTypes ==
    ASSUME Types, NEW c \in Call, NEW answer \in {"OK", "REFUSED", "ERROR"}, End(c, answer)
    PROVE  Ended(c)
<1> DEFINE said == [Idle EXCEPT !.kind = "ANSWER", !.target = call[c].target, !.arg = answer]
<1>1. call[c].target \in SUBSET Proposal
  BY CallTypes
<1>2. said \in Calls /\ said.kind = "ANSWER"
  <2>1. answer \in Arguments \cup {"NONE", "OK", "REFUSED", "ERROR"}
    OBVIOUS
  <2> QED
    BY <1>1, <2>1, IdleTypes DEF Calls
<1>3. call' = [call EXCEPT ![c] = IF c \in page.asked THEN said ELSE Idle]
  BY DEF End
<1> HIDE DEF said
<1>4. call' \in [Call -> Calls]
  BY <1>2, <1>3, IdleTypes DEF Types
<1>5. call'[c].kind \in {"NONE", "ANSWER"}
  BY <1>2, <1>3, IdleTypes DEF Types
<1>6. \A d \in Call \ {c} : call'[d] = call[d]
  BY <1>3 DEF Types
<1> QED
  BY <1>4, <1>5, <1>6, IdleTypes DEF Ended

\* What the calls at work and the proposals say of each other stays true when calls
\* only end and proposals only come due.
LEMMA Kept ==
    ASSUME IInv, Types', policy' = policy,
           \A p \in Proposal : /\ proposal'[p].status = proposal[p].status
                               /\ proposal'[p].version = proposal[p].version
                               /\ proposal'[p].decision = proposal[p].decision,
           \A d \in Call : call'[d] = call[d] \/ call'[d].kind \notin Kind
    PROVE  IInv'
<1> USE DEF Holds, Running, Steps
<1>1. StepsOK'
  BY DEF IInv, StepsOK
<1>2. WorkspaceIsHeld' /\ LiveIsFound' /\ OneLive'
  BY KindIs DEF IInv, WorkspaceIsHeld, LiveIsFound, Live, OneLive
<1>3. ProposalsAreHeld'
  BY DEF IInv, ProposalsAreHeld
<1>4. \A d \in Call : call[d].target \in SUBSET Proposal
  BY CallTypes DEF IInv
<1>5. HeldIsLive' /\ DecidedIsCurrent' /\ ApprovedIsFound'
  BY <1>4, KindIs DEF IInv, HeldIsLive, DecidedIsCurrent, ApprovedIsFound, Approved
<1>6. ApprovalIsCurrent'
  BY DEF IInv, ApprovalIsCurrent
<1> QED
  BY <1>1, <1>2, <1>3, <1>5, <1>6 DEF IInv

\* A transaction that starts has no locks.
LEMMA StartKeeps ==
    ASSUME IInv, Types', policy' = policy, proposal' = proposal, NEW c \in Call,
           \A d \in Call \ {c} : call'[d] = call[d],
           call'[c].kind \in Kind, call'[c].step = 0,
           call'[c].kind = "POLICY" => ~call'[c].scanned /\ call'[c].arg \in Mode,
           call'[c].kind = "DECIDE" => /\ call'[c].scanned
                                       /\ call'[c].arg \in {"APPROVE", "REJECT"}
                                       /\ \A p, q \in call'[c].target : p = q,
           call'[c].kind = "EVALUATE" => /\ ~call'[c].scanned
                                         /\ \A d \in Call \ {c} : call[d].kind # "EVALUATE"
    PROVE  IInv'
<1> USE DEF Holds, Running, Steps
<1>1. /\ Where(call'[c].kind) >= 1 /\ Where(call'[c].kind) \in Nat
      /\ Len(Plan[call'[c].kind]) >= 0
  <2> DEFINE k == call'[c].kind
  <2>1. k \in Kind
    OBVIOUS
  <2> HIDE DEF k
  <2>2. Len(Plan[k]) \in 2..4 /\ Where(k) \in 1..3
    BY <2>1, PlanFacts
  <2>3. Where(k) >= 1 /\ Where(k) \in Nat /\ Len(Plan[k]) >= 0
    BY <2>2
  <2> QED
    BY <2>3 DEF k
<1>2. ~Holds(c)'
  BY <1>1
<1>3. StepsOK'
  BY <1>1, <1>2 DEF IInv, StepsOK
<1>4. WorkspaceIsHeld'
  BY DEF IInv, WorkspaceIsHeld
<1>5. ProposalsAreHeld' /\ HeldIsLive'
  BY <1>2 DEF IInv, ProposalsAreHeld, HeldIsLive
<1>6. DecidedIsCurrent' /\ ApprovedIsFound'
  BY DEF IInv, DecidedIsCurrent, ApprovedIsFound, Approved
<1>7. LiveIsFound'
  BY DEF IInv, LiveIsFound, Live
<1>8. OneLive' /\ ApprovalIsCurrent'
  BY DEF IInv, OneLive, Live, ApprovalIsCurrent
<1> QED
  BY <1>3, <1>4, <1>5, <1>6, <1>7, <1>8 DEF IInv

\* A transaction looks for its proposals.
LEMMA ScanKeeps ==
    ASSUME IInv, NEW c \in Call, Scan(c)
    PROVE  IInv'
<1>1. /\ Running(c) /\ ~Complete(c) /\ ~call[c].scanned
      /\ Steps(c)[call[c].step + 1][1] = "PROPOSAL"
      /\ call' = [call EXCEPT ![c].scanned = TRUE, ![c].target = Affected(c)]
      /\ UNCHANGED <<policy, paused, active, retired, proposal, page>>
  BY DEF Scan, ToScan, authority
<1>2. /\ call \in [Call -> Calls] /\ call[c] \in Calls /\ call[c].step \in 0..4
      /\ call[c].kind \in Kind /\ Affected(c) \in SUBSET Proposal
  BY <1>1, CallTypes DEF IInv, Types, Running, Affected
<1>3. /\ call'[c].kind = call[c].kind /\ call'[c].step = call[c].step
      /\ call'[c].arg = call[c].arg /\ call'[c].scanned
      /\ call'[c].target = Affected(c)
      /\ \A d \in Call \ {c} : call'[d] = call[d]
      /\ call' \in [Call -> Calls]
  BY <1>1, <1>2 DEF Calls
<1>4. call[c].step + 1 = Where(call[c].kind)
  <2>1. call[c].step <= Len(Plan[call[c].kind]) /\ call[c].step # Len(Plan[call[c].kind])
    BY <1>1 DEF IInv, StepsOK, Complete, Steps
  <2>2. \A k \in Kind : Len(Plan[k]) \in 2..4
    BY PlanFacts
  <2>3. call[c].step + 1 \in 1..Len(Plan[call[c].kind])
    BY <1>2, <2>1, <2>2
  <2>4. Plan[call[c].kind][call[c].step + 1][1] = "PROPOSAL"
    BY <1>1 DEF Steps
  <2> QED
    BY <1>2, <2>3, <2>4, PlanFacts
<1>5. ~Holds(c)' /\ ~Holds(c) /\ call[c].kind # "DECIDE"
  <2>1. call[c].step < Where(call[c].kind)
    BY <1>2, <1>4
  <2>2. Where(call[c].kind) \in Nat
    BY <1>2, <1>4
  <2>3. ~(call[c].step >= Where(call[c].kind))
    BY <1>2, <2>1, <2>2
  <2>4. call[c].kind # "DECIDE"
    BY <1>1 DEF IInv, StepsOK
  <2> QED
    BY <1>3, <2>3, <2>4 DEF Holds
<1>6. Types'
  BY <1>1, <1>3 DEF IInv, Types, PageShape
<1>7. StepsOK'
  <2>1. call[c].kind = "POLICY" => call[c].step >= 1 /\ call[c].arg \in Mode
    BY <1>1, <1>2, <1>4, WorkspaceSteps DEF IInv, StepsOK
  <2>2. call[c].step <= Len(Steps(c))
    BY <1>1 DEF IInv, StepsOK
  <2> QED
    BY <1>3, <1>5, <2>1, <2>2 DEF IInv, StepsOK, Holds, Running, Steps
<1>8. WorkspaceIsHeld'
  BY <1>3 DEF IInv, WorkspaceIsHeld
<1>9. ProposalsAreHeld' /\ HeldIsLive'
  BY <1>1, <1>3, <1>5 DEF IInv, ProposalsAreHeld, HeldIsLive, Holds, Running
<1>10. DecidedIsCurrent'
  BY <1>1, <1>3, <1>5 DEF IInv, DecidedIsCurrent
<1>11. ApprovedIsFound'
  BY <1>1, <1>3 DEF IInv, ApprovedIsFound, Approved, Affected, LiveStatus
<1>12. LiveIsFound'
  BY <1>1, <1>3 DEF IInv, LiveIsFound, Live, Affected
<1>13. OneLive' /\ ApprovalIsCurrent'
  BY <1>1 DEF IInv, OneLive, Live, ApprovalIsCurrent
<1> QED
  BY <1>6, <1>7, <1>8, <1>9, <1>10, <1>11, <1>12, <1>13 DEF IInv

\* A transaction gets a lock, or ends for what it finds then.
LEMMA LockKeeps ==
    ASSUME IInv, NEW c \in Call, Lock(c)
    PROVE  IInv'
<1> DEFINE n == call[c].step + 1  k == call[c].kind
<1>1. /\ ToLock(c) /\ Blockers(c) = {} /\ Running(c) /\ ~Complete(c) /\ ~ToScan(c)
      /\ UNCHANGED <<policy, paused, active, retired, proposal, page>>
  BY DEF Lock, ToLock, authority
<1>2. ASSUME NEW answer \in {"OK", "REFUSED"}, End(c, answer)
      PROVE  IInv'
  <2>1. Ended(c)
    BY <1>2, EndTypes DEF IInv
  <2>2. Types'
    BY <1>1, <2>1 DEF IInv, Types, Ended, PageShape
  <2> QED
    BY <1>1, <2>1, <2>2, Kept DEF Ended
<1>3. ASSUME ~(k = "DECIDE" /\ DecisionRefused(c, n)),
             call' = [call EXCEPT ![c].step = n, ![c].target =
                        IF Steps(c)[n][1] = "PROPOSAL" THEN @ \cap Affected(c) ELSE @]
      PROVE  IInv'
  <2>1. /\ call \in [Call -> Calls] /\ call[c] \in Calls /\ call[c].step \in 0..4
        /\ k \in Kind /\ call[c].target \in SUBSET Proposal
    BY <1>1, CallTypes DEF IInv, Types, Running
  <2>2. /\ call'[c] = [call[c] EXCEPT !.step = n, !.target =
             IF Steps(c)[n][1] = "PROPOSAL" THEN call[c].target \cap Affected(c)
             ELSE call[c].target]
        /\ \A d \in Call \ {c} : call'[d] = call[d]
    BY <1>3, <2>1
  <2>3. Len(Plan[k]) \in 2..4 /\ Where(k) \in 1..3 /\ n \in 1..Len(Plan[k])
        /\ n \in 1..4
    <3>1. Len(Plan[k]) \in 2..4 /\ Where(k) \in 1..3
      BY <2>1, PlanFacts
    <3>2. call[c].step <= Len(Plan[k]) /\ call[c].step # Len(Plan[k])
      BY <1>1 DEF IInv, StepsOK, Complete, Steps
    <3>3. n \in 1..Len(Plan[k])
      BY <2>1, <3>1, <3>2
    <3>4. \A l \in 2..4 : \A i \in 1..l : i \in 1..4
      OBVIOUS
    <3>5. n \in 1..4
      BY <3>1, <3>3, <3>4
    <3> QED
      BY <3>1, <3>3, <3>5
  <2>4. Steps(c)[n][1] = "PROPOSAL" <=> n = Where(k)
    BY <2>1, <2>3, PlanFacts DEF Steps
  <2>5. /\ call'[c].kind = k /\ call'[c].step = n /\ call'[c].arg = call[c].arg
        /\ call'[c].scanned = call[c].scanned
        /\ call'[c].target = IF n = Where(k) THEN call[c].target \cap Affected(c)
                             ELSE call[c].target
    BY <2>1, <2>2, <2>4 DEF Calls
  <2>6. call'[c] \in Calls
    <3>1. n \in 0..4
      BY <2>3
    <3>2. (IF Steps(c)[n][1] = "PROPOSAL" THEN call[c].target \cap Affected(c)
           ELSE call[c].target) \in SUBSET Proposal
      BY <2>1
    <3> HIDE DEF n
    <3> QED
      BY <2>1, <2>2, <3>1, <3>2 DEF Calls
  <2>7. Types'
    <3>1. call' \in [Call -> Calls]
      BY <1>3, <2>1, <2>2, <2>6
    <3> QED
      BY <1>1, <3>1 DEF IInv, Types, PageShape
  <2>8. /\ Holds(c) <=> call[c].step >= Where(k)
        /\ Holds(c)' <=> n >= Where(k)
        /\ \A d \in Call \ {c} : Holds(d)' <=> Holds(d)
    BY <1>1, <2>2, <2>5 DEF Holds, Running
  <2>9. Holds(c)' => (Holds(c) /\ n # Where(k)) \/ (n = Where(k) /\ ~Holds(c))
    <3>1. n = call[c].step + 1
      OBVIOUS
    <3> HIDE DEF n, k
    <3> QED
      BY <2>1, <2>3, <2>8, <3>1
  <2>10. n = Where(k) => call[c].scanned
    BY <1>1, <2>4 DEF ToScan
  <2>11. call'[c].target \subseteq call[c].target
    BY <2>5
  <2>12. Live = {p \in Proposal : proposal[p].status \in LiveStatus}
         /\ (k # "PAUSE" => Affected(c) = Live) /\ Affected(c) \subseteq Live
    BY DEF Live, Affected, LiveStatus
  <2> HIDE DEF n, k
  <2>13. StepsOK'
    <3>1. call'[c].step <= Len(Plan[k])
      BY <2>3, <2>5
    <3>2. Holds(c)' => call'[c].scanned
      BY <1>1, <2>5, <2>9, <2>10 DEF IInv, StepsOK
    <3>3. k = "DECIDE" => /\ call'[c].scanned /\ call'[c].arg \in {"APPROVE", "REJECT"}
                          /\ \A p, q \in call'[c].target : p = q
      BY <1>1, <2>5, <2>11 DEF IInv, StepsOK, k
    <3>4. k = "POLICY" => call'[c].arg \in Mode /\ call'[c].step >= 1
      BY <1>1, <2>3, <2>5 DEF IInv, StepsOK, k
    <3>5. \A d \in Call \ {c} : Running(d)' => Running(d) /\ Steps(d)' = Steps(d)
      BY <2>2 DEF Running, Steps
    <3>6. Steps(c)' = Plan[k]
      BY <2>5 DEF Steps
    <3> SUFFICES ASSUME NEW d \in Call, Running(d)'
                 PROVE  /\ call'[d].step <= Len(Steps(d)')
                        /\ Holds(d)' => call'[d].scanned
                        /\ call'[d].kind = "DECIDE" =>
                             /\ call'[d].scanned
                             /\ call'[d].arg \in {"APPROVE", "REJECT"}
                             /\ \A p, q \in call'[d].target : p = q
                        /\ call'[d].kind = "POLICY" =>
                             /\ call'[d].arg \in Mode
                             /\ call'[d].scanned => call'[d].step >= 1
      BY DEF StepsOK
    <3>7. CASE d = c
      BY <2>5, <3>1, <3>2, <3>3, <3>4, <3>6, <3>7
    <3>8. CASE d # c
      BY <2>2, <2>8, <3>5, <3>8 DEF IInv, StepsOK
    <3> QED
      BY <3>7, <3>8
  <2>14. WorkspaceIsHeld'
    <3>1. ASSUME NEW d \in Call, k = "POLICY", call[d].kind = "DECIDE"
          PROVE  call[d].step < 2
      <4>1. CASE call[c].step = 0
        BY <1>1, <3>1, <4>1, WorkspaceLock DEF IInv, k
      <4>2. CASE call[c].step # 0
        BY <2>1, <3>1, <4>2 DEF IInv, WorkspaceIsHeld, k
      <4> QED
        BY <4>1, <4>2
    <3>2. ASSUME NEW d \in Call, call[d].kind = "POLICY", call[d].step >= 1, k = "DECIDE"
          PROVE  n < 2
      <4>1. call[c].step < 2
        BY <3>2 DEF IInv, WorkspaceIsHeld, k
      <4>2. call[c].step # 1
        <5>1. call[d].step \in 0..4
          BY CallTypes DEF IInv
        <5> QED
          BY <1>1, <3>2, <5>1, WorkspaceLock DEF IInv, k
      <4> QED
        BY <2>1, <4>1, <4>2 DEF n
    <3> SUFFICES ASSUME NEW x \in Call, NEW y \in Call, call'[x].kind = "POLICY",
                        call'[x].step >= 1, call'[y].kind = "DECIDE"
                 PROVE  call'[y].step < 2
      BY DEF WorkspaceIsHeld
    <3>3. CASE x = c
      BY <2>2, <2>5, <3>1, <3>3
    <3>4. CASE y = c
      BY <2>2, <2>5, <3>2, <3>4
    <3>5. CASE x # c /\ y # c
      BY <2>2, <3>5 DEF IInv, WorkspaceIsHeld
    <3> QED
      BY <3>3, <3>4, <3>5
  <2>15. ProposalsAreHeld'
    <3>1. ASSUME NEW d \in Call \ {c}, Holds(c)', Holds(d)
          PROVE  call'[c].target \cap call[d].target = {}
      <4>1. CASE Holds(c)
        BY <2>11, <3>1, <4>1 DEF IInv, ProposalsAreHeld
      <4>2. CASE n = Where(k)
        <5>1. call[c].target \cap call[d].target = {}
          BY <1>1, <3>1, <4>2, ProposalLock DEF IInv, n, k
        <5> QED
          BY <2>11, <5>1
      <4> QED
        BY <2>9, <3>1, <4>1, <4>2
    <3> QED
      BY <2>2, <2>8, <3>1 DEF IInv, ProposalsAreHeld
  <2>16. HeldIsLive'
    <3>1. ASSUME NEW p \in call'[c].target, Holds(c)'
          PROVE  /\ proposal[p].status \in LiveStatus
                 /\ k = "DECIDE" => proposal[p].status = "AWAITING_APPROVAL"
      <4>1. CASE Holds(c)
        BY <2>11, <3>1, <4>1 DEF IInv, HeldIsLive, k
      <4>2. CASE n = Where(k)
        <5>1. p \in call[c].target /\ proposal[p].status \in LiveStatus
          BY <2>5, <2>12, <3>1, <4>2
        <5>2. ASSUME k = "DECIDE" PROVE proposal[p].status = "AWAITING_APPROVAL"
          <6>1. n = 1
            BY <4>2, <5>2, WorkspaceSteps
          <6>2. call[c].target \cap Waiting # {}
            BY <1>3, <5>2, <6>1 DEF DecisionRefused
          <6>3. \A q \in call[c].target : q = p
            BY <1>1, <5>1, <5>2 DEF IInv, StepsOK, k
          <6> QED
            BY <6>2, <6>3 DEF Waiting
        <5> QED
          BY <5>1, <5>2
      <4> QED
        BY <2>9, <3>1, <4>1, <4>2
    <3> SUFFICES ASSUME NEW d \in Call, Holds(d)', NEW p \in call'[d].target
                 PROVE  /\ proposal[p].status \in LiveStatus
                        /\ call'[d].kind = "DECIDE" => proposal[p].status = "AWAITING_APPROVAL"
      BY <1>1 DEF HeldIsLive
    <3>2. CASE d = c
      BY <2>5, <3>1, <3>2
    <3>3. CASE d # c
      BY <2>2, <2>8, <3>3 DEF IInv, HeldIsLive
    <3> QED
      BY <3>2, <3>3
  <2>17. DecidedIsCurrent'
    <3>1. ASSUME k = "DECIDE", n >= 2
          PROVE  /\ policy.mode # "OBSERVE_ONLY"
                 /\ \A p \in call[c].target : proposal[p].version = policy.version
      <4>1. CASE call[c].step >= 2
        BY <3>1, <4>1 DEF IInv, DecidedIsCurrent, k
      <4>2. CASE n = 2
        BY <1>3, <3>1, <4>2 DEF DecisionRefused
      <4> QED
        BY <2>1, <3>1, <4>1, <4>2 DEF n
    <3> QED
      BY <1>1, <2>2, <2>5, <2>11, <3>1 DEF IInv, DecidedIsCurrent
  <2>18. ApprovedIsFound'
    <3>1. ASSUME k = "POLICY", call[c].scanned, NEW p \in Proposal, Approved(p)
          PROVE  p \in call'[c].target
      <4>1. p \in call[c].target
        BY <3>1 DEF IInv, ApprovedIsFound, k
      <4>2. p \in Live /\ Affected(c) = Live
        BY <2>12, <3>1 DEF Approved, LiveStatus
      <4> QED
        BY <2>5, <4>1, <4>2
    <3> QED
      BY <1>1, <2>2, <2>5, <3>1, ZenonT(40) DEF IInv, ApprovedIsFound, Approved
  <2>19. LiveIsFound'
    <3>1. ASSUME k = "EVALUATE", call[c].scanned
          PROVE  Live \subseteq call'[c].target
      <4>1. Live \subseteq call[c].target
        BY <3>1 DEF IInv, LiveIsFound, k
      <4>2. Affected(c) = Live
        BY <2>12, <3>1
      <4> QED
        BY <2>5, <4>1, <4>2
    <3>2. Live' = Live
      BY <1>1 DEF Live
    <3>3. \A d \in Call : call'[d].kind = call[d].kind /\ call'[d].scanned = call[d].scanned
      BY <2>2, <2>5 DEF k
    <3>4. ASSUME NEW d \in Call, call[d].kind = "EVALUATE", call[d].scanned
          PROVE  Live \subseteq call'[d].target
      <4>1. CASE d = c
        BY <3>1, <3>4, <4>1 DEF k
      <4>2. CASE d # c
        BY <2>2, <3>4, <4>2 DEF IInv, LiveIsFound
      <4> QED
        BY <4>1, <4>2
    <3> QED
      BY <3>2, <3>3, <3>4 DEF IInv, LiveIsFound
  <2>20. OneLive' /\ ApprovalIsCurrent'
    BY <1>1 DEF IInv, OneLive, Live, ApprovalIsCurrent
  <2> QED
    BY <2>7, <2>13, <2>14, <2>15, <2>16, <2>17, <2>18, <2>19, <2>20 DEF IInv
<1> QED
  BY <1>2, <1>3 DEF Lock
-----------------------------------------------------------------------------
(***************************************************************************)
(* The commits.                                                            *)
(***************************************************************************)

\* What the others rely on when c commits: it writes the proposals it holds, or one
\* that did not exist.
LEMMA CommitKeeps ==
    ASSUME IInv, NEW c \in Call, Complete(c), Ended(c),
           \A p \in Proposal : \/ proposal'[p] = proposal[p] \/ p \in call[c].target
                               \/ proposal[p].status = "NONE",
           policy' = policy \/ call[c].kind = "POLICY",
           \A p \in Proposal : Approved(p)' => Approved(p) \/ call[c].kind = "DECIDE",
           Live' \subseteq Live \/ call[c].kind = "EVALUATE"
    PROVE  /\ StepsOK' /\ WorkspaceIsHeld' /\ ProposalsAreHeld' /\ HeldIsLive'
           /\ DecidedIsCurrent' /\ ApprovedIsFound' /\ LiveIsFound'
           /\ Holds(c) /\ call[c].scanned
<1>1. Running(c) /\ call[c].kind \in Kind /\ call[c].step = Len(Plan[call[c].kind])
  BY DEF Complete, Running, Steps
<1>2. Holds(c) /\ call[c].scanned
  <2>1. Len(Plan[call[c].kind]) \in 2..4 /\ Where(call[c].kind) \in 1..Len(Plan[call[c].kind])
    BY <1>1, PlanFacts
  <2>2. call[c].step >= Where(call[c].kind)
    BY <1>1, <2>1
  <2> QED
    BY <1>1, <2>2 DEF IInv, StepsOK, Holds
<1>3. /\ call[c].kind = "POLICY" => call[c].step = 3
      /\ call[c].kind = "DECIDE" => call[c].step = 3
  BY <1>1, WorkspaceSteps
<1>4. \A d \in Call \ {c} : call'[d] = call[d] /\ (Holds(d)' <=> Holds(d))
  BY DEF Ended, Holds, Running
<1>5. call'[c].kind \notin Kind /\ ~Holds(c)' /\ ~Running(c)'
  BY DEF Ended, Holds, Running
<1>6. /\ "POLICY" \in Kind /\ "DECIDE" \in Kind /\ "EVALUATE" \in Kind
      /\ \A d \in Call : call[d].target \in SUBSET Proposal /\ call[d].step \in 0..4
  BY KindIs, CallTypes DEF IInv
<1>7. ASSUME NEW d \in Call \ {c}, Holds(d), NEW p \in call[d].target
      PROVE  proposal'[p] = proposal[p]
  <2>1. p \in Proposal /\ p \notin call[c].target
    BY <1>2, <1>6, <1>7 DEF IInv, ProposalsAreHeld
  <2>2. proposal[p].status # "NONE"
    BY <1>7 DEF IInv, HeldIsLive, LiveStatus
  <2> QED
    BY <2>1, <2>2
<1>8. StepsOK'
  BY <1>4, <1>5 DEF IInv, StepsOK, Running, Steps
<1>9. WorkspaceIsHeld' /\ ProposalsAreHeld'
  BY <1>4, <1>5, <1>6 DEF IInv, WorkspaceIsHeld, ProposalsAreHeld
<1>10. HeldIsLive'
  BY <1>4, <1>5, <1>7 DEF IInv, HeldIsLive
<1>11. DecidedIsCurrent'
  <2>1. ASSUME NEW d \in Call \ {c}, call[d].kind = "DECIDE", call[d].step >= 2
        PROVE  policy' = policy /\ Holds(d)
    <3>1. call[c].kind # "POLICY"
      BY <1>3, <1>6, <2>1 DEF IInv, WorkspaceIsHeld
    <3>2. Running(d) /\ call[d].step >= 1
      BY <1>6, <2>1 DEF Running
    <3> QED
      BY <2>1, <3>1, <3>2, WorkspaceSteps DEF Holds
  <2> QED
    BY <1>4, <1>5, <1>6, <1>7, <2>1 DEF IInv, DecidedIsCurrent
<1>12. ApprovedIsFound'
  <2>1. ASSUME NEW d \in Call \ {c}, call[d].kind = "POLICY", call[d].scanned
        PROVE  call[c].kind # "DECIDE"
    <3>1. call[d].step >= 1
      BY <1>6, <2>1 DEF IInv, StepsOK, Running
    <3> QED
      BY <1>3, <2>1, <3>1 DEF IInv, WorkspaceIsHeld
  <2> QED
    BY <1>4, <1>5, <1>6, <2>1 DEF IInv, ApprovedIsFound
<1>13. LiveIsFound'
  <2>1. ASSUME NEW d \in Call \ {c}, call[d].kind = "EVALUATE"
        PROVE  Live' \subseteq Live
    BY <2>1 DEF IInv, LiveIsFound
  <2> QED
    BY <1>4, <1>5, <1>6, <2>1 DEF IInv, LiveIsFound
<1> QED
  BY <1>2, <1>8, <1>9, <1>10, <1>11, <1>12, <1>13

LEMMA ProposalTypes ==
    ASSUME Types, NEW p \in Proposal
    PROVE  /\ proposal[p] \in Proposals
           /\ DOMAIN proposal[p] = {"status", "version", "decision", "due"}
           /\ proposal[p].version \in Nat /\ proposal[p].due \in BOOLEAN
           /\ proposal[p].decision \in {"NONE", "APPROVE", "REJECT", "AUTO_POLICY"}
<1>1. proposal[p] \in Proposals
  BY DEF Types
<1>2. CASE proposal[p] = NoProposal
  BY <1>1, <1>2 DEF NoProposal
<1>3. CASE proposal[p] # NoProposal
  BY <1>1, <1>3 DEF Proposals, Version
<1> QED
  BY <1>2, <1>3

\* An update of one row with a status and a decision that exist.
LEMMA RowTypes ==
    ASSUME Types, NEW p \in Proposal, proposal[p].status # "NONE",
           NEW status \in {"AWAITING_APPROVAL", "AUTHORIZED", "REJECTED", "EXPIRED",
                           "SUPERSEDED", "BLOCKED"},
           NEW decision \in {"NONE", "APPROVE", "REJECT", "AUTO_POLICY"}
    PROVE  /\ [proposal[p] EXCEPT !.status = status, !.decision = decision] \in Proposals
           /\ [proposal[p] EXCEPT !.status = status] \in Proposals
           /\ [proposal[p] EXCEPT !.due = TRUE] \in Proposals
<1>1. proposal[p] \in Proposals \ {NoProposal}
  BY ProposalTypes DEF NoProposal
<1> QED
  BY <1>1 DEF Proposals

\* What a transaction commits about is live.
LEMMA CommitIsLive ==
    ASSUME IInv, NEW c \in Call, Complete(c)
    PROVE  \A p \in call[c].target : proposal[p].status \in LiveStatus
<1>1. Holds(c)
  <2>1. call[c].kind \in Kind /\ call[c].step = Len(Plan[call[c].kind])
    BY DEF Complete, Running, Steps
  <2>2. Where(call[c].kind) \in 1..Len(Plan[call[c].kind])
        /\ Len(Plan[call[c].kind]) \in 2..4
    BY <2>1, PlanFacts
  <2>3. call[c].step >= Where(call[c].kind)
    BY <2>1, <2>2
  <2> QED
    BY <2>1, <2>3 DEF Holds, Running
<1> QED
  BY <1>1 DEF IInv, HeldIsLive

LEMMA SupersededTypes ==
    ASSUME Types, NEW S \in SUBSET Proposal, \A p \in S : proposal[p].status # "NONE"
    PROVE  /\ Superseded(S) \in [Proposal -> Proposals]
           /\ \A p \in Proposal \ S : Superseded(S)[p] = proposal[p]
           /\ \A p \in S : Superseded(S)[p].status = "SUPERSEDED"
<1>1. \A p \in S : [proposal[p] EXCEPT !.status = "SUPERSEDED"] \in Proposals
  BY RowTypes
<1>2. \A p \in Proposal : [proposal[p] EXCEPT !.status = "SUPERSEDED"].status = "SUPERSEDED"
  BY ProposalTypes
<1>3. \A p \in Proposal : proposal[p] \in Proposals
  BY DEF Types
<1> QED
  BY <1>1, <1>2, <1>3 DEF Superseded

\* A commit that ends the proposals of c: any but that of a new policy needs no more.
LEMMA SupersedeKeeps ==
    ASSUME IInv, NEW c \in Call, Complete(c), Ended(c), call[c].kind # "POLICY",
           proposal' = Superseded(call[c].target), policy' = policy, page' = page,
           paused' \in BOOLEAN, active' \in BOOLEAN, retired' \in BOOLEAN
    PROVE  IInv'
<1>1. call[c].target \in SUBSET Proposal
  BY CallTypes DEF IInv
<1>2. /\ proposal' \in [Proposal -> Proposals]
      /\ \A p \in Proposal : \/ p \notin call[c].target /\ proposal'[p] = proposal[p]
                             \/ p \in call[c].target /\ proposal'[p].status = "SUPERSEDED"
  BY <1>1, CommitIsLive, SupersededTypes DEF IInv, LiveStatus
<1>3. Live' \subseteq Live /\ \A p \in Proposal : Approved(p)' => Approved(p)
  BY <1>2 DEF Live, LiveStatus, Approved
<1>4. /\ StepsOK' /\ WorkspaceIsHeld' /\ ProposalsAreHeld' /\ HeldIsLive'
      /\ DecidedIsCurrent' /\ ApprovedIsFound' /\ LiveIsFound'
  BY <1>2, <1>3, CommitKeeps
<1>5. Types'
  BY <1>2 DEF IInv, Types, Ended, PageShape
<1>6. OneLive'
  BY <1>3 DEF IInv, OneLive
<1>7. ApprovalIsCurrent'
  BY <1>2 DEF IInv, ApprovalIsCurrent
<1> QED
  BY <1>4, <1>5, <1>6, <1>7 DEF IInv

LEMMA CommitEnds ==
    ASSUME IInv, NEW c \in Call, NEW k, Commit(c, k)
    PROVE  Complete(c) /\ call[c].kind = k /\ Ended(c) /\ page' = page
BY EndTypes DEF Commit, IInv

\* Its approvals are under the policy that its decision has read.
LEMMA DecideKeeps ==
    ASSUME IInv, NEW c \in Call, DecideApproval(c)
    PROVE  IInv'
<1>1. /\ Complete(c) /\ call[c].kind = "DECIDE" /\ Ended(c)
      /\ UNCHANGED <<policy, paused, active, retired, page>>
  BY CommitEnds DEF DecideApproval, authority
<1>2. call[c].target \in SUBSET Proposal
  BY CallTypes DEF IInv
<1>3. Running(c) /\ call[c].step = 3
  BY <1>1, WorkspaceSteps DEF Complete, Steps
<1>4. call[c].arg \in {"APPROVE", "REJECT"}
  BY <1>1, <1>3 DEF IInv, StepsOK
<1>5. \A p \in Proposal : proposal'[p] =
        IF p \notin call[c].target THEN proposal[p]
        ELSE [proposal[p] EXCEPT !.decision = call[c].arg, !.status =
                IF call[c].arg = "APPROVE" THEN "AUTHORIZED" ELSE "REJECTED"]
  BY DEF DecideApproval
<1>6. \A p \in call[c].target :
        /\ [proposal[p] EXCEPT !.decision = call[c].arg, !.status =
              IF call[c].arg = "APPROVE" THEN "AUTHORIZED" ELSE "REJECTED"] \in Proposals
        /\ proposal'[p].version = proposal[p].version
  <2>1. SUFFICES ASSUME NEW p \in call[c].target
                 PROVE  /\ [proposal[p] EXCEPT !.decision = call[c].arg, !.status =
                              IF call[c].arg = "APPROVE" THEN "AUTHORIZED" ELSE "REJECTED"]
                              \in Proposals
                        /\ proposal'[p].version = proposal[p].version
    OBVIOUS
  <2>2. p \in Proposal
    BY <1>2
  <2>3. DOMAIN proposal[p] = {"status", "version", "decision", "due"}
    BY <2>2, ProposalTypes DEF IInv
  <2>4. [proposal[p] EXCEPT !.decision = call[c].arg, !.status =
           IF call[c].arg = "APPROVE" THEN "AUTHORIZED" ELSE "REJECTED"] \in Proposals
    <3>1. proposal[p].status # "NONE"
      BY <1>1, CommitIsLive DEF LiveStatus
    <3> QED
      BY <1>4, <2>2, <3>1, RowTypes DEF IInv
  <2>5. proposal'[p].version = proposal[p].version
    BY <1>5, <2>2, <2>3
  <2> QED
    BY <2>4, <2>5
<1>7. proposal' \in [Proposal -> Proposals]
  <2>1. \A p \in Proposal : proposal[p] \in Proposals
    BY DEF IInv, Types
  <2> QED
    BY <1>6, <2>1 DEF DecideApproval
<1>8. Live' \subseteq Live
  <2>1. ASSUME Holds(c), NEW p \in call[c].target PROVE p \in Live
    BY <1>2, <2>1 DEF IInv, HeldIsLive, Live
  <2>2. Holds(c)
    BY <1>1, <1>3, WorkspaceSteps DEF Holds
  <2> QED
    BY <1>5, <2>1, <2>2 DEF Live
<1>9. \A p \in Proposal : proposal'[p] = proposal[p] \/ p \in call[c].target
  BY <1>5
<1>10. /\ StepsOK' /\ WorkspaceIsHeld' /\ ProposalsAreHeld' /\ HeldIsLive'
       /\ DecidedIsCurrent' /\ ApprovedIsFound' /\ LiveIsFound'
  BY <1>1, <1>8, <1>9, CommitKeeps
<1>11. Types'
  BY <1>1, <1>7 DEF IInv, Types, Ended, PageShape
<1>12. OneLive'
  BY <1>8 DEF IInv, OneLive
<1>13. ApprovalIsCurrent'
  <2>1. \A p \in call[c].target : proposal[p].version = policy.version
                                  /\ policy.mode # "OBSERVE_ONLY"
    BY <1>1, <1>3 DEF IInv, DecidedIsCurrent
  <2> QED
    BY <1>1, <1>5, <1>6, <2>1 DEF IInv, ApprovalIsCurrent
<1> QED
  BY <1>10, <1>11, <1>12, <1>13 DEF IInv

\* It leaves no approval, having found them all.
LEMMA PolicyKeeps ==
    ASSUME IInv, NEW c \in Call, CreatePolicyVersion(c)
    PROVE  IInv'
<1>1. /\ Complete(c) /\ call[c].kind = "POLICY" /\ Ended(c) /\ page' = page
      /\ policy' = [version |-> policy.version + 1, mode |-> call[c].arg]
      /\ proposal' = Superseded(call[c].target) /\ UNCHANGED <<paused, active, retired>>
  BY CommitEnds DEF CreatePolicyVersion
<1>2. call[c].target \in SUBSET Proposal
  BY CallTypes DEF IInv
<1>3. /\ proposal' \in [Proposal -> Proposals]
      /\ \A p \in Proposal : \/ p \notin call[c].target /\ proposal'[p] = proposal[p]
                             \/ p \in call[c].target /\ proposal'[p].status = "SUPERSEDED"
  BY <1>1, <1>2, CommitIsLive, SupersededTypes DEF IInv, LiveStatus
<1>4. Live' \subseteq Live /\ \A p \in Proposal : Approved(p)' => Approved(p)
  BY <1>3 DEF Live, LiveStatus, Approved
<1>5. /\ StepsOK' /\ WorkspaceIsHeld' /\ ProposalsAreHeld' /\ HeldIsLive'
      /\ DecidedIsCurrent' /\ ApprovedIsFound' /\ LiveIsFound' /\ call[c].scanned
  BY <1>1, <1>3, <1>4, CommitKeeps
<1>6. policy' \in Policies
  <2>1. call[c].arg \in Mode
    BY <1>1 DEF IInv, StepsOK, Complete
  <2> QED
    BY <1>1, <2>1 DEF IInv, Types, Version, Policies
<1>7. Types'
  BY <1>1, <1>3, <1>6 DEF IInv, Types, Ended, PageShape
<1>8. OneLive'
  BY <1>4 DEF IInv, OneLive
<1>9. ApprovalIsCurrent'
  <2>1. \A p \in Proposal : ~Approved(p)'
    BY <1>1, <1>3, <1>5 DEF IInv, ApprovedIsFound, Approved
  <2> QED
    BY <2>1 DEF ApprovalIsCurrent, Approved
<1> QED
  BY <1>5, <1>7, <1>8, <1>9 DEF IInv

\* It proposes only when it has ended what was live.
LEMMA EvaluationKeeps ==
    ASSUME IInv, NEW c \in Call, RecordEvaluation(c)
    PROVE  IInv'
<1>1. /\ Complete(c) /\ call[c].kind = "EVALUATE" /\ Ended(c)
      /\ UNCHANGED <<policy, paused, active, retired, page>>
  BY CommitEnds DEF RecordEvaluation, authority
<1>2. call[c].target \in SUBSET Proposal /\ call[c].context \in Contexts \cup {NoContext}
  BY CallTypes DEF IInv, Calls
<1>3. CASE proposal' = proposal
  <2>1. Types'
    BY <1>1, <1>3 DEF IInv, Types, Ended, PageShape
  <2> QED
    BY <1>1, <1>3, <2>1, Kept DEF Ended
<1>4. CASE proposal' = Superseded(call[c].target)
  BY <1>1, <1>4, SupersedeKeeps DEF IInv, Types
<1>5. ASSUME call[c].context.active, NEW p \in Proposal, Unused(p),
             proposal' = [Superseded(call[c].target) EXCEPT ![p] = Proposed(call[c].context)]
      PROVE  IInv'
  <2>1. /\ Superseded(call[c].target) \in [Proposal -> Proposals]
        /\ \A q \in Proposal \ call[c].target : Superseded(call[c].target)[q] = proposal[q]
        /\ \A q \in call[c].target : Superseded(call[c].target)[q].status = "SUPERSEDED"
    BY <1>1, <1>2, CommitIsLive, SupersededTypes DEF IInv, LiveStatus
  <2>2. /\ Proposed(call[c].context) \in Proposals
        /\ Proposed(call[c].context).decision # "APPROVE"
    <3>1. call[c].context \in Contexts
      BY <1>2, <1>5 DEF NoContext
    <3>2. call[c].context.version \in Version
      BY <3>1 DEF Contexts
    <3> QED
      BY <3>2 DEF Proposed, Proposals
  <2>3. /\ proposal' \in [Proposal -> Proposals]
        /\ proposal'[p] = Proposed(call[c].context)
        /\ \A q \in Proposal \ {p} : proposal'[q] = Superseded(call[c].target)[q]
    BY <1>5, <2>1, <2>2
  <2>4. \A q \in Proposal : \/ proposal'[q] = proposal[q] \/ q \in call[c].target
                            \/ proposal[q].status = "NONE"
    BY <1>5, <2>1, <2>3 DEF Unused, NoProposal
  <2>5. \A q \in Proposal : Approved(q)' => Approved(q) /\ proposal'[q] = proposal[q]
    BY <2>1, <2>2, <2>3 DEF Approved
  <2>6. /\ StepsOK' /\ WorkspaceIsHeld' /\ ProposalsAreHeld' /\ HeldIsLive'
        /\ DecidedIsCurrent' /\ ApprovedIsFound' /\ LiveIsFound' /\ call[c].scanned
    BY <1>1, <2>4, <2>5, CommitKeeps
  <2>7. Types'
    BY <1>1, <2>3 DEF IInv, Types, Ended, PageShape
  <2>8. Live \subseteq call[c].target
    BY <1>1, <2>6 DEF IInv, LiveIsFound
  <2>9. Live' \subseteq {p}
    <3>1. ASSUME NEW q \in Proposal \ {p} PROVE proposal'[q].status \notin LiveStatus
      <4>1. CASE q \in call[c].target
        BY <2>1, <2>3, <3>1, <4>1 DEF LiveStatus
      <4>2. CASE q \notin call[c].target
        BY <2>1, <2>3, <2>8, <3>1, <4>2 DEF Live
      <4> QED
        BY <4>1, <4>2
    <3> QED
      BY <3>1 DEF Live
  <2>10. OneLive'
    BY <2>9 DEF OneLive
  <2>11. ApprovalIsCurrent'
    BY <1>1, <2>5 DEF IInv, ApprovalIsCurrent, Approved
  <2> QED
    BY <2>6, <2>7, <2>10, <2>11 DEF IInv
<1> QED
  BY <1>3, <1>4, <1>5 DEF RecordEvaluation
-----------------------------------------------------------------------------
(***************************************************************************)
(* Time, the pages, and what begins.                                       *)
(***************************************************************************)

\* An update of one proposal waits for the transactions that hold it.
LEMMA NotHeld ==
    ASSUME IInv, NEW c \in Call, Holds(c), NEW p \in call[c].target,
           \A lock \in Held(c) : lock[1] # "PROPOSAL"
    PROVE  FALSE
<1> DEFINE k == call[c].kind  n == Where(k)
<1>1. k \in Kind /\ call[c].step \in 0..4
  BY CallTypes DEF IInv, Holds, Running
<1>2. n \in 1..3 /\ n \in 1..Len(Plan[k])
  BY <1>1, PlanFacts
<1>3. Steps(c)[n][1] = "PROPOSAL"
  BY <1>1, <1>2, PlanFacts DEF Steps
<1>4. n \in 1..call[c].step
  BY <1>1, <1>2 DEF Holds
<1>5. ~Void(c, n)
  BY DEF Void
<1>6. Steps(c)[n] \in Held(c)
  BY <1>4, <1>5 DEF Held, Holds
<1> QED
  BY <1>3, <1>6

LEMMA ExpireKeeps ==
    ASSUME IInv, NEW p \in Proposal, ExpireProposals(p)
    PROVE  IInv'
<1>1. /\ proposal[p].status \in {"AWAITING_APPROVAL", "BLOCKED"}
      /\ proposal' = [proposal EXCEPT ![p].status = "EXPIRED"]
      /\ UNCHANGED <<policy, paused, active, retired, call, page>>
  BY DEF ExpireProposals, authority
<1>2. /\ [proposal[p] EXCEPT !.status = "EXPIRED"] \in Proposals
      /\ [proposal[p] EXCEPT !.status = "EXPIRED"].status = "EXPIRED"
  BY <1>1, RowTypes, ProposalTypes DEF IInv
<1>3. /\ proposal' \in [Proposal -> Proposals] /\ proposal'[p].status = "EXPIRED"
      /\ \A q \in Proposal \ {p} : proposal'[q] = proposal[q]
  BY <1>1, <1>2 DEF IInv, Types
<1>4. \A c \in Call : Holds(c) => p \notin call[c].target
  BY NotHeld DEF ExpireProposals
<1>5. Types'
  BY <1>1, <1>3 DEF IInv, Types, PageShape
<1>6. StepsOK' /\ WorkspaceIsHeld' /\ ProposalsAreHeld'
  BY <1>1 DEF IInv, StepsOK, WorkspaceIsHeld, ProposalsAreHeld, Holds, Running, Steps
<1>7. \A c \in Call : call[c].target \in SUBSET Proposal /\ call[c].step \in 0..4
  BY CallTypes DEF IInv
<1>8. HeldIsLive'
  BY <1>1, <1>3, <1>4, <1>7 DEF IInv, HeldIsLive, Holds, Running
<1>9. DecidedIsCurrent'
  <2>1. ASSUME NEW c \in Call, call[c].kind = "DECIDE", call[c].step >= 2
        PROVE  p \notin call[c].target
    <3>1. Running(c) /\ call[c].step >= 1
      BY <1>7, <2>1, KindIs DEF Running
    <3> QED
      BY <1>4, <2>1, <3>1, WorkspaceSteps DEF Holds
  <2> QED
    BY <1>1, <1>3, <1>7, <2>1 DEF IInv, DecidedIsCurrent
<1>10. \A q \in Proposal : Approved(q)' => Approved(q)
  BY <1>3 DEF Approved
<1>11. Live' \subseteq Live
  BY <1>3 DEF Live, LiveStatus
<1>12. ApprovedIsFound' /\ LiveIsFound' /\ OneLive'
  BY <1>1, <1>10, <1>11 DEF IInv, ApprovedIsFound, LiveIsFound, OneLive
<1>13. ApprovalIsCurrent'
  BY <1>1, <1>3 DEF IInv, ApprovalIsCurrent
<1> QED
  BY <1>5, <1>6, <1>8, <1>9, <1>12, <1>13 DEF IInv

LEMMA WindowKeeps ==
    ASSUME IInv, NEW p \in Proposal, WindowEnds(p)
    PROVE  IInv'
<1>1. /\ proposal' = [proposal EXCEPT ![p].due = TRUE]
      /\ UNCHANGED <<policy, paused, active, retired, call, page>>
  BY DEF WindowEnds, authority
<1>2. /\ DOMAIN proposal[p] = {"status", "version", "decision", "due"}
      /\ proposal[p].status \in LiveStatus
  BY ProposalTypes DEF IInv, WindowEnds, Live
<1>3. [proposal[p] EXCEPT !.due = TRUE] \in Proposals
  BY <1>2, RowTypes DEF IInv, LiveStatus
<1>4. /\ proposal' \in [Proposal -> Proposals]
      /\ \A q \in Proposal : /\ proposal'[q].status = proposal[q].status
                             /\ proposal'[q].version = proposal[q].version
                             /\ proposal'[q].decision = proposal[q].decision
  BY <1>1, <1>2, <1>3 DEF IInv, Types
<1>5. Types'
  BY <1>1, <1>4 DEF IInv, Types, PageShape
<1> QED
  BY <1>1, <1>4, <1>5, Kept

\* What is on screen keeps its shape.
Fields == {"filter", "chosen", "waiting", "decided", "card", "pending", "shown", "asked"}

Shaped(pg) == DOMAIN pg = Fields /\ pg.waiting \in SUBSET Proposal

LEMMA RenderShaped ==
    ASSUME NEW pg, Shaped(pg)
    PROVE  Shaped(Render(pg))
BY DEF Shaped, Fields, Render

LEMMA FilteredShaped ==
    ASSUME NEW pg, Shaped(pg), NEW f, NEW p
    PROVE  Shaped(Filtered(pg, f, p))
<1>1. /\ Shaped([pg EXCEPT !.chosen = p])
      /\ Shaped([pg EXCEPT !.filter = f, !.chosen = p, !.waiting = {}, !.decided = {}])
  BY DEF Shaped, Fields
<1> QED
  BY <1>1, RenderShaped DEF Filtered

\* A page that shows something else changes nothing that counts.
LEMMA PageKeeps ==
    ASSUME IInv, FetchApprovals \/ (\E f \in {"waiting", "all"} : SetFilter(f))
                 \/ (\E p \in Proposal : Choose(p))
    PROVE  IInv'
<1>1. UNCHANGED <<policy, paused, active, retired, proposal, call>>
  BY DEF FetchApprovals, SetFilter, Choose, authority
<1>2. Shaped(page)
  BY DEF IInv, Types, PageShape, Shaped, Fields
<1>3. ASSUME FetchApprovals PROVE Shaped(page')
  <2>1. ASSUME NEW S PROVE Shaped([page EXCEPT !.waiting = Waiting, !.decided = S])
    BY <1>2 DEF Shaped, Fields, Waiting
  <2> QED
    BY <1>3, <2>1, RenderShaped DEF FetchApprovals
<1>4. ASSUME NEW f \in {"waiting", "all"}, SetFilter(f) PROVE Shaped(page')
  BY <1>2, <1>4, FilteredShaped DEF SetFilter
<1>5. ASSUME NEW p \in Proposal, Choose(p) PROVE Shaped(page')
  <2>1. Shaped([page EXCEPT !.chosen = p])
    BY <1>2 DEF Shaped, Fields
  <2> QED
    BY <1>5, <2>1, RenderShaped DEF Choose
<1>6. Types'
  BY <1>1, <1>3, <1>4, <1>5 DEF IInv, Types, PageShape, Shaped, Fields
<1> QED
  BY <1>1, <1>6, Kept

LEMMA AnswerKeeps ==
    ASSUME IInv, NEW c \in Call, DecisionAnswered(c)
    PROVE  IInv'
<1> DEFINE mine == page.card \in call[c].target
           heard == [page EXCEPT !.asked = @ \ {c}, !.pending = @ /\ ~mine]
<1>1. UNCHANGED <<policy, paused, active, retired, proposal>>
  BY DEF DecisionAnswered, authority
<1>2. /\ Shaped(heard)
      /\ \A x : Shaped([heard EXCEPT !.shown = x])
  BY DEF IInv, Types, PageShape, Shaped, Fields
<1>3. \/ page' = heard
      \/ page' = Filtered([heard EXCEPT !.shown = @ \/ mine], "all",
                          CHOOSE p \in call[c].target : TRUE)
  BY DEF DecisionAnswered
<1> HIDE DEF heard, mine
<1>4. Shaped(page')
  BY <1>2, <1>3, FilteredShaped
<1>5. /\ call' \in [Call -> Calls] /\ call'[c].kind \notin Kind
      /\ \A d \in Call \ {c} : call'[d] = call[d]
  BY IdleTypes DEF DecisionAnswered, IInv, Types
<1>6. Types'
  BY <1>1, <1>4, <1>5 DEF IInv, Types, PageShape, Shaped, Fields
<1> QED
  BY <1>1, <1>5, <1>6, Kept

LEMMA BeginTypes ==
    ASSUME IInv, NEW c \in Call, NEW k \in Kind, NEW target \in SUBSET Proposal,
           NEW arg \in Arguments \cup {"NONE"}, NEW context \in Contexts \cup {NoContext},
           Begin(c, k, target, arg, context)
    PROVE  /\ call' \in [Call -> Calls]
           /\ \A d \in Call \ {c} : call'[d] = call[d]
           /\ call'[c].kind = k /\ call'[c].step = 0 /\ call'[c].arg = arg
           /\ call'[c].target = target
           /\ call'[c].scanned = (arg \in {"APPROVE", "REJECT", "PAUSE"})
<1> DEFINE new == [kind |-> k, step |-> 0, scanned |-> arg \in {"APPROVE", "REJECT", "PAUSE"},
                   target |-> target, arg |-> arg, context |-> context]
<1>1. new \in Calls
  <2>1. (arg \in {"APPROVE", "REJECT", "PAUSE"}) \in BOOLEAN
    OBVIOUS
  <2> QED
    BY <2>1 DEF Calls
<1>2. call' = [call EXCEPT ![c] = new]
  BY DEF Begin
<1>3. call \in [Call -> Calls]
  BY DEF IInv, Types
<1> QED
  BY <1>1, <1>2, <1>3

\* What begins without a page.
LEMMA CommandKeeps ==
    ASSUME IInv, NEW c \in Call,
           BeginPolicy(c) \/ BeginPause(c) \/ BeginRetirement(c) \/ BeginCheck(c)
    PROVE  IInv'
<1>1. UNCHANGED <<policy, paused, active, retired, proposal, page>>
  BY DEF BeginPolicy, BeginPause, BeginRetirement, BeginCheck, authority
<1>2. ASSUME NEW k \in Kind, NEW arg \in Arguments \cup {"NONE"},
             NEW context \in Contexts \cup {NoContext}, Begin(c, k, {}, arg, context),
             k # "DECIDE", k = "POLICY" => arg \in Mode,
             k = "EVALUATE" => arg = "NONE" /\ \A d \in Call : call[d].kind # "EVALUATE"
      PROVE  IInv'
  <2>1. /\ call' \in [Call -> Calls] /\ call'[c].kind = k /\ call'[c].step = 0
        /\ call'[c].arg = arg /\ \A d \in Call \ {c} : call'[d] = call[d]
        /\ call'[c].scanned = (arg \in {"APPROVE", "REJECT", "PAUSE"})
    BY <1>2, BeginTypes
  <2>2. Types'
    BY <1>1, <2>1 DEF IInv, Types, PageShape
  <2>3. k = "POLICY" => ~call'[c].scanned /\ call'[c].arg \in Mode
    BY <1>2, <2>1 DEF Mode
  <2>4. k = "EVALUATE" => /\ ~call'[c].scanned
                          /\ \A d \in Call \ {c} : call[d].kind # "EVALUATE"
    BY <1>2, <2>1
  <2> QED
    BY <1>1, <1>2, <2>1, <2>2, <2>3, <2>4, StartKeeps
<1>3. CASE BeginPolicy(c)
  <2>1. PICK mode \in Mode : Begin(c, "POLICY", {}, mode, NoContext)
    BY <1>3 DEF BeginPolicy
  <2> QED
    BY <1>2, <2>1, KindIs DEF Arguments
<1>4. CASE BeginPause(c)
  <2>1. PICK arg \in {"PAUSE", "RESUME"} : Begin(c, "PAUSE", {}, arg, NoContext)
    BY <1>4 DEF BeginPause
  <2> QED
    BY <1>2, <2>1, KindIs DEF Arguments
<1>5. CASE BeginRetirement(c)
  <2>1. PICK k \in {"RETIRE_TASK", "RETIRE_REQUEST"} : Begin(c, k, {}, "NONE", NoContext)
    BY <1>5 DEF BeginRetirement
  <2> QED
    BY <1>2, <2>1, KindIs
<1>6. CASE BeginCheck(c)
  <2> DEFINE context == [version |-> policy.version, mode |-> policy.mode, paused |-> paused,
                         active |-> active]
  <2>1. context \in Contexts
    BY DEF IInv, Types, Contexts, Policies
  <2>2. Begin(c, "EVALUATE", {}, "NONE", context) /\ \A d \in Call : call[d].kind # "EVALUATE"
    BY <1>6 DEF BeginCheck
  <2> HIDE DEF context
  <2> QED
    BY <1>2, <2>1, <2>2, KindIs
<1> QED
  BY <1>3, <1>4, <1>5, <1>6

LEMMA DecisionKeeps ==
    ASSUME IInv, NEW c \in Call, NEW decision \in {"APPROVE", "REJECT"}, Decide(c, decision)
    PROVE  IInv'
<1>1. /\ UNCHANGED <<policy, paused, active, retired, proposal>>
      /\ page' = [page EXCEPT !.pending = TRUE, !.asked = @ \cup {c}]
      /\ Begin(c, "DECIDE", {page.card}, decision, NoContext)
  BY DEF Decide, authority
<1>2. {page.card} \in SUBSET Proposal
  BY DEF Decide, IInv, Types, PageShape
<1>3. "DECIDE" \in Kind /\ decision \in Arguments \cup {"NONE"}
  BY KindIs DEF Arguments
<1>4. /\ call' \in [Call -> Calls] /\ call'[c].kind = "DECIDE" /\ call'[c].step = 0
      /\ call'[c].arg = decision /\ call'[c].target = {page.card} /\ call'[c].scanned
      /\ \A d \in Call \ {c} : call'[d] = call[d]
  <2>1. /\ call' \in [Call -> Calls] /\ call'[c].kind = "DECIDE" /\ call'[c].step = 0
        /\ call'[c].arg = decision /\ call'[c].target = {page.card}
        /\ call'[c].scanned = (decision \in {"APPROVE", "REJECT", "PAUSE"})
        /\ \A d \in Call \ {c} : call'[d] = call[d]
    BY <1>1, <1>2, <1>3, BeginTypes
  <2> QED
    BY <2>1
<1>5. PageShape'
  BY <1>1 DEF IInv, Types, PageShape
<1>6. Types'
  BY <1>1, <1>4, <1>5 DEF IInv, Types
<1> QED
  BY <1>1, <1>3, <1>4, <1>6, StartKeeps
-----------------------------------------------------------------------------
(***************************************************************************)
(* The theorems.                                                           *)
(***************************************************************************)

LEMMA InitInvariant == Init => IInv
<1> SUFFICES ASSUME Init PROVE IInv
  OBVIOUS
<1>1. \A c \in Call : call[c] = Idle
  BY DEF Init
<1>2. call \in [Call -> Calls]
  BY IdleTypes DEF Init
<1>3. proposal \in [Proposal -> Proposals]
  <2>1. NoProposal \in Proposals
    BY DEF Proposals
  <2>2. [status |-> "AWAITING_APPROVAL", version |-> 1, decision |-> "NONE",
         due |-> FALSE] \in Proposals
    BY DEF Proposals, Version
  <2> QED
    BY <2>1, <2>2 DEF Init
<1>4. Types
  <2>1. policy \in Policies
    BY DEF Init, Policies, Version, Mode
  <2> QED
    BY <1>2, <1>3, <2>1, DecisionsAssumption DEF Init, Types, PageShape
<1>5. \A c \in Call : call[c].kind \notin Kind
  BY <1>1, IdleTypes
<1>6. \A p \in Proposal : p # 1 => proposal[p].status = "NONE"
  BY DEF Init, NoProposal
<1>7. proposal[1].status = "AWAITING_APPROVAL"
  BY DecisionsAssumption DEF Init, NoProposal
<1>8. StepsOK /\ WorkspaceIsHeld /\ ProposalsAreHeld /\ HeldIsLive /\ DecidedIsCurrent
      /\ ApprovedIsFound /\ LiveIsFound
  BY <1>5, KindIs DEF StepsOK, WorkspaceIsHeld, ProposalsAreHeld, HeldIsLive, DecidedIsCurrent,
     ApprovedIsFound, LiveIsFound, Holds, Running
<1>9. OneLive
  BY <1>6 DEF OneLive, Live, LiveStatus
<1>10. ApprovalIsCurrent
  BY <1>6, <1>7 DEF ApprovalIsCurrent
<1> QED
  BY <1>4, <1>8, <1>9, <1>10 DEF IInv

LEMMA NextInvariant == IInv /\ [Next]_vars => IInv'
<1> SUFFICES ASSUME IInv, [Next]_vars PROVE IInv'
  OBVIOUS
<1>1. ASSUME NEW c \in Call, TransactionStep(c) PROVE IInv'
  <2>1. CASE Scan(c)
    BY <2>1, ScanKeeps
  <2>2. CASE Lock(c)
    BY <2>2, LockKeeps
  <2>3. CASE BreakDeadlock(c)
    <3>1. Ended(c) /\ UNCHANGED <<policy, paused, active, retired, proposal, page>>
      BY <2>3, EndTypes DEF BreakDeadlock, authority, IInv
    <3>2. Types'
      BY <3>1 DEF IInv, Types, Ended, PageShape
    <3> QED
      BY <3>1, <3>2, Kept DEF Ended
  <2>4. CASE DecideApproval(c)
    BY <2>4, DecideKeeps
  <2>5. CASE CreatePolicyVersion(c)
    BY <2>5, PolicyKeeps
  <2>6. CASE SetWritesPaused(c)
    <3>1. /\ Complete(c) /\ call[c].kind = "PAUSE" /\ Ended(c) /\ page' = page
          /\ proposal' = Superseded(call[c].target) /\ paused' \in BOOLEAN
          /\ UNCHANGED <<policy, active, retired>>
      BY <2>6, CommitEnds DEF SetWritesPaused
    <3> QED
      BY <3>1, SupersedeKeeps DEF IInv, Types
  <2>7. CASE RetireTask(c)
    <3>1. /\ Complete(c) /\ call[c].kind = "RETIRE_TASK" /\ Ended(c) /\ page' = page
          /\ proposal' = Superseded(call[c].target) /\ retired' \in BOOLEAN
          /\ UNCHANGED <<policy, paused, active>>
      BY <2>7, CommitEnds DEF RetireTask
    <3> QED
      BY <3>1, SupersedeKeeps DEF IInv, Types
  <2>8. CASE RetireRequest(c)
    <3>1. /\ Complete(c) /\ call[c].kind = "RETIRE_REQUEST" /\ Ended(c) /\ page' = page
          /\ proposal' = Superseded(call[c].target) /\ active' \in BOOLEAN
          /\ UNCHANGED <<policy, paused, retired>>
      BY <2>8, CommitEnds DEF RetireRequest
    <3> QED
      BY <3>1, SupersedeKeeps DEF IInv, Types
  <2>9. CASE RecordEvaluation(c)
    BY <2>9, EvaluationKeeps
  <2> QED
    BY <1>1, <2>1, <2>2, <2>3, <2>4, <2>5, <2>6, <2>7, <2>8, <2>9 DEF TransactionStep
<1>2. ASSUME NEW c \in Call, PageStep(c) PROVE IInv'
  BY <1>2, DecisionKeeps, AnswerKeeps DEF PageStep
<1>3. ASSUME NEW c \in Call,
             BeginPolicy(c) \/ BeginPause(c) \/ BeginRetirement(c) \/ BeginCheck(c)
      PROVE  IInv'
  BY <1>3, CommandKeeps
<1>4. ASSUME NEW p \in Proposal, ExpireProposals(p) PROVE IInv'
  BY <1>4, ExpireKeeps
<1>5. ASSUME NEW p \in Proposal, WindowEnds(p) PROVE IInv'
  BY <1>5, WindowKeeps
<1>6. CASE UNCHANGED vars
  <2>1. Types'
    BY <1>6 DEF vars, IInv, Types, PageShape
  <2> QED
    BY <1>6, <2>1, Kept DEF vars
<1> QED
  BY <1>1, <1>2, <1>3, <1>4, <1>5, <1>6, PageKeeps DEF Next

\* The inductive invariant of the transactions holds of every behaviour.
THEOREM Invariance == Spec => []IInv
BY InitInvariant, NextInvariant, PTL DEF Spec

\* A standing approval is one under the policy that applies now, which allows
\* recoveries: however decisions, new policies, pauses, retirements, checks and
\* expiries interleave and whichever of them a deadlock aborts.
THEOREM ApprovalIsCurrentAlways == Spec => []ApprovalIsCurrent
<1>1. IInv => ApprovalIsCurrent
  BY DEF IInv
<1> QED
  BY <1>1, Invariance, PTL

\* The task has at most one live proposal (recovery_proposals_live_unique): no check
\* runs into the index, which would fail its job.
THEOREM OneLiveAlways == Spec => []OneLive
<1>1. IInv => OneLive
  BY DEF IInv
<1> QED
  BY <1>1, Invariance, PTL
-----------------------------------------------------------------------------
(***************************************************************************)
(* What a page shows, and the rest of the type invariant.  A page that is  *)
(* answered about a recorded decision takes the proposal of the call: there *)
(* is one, as a decision that locks no waiting proposal is refused.        *)
(***************************************************************************)

\* The calls that a page waits for.
AskedOK ==
    \A c \in page.asked :
      /\ call[c].kind \in {"DECIDE", "ANSWER"}
      /\ call[c].kind = "DECIDE" /\ call[c].step >= 1 => call[c].target # {}
      /\ call[c].kind = "ANSWER" /\ call[c].arg = "OK" => call[c].target # {}

PageInv == page \in Pages /\ AskedOK /\ begun \in 0..MaxCalls

\* A finite set of numbers has a greatest one.
LEMMA MaxIn ==
    ASSUME NEW S, S \subseteq Nat, IsFiniteSet(S), S # {}
    PROVE  Max(S) \in S
<1> DEFINE Above(x) == {y \in S : y >= x}
           T == {Above(x) : x \in S}
           R == StrictSubsetOrdering(S)
<1>1. IsWellFoundedOn(R, FiniteSubsetsOf(S))
  BY FS_StrictSubsetOrderingWellFounded
<1>2. T \subseteq FiniteSubsetsOf(S) /\ T # {}
  <2>1. ASSUME NEW x \in S PROVE Above(x) \in FiniteSubsetsOf(S)
    BY FS_Subset DEF FiniteSubsetsOf
  <2> QED
    BY <2>1
<1>3. PICK t \in T : \A u \in T : <<u, t>> \notin R
  <2> HIDE DEF T, R
  <2> QED
    BY <1>1, <1>2, WFMin
<1>4. PICK x \in S : t = Above(x)
  OBVIOUS
<1>5. ASSUME NEW y \in S, y > x PROVE FALSE
  <2>1. Above(y) \subseteq Above(x) /\ x \in Above(x) /\ x \notin Above(y)
    <3>1. x \in Nat /\ y \in Nat /\ \A z \in S : z \in Nat
      OBVIOUS
    <3>2. (\A z \in S : z >= y => z >= x) /\ x >= x /\ ~(x >= y)
      BY <1>5, <3>1
    <3> QED
      BY <3>2, Zenon
  <2>2. <<Above(y), t>> \in R
    BY <1>4, <2>1 DEF StrictSubsetOrdering
  <2> QED
    BY <1>3, <2>2
<1>6. \A y \in S : x >= y
  BY <1>5
<1> QED
  BY <1>6 DEF Max

LEMMA SelectedType ==
    ASSUME NEW pg \in Pages
    PROVE  Selected(pg) \in Proposal \cup {NONE}
<1>1. pg.waiting \in SUBSET Proposal /\ pg.decided \in SUBSET Proposal
  BY DEF Pages
<1>2. ASSUME NEW S \in SUBSET Proposal, S # {} PROVE Max(S) \in Proposal
  <2>1. S \subseteq Nat /\ IsFiniteSet(S)
    BY DecisionsAssumption, FS_Subset
  <2> QED
    BY <1>2, <2>1, MaxIn
<1> DEFINE items == IF pg.waiting # {} THEN pg.waiting ELSE pg.decided
<1>3. items \in SUBSET Proposal
  BY <1>1
<1>4. Selected(pg) = IF pg.chosen \in pg.waiting \cup pg.decided THEN pg.chosen
                     ELSE IF items = {} THEN NONE ELSE Max(items)
  BY DEF Selected
<1> HIDE DEF items
<1> QED
  BY <1>1, <1>2, <1>3, <1>4

LEMMA RenderPages ==
    ASSUME NEW pg \in Pages
    PROVE  Render(pg) \in Pages /\ Render(pg).asked = pg.asked
BY SelectedType DEF Render, Pages

LEMMA FilteredPages ==
    ASSUME NEW pg \in Pages, NEW f \in {"waiting", "all"}, NEW p \in Proposal \cup {NONE}
    PROVE  Filtered(pg, f, p) \in Pages /\ Filtered(pg, f, p).asked = pg.asked
<1>1. /\ [pg EXCEPT !.chosen = p] \in Pages
      /\ [pg EXCEPT !.chosen = p].asked = pg.asked
  BY DEF Pages
<1>2. /\ [pg EXCEPT !.filter = f, !.chosen = p, !.waiting = {}, !.decided = {}] \in Pages
      /\ [pg EXCEPT !.filter = f, !.chosen = p, !.waiting = {}, !.decided = {}].asked = pg.asked
  BY DEF Pages
<1> QED
  BY <1>1, <1>2, RenderPages DEF Filtered

\* A call that ends answers its page; one that is recorded names its proposal.
LEMMA EndAsked ==
    ASSUME Types, PageInv, NEW c \in Call, NEW answer \in {"OK", "REFUSED", "ERROR"},
           Running(c), End(c, answer), page' = page,
           answer = "OK" => call[c].kind # "DECIDE" \/ call[c].target # {}
    PROVE  AskedOK'
<1>1. call \in [Call -> Calls] /\ Running(c) => call[c].kind # "ANSWER"
  BY IdleTypes DEF Types, Running
<1>2. \A d \in Call \ {c} : call'[d] = call[d]
  BY DEF End, Types
<1>3. ASSUME c \in page.asked
      PROVE  /\ call'[c].kind = "ANSWER" /\ call'[c].arg = answer
             /\ call'[c].target = call[c].target
  <2> DEFINE said == [Idle EXCEPT !.kind = "ANSWER", !.target = call[c].target, !.arg = answer]
  <2>1. said.kind = "ANSWER" /\ said.arg = answer /\ said.target = call[c].target
    BY DEF Idle
  <2>2. call' = [call EXCEPT ![c] = said]
    BY <1>3 DEF End
  <2> HIDE DEF said
  <2> QED
    BY <2>1, <2>2 DEF Types
<1>4. page.asked \subseteq Call
  BY DEF PageInv, Pages
<1>5. c \in page.asked => (call[c].kind = "DECIDE" /\ (answer = "OK" => call[c].target # {}))
  BY <1>1 DEF PageInv, AskedOK, Types
<1> QED
  BY <1>2, <1>3, <1>4, <1>5 DEF PageInv, AskedOK

\* Calls that no page waits for, and pages that ask for no other.
LEMMA AskedKept ==
    ASSUME PageInv, page'.asked \subseteq page.asked,
           \A d \in page.asked : call'[d] = call[d]
    PROVE  AskedOK'
BY DEF PageInv, AskedOK

LEMMA LockAsks ==
    ASSUME IInv, PageInv, NEW c \in Call, Lock(c)
    PROVE  PageInv'
<1> DEFINE n == call[c].step + 1  k == call[c].kind
<1>1. ToLock(c) /\ Running(c) /\ ~Complete(c) /\ UNCHANGED <<page, begun>>
  BY DEF Lock, ToLock
<1>2. ASSUME k = "DECIDE", End(c, "REFUSED") PROVE AskedOK'
  BY <1>1, <1>2, EndAsked DEF IInv
<1>3. ASSUME NothingToDo(c, n), End(c, "OK") PROVE AskedOK'
  <2>1. k # "DECIDE"
    BY <1>3 DEF NothingToDo
  <2> QED
    BY <1>1, <1>3, <2>1, EndAsked DEF IInv
<1>4. ASSUME ~(k = "DECIDE" /\ DecisionRefused(c, n)),
             call' = [call EXCEPT ![c].step = n, ![c].target =
                        IF Steps(c)[n][1] = "PROPOSAL" THEN @ \cap Affected(c) ELSE @]
      PROVE  AskedOK'
  <2>1. /\ call \in [Call -> Calls] /\ call[c] \in Calls /\ call[c].step \in 0..4
        /\ k \in Kind /\ call[c].target \in SUBSET Proposal
    BY <1>1, CallTypes DEF IInv, Types, Running
  <2>2. /\ call'[c] = [call[c] EXCEPT !.step = n, !.target =
             IF Steps(c)[n][1] = "PROPOSAL" THEN call[c].target \cap Affected(c)
             ELSE call[c].target]
        /\ \A d \in Call \ {c} : call'[d] = call[d]
    BY <1>4, <2>1
  <2>3. /\ call'[c].kind = k
        /\ call'[c].target = IF Steps(c)[n][1] = "PROPOSAL"
                             THEN call[c].target \cap Affected(c) ELSE call[c].target
    BY <2>1, <2>2 DEF Calls
  <2>4. ASSUME k = "DECIDE", c \in page.asked PROVE call'[c].target # {}
    <3>1. CASE n = 1
      <4>1. call[c].target \cap Waiting # {}
        BY <1>4, <2>4, <3>1 DEF DecisionRefused
      <4>2. Waiting \subseteq Affected(c)
        BY <2>4 DEF Waiting, Affected, LiveStatus
      <4> QED
        BY <2>3, <4>1, <4>2
    <3>2. CASE n # 1
      <4>1. call[c].step >= 1 /\ n \in 1..3
        <5>1. call[c].step <= Len(Plan["DECIDE"]) /\ call[c].step # Len(Plan["DECIDE"])
          BY <1>1, <2>4 DEF IInv, StepsOK, Complete, Steps
        <5> QED
          BY <2>1, <3>2, <5>1, WorkspaceSteps
      <4>2. call[c].target # {}
        BY <2>4, <4>1 DEF PageInv, AskedOK
      <4>3. Steps(c)[n][1] # "PROPOSAL"
        <5>1. "DECIDE" \in Kind /\ Where("DECIDE") = 1 /\ Len(Plan["DECIDE"]) = 3
          BY KindIs, WorkspaceSteps
        <5>2. \A i \in 1..3 : Plan["DECIDE"][i][1] = "PROPOSAL" <=> i = 1
          BY <5>1, PlanFacts
        <5>3. Steps(c) = Plan["DECIDE"]
          BY <2>4 DEF Steps
        <5> HIDE DEF n
        <5> QED
          BY <3>2, <4>1, <5>2, <5>3
      <4> QED
        BY <2>3, <4>2, <4>3
    <3> QED
      BY <3>1, <3>2
  <2>5. c \in page.asked => k = "DECIDE"
    BY <1>1, IdleTypes DEF PageInv, AskedOK, Running
  <2>6. page.asked \subseteq Call /\ page' = page
    BY <1>1 DEF PageInv, Pages
  <2> HIDE DEF n, k
  <2> QED
    BY <2>2, <2>3, <2>4, <2>5, <2>6, ZenonT(40) DEF PageInv, AskedOK
<1>5. AskedOK'
  BY <1>2, <1>3, <1>4 DEF Lock
<1> QED
  BY <1>1, <1>5 DEF PageInv

\* A recorded decision has a proposal.
LEMMA CommitAsks ==
    ASSUME IInv, PageInv, NEW c \in Call, NEW k, Commit(c, k)
    PROVE  PageInv'
<1>1. Complete(c) /\ Running(c) /\ call[c].kind = k /\ End(c, "OK") /\ UNCHANGED <<page, begun>>
  BY DEF Commit, Complete
<1>2. ASSUME k = "DECIDE", c \in page.asked PROVE call[c].target # {}
  <2>1. call[c].step = 3
    BY <1>1, <1>2, WorkspaceSteps DEF Complete, Steps
  <2> QED
    BY <1>1, <1>2, <2>1 DEF PageInv, AskedOK
<1>3. AskedOK'
  <2>1. CASE c \in page.asked
    BY <1>1, <1>2, <2>1, EndAsked DEF IInv
  <2>2. CASE c \notin page.asked
    <3>1. \A d \in page.asked : call'[d] = call[d]
      BY <1>1, <2>2 DEF End, IInv, Types, PageInv, Pages
    <3> QED
      BY <1>1, <3>1, AskedKept
  <2> QED
    BY <2>1, <2>2
<1> QED
  BY <1>1, <1>3 DEF PageInv

LEMMA BeginAsks ==
    ASSUME IInv, PageInv, NEW c \in Call, NEW k, NEW target, NEW arg, NEW context,
           Begin(c, k, target, arg, context)
    PROVE  /\ begun' \in 0..MaxCalls /\ c \notin page.asked
           /\ \A d \in Call \ {c} : call'[d] = call[d]
           /\ call'[c].kind = k /\ call'[c].step = 0
<1>1. call[c].kind = "NONE"
  BY IdleTypes DEF Begin
<1>2. c \notin page.asked
  BY <1>1 DEF PageInv, AskedOK
<1>3. begun' \in 0..MaxCalls
  BY DecisionsAssumption DEF Begin, PageInv
<1> DEFINE new == [kind |-> k, step |-> 0, scanned |-> arg \in {"APPROVE", "REJECT", "PAUSE"},
                   target |-> target, arg |-> arg, context |-> context]
<1>4. call' = [call EXCEPT ![c] = new] /\ new.kind = k /\ new.step = 0
  BY DEF Begin
<1> HIDE DEF new
<1> QED
  BY <1>2, <1>3, <1>4 DEF IInv, Types

LEMMA CommandAsks ==
    ASSUME IInv, PageInv, NEW c \in Call,
           BeginPolicy(c) \/ BeginPause(c) \/ BeginRetirement(c) \/ BeginCheck(c)
    PROVE  PageInv'
<1>1. page' = page
  BY DEF BeginPolicy, BeginPause, BeginRetirement, BeginCheck
<1>2. \E k, arg, context : Begin(c, k, {}, arg, context)
  BY DEF BeginPolicy, BeginPause, BeginRetirement, BeginCheck
<1>3. begun' \in 0..MaxCalls /\ \A d \in page.asked : call'[d] = call[d]
  BY <1>2, BeginAsks DEF PageInv, Pages
<1> QED
  BY <1>1, <1>3, AskedKept DEF PageInv

LEMMA DecisionAsks ==
    ASSUME IInv, PageInv, NEW c \in Call, NEW decision \in {"APPROVE", "REJECT"},
           Decide(c, decision)
    PROVE  PageInv'
<1>1. /\ page' = [page EXCEPT !.pending = TRUE, !.asked = @ \cup {c}]
      /\ Begin(c, "DECIDE", {page.card}, decision, NoContext)
  BY DEF Decide
<1>2. /\ begun' \in 0..MaxCalls /\ \A d \in Call \ {c} : call'[d] = call[d]
      /\ call'[c].kind = "DECIDE" /\ call'[c].step = 0
  BY <1>1, BeginAsks
<1>3. page' \in Pages /\ page'.asked = page.asked \cup {c} /\ page.asked \subseteq Call
  BY <1>1 DEF PageInv, Pages
<1>4. AskedOK'
  BY <1>2, <1>3 DEF PageInv, AskedOK
<1> QED
  BY <1>2, <1>3, <1>4 DEF PageInv

LEMMA AnswerShows ==
    ASSUME IInv, PageInv, NEW c \in Call, DecisionAnswered(c)
    PROVE  PageInv'
<1> DEFINE mine == page.card \in call[c].target
           heard == [page EXCEPT !.asked = @ \ {c}, !.pending = @ /\ ~mine]
           first == CHOOSE p \in call[c].target : TRUE
<1>1. /\ c \in page.asked /\ call[c].kind = "ANSWER" /\ begun' = begun
      /\ call' = [call EXCEPT ![c] = Idle]
  BY DEF DecisionAnswered
<1>2. heard \in Pages /\ heard.asked = page.asked \ {c}
  <2>1. (page.pending /\ ~mine) \in BOOLEAN
    OBVIOUS
  <2> HIDE DEF mine
  <2> QED
    BY <2>1 DEF PageInv, Pages
<1>3. \A x \in BOOLEAN : /\ [heard EXCEPT !.shown = x] \in Pages
                         /\ [heard EXCEPT !.shown = x].asked = heard.asked
  <2> HIDE DEF heard
  <2> QED
    BY <1>2 DEF Pages
<1>4. \/ page' = heard
      \/ /\ call[c].arg = "OK"
         /\ page' = Filtered([heard EXCEPT !.shown = heard.shown \/ mine], "all", first)
  BY DEF DecisionAnswered
<1>5. call[c].arg = "OK" => first \in Proposal
  <2>1. call[c].target \in SUBSET Proposal
    BY CallTypes DEF IInv
  <2>2. call[c].arg = "OK" => call[c].target # {}
    BY <1>1 DEF PageInv, AskedOK
  <2> QED
    BY <2>1, <2>2
<1>6. (heard.shown \/ mine) \in BOOLEAN
  OBVIOUS
<1> HIDE DEF heard, first, mine
<1>7. page' \in Pages /\ page'.asked = page.asked \ {c}
  <2>1. CASE page' = heard
    BY <1>2, <2>1
  <2>2. CASE call[c].arg = "OK" /\
             page' = Filtered([heard EXCEPT !.shown = heard.shown \/ mine], "all", first)
    BY <1>2, <1>3, <1>5, <1>6, <2>2, FilteredPages
  <2> QED
    BY <1>4, <2>1, <2>2
<1>8. \A d \in page'.asked : call'[d] = call[d]
  BY <1>1, <1>7 DEF IInv, Types, PageInv, Pages
<1>9. AskedOK'
  BY <1>7, <1>8 DEF PageInv, AskedOK
<1> QED
  BY <1>1, <1>7, <1>9 DEF PageInv

\* A list that is fetched, filtered or chosen from.
LEMMA PageShows ==
    ASSUME IInv, PageInv, FetchApprovals \/ (\E f \in {"waiting", "all"} : SetFilter(f))
                          \/ (\E p \in Proposal : Choose(p))
    PROVE  PageInv'
<1>1. UNCHANGED <<call, begun>>
  BY DEF FetchApprovals, SetFilter, Choose
<1>2. ASSUME FetchApprovals PROVE page' \in Pages /\ page'.asked = page.asked
  <2>1. ASSUME NEW S \in SUBSET Proposal
        PROVE  /\ [page EXCEPT !.waiting = Waiting, !.decided = S] \in Pages
               /\ [page EXCEPT !.waiting = Waiting, !.decided = S].asked = page.asked
    <3>1. Waiting \in SUBSET Proposal
      BY DEF Waiting
    <3> QED
      BY <3>1 DEF PageInv, Pages
  <2> DEFINE D == IF page.filter = "waiting" THEN {}
                  ELSE {p \in Proposal : proposal[p].decision \in {"APPROVE", "REJECT"}}
                         \ Waiting
  <2>2. D \in SUBSET Proposal /\ page' = Render([page EXCEPT !.waiting = Waiting, !.decided = D])
    BY <1>2 DEF FetchApprovals
  <2> HIDE DEF D
  <2> QED
    BY <2>1, <2>2, RenderPages
<1>3. ASSUME NEW f \in {"waiting", "all"}, SetFilter(f)
      PROVE  page' \in Pages /\ page'.asked = page.asked
  BY <1>3, FilteredPages DEF SetFilter, PageInv
<1>4. ASSUME NEW p \in Proposal, Choose(p) PROVE page' \in Pages /\ page'.asked = page.asked
  <2>1. [page EXCEPT !.chosen = p] \in Pages /\ [page EXCEPT !.chosen = p].asked = page.asked
    BY DEF PageInv, Pages
  <2> QED
    BY <1>4, <2>1, RenderPages DEF Choose
<1>5. page' \in Pages /\ page'.asked = page.asked
  BY <1>2, <1>3, <1>4
<1>6. AskedOK'
  BY <1>1, <1>5, AskedKept
<1> QED
  BY <1>1, <1>5, <1>6 DEF PageInv

LEMMA InitPage == Init => PageInv
<1> SUFFICES ASSUME Init PROVE PageInv
  OBVIOUS
<1>1. 1 \in Proposal /\ MaxCalls \in Nat
  BY DecisionsAssumption
<1>2. page \in Pages /\ page.asked = {}
  BY <1>1 DEF Init, Pages
<1>3. begun \in 0..MaxCalls
  BY <1>1 DEF Init
<1> QED
  BY <1>2, <1>3 DEF PageInv, AskedOK

LEMMA NextPage == IInv /\ PageInv /\ [Next]_vars => PageInv'
<1> SUFFICES ASSUME IInv, PageInv, [Next]_vars PROVE PageInv'
  OBVIOUS
<1>0. ASSUME UNCHANGED <<page, call, begun>> PROVE PageInv'
  BY <1>0 DEF PageInv, AskedOK
<1>1. ASSUME NEW c \in Call, TransactionStep(c) PROVE PageInv'
  <2>1. CASE Scan(c)
    <3>1. call' = [call EXCEPT ![c].scanned = TRUE, ![c].target = Affected(c)]
          /\ UNCHANGED <<page, begun>> /\ ToScan(c)
      BY <2>1 DEF Scan
    <3>2. c \notin page.asked
      <4>1. Running(c) /\ ~call[c].scanned
        BY <3>1 DEF ToScan
      <4>2. call[c].kind # "DECIDE" /\ call[c].kind # "ANSWER"
        BY <4>1, IdleTypes DEF IInv, StepsOK, Running
      <4> QED
        BY <4>2 DEF PageInv, AskedOK
    <3>3. \A d \in page.asked : call'[d] = call[d]
      BY <3>1, <3>2 DEF IInv, Types, PageInv, Pages
    <3> QED
      BY <3>1, <3>3, AskedKept DEF PageInv
  <2>2. CASE Lock(c)
    BY <2>2, LockAsks
  <2>3. CASE BreakDeadlock(c)
    <3>1. End(c, "ERROR") /\ UNCHANGED <<page, begun>>
      BY <2>3 DEF BreakDeadlock
    <3>2. Running(c)
      BY <2>3 DEF BreakDeadlock, Blockers, ToLock
    <3>3. AskedOK'
      BY <3>1, <3>2, EndAsked DEF IInv
    <3> QED
      BY <3>1, <3>3 DEF PageInv
  <2>4. CASE \E k : Commit(c, k)
    BY <2>4, CommitAsks
  <2> QED
    BY <1>1, <2>1, <2>2, <2>3, <2>4 DEF TransactionStep, DecideApproval, CreatePolicyVersion,
       SetWritesPaused, RetireTask, RetireRequest, RecordEvaluation
<1>2. ASSUME NEW c \in Call, PageStep(c) PROVE PageInv'
  BY <1>2, DecisionAsks, AnswerShows DEF PageStep
<1>3. ASSUME NEW c \in Call,
             BeginPolicy(c) \/ BeginPause(c) \/ BeginRetirement(c) \/ BeginCheck(c)
      PROVE  PageInv'
  BY <1>3, CommandAsks
<1>4. ASSUME NEW p \in Proposal, ExpireProposals(p) \/ WindowEnds(p) PROVE PageInv'
  BY <1>0, <1>4 DEF ExpireProposals, WindowEnds
<1>5. CASE UNCHANGED vars
  BY <1>0, <1>5 DEF vars
<1> QED
  BY <1>1, <1>2, <1>3, <1>4, <1>5, PageShows DEF Next

\* Every field of every row, transaction and page has a value of its type, and one
\* proposal of the task is live at most.
THEOREM TypeCorrect == Spec => []TypeOK
<1>1. Init => IInv /\ PageInv
  BY InitInvariant, InitPage
<1>2. IInv /\ PageInv /\ [Next]_vars => (IInv /\ PageInv)'
  BY NextInvariant, NextPage
<1>3. IInv /\ PageInv => TypeOK
  <2> SUFFICES ASSUME IInv, PageInv PROVE TypeOK
    OBVIOUS
  <2>1. Cardinality(Live) <= 1
    <3>1. CASE Live = {}
      BY <3>1, FS_EmptySet
    <3>2. CASE Live # {}
      <4>1. PICK p : Live = {p}
        BY <3>2 DEF IInv, OneLive
      <4>2. Cardinality({p}) = 1
        BY FS_Singleton, Zenon
      <4>3. Cardinality(Live) = 1
        BY <4>1, <4>2, Zenon
      <4> QED
        BY <4>3
    <3> QED
      BY <3>1, <3>2
  <2> QED
    BY <2>1 DEF IInv, PageInv, Types, TypeOK
<1> QED
  BY <1>1, <1>2, <1>3, PTL DEF Spec
=============================================================================
