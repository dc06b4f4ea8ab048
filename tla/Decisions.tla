----------------------------- MODULE Decisions -------------------------------
(***************************************************************************)
(* The transactions that decide about the proposals of one task, statement *)
(* by statement, and the pages of the owner that start them: the decision  *)
(* (decideApproval), a new policy, the pause of writes, the retirement of  *)
(* the task or its request, a check that ends in a proposal                *)
(* (recordEvaluation) and the end of the approval window.                  *)
(*                                                                         *)
(* A statement that locks a row waits for the transactions that hold it in *)
(* a mode that conflicts; an UPDATE finds its rows first and looks again   *)
(* when it has them.  Transactions lock in different orders, so they can   *)
(* wait for each other: the database then aborts one.  What is written     *)
(* counts from the commit.  What becomes of an authorized proposal is      *)
(* Recovery's; the shown recovery state of the task is left out.           *)
(***************************************************************************)
EXTENDS Integers, Sequences, FiniteSets, FiniteSetsExt

CONSTANTS
    Proposal,   \* rows of app.recovery_proposals of the task, used in order
    Call,       \* transactions at a time
    MaxCalls,   \* bound: transactions begun
    NONE

ASSUME DecisionsAssumption ==
    /\ Proposal \subseteq Nat /\ IsFiniteSet(Proposal)
    /\ 1 \in Proposal /\ NONE \notin Proposal \cup Call
    /\ MaxCalls \in Nat

VARIABLES
    policy,     \* the current policy version
    paused,     \* writes_paused
    active,     \* the request is ACTIVE
    retired,    \* the task is retired
    proposal,   \* proposal[p]: the row and its decision
    call,       \* call[c]: a transaction
    page,       \* approvals-page.tsx
    begun       \* how much of the bound is used

authority == <<policy, paused, active, retired>>
vars == <<policy, paused, active, retired, proposal, call, page, begun>>

Mode == {"OBSERVE_ONLY", "REQUIRE_APPROVAL", "AUTO_RECOVER"}
Version == Nat \ {0}

Policies == [version : Version, mode : Mode]

\* due: expires_at has passed.
NoProposal == [status |-> "NONE", version |-> 0, decision |-> "NONE", due |-> FALSE]

Proposals ==
    {NoProposal} \cup
    [status : {"AWAITING_APPROVAL", "AUTHORIZED", "REJECTED", "EXPIRED", "SUPERSEDED",
               "BLOCKED"},
     version : Version, decision : {"NONE", "APPROVE", "REJECT", "AUTO_POLICY"},
     due : BOOLEAN]

LiveStatus == {"AWAITING_APPROVAL", "AUTHORIZED", "BLOCKED"}

Live == {p \in Proposal : proposal[p].status \in LiveStatus}

Waiting == {p \in Proposal : proposal[p].status = "AWAITING_APPROVAL" /\ ~proposal[p].due}

(***************************************************************************)
(* Row locks: PostgreSQL's modes, and which exclude each other.            *)
(***************************************************************************)
Conflicts ==
    {<<"UPDATE", "UPDATE">>, <<"UPDATE", "NO KEY UPDATE">>, <<"UPDATE", "SHARE">>,
     <<"UPDATE", "KEY SHARE">>, <<"NO KEY UPDATE", "NO KEY UPDATE">>,
     <<"NO KEY UPDATE", "SHARE">>}

Exclude(m, n) == <<m, n>> \in Conflicts \/ <<n, m>> \in Conflicts

\* The locks that a transaction takes, in its order: by FOR UPDATE and FOR SHARE, by
\* what it updates, by the foreign keys of what it inserts.  A lock that follows a
\* stronger one of the same row, or that no other of them can block, is left out.
Plan ==
    [DECIDE |-> << <<"PROPOSAL", "UPDATE">>, <<"WORKSPACE", "SHARE">>,
                   <<"TASK", "NO KEY UPDATE">> >>,
     POLICY |-> << <<"WORKSPACE", "UPDATE">>, <<"PROPOSAL", "NO KEY UPDATE">>,
                   <<"TASK", "NO KEY UPDATE">> >>,
     PAUSE |-> << <<"WORKSPACE", "UPDATE">>, <<"PROPOSAL", "NO KEY UPDATE">> >>,
     RETIRE_TASK |-> << <<"TASK", "NO KEY UPDATE">>, <<"PROPOSAL", "NO KEY UPDATE">>,
                        <<"WORKSPACE", "KEY SHARE">> >>,
     RETIRE_REQUEST |-> << <<"REQUEST", "NO KEY UPDATE">>, <<"PROPOSAL", "NO KEY UPDATE">>,
                           <<"WORKSPACE", "KEY SHARE">>, <<"TASK", "KEY SHARE">> >>,
     EVALUATE |-> << <<"TASK", "UPDATE">>, <<"WORKSPACE", "KEY SHARE">>,
                     <<"PROPOSAL", "UPDATE">> >>]

Kind == DOMAIN Plan

NoContext == [version |-> 0, mode |-> "NONE", paused |-> FALSE, active |-> FALSE]

\* step: how many locks it has taken; target: the proposal it found, if any; arg:
\* what is asked for; context: what a check loaded before its transaction.
Idle == [kind |-> "NONE", step |-> 0, scanned |-> FALSE, target |-> {}, arg |-> "NONE",
         context |-> NoContext]

Contexts == [version : Version, mode : Mode, paused : BOOLEAN, active : BOOLEAN]

Arguments == Mode \cup {"APPROVE", "REJECT", "PAUSE", "RESUME"}

Calls ==
    [kind : Kind \cup {"NONE", "ANSWER"}, step : 0..4, scanned : BOOLEAN,
     target : SUBSET Proposal, arg : Arguments \cup {"NONE", "OK", "REFUSED", "ERROR"},
     context : Contexts \cup {NoContext}]

\* waiting, decided: the items as fetched; card: the proposal whose card is mounted;
\* pending, shown: its card waits for an answer, shows one; asked: the calls that
\* have one to give.
Pages ==
    [filter : {"waiting", "all"}, chosen : Proposal \cup {NONE},
     waiting : SUBSET Proposal, decided : SUBSET Proposal, card : Proposal \cup {NONE},
     pending : BOOLEAN, shown : BOOLEAN, asked : SUBSET Call]

\* With the index that allows one live proposal of a task: no check runs into it.
TypeOK ==
    /\ policy \in Policies /\ paused \in BOOLEAN /\ active \in BOOLEAN /\ retired \in BOOLEAN
    /\ proposal \in [Proposal -> Proposals] /\ call \in [Call -> Calls]
    /\ page \in Pages /\ begun \in 0..MaxCalls
    /\ Cardinality(Live) <= 1

\* A check has found a mismatch and proposes a recovery; the pages are open.
Init ==
    /\ policy = [version |-> 1, mode |-> "REQUIRE_APPROVAL"]
    /\ paused = FALSE /\ active = TRUE /\ retired = FALSE
    /\ proposal = [p \in Proposal |-> IF p # 1 THEN NoProposal ELSE
                     [status |-> "AWAITING_APPROVAL", version |-> 1, decision |-> "NONE",
                      due |-> FALSE]]
    /\ call = [c \in Call |-> Idle]
    /\ page = [filter |-> "waiting", chosen |-> NONE, waiting |-> {1}, decided |-> {},
               card |-> 1, pending |-> FALSE, shown |-> FALSE, asked |-> {}]
    /\ begun = 0
-----------------------------------------------------------------------------
(***************************************************************************)
(* A transaction.                                                          *)
(***************************************************************************)

\* It is begun by a page, an owner's command or a worker.
Begin(c, k, target, arg, context) ==
    /\ call[c] = Idle /\ begun < MaxCalls
    /\ begun' = begun + 1
    /\ call' = [call EXCEPT ![c] =
         [kind |-> k, step |-> 0, scanned |-> arg \in {"APPROVE", "REJECT", "PAUSE"},
          target |-> target, arg |-> arg, context |-> context]]

\* It ends, with a commit or without; what a page waits for is its answer.
End(c, answer) ==
    call' = [call EXCEPT ![c] =
      IF c \in page.asked
      THEN [Idle EXCEPT !.kind = "ANSWER", !.target = call[c].target,
                        !.arg = answer]
      ELSE Idle]

Steps(c) == Plan[call[c].kind]

Running(c) == call[c].kind \in Kind

Complete(c) == Running(c) /\ call[c].step = Len(Steps(c))

AffectedUndecided(c) == {p \in Proposal : proposal[p].status \in
                           IF call[c].kind = "PAUSE" THEN {"BLOCKED"}
                           ELSE {"AWAITING_APPROVAL", "BLOCKED"}}

\* The proposals that an UPDATE or a SELECT FOR UPDATE of c is about.
Affected(c) == {p \in Proposal : proposal[p].status \in
                  IF call[c].kind = "PAUSE" THEN {"BLOCKED"} ELSE LiveStatus}

\* Without a proposal there is nothing to lock: the rest of the plan goes on.
Void(c, i) ==
    /\ call[c].target = {}
    /\ Steps(c)[i][1] = "PROPOSAL" \/ (call[c].kind = "POLICY" /\ i > 1)

Held(c) == IF Running(c) THEN {Steps(c)[i] : i \in {j \in 1..call[c].step : ~Void(c, j)}}
           ELSE {}

\* The statement that finds the proposal comes before its lock.
ToScan(c) ==
    /\ Running(c) /\ ~Complete(c) /\ ~call[c].scanned
    /\ Steps(c)[call[c].step + 1][1] = "PROPOSAL"

ToLock(c) == Running(c) /\ ~Complete(c) /\ ~ToScan(c)

\* The transactions that c waits for.
Blockers(c) ==
    IF ~ToLock(c) \/ Void(c, call[c].step + 1) THEN {}
    ELSE LET want == Steps(c)[call[c].step + 1] IN
         {d \in Call \ {c} : \E lock \in Held(d) :
            /\ lock[1] = want[1] /\ Exclude(lock[2], want[2])
            /\ want[1] = "PROPOSAL" => call[c].target \cap call[d].target # {}}

Scan(c) ==
    /\ ToScan(c)
    /\ call' = [call EXCEPT ![c].scanned = TRUE, ![c].target = Affected(c)]
    /\ UNCHANGED <<authority, proposal, page, begun>>

DecisionRefusedByMode(c, n) ==
    \/ n = 1 /\ call[c].target \cap Waiting = {}
    \/ n = 2 /\ (~active \/ policy.mode = "OBSERVE_ONLY")

\* What ends it early, once it has its first, second... lock.
DecisionRefused(c, n) ==
    \/ n = 1 /\ call[c].target \cap Waiting = {}
    \/ n = 2 /\ \/ ~active
                \/ policy.mode = "OBSERVE_ONLY"
                \/ \E p \in call[c].target : proposal[p].version # policy.version

NothingToDo(c, n) ==
    /\ n = 1
    /\ CASE call[c].kind = "POLICY" -> policy.mode = call[c].arg
         [] call[c].kind = "PAUSE" -> paused = (call[c].arg = "PAUSE")
         [] call[c].kind = "RETIRE_TASK" -> retired
         [] call[c].kind = "RETIRE_REQUEST" -> ~active
         [] OTHER -> FALSE

\* A lock is granted; a row found before is looked at again.
Lock(c) ==
    LET n == call[c].step + 1  k == call[c].kind IN
    /\ ToLock(c) /\ Blockers(c) = {}
    /\ IF k = "DECIDE" /\ DecisionRefused(c, n) THEN End(c, "REFUSED")
       ELSE IF NothingToDo(c, n) THEN End(c, "OK")
       ELSE call' = [call EXCEPT ![c].step = n, ![c].target =
              IF Steps(c)[n][1] = "PROPOSAL" THEN @ \cap Affected(c) ELSE @]
    /\ UNCHANGED <<authority, proposal, page, begun>>

\* The database finds transactions that wait for each other and aborts one: an
\* INTERNAL_ERROR for a page, a failed job for a worker.
BreakDeadlock(c) ==
    /\ \E S \in SUBSET Call :
         /\ c \in S
         /\ \A d \in S : Blockers(d) \cap S # {}
         /\ \A d \in S : \E e \in S : d \in Blockers(e)
    /\ End(c, "ERROR")
    /\ UNCHANGED <<authority, proposal, page, begun>>
-----------------------------------------------------------------------------
(***************************************************************************)
(* The commits.                                                            *)
(***************************************************************************)

Superseded(S) ==
    [p \in Proposal |-> IF p \in S THEN [proposal[p] EXCEPT !.status = "SUPERSEDED"]
                        ELSE proposal[p]]

Commit(c, k) ==
    /\ Complete(c) /\ call[c].kind = k
    /\ End(c, "OK")
    /\ UNCHANGED <<page, begun>>

DecideApproval(c) ==
    /\ Commit(c, "DECIDE")
    /\ proposal' = [p \in Proposal |-> IF p \notin call[c].target THEN proposal[p]
         ELSE [proposal[p] EXCEPT !.decision = call[c].arg, !.status =
                 IF call[c].arg = "APPROVE" THEN "AUTHORIZED" ELSE "REJECTED"]]
    /\ UNCHANGED authority

CreatePolicyVersion(c) ==
    /\ Commit(c, "POLICY")
    /\ policy' = [version |-> policy.version + 1, mode |-> call[c].arg]
    /\ proposal' = Superseded(call[c].target)
    /\ UNCHANGED <<paused, active, retired>>

SetWritesPaused(c) ==
    /\ Commit(c, "PAUSE")
    /\ paused' = (call[c].arg = "PAUSE")
    /\ proposal' = Superseded(call[c].target)
    /\ UNCHANGED <<policy, active, retired>>

RetireTask(c) ==
    /\ Commit(c, "RETIRE_TASK")
    /\ retired' = TRUE
    /\ proposal' = Superseded(call[c].target)
    /\ UNCHANGED <<policy, paused, active>>

RetireRequest(c) ==
    /\ Commit(c, "RETIRE_REQUEST")
    /\ active' = FALSE
    /\ proposal' = Superseded(call[c].target)
    /\ UNCHANGED <<policy, paused, retired>>

\* The proposal of a mismatch, under the authority that the check has loaded.
Proposed(context) ==
    LET status == IF context.mode = "REQUIRE_APPROVAL" THEN "AWAITING_APPROVAL"
                  ELSE IF context.paused THEN "BLOCKED" ELSE "AUTHORIZED" IN
    [status |-> status, version |-> context.version, due |-> FALSE,
     decision |-> IF status = "AUTHORIZED" THEN "AUTO_POLICY" ELSE "NONE"]

Unused(p) == proposal[p] = NoProposal /\ \A q \in Proposal : proposal[q] = NoProposal => p <= q

\* recordEvaluation: what is found decides whether the live proposal stays (nothing
\* could be verified, or it is still the right one), goes, or makes room for another.
RecordEvaluation(c) ==
    LET context == call[c].context IN
    /\ Commit(c, "EVALUATE")
    /\ \/ proposal' = proposal
       \/ proposal' = Superseded(call[c].target)
       \/ /\ context.active /\ context.mode # "OBSERVE_ONLY"
          /\ \E p \in Proposal :
               /\ Unused(p)
               /\ proposal' = [Superseded(call[c].target) EXCEPT ![p] = Proposed(context)]
    /\ UNCHANGED authority

\* expireProposals: one statement, a transaction of its own.
ExpireProposals(p) ==
    /\ proposal[p].due /\ proposal[p].status \in {"AWAITING_APPROVAL", "BLOCKED"}
    /\ \A c \in Call : p \in call[c].target => \A lock \in Held(c) : lock[1] # "PROPOSAL"
    /\ proposal' = [proposal EXCEPT ![p].status = "EXPIRED"]
    /\ UNCHANGED <<authority, call, page, begun>>

WindowEnds(p) ==
    /\ p \in Live /\ ~proposal[p].due
    /\ proposal' = [proposal EXCEPT ![p].due = TRUE]
    /\ UNCHANGED <<authority, call, page, begun>>
-----------------------------------------------------------------------------
(***************************************************************************)
(* Commands without a page of their own here, and checks.                  *)
(***************************************************************************)

\* Any mode: the settings page saves another than the one it shows, which may be an
\* earlier one, or closes without; the dialog that automatic recovery asks for adds
\* a confirmation before the same call.
BeginPolicy(c) ==
    /\ \E mode \in Mode : Begin(c, "POLICY", {}, mode, NoContext)
    /\ UNCHANGED <<authority, proposal, page>>

\* The pause is switched on a page that may show an earlier state, one call at a time;
\* the reason beside the switch is left out.
BeginPause(c) ==
    /\ \E arg \in {"PAUSE", "RESUME"} : Begin(c, "PAUSE", {}, arg, NoContext)
    /\ UNCHANGED <<authority, proposal, page>>

\* The dialog of a retirement asks for a reason, which is left out, and stays open
\* after a failed call.
BeginRetirement(c) ==
    /\ \E k \in {"RETIRE_TASK", "RETIRE_REQUEST"} : Begin(c, k, {}, "NONE", NoContext)
    /\ UNCHANGED <<authority, proposal, page>>

\* loadTaskContext and the source read come before the transaction of a check.  Of
\* two checks the older is fenced: see Monitoring.
BeginCheck(c) ==
    /\ ~retired /\ \A d \in Call : call[d].kind # "EVALUATE"
    /\ Begin(c, "EVALUATE", {}, "NONE",
             [version |-> policy.version, mode |-> policy.mode, paused |-> paused,
              active |-> active])
    /\ UNCHANGED <<authority, proposal, page>>
-----------------------------------------------------------------------------
(***************************************************************************)
(* The approvals page: a list that is fetched again and again, and the     *)
(* card of the proposal selected in it.                                    *)
(***************************************************************************)

\* The chosen item, or the first: those that wait come first, the newest on top.
Selected(pg) ==
    LET items == IF pg.waiting # {} THEN pg.waiting ELSE pg.decided IN
    IF pg.chosen \in pg.waiting \cup pg.decided THEN pg.chosen
    ELSE IF items = {} THEN NONE ELSE Max(items)

\* The card is keyed by its proposal: another one starts with a state of its own.
Render(pg) ==
    IF Selected(pg) = pg.card THEN pg
    ELSE [pg EXCEPT !.card = Selected(pg), !.pending = FALSE, !.shown = FALSE]

\* listApprovals
FetchApprovals ==
    /\ page' = Render([page EXCEPT !.waiting = Waiting, !.decided =
         IF page.filter = "waiting" THEN {}
         ELSE {p \in Proposal : proposal[p].decision \in {"APPROVE", "REJECT"}} \ Waiting])
    /\ UNCHANGED <<authority, proposal, call, begun>>

\* Another filter is another query, with nothing fetched yet.
Filtered(pg, f, p) ==
    IF f = pg.filter THEN Render([pg EXCEPT !.chosen = p])
    ELSE Render([pg EXCEPT !.filter = f, !.chosen = p, !.waiting = {}, !.decided = {}])

SetFilter(f) ==
    /\ page' = Filtered(page, f, NONE)
    /\ UNCHANGED <<authority, proposal, call, begun>>

Choose(p) ==
    /\ p \in page.waiting \cup page.decided
    /\ page' = Render([page EXCEPT !.chosen = p])
    /\ UNCHANGED <<authority, proposal, call, begun>>

\* The buttons of a card that is waiting as fetched, and in time by its countdown.
Decide(c, decision) ==
    /\ page.card \in page.waiting /\ ~proposal[page.card].due
    /\ ~page.pending /\ ~page.shown
    /\ Begin(c, "DECIDE", {page.card}, decision, NoContext)
    /\ page' = [page EXCEPT !.pending = TRUE, !.asked = @ \cup {c}]
    /\ UNCHANGED <<authority, proposal>>

\* A decision that was recorded keeps its proposal on screen, among all.
DecisionAnswered(c) ==
    LET mine == page.card \in call[c].target
        heard == [page EXCEPT !.asked = @ \ {c}, !.pending = @ /\ ~mine]
    IN
    /\ c \in page.asked /\ call[c].kind = "ANSWER"
    /\ page' = IF call[c].arg # "OK" THEN heard
               ELSE Filtered([heard EXCEPT !.shown = @ \/ mine], "all",
                             CHOOSE p \in call[c].target : TRUE)
    /\ call' = [call EXCEPT ![c] = Idle]
    /\ UNCHANGED <<authority, proposal, begun>>
-----------------------------------------------------------------------------
TransactionStep(c) ==
    \/ Scan(c) \/ Lock(c) \/ BreakDeadlock(c)
    \/ DecideApproval(c) \/ CreatePolicyVersion(c) \/ SetWritesPaused(c)
    \/ RetireTask(c) \/ RetireRequest(c) \/ RecordEvaluation(c)

PageStep(c) ==
    \/ \E decision \in {"APPROVE", "REJECT"} : Decide(c, decision)
    \/ DecisionAnswered(c)

Next ==
    \/ \E c \in Call : \/ TransactionStep(c)
                      \/ PageStep(c)
                      \/ BeginPolicy(c) \/ BeginPause(c) \/ BeginRetirement(c) \/ BeginCheck(c)
    \/ \E p \in Proposal : ExpireProposals(p) \/ WindowEnds(p) \/ Choose(p)
    \/ \E f \in {"waiting", "all"} : SetFilter(f)
    \/ FetchApprovals

Spec == Init /\ [][Next]_vars
-----------------------------------------------------------------------------
(***************************************************************************)
(* Properties.                                                             *)
(***************************************************************************)

\* While a person's approval stands, it was given under the policy that applies now,
\* and that policy allows recoveries (recovery.ts:107, workspaces.ts:270-276): a
\* decision and a new policy that overlap in any order leave no authorization of the
\* policy before.
ApprovalIsCurrent ==
    \A p \in Proposal :
      proposal[p].status = "AUTHORIZED" /\ proposal[p].decision = "APPROVE" =>
        proposal[p].version = policy.version /\ policy.mode # "OBSERVE_ONLY"
=============================================================================
