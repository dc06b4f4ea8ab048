---------------------------- MODULE Registration -----------------------------
(***************************************************************************)
(* How a customer's request becomes an immutable authority: the form of    *)
(* register-request-page.tsx, the preview and the confirmation of          *)
(* packages/database/src/requests.ts, corrections, retirement, and the     *)
(* connections a preview is bound to.                                      *)
(*                                                                         *)
(* A confirmation is cut before its transaction: what it loads before is   *)
(* only read, and checked again there.  The browser may give up on it      *)
(* while the server goes on.  On the server a preview is one step: it      *)
(* inserts a row, and the confirmation checks again what it saw.  The      *)
(* proposals that a correction or a retirement ends are the subject of     *)
(* Recovery's WithdrawRequest.  Time is counted in ticks up to MaxNow.     *)
(***************************************************************************)
EXTENDS Integers, FiniteSets

CONSTANTS
    Tab,            \* open pages with the form, of one owner
    Call,           \* confirmations the server may work on at a time
    Preview,        \* rows of app.registration_previews, used in order
    Request,        \* rows of app.authorized_requests, used in order
    Subscription,   \* subscriptions
    Adapter,        \* evidence sources: one connection row each
    At,             \* At[s]: the source that has subscription s
    Snapshot,       \* the material facts a read may show
    TTL,            \* LIMITS.REGISTRATION_PREVIEW_TTL_SECONDS
    Cutoff,         \* LIMITS.RECOVERY_CUTOFF_SECONDS
    MaxNow,         \* bound: the last tick
    MaxEvents,      \* bound: lost answers, commands, changes
    Env,            \* what may happen besides undisturbed progress
    NONE            \* no row, call or source

ASSUME RegistrationAssumption ==
    /\ At \in [Subscription -> Adapter]
    /\ Snapshot \subseteq [active : BOOLEAN, end : Nat, flag : BOOLEAN]
    /\ TTL \in Nat /\ Cutoff \in Nat /\ MaxNow \in Nat /\ MaxEvents \in Nat
    /\ Preview \subseteq Nat /\ Request \subseteq Nat
    /\ NONE \notin Tab \cup Call \cup Preview \cup Request \cup Subscription \cup Adapter
    /\ Env \subseteq {"lost", "source", "retire", "switch", "configure"}

VARIABLES
    now,        \* the clock
    source,     \* source[s]: the subscription as a read would show it
    connection, \* connection[a]: the connection row of source a
    selected,   \* the connection with is_active
    preview,    \* preview[p]
    request,    \* request[r]
    call,       \* call[c]: the local variables of a confirmation
    form,       \* form[t]: the state of the page
    events      \* how much of the bound is used

server == <<connection, selected, preview, request>>
world == <<now, source, events>>
vars == <<now, source, connection, selected, preview, request, call, form, events>>

Connections == [health : {"NOT_CHECKED", "CONNECTED"}, config : 0..MaxEvents]

NoSnapshot == [active |-> FALSE, end |-> 0, flag |-> FALSE]

NoPreview == [status |-> "NONE", sub |-> NONE, adapter |-> NONE, config |-> 0,
              snapshot |-> NoSnapshot, prior |-> NONE, expires |-> 0]

Offered ==
    [status : {"LIVE", "CONSUMED"}, sub : Subscription, adapter : Adapter,
     config : 0..MaxEvents, snapshot : Snapshot, prior : Request \cup {NONE},
     expires : 0..MaxNow + TTL]

Previews == {NoPreview} \cup Offered

NoRequest == [status |-> "NONE", group |-> NONE, version |-> 0, sub |-> NONE,
              adapter |-> NONE, config |-> 0, snapshot |-> NoSnapshot, from |-> NONE]

\* from: the preview it was confirmed with.  The row does not have it.
Authorities ==
    [status : {"ACTIVE", "SUPERSEDED", "RETIRED"}, group : Request,
     version : Nat, sub : Subscription, adapter : Adapter, config : 0..MaxEvents,
     snapshot : Snapshot, from : Preview]

Requests == {NoRequest} \cup Authorities

NoCall == [pc |-> "IDLE", preview |-> NONE, adapter |-> NONE, config |-> 0,
           snapshot |-> NoSnapshot, error |-> "NONE"]

Errors == {"NONE", "PREVIEW_EXPIRED", "PREVIEW_STALE", "ERROR"}

Calls ==
    [pc : {"IDLE", "CHECKS", "TX", "ANSWER"}, preview : Preview \cup {NONE},
     adapter : Adapter \cup {NONE}, config : 0..MaxEvents,
     snapshot : Snapshot \cup {NoSnapshot}, error : Errors]

\* What a preview on its way was asked for.
NoQuestion == [sub |-> NONE, prior |-> NONE]

NoForm == [sub |-> NONE, listed |-> [s \in Subscription |-> NONE],
           supersede |-> FALSE, asked |-> NoQuestion, preview |-> NONE,
           waiting |-> NONE]

Questions == [sub : Subscription, prior : Request \cup {NONE}]

Forms ==
    [sub : Subscription \cup {NONE}, listed : [Subscription -> Request \cup {NONE}],
     supersede : BOOLEAN, asked : Questions \cup {NoQuestion},
     preview : Preview \cup {NONE}, waiting : Call \cup {NONE}]

TypeOK ==
    /\ now \in 0..MaxNow /\ source \in [Subscription -> Snapshot]
    /\ connection \in [Adapter -> Connections] /\ selected \in Adapter
    /\ preview \in [Preview -> Previews] /\ request \in [Request -> Requests]
    /\ call \in [Call -> Calls] /\ form \in [Tab -> Forms]
    /\ events \in 0..MaxEvents

Event(e) ==
    /\ e \in Env /\ events < MaxEvents
    /\ events' = events + 1

\* The first row that is not in use.
Unused(i, table, empty) ==
    table[i] = empty /\ \A j \in DOMAIN table : table[j] = empty => i <= j

\* Onboarding has configured and selected a source; another may be configured as well.
Init ==
    /\ now = 0 /\ source \in [Subscription -> Snapshot] /\ events = 0
    /\ selected \in Adapter
    /\ connection \in [Adapter -> [health : {"NOT_CHECKED", "CONNECTED"}, config : {0}]]
    /\ connection[selected].health = "CONNECTED"
    /\ preview = [p \in Preview |-> NoPreview]
    /\ request = [r \in Request |-> NoRequest]
    /\ call = [c \in Call |-> NoCall]
    /\ form = [t \in Tab |-> NoForm]
-----------------------------------------------------------------------------
(***************************************************************************)
(* What a read lets register.                                              *)
(***************************************************************************)

\* assertRegistrable: an active subscription whose period has time left.
Registrable(x) == x.active /\ x.end > now + Cutoff

\* What reading s through the connection of a shows, when it can be registered.
Readable(s, a) == At[s] = a /\ Registrable(source[s])

ActiveFor(s) == {r \in Request : request[r].status = "ACTIVE" /\ request[r].sub = s
                                 /\ request[r].adapter = selected}

Expired(p) == preview[p].expires <= now
-----------------------------------------------------------------------------
(***************************************************************************)
(* The page.                                                               *)
(***************************************************************************)

\* The list of subscriptions, each with the active request it was read with:
\* the map keeps one of several.
ListSubscriptions(t) ==
    /\ \E listed \in [Subscription -> Request \cup {NONE}] :
         /\ \A s \in Subscription :
              IF ActiveFor(s) = {} THEN listed[s] = NONE ELSE listed[s] \in ActiveFor(s)
         /\ form' = [form EXCEPT ![t].listed = listed]
    /\ UNCHANGED <<server, world, call>>

Select(t, s) ==
    /\ At[s] = selected
    /\ form' = [form EXCEPT ![t].sub = s, ![t].supersede = FALSE, ![t].preview = NONE]
    /\ UNCHANGED <<server, world, call>>

\* "Register a corrected version", offered for a subscription listed with a request.
ToggleSupersede(t) ==
    /\ form[t].sub # NONE /\ form[t].listed[form[t].sub] # NONE
    /\ form' = [form EXCEPT ![t].supersede = ~@, ![t].preview = NONE]
    /\ UNCHANGED <<server, world, call>>

\* The request to correct: the one listed, when the box is ticked.
Prior(t) == IF form[t].supersede THEN form[t].listed[form[t].sub] ELSE NONE

\* The button or Enter in the form asks for a preview of what is selected; the
\* button is off while the subscription is listed with a request and no
\* correction is meant, Enter is not.
RunPreview(t) ==
    /\ form[t].sub # NONE /\ form[t].asked = NoQuestion
    /\ form' = [form EXCEPT ![t].asked = [sub |-> form[t].sub, prior |-> Prior(t)],
                            ![t].preview = NONE]
    /\ UNCHANGED <<server, world, call>>

\* previewRequest accepts what it is asked to correct.
Correctable(q) ==
    q.prior # NONE => request[q.prior].status = "ACTIVE" /\ request[q.prior].sub = q.sub

\* previewRequest, and its answer: the page shows it, whatever is selected by now.
PreviewAnswers(t) ==
    LET q == form[t].asked IN
    /\ q # NoQuestion
    /\ Correctable(q) /\ Readable(q.sub, selected)
    /\ \E p \in Preview :
         /\ Unused(p, preview, NoPreview)
         /\ preview' = [preview EXCEPT ![p] =
              [status |-> "LIVE", sub |-> q.sub, adapter |-> selected,
               config |-> connection[selected].config, snapshot |-> source[q.sub],
               prior |-> q.prior, expires |-> now + TTL]]
         /\ form' = [form EXCEPT ![t].asked = NoQuestion, ![t].preview = p]
    /\ connection' = [connection EXCEPT ![selected].health = "CONNECTED"]
    /\ UNCHANGED <<selected, request, world, call>>

\* A refusal, a failed read or a failed fetch, which may happen at any time: no
\* preview.
PreviewFails(t) ==
    /\ form[t].asked # NoQuestion
    /\ form' = [form EXCEPT ![t].asked = NoQuestion]
    /\ UNCHANGED <<server, world, call>>

\* The page shows its preview while it is valid, with the button that confirms it.
\* The button needs the box that confirms the customer's wish to be ticked, Enter
\* in the form does not: whether it is ticked is left out.
Confirmable(t) ==
    /\ form[t].preview # NONE /\ ~Expired(form[t].preview)
    /\ form[t].waiting = NONE

Confirm(t) ==
    /\ Confirmable(t)
    /\ \E c \in Call :
         /\ call[c].pc = "IDLE"
         /\ call' = [call EXCEPT ![c] = [NoCall EXCEPT !.pc = "CHECKS",
                                                       !.preview = form[t].preview]]
         /\ form' = [form EXCEPT ![t].waiting = c]
    /\ UNCHANGED <<server, world>>

\* fetch failed: the page stops waiting and keeps its preview.  The server does not
\* notice; what it has still to say is lost.
Unreachable(t) ==
    LET c == form[t].waiting IN
    /\ c # NONE /\ Event("lost")
    /\ form' = [form EXCEPT ![t].waiting = NONE]
    /\ call' = IF call[c].pc = "ANSWER" THEN [call EXCEPT ![c] = NoCall] ELSE call
    /\ UNCHANGED <<server, now, source>>

-----------------------------------------------------------------------------
(***************************************************************************)
(* confirmRequest.                                                         *)
(***************************************************************************)

\* The handler ends, with an error or without: its answer is for the page that waits.
End(c, e) ==
    LET heard == \E t \in Tab : form[t].waiting = c IN
    call' = [call EXCEPT ![c] =
               IF heard THEN [NoCall EXCEPT !.pc = "ANSWER", !.error = e] ELSE NoCall]

\* The preview was made with this connection as it is now.
SameSource(p) ==
    selected = preview[p].adapter /\ connection[selected].config = preview[p].config

\* The fingerprint of a fresh read is that of the preview.
SameFactsButDate(p) == source[preview[p].sub].active = preview[p].snapshot.active

SameFacts(p) == source[preview[p].sub] = preview[p].snapshot

\* The preview can be consumed.
UsableInTime(p) == ~Expired(p)

UsableOnce(p) == preview[p].status = "LIVE"

Usable(p) == preview[p].status = "LIVE" /\ ~Expired(p)

\* The checks before the transaction: the preview, its connection, then the source,
\* which must show the material facts of the preview; any read may fail.
ConfirmChecks(c) ==
    LET p == call[c].preview  s == preview[p].sub IN
    /\ call[c].pc = "CHECKS"
    /\ \/ ~Usable(p) /\ End(c, "PREVIEW_EXPIRED")
       \/ Usable(p) /\ ~SameSource(p) /\ End(c, "PREVIEW_STALE")
       \/ Usable(p) /\ SameSource(p) /\ End(c, "ERROR")
       \/ /\ Usable(p) /\ SameSource(p) /\ Readable(s, selected)
          /\ IF ~SameFacts(p) THEN End(c, "PREVIEW_STALE")
             ELSE call' = [call EXCEPT ![c] = [@ EXCEPT !.pc = "TX",
                                 !.adapter = selected, !.snapshot = source[s],
                                 !.config = connection[selected].config]]
    /\ UNCHANGED <<server, world, form>>

\* The version before the new one, which insertAuthorizedRequest locks.
PriorKnown(p) ==
    preview[p].prior # NONE => request[preview[p].prior].status # "NONE"

PriorActive(p) ==
    preview[p].prior # NONE => request[preview[p].prior].status = "ACTIVE"

\* insertAuthorizedRequest: a first version, or the next one of the prior's group.
Registered(c, r) ==
    LET p == call[c].preview  prior == preview[p].prior IN
    [status |-> "ACTIVE",
     group |-> IF prior = NONE THEN r ELSE request[prior].group,
     version |-> IF prior = NONE THEN 1 ELSE request[prior].version + 1,
     sub |-> preview[p].sub, adapter |-> call[c].adapter, config |-> call[c].config,
     snapshot |-> call[c].snapshot, from |-> p]

CorrectedUnknown(prior) ==
    [r \in Request |-> IF r = prior THEN [request[r] EXCEPT !.status = "CORRECTED"]
                       ELSE request[r]]

\* The prior version ends in the transaction that registers the new one.
Corrected(prior) ==
    [r \in Request |-> IF r = prior THEN [request[r] EXCEPT !.status = "SUPERSEDED"]
                       ELSE request[r]]

\* The transaction: consume the preview, end the version before, insert.
ConfirmTx(c) ==
    LET p == call[c].preview IN
    /\ call[c].pc = "TX" /\ Usable(p) /\ PriorActive(p)
    /\ \E r \in Request :
         /\ Unused(r, request, NoRequest)
         /\ request' = [Corrected(preview[p].prior) EXCEPT ![r] = Registered(c, r)]
    /\ End(c, "NONE")
    /\ preview' = [preview EXCEPT ![p].status = "CONSUMED"]
    /\ UNCHANGED <<connection, selected, world, form>>

\* The transaction rolls back: REQUEST_NOT_ACTIVE is an error like others.
ConfirmRefused(c) ==
    LET p == call[c].preview IN
    /\ call[c].pc = "TX" /\ ~(Usable(p) /\ PriorActive(p))
    /\ End(c, IF Usable(p) THEN "ERROR" ELSE "PREVIEW_EXPIRED")
    /\ UNCHANGED <<server, world, form>>

\* The answer reaches the page.  It shows the registered request until the form is
\* used again, from its start.
Answer(c) ==
    LET e == call[c].error
        Shows(f) ==
          IF f.waiting # c THEN f
          ELSE IF e = "NONE" THEN [NoForm EXCEPT !.listed = f.listed, !.asked = f.asked]
          ELSE IF e = "ERROR" THEN [f EXCEPT !.waiting = NONE]
          ELSE [f EXCEPT !.waiting = NONE, !.preview = NONE]
    IN
    /\ call[c].pc = "ANSWER"
    /\ form' = [t \in Tab |-> Shows(form[t])]
    /\ call' = [call EXCEPT ![c] = NoCall]
    /\ UNCHANGED <<server, world>>
-----------------------------------------------------------------------------
(***************************************************************************)
(* Commands, the source and time.                                          *)
(***************************************************************************)

RetireRequest(r) ==
    /\ request[r].status = "ACTIVE" /\ Event("retire")
    /\ request' = [request EXCEPT ![r].status = "RETIRED"]
    /\ UNCHANGED <<connection, selected, preview, now, source, call, form>>

\* configureLocalSandbox: the account of the workspace may be another than before;
\* then checkConnection, which the source answers.
ConfigureSource(a) ==
    /\ Event("configure")
    /\ \E changed \in {0, 1} :
         connection' = [connection EXCEPT ![a] = [health |-> "CONNECTED",
                                                  config |-> @.config + changed]]
    /\ UNCHANGED <<selected, preview, request, now, source, call, form>>

\* The settings page has a button for a source that is connected and not in use.
MayActivate(a) == connection[a].health = "CONNECTED" /\ selected # a

ActivateConnection(a) ==
    /\ MayActivate(a) /\ Event("switch")
    /\ selected' = a
    /\ UNCHANGED <<connection, preview, request, now, source, call, form>>

SourceChanges(s, x) ==
    /\ source[s] # x /\ Event("source")
    /\ source' = [source EXCEPT ![s] = x]
    /\ UNCHANGED <<server, now, call, form>>

Tick ==
    /\ now < MaxNow
    /\ now' = now + 1
    /\ UNCHANGED <<server, source, events, call, form>>

PageStep(t) ==
    \/ ListSubscriptions(t) \/ ToggleSupersede(t) \/ RunPreview(t) \/ PreviewAnswers(t)
    \/ PreviewFails(t) \/ Confirm(t) \/ Unreachable(t)
    \/ \E s \in Subscription : Select(t, s)

ConfirmStep(c) ==
    ConfirmChecks(c) \/ ConfirmTx(c) \/ ConfirmRefused(c) \/ Answer(c)

EnvironmentStep ==
    \/ \E r \in Request : RetireRequest(r)
    \/ \E a \in Adapter : ConfigureSource(a) \/ ActivateConnection(a)
    \/ \E s \in Subscription, x \in Snapshot : SourceChanges(s, x)
    \/ Tick

Next ==
    \/ \E t \in Tab : PageStep(t)
    \/ \E c \in Call : ConfirmStep(c)
    \/ EnvironmentStep

Spec == Init /\ [][Next]_vars
-----------------------------------------------------------------------------
(***************************************************************************)
(* Properties.                                                             *)
(***************************************************************************)

Exists(r) == request[r].status # "NONE"

\* What a request authorizes is what its preview showed, read again through the
\* same configuration of the same connection (requests.ts:168-177): nothing that
\* changes between the preview and the commit gets into the authority.
BoundaryIsPreviewed ==
    \A r \in Request : Exists(r) =>
      LET p == preview[request[r].from] IN
      /\ p.status = "CONSUMED"
      /\ <<request[r].sub, request[r].adapter, request[r].config, request[r].snapshot>>
           = <<p.sub, p.adapter, p.config, p.snapshot>>

\* A preview is one-use (DATA-MODEL.md:26), also when a page that heard nothing of
\* its first confirmation confirms again while the first is still running.
PreviewUsedOnce ==
    \A r, q \in Request : Exists(r) /\ Exists(q) /\ request[r].from = request[q].from => r = q

\* The versions of a group are 1, 2, 3... of one subscription, and all but the last
\* have ended (DATA-MODEL.md:27), however corrections and retirements interleave.
GroupHistory ==
    \A r, q \in Request : Exists(r) /\ Exists(q) /\ request[r].group = request[q].group =>
      /\ request[r].sub = request[q].sub
      /\ request[r].version = request[q].version => r = q
      /\ request[r].version < request[q].version => request[r].status # "ACTIVE"

\* An authority starts from a preview that is still in time at the commit
\* (requests.ts:180-185), however long the read before it took.
RegisteredInTime ==
    [][\A r \in Request : ~Exists(r) /\ Exists(r)' =>
         preview[request'[r].from].expires > now]_vars
=============================================================================
