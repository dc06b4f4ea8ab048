------------------------- MODULE RegistrationProofs --------------------------
(***************************************************************************)
(* The invariants of Registration, for any pages, calls, rows, sources and *)
(* bounds.                                                                 *)
(***************************************************************************)
EXTENDS Registration, TLAPS

\* A connection is configured anew only by an event.
ConfigIsCounted == \A a \in Adapter : connection[a].config <= events

\* A confirmation at work has a preview; past its checks, what it holds in its local
\* variables is what that preview showed.
CallKnowsItsPreview ==
    \A c \in Call :
      LET p == call[c].preview IN
      /\ call[c].pc \in {"CHECKS", "TX"} => p \in Preview
      /\ call[c].pc = "TX" =>
           /\ preview[p] \in Offered
           /\ call[c].adapter = preview[p].adapter
           /\ call[c].config = preview[p].config
           /\ call[c].snapshot = preview[p].snapshot

\* A preview of a correction was made of an authority for the same subscription.
PreviewKnowsItsPrior ==
    \A p \in Preview :
      LET prior == preview[p].prior IN
      prior # NONE => Exists(prior) /\ request[prior].sub = preview[p].sub

\* A group is named by its first row, so an unused row names none.
GroupIsARow == \A r \in Request : Exists(r) => Exists(request[r].group)

IInv ==
    /\ TypeOK /\ ConfigIsCounted
    /\ CallKnowsItsPreview /\ PreviewKnowsItsPrior /\ GroupIsARow
    /\ BoundaryIsPreviewed /\ PreviewUsedOnce /\ GroupHistory
-----------------------------------------------------------------------------
(***************************************************************************)
(* Types.                                                                  *)
(***************************************************************************)

USE DEF Event, Unused, server, world

\* The empty rows and pages are well typed.
LEMMA EmptyTypes ==
    /\ NoPreview \in Previews /\ NoPreview \notin Offered
    /\ NoRequest \in Requests /\ NoRequest \notin Authorities
    /\ NoCall \in Calls /\ NoForm \in Forms
<1>1. NoPreview \in Previews /\ NoPreview \notin Offered
  BY DEF NoPreview, Previews, Offered
<1>2. NoRequest \in Requests /\ NoRequest \notin Authorities
  BY DEF NoRequest, Requests, Authorities
<1>3. NoCall \in Calls
  BY RegistrationAssumption DEF NoCall, Calls, Errors
<1>4. NoForm \in Forms
  BY DEF NoForm, Forms
<1> QED
  BY <1>1, <1>2, <1>3, <1>4

\* What End leaves in a call is well typed.
LEMMA EndTypes ==
    ASSUME TypeOK, NEW c \in Call, NEW e \in Errors, End(c, e)
    PROVE  call' \in [Call -> Calls]
<1>1. [NoCall EXCEPT !.pc = "ANSWER", !.error = e] \in Calls
  BY EmptyTypes DEF Calls
<1> QED
  BY <1>1, EmptyTypes DEF TypeOK, End

\* What the steps of a page do to its state is well typed.
LEMMA FormTypes ==
    ASSUME NEW f \in Forms
    PROVE  /\ [f EXCEPT !.supersede = ~@, !.preview = NONE] \in Forms
           /\ \A s \in Subscription :
                [f EXCEPT !.sub = s, !.supersede = FALSE, !.preview = NONE] \in Forms
           /\ \A q \in Questions : [f EXCEPT !.asked = q, !.preview = NONE] \in Forms
           /\ \A p \in Preview : [f EXCEPT !.asked = NoQuestion, !.preview = p] \in Forms
           /\ [f EXCEPT !.asked = NoQuestion] \in Forms
           /\ \A c \in Call \cup {NONE} : [f EXCEPT !.waiting = c] \in Forms
           /\ [f EXCEPT !.waiting = NONE, !.preview = NONE] \in Forms
           /\ [NoForm EXCEPT !.listed = f.listed, !.asked = f.asked] \in Forms
<1>1. /\ f.sub \in Subscription \cup {NONE}
      /\ f.listed \in [Subscription -> Request \cup {NONE}]
      /\ f.supersede \in BOOLEAN /\ f.asked \in Questions \cup {NoQuestion}
      /\ f.preview \in Preview \cup {NONE} /\ f.waiting \in Call \cup {NONE}
      /\ f = [sub |-> f.sub, listed |-> f.listed, supersede |-> f.supersede,
              asked |-> f.asked, preview |-> f.preview, waiting |-> f.waiting]
  BY DEF Forms
<1>2. (~f.supersede) \in BOOLEAN
  OBVIOUS
<1>3. [f EXCEPT !.supersede = ~@, !.preview = NONE] \in Forms
  BY <1>1, <1>2 DEF Forms
<1>4. \A s \in Subscription :
        [f EXCEPT !.sub = s, !.supersede = FALSE, !.preview = NONE] \in Forms
  BY <1>1 DEF Forms
<1>5. \A q \in Questions : [f EXCEPT !.asked = q, !.preview = NONE] \in Forms
  BY <1>1 DEF Forms
<1>6. \A p \in Preview : [f EXCEPT !.asked = NoQuestion, !.preview = p] \in Forms
  BY <1>1 DEF Forms
<1>7. [f EXCEPT !.asked = NoQuestion] \in Forms
  BY <1>1 DEF Forms
<1>8. \A c \in Call \cup {NONE} : [f EXCEPT !.waiting = c] \in Forms
  BY <1>1 DEF Forms
<1>9. [f EXCEPT !.waiting = NONE, !.preview = NONE] \in Forms
  BY <1>1 DEF Forms
<1>10. [NoForm EXCEPT !.listed = f.listed, !.asked = f.asked] \in Forms
  BY <1>1 DEF NoForm, Forms
<1> QED
  BY <1>3, <1>4, <1>5, <1>6, <1>7, <1>8, <1>9, <1>10

\* An event keeps within its bound, and the configurations within the events.
LEMMA EventTypes ==
    ASSUME TypeOK, ConfigIsCounted, NEW e, Event(e)
    PROVE  events' \in 0..MaxEvents /\ (connection' = connection => ConfigIsCounted')
<1>1. events' \in 0..MaxEvents /\ events' = events + 1 /\ events \in Nat
  BY RegistrationAssumption DEF TypeOK
<1>2. \A a \in Adapter : connection[a].config \in Nat
  BY DEF TypeOK, Connections
<1> QED
  BY <1>1, <1>2 DEF ConfigIsCounted

LEMMA InitTypes == Init => TypeOK /\ ConfigIsCounted
<1> SUFFICES ASSUME Init PROVE TypeOK /\ ConfigIsCounted
  OBVIOUS
<1>1. now \in 0..MaxNow /\ events \in 0..MaxEvents /\ selected \in Adapter
  BY RegistrationAssumption DEF Init
<1>2. connection \in [Adapter -> Connections]
  BY RegistrationAssumption DEF Init, Connections
<1>3. /\ preview \in [Preview -> Previews] /\ request \in [Request -> Requests]
      /\ call \in [Call -> Calls] /\ form \in [Tab -> Forms]
  BY EmptyTypes DEF Init
<1>4. ConfigIsCounted
  BY DEF Init, ConfigIsCounted
<1> QED
  BY <1>1, <1>2, <1>3, <1>4 DEF TypeOK, Init

\* The steps of the page keep the types.
LEMMA PageTypes ==
    ASSUME TypeOK, ConfigIsCounted, NEW t \in Tab, PageStep(t)
    PROVE  TypeOK' /\ ConfigIsCounted'
<1> USE RegistrationAssumption, EmptyTypes
<1>1. CASE ListSubscriptions(t)
  <2>1. PICK listed \in [Subscription -> Request \cup {NONE}] :
          form' = [form EXCEPT ![t].listed = listed]
    BY <1>1 DEF ListSubscriptions
  <2>2. form' \in [Tab -> Forms]
    BY <2>1 DEF TypeOK, Forms
  <2> QED
    BY <1>1, <2>2 DEF ListSubscriptions, TypeOK, ConfigIsCounted
<1>2. CASE ToggleSupersede(t)
  <2>1. form' \in [Tab -> Forms]
    BY <1>2, FormTypes DEF ToggleSupersede, TypeOK
  <2> QED
    BY <1>2, <2>1 DEF ToggleSupersede, TypeOK, ConfigIsCounted
<1>3. CASE RunPreview(t)
  <2>1. form[t] \in Forms
    BY DEF TypeOK
  <2>2. form[t].sub \in Subscription /\ Prior(t) \in Request \cup {NONE}
    BY <1>3, <2>1 DEF RunPreview, Prior, Forms
  <2>3. [sub |-> form[t].sub, prior |-> Prior(t)] \in Questions
    BY <2>2 DEF Questions
  <2>4. form' \in [Tab -> Forms]
    BY <1>3, <2>3, FormTypes DEF RunPreview, TypeOK
  <2> QED
    BY <1>3, <2>4 DEF RunPreview, TypeOK, ConfigIsCounted
<1>4. CASE PreviewAnswers(t)
  <2> DEFINE q == form[t].asked
  <2>1. q \in Questions
    BY <1>4 DEF PreviewAnswers, TypeOK, Forms
  <2>2. PICK p \in Preview :
          /\ preview' = [preview EXCEPT ![p] =
               [status |-> "LIVE", sub |-> q.sub, adapter |-> selected,
                config |-> connection[selected].config, snapshot |-> source[q.sub],
                prior |-> q.prior, expires |-> now + TTL]]
          /\ form' = [form EXCEPT ![t].asked = NoQuestion, ![t].preview = p]
    BY <1>4 DEF PreviewAnswers
  <2>3. /\ q.sub \in Subscription /\ q.prior \in Request \cup {NONE}
        /\ source[q.sub] \in Snapshot /\ now + TTL \in 0..MaxNow + TTL
        /\ connection[selected].config \in 0..MaxEvents
    BY <2>1 DEF Questions, TypeOK, Connections
  <2>4. preview' \in [Preview -> Previews]
    BY <2>2, <2>3 DEF TypeOK, Previews, Offered
  <2>5. form' \in [Tab -> Forms]
    BY <2>2, FormTypes DEF TypeOK
  <2>6. connection' = [connection EXCEPT ![selected].health = "CONNECTED"]
    BY <1>4 DEF PreviewAnswers
  <2>7. connection' \in [Adapter -> Connections] /\ ConfigIsCounted'
    BY <1>4, <2>6 DEF PreviewAnswers, TypeOK, Connections, ConfigIsCounted
  <2> QED
    BY <1>4, <2>4, <2>5, <2>7 DEF PreviewAnswers, TypeOK
<1>5. CASE PreviewFails(t)
  <2>1. form' \in [Tab -> Forms]
    BY <1>5, FormTypes DEF PreviewFails, TypeOK
  <2> QED
    BY <1>5, <2>1 DEF PreviewFails, TypeOK, ConfigIsCounted
<1>6. CASE Confirm(t)
  <2>1. PICK c \in Call :
          /\ call' = [call EXCEPT ![c] = [NoCall EXCEPT !.pc = "CHECKS",
                                                        !.preview = form[t].preview]]
          /\ form' = [form EXCEPT ![t].waiting = c]
    BY <1>6 DEF Confirm, Confirmable
  <2>2. form[t].preview \in Preview
    BY <1>6 DEF Confirm, Confirmable, TypeOK, Forms
  <2>3. [NoCall EXCEPT !.pc = "CHECKS", !.preview = form[t].preview] \in Calls
    BY <2>2 DEF NoCall, Calls, Errors
  <2>4. call' \in [Call -> Calls] /\ form' \in [Tab -> Forms]
    BY <2>1, <2>3, FormTypes DEF TypeOK
  <2> QED
    BY <1>6, <2>4 DEF Confirm, Confirmable, TypeOK, ConfigIsCounted
<1>7. CASE Unreachable(t)
  <2>1. form' \in [Tab -> Forms]
    BY <1>7, FormTypes DEF Unreachable, TypeOK
  <2>2. call' \in [Call -> Calls]
    BY <1>7 DEF Unreachable, TypeOK
  <2> QED
    BY <1>7, <2>1, <2>2, EventTypes DEF Unreachable, TypeOK
<1>8. ASSUME NEW s \in Subscription, Select(t, s) PROVE TypeOK' /\ ConfigIsCounted'
  <2>1. form' \in [Tab -> Forms]
    BY <1>8, FormTypes DEF Select, TypeOK
  <2> QED
    BY <1>8, <2>1 DEF Select, TypeOK, ConfigIsCounted
<1> QED
  BY <1>1, <1>2, <1>3, <1>4, <1>5, <1>6, <1>7, <1>8 DEF PageStep

\* A preview in use is a row the server has written, an authority too.
LEMMA RealRows ==
    ASSUME TypeOK
    PROVE  /\ \A p \in Preview : preview[p].status # "NONE" => preview[p] \in Offered
           /\ \A r \in Request : Exists(r) => request[r] \in Authorities
BY DEF TypeOK, Previews, NoPreview, Requests, NoRequest, Exists

\* The row that a confirmation inserts, and the one whose version it ends.
LEMMA RegisteredTypes ==
    ASSUME TypeOK, CallKnowsItsPreview, NEW c \in Call, NEW r \in Request,
           call[c].pc = "TX", PriorActive(call[c].preview)
    PROVE  /\ Registered(c, r) \in Authorities
           /\ Corrected(preview[call[c].preview].prior) \in [Request -> Requests]
<1> DEFINE p == call[c].preview  prior == preview[p].prior
<1> USE RegistrationAssumption
<1>1. p \in Preview /\ preview[p] \in Offered
  BY DEF CallKnowsItsPreview
<1>2. /\ prior \in Request \cup {NONE} /\ preview[p].sub \in Subscription
      /\ call[c].adapter \in Adapter /\ call[c].config \in 0..MaxEvents
      /\ call[c].snapshot \in Snapshot
  BY <1>1 DEF CallKnowsItsPreview, Offered
<1>3. prior # NONE => request[prior] \in Authorities
  BY <1>2, RealRows DEF PriorActive, Exists
<1>4. /\ (IF prior = NONE THEN r ELSE request[prior].group) \in Request
      /\ (IF prior = NONE THEN 1 ELSE request[prior].version + 1) \in Nat
  BY <1>3 DEF Authorities
<1>5. Registered(c, r) \in Authorities
  BY <1>1, <1>2, <1>4 DEF Registered, Authorities
<1>6. \A i \in Request : i = prior =>
        [request[i] EXCEPT !.status = "SUPERSEDED"] \in Authorities
  BY <1>3 DEF Authorities
<1>7. Corrected(prior) \in [Request -> Requests]
  BY <1>6 DEF Corrected, Requests, TypeOK
<1> QED
  BY <1>5, <1>7

\* The steps of a confirmation keep the types.
LEMMA ConfirmTypes ==
    ASSUME TypeOK, ConfigIsCounted, CallKnowsItsPreview, NEW c \in Call, ConfirmStep(c)
    PROVE  TypeOK' /\ ConfigIsCounted'
<1> USE RegistrationAssumption, EmptyTypes
<1> DEFINE p == call[c].preview
<1>0. {"NONE", "PREVIEW_EXPIRED", "PREVIEW_STALE", "ERROR"} \subseteq Errors
  BY DEF Errors
<1>1. CASE ConfirmChecks(c)
  <2>1. ASSUME Usable(p), Readable(preview[p].sub, selected),
               call' = [call EXCEPT ![c] = [@ EXCEPT !.pc = "TX",
                          !.adapter = selected, !.snapshot = source[preview[p].sub],
                          !.config = connection[selected].config]]
        PROVE  call' \in [Call -> Calls]
    <3>1. p \in Preview /\ preview[p] \in Offered
      BY <1>1, <2>1, RealRows DEF ConfirmChecks, CallKnowsItsPreview, Usable
    <3>2. /\ source[preview[p].sub] \in Snapshot
          /\ connection[selected].config \in 0..MaxEvents /\ selected \in Adapter
      BY <3>1 DEF Offered, TypeOK, Connections
    <3> QED
      BY <2>1, <3>2, ZenonT(40) DEF TypeOK, Calls
  <2>2. call' \in [Call -> Calls]
    BY <1>0, <1>1, <2>1, EndTypes DEF ConfirmChecks
  <2> QED
    BY <1>1, <2>2 DEF ConfirmChecks, TypeOK, ConfigIsCounted
<1>2. CASE ConfirmTx(c)
  <2>1. PICK r \in Request :
          request' = [Corrected(preview[p].prior) EXCEPT ![r] = Registered(c, r)]
    BY <1>2 DEF ConfirmTx
  <2>2. /\ Registered(c, r) \in Authorities
        /\ Corrected(preview[p].prior) \in [Request -> Requests]
    BY <1>2, RegisteredTypes DEF ConfirmTx
  <2>3. request' \in [Request -> Requests]
    BY <2>1, <2>2 DEF Requests
  <2>4. p \in Preview /\ preview[p] \in Offered
    BY <1>2 DEF ConfirmTx, CallKnowsItsPreview
  <2>5. preview' \in [Preview -> Previews]
    BY <1>2, <2>4 DEF ConfirmTx, TypeOK, Previews, Offered
  <2>6. call' \in [Call -> Calls]
    BY <1>0, <1>2, EndTypes DEF ConfirmTx
  <2> QED
    BY <1>2, <2>3, <2>5, <2>6 DEF ConfirmTx, TypeOK, ConfigIsCounted
<1>3. CASE ConfirmRefused(c)
  <2>1. call' \in [Call -> Calls]
    BY <1>0, <1>3, EndTypes DEF ConfirmRefused
  <2> QED
    BY <1>3, <2>1 DEF ConfirmRefused, TypeOK, ConfigIsCounted
<1>4. CASE Answer(c)
  <2>1. form' \in [Tab -> Forms]
    BY <1>4, FormTypes DEF Answer, TypeOK
  <2>2. call' \in [Call -> Calls]
    BY <1>4 DEF Answer, TypeOK
  <2> QED
    BY <1>4, <2>1, <2>2 DEF Answer, TypeOK, ConfigIsCounted
<1> QED
  BY <1>1, <1>2, <1>3, <1>4 DEF ConfirmStep

\* What happens around the registration keeps the types.
LEMMA EnvironmentTypes ==
    ASSUME TypeOK, ConfigIsCounted, EnvironmentStep
    PROVE  TypeOK' /\ ConfigIsCounted'
<1> USE RegistrationAssumption
<1>1. ASSUME NEW r \in Request, RetireRequest(r) PROVE TypeOK' /\ ConfigIsCounted'
  <2>1. [request[r] EXCEPT !.status = "RETIRED"] \in Authorities
    BY <1>1, RealRows DEF RetireRequest, Exists, Authorities
  <2>2. request' \in [Request -> Requests]
    BY <1>1, <2>1 DEF RetireRequest, TypeOK, Requests
  <2> QED
    BY <1>1, <2>2, EventTypes DEF RetireRequest, TypeOK
<1>2. ASSUME NEW a \in Adapter, ConfigureSource(a) PROVE TypeOK' /\ ConfigIsCounted'
  <2>1. PICK changed \in {0, 1} :
          connection' = [connection EXCEPT ![a] = [health |-> "CONNECTED",
                                                   config |-> @.config + changed]]
    BY <1>2 DEF ConfigureSource
  <2>2. events' \in 0..MaxEvents /\ events' = events + 1
    BY <1>2 DEF ConfigureSource, TypeOK
  <2>3. \A b \in Adapter : connection[b].config \in Nat /\ connection[b].config <= events
    BY DEF TypeOK, Connections, ConfigIsCounted
  <2>4. connection[a].config + changed \in 0..MaxEvents
    BY <2>2, <2>3 DEF TypeOK
  <2>5. connection' \in [Adapter -> Connections]
    BY <2>1, <2>4 DEF TypeOK, Connections
  <2>6. ConfigIsCounted'
    BY <2>1, <2>2, <2>3 DEF TypeOK, ConfigIsCounted
  <2> QED
    BY <1>2, <2>2, <2>5, <2>6 DEF ConfigureSource, TypeOK
<1>3. ASSUME NEW a \in Adapter, ActivateConnection(a) PROVE TypeOK' /\ ConfigIsCounted'
  <2>1. events' \in 0..MaxEvents /\ ConfigIsCounted'
    BY <1>3, EventTypes DEF ActivateConnection
  <2> QED
    BY <1>3, <2>1 DEF ActivateConnection, TypeOK
<1>4. ASSUME NEW s \in Subscription, NEW x \in Snapshot, SourceChanges(s, x)
      PROVE  TypeOK' /\ ConfigIsCounted'
  <2>1. events' \in 0..MaxEvents /\ ConfigIsCounted'
    BY <1>4, EventTypes DEF SourceChanges
  <2> QED
    BY <1>4, <2>1 DEF SourceChanges, TypeOK
<1>5. CASE Tick
  BY <1>5 DEF Tick, TypeOK, ConfigIsCounted
<1> QED
  BY <1>1, <1>2, <1>3, <1>4, <1>5 DEF EnvironmentStep
-----------------------------------------------------------------------------
(***************************************************************************)
(* What a preview showed stays with it, and reaches the authority.         *)
(***************************************************************************)

\* The facts of the rows, without those of the calls.
RowFacts ==
    /\ PreviewKnowsItsPrior /\ GroupIsARow
    /\ BoundaryIsPreviewed /\ PreviewUsedOnce /\ GroupHistory

\* A call that is as it was, has ended, or has only started.
HarmlessCalls ==
    \A c \in Call : \/ call'[c] = call[c]
                    \/ call'[c].pc \in {"IDLE", "ANSWER"}
                    \/ call'[c].pc = "CHECKS" /\ call'[c].preview \in Preview

\* What a preview offers does not change any more.
OffersKept ==
    \A p \in Preview : preview[p] \in Offered =>
      /\ preview'[p] \in Offered
      /\ \A x \in {"sub", "adapter", "config", "snapshot", "prior"} :
           preview'[p][x] = preview[p][x]

LEMMA CallsKept ==
    ASSUME CallKnowsItsPreview, HarmlessCalls, OffersKept
    PROVE  CallKnowsItsPreview'
<1> SUFFICES ASSUME NEW c \in Call
             PROVE  LET p == call'[c].preview IN
                    /\ call'[c].pc \in {"CHECKS", "TX"} => p \in Preview
                    /\ call'[c].pc = "TX" =>
                         /\ preview'[p] \in Offered
                         /\ call'[c].adapter = preview'[p].adapter
                         /\ call'[c].config = preview'[p].config
                         /\ call'[c].snapshot = preview'[p].snapshot
  BY DEF CallKnowsItsPreview
<1>1. CASE call'[c] = call[c]
  <2>1. CASE call[c].pc = "TX"
    <3> DEFINE p == call[c].preview
    <3>1. p \in Preview /\ preview[p] \in Offered
      BY <2>1 DEF CallKnowsItsPreview
    <3>2. /\ preview'[p] \in Offered /\ preview'[p]["adapter"] = preview[p]["adapter"]
          /\ preview'[p]["config"] = preview[p]["config"]
          /\ preview'[p]["snapshot"] = preview[p]["snapshot"]
      BY <3>1 DEF OffersKept
    <3> QED
      BY <1>1, <2>1, <3>1, <3>2 DEF CallKnowsItsPreview
  <2>2. CASE call[c].pc # "TX"
    BY <1>1, <2>2 DEF CallKnowsItsPreview
  <2> QED
    BY <2>1, <2>2
<1>2. CASE call'[c].pc \in {"IDLE", "ANSWER"}
  BY <1>2
<1>3. CASE call'[c].pc = "CHECKS" /\ call'[c].preview \in Preview
  BY <1>3
<1> QED
  BY <1>1, <1>2, <1>3 DEF HarmlessCalls

LEMMA RowsKept ==
    ASSUME preview' = preview, request' = request, RowFacts
    PROVE  RowFacts' /\ OffersKept
BY DEF RowFacts, OffersKept, PreviewKnowsItsPrior, GroupIsARow, BoundaryIsPreviewed,
       PreviewUsedOnce, GroupHistory, Exists

\* What End does to the calls is harmless.
LEMMA EndIsHarmless ==
    ASSUME TypeOK, NEW c \in Call, NEW e, End(c, e)
    PROVE  HarmlessCalls
<1>1. [NoCall EXCEPT !.pc = "ANSWER", !.error = e].pc = "ANSWER" /\ NoCall.pc = "IDLE"
  BY DEF NoCall
<1> QED
  BY <1>1 DEF HarmlessCalls, End, TypeOK

\* The preview's own step: a row that was not in use.
LEMMA PreviewKeeps ==
    ASSUME TypeOK, RowFacts, NEW t \in Tab, PreviewAnswers(t)
    PROVE  RowFacts' /\ OffersKept
<1> DEFINE q == form[t].asked
<1>1. PICK p \in Preview :
        /\ preview[p] = NoPreview
        /\ preview' = [preview EXCEPT ![p] =
             [status |-> "LIVE", sub |-> q.sub, adapter |-> selected,
              config |-> connection[selected].config, snapshot |-> source[q.sub],
              prior |-> q.prior, expires |-> now + TTL]]
  BY DEF PreviewAnswers, Unused
<1>2. /\ request' = request /\ Correctable(q)
      /\ preview'[p].prior = q.prior /\ preview'[p].sub = q.sub
      /\ \A o \in Preview \ {p} : preview'[o] = preview[o]
  BY <1>1 DEF PreviewAnswers, TypeOK
<1>3. p \in Preview /\ preview[p].status = "NONE" /\ preview[p] \notin Offered
  BY <1>1, EmptyTypes DEF NoPreview
<1>4. OffersKept
  BY <1>2, <1>3 DEF OffersKept
<1>5. PreviewKnowsItsPrior'
  <2> SUFFICES ASSUME NEW o \in Preview, preview'[o].prior # NONE
               PROVE  /\ request'[preview'[o].prior].status # "NONE"
                      /\ request'[preview'[o].prior].sub = preview'[o].sub
    BY DEF PreviewKnowsItsPrior, Exists
  <2>1. CASE o = p
    BY <1>2, <2>1 DEF Correctable, Exists
  <2>2. CASE o # p
    BY <1>2, <2>2 DEF RowFacts, PreviewKnowsItsPrior, Exists
  <2> QED
    BY <2>1, <2>2
<1>6. BoundaryIsPreviewed'
  <2> SUFFICES ASSUME NEW r \in Request, Exists(r)
               PROVE  preview'[request[r].from] = preview[request[r].from]
    BY <1>2 DEF RowFacts, BoundaryIsPreviewed, Exists
  <2>1. request[r].from \in Preview
    BY RealRows DEF Authorities
  <2>2. preview[request[r].from].status = "CONSUMED"
    BY DEF RowFacts, BoundaryIsPreviewed
  <2> QED
    BY <1>2, <1>3, <2>1, <2>2
<1>7. GroupIsARow' /\ PreviewUsedOnce' /\ GroupHistory'
  BY <1>2 DEF RowFacts, GroupIsARow, PreviewUsedOnce, GroupHistory, Exists
<1> QED
  BY <1>4, <1>5, <1>6, <1>7 DEF RowFacts

\* A retirement changes the status of an authority that exists.
LEMMA RetirementKeeps ==
    ASSUME TypeOK, RowFacts, NEW r \in Request, RetireRequest(r)
    PROVE  RowFacts' /\ OffersKept
<1>1. request[r] \in Authorities /\ Exists(r)
  BY RealRows DEF RetireRequest, Exists
<1>2. /\ preview' = preview
      /\ request' = [request EXCEPT ![r].status = "RETIRED"]
  BY DEF RetireRequest
<1>3. \A q \in Request :
        /\ Exists(q)' <=> Exists(q)
        /\ request'[q].status = "ACTIVE" => request[q].status = "ACTIVE"
        /\ request'[q].group = request[q].group /\ request'[q].from = request[q].from
        /\ request'[q].version = request[q].version /\ request'[q].sub = request[q].sub
        /\ request'[q].adapter = request[q].adapter
        /\ request'[q].config = request[q].config
        /\ request'[q].snapshot = request[q].snapshot
  BY <1>1, <1>2 DEF TypeOK, Exists, Authorities
<1>4. \A q \in Request : Exists(q) => request[q].group \in Request
  BY RealRows DEF Authorities
<1>5. PreviewKnowsItsPrior'
  <2>1. \A p \in Preview : preview[p].prior \in Request \cup {NONE}
    BY DEF TypeOK, Previews, Offered, NoPreview
  <2> QED
    BY <1>2, <1>3, <2>1 DEF RowFacts, PreviewKnowsItsPrior
<1>6. GroupIsARow'
  BY <1>3, <1>4 DEF RowFacts, GroupIsARow
<1>7. BoundaryIsPreviewed'
  BY <1>2, <1>3 DEF RowFacts, BoundaryIsPreviewed
<1>8. PreviewUsedOnce'
  BY <1>3 DEF RowFacts, PreviewUsedOnce
<1>9. GroupHistory'
  BY <1>3 DEF RowFacts, GroupHistory
<1>10. OffersKept
  BY <1>2 DEF OffersKept
<1> QED
  BY <1>5, <1>6, <1>7, <1>8, <1>9, <1>10 DEF RowFacts

\* The commit: the preview is used up, the version before has ended, and the new
\* authority is what the preview showed.
LEMMA CommitKeeps ==
    ASSUME TypeOK, CallKnowsItsPreview, RowFacts, NEW c \in Call, ConfirmTx(c)
    PROVE  RowFacts' /\ OffersKept
<1> DEFINE p == call[c].preview  prior == preview[p].prior
<1>1. PICK r \in Request :
        /\ request[r] = NoRequest
        /\ request' = [Corrected(prior) EXCEPT ![r] = Registered(c, r)]
  BY DEF ConfirmTx, Unused
<1>2. /\ p \in Preview /\ preview[p] \in Offered /\ preview[p].status = "LIVE"
      /\ call[c].adapter = preview[p].adapter /\ call[c].config = preview[p].config
      /\ call[c].snapshot = preview[p].snapshot
      /\ preview' = [preview EXCEPT ![p].status = "CONSUMED"]
  BY DEF ConfirmTx, CallKnowsItsPreview, Usable
<1>3. /\ Registered(c, r) \in Authorities
      /\ Corrected(prior) \in [Request -> Requests]
  BY RegisteredTypes DEF ConfirmTx
<1>4. /\ prior \in Request \cup {NONE} /\ NONE \notin Request
      /\ ~Exists(r)
      /\ prior # NONE => /\ Exists(prior) /\ request[prior].status = "ACTIVE"
                         /\ request[prior].sub = preview[p].sub
                         /\ request[prior] \in Authorities
  <2>1. prior \in Request \cup {NONE} /\ NONE \notin Request
    BY <1>2, RegistrationAssumption DEF Offered
  <2>2. ~Exists(r)
    BY <1>1 DEF Exists, NoRequest
  <2>3. prior # NONE => /\ Exists(prior) /\ request[prior].status = "ACTIVE"
                        /\ request[prior].sub = preview[p].sub
    BY <1>2 DEF RowFacts, PreviewKnowsItsPrior, ConfirmTx, PriorActive
  <2> QED
    BY <2>1, <2>2, <2>3, RealRows
<1>5. /\ request'[r] = Registered(c, r)
      /\ \A q \in Request \ {r} :
           /\ Exists(q)' <=> Exists(q)
           /\ request'[q].status = "ACTIVE" => request[q].status = "ACTIVE" /\ q # prior
           /\ request'[q].group = request[q].group /\ request'[q].from = request[q].from
           /\ request'[q].version = request[q].version
           /\ request'[q].sub = request[q].sub
           /\ request'[q].adapter = request[q].adapter
           /\ request'[q].config = request[q].config
           /\ request'[q].snapshot = request[q].snapshot
  <2>1. request'[r] = Registered(c, r)
    BY <1>1, <1>3
  <2>2. \A q \in Request \ {r} : request'[q] = Corrected(prior)[q]
    BY <1>1, <1>3
  <2>3. \A q \in Request : q # prior => Corrected(prior)[q] = request[q]
    BY DEF Corrected
  <2>4. prior # NONE =>
          Corrected(prior)[prior] = [request[prior] EXCEPT !.status = "SUPERSEDED"]
    BY <1>4 DEF Corrected
  <2>5. ASSUME prior # NONE
        PROVE  LET s == [request[prior] EXCEPT !.status = "SUPERSEDED"] IN
               /\ s.status = "SUPERSEDED"
               /\ s.group = request[prior].group /\ s.from = request[prior].from
               /\ s.version = request[prior].version /\ s.sub = request[prior].sub
               /\ s.adapter = request[prior].adapter /\ s.config = request[prior].config
               /\ s.snapshot = request[prior].snapshot
    BY <1>4, <2>5 DEF Authorities
  <2>6. \A q \in Request \ {r} : q # prior => request'[q] = request[q]
    BY <2>2, <2>3
  <2>7. prior # NONE /\ prior # r =>
          request'[prior] = [request[prior] EXCEPT !.status = "SUPERSEDED"]
    BY <1>4, <2>2, <2>4
  <2> QED
    BY <1>4, <2>1, <2>5, <2>6, <2>7 DEF Exists
<1>6. /\ Exists(r)' /\ request'[r].from = p /\ request'[r].sub = preview[p].sub
      /\ request'[r].adapter = preview[p].adapter
      /\ request'[r].config = preview[p].config
      /\ request'[r].snapshot = preview[p].snapshot
      /\ request'[r].group = IF prior = NONE THEN r ELSE request[prior].group
      /\ request'[r].version = IF prior = NONE THEN 1 ELSE request[prior].version + 1
  BY <1>2, <1>5 DEF Registered, Exists
<1>7. \A q \in Request : Exists(q) =>
        /\ q # r /\ request[q] \in Authorities /\ request[q].from # p
        /\ request[q].from \in Preview /\ request[q].group # r
        /\ request[q].version \in Nat /\ request[q].group \in Request
  <2> SUFFICES ASSUME NEW q \in Request, Exists(q)
               PROVE  /\ q # r /\ request[q] \in Authorities /\ request[q].from # p
                      /\ request[q].group # r
    BY DEF Authorities
  <2>1. q # r /\ request[q] \in Authorities
    BY <1>4, RealRows
  <2>2. request[q].from # p
    BY <1>2 DEF RowFacts, BoundaryIsPreviewed
  <2>3. request[q].group # r
    BY <1>4 DEF RowFacts, GroupIsARow
  <2> QED
    BY <2>1, <2>2, <2>3
<1>8. OffersKept
  <2>1. ASSUME NEW o \in Preview, preview[o] \in Offered, o = p
        PROVE  /\ preview'[o] \in Offered
               /\ \A x \in {"sub", "adapter", "config", "snapshot", "prior"} :
                    preview'[o][x] = preview[o][x]
    BY <1>2, <2>1 DEF TypeOK, Offered
  <2>2. \A o \in Preview : o # p => preview'[o] = preview[o]
    BY <1>2 DEF TypeOK
  <2> QED
    BY <2>1, <2>2 DEF OffersKept
<1>9. PreviewKnowsItsPrior'
  <2>1. \A o \in Preview : preview'[o].prior = preview[o].prior
                           /\ preview'[o].sub = preview[o].sub
    BY <1>2 DEF TypeOK, Offered
  <2>2. \A o \in Preview : preview[o].prior \in Request \cup {NONE}
    BY DEF TypeOK, Previews, Offered, NoPreview
  <2>3. \A o \in Preview : preview[o].prior # NONE =>
          /\ Exists(preview[o].prior) /\ preview[o].prior # r
          /\ request[preview[o].prior].sub = preview[o].sub
    BY <1>4 DEF RowFacts, PreviewKnowsItsPrior
  <2> SUFFICES ASSUME NEW o \in Preview, preview'[o].prior # NONE
               PROVE  /\ request'[preview'[o].prior].status # "NONE"
                      /\ request'[preview'[o].prior].sub = preview'[o].sub
    BY DEF PreviewKnowsItsPrior, Exists
  <2> QED
    BY <1>5, <2>1, <2>2, <2>3 DEF Exists
<1>10. GroupIsARow'
  <2> SUFFICES ASSUME NEW q \in Request, Exists(q)'
               PROVE  request'[request'[q].group].status # "NONE"
    BY DEF GroupIsARow, Exists
  <2>1. \A g \in Request : Exists(g) => request'[g].status # "NONE"
    BY <1>5, <1>7 DEF Exists
  <2>2. request'[r].status # "NONE"
    BY <1>6 DEF Exists
  <2>3. CASE q = r
    <3>1. CASE prior = NONE
      BY <1>6, <2>2, <2>3, <3>1
    <3>2. CASE prior # NONE
      <4>1. Exists(prior) /\ prior \in Request
        BY <1>4, <3>2
      <4>2. Exists(request[prior].group) /\ request[prior].group \in Request
        BY <1>7, <4>1 DEF RowFacts, GroupIsARow
      <4> QED
        BY <1>6, <2>1, <2>3, <3>2, <4>2
    <3> QED
      BY <3>1, <3>2
  <2>4. CASE q # r
    <3>1. Exists(q) /\ request'[q].group = request[q].group
      BY <1>5, <2>4
    <3>2. Exists(request[q].group) /\ request[q].group \in Request
      BY <1>7, <3>1 DEF RowFacts, GroupIsARow
    <3> QED
      BY <2>1, <3>1, <3>2
  <2> QED
    BY <2>3, <2>4
<1>11. BoundaryIsPreviewed'
  <2>1. /\ preview'[p].status = "CONSUMED" /\ preview'[p].sub = preview[p].sub
        /\ preview'[p].adapter = preview[p].adapter
        /\ preview'[p].config = preview[p].config
        /\ preview'[p].snapshot = preview[p].snapshot
        /\ \A o \in Preview : o # p => preview'[o] = preview[o]
    BY <1>2 DEF TypeOK, Offered
  <2> SUFFICES ASSUME NEW q \in Request, Exists(q)'
               PROVE  LET o == preview'[request'[q].from] IN
                      /\ o.status = "CONSUMED"
                      /\ request'[q].sub = o.sub /\ request'[q].adapter = o.adapter
                      /\ request'[q].config = o.config
                      /\ request'[q].snapshot = o.snapshot
    BY DEF BoundaryIsPreviewed
  <2>2. CASE q = r
    BY <1>6, <2>1, <2>2
  <2>3. CASE q # r
    <3>1. /\ Exists(q) /\ request'[q].from = request[q].from
          /\ preview'[request[q].from] = preview[request[q].from]
      BY <1>5, <1>7, <2>1, <2>3
    <3>2. LET o == preview[request[q].from] IN
          /\ o.status = "CONSUMED"
          /\ request[q].sub = o.sub /\ request[q].adapter = o.adapter
          /\ request[q].config = o.config /\ request[q].snapshot = o.snapshot
      BY <3>1 DEF RowFacts, BoundaryIsPreviewed
    <3> QED
      BY <1>5, <2>3, <3>1, <3>2
  <2> QED
    BY <2>2, <2>3
<1>12. PreviewUsedOnce'
  <2> SUFFICES ASSUME NEW q1 \in Request, NEW q2 \in Request, Exists(q1)', Exists(q2)',
                      request'[q1].from = request'[q2].from
               PROVE  q1 = q2
    BY DEF PreviewUsedOnce
  <2> QED
    BY <1>5, <1>6, <1>7 DEF RowFacts, PreviewUsedOnce
<1>13. GroupHistory'
  <2> SUFFICES ASSUME NEW q1 \in Request, NEW q2 \in Request, Exists(q1)', Exists(q2)',
                      request'[q1].group = request'[q2].group
               PROVE  /\ request'[q1].sub = request'[q2].sub
                      /\ request'[q1].version = request'[q2].version => q1 = q2
                      /\ request'[q1].version < request'[q2].version
                           => request'[q1].status # "ACTIVE"
    BY DEF GroupHistory
  <2>1. CASE q1 # r /\ q2 # r
    BY <1>5, <2>1 DEF RowFacts, GroupHistory
  <2>2. CASE q1 = r /\ q2 = r
    <3>1. request'[r].version \in Nat
      BY <1>3, <1>5 DEF Authorities
    <3> QED
      BY <2>2, <3>1
  <2>3. ASSUME NEW q \in Request, q # r, Exists(q)', request'[q].group = request'[r].group
        PROVE  /\ request'[q].sub = request'[r].sub
               /\ request'[q].version < request'[r].version
               /\ request'[q].status # "ACTIVE"
    <3>1. /\ Exists(q) /\ request[q].group = request'[r].group
          /\ request[q].group # r /\ request[q].version \in Nat
      BY <1>5, <1>7, <2>3
    <3>2. /\ prior # NONE /\ Exists(prior) /\ prior \in Request
          /\ request[prior].status = "ACTIVE" /\ request[prior].version \in Nat
          /\ request'[r].version = request[prior].version + 1
          /\ request[q].group = request[prior].group
          /\ request[prior].sub = preview[p].sub
      BY <1>4, <1>6, <1>7, <3>1
    <3>3. /\ request[q].sub = request[prior].sub
          /\ request[q].version = request[prior].version => q = prior
          /\ request[q].version < request[prior].version => request[q].status # "ACTIVE"
          /\ ~(request[prior].version < request[q].version)
      BY <3>1, <3>2 DEF RowFacts, GroupHistory
    <3>4. request[q].version <= request[prior].version
      BY <3>1, <3>2, <3>3
    <3>5. request'[q].sub = request'[r].sub
      BY <1>5, <1>6, <2>3, <3>2, <3>3
    <3>6. request'[q].version < request'[r].version
      BY <1>5, <2>3, <3>1, <3>2, <3>4, SMTT(30)
    <3>7. request'[q].status # "ACTIVE"
      BY <1>5, <2>3, <3>1, <3>2, <3>3, <3>4, SMTT(30)
    <3> QED
      BY <3>5, <3>6, <3>7
  <2>4. request'[r].version \in Nat /\ \A q \in Request \ {r} :
          Exists(q)' => request'[q].version \in Nat
    BY <1>3, <1>5, <1>7 DEF Authorities
  <2>5. CASE q1 = r /\ q2 # r
    BY <2>3, <2>4, <2>5
  <2>6. CASE q1 # r /\ q2 = r
    BY <2>3, <2>4, <2>6
  <2> QED
    BY <2>1, <2>2, <2>5, <2>6
<1> QED
  BY <1>8, <1>9, <1>10, <1>11, <1>12, <1>13 DEF RowFacts
-----------------------------------------------------------------------------
(***************************************************************************)
(* The theorems.                                                           *)
(***************************************************************************)

\* Nothing is registered at first.
LEMMA InitInvariant == Init => IInv
<1> SUFFICES ASSUME Init PROVE IInv
  OBVIOUS
<1>1. TypeOK /\ ConfigIsCounted
  BY InitTypes
<1>2. CallKnowsItsPreview
  BY DEF Init, CallKnowsItsPreview, NoCall
<1>3. PreviewKnowsItsPrior
  BY DEF Init, PreviewKnowsItsPrior, NoPreview
<1>4. GroupIsARow /\ BoundaryIsPreviewed /\ PreviewUsedOnce /\ GroupHistory
  BY DEF Init, GroupIsARow, BoundaryIsPreviewed, PreviewUsedOnce, GroupHistory, Exists,
         NoRequest
<1> QED
  BY <1>1, <1>2, <1>3, <1>4 DEF IInv

\* Every step keeps the invariant.
LEMMA NextInvariant == IInv /\ [Next]_vars => IInv'
<1> SUFFICES ASSUME IInv, [Next]_vars PROVE IInv'
  OBVIOUS
<1>1. TypeOK /\ ConfigIsCounted /\ CallKnowsItsPreview /\ RowFacts
  BY DEF IInv, RowFacts
<1>2. ASSUME TypeOK', ConfigIsCounted', RowFacts', OffersKept, HarmlessCalls PROVE IInv'
  BY <1>1, <1>2, CallsKept DEF IInv, RowFacts
<1>3. ASSUME NEW t \in Tab, PageStep(t) PROVE IInv'
  <2>1. TypeOK' /\ ConfigIsCounted'
    BY <1>1, <1>3, PageTypes
  <2>2. CASE PreviewAnswers(t)
    <3>1. HarmlessCalls
      BY <2>2 DEF PreviewAnswers, HarmlessCalls
    <3> QED
      BY <1>1, <1>2, <2>1, <2>2, <3>1, PreviewKeeps
  <2>3. CASE Confirm(t)
    <3>1. form[t].preview \in Preview
      BY <1>1, <2>3 DEF Confirm, Confirmable, TypeOK, Forms
    <3>2. HarmlessCalls
      BY <1>1, <2>3, <3>1 DEF Confirm, Confirmable, HarmlessCalls, NoCall, TypeOK
    <3> QED
      BY <1>1, <1>2, <2>1, <2>3, <3>2, RowsKept DEF Confirm, Confirmable
  <2>4. CASE Unreachable(t)
    <3>1. HarmlessCalls
      BY <1>1, <2>4 DEF Unreachable, HarmlessCalls, NoCall, TypeOK
    <3> QED
      BY <1>1, <1>2, <2>1, <2>4, <3>1, RowsKept DEF Unreachable
  <2>5. CASE \/ ListSubscriptions(t) \/ ToggleSupersede(t) \/ RunPreview(t)
             \/ PreviewFails(t) \/ \E s \in Subscription : Select(t, s)
    <3>1. call' = call /\ preview' = preview /\ request' = request
      BY <2>5 DEF ListSubscriptions, ToggleSupersede, RunPreview, PreviewFails, Select
    <3>2. HarmlessCalls
      BY <3>1 DEF HarmlessCalls
    <3> QED
      BY <1>1, <1>2, <2>1, <3>1, <3>2, RowsKept
  <2> QED
    BY <1>3, <2>2, <2>3, <2>4, <2>5 DEF PageStep
<1>4. ASSUME NEW c \in Call, ConfirmStep(c) PROVE IInv'
  <2>1. TypeOK' /\ ConfigIsCounted'
    BY <1>1, <1>4, ConfirmTypes
  <2>2. CASE ConfirmChecks(c)
    <3> DEFINE p == call[c].preview
    <3>1. CASE \E e \in Errors : End(c, e)
      <4>1. preview' = preview /\ request' = request
        BY <2>2 DEF ConfirmChecks
      <4> QED
        BY <1>1, <1>2, <2>1, <3>1, <4>1, EndIsHarmless, RowsKept
    <3>2. CASE /\ Usable(p)
               /\ SameFacts(p) /\ SameSource(p)
               /\ call' = [call EXCEPT ![c] = [@ EXCEPT !.pc = "TX",
                             !.adapter = selected, !.snapshot = source[preview[p].sub],
                             !.config = connection[selected].config]]
      <4>1. preview' = preview /\ request' = request
        BY <2>2 DEF ConfirmChecks
      <4>2. p \in Preview /\ preview[p] \in Offered
        BY <1>1, <2>2, <3>2, RealRows DEF ConfirmChecks, CallKnowsItsPreview, Usable
      <4>3. /\ call'[c].pc = "TX" /\ call'[c].preview = p
            /\ call'[c].adapter = preview[p].adapter
            /\ call'[c].config = preview[p].config
            /\ call'[c].snapshot = preview[p].snapshot
            /\ \A d \in Call : d # c => call'[d] = call[d]
        BY <1>1, <3>2 DEF SameFacts, SameSource, TypeOK, Calls
      <4>4. CallKnowsItsPreview'
        BY <1>1, <4>1, <4>2, <4>3 DEF CallKnowsItsPreview
      <4> QED
        BY <1>1, <2>1, <4>1, <4>4, RowsKept DEF IInv, RowFacts
    <3> QED
      BY <2>2, <3>1, <3>2 DEF ConfirmChecks, Errors
  <2>3. CASE ConfirmTx(c)
    BY <1>1, <1>2, <2>1, <2>3, CommitKeeps, EndIsHarmless DEF ConfirmTx
  <2>4. CASE ConfirmRefused(c)
    BY <1>1, <1>2, <2>1, <2>4, RowsKept, EndIsHarmless DEF ConfirmRefused
  <2>5. CASE Answer(c)
    <3>1. HarmlessCalls
      BY <1>1, <2>5 DEF Answer, HarmlessCalls, NoCall, TypeOK
    <3> QED
      BY <1>1, <1>2, <2>1, <2>5, <3>1, RowsKept DEF Answer
  <2> QED
    BY <1>4, <2>2, <2>3, <2>4, <2>5 DEF ConfirmStep
<1>5. CASE EnvironmentStep
  <2>1. TypeOK' /\ ConfigIsCounted'
    BY <1>1, <1>5, EnvironmentTypes
  <2>2. HarmlessCalls
    BY <1>5 DEF EnvironmentStep, RetireRequest, ConfigureSource, ActivateConnection,
                SourceChanges, Tick, HarmlessCalls
  <2>3. CASE \E r \in Request : RetireRequest(r)
    BY <1>1, <1>2, <2>1, <2>2, <2>3, RetirementKeeps
  <2>4. CASE ~\E r \in Request : RetireRequest(r)
    <3>1. preview' = preview /\ request' = request
      BY <1>5, <2>4 DEF EnvironmentStep, ConfigureSource, ActivateConnection,
                        SourceChanges, Tick
    <3> QED
      BY <1>1, <1>2, <2>1, <2>2, <3>1, RowsKept
  <2> QED
    BY <2>3, <2>4
<1>6. CASE UNCHANGED vars
  BY <1>6 DEF vars, IInv, TypeOK, ConfigIsCounted, CallKnowsItsPreview,
              PreviewKnowsItsPrior, GroupIsARow, BoundaryIsPreviewed, PreviewUsedOnce,
              GroupHistory, Exists
<1> QED
  BY <1>3, <1>4, <1>5, <1>6 DEF Next

\* In every reachable state the invariant holds.
THEOREM RegistrationInvariant == Spec => []IInv
<1> QED
  BY InitInvariant, NextInvariant, PTL DEF Spec

\* The types, for any numbers of pages, calls, rows and sources.
THEOREM RegistrationTypes == Spec => []TypeOK
<1>1. IInv => TypeOK
  BY DEF IInv
<1> QED
  BY <1>1, RegistrationInvariant, PTL

\* An authority is what its preview showed, through the configuration it was shown by.
THEOREM BoundaryAlwaysPreviewed == Spec => []BoundaryIsPreviewed
<1>1. IInv => BoundaryIsPreviewed
  BY DEF IInv
<1> QED
  BY <1>1, RegistrationInvariant, PTL

\* No preview registers two authorities, whatever confirmations overlap.
THEOREM PreviewAlwaysUsedOnce == Spec => []PreviewUsedOnce
<1>1. IInv => PreviewUsedOnce
  BY DEF IInv
<1> QED
  BY <1>1, RegistrationInvariant, PTL

\* A group is one subscription's line of versions, of which only the last is active.
THEOREM GroupHistoryAlways == Spec => []GroupHistory
<1>1. IInv => GroupHistory
  BY DEF IInv
<1> QED
  BY <1>1, RegistrationInvariant, PTL

\* An authority is committed only with a preview still in time.
THEOREM RegisteredInTimeAlways == Spec => RegisteredInTime
<1> DEFINE Timely == \A r \in Request : ~Exists(r) /\ Exists(r)' =>
                       preview[request'[r].from].expires > now
<1>1. IInv /\ [Next]_vars => [Timely]_vars
  <2> SUFFICES ASSUME IInv, Next PROVE Timely
    OBVIOUS
  <2>1. ASSUME NEW t \in Tab, PageStep(t) PROVE request' = request
    BY <2>1 DEF PageStep, ListSubscriptions, ToggleSupersede, RunPreview, PreviewAnswers,
                PreviewFails, Confirm, Unreachable, Select
  <2>2. ASSUME NEW c \in Call, ConfirmStep(c) PROVE Timely
    <3>1. CASE ConfirmTx(c)
      <4> DEFINE p == call[c].preview
      <4>1. PICK r \in Request :
              request' = [Corrected(preview[p].prior) EXCEPT ![r] = Registered(c, r)]
        BY <3>1 DEF ConfirmTx
      <4>2. /\ p \in Preview /\ preview[p] \in Offered /\ ~Expired(p) /\ now \in 0..MaxNow
            /\ Corrected(preview[p].prior) \in [Request -> Requests]
        BY <3>1, RegisteredTypes
           DEF IInv, ConfirmTx, Usable, CallKnowsItsPreview, TypeOK
      <4>3. preview[p].expires > now
        BY <4>2, RegistrationAssumption DEF Expired, Offered
      <4>4. request'[r].from = p
        BY <4>1, <4>2 DEF Registered
      <4>5. \A q \in Request \ {r} : Exists(q)' => Exists(q)
        <5> SUFFICES ASSUME NEW q \in Request \ {r}, ~Exists(q)
                     PROVE  request'[q].status = "NONE"
          BY DEF Exists
        <5>1. request'[q] = Corrected(preview[p].prior)[q]
          BY <4>1, <4>2
        <5>2. q # preview[p].prior
          BY <3>1, <4>2, RegistrationAssumption DEF ConfirmTx, PriorActive, Exists
        <5>3. Corrected(preview[p].prior)[q] = request[q]
          BY <5>2 DEF Corrected
        <5> QED
          BY <5>1, <5>3 DEF Exists
      <4> QED
        BY <4>3, <4>4, <4>5
    <3>2. CASE ~ConfirmTx(c)
      <4>1. request' = request
        BY <2>2, <3>2 DEF ConfirmStep, ConfirmChecks, ConfirmRefused, Answer
      <4> QED
        BY <4>1 DEF Exists
    <3> QED
      BY <3>1, <3>2
  <2>3. CASE EnvironmentStep
    <3>1. \A r \in Request : Exists(r)' => Exists(r)
      <4>1. ASSUME NEW q \in Request, RetireRequest(q)
            PROVE  \A r \in Request : Exists(r)' => Exists(r)
        BY <4>1 DEF RetireRequest, IInv, TypeOK, Exists
      <4>2. CASE ~\E q \in Request : RetireRequest(q)
        BY <2>3, <4>2 DEF EnvironmentStep, ConfigureSource, ActivateConnection,
                          SourceChanges, Tick, Exists
      <4> QED
        BY <4>1, <4>2
    <3> QED
      BY <3>1
  <2> QED
    BY <2>1, <2>2, <2>3 DEF Next, Exists
<1> QED
  BY <1>1, RegistrationInvariant, PTL DEF Spec, RegisteredInTime
=============================================================================
