-------------------------- MODULE MonitoringProofs ---------------------------
(***************************************************************************)
(* What the evaluator promises, for all times and limits, and with it the  *)
(* safety of Monitoring, for every set of workers, every subscription,     *)
(* every limit and every environment.                                      *)
(*                                                                         *)
(* The invariant says what fencing is for: of the runs that hold a read,   *)
(* the one that began last is the only one that may record it, and nothing *)
(* was recorded since it began.  So its evidence is as new as the task's,  *)
(* and an end that was recorded is an end that it has seen.                *)
(*                                                                         *)
(* The last part shows that the jobs are used as a keyed queue allows.     *)
(***************************************************************************)
EXTENDS Monitoring, TLAPS
-----------------------------------------------------------------------------
(***************************************************************************)
(* The evaluator.                                                          *)
(***************************************************************************)

\* The reasons a decision can have.
Answers == {"MISSING_CONTEXT", "REQUEST_NOT_ACTIVE", "SOURCE_UNAVAILABLE",
            "SOURCE_NOT_FOUND", "SOURCE_ACCESS_DENIED", "SOURCE_DATA_INVALID",
            "EVIDENCE_STALE", "IDENTITY_MISMATCH", "END_TIME_MISSING",
            "END_TIME_INVALID", "ENDED_ON_TIME", "ENDED_EARLY", "ENDED_LATE",
            "UNSUPPORTED_SHAPE", "PERIOD_CHANGED", "CONFLICTING_CANCEL_DATE",
            "CANCELLATION_SCHEDULED", "SCHEDULE_MISSING",
            "CANCELLATION_MODE_MISMATCH", "FINALIZATION_PENDING", "NOT_ENDED"}

\* The evaluator answers with one of its reasons, whatever it is given.
LEMMA ReasonType ==
    ASSUME NEW request, NEW read, NEW at
    PROVE  Reason(request, read, at) \in Answers
BY DEF Reason, Answers, FailureReason, EndedReason, ActiveReason, ScheduleReason

\* A reason that says the source could not be read says nothing of the end.
LEMMA FailureType ==
    ASSUME NEW e
    PROVE  FailureReason(e) \in Untrustworthy
BY DEF FailureReason, Untrustworthy

\* The ordered rules single out one situation for repair: a trusted, fresh read
\* of the request's own active subscription, before the period end, without any
\* schedule (evaluator.ts, rule 17).
THEOREM CandidateExact ==
    ASSUME NEW request \in Requests(Nat), NEW read \in Reads(Nat), NEW at \in Nat
    PROVE  Evaluate(request, read, at).candidate
               <=> CandidateConditions(request, read, at)
<1> DEFINE s == read.snapshot
<1>1. /\ request.T \in Nat \cup {NoTime} /\ read.observed \in Nat
      /\ s.complete \in BOOLEAN /\ s.matches \in BOOLEAN /\ s.supported \in BOOLEAN
      /\ s.canceled \in BOOLEAN /\ s.flag \in BOOLEAN
      /\ s.cancel_at \in Nat \cup {NoTime} /\ s.period_end \in Nat \cup {NoTime}
  BY DEF Requests, Reads, Snapshots
<1>2. ClockSkew \in Nat /\ EvidenceMaxAge \in Nat
  BY EvaluatorAssumption
<1>3. FailureReason(read.error) # "SCHEDULE_MISSING"
  BY FailureType DEF Untrustworthy
<1>4. EndedReason(s, request.T, read.observed) # "SCHEDULE_MISSING"
  BY DEF EndedReason
<1>5. at < request.T =>
        (ActiveReason(s, request.T, at) = "SCHEDULE_MISSING"
           <=> s.supported /\ s.period_end = request.T /\ s.cancel_at = NoTime /\ ~s.flag)
  BY <1>1 DEF ActiveReason, ScheduleReason, NoTime
<1>6. Evaluate(request, read, at).candidate
        <=> Reason(request, read, at) = "SCHEDULE_MISSING" /\ at < request.T
  BY DEF Evaluate, Candidate
<1> QED
  BY <1>1, <1>2, <1>3, <1>4, <1>5, <1>6 DEF Reason, CandidateConditions, NoTime

\* The comparison explains the result of every read: the rows of the fields the
\* reason names differ, and none where the outcome is satisfied.
THEOREM ComparisonExact ==
    ASSUME NEW request \in Requests(Nat), NEW read \in Reads(Nat), NEW at \in Nat
    PROVE  Explained(request, read, at)
<1> DEFINE s == read.snapshot
           reason == Reason(request, read, at)
           differs(f) == f \in Differing(request, read)
<1>1. /\ request.T \in Nat \cup {NoTime} /\ read.observed \in Nat
      /\ s.complete \in BOOLEAN /\ s.matches \in BOOLEAN /\ s.supported \in BOOLEAN
      /\ s.canceled \in BOOLEAN /\ s.flag \in BOOLEAN /\ s.ended \in Nat \cup {NoTime}
      /\ s.cancel_at \in Nat \cup {NoTime} /\ s.period_end \in Nat \cup {NoTime}
  BY DEF Requests, Reads, Snapshots
<1>2. /\ ClockSkew \in Nat /\ EvidenceMaxAge \in Nat /\ FinalizationGrace \in Nat
  BY EvaluatorAssumption
<1> DEFINE Scheduled == {"CANCELLATION_SCHEDULED", "SCHEDULE_MISSING", "FINALIZATION_PENDING",
                         "CANCELLATION_MODE_MISMATCH", "NOT_ENDED"}
           OfActive == Scheduled \cup {"PERIOD_CHANGED", "CONFLICTING_CANCEL_DATE"}
           OfEnded == {"ENDED_EARLY", "ENDED_LATE", "ENDED_ON_TIME", "END_TIME_MISSING"}
           Compared == request.T # NoTime /\ request.status = "ACTIVE"
                         /\ read.error = "NONE" /\ s.complete
<1>3. reason \in OfActive
        => Compared /\ ~s.canceled /\ reason = ActiveReason(s, request.T, at)
  BY <1>1, <1>2 DEF Reason, FailureReason, EndedReason, ActiveReason, ScheduleReason
<1>4. reason \in OfEnded
        => Compared /\ s.canceled /\ reason = EndedReason(s, request.T, read.observed)
  BY <1>1, <1>2 DEF Reason, FailureReason, EndedReason, ActiveReason, ScheduleReason
<1>5. ASSUME Compared
      PROVE  Comparison(request, read) = RowsOf(s, request.T)
  BY <1>5 DEF Comparison
<1>6. ASSUME Compared, s.canceled
      PROVE  Differing(request, read)
               = IF EndedRow(s, request.T) = "MATCH" THEN {} ELSE {"ended_at"}
  <2>1. Comparison(request, read) = [ended_at |-> EndedRow(s, request.T)]
    BY <1>5, <1>6 DEF RowsOf
  <2> QED
    BY <2>1 DEF Differing
<1>7. ASSUME Compared, ~s.canceled
      PROVE  /\ differs("cancel_at_period_end") <=> ~s.flag
             /\ differs("current_period_end") <=> s.period_end # request.T
             /\ differs("cancel_at") <=> s.cancel_at \notin {NoTime, request.T}
             /\ Differing(request, read) \subseteq
                  {"cancel_at_period_end", "current_period_end", "cancel_at"}
  <2>1. CASE s.cancel_at = NoTime
    <3>1. Comparison(request, read)
            = [cancel_at_period_end |-> FlagRow(s),
               current_period_end |-> DateRow(s.period_end, request.T)]
      BY <1>5, <1>7, <2>1 DEF RowsOf
    <3> QED
      BY <1>1, <1>7, <2>1, <3>1 DEF Differing, FlagRow, DateRow, NoTime
  <2>2. CASE s.cancel_at # NoTime
    <3>1. Comparison(request, read)
            = [cancel_at_period_end |-> FlagRow(s),
               current_period_end |-> DateRow(s.period_end, request.T),
               cancel_at |-> DateRow(s.cancel_at, request.T)]
      BY <1>5, <1>7, <2>2 DEF RowsOf
    <3> QED
      BY <1>1, <1>7, <2>2, <3>1 DEF Differing, FlagRow, DateRow, NoTime
  <2> QED
    BY <2>1, <2>2
<1> DEFINE satisfied == VerdictOf(reason) \in {"SATISFIED_SCHEDULED", "SATISFIED_ENDED"}
<1>8. satisfied <=> reason \in {"CANCELLATION_SCHEDULED", "ENDED_ON_TIME"}
  BY DEF VerdictOf, Untrustworthy
<1>9. CASE reason \in OfActive
  <2>1. Compared /\ ~s.canceled
    BY <1>3, <1>9
  <2>2. reason = ActiveReason(s, request.T, at)
    BY <1>3, <1>9
  <2>3. /\ reason = "CANCELLATION_SCHEDULED" =>
             s.flag /\ s.period_end = request.T /\ s.cancel_at \in {NoTime, request.T}
        /\ reason = "SCHEDULE_MISSING" => ~s.flag
        /\ reason = "SCHEDULE_MISSING" /\ at < request.T =>
             s.period_end = request.T /\ s.cancel_at = NoTime
        /\ reason = "CANCELLATION_MODE_MISMATCH" => ~s.flag
        /\ reason = "PERIOD_CHANGED" => s.period_end # request.T
        /\ reason = "CONFLICTING_CANCEL_DATE" => s.cancel_at \notin {NoTime, request.T}
    BY <1>1, <1>9, <2>2 DEF ActiveReason, ScheduleReason
  <2> HIDE DEF reason
  <2> QED
    BY <1>7, <1>8, <1>9, <2>1, <2>3 DEF Explained, Evaluate, Candidate, reason
<1>10. CASE reason \in OfEnded
  <2>1. EndedRow(s, request.T) = "MATCH" <=> reason = "ENDED_ON_TIME"
    BY <1>1, <1>2, <1>4, <1>10 DEF EndedRow, EndedReason, NoTime
  <2> QED
    BY <1>4, <1>6, <1>8, <1>10, <2>1 DEF Explained, Evaluate, Candidate
<1>11. CASE reason \notin OfActive \cup OfEnded
  BY <1>8, <1>11 DEF Explained, Evaluate, Candidate
<1> QED
  BY <1>9, <1>10, <1>11

\* ENDED_ON_TIME is said of a fresh read of the request's own subscription that
\* ended, in the past, inside the window, and of nothing else.
LEMMA EndedOnTimeExact ==
    ASSUME NEW request \in Requests(Nat), NEW read \in Reads(Nat), NEW at \in Nat,
           Reason(request, read, at) = "ENDED_ON_TIME"
    PROVE  /\ request.status = "ACTIVE" /\ request.T # NoTime
           /\ read.error = "NONE" /\ read.snapshot.complete /\ read.snapshot.matches
           /\ read.snapshot.canceled /\ read.snapshot.ended # NoTime
           /\ read.snapshot.ended <= read.observed
           /\ request.T <= read.snapshot.ended
           /\ read.snapshot.ended <= request.T + FinalizationGrace
<1> DEFINE s == read.snapshot
<1>1. /\ request.T \in Nat \cup {NoTime} /\ read.observed \in Nat
      /\ s.complete \in BOOLEAN /\ s.matches \in BOOLEAN
      /\ s.canceled \in BOOLEAN /\ s.ended \in Nat \cup {NoTime}
  BY DEF Requests, Reads, Snapshots
<1>2. FailureReason(read.error) # "ENDED_ON_TIME"
  BY FailureType DEF Untrustworthy
<1>3. ActiveReason(s, request.T, at) # "ENDED_ON_TIME"
  BY DEF ActiveReason, ScheduleReason
<1>4. FinalizationGrace \in Nat
  BY EvaluatorAssumption
<1>5. EndedReason(s, request.T, read.observed) = "ENDED_ON_TIME" =>
        /\ s.ended # NoTime /\ ~(s.ended > read.observed) /\ ~(s.ended < request.T)
        /\ s.ended <= request.T + FinalizationGrace
  BY DEF EndedReason
<1> QED
  BY <1>1, <1>2, <1>3, <1>4, <1>5 DEF Reason, NoTime

\* A subscription that ended inside the window is never called anything else by
\* an active request: a later check says so again, or that it could not look.
THEOREM EndedOnTimeStands ==
    ASSUME NEW request \in Requests(Nat), NEW read \in Reads(Nat), NEW at \in Nat,
           request.status = "ACTIVE",
           read.error = "NONE" =>
               /\ read.snapshot.complete /\ read.snapshot.matches
               /\ read.snapshot.canceled /\ read.snapshot.ended # NoTime
               /\ read.snapshot.ended <= read.observed
               /\ request.T <= read.snapshot.ended
               /\ read.snapshot.ended <= request.T + FinalizationGrace
    PROVE  Reason(request, read, at) \in {"ENDED_ON_TIME"} \cup Untrustworthy
<1> DEFINE s == read.snapshot
<1>1. /\ request.T \in Nat \cup {NoTime} /\ read.observed \in Nat
      /\ s.ended \in Nat \cup {NoTime}
  BY DEF Requests, Reads, Snapshots
<1>2. CASE request.T = NoTime
  BY <1>2 DEF Reason, Untrustworthy
<1>3. CASE request.T # NoTime /\ read.error # "NONE"
  BY <1>3, FailureType DEF Reason, Untrustworthy
<1>4. CASE request.T # NoTime /\ read.error = "NONE"
  <2>1. EndedReason(s, request.T, read.observed) = "ENDED_ON_TIME"
    BY <1>1, <1>4, EvaluatorAssumption DEF EndedReason, NoTime
  <2> QED
    BY <1>4, <2>1 DEF Reason, Untrustworthy
<1> QED
  BY <1>2, <1>3, <1>4

\* The next check of a scheduled cancellation lies ahead, within the monitoring
\* interval, and not later than the delay after the period end.
THEOREM ScheduledIsCheckedAgain ==
    ASSUME NEW request \in Requests(Nat), NEW read \in Reads(Nat), NEW at \in Nat,
           Evaluate(request, read, at).verdict = "SATISFIED_SCHEDULED"
    PROVE  /\ at < Evaluate(request, read, at).next
           /\ Evaluate(request, read, at).next <= at + MonitorInterval
           /\ Evaluate(request, read, at).next <= request.T + BoundaryDelay
<1> DEFINE s == read.snapshot
           reason == Reason(request, read, at)
<1>1. request.T \in Nat \cup {NoTime} /\ BoundaryDelay \in Nat
      /\ MonitorInterval \in Nat \ {0}
  BY EvaluatorAssumption DEF Requests
<1>2. reason = "CANCELLATION_SCHEDULED"
  BY DEF Evaluate, VerdictOf
<1>3. at < request.T
  <2>1. FailureReason(read.error) # "CANCELLATION_SCHEDULED"
    BY FailureType DEF Untrustworthy
  <2>2. EndedReason(s, request.T, read.observed) # "CANCELLATION_SCHEDULED"
    BY DEF EndedReason
  <2>3. ActiveReason(s, request.T, at) = "CANCELLATION_SCHEDULED" => at < request.T
    BY DEF ActiveReason, ScheduleReason
  <2> QED
    BY <1>2, <2>1, <2>2, <2>3 DEF Reason
<1>4. Evaluate(request, read, at).next
        = Sooner(at + MonitorInterval, request.T + BoundaryDelay)
  BY <1>2 DEF Evaluate, NextCheck
<1> QED
  BY <1>1, <1>3, <1>4 DEF Sooner, NoTime
-----------------------------------------------------------------------------
(***************************************************************************)
(* The invariant of Monitoring.                                            *)
(***************************************************************************)

\* The run that may still record what it has read.
Current(w) == run[w].pc = "RECORD" /\ task.begun = w

\* What was read is not newer than now.
ReadsArePast ==
    \A w \in Worker : run[w].pc = "RECORD" => run[w].read.observed <= now

\* An end that was read is the source's.
ReadsAreTrue ==
    \A w \in Worker :
        run[w].pc = "RECORD" /\ run[w].read.error = "NONE"
            /\ run[w].read.snapshot.canceled
        => source = run[w].read.snapshot

\* The shown evidence is not newer than now, nor than the read to be recorded.
EvidenceOrdered ==
    /\ task.evidence <= now
    /\ \A w \in Worker : Current(w) => task.evidence <= run[w].read.observed

\* The source has ended inside the window, before the shown evidence.
EndedInWindow ==
    /\ source.complete /\ source.matches /\ source.canceled
    /\ source.ended # NoTime /\ source.ended <= task.evidence
    /\ PeriodEnd <= source.ended /\ source.ended <= PeriodEnd + FinalizationGrace

EndedIsKnown ==
    task.reason = "ENDED_ON_TIME" =>
        /\ EndedInWindow
        /\ \A w \in Worker :
             Current(w) /\ run[w].read.error = "NONE" => run[w].read.snapshot = source

IInv ==
    TypeOK /\ ReadsArePast /\ ReadsAreTrue /\ EvidenceOrdered /\ EndedIsKnown
-----------------------------------------------------------------------------
LEMMA RequestType == Request \in Requests(Nat) /\ Request.status = "ACTIVE"
                     /\ Request.T = PeriodEnd /\ Request.T # NoTime
BY MonitoringAssumption DEF Request, Requests, RequestStates, NoTime

LEMMA NoReadType == NoRead \in Reads(Nat)
BY DEF NoRead, Reads, Snapshots, SourceErrors, Unavailable, Forbidden, NoTime

LEMMA SourceType ==
    ASSUME TypeOK
    PROVE  source \in Snapshots(Nat)
BY MonitoringAssumption DEF TypeOK

\* The next check is a time, if there is one.
LEMMA NextCheckType ==
    ASSUME TypeOK, NEW w \in Worker,
           NextCheckAt(w, Evaluate(Request, run[w].read, now)) # NoTime
    PROVE  NextCheckAt(w, Evaluate(Request, run[w].read, now)) \in Nat
<1> DEFINE e == Evaluate(Request, run[w].read, now)
<1>1. now \in Nat /\ PeriodEnd \in Nat /\ run[w].read.retry_after \in Nat
      /\ run[w].retries \in 0..Len(RetryDelays)
  BY MonitoringAssumption DEF TypeOK, Time, Runs, Reads
<1>2. /\ MonitorInterval \in Nat /\ BoundaryDelay \in Nat
      /\ FinalizationGrace \in Nat /\ FinalizationMargin \in Nat
  BY EvaluatorAssumption
<1>3. CASE e.verdict = "SATISFIED_SCHEDULED"
  <2>1. e.reason = "CANCELLATION_SCHEDULED"
    BY <1>3 DEF Evaluate, VerdictOf
  <2>2. e.next = Sooner(now + MonitorInterval, PeriodEnd + BoundaryDelay)
    BY <2>1, RequestType DEF Evaluate, NextCheck
  <2> QED
    BY <1>1, <1>2, <1>3, <2>2 DEF NextCheckAt, Sooner
<1>4. CASE e.verdict # "SATISFIED_SCHEDULED" /\ e.reason = "FINALIZATION_PENDING"
  <2>1. e.next = PeriodEnd + FinalizationGrace + FinalizationMargin
    BY <1>4, RequestType DEF Evaluate, NextCheck
  <2> QED
    BY <1>1, <1>2, <1>4, <2>1 DEF NextCheckAt
<1>5. CASE e.verdict # "SATISFIED_SCHEDULED" /\ e.reason # "FINALIZATION_PENDING"
  <2>1. RetryCount(w) \in 0..Len(RetryDelays)
    BY <1>1, MonitoringAssumption DEF RetryCount
  <2>2. e.transient /\ RetryCount(w) < Len(RetryDelays)
        /\ NextCheckAt(w, e) = now + RetryDelays[RetryCount(w) + 1]
    BY <1>5 DEF NextCheckAt
  <2>3. RetryDelays[RetryCount(w) + 1] \in Nat
    <3>1. RetryCount(w) + 1 \in 1..Len(RetryDelays)
      BY <2>1, <2>2, MonitoringAssumption
    <3> QED
      BY <3>1, MonitoringAssumption
  <2> QED
    BY <1>1, <2>2, <2>3
<1> QED
  BY <1>3, <1>4, <1>5

\* What is recorded is a task.
LEMMA ProjectionType ==
    ASSUME TypeOK, NEW w \in Worker, run[w].read.observed <= now
    PROVE  Projection(w, Evaluate(Request, run[w].read, now)) \in Tasks
<1> DEFINE e == Evaluate(Request, run[w].read, now)
<1>1. e.reason \in Reasons
  BY ReasonType DEF Evaluate, Answers, Reasons
<1>2. ProcessingAfter(w, e) \in ProcessingStates
  BY DEF ProcessingAfter, ProcessingStates
<1>3. run[w].read.observed \in Time
  BY MonitoringAssumption DEF TypeOK, Runs, Reads, Time
<1>4. (IF e.transient /\ NextCheckAt(w, e) # NoTime
       THEN RetryCount(w) + 1 ELSE RetryCount(w)) \in 0..Len(RetryDelays)
  <2>1. RetryCount(w) \in 0..Len(RetryDelays) /\ Len(RetryDelays) \in Nat
    BY MonitoringAssumption DEF RetryCount, TypeOK, Runs
  <2>2. e.transient => e.verdict # "SATISFIED_SCHEDULED"
                       /\ e.reason # "FINALIZATION_PENDING"
    BY DEF Evaluate, Transient, VerdictOf, Untrustworthy
  <2>3. e.transient /\ NextCheckAt(w, e) # NoTime => RetryCount(w) < Len(RetryDelays)
    BY <2>2 DEF NextCheckAt
  <2> QED
    BY <2>1, <2>3
<1>5. "IDLE" \in ProcessingStates
  BY DEF ProcessingStates
<1> QED
  BY <1>1, <1>2, <1>3, <1>4, <1>5 DEF TypeOK, Tasks, Projection
-----------------------------------------------------------------------------
Points == {"IDLE", "LOAD", "BEGIN", "READ", "RECORD", "DONE"}

\* A run that goes on is a run.
LEMMA RunGoesOn ==
    ASSUME NEW r \in Runs, NEW p \in Points
    PROVE  [r EXCEPT !.pc = p] \in Runs
BY DEF Runs, Points

LEMMA RunReads ==
    ASSUME NEW r \in Runs, NEW p \in Points, NEW read \in Reads(Nat)
    PROVE  [r EXCEPT !.pc = p, !.read = read] \in Runs
BY DEF Runs, Points

LEMMA IdleType == Idle \in Runs
BY NoReadType, MonitoringAssumption DEF Idle, Runs

LEMMA RowType ==
    /\ NoRow \in Rows
    /\ \A due \in Nat : [NoRow EXCEPT !.status = "READY", !.due = due] \in Rows
BY DEF NoRow, Rows

\* Every step keeps the types, one action at a time.
LEMMA TypeInvariance ==
    ASSUME IInv, [Next]_vars
    PROVE  TypeOK'
<1> USE DEF TypeOK
<1>1. /\ run \in [Worker -> Runs] /\ row \in [Keys -> Rows] /\ task \in Tasks
      /\ now \in Nat /\ Keys = {"VERIFY", "MONITOR"}
  BY MonitoringAssumption DEF IInv, Time, Keys
<1>2. ASSUME NEW w \in Worker, NEW k \in Keys, Lease(w, k)
      PROVE  TypeOK'
  <2>1. [Idle EXCEPT !.pc = "LOAD", !.key = k, !.manual = row[k].manual] \in Runs
    <3>1. row[k].manual \in BOOLEAN
      BY <1>1 DEF Rows
    <3>2. [Idle EXCEPT !.pc = "LOAD"] \in Runs
      BY IdleType, RunGoesOn DEF Points
    <3>3. \A r \in Runs, m \in BOOLEAN : [r EXCEPT !.key = k, !.manual = m] \in Runs
      BY DEF Runs
    <3> QED
      BY <3>1, <3>2, <3>3 DEF Idle
  <2>2. [row[k] EXCEPT !.status = "LEASED", !.owner = w, !.due = 0] \in Rows
    BY <1>1 DEF Rows
  <2> QED
    BY <1>1, <1>2, <2>1, <2>2 DEF IInv, Lease
<1>3. ASSUME NEW w \in Worker, Load(w)
      PROVE  TypeOK'
  <2>1. \A r \in Runs, p \in Points :
          [r EXCEPT !.pc = p, !.retries = task.retries, !.retired = task.retired] \in Runs
    BY <1>1 DEF Runs, Tasks, Points
  <2>2. \E p \in Points :
          run' = [run EXCEPT ![w] = [@ EXCEPT !.pc = p, !.retries = task.retries,
                                              !.retired = task.retired]]
    BY <1>3 DEF Load, Points
  <2> QED
    BY <1>1, <1>3, <2>1, <2>2 DEF IInv, Load
<1>4. ASSUME NEW w \in Worker, Begin(w)
      PROVE  TypeOK'
  <2>1. [run[w] EXCEPT !.pc = "READ"] \in Runs
    BY <1>1, RunGoesOn DEF Points
  <2>2. [task EXCEPT !.begun = w, !.processing = "VERIFYING"] \in Tasks
    BY <1>1 DEF Tasks, ProcessingStates
  <2> QED
    BY <1>1, <1>4, <2>1, <2>2 DEF IInv, Begin
<1>5. ASSUME NEW w \in Worker, Read(w)
      PROVE  TypeOK'
  <2>1. PICK e \in ReadError \cup {"NONE"} :
          run' = [run EXCEPT ![w].pc = "RECORD",
                             ![w].read = [error |-> e, retry_after |-> 0,
                                          observed |-> now, snapshot |-> source]]
    BY <1>5 DEF Read
  <2>2. [error |-> e, retry_after |-> 0, observed |-> now, snapshot |-> source]
          \in Reads(Nat)
    BY <1>1, SourceType, MonitoringAssumption DEF IInv, Reads
  <2>3. [run[w] EXCEPT !.pc = "RECORD",
                       !.read = [error |-> e, retry_after |-> 0,
                                 observed |-> now, snapshot |-> source]] \in Runs
    BY <1>1, <2>2, RunReads DEF Points
  <2> QED
    BY <1>1, <1>5, <2>1, <2>3 DEF IInv, Read
<1>6. ASSUME NEW w \in Worker, RecordFenced(w)
      PROVE  TypeOK'
  <2>1. [run[w] EXCEPT !.pc = "DONE", !.read = NoRead] \in Runs
    BY <1>1, NoReadType, RunReads DEF Points
  <2> QED
    BY <1>1, <1>6, <2>1 DEF IInv, RecordFenced
<1>7. ASSUME NEW w \in Worker, Record(w)
      PROVE  TypeOK'
  <2> DEFINE e == Evaluate(Request, run[w].read, now)
             k == IF e.transient THEN "VERIFY" ELSE "MONITOR"
  <2>1. task' \in Tasks
    BY <1>7, ProjectionType DEF IInv, Record, ReadsArePast
  <2>2. row' \in [Keys -> Rows]
    <3>1. CASE NextCheckAt(w, e) = NoTime \/ run[w].retired
      BY <1>1, <1>7, <3>1 DEF Record
    <3>2. CASE ~(NextCheckAt(w, e) = NoTime \/ run[w].retired)
      <4>1. NextCheckAt(w, e) \in Nat
        BY <3>2, NextCheckType DEF IInv
      <4>2. [NoRow EXCEPT !.status = "READY", !.due = NextCheckAt(w, e)] \in Rows
        BY <4>1, RowType
      <4>3. row' = Enqueued(row, k, NextCheckAt(w, e))
        BY <1>7, <3>2 DEF Record
      <4> QED
        BY <1>1, <4>2, <4>3 DEF Enqueued
    <3> QED
      BY <3>1, <3>2
  <2>3. run' \in [Worker -> Runs]
    <3>1. [run[w] EXCEPT !.pc = "DONE", !.read = NoRead] \in Runs
      BY <1>1, NoReadType, RunReads DEF Points
    <3> QED
      BY <1>1, <1>7, <3>1 DEF Record
  <2> QED
    BY <1>7, <2>1, <2>2, <2>3 DEF IInv, Record
<1>8. ASSUME NEW w \in Worker, Settle(w)
      PROVE  TypeOK'
  BY <1>1, <1>8, IdleType, RowType DEF IInv, Settle
<1>9. ASSUME NEW w \in Worker, Crash(w)
      PROVE  TypeOK'
  BY <1>1, <1>9, IdleType, MonitoringAssumption DEF IInv, Crash, Event
<1>10. ASSUME NEW k \in Keys, LeaseLapses(k) \/ Reclaim(k)
       PROVE  TypeOK'
  <2>1. /\ [row[k] EXCEPT !.status = "READY", !.owner = "NONE", !.due = now] \in Rows
        /\ [row[k] EXCEPT !.status = "LAPSED"] \in Rows
    BY <1>1 DEF Rows
  <2>2. row' \in [Keys -> Rows]
    BY <1>1, <1>10, <2>1 DEF LeaseLapses, Reclaim
  <2>3. events' \in 0..MaxEvents
    BY <1>10, MonitoringAssumption DEF IInv, LeaseLapses, Reclaim, Event
  <2> QED
    BY <1>10, <2>2, <2>3 DEF IInv, LeaseLapses, Reclaim
<1>11. ASSUME NEW w \in Worker, Heartbeat(w)
       PROVE  TypeOK'
  <2>1. \A k \in Keys : [row[k] EXCEPT !.status = "LEASED"] \in Rows
    BY <1>1 DEF Rows
  <2> QED
    BY <1>1, <1>11, <2>1 DEF IInv, Heartbeat
<1>12. ASSUME RequestRecheck
       PROVE  TypeOK'
  <2>1. events' \in 0..MaxEvents
    BY <1>12, MonitoringAssumption DEF IInv, RequestRecheck, Event
  <2>2. task' \in Tasks
    <3>1. [task EXCEPT !.processing = "QUEUED", !.retries = 0] \in Tasks
      <4>1. 0 \in 0..Len(RetryDelays)
        BY MonitoringAssumption
      <4> QED
        BY <1>1, <4>1 DEF Tasks, ProcessingStates
    <3> QED
      BY <1>1, <1>12, <3>1 DEF RequestRecheck
  <2>3. row' \in [Keys -> Rows]
    <3>1. [NoRow EXCEPT !.status = "READY", !.manual = TRUE, !.due = now] \in Rows
      BY <1>1 DEF NoRow, Rows
    <3>2. Sooner(row["VERIFY"].due, now) \in Nat
      BY <1>1 DEF Sooner, Rows
    <3>3. [row["VERIFY"] EXCEPT !.manual = TRUE,
                                !.due = Sooner(row["VERIFY"].due, now)] \in Rows
      BY <1>1, <3>2 DEF Rows
    <3>4. CASE row["VERIFY"].status = "NONE"
      BY <1>1, <1>12, <3>1, <3>4 DEF RequestRecheck
    <3>5. CASE row["VERIFY"].status # "NONE"
      BY <1>1, <1>12, <3>3, <3>5 DEF RequestRecheck
    <3> QED
      BY <3>4, <3>5
  <2> QED
    BY <1>12, <2>1, <2>2, <2>3 DEF IInv, RequestRecheck
<1>13. ASSUME AdditionalReceipt
       PROVE  TypeOK'
  <2>1. events' \in 0..MaxEvents
    BY <1>13, MonitoringAssumption DEF IInv, AdditionalReceipt, Event
  <2>2. row' \in [Keys -> Rows]
    BY <1>1, <1>13, RowType DEF AdditionalReceipt, Enqueued
  <2> QED
    BY <1>13, <2>1, <2>2 DEF IInv, AdditionalReceipt
<1>14. ASSUME RetireTask
       PROVE  TypeOK'
  <2>1. [task EXCEPT !.retired = TRUE, !.processing = "IDLE"] \in Tasks
    BY <1>1 DEF Tasks, ProcessingStates
  <2> QED
    BY <1>1, <1>14, <2>1, RowType DEF IInv, RetireTask
<1>15. ASSUME SourceChanges
       PROVE  TypeOK'
  BY <1>15, MonitoringAssumption DEF IInv, SourceChanges, Event
<1>16. ASSUME Tick
       PROVE  TypeOK'
  BY <1>16, MonitoringAssumption DEF IInv, Tick, Time
<1>17. ASSUME UNCHANGED vars
       PROVE  TypeOK'
  BY <1>17 DEF IInv, vars
<1> QED
  BY <1>2, <1>3, <1>4, <1>5, <1>6, <1>7, <1>8, <1>9, <1>10, <1>11, <1>12, <1>13,
     <1>14, <1>15, <1>16, <1>17 DEF Next, Progress
-----------------------------------------------------------------------------
\* A step that reads nothing, records nothing and leaves the source alone.
Quiet ==
    /\ source' = source /\ now' >= now
    /\ task'.evidence = task.evidence /\ task'.reason = task.reason
    /\ \A w \in Worker :
         run'[w].pc = "RECORD" =>
             /\ run[w].pc = "RECORD" /\ run'[w].read = run[w].read
             /\ task'.begun = w => task.begun = w

LEMMA QuietKeeps ==
    ASSUME IInv, Quiet, now' \in Nat
    PROVE  ReadsArePast' /\ ReadsAreTrue' /\ EvidenceOrdered' /\ EndedIsKnown'
<1>1. now \in Nat /\ task.evidence \in Nat
      /\ \A w \in Worker : run[w].read.observed \in Nat
  BY MonitoringAssumption DEF IInv, TypeOK, Time, Tasks, Runs, Reads
<1>2. ReadsArePast'
  BY <1>1 DEF IInv, Quiet, ReadsArePast
<1>3. ReadsAreTrue'
  BY DEF IInv, Quiet, ReadsAreTrue
<1>4. EvidenceOrdered'
  <2>1. task'.evidence <= now'
    BY <1>1 DEF IInv, Quiet, EvidenceOrdered
  <2>2. ASSUME NEW w \in Worker, Current(w)'
        PROVE  task'.evidence <= run'[w].read.observed
    BY <2>2 DEF IInv, Quiet, EvidenceOrdered, Current
  <2> QED
    BY <2>1, <2>2 DEF EvidenceOrdered
<1>5. EndedIsKnown'
  BY DEF IInv, Quiet, EndedIsKnown, EndedInWindow, Current
<1> QED
  BY <1>2, <1>3, <1>4, <1>5

\* The steps of the handler before and after a read are quiet: to begin only
\* takes the right to record away from others.
LEMMA QuietProgress ==
    ASSUME TypeOK, NEW w \in Worker, NEW k \in Keys,
           Lease(w, k) \/ Load(w) \/ Begin(w) \/ RecordFenced(w) \/ Settle(w)
               \/ Heartbeat(w) \/ Crash(w)
    PROVE  Quiet
<1>1. run \in [Worker -> Runs] /\ task \in Tasks /\ now \in Nat
  BY MonitoringAssumption DEF TypeOK, Time
<1>2. CASE Lease(w, k)
  BY <1>1, <1>2 DEF Lease, Quiet, Idle, Runs
<1>3. CASE Load(w)
  BY <1>1, <1>3 DEF Load, Quiet, Runs
<1>4. CASE Begin(w)
  BY <1>1, <1>4 DEF Begin, Quiet, Runs, Tasks
<1>5. CASE RecordFenced(w)
  BY <1>1, <1>5 DEF RecordFenced, Quiet, Runs
<1>6. CASE Settle(w)
  BY <1>1, <1>6 DEF Settle, Quiet, Idle, Runs
<1>7. CASE Crash(w)
  BY <1>1, <1>7 DEF Crash, Quiet, Idle, Runs
<1>8. CASE Heartbeat(w)
  BY <1>1, <1>8 DEF Heartbeat, Quiet
<1> QED
  BY <1>2, <1>3, <1>4, <1>5, <1>6, <1>7, <1>8

\* So are the commands, the reclaiming of leases, and time.
LEMMA QuietCommands ==
    ASSUME TypeOK, NEW k \in Keys,
           LeaseLapses(k) \/ Reclaim(k) \/ RequestRecheck \/ AdditionalReceipt
               \/ RetireTask \/ Tick \/ UNCHANGED vars
    PROVE  Quiet
<1>1. task \in Tasks /\ now \in Nat
  BY MonitoringAssumption DEF TypeOK, Time
<1>2. task'.evidence = task.evidence /\ task'.reason = task.reason
      /\ task'.begun = task.begun
  BY <1>1 DEF LeaseLapses, Reclaim, RequestRecheck, AdditionalReceipt,
             RetireTask, Tick, vars, Tasks
<1>3. now' >= now /\ source' = source /\ run' = run
  BY <1>1 DEF LeaseLapses, Reclaim, RequestRecheck, AdditionalReceipt,
             RetireTask, Tick, vars
<1> QED
  BY <1>2, <1>3 DEF Quiet

LEMMA ReadKeeps ==
    ASSUME IInv, NEW w \in Worker, Read(w)
    PROVE  ReadsArePast' /\ ReadsAreTrue' /\ EvidenceOrdered' /\ EndedIsKnown'
<1>1. run \in [Worker -> Runs] /\ now \in Nat
  BY MonitoringAssumption DEF IInv, TypeOK, Time
<1>2. /\ run'[w].read.observed = now /\ run'[w].read.snapshot = source
      /\ \A v \in Worker \ {w} : run'[v] = run[v]
      /\ UNCHANGED <<now, source, task>>
  BY <1>1 DEF Read, Runs
<1>3. ReadsArePast'
  BY <1>1, <1>2 DEF IInv, ReadsArePast
<1>4. ReadsAreTrue'
  BY <1>2 DEF IInv, ReadsAreTrue
<1>5. EvidenceOrdered'
  BY <1>2 DEF IInv, EvidenceOrdered, Current
<1>6. EndedIsKnown'
  BY <1>2 DEF IInv, EndedIsKnown, EndedInWindow, Current
<1> QED
  BY <1>3, <1>4, <1>5, <1>6

LEMMA RecordKeeps ==
    ASSUME IInv, NEW w \in Worker, Record(w)
    PROVE  ReadsArePast' /\ ReadsAreTrue' /\ EvidenceOrdered' /\ EndedIsKnown'
<1> DEFINE read == run[w].read
<1>1. /\ run \in [Worker -> Runs] /\ task \in Tasks /\ read \in Reads(Nat)
      /\ now \in Nat /\ read.observed \in Nat
  BY MonitoringAssumption DEF IInv, TypeOK, Time, Runs, Reads
<1>2. /\ run[w].pc = "RECORD" /\ task.begun = w
      /\ run'[w].pc = "DONE" /\ \A v \in Worker \ {w} : run'[v] = run[v]
      /\ task'.evidence = read.observed /\ task'.begun = w
      /\ task'.reason = Reason(Request, read, now)
      /\ UNCHANGED <<now, source>>
  BY <1>1 DEF Record, Fenced, Projection, Evaluate, Tasks, Runs
<1>3. \A v \in Worker : ~Current(v)'
  BY <1>2 DEF Current
<1>4. ReadsArePast'
  BY <1>2 DEF IInv, ReadsArePast
<1>5. ReadsAreTrue'
  BY <1>2 DEF IInv, ReadsAreTrue
<1>6. EvidenceOrdered'
  BY <1>2, <1>3 DEF IInv, EvidenceOrdered, ReadsArePast
<1>7. ASSUME task'.reason = "ENDED_ON_TIME"
      PROVE  EndedInWindow'
  <2>1. /\ read.error = "NONE" /\ read.snapshot.complete /\ read.snapshot.matches
        /\ read.snapshot.canceled /\ read.snapshot.ended # NoTime
        /\ read.snapshot.ended <= read.observed
        /\ PeriodEnd <= read.snapshot.ended
        /\ read.snapshot.ended <= PeriodEnd + FinalizationGrace
    BY <1>1, <1>2, <1>7, RequestType, EndedOnTimeExact
  <2>2. source = read.snapshot
    BY <1>2, <2>1 DEF IInv, ReadsAreTrue
  <2> QED
    BY <1>2, <2>1, <2>2 DEF EndedInWindow
<1> QED
  BY <1>3, <1>4, <1>5, <1>6, <1>7 DEF EndedIsKnown

LEMMA SourceKeeps ==
    ASSUME IInv, SourceChanges
    PROVE  ReadsArePast' /\ ReadsAreTrue' /\ EvidenceOrdered' /\ EndedIsKnown'
<1>1. ~source.canceled /\ UNCHANGED <<now, task, row, run>>
  BY DEF SourceChanges
<1>2. ReadsAreTrue'
  BY <1>1 DEF IInv, ReadsAreTrue
<1>3. EndedIsKnown'
  BY <1>1 DEF IInv, EndedIsKnown, EndedInWindow
<1> QED
  BY <1>1, <1>2, <1>3 DEF IInv, ReadsArePast, EvidenceOrdered, Current
-----------------------------------------------------------------------------
LEMMA Initialization == Init => IInv
<1> SUFFICES ASSUME Init
             PROVE  IInv
  OBVIOUS
<1>1. TypeOK
  <2>1. Idle \in Runs
    BY NoReadType, MonitoringAssumption DEF Idle, Runs
  <2>2. NoRow \in Rows /\ [NoRow EXCEPT !.status = "READY"] \in Rows
    BY DEF NoRow, Rows
  <2>3. task \in Tasks
    BY MonitoringAssumption DEF Init, Tasks, ProcessingStates, Reasons, Time
  <2> QED
    BY <2>1, <2>2, <2>3, MonitoringAssumption DEF Init, TypeOK, Time, Keys
<1> QED
  BY <1>1 DEF Init, IInv, Idle, ReadsArePast, ReadsAreTrue, EvidenceOrdered,
              Current, EndedIsKnown

\* The invariant holds initially and every step keeps it.
LEMMA Invariance == IInv /\ [Next]_vars => IInv'
<1> SUFFICES ASSUME IInv, [Next]_vars
             PROVE  IInv'
  OBVIOUS
<1>1. TypeOK'
  BY TypeInvariance
<1>2. TypeOK /\ now' \in Nat /\ "VERIFY" \in Keys
  BY <1>1, MonitoringAssumption DEF IInv, TypeOK, Time, Keys
<1>3. Quiet => IInv'
  BY <1>1, <1>2, QuietKeeps DEF IInv
<1>4. ASSUME NEW w \in Worker, Progress(w) \/ Heartbeat(w) \/ Crash(w)
      PROVE  IInv'
  <2>1. CASE Read(w)
    BY <1>1, <2>1, ReadKeeps DEF IInv
  <2>2. CASE Record(w)
    BY <1>1, <2>2, RecordKeeps DEF IInv
  <2>3. CASE (\E k \in Keys : Lease(w, k)) \/ Load(w) \/ Begin(w)
             \/ RecordFenced(w) \/ Settle(w) \/ Heartbeat(w) \/ Crash(w)
    BY <1>2, <1>3, <2>3, QuietProgress
  <2> QED
    BY <1>4, <2>1, <2>2, <2>3 DEF Progress
<1>5. CASE SourceChanges
  BY <1>1, <1>5, SourceKeeps DEF IInv
<1>6. CASE (\E k \in Keys : LeaseLapses(k) \/ Reclaim(k)) \/ RequestRecheck
           \/ AdditionalReceipt \/ RetireTask \/ Tick \/ UNCHANGED vars
  BY <1>2, <1>3, <1>6, QuietCommands
<1> QED
  BY <1>4, <1>5, <1>6 DEF Next

\* Every reachable state of checks and their task satisfies the inductive invariant
\* (verification.ts).
THEOREM Safety == Spec => []IInv
BY Initialization, Invariance, PTL DEF Spec

\* The variables have their types in every behaviour.
THEOREM TypeCorrect == Spec => []TypeOK
<1>1. IInv => TypeOK
  BY DEF IInv
<1> QED
  BY <1>1, Safety, PTL

\* What a run is about to record is a recovery candidate exactly when the
\* conditions of rule 17 hold, whatever was read and however long ago.
THEOREM CandidateAlwaysExact == Spec => []CandidateIsExact
<1>1. IInv => CandidateIsExact
  <2> SUFFICES ASSUME IInv, NEW w \in Worker
               PROVE  Evaluate(Request, run[w].read, now).candidate
                        <=> CandidateConditions(Request, run[w].read, now)
    BY DEF CandidateIsExact
  <2>1. run[w].read \in Reads(Nat) /\ now \in Nat
    BY MonitoringAssumption DEF IInv, TypeOK, Runs, Time
  <2> QED
    BY <2>1, RequestType, CandidateExact
<1> QED
  BY <1>1, Safety, PTL

\* What a run is about to record agrees with the comparison stored with it.
THEOREM ComparisonAlwaysExplains == Spec => []ComparisonExplains
<1>1. IInv => ComparisonExplains
  <2> SUFFICES ASSUME IInv, NEW w \in Worker
               PROVE  Explained(Request, run[w].read, now)
    BY DEF ComparisonExplains
  <2>1. run[w].read \in Reads(Nat) /\ now \in Nat
    BY MonitoringAssumption DEF IInv, TypeOK, Runs, Time
  <2> QED
    BY <2>1, RequestType, ComparisonExact
<1> QED
  BY <1>1, Safety, PTL

\* A task shown as ended on time has ended, at the source, inside the window.
THEOREM EndedOnTimeTrue == Spec => []EndedOnTimeIsTrue
<1>1. IInv => EndedOnTimeIsTrue
  BY DEF IInv, EndedIsKnown, EndedInWindow, EndedOnTimeIsTrue
<1> QED
  BY <1>1, Safety, PTL

\* Every change of what is shown is made by a run that began last, with a read
\* at least as new as the one that is shown.
LEMMA OnlyRecordShows ==
    ASSUME IInv, [Next]_vars,
           ~(task'.evidence = task.evidence /\ task'.reason = task.reason)
    PROVE  \E w \in Worker : Record(w)
<1>1. TypeOK /\ "VERIFY" \in Keys
  BY DEF IInv, Keys
<1>2. ~Quiet
  BY DEF Quiet
<1>3. ASSUME NEW w \in Worker, Progress(w) \/ Heartbeat(w) \/ Crash(w)
      PROVE  Record(w)
  <2>1. ~Read(w)
    BY DEF Read
  <2> QED
    BY <1>1, <1>2, <1>3, <2>1, QuietProgress DEF Progress
<1>4. ~SourceChanges
  BY DEF SourceChanges
<1> QED
  BY <1>1, <1>2, <1>3, <1>4, QuietCommands DEF Next

\* The shown result never rests on older evidence than the one before it.
THEOREM EvidenceMonotone == Spec => EvidenceNeverGoesBack
<1>1. IInv /\ [Next]_vars => [task'.evidence >= task.evidence]_vars
  <2> SUFFICES ASSUME IInv, [Next]_vars
               PROVE  task'.evidence >= task.evidence
    OBVIOUS
  <2>1. task.evidence \in Nat
    BY MonitoringAssumption DEF IInv, TypeOK, Tasks, Time
  <2>2. ASSUME NEW w \in Worker, Record(w)
        PROVE  task'.evidence >= task.evidence
    <3>1. Current(w) /\ run[w].read.observed \in Nat
      BY <2>2 DEF Record, Fenced, Current, IInv, TypeOK, Runs, Reads
    <3>2. task'.evidence = run[w].read.observed
      BY <2>2 DEF Record, Projection, IInv, TypeOK, Tasks
    <3> QED
      BY <2>1, <3>1, <3>2 DEF IInv, EvidenceOrdered
  <2> QED
    BY <2>1, <2>2, OnlyRecordShows
<1> QED
  BY <1>1, Safety, PTL DEF Spec, EvidenceNeverGoesBack

\* No later check of a task that ended on time calls it anything else, except
\* that it could not look.
THEOREM EndedOnTimeFinal == Spec => EndedOnTimeIsFinal
<1> DEFINE Stays == task.reason = "ENDED_ON_TIME" =>
                      task'.reason \in {"ENDED_ON_TIME"} \cup Untrustworthy
<1>1. IInv /\ [Next]_vars => [Stays]_vars
  <2> SUFFICES ASSUME IInv, [Next]_vars, task.reason = "ENDED_ON_TIME"
               PROVE  task'.reason \in {"ENDED_ON_TIME"} \cup Untrustworthy
    OBVIOUS
  <2>1. ASSUME NEW w \in Worker, Record(w)
        PROVE  task'.reason \in {"ENDED_ON_TIME"} \cup Untrustworthy
    <3> DEFINE read == run[w].read
    <3>1. Current(w) /\ read \in Reads(Nat) /\ now \in Nat
      BY <2>1, MonitoringAssumption
      DEF Record, Fenced, Current, IInv, TypeOK, Runs, Time
    <3>2. task'.reason = Reason(Request, read, now)
      BY <2>1 DEF Record, Projection, Evaluate, IInv, TypeOK, Tasks
    <3>3. EndedInWindow /\ (read.error = "NONE" => read.snapshot = source)
          /\ task.evidence <= read.observed
      BY <3>1 DEF IInv, EndedIsKnown, EvidenceOrdered
    <3>4. read.error = "NONE" =>
            /\ read.snapshot.complete /\ read.snapshot.matches
            /\ read.snapshot.canceled /\ read.snapshot.ended # NoTime
            /\ read.snapshot.ended <= read.observed
            /\ PeriodEnd <= read.snapshot.ended
            /\ read.snapshot.ended <= PeriodEnd + FinalizationGrace
      <4>1. /\ source.ended \in Nat \cup {NoTime} /\ task.evidence \in Nat
            /\ read.observed \in Nat
        BY <3>1, SourceType, MonitoringAssumption
        DEF IInv, TypeOK, Tasks, Time, Reads, Snapshots
      <4> QED
        BY <3>3, <4>1 DEF EndedInWindow, NoTime
    <3> QED
      BY <3>1, <3>2, <3>4, RequestType, EndedOnTimeStands
  <2>2. CASE task'.reason = task.reason
    BY <2>2
  <2> QED
    BY <2>1, <2>2, OnlyRecordShows
<1> QED
  BY <1>1, Safety, PTL DEF Spec, EndedOnTimeIsFinal
-----------------------------------------------------------------------------
(***************************************************************************)
(* The jobs of a task are those of a keyed queue.                          *)
(***************************************************************************)

Busy == {"LEASED", "LAPSED"}

\* A row has an owner exactly while it is leased, and a run has a job.
LeasesOK ==
    /\ \A k \in Keys : row[k].owner \in Worker <=> row[k].status \in Busy
    /\ \A w \in Worker : run[w].pc # "IDLE" => run[w].key \in Keys

QInv == TypeOK /\ LeasesOK

\* The runs that go on, and their jobs, are the same.
SameRuns ==
    \A w \in Worker :
        /\ run'[w].key = run[w].key
        /\ run'[w].pc = "IDLE" <=> run[w].pc = "IDLE"

\* No lease begins or ends.
SameLeases ==
    \A k \in Keys :
        /\ row'[k].owner = row[k].owner
        /\ row'[k].status \in Busy <=> row[k].status \in Busy

\* A leased job is not ready.
LEMMA ReadyApart == ReadyKeys \subseteq Keys /\ ReadyKeys \cap Keyed!Taken = {}
<1> SUFFICES ASSUME NEW k \in ReadyKeys, k \in Keyed!Taken PROVE FALSE
  BY DEF ReadyKeys
<1>1. PICK h \in HeldKeys : h[1] = k
  BY DEF Keyed!Taken
<1>2. PICK j \in Keys : /\ row[j].status \in {"LEASED", "LAPSED"}
                        /\ h = <<j, <<row[j].owner, j>>>>
  BY DEF HeldKeys
<1> QED
  BY <1>1, <1>2 DEF ReadyKeys

\* What neither takes, settles nor reclaims a job is a command, or nothing.
LEMMA QuietQueue ==
    ASSUME LeasesOK, SameRuns, SameLeases
    PROVE  Keyed!Next /\ LeasesOK'
<1>1. (ReadyKeys \subseteq Keys)' /\ (ReadyKeys \cap Keyed!Taken = {})'
  BY ReadyApart, PTL
<1>2. UNCHANGED HeldKeys
  BY DEF SameLeases, HeldKeys, Busy
<1>3. UNCHANGED GoingLeases
  BY DEF SameRuns, GoingLeases
<1>4. LeasesOK'
  BY DEF LeasesOK, SameRuns, SameLeases
<1> QED
  BY <1>1, <1>2, <1>3, <1>4 DEF Keyed!Next, Keyed!Command, Keyed!Taken

\* One run goes on with its job.
LEMMA OneRun ==
    ASSUME TypeOK, NEW w \in Worker, run[w].pc # "IDLE", NEW r,
           run' = [run EXCEPT ![w] = r], r.key = run[w].key, r.pc # "IDLE"
    PROVE  SameRuns
BY DEF TypeOK, SameRuns

\* A row without a lease is replaced by another one without.
LEMMA OneRow ==
    ASSUME QInv, NEW k \in Keys, row[k].status \notin Busy, NEW r,
           row' = [row EXCEPT ![k] = r], r.status \notin Busy, r.owner = "NONE"
    PROVE  SameLeases
<1>1. row[k].owner = "NONE"
  BY DEF QInv, TypeOK, LeasesOK, Rows
<1> QED
  BY <1>1 DEF QInv, TypeOK, SameLeases

LEMMA EnqueuedRow ==
    ASSUME QInv, NEW k \in Keys, NEW due, row' = Enqueued(row, k, due)
    PROVE  SameLeases
<1>1. CASE row[k].status # "NONE"
  BY <1>1 DEF Enqueued, SameLeases
<1>2. CASE row[k].status = "NONE"
  <2> DEFINE r == [NoRow EXCEPT !.status = "READY", !.due = due]
  <2>1. r.status = "READY" /\ r.owner = "NONE"
    BY DEF NoRow
  <2>2. row' = [row EXCEPT ![k] = r]
    BY <1>2 DEF Enqueued
  <2> HIDE DEF r
  <2> QED
    BY <1>2, <2>1, <2>2, OneRow DEF Busy
<1> QED
  BY <1>1, <1>2

LEMMA CheckQueue ==
    ASSUME QInv, NEW w \in Worker,
           Load(w) \/ Begin(w) \/ Read(w) \/ RecordFenced(w) \/ Record(w)
    PROVE  SameRuns /\ SameLeases
<1>1. run[w].pc # "IDLE" /\ run[w] \in Runs
  BY DEF QInv, TypeOK, Load, Begin, Read, RecordFenced, Record
<1>2. CASE Load(w)
  <2> DEFINE r == [run[w] EXCEPT
                     !.pc = IF task.retired /\ ~run[w].manual THEN "DONE" ELSE "BEGIN",
                     !.retries = task.retries, !.retired = task.retired]
  <2>1. r.key = run[w].key /\ r.pc # "IDLE"
    BY <1>1 DEF Runs
  <2>2. run' = [run EXCEPT ![w] = r] /\ UNCHANGED row
    BY <1>2 DEF Load
  <2> HIDE DEF r
  <2> QED
    BY <1>1, <2>1, <2>2, OneRun DEF QInv, SameLeases
<1>3. CASE Begin(w)
  BY <1>1, <1>3 DEF Begin, QInv, TypeOK, Runs, SameRuns, SameLeases
<1>4. CASE Read(w)
  <2>1. PICK x : run' = [run EXCEPT ![w].pc = "RECORD", ![w].read = x]
    BY <1>4 DEF Read
  <2> DEFINE r == [run[w] EXCEPT !.pc = "RECORD", !.read = x]
  <2>2. r.key = run[w].key /\ r.pc = "RECORD"
    BY <1>1 DEF Runs
  <2>3. run' = [run EXCEPT ![w] = r]
    BY <2>1
  <2> HIDE DEF r
  <2> QED
    BY <1>1, <1>4, <2>2, <2>3, OneRun DEF Read, QInv, SameLeases
<1>5. CASE RecordFenced(w)
  BY <1>1, <1>5 DEF RecordFenced, QInv, TypeOK, Runs, SameRuns, SameLeases
<1>6. CASE Record(w)
  <2>1. SameRuns
    BY <1>1, <1>6 DEF Record, QInv, TypeOK, Runs, SameRuns
  <2>2. \/ row' = row
        \/ \E k \in Keys : \E due : row' = Enqueued(row, k, due)
    BY <1>6 DEF Record, Keys
  <2>3. SameLeases
    BY <2>2, EnqueuedRow DEF SameLeases
  <2> QED
    BY <2>1, <2>3
<1> QED
  BY <1>2, <1>3, <1>4, <1>5, <1>6

LEMMA HeartbeatQueue ==
    ASSUME QInv, \/ \E w \in Worker : Heartbeat(w)
                 \/ \E k \in Keys : LeaseLapses(k)
    PROVE  SameRuns /\ SameLeases
<1>1. ASSUME NEW w \in Worker, Heartbeat(w) PROVE SameRuns /\ SameLeases
  <2>1. run[w].key \in Keys /\ row[run[w].key].status \in Busy
    BY <1>1 DEF Heartbeat, Owns, QInv, LeasesOK
  <2>2. SameLeases
    BY <1>1, <2>1 DEF Heartbeat, QInv, TypeOK, Rows, SameLeases, Busy
  <2> QED
    BY <1>1, <2>2 DEF Heartbeat, SameRuns
<1>2. ASSUME NEW k \in Keys, LeaseLapses(k) PROVE SameRuns /\ SameLeases
  BY <1>2 DEF LeaseLapses, QInv, TypeOK, Rows, SameLeases, SameRuns, Busy
<1> QED
  BY <1>1, <1>2

LEMMA CommandQueue ==
    ASSUME QInv, RequestRecheck \/ AdditionalReceipt \/ RetireTask
                 \/ SourceChanges \/ Tick \/ UNCHANGED vars
    PROVE  SameRuns /\ SameLeases
<1>1. SameRuns
  BY DEF RequestRecheck, AdditionalReceipt, RetireTask, SourceChanges, Tick, vars,
         SameRuns
<1>2. CASE RequestRecheck
  <2>1. CASE row["VERIFY"].status = "NONE"
    <3> DEFINE r == [NoRow EXCEPT !.status = "READY", !.manual = TRUE, !.due = now]
    <3>1. r.status = "READY" /\ r.owner = "NONE"
      BY DEF NoRow
    <3>2. row' = [row EXCEPT !["VERIFY"] = r]
      BY <1>2, <2>1 DEF RequestRecheck
    <3> HIDE DEF r
    <3> QED
      BY <1>1, <2>1, <3>1, <3>2, OneRow DEF Busy, Keys
  <2>2. CASE row["VERIFY"].status # "NONE"
    BY <1>1, <1>2, <2>2 DEF RequestRecheck, QInv, TypeOK, Rows, SameLeases
  <2> QED
    BY <2>1, <2>2
<1>3. CASE AdditionalReceipt
  BY <1>1, <1>3, EnqueuedRow DEF AdditionalReceipt, Keys
<1>4. CASE RetireTask
  <2>1. ASSUME NEW k \in Keys
        PROVE  /\ row'[k].owner = row[k].owner
               /\ row'[k].status \in Busy <=> row[k].status \in Busy
    <3>1. CASE row[k].status = "READY"
      <4>1. row'[k] = NoRow
        BY <1>4, <3>1 DEF RetireTask
      <4>2. row[k].owner = "NONE"
        BY <3>1 DEF QInv, TypeOK, LeasesOK, Rows, Busy
      <4> QED
        BY <3>1, <4>1, <4>2 DEF NoRow, Busy
    <3>2. CASE row[k].status # "READY"
      BY <1>4, <3>2 DEF RetireTask
    <3> QED
      BY <3>1, <3>2
  <2> QED
    BY <1>1, <2>1 DEF SameLeases
<1>5. CASE SourceChanges \/ Tick \/ UNCHANGED vars
  BY <1>1, <1>5 DEF SourceChanges, Tick, vars, SameLeases
<1> QED
  BY <1>2, <1>3, <1>4, <1>5

LEMMA LeaseQueue ==
    ASSUME QInv, NEW w \in Worker, NEW k \in Keys, Lease(w, k)
    PROVE  Keyed!Next /\ LeasesOK'
<1> DEFINE l == <<w, k>>
<1>1. run[w].pc = "IDLE" /\ row[k].status = "READY"
  BY DEF Lease
<1>2. /\ \A j \in Keys \ {k} : row'[j] = row[j]
      /\ row'[k].status = "LEASED" /\ row'[k].owner = w
  BY DEF Lease, QInv, TypeOK, Rows
<1>3. /\ \A v \in Worker \ {w} : run'[v] = run[v]
      /\ run'[w].pc = "LOAD" /\ run'[w].key = k
  BY DEF Lease, QInv, TypeOK, Idle
<1>4. k \in ReadyKeys /\ ReadyKeys' = ReadyKeys \ {k}
  BY <1>1, <1>2 DEF ReadyKeys
<1>5. HeldKeys' = HeldKeys \cup {<<k, l>>}
  BY <1>1, <1>2 DEF HeldKeys
<1>6. GoingLeases' = GoingLeases \cup {l}
  BY <1>1, <1>3 DEF GoingLeases
<1>7. l \notin GoingLeases
  BY <1>1 DEF GoingLeases
<1>8. l \notin {h[2] : h \in HeldKeys}
  <2> SUFFICES ASSUME NEW h \in HeldKeys PROVE h[2] # l
    OBVIOUS
  <2>1. PICK j \in Keys : /\ row[j].status \in {"LEASED", "LAPSED"}
                          /\ h = <<j, <<row[j].owner, j>>>>
    BY DEF HeldKeys
  <2> QED
    BY <1>1, <2>1
<1>9. l \in GoingLeases' \ GoingLeases /\ l \notin Keyed!Leases
  BY <1>6, <1>7, <1>8 DEF Keyed!Leases
<1>10. LeasesOK'
  BY <1>2, <1>3 DEF QInv, LeasesOK, Busy
<1> HIDE DEF l
<1>11. Keyed!Take(k)
  BY <1>4, <1>5, <1>6, <1>9 DEF Keyed!Take
<1> QED
  BY <1>10, <1>11 DEF Keyed!Next

\* A job that ends is given up by the one lease that held it.
LEMMA RowFree ==
    ASSUME QInv, NEW k \in Keys, row[k].status \in Busy,
           \A j \in Keys \ {k} : row'[j] = row[j],
           row'[k].status \in {"NONE", "READY"}
    PROVE  Keyed!Free({<<k, <<row[k].owner, k>>>>})
<1> DEFINE h == <<k, <<row[k].owner, k>>>>
           again == IF row'[k].status = "READY" THEN {k} ELSE {}
<1>1. h[1] = k
  OBVIOUS
<1>2. HeldKeys' = HeldKeys \ {h}
  BY DEF HeldKeys
<1>3. ReadyKeys' = ReadyKeys \cup again
  BY DEF ReadyKeys, Busy
<1> HIDE DEF h
<1>4. again \in SUBSET {g[1] : g \in {h}}
  BY <1>1
<1> HIDE DEF again
<1>5. Keyed!Free({h})
  BY <1>2, <1>3, <1>4 DEF Keyed!Free
<1> QED
  BY <1>5 DEF h

\* A run that ends is the only one of its worker.
LEMMA RunGone ==
    ASSUME QInv, NEW w \in Worker, run[w].pc # "IDLE", run' = [run EXCEPT ![w] = Idle]
    PROVE  /\ <<w, run[w].key>> \in GoingLeases
           /\ GoingLeases' = GoingLeases \ {<<w, run[w].key>>}
           /\ \A v \in Worker : run'[v].pc # "IDLE" => run'[v].key \in Keys
<1>1. run'[w].pc = "IDLE"
  BY DEF QInv, TypeOK, Idle
<1>2. \A v \in Worker \ {w} : run'[v] = run[v]
  BY DEF QInv, TypeOK
<1> QED
  BY <1>1, <1>2 DEF GoingLeases, QInv, LeasesOK

LEMMA SettleQueue ==
    ASSUME QInv, NEW w \in Worker, Settle(w)
    PROVE  Keyed!Next /\ LeasesOK'
<1> DEFINE l == <<w, run[w].key>>
           k == run[w].key
<1>1. /\ l \in GoingLeases /\ GoingLeases' = GoingLeases \ {l}
      /\ \A v \in Worker : run'[v].pc # "IDLE" => run'[v].key \in Keys
  BY RunGone DEF Settle
<1>2. CASE ~Owns(w)
  <2>1. UNCHANGED <<ReadyKeys, HeldKeys>> /\ UNCHANGED row
    BY <1>2 DEF Settle, ReadyKeys, HeldKeys
  <2>2. LeasesOK'
    BY <1>1, <2>1 DEF QInv, LeasesOK
  <2>3. Keyed!End(l)
    BY <1>1, <2>1 DEF Keyed!End
  <2> QED
    BY <1>1, <2>2, <2>3 DEF Keyed!Next
<1>3. CASE Owns(w)
  <2>1. k \in Keys /\ row[k].owner = w /\ row[k].status \in Busy
    BY <1>3 DEF Settle, Owns, QInv, LeasesOK
  <2>2. row'[k] = NoRow /\ \A j \in Keys \ {k} : row'[j] = row[j]
    BY <1>3, <2>1 DEF Settle, QInv, TypeOK
  <2>3. row'[k].status = "NONE" /\ row'[k].owner = "NONE"
    BY <2>2 DEF NoRow
  <2>4. LeasesOK'
    BY <1>1, <2>2, <2>3, MonitoringAssumption DEF QInv, LeasesOK, Busy
  <2>5. Keyed!Free({<<k, l>>})
    BY <2>1, <2>2, <2>3, RowFree
  <2>6. {h \in HeldKeys : h[2] = l} = {<<k, l>>}
    BY <2>1 DEF HeldKeys, Busy
  <2> HIDE DEF k, l
  <2>7. Keyed!End(l)
    BY <1>1, <2>5, <2>6 DEF Keyed!End
  <2> QED
    BY <1>1, <2>4, <2>7 DEF Keyed!Next
<1> QED
  BY <1>2, <1>3

LEMMA CrashQueue ==
    ASSUME QInv, NEW w \in Worker, Crash(w)
    PROVE  Keyed!Next /\ LeasesOK'
<1>1. /\ <<w, run[w].key>> \in GoingLeases
      /\ GoingLeases' = GoingLeases \ {<<w, run[w].key>>}
      /\ \A v \in Worker : run'[v].pc # "IDLE" => run'[v].key \in Keys
  BY RunGone DEF Crash
<1>2. UNCHANGED <<ReadyKeys, HeldKeys>> /\ UNCHANGED row
  BY DEF Crash, ReadyKeys, HeldKeys
<1>3. LeasesOK'
  BY <1>1, <1>2 DEF QInv, LeasesOK
<1>4. Keyed!End(<<w, run[w].key>>)
  BY <1>1, <1>2 DEF Keyed!End
<1> QED
  BY <1>1, <1>3, <1>4 DEF Keyed!Next

LEMMA ReclaimQueue ==
    ASSUME QInv, NEW k \in Keys, Reclaim(k)
    PROVE  Keyed!Next /\ LeasesOK'
<1>1. row[k].status = "LAPSED" /\ UNCHANGED run
  BY DEF Reclaim
<1>2. /\ \A j \in Keys \ {k} : row'[j] = row[j]
      /\ row'[k].status = "READY" /\ row'[k].owner = "NONE"
  BY DEF Reclaim, QInv, TypeOK, Rows
<1>3. LeasesOK'
  BY <1>1, <1>2, MonitoringAssumption DEF QInv, LeasesOK, Busy
<1>4. Keyed!Free({<<k, <<row[k].owner, k>>>>})
  BY <1>1, <1>2, RowFree DEF Busy
<1>5. {<<k, <<row[k].owner, k>>>>} \in SUBSET HeldKeys /\ UNCHANGED GoingLeases
  BY <1>1 DEF HeldKeys, GoingLeases
<1> QED
  BY <1>3, <1>4, <1>5 DEF Keyed!Reclaim, Keyed!Next

LEMMA NextQueue ==
    ASSUME QInv, [Next]_vars
    PROVE  [Keyed!Next]_(Keyed!vars) /\ LeasesOK'
<1>1. ASSUME NEW w \in Worker, Progress(w) PROVE Keyed!Next /\ LeasesOK'
  BY <1>1, LeaseQueue, CheckQueue, SettleQueue, QuietQueue DEF Progress, QInv
<1>2. CASE RequestRecheck \/ AdditionalReceipt \/ RetireTask \/ SourceChanges
           \/ Tick \/ UNCHANGED vars
  BY <1>2, CommandQueue, QuietQueue DEF QInv
<1>3. CASE (\E w \in Worker : Heartbeat(w)) \/ (\E k \in Keys : LeaseLapses(k))
  BY <1>3, HeartbeatQueue, QuietQueue DEF QInv
<1> QED
  BY <1>1, <1>2, <1>3, CrashQueue, ReclaimQueue DEF Next

LEMMA InitQueue == Init => Keyed!Init /\ LeasesOK
<1> SUFFICES ASSUME Init PROVE Keyed!Init /\ LeasesOK
  OBVIOUS
<1>1. \A k \in Keys : row[k].status \in {"NONE", "READY"} /\ row[k].owner = "NONE"
  BY DEF Init, NoRow
<1>2. \A w \in Worker : run[w].pc = "IDLE"
  BY DEF Init, Idle
<1>3. HeldKeys = {} /\ GoingLeases = {}
  BY <1>1, <1>2 DEF HeldKeys, GoingLeases
<1> QED
  BY <1>1, <1>2, <1>3, MonitoringAssumption DEF Keyed!Init, ReadyKeys, LeasesOK, Busy

\* Verification takes, settles and queues its jobs as the queue's contract allows: a
\* check that lost its lease settles nothing, whatever crashes, lapses or is
\* commanded.
THEOREM UsesKeyedQueueAlways == Spec => UsesKeyedQueue
<1>1. QInv /\ [Next]_vars => [Keyed!Next]_(Keyed!vars) /\ LeasesOK'
  BY NextQueue
<1>2. TypeOK /\ LeasesOK => QInv
  BY DEF QInv
<1> QED
  BY <1>1, <1>2, TypeCorrect, InitQueue, PTL DEF Spec, UsesKeyedQueue, Keyed!Spec
=============================================================================
