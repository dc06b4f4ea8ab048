------------------------------ MODULE Evaluator ------------------------------
(***************************************************************************)
(* The pure evaluator of packages/domain/src/evaluator.ts: what one read   *)
(* of the source says about a request to cancel at the period end T.       *)
(*                                                                         *)
(* Times are whole seconds (toEpochSeconds), and NoTime is a time that is  *)
(* absent or not a date (of cancel_at: absent; one that is not a date      *)
(* conflicts as any date but T).  Of a snapshot the model keeps what the   *)
(* rules tell apart: `complete` (every required field has its type, and    *)
(* the observation a date), `matches` (adapter, environment, test mode and *)
(* the three identifiers are the request's), `supported` (one licensed     *)
(* item, charged automatically, nothing scheduled, paused or pending).     *)
(* Of the comparison the rows of the three identifiers are left out, which *)
(* MATCH where `matches` holds; the facts are presentation and left out.   *)
(***************************************************************************)
EXTENDS Integers

CONSTANTS
    EvidenceMaxAge,     \* LIMITS.EVIDENCE_MAX_AGE_SECONDS
    FinalizationGrace,  \* LIMITS.FINALIZATION_GRACE_SECONDS
    MonitorInterval,    \* LIMITS.MONITOR_INTERVAL_SECONDS
    BoundaryDelay,      \* LIMITS.RECOVERY_CUTOFF_SECONDS, as used after T
    FirstRetryDelay,    \* LIMITS.READ_RETRY_DELAYS_SECONDS[0]
    ClockSkew,          \* the literal 2 of the check for future observations
    FinalizationMargin  \* the literal 5 of the check after the grace period

ASSUME EvaluatorAssumption ==
    /\ {EvidenceMaxAge, FinalizationGrace, BoundaryDelay, ClockSkew} \subseteq Nat
    /\ {MonitorInterval, FirstRetryDelay, FinalizationMargin} \subseteq Nat \ {0}

NoTime == -1

RequestStates == {"ACTIVE", "SUPERSEDED", "RETIRED"}

Unavailable == {"SOURCE_UNAVAILABLE", "SOURCE_TIMEOUT", "SOURCE_RATE_LIMITED"}
Forbidden == {"SOURCE_ACCESS_DENIED", "LIVE_MODE_BLOCKED", "NOT_CONFIGURED"}
SourceErrors == Unavailable \cup Forbidden
                \cup {"SOURCE_NOT_FOUND", "SOURCE_DATA_INVALID"}

\* A request whose context is missing has no valid period end.
Requests(Time) == [status : RequestStates, T : Time \cup {NoTime}]

Snapshots(Time) ==
    [complete : BOOLEAN, matches : BOOLEAN, supported : BOOLEAN,
     canceled : BOOLEAN, ended : Time \cup {NoTime}, flag : BOOLEAN,
     cancel_at : Time \cup {NoTime}, period_end : Time \cup {NoTime}]

Reads(Time) ==
    [error : SourceErrors \cup {"NONE"}, retry_after : Nat, observed : Time,
     snapshot : Snapshots(Time)]
-----------------------------------------------------------------------------
\* Rules 3 to 6: the source could not be read.
FailureReason(e) ==
    IF e \in Unavailable THEN "SOURCE_UNAVAILABLE"
    ELSE IF e \in Forbidden THEN "SOURCE_ACCESS_DENIED"
    ELSE IF e = "SOURCE_NOT_FOUND" THEN "SOURCE_NOT_FOUND"
    ELSE "SOURCE_DATA_INVALID"

\* Mutant: what counts is when the end was seen.
EndedReasonAsSeen(s, T, observed) ==
    IF s.ended = NoTime THEN "END_TIME_MISSING"
    ELSE IF observed < T THEN "ENDED_EARLY"
    ELSE IF observed <= T + FinalizationGrace THEN "ENDED_ON_TIME"
    ELSE "ENDED_LATE"

\* Rules 9 to 12: the subscription has ended.
EndedReason(s, T, observed) ==
    IF s.ended = NoTime THEN "END_TIME_MISSING"
    ELSE IF s.ended > observed THEN "END_TIME_INVALID"
    ELSE IF s.ended < T THEN "ENDED_EARLY"
    ELSE IF s.ended <= T + FinalizationGrace THEN "ENDED_ON_TIME"
    ELSE "ENDED_LATE"

\* Rules 16 to 21: an active subscription of the authorized period.
ScheduleReason(s, T, now) ==
    IF now < T
    THEN IF s.flag THEN "CANCELLATION_SCHEDULED"
         ELSE IF s.cancel_at = NoTime THEN "SCHEDULE_MISSING"
         ELSE "CANCELLATION_MODE_MISMATCH"
    ELSE IF now < T + FinalizationGrace
    THEN IF s.flag THEN "FINALIZATION_PENDING" ELSE "SCHEDULE_MISSING"
    ELSE "NOT_ENDED"

\* Rules 13 to 15 before them: the shape and the period.
ActiveReason(s, T, now) ==
    IF ~s.supported THEN "UNSUPPORTED_SHAPE"
    ELSE IF s.period_end = NoTime THEN "SOURCE_DATA_INVALID"
    ELSE IF s.period_end # T THEN "PERIOD_CHANGED"
    ELSE IF s.cancel_at \notin {NoTime, T} THEN "CONFLICTING_CANCEL_DATE"
    ELSE ScheduleReason(s, T, now)

\* evaluate(...).primary_reason: the first rule that applies.
Reason(request, read, now) ==
    LET s == read.snapshot IN
    IF request.T = NoTime THEN "MISSING_CONTEXT"
    ELSE IF request.status # "ACTIVE" THEN "REQUEST_NOT_ACTIVE"
    ELSE IF read.error # "NONE" THEN FailureReason(read.error)
    ELSE IF ~s.complete \/ read.observed - now > ClockSkew
        THEN "SOURCE_DATA_INVALID"
    ELSE IF now - read.observed > EvidenceMaxAge THEN "EVIDENCE_STALE"
    ELSE IF ~s.matches THEN "IDENTITY_MISMATCH"
    ELSE IF s.canceled THEN EndedReason(s, request.T, read.observed)
    ELSE ActiveReason(s, request.T, now)

Untrustworthy == {"SOURCE_UNAVAILABLE", "SOURCE_NOT_FOUND", "SOURCE_ACCESS_DENIED",
                  "SOURCE_DATA_INVALID", "EVIDENCE_STALE", "MISSING_CONTEXT"}

\* evaluate(...).verdict
VerdictOf(reason) ==
    IF reason = "CANCELLATION_SCHEDULED" THEN "SATISFIED_SCHEDULED"
    ELSE IF reason = "ENDED_ON_TIME" THEN "SATISFIED_ENDED"
    ELSE IF reason = "UNSUPPORTED_SHAPE" THEN "OUT_OF_SCOPE"
    ELSE IF reason \in Untrustworthy \cup {"END_TIME_MISSING", "END_TIME_INVALID",
                                           "FINALIZATION_PENDING"}
        THEN "UNVERIFIABLE"
    ELSE "MISMATCH"

\* Mutant: a missing schedule can still be repaired in the grace period.
CandidateInGrace(reason, T, now) ==
    reason = "SCHEDULE_MISSING" /\ now < T + FinalizationGrace

\* evaluate(...).recovery_candidate: rule 17, and not rule 20.
Candidate(reason, T, now) == reason = "SCHEDULE_MISSING" /\ now < T

\* evaluate(...).transient
Transient(reason) == reason \in {"SOURCE_UNAVAILABLE", "EVIDENCE_STALE"}

Later(a, b) == IF a < b THEN b ELSE a
Sooner(a, b) == IF a < b THEN a ELSE b

\* evaluate(...).next_check_at
NextCheck(reason, read, T, now) ==
    IF reason = "CANCELLATION_SCHEDULED"
        THEN Sooner(now + MonitorInterval, T + BoundaryDelay)
    ELSE IF reason = "FINALIZATION_PENDING"
        THEN T + FinalizationGrace + FinalizationMargin
    ELSE IF reason = "SOURCE_UNAVAILABLE"
        THEN now + Later(FirstRetryDelay, read.retry_after)
    ELSE IF reason = "EVIDENCE_STALE" THEN now
    ELSE NoTime

\* Mutant: the last second of the window does not count.
EndedRowBefore(s, T) ==
    IF s.ended = NoTime THEN "UNKNOWN"
    ELSE IF T <= s.ended /\ s.ended < T + FinalizationGrace THEN "MATCH" ELSE "MISMATCH"

\* The row ended_at of a subscription that has ended.
EndedRow(s, T) ==
    IF s.ended = NoTime THEN "UNKNOWN"
    ELSE IF T <= s.ended /\ s.ended <= T + FinalizationGrace THEN "MATCH" ELSE "MISMATCH"

\* The row cancel_at_period_end, the same before T and after (beforeBoundary does
\* not change it).
FlagRow(s) == IF s.flag THEN "MATCH" ELSE "MISMATCH"

\* The rows current_period_end and cancel_at (the row of a value that is not a date
\* is MISMATCH in the code; no rule and no property tells it from UNKNOWN).
DateRow(date, T) ==
    IF date = NoTime THEN "UNKNOWN" ELSE IF date = T THEN "MATCH" ELSE "MISMATCH"

\* buildComparison with a snapshot: an ended subscription has one row, another one
\* has a row for a custom date if it has such a date.
RowsOf(s, T) ==
    IF s.canceled THEN [ended_at |-> EndedRow(s, T)]
    ELSE IF s.cancel_at = NoTime
    THEN [cancel_at_period_end |-> FlagRow(s),
          current_period_end |-> DateRow(s.period_end, T)]
    ELSE [cancel_at_period_end |-> FlagRow(s),
          current_period_end |-> DateRow(s.period_end, T),
          cancel_at |-> DateRow(s.cancel_at, T)]

NoRows == [cancel_at_period_end |-> "UNKNOWN", current_period_end |-> "UNKNOWN"]

\* evaluate(...).comparison: the rules before the freshness of a complete snapshot
\* are asked without it.
Comparison(request, read) ==
    IF request.T # NoTime /\ request.status = "ACTIVE" /\ read.error = "NONE"
         /\ read.snapshot.complete
    THEN RowsOf(read.snapshot, request.T) ELSE NoRows

\* The fields whose row is not MATCH.
Differing(request, read) ==
    {f \in DOMAIN Comparison(request, read) : Comparison(request, read)[f] # "MATCH"}

\* evaluate({ request, read, now })
Evaluate(request, read, now) ==
    LET reason == Reason(request, read, now) IN
    [verdict |-> VerdictOf(reason), reason |-> reason,
     candidate |-> Candidate(reason, request.T, now),
     transient |-> Transient(reason),
     next |-> NextCheck(reason, read, request.T, now),
     comparison |-> Comparison(request, read)]
-----------------------------------------------------------------------------
\* The one situation that may be repaired, whatever the order of the rules
\* (VERIFICATION-CONTRACT.md: a missing schedule before T is the only candidate).
CandidateConditions(request, read, at) ==
    LET s == read.snapshot IN
    /\ request.status = "ACTIVE" /\ request.T # NoTime /\ at < request.T
    /\ read.error = "NONE" /\ s.complete
    /\ read.observed <= at + ClockSkew /\ at <= read.observed + EvidenceMaxAge
    /\ s.matches /\ s.supported /\ ~s.canceled
    /\ s.period_end = request.T /\ s.cancel_at = NoTime /\ ~s.flag

\* The comparison that is stored with a decision explains it: nothing differs where
\* the outcome is satisfied, the missing schedule alone where it can be repaired, and
\* else the field that the reason names.
Explained(request, read, now) ==
    LET e == Evaluate(request, read, now)
        differs(f) == f \in Differing(request, read)
    IN
    /\ e.verdict \in {"SATISFIED_SCHEDULED", "SATISFIED_ENDED"}
         => Differing(request, read) = {}
    /\ e.candidate => Differing(request, read) = {"cancel_at_period_end"}
    /\ e.reason \in {"SCHEDULE_MISSING", "CANCELLATION_MODE_MISMATCH"}
         => differs("cancel_at_period_end")
    /\ e.reason = "PERIOD_CHANGED" => differs("current_period_end")
    /\ e.reason = "CONFLICTING_CANCEL_DATE" => differs("cancel_at")
    /\ e.reason \in {"ENDED_EARLY", "ENDED_LATE", "END_TIME_MISSING"}
         => differs("ended_at")
=============================================================================
