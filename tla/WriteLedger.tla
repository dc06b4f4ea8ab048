---------------------------- MODULE WriteLedger -----------------------------
(***************************************************************************)
(* What the recovery of a task promises about its writes, without workers, *)
(* jobs, reads or time (RECOVERY-CONTRACT.md, "Durable execution").        *)
(*                                                                         *)
(* A Key stands for one durable intent to write, with one idempotency key. *)
(* An intent is opened only when it is authorized and no other is open,    *)
(* every attempt is counted before it can have an effect, the effect of a  *)
(* key happens once, and what was closed is neither attempted nor reported *)
(* differently again.                                                      *)
(***************************************************************************)
EXTENDS Integers

CONSTANTS
    Key,            \* durable intents
    MaxAttempts     \* attempts of one intent, a natural number

VARIABLES
    granted,        \* the intents that a person or a policy authorized
    report,         \* report[k]: what is known and told of intent k
    attempts,       \* attempts[k]: how often k was attempted
    effect          \* effect[k]: what the attempts of k did at the source

vars == <<granted, report, attempts, effect>>

Closings == {"UNSENT", "APPLIED", "REFUSED", "EXTERNAL"}

LedgerTypeOK ==
    /\ granted \subseteq Key
    /\ report \in [Key -> {"NONE", "OPEN"} \cup Closings]
    /\ attempts \in [Key -> 0..MaxAttempts]
    /\ effect \in [Key -> {"NONE", "APPLIED", "REFUSED"}]

Init ==
    /\ granted = {}
    /\ report = [k \in Key |-> "NONE"]
    /\ attempts = [k \in Key |-> 0]
    /\ effect = [k \in Key |-> "NONE"]

Grant(k) ==
    /\ k \notin granted
    /\ granted' = granted \cup {k}
    /\ UNCHANGED <<report, attempts, effect>>

Open(k) ==
    /\ k \in granted /\ report[k] = "NONE"
    /\ \A other \in Key : report[other] # "OPEN"
    /\ report' = [report EXCEPT ![k] = "OPEN"]
    /\ UNCHANGED <<granted, attempts, effect>>

Attempt(k) ==
    /\ report[k] = "OPEN" /\ attempts[k] < MaxAttempts
    /\ attempts' = [attempts EXCEPT ![k] = @ + 1]
    /\ UNCHANGED <<granted, report, effect>>

\* The source acts on the key, once; possibly long after the attempt, even
\* after the intent was closed on other evidence.
TakeEffect(k) ==
    /\ attempts[k] > 0 /\ effect[k] = "NONE"
    /\ \E e \in {"APPLIED", "REFUSED"} : effect' = [effect EXCEPT ![k] = e]
    /\ UNCHANGED <<granted, report, attempts>>

\* UNSENT and REFUSED are final truths about the source.  APPLIED and EXTERNAL
\* say how a satisfied source is explained.
Close(k) ==
    /\ report[k] = "OPEN"
    /\ \E c \in Closings :
        /\ c = "UNSENT" <=> attempts[k] = 0
        /\ c = "REFUSED" => effect[k] = "REFUSED"
        /\ report' = [report EXCEPT ![k] = c]
    /\ UNCHANGED <<granted, attempts, effect>>

Next ==
    \E k \in Key : Grant(k) \/ Open(k) \/ Attempt(k) \/ TakeEffect(k) \/ Close(k)

Spec == Init /\ [][Next]_vars
-----------------------------------------------------------------------------
\* At most one intent is open.
OneOpen == \A j, k \in Key : report[j] = "OPEN" /\ report[k] = "OPEN" => j = k

\* What is told of an unsent or refused write stays true.
ClosingsAreTrue ==
    \A k \in Key :
        /\ report[k] = "UNSENT" => attempts[k] = 0 /\ effect[k] = "NONE"
        /\ report[k] = "REFUSED" => effect[k] = "REFUSED"
        /\ effect[k] # "NONE" => k \in granted
=============================================================================
