---------------------------- MODULE MessageFates ----------------------------
(***************************************************************************)
(* What a topic promises the producing application about each message,     *)
(* whatever happens to partitions and metadata underneath:                 *)
(*   - rd_kafka_produce() either accepts the message or rejects it;        *)
(*   - an accepted message gets exactly one delivery report, and the       *)
(*     report never changes;                                               *)
(*   - a rejected message never gets one;                                  *)
(*   - a "timed out" report is given only once the message's timeout has   *)
(*     passed;                                                             *)
(*   - a message whose timeout has passed is eventually reported, unless   *)
(*     the client is being destroyed: then queued messages may be lost     *)
(*     without a report, and only then.                                    *)
(* Several messages may be settled in one step: a whole queue is reported  *)
(* at once.                                                                *)
(***************************************************************************)
EXTENDS Naturals

CONSTANTS
    Msgs,        \* messages the application may produce
    FailErrs,    \* errors a queued message may be failed with
    MsgTimeout   \* message.timeout.ms, in clock units

VARIABLES
    fate,        \* per message: "unborn", "queued", "rejected", "reported"
                 \* or "lost"
    report,      \* per message: its delivery report, or "none"
    deadline,    \* per message: when an accepted message times out
    now,         \* the clock
    closing      \* the client is being destroyed

vars == <<fate, report, deadline, now, closing>>

Init ==
    /\ fate = [m \in Msgs |-> "unborn"]
    /\ report = [m \in Msgs |-> "none"]
    /\ deadline = [m \in Msgs |-> 0]
    /\ now = 0
    /\ closing = FALSE

\* The application produces m: it is queued with a deadline, or rejected.
Accept(m) ==
    /\ fate[m] = "unborn"
    /\ fate' = [fate EXCEPT ![m] = "queued"]
    /\ deadline' = [deadline EXCEPT ![m] = now + MsgTimeout]
    /\ UNCHANGED <<report, now, closing>>

Reject(m) ==
    /\ fate[m] = "unborn"
    /\ fate' = [fate EXCEPT ![m] = "rejected"]
    /\ UNCHANGED <<report, deadline, now, closing>>

\* The reports a queued message m may get now.
Allowed(m) ==
    {"NO_ERROR"} \cup FailErrs
    \cup (IF now >= deadline[m] THEN {"_MSG_TIMED_OUT"} ELSE {})

\* Some queued messages are settled at once, each with an allowed report.
Settle ==
    \E S \in SUBSET {m \in Msgs : fate[m] = "queued"} \ {{}} :
    \E r \in [S -> UNION {Allowed(m) : m \in S}] :
        /\ \A m \in S : r[m] \in Allowed(m)
        /\ fate' = [m \in Msgs |-> IF m \in S THEN "reported" ELSE fate[m]]
        /\ report' = [m \in Msgs |-> IF m \in S THEN r[m] ELSE report[m]]
        /\ UNCHANGED <<deadline, now, closing>>

\* The client starts its destruction.
Close ==
    /\ ~closing
    /\ closing' = TRUE
    /\ UNCHANGED <<fate, report, deadline, now>>

\* During destruction some queued messages are dropped with no report.
Lose ==
    /\ closing
    /\ \E S \in SUBSET {m \in Msgs : fate[m] = "queued"} \ {{}} :
         fate' = [m \in Msgs |-> IF m \in S THEN "lost" ELSE fate[m]]
    /\ UNCHANGED <<report, deadline, now, closing>>

Tick ==
    /\ now' = now + 1
    /\ UNCHANGED <<fate, report, deadline, closing>>

Next == (\E m \in Msgs : Accept(m) \/ Reject(m)) \/ Settle \/ Close
        \/ Lose \/ Tick

\* A message whose timeout has passed does not stay queued forever.
Overdue(m) == fate[m] = "queued" /\ now >= deadline[m]

Progress == \A m \in Msgs : Overdue(m) ~> fate[m] \in {"reported", "lost"}

Spec == Init /\ [][Next]_vars /\ Progress

=============================================================================
