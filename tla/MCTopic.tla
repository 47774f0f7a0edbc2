------------------------------ MODULE MCTopic ------------------------------
(* Model-checking instance of Topic: bounds and the state constraint.       *)
EXTENDS Topic

\* Unread consumer error notifications are bounded by MaxErrQ.
ErrQBound == \A i \in Ids : Len(rkt.errq[i]) <= MaxErrQ

\* The message fates the topic's state stands for: a message is queued from
\* the moment produce accepted it until its delivery report; its deadline
\* is its rkm_ts_timeout.
Fates == INSTANCE MessageFates WITH
    FailErrs <- {"_UNKNOWN_TOPIC", "_UNKNOWN_PARTITION"},
    fate     <- [m \in Msgs |-> IF rkt.dr[m] # "none" THEN "reported"
                                ELSE IF m \in rkt.purged THEN "lost"
                                ELSE IF app[m] = "produced" THEN "queued"
                                ELSE app[m]],
    closing  <- terminating,
    report   <- rkt.dr,
    deadline <- [m \in Msgs |-> IF app[m] = "produced" THEN ts_timeout[m]
                                ELSE 0]

\* The topic keeps MessageFates' promises to the application: through every
\* partition-count change, UA flush, metadata error, scan and teardown, each
\* accepted message is reported once and for good, never before its
\* timeout with _MSG_TIMED_OUT, and eventually once it is overdue; it is
\* dropped without a report only after the client started terminating.
FatesRefined == Fates!Spec

=============================================================================
