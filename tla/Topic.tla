------------------------------- MODULE Topic -------------------------------
(***************************************************************************)
(* One topic of a librdkafka client (src/src/rdkafka_topic.c): its state   *)
(* machine, partition array, UnAssigned (UA) partition, desired-partition  *)
(* list, per-partition leaders and message queues, and the handlers that   *)
(* change them: metadata replies (resolve step under the client lock and   *)
(* apply step under the topic lock, by any of several broker threads),     *)
(* "topic missing from metadata", the periodic scan, application produce   *)
(* calls, consumer interest in partitions, and the teardown path.          *)
(*                                                                         *)
(* Every handler below runs under the topic write lock except where noted, *)
(* so one handler is one step; the metadata reply is two steps because the *)
(* code drops the client lock before it takes the topic lock.              *)
(***************************************************************************)
EXTENDS Integers, Sequences, SequencesExt

CONSTANTS
    MaxPartCnt,         \* largest partition count a metadata reply carries
    Brokers,            \* broker handles a leader id can resolve to
    NoBroker,           \* the NULL broker handle (leader -1 or unknown id)
    Msgs,               \* messages the application may produce
    RkType,             \* "producer" or "consumer" (rk->rk_type)
    MdErrs,             \* topic-level errors a metadata reply may carry
    Threads,            \* broker threads that handle metadata replies
    MaxClock,           \* bound on the clock
    MsgTimeout,         \* message.timeout.ms, in clock units
    RefreshIntervalMs,  \* metadata.refresh.interval.ms, in clock units
    MaxErrQ             \* bound on a consumer's unread error notifications

ASSUME /\ MaxPartCnt \in Nat \ {0}
       /\ NoBroker \notin Brokers
       /\ RkType \in {"producer", "consumer"}
       /\ MdErrs \subseteq {"NO_ERROR", "LEADER_NOT_AVAILABLE",
                            "UNKNOWN_TOPIC_OR_PART", "UNKNOWN"}
       /\ MaxClock \in Nat /\ MsgTimeout \in Nat /\ RefreshIntervalMs \in Int

VARIABLES
    rkt,          \* the topic object (rd_kafka_itopic_t) and the per-message
                  \* fields its handlers write (rkm_partition, delivery report)
    app,          \* per message: "unborn", "produced" or "rejected" by produce
    ts_timeout,   \* per message: rkm_ts_timeout
    now,          \* rd_clock()
    terminating,  \* rk->rk_terminate
    thr,          \* per broker thread: the metadata reply it is handling
    scan          \* the main thread's scan_all: its step ("idle" or "loop")
                  \* and the "now" it was called with

vars == <<rkt, app, ts_timeout, now, terminating, thr, scan>>

UA == -1                          \* RD_KAFKA_PARTITION_UA
Ids == 0 .. MaxPartCnt - 1        \* partition ids a toppar may have
States == {"unknown", "exists", "notexists"}  \* rd_kafka_topic_state_names
DrErrs == {"NO_ERROR", "_UNKNOWN_TOPIC", "_UNKNOWN_PARTITION",
           "_MSG_TIMED_OUT"}
NotifyErrs == {"_UNKNOWN_TOPIC", "_UNKNOWN_PARTITION"}

\* A metadata reply for the topic (struct rd_kafka_metadata_topic): partition
\* j has id j and a leader that resolves to a broker handle or to NULL.
Mdts == UNION {[err: MdErrs, partition_cnt: {n},
                leaders: [0 .. n - 1 -> Brokers \cup {NoBroker}]]
               : n \in 0 .. MaxPartCnt}
NoMdt == [err |-> "NO_ERROR", partition_cnt |-> 0, leaders |-> <<>>]

-----------------------------------------------------------------------------
(* Helpers over a topic value t.                                           *)

SetState(t, st) == [t EXCEPT !.state = st]

\* rd_kafka_toppar_get(rkt, p, 0/*no ua-on-miss*/) returns a handle.
HasToppar(t, p) == IF p = UA THEN t.ua ELSE 0 <= p /\ p < t.partition_cnt

\* rd_kafka_dr_msgq(rkt, q, err): delivery report for every message of q.
DrMsgq(t, q, err) ==
    [t EXCEPT !.dr = [m \in Msgs |-> IF m \in ToSet(q) THEN err ELSE @[m]]]

\* rd_kafka_msg_partitioner(rkt, rkm, ...): where message m goes, given
\* r, the partition the configured partitioner would return.
Partitioner(t, m, r) ==
    LET p == IF t.state = "unknown" \/ t.partition_cnt = 0 THEN UA
             ELSE IF t.rkm_partition[m] = UA THEN r
             ELSE t.rkm_partition[m]
        Fail(e) == [ok |-> FALSE, p |-> UA, err |-> e]
    IN  CASE t.state = "notexists" -> Fail("_UNKNOWN_TOPIC")
          [] p # UA /\ p >= t.partition_cnt -> Fail("_UNKNOWN_PARTITION")
          [] ~HasToppar(t, p) -> Fail("_UNKNOWN_PARTITION")
          [] OTHER -> [ok |-> TRUE, p |-> p, err |-> "NO_ERROR"]

\* The partitioner's enqueue for a message it routed to p (rd_kafka_toppar_
\* enq_msg), including "if (rkm_partition == UA) rkm_partition = partition".
EnqMsg(t, m, p) ==
    [t EXCEPT !.uaq = IF p = UA THEN Append(@, m) ELSE @,
              !.msgq = IF p = UA THEN @ ELSE [@ EXCEPT ![p] = Append(@, m)],
              !.rkm_partition[m] = IF @ = UA THEN p ELSE @]

\* rd_kafka_topic_leader_update: 1 changed, 0 unchanged, -1 leader unknown.
LeaderUpdateResult(t, p, rkb) ==
    CASE ~HasToppar(t, p)  -> -1
      [] rkb = NoBroker    -> IF t.leader[p] # NoBroker THEN -1 ELSE 0
      [] t.leader[p] = rkb -> 0
      [] OTHER             -> 1

\* The partition array after rd_kafka_toppar_broker_delegate(rktp, rkb) for
\* every partition p of the reply that rd_kafka_toppar_get() finds.
LeaderUpdate(t, mdt) ==
    [t EXCEPT !.leader = [i \in Ids |->
        IF i < mdt.partition_cnt /\ HasToppar(t, i) THEN mdt.leaders[i]
        ELSE @[i]]]

\* The index RD_LIST_FOREACH(s_rktp, &rkt->rkt_desp, i) leaves in i: the
\* length of the desp list.  The removal loop "for (; i < ...)" starts there.
DespEnd(desp) == Cardinality(desp)

\* Mutant: the removal loop stops one partition short.
RemovedMsgsOffByOne(t, lo) ==
    FlattenSeq([k \in 1 .. t.partition_cnt - lo - 1 |-> t.msgq[lo + k - 1]])

\* The messages of the old partitions lo .. old-1 the removal loop visits,
\* in the order it visits them.
RemovedMsgs(t, lo) ==
    FlattenSeq([k \in 1 .. t.partition_cnt - lo |-> t.msgq[lo + k - 1]])

\* The removed partitions that go back on the desp list: those flagged
\* RD_KAFKA_TOPPAR_F_DESIRED.
Relinked(t, removed) == removed \cap t.desired

\* rd_kafka_topic_partition_cnt_update(rkt, n), "term" being
\* rd_kafka_terminating(rk).  Slots below min(old, n) of the new array take
\* the old pointers as they are; the removal loop then tears down the old
\* partitions from DespEnd(desp) on, kept slots included, and drops the
\* array's reference to each.  Old partitions from n up to DespEnd(desp)
\* are not visited: the old array is freed under them, and only those on
\* the desp list stay reachable.
PartitionCntUpdate(t, n, term) ==
    IF t.partition_cnt = n THEN t ELSE
    LET old      == t.partition_cnt
        added    == {i \in Ids : old <= i /\ i < n}
        found    == added \cap t.desp              \* desired_get() hits
        unlinked == found \cap t.unknown           \* F_UNKNOWN cleared
        created  == added \ found                  \* rd_kafka_toppar_new()
        desp1    == t.desp \ unlinked              \* desp at the error loop
        lo       == DespEnd(desp1)
        removed  == {i \in Ids : lo <= i /\ i < old}
        relinked == Relinked(t, removed)           \* back on the desp list
        kept     == {i \in Ids : i < n}            \* slots of the new array
        skipped  == {i \in Ids : n <= i /\ i < old} \ removed
        \* partitions no longer reachable from the array or the desp list
        gone     == ((removed \ relinked) \cup skipped) \ (kept \cup desp1)
        moved    == IF lo < old THEN RemovedMsgs(t, lo) ELSE <<>>
        t1 == [t EXCEPT
                 !.leader  = [i \in Ids |->
                                IF i \in created \cup removed \cup gone
                                THEN NoBroker ELSE @[i]],
                 !.msgq    = [i \in Ids |->
                                IF i \in created \cup removed \cup gone
                                THEN <<>> ELSE @[i]],
                 !.errq    = [i \in Ids |->
                                CASE i \in created \cup gone -> <<>>
                                  [] i \in desp1 ->
                                       Append(@[i], "_UNKNOWN_PARTITION")
                                  [] i \in relinked /\ ~term ->
                                       Append(@[i], "_UNKNOWN_PARTITION")
                                  [] OTHER -> @[i]],
                 !.desired = @ \ (created \cup gone),
                 !.unknown = ((@ \ unlinked) \ (created \cup gone))
                               \cup relinked,
                 !.desp    = desp1 \cup relinked,
                 !.released = (@ \cup removed) \cap kept,
                 !.uaq     = IF t.ua THEN @ \o moved ELSE @,
                 !.partition_cnt = n]
    IN  IF t.ua THEN t1 ELSE DrMsgq(t1, moved, "_UNKNOWN_PARTITION")

\* rd_kafka_topic_propagate_notexists(rkt)
PropagateNotexists(t) ==
    IF RkType # "consumer" THEN t
    ELSE [t EXCEPT !.errq = [i \in Ids |->
            IF i \in t.desp THEN Append(@[i], "_UNKNOWN_TOPIC") ELSE @[i]]]

\* The error the UA flush reports failed messages with; the result res of
\* routing the message is not consulted, only the topic state.
UaFailErr(t, res) ==
    IF t.state = "notexists" THEN "_UNKNOWN_TOPIC" ELSE "_UNKNOWN_PARTITION"

\* rd_kafka_topic_assign_uas(rkt): re-partition the UA queue; pick[m] is the
\* partition the partitioner would choose for m.
AssignUas(t, pick) ==
    IF RkType # "producer" \/ ~t.ua THEN t ELSE
    LET uas  == t.uaq
        Fast(m) == t.rkm_partition[m] # UA
                   /\ t.rkm_partition[m] >= t.partition_cnt
                   /\ t.state # "unknown"
        Res(m)  == IF Fast(m) THEN [ok |-> FALSE, p |-> UA, err |-> ""]
                   ELSE Partitioner(t, m, pick[m])
        Failed(m) == ~Res(m).ok
        t1 == FoldLeft(LAMBDA acc, m : IF Failed(m) THEN acc
                                       ELSE EnqMsg(acc, m, Res(m).p),
                       [t EXCEPT !.uaq = <<>>], uas)
    IN  [t1 EXCEPT !.dr = [m \in Msgs |->
            IF m \in ToSet(uas) /\ Failed(m) THEN UaFailErr(t, Res(m))
            ELSE @[m]]]


\* The partitions the partitioner may pick once the topic has n partitions.
PickRange(n) == IF n > 0 THEN 0 .. n - 1 ELSE {0}
Picks(n) == [Msgs -> PickRange(n)]

-----------------------------------------------------------------------------
(* rd_kafka_topic_metadata_update(rkb, mdt)                                *)

\* Lines up to the topic lock: the blacklist is not modelled (it is a fixed
\* configuration: a blacklisted topic never reaches this point), temporary
\* LEADER_NOT_AVAILABLE replies are ignored, and the terminate flag is read
\* under the client read lock while brokers are looked up.
MdResolve(th, mdt) ==
    /\ thr[th].pc = "idle"
    /\ ~(mdt.err = "LEADER_NOT_AVAILABLE" /\ mdt.partition_cnt = 0)
    /\ ~terminating
    /\ thr' = [thr EXCEPT ![th] = [pc |-> "resolved", mdt |-> mdt]]
    /\ UNCHANGED <<rkt, app, ts_timeout, now, terminating, scan>>

\* Mutant: notexists is propagated on every notexists reply.
PropagatedAlways(old_state, t) ==
    IF t.state = "notexists" THEN PropagateNotexists(t) ELSE t

\* Consumers are told of a missing topic on the transition into notexists.
Propagated(old_state, t) ==
    IF old_state # t.state /\ t.state = "notexists"
    THEN PropagateNotexists(t) ELSE t

\* The topic value after the write-locked part, pick being the partitioner's
\* choices in rd_kafka_topic_assign_uas().
MdApplied(t, mdt, pick) ==
    LET old_state == t.state
        t1 == [t EXCEPT !.ts_metadata = now]
        t2 == CASE mdt.err \in {"UNKNOWN_TOPIC_OR_PART", "UNKNOWN"}
                     -> SetState(t1, "notexists")
                [] mdt.partition_cnt > 0 -> SetState(t1, "exists")
                [] OTHER -> t1
        cnt_upd == mdt.err = "NO_ERROR"
                   /\ t2.partition_cnt # mdt.partition_cnt
        t3 == IF mdt.err = "NO_ERROR"
              THEN PartitionCntUpdate(t2, mdt.partition_cnt, terminating)
              ELSE t2
        r(j) == LeaderUpdateResult(t3, j, mdt.leaders[j])
        upd == (IF cnt_upd THEN 1 ELSE 0)
               + Quantify(0 .. mdt.partition_cnt - 1, LAMBDA j : r(j) # 0)
        t4 == LeaderUpdate(t3, mdt)
        t5 == IF mdt.err # "NO_ERROR" /\ t4.partition_cnt > 0
              THEN [t4 EXCEPT !.leader = [i \in Ids |->
                       IF i < t4.partition_cnt THEN NoBroker ELSE @[i]]]
              ELSE t4
        t6 == IF upd > 0 \/ t5.state = "notexists" THEN AssignUas(t5, pick)
              ELSE t5
    IN  Propagated(old_state, t6)

\* Lines from the topic write lock on; the leader query it may schedule is an
\* asynchronous hand-off that changes no topic state.
MdApply(th) ==
    LET mdt == thr[th].mdt
        n   == IF mdt.err = "NO_ERROR" THEN mdt.partition_cnt
               ELSE rkt.partition_cnt
    IN  /\ thr[th].pc = "resolved"
        /\ \E pick \in Picks(n) : rkt' = MdApplied(rkt, mdt, pick)
        /\ thr' = [thr EXCEPT ![th] = [pc |-> "idle", mdt |-> NoMdt]]
        /\ UNCHANGED <<app, ts_timeout, now, terminating, scan>>

\* rd_kafka_topic_metadata_none(rkt): the reply did not list the topic.
MetadataNone ==
    /\ ~terminating
    /\ \E pick \in Picks(0) :
         rkt' = PropagateNotexists(
                  AssignUas(
                    PartitionCntUpdate(
                      SetState([rkt EXCEPT !.ts_metadata = now], "notexists"),
                      0, terminating),
                    pick))
    /\ UNCHANGED <<app, ts_timeout, now, terminating, thr, scan>>

-----------------------------------------------------------------------------
(* rd_kafka_topic_scan_all(rk, now), for this topic, on the main thread.  *)
(* Two steps: aging under the topic write lock, then the partition loop    *)
(* under the read lock, re-taken after the write lock is dropped (and      *)
(* again after the leader query hand-off for a topic without partitions);  *)
(* other handlers run in between.  The loop moves the timed-out messages   *)
(* to a local queue that is reported after the topic lock is dropped; that *)
(* report touches only messages no other handler can reach any more, so it *)
(* is taken with the loop.                                                 *)

\* Mutant: a message counts as timed out one tick before its timeout.
NotTimedOutEarly(m) == ts_timeout[m] > scan.now + 1

\* rd_kafka_msgq_age_scan(q, &timedout, now): keep the messages whose
\* timeout lies ahead of the "now" scan_all was called with.
NotTimedOut(m) == ts_timeout[m] > scan.now

\* Mutant: the scan loop starts at partition 0 and skips UA.
ScannedPartsNoUA(t) == {p \in Ids : p < t.partition_cnt /\ HasToppar(t, p)}

\* The partitions the scan loop visits: p from RD_KAFKA_PARTITION_UA up to
\* partition_cnt - 1, skipping those rd_kafka_toppar_get() does not find.
ScannedParts(t) == {p \in {UA} \cup Ids : p < t.partition_cnt /\ HasToppar(t, p)}

Queue(t, p) == IF p = UA THEN t.uaq ELSE t.msgq[p]

\* The metadata of a known topic is older than three refresh intervals
\* (rd_clock() is now; the int arithmetic of the product is MetadataAge).
Aged(t) ==
    /\ t.state # "unknown"
    /\ RefreshIntervalMs >= 0
    /\ now > t.ts_metadata + RefreshIntervalMs * 3

\* Under the topic write lock: metadata older than three refresh intervals
\* ages a known topic to unknown; the lock is then swapped for a read lock.
ScanAge ==
    /\ scan.pc = "idle"
    /\ rkt' = IF Aged(rkt) THEN SetState(rkt, "unknown") ELSE rkt
    /\ scan' = [pc |-> "loop", now |-> now]
    /\ UNCHANGED <<app, ts_timeout, now, terminating, thr>>

\* Under the topic read lock, each partition under its own lock, the
\* timed-out messages of every partition the loop visits move to the local
\* queue; rd_kafka_dr_msgq(rkt, &timedout, _MSG_TIMED_OUT) reports them.
ScanTimeouts ==
    LET scanned  == ScannedParts(rkt)
        timedout == UNION {ToSet(SelectSeq(Queue(rkt, p),
                                           LAMBDA m : ~NotTimedOut(m)))
                           : p \in scanned}
    IN  /\ scan.pc = "loop"
        /\ rkt' = [rkt EXCEPT
                     !.msgq = [i \in Ids |-> IF i \in scanned
                                 THEN SelectSeq(@[i], NotTimedOut) ELSE @[i]],
                     !.uaq  = IF UA \in scanned THEN SelectSeq(@, NotTimedOut)
                              ELSE @,
                     !.dr   = [m \in Msgs |-> IF m \in timedout
                                 THEN "_MSG_TIMED_OUT" ELSE @[m]]]
        /\ scan' = [pc |-> "idle", now |-> 0]
        /\ UNCHANGED <<app, ts_timeout, now, terminating, thr>>

Tick ==
    /\ now < MaxClock
    /\ now' = now + 1
    /\ UNCHANGED <<rkt, app, ts_timeout, terminating, thr, scan>>


-----------------------------------------------------------------------------
(* rd_kafka_topic_partitions_remove(rkt), run once per topic at teardown,  *)
(* and the terminate flag it follows (both set by rd_kafka_destroy()).     *)

Terminate ==
    /\ ~terminating
    /\ terminating' = TRUE
    /\ UNCHANGED <<rkt, app, ts_timeout, now, thr, scan>>

\* cnt_update(0) (with its removal loop starting at the desp list's
\* length), then the queues of every desp partition and of UA move to a
\* local queue, desired_del() drops the desp entries, UA is released, and
\* rd_kafka_msgq_purge() frees the local queue's messages: they get no
\* delivery report ("Any messages in partition queues will be LOST").
PartitionsRemove ==
    LET t1   == PartitionCntUpdate(rkt, 0, terminating)
        tmpq == FlattenSeq(SetToSeq({t1.msgq[i] : i \in t1.desp}))
                \o t1.uaq
        t2   == [t1 EXCEPT
                   !.msgq    = [i \in Ids |-> IF i \in t1.desp THEN <<>>
                                              ELSE @[i]],
                   !.errq    = [i \in Ids |-> IF i \in t1.desp THEN <<>>
                                              ELSE @[i]],
                   !.desired = @ \ t1.desp,
                   !.unknown = @ \ t1.desp,
                   !.desp    = {},
                   !.uaq     = <<>>,
                   !.ua      = FALSE]
    IN  /\ terminating
        /\ rkt.ua
        /\ rkt' = [t2 EXCEPT !.purged = @ \cup ToSet(tmpq)]
        /\ UNCHANGED <<app, ts_timeout, now, terminating, thr, scan>>

-----------------------------------------------------------------------------
(* Collaborators outside rdkafka_topic.c, modelled from the spec.          *)

\* rd_kafka_produce(): message m, forced to partition p0 or UA, goes through
\* rd_kafka_msg_partitioner() under the topic read lock; a failure is
\* returned to the application and the message is not queued.
Produce(m, p0, r) ==
    LET t  == [rkt EXCEPT !.rkm_partition[m] = p0]
        res == Partitioner(t, m, r)
    IN  /\ RkType = "producer"
        /\ app[m] = "unborn"
        /\ now + MsgTimeout <= MaxClock
        /\ ts_timeout' = [ts_timeout EXCEPT ![m] = now + MsgTimeout]
        /\ IF res.ok
           THEN /\ rkt' = EnqMsg(t, m, res.p)
                /\ app' = [app EXCEPT ![m] = "produced"]
           ELSE /\ rkt' = rkt
                /\ app' = [app EXCEPT ![m] = "rejected"]
        /\ UNCHANGED <<now, terminating, thr, scan>>

\* The leader broker of partition p produces its oldest message successfully.
BrokerProduce(p) ==
    /\ p < rkt.partition_cnt
    /\ rkt.leader[p] # NoBroker
    /\ rkt.msgq[p] # <<>>
    /\ rkt' = [rkt EXCEPT !.msgq[p] = Tail(@),
                          !.dr[Head(rkt.msgq[p])] = "NO_ERROR"]
    /\ UNCHANGED <<app, ts_timeout, now, terminating, thr, scan>>

\* rd_kafka_toppar_desired_add(rkt, p): a consumer asks for partition p.
DesiredAdd(p) ==
    /\ RkType = "consumer"
    /\ p \notin rkt.desired
    /\ rkt' = IF p < rkt.partition_cnt
              THEN [rkt EXCEPT !.desired = @ \cup {p}]
              ELSE IF p \in rkt.desp THEN rkt
              ELSE [rkt EXCEPT !.desired = @ \cup {p},
                               !.unknown = @ \cup {p},
                               !.desp    = @ \cup {p},
                               !.leader[p] = NoBroker,
                               !.msgq[p] = <<>>,
                               !.errq[p] = <<>>]
    /\ UNCHANGED <<app, ts_timeout, now, terminating, thr, scan>>

\* rd_kafka_toppar_desired_del(rktp): the consumer no longer wants p; an
\* unknown partition leaves the desp list and is destroyed.
DesiredDel(p) ==
    /\ p \in rkt.desired
    /\ rkt' = IF p \in rkt.unknown
              THEN [rkt EXCEPT !.desired = @ \ {p}, !.unknown = @ \ {p},
                               !.desp = @ \ {p}, !.errq[p] = <<>>]
              ELSE [rkt EXCEPT !.desired = @ \ {p}]
    /\ UNCHANGED <<app, ts_timeout, now, terminating, thr, scan>>

\* The consumer reads the oldest error enqueued on partition p.
ConsumerPoll(p) ==
    /\ p \in rkt.desired
    /\ rkt.errq[p] # <<>>
    /\ rkt' = [rkt EXCEPT !.errq[p] = Tail(@)]
    /\ UNCHANGED <<app, ts_timeout, now, terminating, thr, scan>>

-----------------------------------------------------------------------------

\* rd_kafka_topic_new0(): a new topic is "unknown", has no partitions and an
\* UA partition.
Init ==
    /\ rkt = [state |-> "unknown", partition_cnt |-> 0,
              leader |-> [i \in Ids |-> NoBroker],
              msgq |-> [i \in Ids |-> <<>>], ua |-> TRUE, uaq |-> <<>>,
              desp |-> {}, desired |-> {}, unknown |-> {}, released |-> {},
              errq |-> [i \in Ids |-> <<>>], ts_metadata |-> 0,
              rkm_partition |-> [m \in Msgs |-> UA],
              dr |-> [m \in Msgs |-> "none"], purged |-> {}]
    /\ app = [m \in Msgs |-> "unborn"]
    /\ ts_timeout = [m \in Msgs |-> 0]
    /\ now = 0
    /\ terminating = FALSE
    /\ thr = [th \in Threads |-> [pc |-> "idle", mdt |-> NoMdt]]
    /\ scan = [pc |-> "idle", now |-> 0]

Next ==
    \/ \E th \in Threads, mdt \in Mdts : MdResolve(th, mdt)
    \/ \E th \in Threads : MdApply(th)
    \/ MetadataNone
    \/ ScanAge \/ ScanTimeouts
    \/ Tick
    \/ Terminate
    \/ PartitionsRemove
    \/ \E m \in Msgs, p0 \in Ids \cup {UA},
              r \in PickRange(rkt.partition_cnt) : Produce(m, p0, r)
    \/ \E p \in Ids : BrokerProduce(p)
    \/ \E p \in Ids : DesiredAdd(p) \/ DesiredDel(p) \/ ConsumerPoll(p)

\* The clock advances, the main thread's timer starts the scan every second,
\* and a started scan runs to its end.
Fairness == /\ WF_vars(Tick)
            /\ WF_vars(ScanAge) /\ WF_vars(ScanTimeouts)

Spec == Init /\ [][Next]_vars /\ Fairness


-----------------------------------------------------------------------------
(* Properties.                                                             *)

\* Number of places message m is in: a partition queue, the UA queue, its
\* delivery report, or the teardown's purge.
Occ(s, m) == Quantify(DOMAIN s, LAMBDA k : s[k] = m)
Copies(m) == MapThenSumSet(LAMBDA i : Occ(rkt.msgq[i], m), Ids)
             + Occ(rkt.uaq, m) + (IF rkt.dr[m] # "none" THEN 1 ELSE 0)
             + (IF m \in rkt.purged THEN 1 ELSE 0)

\* Every message the application handed over is, after every handler, in
\* exactly one queue of a partition the topic still holds (array, desp list
\* or UA), has had its delivery report, or was purged by the teardown:
\* partition-count changes move the messages of the partitions their
\* removal loop visits to UA (or fail them when a reply raced the teardown
\* and there is no UA), the UA flush re-partitions or fails each one, the
\* scan times them out; none is dropped silently or settled twice.
MsgConservation ==
    /\ \A m \in Msgs : Copies(m) = IF app[m] = "produced" THEN 1 ELSE 0
    /\ \A i \in Ids : i >= rkt.partition_cnt /\ i \notin rkt.desp
                        => rkt.msgq[i] = <<>>
    /\ ~rkt.ua => rkt.uaq = <<>>

\* Every produced message eventually gets a delivery report unless the
\* teardown purges it: the scan visits UA and every partition of the array,
\* so no message is stranded where no timeout reaches it.
EveryMessageReported ==
    \A m \in Msgs :
        app[m] = "produced" ~> rkt.dr[m] # "none" \/ m \in rkt.purged

\* Spec R1: a metadata reply applied again right after it was applied
\* changes nothing, whatever the partitioner picks: brokers answer periodic
\* refreshes and retried requests with the same reply, so leaders, errors
\* to consumers and the UA flush must all be driven by changes only.
RepeatedReplyNoop ==
    [][\A th \in Threads :
         thr[th].pc = "resolved" /\ thr'[th].pc = "idle" =>
           \A pick \in Picks(rkt'.partition_cnt) :
             MdApplied(rkt', thr[th].mdt, pick) = rkt']_vars

\* UA holds only messages whose partition cannot be determined yet: once the
\* topic exists with partitions, no message is left waiting on UA.
UAEmptyWhenRoutable ==
    rkt.state = "exists" /\ rkt.partition_cnt > 0 => rkt.uaq = <<>>

\* A topic the cluster reports as not existing has no partitions (spec,
\* data-model invariant 6).
NotExistsHasNoPartitions ==
    rkt.state = "notexists" => rkt.partition_cnt = 0

\* After rd_kafka_topic_partitions_remove() released UA the topic holds no
\* partitions, in the array or on the desp list; metadata is not applied
\* while terminating.
TeardownLeavesNoPartitions ==
    ~rkt.ua => rkt.partition_cnt = 0 /\ rkt.desp = {}

\* Every slot of the partition array holds a reference to its partition
\* (spec 4.3: the first min(N, current) partitions are moved into the new
\* array, and only the removed ones are released), so no partition the
\* array points to can be freed under it.
ArrayHoldsItsPartitions == rkt.released = {}


=============================================================================
