------------------------------ MODULE Registry ------------------------------
(***************************************************************************)
(* The client's topic registry (rk->rk_topics) and the reference count of  *)
(* its topics (src/src/rdkafka_topic.c): rd_kafka_topic_new0() and         *)
(* rd_kafka_topic_find() under the client lock, rd_kafka_topic_destroy()   *)
(* and rd_kafka_topic_destroy_final(), and the delivery reports of         *)
(* rd_kafka_topic_scan_all(), which run under the client read lock.        *)
(*                                                                         *)
(* All topics have the same name, so the registry holds at most one of     *)
(* them; Objs are the topic allocations a run may make.  A reference is    *)
(* held by a thread (the application's handle, or the find() reference of  *)
(* a metadata handler) or by a queued message: the comment of              *)
(* rd_kafka_topic_partitions_remove() notes that a message can hold a      *)
(* reference to the topic.  Partitions hold no reference (the spec makes   *)
(* a partition's back-reference to its topic non-owning).                  *)
(***************************************************************************)
EXTENDS Naturals, FiniteSetsExt, Relation, TLC

CONSTANTS
    Threads,    \* application, broker and main threads
    Objs,       \* topic allocations (rd_calloc in rd_kafka_topic_new0)
    NoObj,      \* no topic
    MaxMsgs,    \* bound on the messages one topic has queued
    Scanner     \* the main thread, which runs the 1 s scan_all timer

ASSUME NoObj \notin Objs /\ MaxMsgs \in Nat /\ Scanner \in Threads

VARIABLES
    st,         \* per allocation: "free", "linked" (on rk_topics) or
                \* "freed" (removed and freed by destroy_final)
    refcnt,     \* per allocation: rkt_refcnt
    msgs,       \* per allocation: queued messages, each holding a reference
    hold,       \* per thread: the topic it holds a reference to, or NoObj
    pc,         \* per thread: "idle", "scan" (inside scan_all's client read
                \* lock), "purge" (inside partitions_remove) or "final"
                \* (inside destroy_final)
    fin,        \* per thread: the topic its destroy_final is for
    ret,        \* per thread: the step destroy_final returns to
    readers,    \* threads holding the client read lock across steps
    tmpq        \* per thread: messages on partitions_remove's local queue

vars == <<st, refcnt, msgs, hold, pc, fin, ret, readers, tmpq>>

\* The allocation on rk_topics, if any.
Linked == {o \in Objs : st[o] = "linked"}

\* The client write lock can be taken: no thread holds the read lock.
WrLockFree == readers = {}

\* rd_kafka_topic_destroy0(): drop one reference to o; the thread that drops
\* the last one calls rd_kafka_topic_destroy_final(), whose assertion
\* (refcnt == 0) it passes, and goes on at pc_after once that returns.
Release(th, o, pc_after) ==
    /\ refcnt' = [refcnt EXCEPT ![o] = @ - 1]
    /\ IF refcnt[o] = 1
       THEN /\ pc' = [pc EXCEPT ![th] = "final"]
            /\ fin' = [fin EXCEPT ![th] = o]
            /\ ret' = [ret EXCEPT ![th] = pc_after]
       ELSE pc' = [pc EXCEPT ![th] = pc_after] /\ UNCHANGED <<fin, ret>>

\* rd_kafka_topic_new() / rd_kafka_topic_new0(): under the client write
\* lock, return the registered topic with one more reference, or allocate
\* one with refcnt 1 (keep) and link it.
TopicNew(th) ==
    /\ pc[th] = "idle" /\ hold[th] = NoObj
    /\ WrLockFree
    /\ IF Linked # {}
       THEN \E o \in Linked :
              /\ refcnt' = [refcnt EXCEPT ![o] = @ + 1]
              /\ hold' = [hold EXCEPT ![th] = o]
              /\ UNCHANGED st
       ELSE \E o \in Objs :
              /\ st[o] = "free"
              /\ st' = [st EXCEPT ![o] = "linked"]
              /\ refcnt' = [refcnt EXCEPT ![o] = 1]
              /\ hold' = [hold EXCEPT ![th] = o]
    /\ UNCHANGED <<msgs, pc, fin, ret, readers, tmpq>>

\* Mutant: find() returns the topic without rd_kafka_topic_keep().
TopicFindNoKeep(th) ==
    /\ pc[th] = "idle" /\ hold[th] = NoObj
    /\ \E o \in Linked : hold' = [hold EXCEPT ![th] = o]
    /\ UNCHANGED <<st, refcnt, msgs, pc, fin, ret, readers, tmpq>>

\* rd_kafka_topic_find(rk, name, 1): under the client read lock, keep the
\* registered topic, whatever its reference count (a metadata handler, line
\* 661 of rd_kafka_topic_metadata_update()).
TopicFind(th) ==
    /\ pc[th] = "idle" /\ hold[th] = NoObj
    /\ \E o \in Linked :
         /\ refcnt' = [refcnt EXCEPT ![o] = @ + 1]
         /\ hold' = [hold EXCEPT ![th] = o]
    /\ UNCHANGED <<st, msgs, pc, fin, ret, readers, tmpq>>

\* rd_kafka_produce() with the held handle: the message keeps the topic.
Produce(th) ==
    LET o == hold[th] IN
    /\ pc[th] = "idle" /\ o # NoObj
    /\ msgs[o] < MaxMsgs
    /\ msgs' = [msgs EXCEPT ![o] = @ + 1]
    /\ refcnt' = [refcnt EXCEPT ![o] = @ + 1]
    /\ UNCHANGED <<st, hold, pc, fin, ret, readers, tmpq>>

\* rd_kafka_topic_destroy() of the application handle, or the
\* rd_kafka_topic_destroy0() of a find() reference.
TopicDestroy(th) ==
    /\ pc[th] = "idle" /\ hold[th] # NoObj
    /\ Release(th, hold[th], "idle")
    /\ hold' = [hold EXCEPT ![th] = NoObj]
    /\ UNCHANGED <<st, msgs, readers, tmpq>>

\* A broker thread delivers a message's report outside the client lock;
\* the message's topic reference is dropped.
MsgDelivered(th, o) ==
    /\ pc[th] = "idle" /\ msgs[o] > 0
    /\ msgs' = [msgs EXCEPT ![o] = @ - 1]
    /\ Release(th, o, "idle")
    /\ UNCHANGED <<st, hold, readers, tmpq>>

\* rd_kafka_topic_scan_all(), on the main thread: rd_kafka_rdlock(rk) ...
ScanBegin(th) ==
    /\ th = Scanner
    /\ pc[th] = "idle" /\ hold[th] = NoObj
    /\ pc' = [pc EXCEPT ![th] = "scan"]
    /\ readers' = readers \cup {th}
    /\ UNCHANGED <<st, refcnt, msgs, hold, fin, ret, tmpq>>

\* ... rd_kafka_dr_msgq(rkt, &timedout, _MSG_TIMED_OUT) of a timed-out
\* message of o, still under the client read lock ...
ScanTimeout(th, o) ==
    /\ pc[th] = "scan" /\ msgs[o] > 0
    /\ msgs' = [msgs EXCEPT ![o] = @ - 1]
    /\ Release(th, o, "scan")
    /\ UNCHANGED <<st, hold, readers, tmpq>>

\* ... rd_kafka_rdunlock(rk).
ScanEnd(th) ==
    /\ pc[th] = "scan"
    /\ pc' = [pc EXCEPT ![th] = "idle"]
    /\ readers' = readers \ {th}
    /\ UNCHANGED <<st, refcnt, msgs, hold, fin, ret, tmpq>>

\* Mutant: partitions_remove does not keep the topic it tears down.
RemoveBeginNoKeep(th) ==
    /\ pc[th] = "idle" /\ hold[th] = NoObj
    /\ \E o \in Linked :
         /\ hold' = [hold EXCEPT ![th] = o]
         /\ tmpq' = [tmpq EXCEPT ![th] = msgs[o]]
         /\ msgs' = [msgs EXCEPT ![o] = 0]
    /\ pc' = [pc EXCEPT ![th] = "purge"]
    /\ UNCHANGED <<st, refcnt, fin, ret, readers>>

\* rd_kafka_topic_partitions_remove(rkt) at teardown, for the registered
\* topic: rd_kafka_topic_keep(rkt), then under the topic lock every
\* partition's messages move to the local queue tmpq ...
RemoveBegin(th) ==
    /\ pc[th] = "idle" /\ hold[th] = NoObj
    /\ \E o \in Linked :
         /\ refcnt' = [refcnt EXCEPT ![o] = @ + 1]
         /\ hold' = [hold EXCEPT ![th] = o]
         /\ tmpq' = [tmpq EXCEPT ![th] = msgs[o]]
         /\ msgs' = [msgs EXCEPT ![o] = 0]
    /\ pc' = [pc EXCEPT ![th] = "purge"]
    /\ UNCHANGED <<st, fin, ret, readers>>

\* ... rd_kafka_msgq_purge(rk, &tmpq) outside the topic lock: each purged
\* message drops its reference to the topic ...
RemovePurge(th) ==
    /\ pc[th] = "purge" /\ tmpq[th] > 0
    /\ tmpq' = [tmpq EXCEPT ![th] = @ - 1]
    /\ Release(th, hold[th], "purge")
    /\ UNCHANGED <<st, msgs, hold, readers>>

\* ... and rd_kafka_topic_destroy0(s_rkt) drops the teardown's own.
RemoveEnd(th) ==
    /\ pc[th] = "purge" /\ tmpq[th] = 0
    /\ Release(th, hold[th], "idle")
    /\ hold' = [hold EXCEPT ![th] = NoObj]
    /\ UNCHANGED <<st, msgs, readers, tmpq>>

\* rd_kafka_topic_destroy_final(): take the client write lock, remove the
\* topic from rk_topics, unlock, free it, and return to the caller.
DestroyFinal(th) ==
    LET o == fin[th] IN
    /\ pc[th] = "final"
    /\ WrLockFree
    /\ st' = [st EXCEPT ![o] = "freed"]
    /\ pc' = [pc EXCEPT ![th] = ret[th]]
    /\ fin' = [fin EXCEPT ![th] = NoObj]
    /\ ret' = [ret EXCEPT ![th] = "idle"]
    /\ UNCHANGED <<refcnt, msgs, hold, readers, tmpq>>

Init ==
    /\ st = [o \in Objs |-> "free"]
    /\ refcnt = [o \in Objs |-> 0]
    /\ msgs = [o \in Objs |-> 0]
    /\ hold = [th \in Threads |-> NoObj]
    /\ pc = [th \in Threads |-> "idle"]
    /\ fin = [th \in Threads |-> NoObj]
    /\ ret = [th \in Threads |-> "idle"]
    /\ readers = {}
    /\ tmpq = [th \in Threads |-> 0]

Next ==
    \E th \in Threads :
        \/ TopicNew(th) \/ TopicFind(th) \/ Produce(th) \/ TopicDestroy(th)
        \/ ScanBegin(th) \/ ScanEnd(th) \/ DestroyFinal(th)
        \/ RemoveBegin(th) \/ RemovePurge(th) \/ RemoveEnd(th)
        \/ \E o \in Objs : MsgDelivered(th, o) \/ ScanTimeout(th, o)

Spec == Init /\ [][Next]_vars

-----------------------------------------------------------------------------
(* Properties.                                                             *)

TypeOK ==
    /\ st \in [Objs -> {"free", "linked", "freed"}]
    /\ refcnt \in [Objs -> Nat]
    /\ msgs \in [Objs -> 0 .. MaxMsgs]
    /\ hold \in [Threads -> Objs \cup {NoObj}]
    /\ pc \in [Threads -> {"idle", "scan", "purge", "final"}]
    /\ fin \in [Threads -> Objs \cup {NoObj}]
    /\ ret \in [Threads -> {"idle", "scan", "purge"}]
    /\ readers \subseteq Threads
    /\ tmpq \in [Threads -> 0 .. MaxMsgs]

\* The reference count of a topic that is not freed is the number of
\* handles threads hold to it plus its messages, queued or on a teardown's
\* local queue, across find, new, produce, delivery, teardown and destroy
\* on any threads: no keep is missing and no reference is dropped twice.
RefcntMatchesHolders ==
    \A o \in Objs : st[o] # "freed" =>
        LET holders == {th \in Threads : hold[th] = o} IN
        refcnt[o] = Cardinality(holders) + msgs[o]
                    + MapThenSumSet(LAMBDA th : tmpq[th], holders)

\* No thread uses a freed topic: every handle a thread holds and every
\* queued message refers to a topic that has not been freed (spec
\* invariant 1: a topic is in the registry iff its refcount is positive).
NoUseAfterFree ==
    /\ \A th \in Threads : hold[th] # NoObj => st[hold[th]] # "freed"
    /\ \A o \in Objs : msgs[o] > 0 => st[o] # "freed"

\* Thread a waits for thread b when a, in destroy_final, needs the client
\* write lock that b holds for reading.
WaitsFor == [ab \in Threads \X Threads |->
                pc[ab[1]] = "final" /\ ab[2] \in readers]

\* No cycle of threads waiting on the client lock (spec P7): in particular
\* scan_all never calls destroy_final while it holds the read lock.
NoLockWaitCycle == IsIrreflexive(TransitiveClosure(WaitsFor, Threads), Threads)

=============================================================================
