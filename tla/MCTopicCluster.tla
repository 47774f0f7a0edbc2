--------------------------- MODULE MCTopicCluster ---------------------------
(* Topic composed with a cluster whose partition count only grows: a       *)
(* broker thread resolves a reply that is a snapshot of the cluster at     *)
(* that moment, and applies it later, possibly after another thread has    *)
(* applied a newer one.                                                    *)
EXTENDS MCTopic

VARIABLE cluster_cnt   \* the topic's partition count on the brokers

\* An administrator adds a partition to the topic.
ClusterGrow ==
    /\ cluster_cnt < MaxPartCnt
    /\ cluster_cnt' = cluster_cnt + 1
    /\ UNCHANGED vars

\* A reply resolved in this step describes the cluster as it is now.
RepliesFromCluster ==
    \A th \in Threads :
        thr[th].pc = "idle" /\ thr'[th].pc = "resolved"
            => thr'[th].mdt.partition_cnt = cluster_cnt

ClusterSpec == /\ Init /\ cluster_cnt = 1
               /\ [][ \/ Next /\ RepliesFromCluster /\ UNCHANGED cluster_cnt
                      \/ ClusterGrow ]_<<vars, cluster_cnt>>

\* Partitions are never removed from a Kafka topic, so the client never
\* shrinks its partition array while the topic exists and the client runs:
\* a shrink would move the messages of live partitions back to UA and tell
\* consumers those partitions are unknown.
NoPartitionRollback ==
    [][rkt'.partition_cnt < rkt.partition_cnt
         => rkt'.state = "notexists" \/ terminating]_<<vars, cluster_cnt>>
=============================================================================
