# TLA+ models of librdkafka's topic handling (`src/src/rdkafka_topic.c`)

This directory models the topic object of a librdkafka client in TLA+ and checks it with TLC. The topic object holds:

- the topic's state;
- its partition array and the UnAssigned (UA) partition;
- the desired-partition list;
- per-partition leaders and message queues.

The handlers that change it are modelled too.

## The system

`rdkafka_topic.c` contains these parts:

| Part | Code | State it changes |
|---|---|---|
| Registry | `topic_find`, `topic_new0`, `topic_destroy[_final]` (52-255) | the client's topic list, refcounts |
| State machine | `set_state` (264-275) | `rkt_state`: unknown / exists / notexists |
| Reconciler | `partition_cnt_update` (363-487) | `rkt_p`, `rkt_partition_cnt`, `rkt_desp`, toppar flags, queues |
| Leader updater | `leader_update` (299-355) | per-partition leader |
| UA flusher | `assign_uas` (518-587), `propagate_notexists` (499-511) | UA queue, delivery reports, consumer errors |
| Metadata application | `metadata_update` (626-788), `metadata_none` (594-618) | all of the above |
| Teardown | `partitions_remove` (796-853) | empties the topic, releases UA |
| Scanner | `scan_all` (863-958) | ages state to unknown, times messages out |
| Queries | `partition_available`, `topic_name`, `topic_opaque` | none |

### How the parts interact

- Metadata replies arrive on broker threads. Each reply first looks up brokers and checks `rk_terminate` under the client read lock. It then applies the reply under the topic write lock.
- The main thread runs `scan_all` every second.
- The application produces through the partitioner. The partitioner sends a message to UA while the topic is unknown.
- Consumers add desired partitions, which live on `rkt_desp` until the partition exists.
- `rd_kafka_destroy` sets `rk_terminate` and calls `partitions_remove`.

## Modules

- **`Topic.tla`** models one topic. It has one action per handler, and each handler runs under the topic write lock, so it is one atomic step. There are two exceptions:
  - `metadata_update` is two steps per broker thread: `MdResolve` (lines 636-696, the client-lock part) and `MdApply`/`MdApplied` (699-788).
  - `scan_all` is two steps on the main thread. `ScanAge` ages the metadata under the topic write lock (877-897). `ScanTimeouts` runs the loop under the read lock that is re-taken at 898-899, and again after the leader query at 909-911.
    - Metadata replies, teardown and produce interleave between the two steps.
    - The variable `scan` holds the step and the `now` that `scan_all` was called with; the loop's age test uses that `now`.
    - The delivery report after the topic unlock (939-946) belongs to the loop step. It writes only the reports of messages already taken off every queue, which no other handler reads or writes. That step commutes with every other action.

  The whole handler is in each action. For example, `MdApplied` covers the state setting, `PartitionCntUpdate`, the leader updates, the topic-wide leader clear, `AssignUas` and `PropagateNotexists`, in the code's order and under the code's conditions.

  `PartitionCntUpdate` follows the code's removal loop, not spec 4.3's range. `RD_LIST_FOREACH` over `rkt_desp` (427) leaves `i` at the desp list's length (`DespEnd`), and the loop at 432 runs from there to the old count - 1 over the old array. Every partition it visits loses its leader, and its messages move to UA, or get a report when there is no UA. An F_DESIRED partition goes back on the desp list, and the array reference is dropped (467). This includes slots 0..min-1, which line 411 copied into the new array; such slots are recorded in `rkt.released`. Old partitions between the new count and `DespEnd` are not visited, and become unreachable unless they are on the desp list. `partitions_remove` purges its local queue with no delivery report (the comment at 793 says the messages are LOST); purged messages are recorded in `rkt.purged`.

  Variables:
  - `rkt`: the topic record, plus the per-message `rkm_partition` and delivery report (`dr`) that the handlers write;
  - `app`: what `rd_kafka_produce` returned for each message;
  - `ts_timeout`, `now`: message timeouts and the clock;
  - `terminating`;
  - `thr`: each broker thread's reply in flight.

  Some collaborators outside `src/` are modelled from the spec. These are the partitioner, produce, broker produce, `desired_add`/`desired_del` and consumer poll. They drive the handlers and are kept minimal.
- **`MCTopic.tla`** is the instance for TLC. It adds the `ErrQBound` state constraint.
- **`MetadataAge.tla`** is the age test `rd_clock() > ts_metadata + interval*1000*3` of `scan_all`. It computes the int product the way a 32-bit build does. TLC's own integers are 32-bit, so the product is computed on 16-bit halves. Signed overflow is undefined behaviour, so both the wrapped and the exact product are checked. **`MCMetadataAge.tla`** holds the input sets, which contain negative numbers that a cfg cannot hold.

- **`MessageFates.tla`** is an abstract specification of what the topic promises the producing application about each message:
  - produce accepts or rejects it;
  - an accepted message gets one delivery report that never changes;
  - a "timed out" report comes only after its timeout;
  - an overdue message is eventually reported, unless the client is being destroyed: only then may queued messages be lost without a report (`Close`, `Lose`).

  `MCTopic` maps `Topic` onto it with `INSTANCE MessageFates WITH`. The mapping is:
  - `fate` is derived from `app`, `dr` and `rkt.purged` (a purged message is "lost");
  - `closing` is `terminating`;
  - `report` is `rkt.dr`;
  - `deadline` is `ts_timeout`.

  `FatesRefined` is checked as a PROPERTY.
- **`MCTopicCluster.tla`** composes `Topic` with a cluster whose partition count only grows. A reply a thread resolves is a snapshot of the cluster at that moment, and the thread applies it later.
- **`Registry.tla`** models the registry `rk_topics` and the topic refcount:
  - `TopicNew` (`topic_new`/`new0`, under the client write lock);
  - `TopicFind` (`find`/`find0`, under the read lock);
  - `TopicDestroy` and `Release` (`destroy0`);
  - `DestroyFinal` (takes the write lock, unlinks, frees);
  - `Produce`: a message keeps the topic, as the comment at lines 803-806 says;
  - `MsgDelivered` (broker report, outside the client lock);
  - teardown's `RemoveBegin`, `RemovePurge` and `RemoveEnd`. `partitions_remove` keeps the topic (807) and moves its messages to a local queue. It then purges them outside the topic lock, each message dropping its reference (850), and releases its own reference last (852); `DestroyFinal` returns to the step that dropped the last reference (`ret`), so a teardown or scan goes on after it.
  - the scanner's `ScanBegin`, `ScanTimeout` and `ScanEnd`. `scan_all` reports timed-out messages while it holds the client read lock.

  `Scanner` is the main thread. Only it runs `scan_all`, from the one-second timer, so two scans never overlap on the read lock.

  Following the spec, partitions hold no reference to their topic. `readers` are the threads holding the client read lock across steps. The write lock is taken only inside an atomic step, so it is modelled as the guard `readers = {}`.

## Runs

| Run | cfg | Expect | What it shows |
|---|---|---|---|
| producer_safety | `MCTopic_producer.cfg` | pass | `MsgConservation`: every produced message is in exactly one live queue, has exactly one report, or was purged at teardown. This holds through every interleaving of two broker threads, metadata_none, scans, produce and teardown, including the no-UA branch at 445 reached when both threads passed the terminate check before teardown. |
| producer_liveness | `MCTopic_liveness.cfg` | pass | `EveryMessageReported`: every produced message is eventually reported, including messages on UA, unless teardown purges it. `FatesRefined`: `Topic` implements `MessageFates` under the refinement mapping of `MCTopic`; in particular no message is lost before `rk_terminate` is set. |
| consumer_desired | `MCTopic_consumer.cfg` | pass | `RepeatedReplyNoop` (spec R1): every reply applied a second time, right after the first, changes nothing. The run has two broker threads and consumer add/del/poll. |
| partition_teardown | `MCTopic_partition_teardown.cfg` | violation | `ArrayHoldsItsPartitions`: a reply growing the topic from 1 to 2 partitions tears down partition 0 and drops the array's reference to it, while the new array still points to it. |
| ua_stranded | `MCTopic_ua_stranded.cfg` | violation | A message on UA stays there while the topic exists with partitions. |
| notexists_partitions | `MCTopic_notexists.cfg` | violation | A notexists topic keeps its partitions. |
| teardown_race | `MCTopic_teardown.cfg` | violation | A reply that raced `partitions_remove` re-creates partitions on a torn-down topic. |
| metadata_reorder | `MCTopicCluster_reorder.cfg` | violation | A stale reply applied after a newer one shrinks the partition array. |
| registry_refs | `MCRegistry_refs.cfg` | pass | `TypeOK`, and `RefcntMatchesHolders`: a live topic's refcount equals the handles and messages holding it, including the teardown's own reference and messages on its purge queue. The run has three threads. |
| registry_use_after_free | `MCRegistry_use_after_free.cfg` | violation | `find`/`new0` revive a topic whose refcount reached 0; `destroy_final` then frees it under the new holder. |
| registry_scan_deadlock | `MCRegistry_scan_deadlock.cfg` | violation | `scan_all` drops the last reference under the client read lock, and `destroy_final` waits on itself for the write lock (spec P7). |
| metadata_age_overflow | `MCMetadataAge_overflow.cfg` | violation | For intervals of 715828 ms or more, fresh metadata is aged at once. |

Each property of a passing run has a mutant, in `Topic.tla` unless noted, that TLC must find violating it:

| Mutant | Plausible bug it stands for | Property it breaks |
|---|---|---|
| `RemovedMsgsOffByOne` | the removal loop stops one partition short | `MsgConservation` |
| `PropagatedAlways` | notexists is propagated on every notexists reply, as `metadata_none` does | `RepeatedReplyNoop` |
| `ScannedPartsNoUA` | the scan loop starts at 0 instead of UA | `EveryMessageReported` |
| `NotTimedOutEarly` | the age comparison is off by one | `FatesRefined` |
| `RemoveBeginNoKeep` (`Registry.tla`) | `partitions_remove` does not keep the topic at 807 | `RefcntMatchesHolders` |
| `TopicFindNoKeep` (`Registry.tla`) | `find` does not keep | `TypeOK` (refcount below 0) |

### Findings

0. **Removal loop starts at the desp length** (line 432). The loop `for (; i < rkt->rkt_partition_cnt ; i++)` takes the `i` that `RD_LIST_FOREACH` over `rkt_desp` leaves (427). That is the desp list's length, not the new count. On a producer every count change, growth included, tears down every existing partition. It moves the messages to UA, clears the leaders, and drops the array's reference, although slots 0..min-1 of the new array still point to those partitions. On a consumer, desired partitions that stay in the array are relinked onto the desp list, flagged unknown, and told `UNKNOWN_PARTITION`. Old partitions below the desp length are skipped and leaked. `partitions_remove`'s `cnt_update(0)` (812) skips partitions 0..|desp|-1 in the same way. Spec 4.3 removes only `N..current-1`.
1. **UA stranded** (line 765). `assign_uas` runs only when `upd > 0` or the topic is notexists. Suppose the scan ages the topic to unknown and the application then produces, so the messages go to UA. If the next reply is identical to the last one, `upd` is 0 and the messages stay on UA until they time out.
2. **notexists keeps partitions** (lines 707/713). `UNKNOWN_TOPIC_OR_PART` sets notexists but skips `partition_cnt_update`. This contradicts the spec's data-model invariant.
3. **Teardown race** (lines 675/699). The terminate check and the application of the reply are not under one lock, contrary to the comment at 676-677. The race re-creates partitions after `partitions_remove`, and cnt_update then takes the no-UA branch.
4. **Age overflow** (line 887). The `int` product overflows.
5. **Metadata replies applied out of order** (line 712). A reply carries no version. Two broker threads applying replies in the opposite order roll the partition count back. The rolled-back partition's messages go to UA, and consumers are told `UNKNOWN_PARTITION`. Because of finding 0, the older reply also tears down partition 0.
6. **Revived dying topic** (lines 61, 109, 169). The last reference is dropped outside the client lock, and `destroy_final` unlinks the topic only once it has the write lock. A `find` or `new0` in between keeps the topic, and it is freed under the new holder. This needs the last reference to be an application handle or a message, which is the case when partitions hold no reference to their topic (the spec's design). If partitions keep their topic, it happens only after teardown has released them.
7. **Scan self-deadlock** (line 951). `rd_kafka_dr_msgq` under `rd_kafka_rdlock(rk)` can drop the last topic reference. `destroy_final` then blocks on `rd_kafka_wrlock(rk)` on the same thread. `partitions_remove` purges outside its lock for exactly this reason (lines 803-806). Same assumption as 6.

## Bounds and why they suffice

- **Partitions.** `MaxPartCnt = 2` gives replies with 0, 1 and 2 partitions. That covers growing, shrinking, shrinking to zero, and a removed partition that is desired next to one that is not.
- **Brokers.** One broker plus `NoBroker` gives every result of `leader_update`: -1, 0 and 1.
- **Messages.**
  - `producer_safety` uses one message and the liveness run one as well: conservation and liveness are per message, and two messages with two threads take over six minutes. The violation runs use two messages.
  - `partition_teardown` needs only two replies, with `MaxClock = 1`.
- **Threads.** The producer safety run and the consumer run have two broker threads. In the producer run they reach the no-UA branch at 445: both threads pass the terminate check, teardown runs, one re-creates partitions, a message is produced to them, and the other changes the count. The other producer runs have one thread, which already interleaves with teardown, the scan and produce.
- **Clock and queues.**
  - `MsgTimeout = 1`. With `MaxClock = 1` in `producer_safety`, a message produced at 0 times out at 1, after the metadata has aged. The run takes under a minute; `MaxClock = 2` takes over three minutes. The liveness run keeps `MaxClock = 3`.
  - `RefreshIntervalMs = 0` makes metadata age on the next tick, so aging always happens.
  - `MaxErrQ` bounds unread consumer errors.
- **Refinement.** `FatesRefined` is checked in `producer_liveness`, with one message and `MaxClock = 3`. Two messages take 3.5 minutes. Steps that settle several messages at once are checked by `MsgConservation`.
- **Registry.**
  - Three threads and two allocations give a revival followed by a fresh allocation. `MaxMsgs = 2` gives two messages per topic.
  - `registry_refs` has `CHECK_DEADLOCK FALSE`: the system really stops there, either in that deadlock or when all allocations are used. The deadlock is reported by `registry_scan_deadlock` instead.
- **Symmetry.** Only `registry_refs` uses symmetry, over allocations; the Topic runs with liveness or one message gain nothing from it.

## Fairness

`WF(Tick)`, `WF(ScanAge)` and `WF(ScanTimeouts)`: the clock advances, the main thread's timer calls `scan_all` every second, and a started scan completes. The main thread takes no lock that another thread holds indefinitely. Nothing else is fair. `Registry` has no liveness property and no fairness.

The abstract `MessageFates` states its liveness as "overdue leads to reported", not as fairness on an abstract action. Checking an abstract action's ENABLED through the mapping is infeasible for TLC. Metadata replies, produce calls and broker sends may never happen, and the code does not rely on them for reports.

## Not modelled, and the plan

- **Broker xmit queues and broker departure.** Leader changes are handles; the queues are not modelled.
- **The blacklist and topics unknown locally.** These are fixed configuration with early returns that change nothing.
- **Queries and accessors** (`partition_available`, `name`, `opaque`). They change no state.
- **Composing `Registry` with `Topic`.** The two modules share only teardown's reference handling, and `Registry` models that part of `partitions_remove` on its own. The partition moves themselves are in `Topic`'s `PartitionsRemove`. The registry's counts do not depend on which partition a message is on.
- **The desp assertion in `destroy_final`** (line 59). The two modules are not composed for it: `Registry` has no desired partitions and `Topic` has no references. Under the spec's non-owning partition back-reference, a topic released while a consumer still has unknown desired partitions would fail this assertion. It is listed as a hazard.
- **Behaviour after a released slot is used.** Once a slot holds no reference (finding 0), the partition may be freed while the array points to it. What a later access does is undefined. The model goes on as if the memory were still valid, so later steps of that trace are optimistic.
- **Writer starvation on the client lock.** Whether `destroy_final` eventually gets the write lock depends on the rwlock implementation, which is outside `src/`. It is not checked.
- **Next steps.**
  - Duplicate notexists errors (line 615). `metadata_none` calls `propagate_notexists` on every call, but `metadata_update` calls it only on the transition (769-771), so consumers get one `UNKNOWN_TOPIC` per refresh. Spec P5 asks for one per desired entry. Checking this needs a history variable of the notifications. It is not checked yet, and it is listed as a hazard.
