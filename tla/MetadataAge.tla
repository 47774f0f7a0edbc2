---------------------------- MODULE MetadataAge ----------------------------
(***************************************************************************)
(* The metadata-age test of rd_kafka_topic_scan_all()                      *)
(* (src/src/rdkafka_topic.c):                                              *)
(*                                                                         *)
(*   rd_clock() > rkt->rkt_ts_metadata +                                   *)
(*                (metadata_refresh_interval_ms * 1000 * 3)                *)
(*                                                                         *)
(* rd_clock() and rkt_ts_metadata are 64-bit microseconds, but the         *)
(* product is computed in int (32 bits).  Signed overflow is undefined:    *)
(* the build either wraps it (two's complement, what gcc and clang emit    *)
(* for this expression) or, if the optimiser widens it, gets the exact     *)
(* product; both outcomes are checked against the intended test.           *)
(*                                                                         *)
(* TLC's integers are 32-bit, so a 32-bit word is handled as two 16-bit    *)
(* halves and the 64-bit sum is compared as now - ts_metadata.             *)
(***************************************************************************)
EXTENDS Integers

CONSTANTS
    Intervals,   \* values of metadata.refresh.interval.ms to try
    Deltas       \* values of rd_clock() - rkt_ts_metadata (microseconds)

VARIABLES interval, delta

vars == <<interval, delta>>

Half == 65536

\* The int result of x * c for an int x and a small positive int constant c,
\* wrapped to 32 bits (two's complement).
MulWrap32(x, c) ==
    LET lo    == x % Half
        hi    == ((x - lo) \div Half) % Half
        plo   == lo * c
        rlo   == plo % Half
        rhi   == (hi * c + plo \div Half) % Half
    IN  IF rhi >= Half \div 2 THEN (rhi - Half) * Half + rlo
        ELSE rhi * Half + rlo

\* The scan's test as the code computes it: "wrap" selects the wrapped
\* product, otherwise the exact one (compared without forming it).
Aged(iv, d, wrap) ==
    /\ iv >= 0
    /\ IF wrap THEN d > MulWrap32(MulWrap32(iv, 1000), 3)
       ELSE d >= 1 /\ iv <= (d - 1) \div 3000

\* What the comment says: metadata older than 3 x the refresh interval.
AgedReference(iv, d) == iv >= 0 /\ d >= 1 /\ iv <= (d - 1) \div 3000

Init == interval \in Intervals /\ delta \in Deltas

Next == UNCHANGED vars

Spec == Init /\ [][Next]_vars

\* Whatever the build makes of the int product, the scan marks the topic's
\* metadata stale exactly when it is older than three refresh intervals.
AgeCheckMatchesReference ==
    \A wrap \in BOOLEAN :
        Aged(interval, delta, wrap) = AgedReference(interval, delta)

=============================================================================
