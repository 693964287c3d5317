----------------------------- MODULE MCRetentionEngine -----------------------------
(* Small instances of RetentionEngine for TLC.                             *)
EXTENDS RetentionEngine

\* A version that both triggers may execute; a batch is one log.
Version(enabled, batches) ==
    [enabled |-> enabled, scheduled |-> TRUE, manual |-> TRUE, days |-> 1,
     batch |-> 1, batches |-> batches, interval |-> 2]

MCOneBatch   == {Version(TRUE, 1)}
MCTwoBatches == {Version(TRUE, 2)}

=============================================================================
