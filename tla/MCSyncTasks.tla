----------------------------- MODULE MCSyncTasks -----------------------------
\* Instances of SyncTasks for TLC.  Tasks are interchangeable; logs are not,
\* because the module takes unused ones in a fixed order.
EXTENDS SyncTasks, TLC

Symmetry == Permutations(Tasks)
=============================================================================
