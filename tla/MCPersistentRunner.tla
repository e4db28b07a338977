-------------------------- MODULE MCPersistentRunner --------------------------
(* Small instances of PersistentRunner for TLC. *)
EXTENDS PersistentRunner

CONSTANTS r1, r2

\* Every runner handles and rebuilds every task.
AllTasks == [r \in Runners |-> Tasks]

\* Only r2 has factories.
OnlyR2 == [r \in Runners |-> IF r = r2 THEN Tasks ELSE {}]
=============================================================================
