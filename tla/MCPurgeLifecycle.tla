-------------------------- MODULE MCPurgeLifecycle --------------------------
EXTENDS PurgeLifecycle
MCContent == [p \in Pages |-> IF p \in {"p", "q"} THEN "x" ELSE "y"]
=============================================================================
