---------------------------- MODULE MCAuditChain ----------------------------
EXTENDS AuditChain

CONSTANTS r1, r2, r3, v1, v2, t1, t2

MCTraceOf == [id \in RecordIds |-> IF id = r1 THEN t2 ELSE t1]
=============================================================================
