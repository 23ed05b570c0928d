------------------------ MODULE MCIdempotentDispatch ------------------------
(* Three requests with one key; the timeouts the run admits.               *)
EXTENDS IdempotentDispatch, TLC

\* The client's timeout may strike at any await of dispatch() up to the commit
\* of the COMPLETED row.
BeforeCommit == Awaits \ {"completed", "auditing"}
=============================================================================
