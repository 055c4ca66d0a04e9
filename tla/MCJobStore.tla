----------------------------- MODULE MCJobStore -----------------------------
(* Two processes, three runs, records of two writes.                        *)
EXTENDS JobStore

MCFetched == [r \in Record |-> r]
=============================================================================
