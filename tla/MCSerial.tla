------------------------------ MODULE MCSerial ------------------------------
(* A buffer of three places, wrapped around more than twice.               *)
EXTENDS Serial

\* Callers as in the kernel as it is built: before IRQ_start, or handlers.
Masked == {0}

\* With the system tests: threads that print after IRQ_start.
Open == {0, 1}
=============================================================================
