---------------------------- MODULE MCEventFlow -----------------------------
(* One window, queues of two and three events, a ring of two.              *)
EXTENDS EventFlow
=============================================================================
