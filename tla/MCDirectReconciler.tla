-------------------------- MODULE MCDirectReconciler --------------------------
(* One purchase, an invocation of the buyer's endpoint and the reconciler. *)
EXTENDS DirectReconciler
===============================================================================
