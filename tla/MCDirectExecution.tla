--------------------------- MODULE MCDirectExecution ---------------------------
(* One purchase, and two invocations of the buyer's endpoint. *)
EXTENDS DirectExecution

CONSTANTS b1, b2

Symmetry == Permutations({b1, b2})

\* An invocation that has saved that the provider is settled goes no further: what
\* follows touches neither claims nor receipt, and the reconciler's instance has it.
GoesNoFurther(w) == pc(w) = "readClock" => UNCHANGED <<task[w]>>

MCExecutionNext == ExecutionNext /\ \A w \in Worker : GoesNoFurther(w)

MCExecutionSpec == ExecutionInit /\ [][MCExecutionNext]_vars
===============================================================================
