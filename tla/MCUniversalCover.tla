---------------------------- MODULE MCUniversalCover ----------------------------
(***************************************************************************)
(* Instances of UniversalCover: two jobs, of which one is bought in each   *)
(* behaviour.  The first runs as a task with its net loss covered, the     *)
(* second over the relay with a fixed credit.                              *)
(***************************************************************************)
EXTENDS UniversalCover, TLC

CONSTANTS p1, p2, r1, r2

OwnJob == p1 :> r1 @@ p2 :> r2
OwnAuthorization == p1 :> p1 @@ p2 :> p2
OneEach == p1 :> 1 @@ p2 :> 1

\* The others' authorizations have closed and their jobs have been stopped.
OneLive(p) ==
    LET others == Payment \ {p} IN
    /\ expired = others /\ recoveryOver = others
    /\ overdue = {RequestOf[q] : q \in others}
    /\ jobStatus = [r \in Request |-> IF r = RequestOf[p] THEN "accepted" ELSE "stopped"]

MCUniversalInit ==
    /\ LedgerInit
    /\ calls = [c \in Call |-> NoCall]
    /\ reconcilers = [k \in Reconciler |-> NoReconciler]
    /\ recorders = [k \in Recorder |-> NoRecord]
    /\ submitted = {} /\ settled = {}
    /\ reserve = InitialReserve
    /\ payoutAmount = [t \in Payout |-> 0]
    /\ crashes = 0
    /\ cover = [p \in Payment |-> "None"]
    /\ sent = {}
    /\ relayed = [p \in Payment |-> "none"]
    /\ late = {} /\ challengeOver = {}
    /\ runs = [u \in Run |-> NoRun]
    /\ \E p \in Payment : OneLive(p)

MCUniversalSpec == MCUniversalInit /\ [][UniversalNext]_universalVars /\ UniversalFairness
===============================================================================
