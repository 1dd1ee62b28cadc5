-------------------------- MODULE MCCoveredJobReceipt --------------------------
(***************************************************************************)
(* Instances of CoveredJobReceipt.  Payments p1 and p2 are two headers of  *)
(* authorization a1, for jobs r1 and r2; p3 is of a2, for r2, with another *)
(* cap than p2's.  The replay race has two authorizations for one job.     *)
(*                                                                         *)
(* The run of the service has two parts, and a behaviour is of one.  In    *)
(* "buyers" two invocations and a crash meet on p1 and p2, and jobs stand  *)
(* still.  In "payouts" one invocation at a time sells for all payments,   *)
(* beside two reconcilers and two recorders, which hold what they have     *)
(* read across whole invocations.                                          *)
(***************************************************************************)
EXTENDS CoveredJobReceipt, TLC

CONSTANTS p1, p2, p3, r1, r2, a1, a2, c1, c2, k1, k2, o1, o2

VARIABLE part      \* which part of the run this behaviour is of

ThreeForTwoJobs == p1 :> r1 @@ p2 :> r2 @@ p3 :> r2
TwoHeaders == p1 :> a1 @@ p2 :> a1 @@ p3 :> a2
ThreeCaps == p1 :> 1 @@ p2 :> 2 @@ p3 :> 1

OneJob == p1 :> r1 @@ p2 :> r1
OwnAuthorization == p1 :> a1 @@ p2 :> a2
EqualCaps == p1 :> 1 @@ p2 :> 1

\* Without the outside world moving jobs.
BuyersPart == \A c \in Call : calls'[c].payment # p3

\* Of two that are alike, the second starts only beside the first, and there are not
\* two of each at once; a job moves while its receipt is active or a reconciler has it;
\* no scan reaches back, and no
\* authorization closes once it was used: the buyers' part has that.
PayoutsPart ==
    /\ calls'[c2] = NoCall /\ crashes' = 0
    /\ reconcilers[k2] = NoReconciler /\ reconcilers'[k2] # NoReconciler =>
          reconcilers[k1] # NoReconciler
    /\ recorders[o2] = NoRecord /\ recorders'[o2] # NoRecord => recorders[o1] # NoRecord
    /\ reconcilers'[k2] = NoReconciler \/ \A k \in Recorder : recorders'[k] = NoRecord
    /\ \A r \in Request :
          jobStatus'[r] # jobStatus[r] \/ (r \in overdue' \ overdue) =>
             records[r].state = "active" \/ \E k \in Reconciler : reconcilers[k].rec.request = r
    /\ \A p \in settled' \ settled : Scanned(p)
    /\ \A p \in expired' \ expired : ~used(p)

MCVars == <<allServiceVars, part>>

MCServiceNext ==
    /\ UNCHANGED part
    /\ \/ part = "buyers" /\ BuyerNext /\ BuyersPart
       \/ part = "payouts" /\ BuyerNext /\ PayoutsPart
       \/ /\ part = "payouts" /\ at(c1, "idle")
          /\ ReconcilerNext \/ PayoutNext \/ JobNext
          /\ PayoutsPart

MCBuyersInit == ServiceInit /\ part = "buyers"

MCBuyersSpec == MCBuyersInit /\ [][BuyerNext /\ UNCHANGED part]_MCVars

InBuyers == part = "buyers" /\ UNCHANGED part

\* The service's fairness.  Liveness is asked of the buyers' part only: behaviours of
\* the other are taken to be unfair.
MCFairness ==
    /\ []<>(part = "buyers")
    /\ \A c \in Call : WF_MCVars(InBuyers /\ CallStepNext(c))
    /\ \A p \in {p1, p2} : SF_MCVars(InBuyers /\ \E c \in Call : Lookup(c, p))
    /\ \A p \in {p1, p2} : SF_MCVars(
          InBuyers /\ \E c \in Call : calls[c].payment = p /\ ReconcileSettled(c))

MCServiceInit == ServiceInit /\ part \in {"buyers", "payouts"}

MCServiceSpec == MCServiceInit /\ [][MCServiceNext]_MCVars /\ MCFairness
===============================================================================
