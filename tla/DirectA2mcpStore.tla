--------------------------- MODULE DirectA2mcpStore ---------------------------
(***************************************************************************)
(* api/lib/direct-a2mcp-store.js: the durable record of a direct purchase, *)
(* and the queue of the executions the scheduled reconciler inspects.      *)
(*                                                                         *)
(* A quote is probed, then bound to the buyer's authorizations, then       *)
(* claimed for execution under a lease and completed, or released back to  *)
(* bound while nothing irreversible has happened.  Every change is made in *)
(* two steps: the caller reads the record and prepares the whole next one  *)
(* from what it read, and a Redis script writes that record if the current *)
(* one passes the script's test.  Between the two anybody may write.       *)
(*                                                                         *)
(* An execution's id is the hash of its quote and of the authorizations    *)
(* bound to it, so a quote has one id and the id is left out.  The queue   *)
(* is a sorted set; the model keeps its members in the order of their      *)
(* scores.                                                                 *)
(***************************************************************************)
EXTENDS Integers, SequencesExt

CONSTANTS
    Quote,          \* quotes
    Worker,         \* invocations of the buyer's endpoint and of the reconciler
    Stage,          \* the irreversible stages that are told apart
    NoGrant,        \* no relay grant
    QuoteTtl,       \* ttlSeconds: how long a quote that is not executing lives
    Lease,          \* leaseSeconds
    MaxTime         \* bound of the model: the clock stops here

ASSUME StoreAssumption ==
    /\ QuoteTtl \in Nat /\ MaxTime \in Nat
    /\ Lease \in Nat \ {0}

VARIABLES
    now,            \* the clock
    quotes,         \* the quote records
    executing       \* the execution queue, in order of score

storeVars == <<quotes, executing>>

QuoteState == {"missing", "probed", "bound", "executing", "complete"}

\* The relay grant an execution keeps in its stages: who issued it, and when.
Grant == [by : Worker, issuedAt : Nat]

ASSUME GrantAssumption == NoGrant \notin Grant

\* Of the stages' values only the relay grant is read again.
QuoteRecord ==
    [state : QuoteState, expiresAt : Nat, startedAtMs : Nat, leaseExpiresAtMs : Nat,
     stages : SUBSET (Stage \cup {"other"}), relayGrant : Grant \cup {NoGrant}, recovery : BOOLEAN]

NoQuote == [state |-> "missing", expiresAt |-> 0, startedAtMs |-> 0, leaseExpiresAtMs |-> 0,
            stages |-> {}, relayGrant |-> NoGrant, recovery |-> FALSE]

StoreTypeOK ==
    /\ quotes \in [Quote -> QuoteRecord]
    /\ executing \in Seq(Quote) /\ IsInjective(executing)

StoreInit ==
    /\ now = 1
    /\ quotes = [q \in Quote |-> [NoQuote EXCEPT !.state = "bound", !.expiresAt = QuoteTtl]]
    /\ executing = <<>>

Tick == now < MaxTime /\ now' = now + 1 /\ UNCHANGED storeVars

-------------------------------------------------------------------------------
(* The queue *)

\* ZADD NX with the execution's start: a claim starts now, after all before it.
Enqueue(q) == IF q \in ToSet(executing) THEN executing ELSE Append(executing, q)

Dequeue(q) == SelectSeq(executing, LAMBDA e : e # q)

\* A score past the last one.
Rotated(q) == Append(Dequeue(q), q)

\* markReconciled
MarkReconciled(q) ==
    executing' = IF quotes[q].state = "executing" THEN Rotated(q) ELSE Dequeue(q)

-------------------------------------------------------------------------------
(* Reading a record and preparing the next one *)

\* resolve: a quote that is not executing is gone after its time to live.
Resolvable(q) ==
    /\ quotes[q].state # "missing"
    /\ quotes[q].state \in {"probed", "bound"} => now < quotes[q].expiresAt

\* A record read in a state that is not executing starts a fresh execution.
ClaimedRecord(r) ==
    [(IF r.state \in {"executing", "complete"} THEN r
        ELSE [r EXCEPT !.startedAtMs = now])
     EXCEPT !.state = "executing", !.leaseExpiresAtMs = now + Lease]

\* Of the other stages all that matters is that there is one.
Saved(stages, stage) ==
    IF stage \in Stage THEN stages \cup {stage}
    ELSE IF stages = {} THEN {"other"} ELSE stages

CheckpointRecord(r, stage) ==
    [r EXCEPT !.stages = Saved(@, stage), !.leaseExpiresAtMs = now + Lease]

\* A checkpoint of the stage "relayGrant".
GrantedRecord(r, grant) == [CheckpointRecord(r, "relayGrant") EXCEPT !.relayGrant = grant]

\* The reconciler's checkpoint leaves the lease alone.
ReconcileCheckpointRecord(r, stage) == [r EXCEPT !.stages = Saved(@, stage)]

RetainedRecord(r) == [r EXCEPT !.recovery = TRUE]

\* The envelope is deleted with the execution's end.
CompletedRecord(r) ==
    [r EXCEPT !.state = "complete", !.leaseExpiresAtMs = 0, !.recovery = FALSE]

YieldedRecord(r) == [r EXCEPT !.leaseExpiresAtMs = now]

ReleasedRecord(r) ==
    [r EXCEPT !.state = "bound", !.startedAtMs = 0, !.leaseExpiresAtMs = 0,
              !.stages = {}, !.relayGrant = NoGrant, !.recovery = FALSE]

-------------------------------------------------------------------------------
(* The scripts: what each writes is the record its caller prepared *)

\* The lease is compared with the time the caller sent.
LeaseFree(q, record) == quotes[q].leaseExpiresAtMs <= record.leaseExpiresAtMs - Lease

\* CLAIM_SCRIPT
Claimable(q, record) ==
    \/ quotes[q].state = "bound"
    \/ quotes[q].state = "executing" /\ LeaseFree(q, record)

Write(q, record) == quotes' = [quotes EXCEPT ![q] = record]

ScriptClaim(q, record) ==
    /\ Claimable(q, record)
    /\ Write(q, record)
    /\ executing' = Enqueue(q)

\* UPDATE_SCRIPT
ScriptUpdate(q, record) ==
    /\ quotes[q].state = "executing"
    /\ Write(q, record)
    /\ executing' = IF record.state = "executing" THEN Enqueue(q) ELSE Dequeue(q)

\* RELEASE_SCRIPT
Releasable(q) == quotes[q].state = "executing" /\ quotes[q].stages = {}

ScriptRelease(q, record) ==
    /\ Releasable(q)
    /\ Write(q, record)
    /\ executing' = Dequeue(q)
===============================================================================
