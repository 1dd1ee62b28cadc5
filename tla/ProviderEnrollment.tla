-------------------------- MODULE ProviderEnrollment --------------------------
(***************************************************************************)
(* api/provider-enrollment.js with lib/provider-enrollment.js,             *)
(* lib/provider-policy-store.js and lib/universal-policy.js: the service's *)
(* own copy of the policy registry, from which buyers are quoted.          *)
(*                                                                         *)
(* A provider submits a signed enrollment, which is stored as pending under*)
(* a version counted in Redis, registers it on chain, and confirms it with *)
(* the transaction.  A quote resolves the latest stored enrollment of a    *)
(* service.  A desk is one invocation of the service; its pc names the     *)
(* await it is at, and between two awaits anything may happen.             *)
(*                                                                         *)
(* A transaction to the registry emits one PolicyRegistered event, so it   *)
(* is named by the policy it registered.  The marketplace's pages are      *)
(* external: the owner and listing they show pass the checks or do not.    *)
(***************************************************************************)
EXTENDS AgentPolicyRegistry

CONSTANTS
    Desk,             \* concurrent invocations
    MaxEntry,         \* bound of the model on stored enrollments of one service
    SignatureTtl      \* signatureTtlSeconds

ASSUME EnrollmentAssumption == MaxEntry \in Nat /\ SignatureTtl \in Nat

VARIABLES
    entryCount,       \* version:<service>, counted up by INCR
    entries,          \* policy:<id>, the stored enrollments
    latestEntry,      \* latest:<service>, the version it names, 0 for none
    desks             \* the invocations

enrollmentVars == <<entryCount, entries, latestEntry, desks>>

Entry == [service : Service, version : 1 .. MaxEntry]

NoEntry == [status |-> "none"]
Idle == [pc |-> "idle"]

Pending(e) == [status |-> "pending", enrollment |-> e]
Active(e, id) == [status |-> "active", enrollment |-> e, onchain |-> id]

EntryRecord ==
    {Pending(e) : e \in enrollments} \cup {Active(e, id) : e \in enrollments, id \in Policy}

DeskState ==
    {Idle}
    \cup [pc : {"counting"}, enrollment : enrollments]
    \cup [pc : {"saving"}, enrollment : enrollments, entry : Entry,
          left : (SUBSET {"policy", "latest"}) \ {{}}]
    \cup [pc : {"registered"}, entry : Entry, enrollment : enrollments]
    \cup [pc : {"reading", "activating"}, entry : Entry, enrollment : enrollments, id : Policy]
    \cup [pc : {"looking"}, entry : Entry]
    \cup [pc : {"quoting", "offered"}, enrollment : enrollments, id : Policy]

\* The variables' types: entries and desks hold enrollments that were signed.
EnrollmentTypeOK ==
    /\ entryCount \in [Service -> 0 .. MaxEntry]
    /\ entries \in [Entry -> EntryRecord \cup {NoEntry}]
    /\ latestEntry \in [Service -> 0 .. MaxEntry]
    /\ desks \in [Desk -> DeskState]

EnrollmentInit ==
    /\ entryCount = [s \in Service |-> 0]
    /\ entries = [x \in Entry |-> NoEntry]
    /\ latestEntry = [s \in Service |-> 0]
    /\ desks = [d \in Desk |-> Idle]

Goto(d, state) == desks' = [desks EXCEPT ![d] = state]
At(d, pc) == desks[d].pc = pc

-------------------------------------------------------------------------------
(* Submitting a signed enrollment *)

\* submit: prepare is run again, and the signature must be for what it finds now.
Submit(d, e) ==
    /\ At(d, "idle")
    /\ e \in enrollments
    /\ validateTerms(e.terms)
    /\ e.nonce = nonces[e.provider]
    /\ availableBond(e.provider) >= MinimumBond
    /\ e.terms.maxCapAtomic <= availableBond(e.provider)
    /\ e.deadline > now /\ e.deadline <= now + SignatureTtl
    /\ Goto(d, [pc |-> "counting", enrollment |-> e])
    /\ UNCHANGED <<entryCount, entries, latestEntry>>

\* Mutant: the next version is derived from the latest entry, which is written later.
versionAfterLatest(s) == latestEntry[s] + 1

versionAfter(s) == entryCount[s] + 1

\* savePolicy: INCR of the service's version.
CountVersion(d) ==
    /\ At(d, "counting")
    /\ LET e == desks[d].enrollment
           version == versionAfter(e.service)
       IN  /\ version <= MaxEntry
           /\ entryCount' = [entryCount EXCEPT ![e.service] = version]
           /\ Goto(d, [pc |-> "saving", enrollment |-> e, left |-> {"policy", "latest"},
                       entry |-> [service |-> e.service, version |-> version]])
    /\ UNCHANGED <<entries, latestEntry>>

\* savePolicy: the record and the pointer are sent together and land in any order.
SaveEntry(d, key) ==
    /\ At(d, "saving") /\ key \in desks[d].left
    /\ LET x == desks[d].entry
           left == desks[d].left \ {key}
       IN  /\ \/ /\ key = "policy"
                 /\ entries' = [entries EXCEPT ![x] = Pending(desks[d].enrollment)]
                 /\ UNCHANGED latestEntry
              \/ /\ key = "latest"
                 /\ latestEntry' = [latestEntry EXCEPT ![x.service] = x.version]
                 /\ UNCHANGED entries
           /\ Goto(d, IF left = {} THEN Idle ELSE [desks[d] EXCEPT !.left = left])
    /\ UNCHANGED entryCount

-------------------------------------------------------------------------------
(* Confirming its registration *)

\* confirm: the enrollment is read; an active one is answered at once.
Confirm(d, x) ==
    /\ At(d, "idle")
    /\ entries[x].status = "pending"
    /\ Goto(d, [pc |-> "registered", entry |-> x, enrollment |-> entries[x].enrollment])
    /\ UNCHANGED <<entryCount, entries, latestEntry>>

\* The transaction's event must name the enrollment's provider, service and listing.
ReadEvent(d, id) ==
    /\ At(d, "registered")
    /\ LET e == desks[d].enrollment
       IN  /\ registered(id)
           /\ policies[id].provider = e.provider
           /\ id.service = e.service
           /\ policies[id].terms.serviceFingerprint = e.terms.serviceFingerprint
           /\ Goto(d, [pc |-> "reading", entry |-> desks[d].entry, enrollment |-> e, id |-> id])
    /\ UNCHANGED <<entryCount, entries, latestEntry>>

\* Mutant: the event is believed; the registered terms are not read back.
confirmsByEvent(e, id) == isCoverable(id, e.terms.serviceFingerprint)

confirms(e, id) ==
    /\ isCoverable(id, e.terms.serviceFingerprint)
    /\ policies[id].provider = e.provider
    /\ policies[id].terms = e.terms

\* The registry is asked for the latest policy, its coverability and its content.
ReadPolicy(d) ==
    /\ At(d, "reading")
    /\ confirms(desks[d].enrollment, desks[d].id)
    /\ Goto(d, [desks[d] EXCEPT !.pc = "activating"])
    /\ UNCHANGED <<entryCount, entries, latestEntry>>

\* updatePolicy: the entry is read again and written whole.
Activate(d) ==
    /\ At(d, "activating")
    /\ LET x == desks[d].entry
       IN  entries' = [entries EXCEPT ![x] = Active(@.enrollment, desks[d].id)]
    /\ Goto(d, Idle)
    /\ UNCHANGED <<entryCount, latestEntry>>

-------------------------------------------------------------------------------
(* Resolving a policy for a quote *)

\* getLatestPolicy reads the pointer, then the entry it names.
ResolveLatest(d, s) ==
    /\ At(d, "idle")
    /\ latestEntry[s] # 0
    /\ Goto(d, [pc |-> "looking", entry |-> [service |-> s, version |-> latestEntry[s]]])
    /\ UNCHANGED <<entryCount, entries, latestEntry>>

ResolveEntry(d) ==
    /\ At(d, "looking")
    /\ LET r == entries[desks[d].entry]
       IN  /\ r.status = "active"
           /\ r.enrollment.terms.expiresAt > now
           /\ Goto(d, [pc |-> "quoting", enrollment |-> r.enrollment, id |-> r.onchain])
    /\ UNCHANGED <<entryCount, entries, latestEntry>>

ResolveCoverable(d) ==
    /\ At(d, "quoting")
    /\ isCoverable(desks[d].id, desks[d].enrollment.terms.serviceFingerprint)
    /\ Goto(d, [desks[d] EXCEPT !.pc = "offered"])
    /\ UNCHANGED <<entryCount, entries, latestEntry>>

\* An answer, a refusal of any of the checks above, a failed read, or a crash.
Leave(d) ==
    /\ ~At(d, "idle")
    /\ Goto(d, Idle)
    /\ UNCHANGED <<entryCount, entries, latestEntry>>

DeskStep(d) ==
    \/ \E e \in enrollments : Submit(d, e)
    \/ CountVersion(d)
    \/ \E key \in {"policy", "latest"} : SaveEntry(d, key)
    \/ \E x \in Entry : Confirm(d, x)
    \/ \E id \in Policy : ReadEvent(d, id)
    \/ ReadPolicy(d)
    \/ Activate(d)
    \/ \E s \in Service : ResolveLatest(d, s)
    \/ ResolveEntry(d)
    \/ ResolveCoverable(d)
    \/ Leave(d)

EnrollmentNext == \E d \in Desk : DeskStep(d)

\* The registry and the service beside it: the service only reads the chain.
EnrollmentSpec ==
    /\ VaultInit /\ RegistryInit /\ EnrollmentInit
    /\ [][ \/ RegistryNext /\ UNCHANGED enrollmentVars
           \/ EnrollmentNext /\ UNCHANGED <<vaultVars, registryVars>>
         ]_<<vaultVars, registryVars, enrollmentVars>>

-------------------------------------------------------------------------------
(* Properties *)

\* What the service believes is what the chain says: an active enrollment, and a
\* policy offered to a buyer, name a policy that its provider registered with
\* exactly the terms it signed for this entry, whichever policies of the same
\* service and listing were registered while it was confirmed.
OfferedIsRegistered ==
    LET believed == {entries[x] : x \in {y \in Entry : entries[y].status = "active"}}
        offered == {desks[d] : d \in {c \in Desk : At(c, "offered")}}
        agrees(e, id) == /\ id.service = e.service
                         /\ policies[id].provider = e.provider
                         /\ policies[id].terms = e.terms
    IN  /\ \A r \in believed : agrees(r.enrollment, r.onchain)
        /\ \A o \in offered : agrees(o.enrollment, o.id)

\* A stored enrollment keeps what its provider signed, and an active one never falls
\* back to pending: no two submissions share an entry, however they overlap.
EntriesOnlyAdvance ==
    [][ \A x \in Entry :
          /\ entries[x].status # "none" =>
                entries'[x].status # "none" /\ entries'[x].enrollment = entries[x].enrollment
          /\ entries[x].status = "active" => entries'[x].status = "active" ]_enrollmentVars
===============================================================================
