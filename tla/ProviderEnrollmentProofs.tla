------------------------ MODULE ProviderEnrollmentProofs ------------------------
(***************************************************************************)
(* What the service believes about the registry, for any number of         *)
(* invocations, services and stored enrollments.                           *)
(*                                                                         *)
(* EnrollmentInv is inductive.  An entry is named by a version its service *)
(* has counted, so an invocation that has still to store one owns the name *)
(* alone, and whatever is stored keeps the enrollment it was stored with.  *)
(* What a confirmation has read back from the chain stays true while the   *)
(* invocation goes on: a registered policy keeps its provider and terms.   *)
(***************************************************************************)
EXTENDS ProviderEnrollment, BondAndPolicyProofs

serviceVars == <<vaultVars, registryVars, enrollmentVars>>

EnrollmentStep ==
    \/ RegistryNext /\ UNCHANGED enrollmentVars
    \/ EnrollmentNext /\ UNCHANGED <<vaultVars, registryVars>>

Agrees(e, id) ==
    /\ registered(id)
    /\ id.service = e.service
    /\ policies[id].provider = e.provider
    /\ policies[id].terms = e.terms

Stores(x, e) == entries[x].status # "none" /\ entries[x].enrollment = e

EntriesAgree ==
    \A x \in Entry :
      /\ entries[x].status # "none" => x.version <= entryCount[x.service]
      /\ entries[x].status = "active" => Agrees(entries[x].enrollment, entries[x].onchain)

Recording(desk) == desk.pc = "saving" /\ "policy" \in desk.left

\* What an invocation knows between two awaits.
Remembers(desk) ==
    /\ desk.pc = "saving" => desk.entry.version <= entryCount[desk.entry.service]
    /\ Recording(desk) => entries[desk.entry].status = "none"
    /\ desk.pc \in {"registered", "reading", "activating"} => Stores(desk.entry, desk.enrollment)
    /\ desk.pc = "reading" => desk.id.service = desk.enrollment.service
    /\ desk.pc \in {"activating", "quoting", "offered"} => Agrees(desk.enrollment, desk.id)

OwnEntries ==
    \A c, d \in Desk :
      c # d /\ Recording(desks[c]) /\ Recording(desks[d]) => desks[c].entry # desks[d].entry

EnrollmentInv ==
    /\ RegistryInv
    /\ EnrollmentTypeOK
    /\ EntriesAgree
    /\ \A d \in Desk : Remembers(desks[d])
    /\ OwnEntries

-------------------------------------------------------------------------------
(* Shapes *)

(* An entry is its service and version. *)
LEMMA EntryShape ==
  ASSUME NEW x \in Entry
  PROVE  /\ x.service \in Service /\ x.version \in 1 .. MaxEntry
         /\ x = [service |-> x.service, version |-> x.version]
BY DEF Entry

(* A stored enrollment was signed, and an active one names a policy. *)
LEMMA RecordShape ==
  ASSUME EnrollmentTypeOK, NEW x \in Entry
  PROVE  /\ entries[x].status \in {"none", "pending", "active"}
         /\ entries[x].status # "none" => entries[x].enrollment \in enrollments
         /\ entries[x].status = "active" => entries[x].onchain \in Policy
BY DEF EnrollmentTypeOK, EntryRecord, NoEntry, Pending, Active

(* What an invocation holds at each of its awaits. *)
LEMMA DeskShape ==
  ASSUME EnrollmentTypeOK, NEW d \in Desk
  PROVE  /\ desks[d].pc \in {"idle", "counting", "saving", "registered", "reading", "activating",
                             "looking", "quoting", "offered"}
         /\ desks[d].pc \in {"counting", "saving", "registered", "reading", "activating",
                             "quoting", "offered"} => desks[d].enrollment \in enrollments
         /\ desks[d].pc \in {"saving", "registered", "reading", "activating", "looking"} =>
                desks[d].entry \in Entry
         /\ desks[d].pc \in {"reading", "activating", "quoting", "offered"} =>
                desks[d].id \in Policy
         /\ desks[d].pc = "saving" => desks[d].left \in SUBSET {"policy", "latest"}
<1>1. desks[d] \in DeskState
  BY DEF EnrollmentTypeOK
<1> QED
  BY <1>1 DEF DeskState, Idle

(* A signed enrollment is of a service the registry knows. *)
LEMMA EnrollmentShape ==
  ASSUME RegistryInv, NEW e \in enrollments
  PROVE  e.service \in Service /\ e.provider \in Address /\ e.terms \in Terms
BY DEF RegistryInv, RegistryTypeOK, Enrollment

-------------------------------------------------------------------------------
(* The registry moves *)

(* A registered policy keeps the provider and the terms it was registered with. *)
LEMMA PolicyKept ==
  ASSUME RegistryAssumption, VaultAssumption, RegistryInv, [RegistryNext]_allRegistryVars,
         NEW id \in Policy, registered(id)
  PROVE  policies'[id].provider = policies[id].provider /\ policies'[id].terms = policies[id].terms
<1>1. ASSUME NEW p \in Address, NEW s \in Service, NEW t \in Terms, register(p, s, t)
      PROVE  policies'[id] = policies[id]
  BY <1>1, RegisterKeeps
<1>2. ASSUME NEW e \in enrollments, register(e.provider, e.service, e.terms)
      PROVE  policies'[id] = policies[id]
  BY <1>1, <1>2, EnrollmentShape
<1>3. ASSUME NEW x \in Policy, policies[x].active, Retires(x)
      PROVE  /\ policies'[id].provider = policies[id].provider
             /\ policies'[id].terms = policies[id].terms
  <2>1. policies[x] \in PolicyRecord
    BY <1>3, ActiveIsRecord DEF RegistryInv
  <2>2. x # id => policies'[id] = policies[id]
    BY <1>3 DEF Retires, RegistryInv, RegistryTypeOK
  <2>3. policies'[x] = [policies[x] EXCEPT !.active = FALSE]
    BY <1>3 DEF Retires, RegistryInv, RegistryTypeOK
  <2> QED
    BY <2>1, <2>2, <2>3 DEF PolicyRecord
<1>4. ASSUME UNCHANGED policies
      PROVE  policies'[id] = policies[id]
  BY <1>4
<1> QED
  BY <1>1, <1>2, <1>3, <1>4, RegistrySteps DEF RegistryInv, External

(* What was signed stays signed. *)
LEMMA SignaturesKept ==
  ASSUME [RegistryNext]_allRegistryVars
  PROVE  enrollments \subseteq enrollments'
BY DEF RegistryNext, allRegistryVars, registryVars, RegistryActions, RegisterPolicy,
   SignEnrollment, RegisterPolicyBySig, PausePolicy, SuspendForFingerprint, SetMonitor,
   TransferRegistry, AcceptRegistry, TransferAgent

(* What an invocation or an entry agrees with, it agrees with for good. *)
LEMMA AgreesKept ==
  ASSUME RegistryAssumption, VaultAssumption, RegistryInv, [RegistryNext]_allRegistryVars,
         NEW e \in enrollments, NEW id \in Policy, Agrees(e, id)
  PROVE  Agrees(e, id)'
BY PolicyKept DEF Agrees, registered

(* A step of the registry keeps the invariant, the service being still. *)
LEMMA RegistryMoves ==
  ASSUME RegistryAssumption, VaultAssumption, EnrollmentInv,
         [RegistryNext]_allRegistryVars, UNCHANGED enrollmentVars
  PROVE  EnrollmentInv'
<1>1. RegistryInv'
  BY RegistryStepKeeps DEF EnrollmentInv
<1>2. UNCHANGED <<entryCount, entries, latestEntry, desks>>
  BY DEF enrollmentVars
<1>3. enrollments \subseteq enrollments'
  BY SignaturesKept
<1>4. EnrollmentTypeOK'
  <2>1. EntryRecord \subseteq EntryRecord'
    BY <1>3 DEF EntryRecord
  <2>2. DeskState \subseteq DeskState'
    BY <1>3 DEF DeskState
  <2>3. entries' \in [Entry -> EntryRecord' \cup {NoEntry}]
    BY <1>2, <2>1 DEF EnrollmentInv, EnrollmentTypeOK
  <2>4. desks' \in [Desk -> DeskState']
    BY <1>2, <2>2 DEF EnrollmentInv, EnrollmentTypeOK
  <2> QED
    BY <1>2, <2>3, <2>4 DEF EnrollmentInv, EnrollmentTypeOK
<1>5. EntriesAgree'
  <2> SUFFICES ASSUME NEW x \in Entry
               PROVE  /\ entries[x].status # "none" => x.version <= entryCount[x.service]
                      /\ entries[x].status = "active" =>
                            Agrees(entries[x].enrollment, entries[x].onchain)'
    BY <1>2 DEF EntriesAgree, EnrollmentInv
  <2>1. ASSUME entries[x].status = "active"
        PROVE  Agrees(entries[x].enrollment, entries[x].onchain)'
    <3>1. entries[x].enrollment \in enrollments /\ entries[x].onchain \in Policy
      BY <2>1, RecordShape DEF EnrollmentInv
    <3>2. Agrees(entries[x].enrollment, entries[x].onchain)
      BY <2>1 DEF EnrollmentInv, EntriesAgree
    <3>3. \A e \in enrollments, id \in Policy : Agrees(e, id) =>
              /\ policies'[id].provider = e.provider /\ policies'[id].terms = e.terms
              /\ policies'[id].provider # NoAddress
      BY AgreesKept DEF EnrollmentInv, Agrees, registered
    <3> QED
      BY <1>2, <3>1, <3>2, <3>3 DEF Agrees, registered
  <2> QED
    BY <1>2, <2>1 DEF EnrollmentInv, EntriesAgree
<1>6. ASSUME NEW d \in Desk
      PROVE  Remembers(desks[d])'
  <2>1. Remembers(desks[d])
    BY DEF EnrollmentInv
  <2>2. ASSUME desks[d].pc \in {"activating", "quoting", "offered"}
        PROVE  Agrees(desks[d].enrollment, desks[d].id)'
    <3>1. desks[d].enrollment \in enrollments /\ desks[d].id \in Policy
      BY <2>2, DeskShape DEF EnrollmentInv
    <3>2. Agrees(desks[d].enrollment, desks[d].id)
      BY <2>1, <2>2 DEF Remembers
    <3>3. \A e \in enrollments, id \in Policy : Agrees(e, id) =>
              /\ policies'[id].provider = e.provider /\ policies'[id].terms = e.terms
              /\ policies'[id].provider # NoAddress
      BY AgreesKept DEF EnrollmentInv, Agrees, registered
    <3> QED
      BY <1>2, <3>1, <3>2, <3>3 DEF Agrees, registered
  <2> QED
    BY <1>2, <2>1, <2>2 DEF Remembers, Recording, Stores
<1>7. OwnEntries'
  BY <1>2 DEF EnrollmentInv, OwnEntries, Recording
<1> QED
  BY <1>1, <1>4, <1>5, <1>6, <1>7 DEF EnrollmentInv
-------------------------------------------------------------------------------
(* The service moves *)

(* A step of the service leaves the chain alone. *)
LEMMA ChainStill ==
  ASSUME EnrollmentInv, UNCHANGED <<vaultVars, registryVars>>
  PROVE  /\ RegistryInv'
         /\ UNCHANGED <<policies, enrollments>>
BY DEF EnrollmentInv, RegistryInv, RegistryTypeOK, VersionsAreCounted, registered,
   registryVars

(* An invocation that goes on with what it knows, and stores nothing. *)
LEMMA DeskMoves ==
  ASSUME EnrollmentInv, NEW d \in Desk, NEW desk \in DeskState,
         Goto(d, desk), UNCHANGED <<entryCount, entries, latestEntry>>,
         UNCHANGED <<vaultVars, registryVars>>,
         Remembers(desk),
         Recording(desk) => Recording(desks[d]) /\ desk.entry = desks[d].entry
  PROVE  EnrollmentInv'
<1>1. RegistryInv' /\ UNCHANGED <<policies, enrollments>>
  BY ChainStill
<1>2. /\ desks' = [desks EXCEPT ![d] = desk]
      /\ desks \in [Desk -> DeskState]
  BY DEF Goto, EnrollmentInv, EnrollmentTypeOK
<1>3. DeskState' = DeskState /\ EntryRecord' = EntryRecord
  BY <1>1 DEF DeskState, EntryRecord
<1>4. EnrollmentTypeOK'
  BY <1>2, <1>3 DEF EnrollmentInv, EnrollmentTypeOK
<1>5. EntriesAgree'
  BY <1>1 DEF EnrollmentInv, EntriesAgree, Agrees, registered
<1>6. ASSUME NEW c \in Desk
      PROVE  Remembers(desks[c])'
  <2>1. desks'[c] = IF c = d THEN desk ELSE desks[c]
    BY <1>2
  <2>2. Remembers(desks'[c])
    BY <2>1 DEF EnrollmentInv
  <2> QED
    BY <1>1, <2>2 DEF Remembers, Recording, Stores, Agrees, registered
<1>7. OwnEntries'
  BY <1>2 DEF EnrollmentInv, OwnEntries
<1> QED
  BY <1>1, <1>4, <1>5, <1>6, <1>7 DEF EnrollmentInv

(* The invocation's last step, whatever it knew. *)
LEMMA LeaveKeeps ==
  ASSUME EnrollmentInv, NEW d \in Desk, Goto(d, Idle),
         UNCHANGED <<entryCount, entries, latestEntry>>, UNCHANGED <<vaultVars, registryVars>>
  PROVE  EnrollmentInv'
<1>1. Idle \in DeskState /\ ~Recording(Idle) /\ Remembers(Idle)
  BY DEF DeskState, Idle, Recording, Remembers
<1> QED
  BY <1>1, DeskMoves

(* submit: the signed enrollment is taken up. *)
LEMMA SubmitKeeps ==
  ASSUME EnrollmentInv, NEW d \in Desk, NEW e \in enrollments, Submit(d, e),
         UNCHANGED <<vaultVars, registryVars>>
  PROVE  EnrollmentInv'
<1> DEFINE desk == [pc |-> "counting", enrollment |-> e]
<1>1. desk \in DeskState
  BY DEF DeskState
<1>2. ~Recording(desk) /\ Remembers(desk)
  BY DEF Recording, Remembers
<1>3. Goto(d, desk) /\ UNCHANGED <<entryCount, entries, latestEntry>>
  BY DEF Submit
<1> QED
  BY <1>1, <1>2, <1>3, DeskMoves

(* confirm: the entry's enrollment is held from its first reading on. *)
LEMMA ConfirmKeeps ==
  ASSUME EnrollmentInv, NEW d \in Desk, NEW x \in Entry, Confirm(d, x),
         UNCHANGED <<vaultVars, registryVars>>
  PROVE  EnrollmentInv'
<1> DEFINE desk == [pc |-> "registered", entry |-> x, enrollment |-> entries[x].enrollment]
<1>1. entries[x].status = "pending" /\ entries[x].enrollment \in enrollments
  BY RecordShape DEF Confirm, EnrollmentInv
<1>2. desk \in DeskState
  BY <1>1 DEF DeskState
<1>3. ~Recording(desk) /\ Remembers(desk)
  BY <1>1 DEF Recording, Remembers, Stores
<1>4. Goto(d, desk) /\ UNCHANGED <<entryCount, entries, latestEntry>>
  BY DEF Confirm
<1> QED
  BY <1>2, <1>3, <1>4, DeskMoves

(* The event names the service of the enrollment. *)
LEMMA ReadEventKeeps ==
  ASSUME EnrollmentInv, NEW d \in Desk, NEW id \in Policy, ReadEvent(d, id),
         UNCHANGED <<vaultVars, registryVars>>
  PROVE  EnrollmentInv'
<1> DEFINE desk == [pc |-> "reading", entry |-> desks[d].entry,
                    enrollment |-> desks[d].enrollment, id |-> id]
<1>1. /\ desks[d].pc = "registered"
      /\ id.service = desks[d].enrollment.service
      /\ Goto(d, desk) /\ UNCHANGED <<entryCount, entries, latestEntry>>
  BY DEF ReadEvent, At
<1>2. desks[d].entry \in Entry /\ desks[d].enrollment \in enrollments
  BY <1>1, DeskShape DEF EnrollmentInv
<1>3. Stores(desks[d].entry, desks[d].enrollment)
  BY <1>1 DEF EnrollmentInv, Remembers
<1>4. desk \in DeskState
  BY <1>2 DEF DeskState
<1>5. ~Recording(desk) /\ Remembers(desk)
  BY <1>1, <1>3 DEF Recording, Remembers
<1> QED
  BY <1>1, <1>4, <1>5, DeskMoves

(* What the registry is asked for is what the enrollment says. *)
LEMMA ReadPolicyKeeps ==
  ASSUME EnrollmentInv, NEW d \in Desk, ReadPolicy(d), UNCHANGED <<vaultVars, registryVars>>
  PROVE  EnrollmentInv'
<1> DEFINE desk == [desks[d] EXCEPT !.pc = "activating"]
<1>1. /\ desks[d].pc = "reading"
      /\ confirms(desks[d].enrollment, desks[d].id)
      /\ Goto(d, desk) /\ UNCHANGED <<entryCount, entries, latestEntry>>
  BY DEF ReadPolicy, At
<1>2. desks[d] \in [pc : {"reading", "activating"}, entry : Entry, enrollment : enrollments,
                    id : Policy]
  BY <1>1 DEF EnrollmentInv, EnrollmentTypeOK, DeskState, Idle
<1>3. /\ desk \in DeskState /\ desk.pc = "activating"
      /\ desk.entry = desks[d].entry /\ desk.enrollment = desks[d].enrollment
      /\ desk.id = desks[d].id
  BY <1>2 DEF DeskState
<1>4. /\ Stores(desks[d].entry, desks[d].enrollment)
      /\ desks[d].id.service = desks[d].enrollment.service
  BY <1>1 DEF EnrollmentInv, Remembers
<1>5. Agrees(desks[d].enrollment, desks[d].id)
  BY <1>1, <1>4 DEF confirms, isCoverable, Agrees
<1>6. ~Recording(desk) /\ Remembers(desk)
  <2> HIDE DEF desk
  <2> QED
    BY <1>3, <1>4, <1>5 DEF Recording, Remembers
<1> QED
  BY <1>1, <1>3, <1>6, DeskMoves

(* getLatestPolicy: the pointer names an entry. *)
LEMMA ResolveLatestKeeps ==
  ASSUME EnrollmentAssumption, EnrollmentInv, NEW d \in Desk, NEW s \in Service,
         ResolveLatest(d, s), UNCHANGED <<vaultVars, registryVars>>
  PROVE  EnrollmentInv'
<1> DEFINE x == [service |-> s, version |-> latestEntry[s]]
           desk == [pc |-> "looking", entry |-> x]
<1>1. latestEntry[s] \in 0 .. MaxEntry /\ latestEntry[s] # 0 /\ MaxEntry \in Nat
  BY DEF ResolveLatest, EnrollmentInv, EnrollmentTypeOK, EnrollmentAssumption
<1>2. x \in Entry
  BY <1>1 DEF Entry
<1>3. desk \in DeskState
  BY <1>2 DEF DeskState
<1>4. ~Recording(desk) /\ Remembers(desk)
  BY DEF Recording, Remembers
<1>5. Goto(d, desk) /\ UNCHANGED <<entryCount, entries, latestEntry>>
  BY DEF ResolveLatest
<1> QED
  BY <1>3, <1>4, <1>5, DeskMoves

(* getLatestPolicy: an active entry agrees with the chain. *)
LEMMA ResolveEntryKeeps ==
  ASSUME EnrollmentInv, NEW d \in Desk, ResolveEntry(d), UNCHANGED <<vaultVars, registryVars>>
  PROVE  EnrollmentInv'
<1> DEFINE r == entries[desks[d].entry]
           desk == [pc |-> "quoting", enrollment |-> r.enrollment, id |-> r.onchain]
<1>1. /\ desks[d].pc = "looking" /\ r.status = "active"
      /\ Goto(d, desk) /\ UNCHANGED <<entryCount, entries, latestEntry>>
  BY DEF ResolveEntry, At
<1>2. desks[d].entry \in Entry
  BY <1>1, DeskShape DEF EnrollmentInv
<1>3. r.enrollment \in enrollments /\ r.onchain \in Policy /\ Agrees(r.enrollment, r.onchain)
  BY <1>1, <1>2, RecordShape DEF EnrollmentInv, EntriesAgree
<1>4. desk \in DeskState
  BY <1>3 DEF DeskState
<1>5. ~Recording(desk) /\ Remembers(desk)
  BY <1>3 DEF Recording, Remembers
<1> QED
  BY <1>1, <1>4, <1>5, DeskMoves

(* A quote is offered with what it resolved. *)
LEMMA ResolveCoverableKeeps ==
  ASSUME EnrollmentInv, NEW d \in Desk, ResolveCoverable(d), UNCHANGED <<vaultVars, registryVars>>
  PROVE  EnrollmentInv'
<1> DEFINE desk == [desks[d] EXCEPT !.pc = "offered"]
<1>1. /\ desks[d].pc = "quoting"
      /\ Goto(d, desk) /\ UNCHANGED <<entryCount, entries, latestEntry>>
  BY DEF ResolveCoverable, At
<1>2. desks[d] \in [pc : {"quoting", "offered"}, enrollment : enrollments, id : Policy]
  BY <1>1 DEF EnrollmentInv, EnrollmentTypeOK, DeskState, Idle
<1>3. /\ desk \in DeskState /\ desk.pc = "offered"
      /\ desk.enrollment = desks[d].enrollment /\ desk.id = desks[d].id
  BY <1>2 DEF DeskState
<1>4. Agrees(desks[d].enrollment, desks[d].id)
  BY <1>1 DEF EnrollmentInv, Remembers
<1>5. ~Recording(desk) /\ Remembers(desk)
  <2> HIDE DEF desk
  <2> QED
    BY <1>3, <1>4 DEF Recording, Remembers
<1> QED
  BY <1>1, <1>3, <1>5, DeskMoves
-------------------------------------------------------------------------------
(* The steps that store *)

(* INCR of the version: a name nobody has stored under, nor is about to. *)
LEMMA CountVersionKeeps ==
  ASSUME EnrollmentAssumption, EnrollmentInv, NEW d \in Desk, CountVersion(d),
         UNCHANGED <<vaultVars, registryVars>>
  PROVE  EnrollmentInv'
<1> DEFINE e == desks[d].enrollment
           version == entryCount[e.service] + 1
           x == [service |-> e.service, version |-> version]
           desk == [pc |-> "saving", enrollment |-> e, left |-> {"policy", "latest"}, entry |-> x]
<1>1. RegistryInv' /\ UNCHANGED <<policies, enrollments>>
  BY ChainStill
<1>2. /\ desks[d].pc = "counting" /\ version <= MaxEntry
      /\ entryCount' = [entryCount EXCEPT ![e.service] = version]
      /\ desks' = [desks EXCEPT ![d] = desk]
      /\ UNCHANGED <<entries, latestEntry>>
  BY DEF CountVersion, At, Goto, versionAfter
<1>3. e \in enrollments /\ e.service \in Service
  BY <1>2, DeskShape, EnrollmentShape DEF EnrollmentInv
<1>4. entryCount \in [Service -> 0 .. MaxEntry] /\ MaxEntry \in Nat
  BY DEF EnrollmentInv, EnrollmentTypeOK, EnrollmentAssumption
<1>5. version \in 1 .. MaxEntry /\ x \in Entry
  BY <1>2, <1>3, <1>4 DEF Entry
<1>6. entryCount' \in [Service -> 0 .. MaxEntry]
      /\ \A s \in Service : entryCount'[s] >= entryCount[s]
      /\ entryCount'[e.service] = version
  BY <1>2, <1>3, <1>4, <1>5
<1>7. desk \in DeskState /\ DeskState' = DeskState /\ EntryRecord' = EntryRecord
  BY <1>1, <1>3, <1>5 DEF DeskState, EntryRecord
<1>8. EnrollmentTypeOK'
  BY <1>2, <1>6, <1>7 DEF EnrollmentInv, EnrollmentTypeOK
<1>9. EntriesAgree'
  <2> SUFFICES ASSUME NEW y \in Entry
               PROVE  /\ entries[y].status # "none" => y.version <= entryCount'[y.service]
                      /\ entries[y].status = "active" =>
                            Agrees(entries[y].enrollment, entries[y].onchain)
    BY <1>1, <1>2 DEF EntriesAgree, Agrees, registered
  <2>1. y.service \in Service /\ y.version \in 1 .. MaxEntry
    BY EntryShape
  <2> QED
    BY <1>4, <1>6, <2>1 DEF EnrollmentInv, EntriesAgree
<1>10. entries[x].status = "none"
  BY <1>3, <1>4, <1>5 DEF EnrollmentInv, EntriesAgree
<1>11. ASSUME NEW c \in Desk, c # d
       PROVE  /\ desks'[c] = desks[c]
              /\ Recording(desks[c]) => desks[c].entry # x
              /\ desks[c].pc = "saving" =>
                    desks[c].entry.version <= entryCount'[desks[c].entry.service]
  <2>1. desks'[c] = desks[c] /\ Remembers(desks[c])
    BY <1>2, <1>11 DEF EnrollmentInv, EnrollmentTypeOK
  <2>2. ASSUME desks[c].pc = "saving"
        PROVE  /\ desks[c].entry # x
               /\ desks[c].entry.version <= entryCount'[desks[c].entry.service]
    <3>1. desks[c].entry \in Entry /\ desks[c].entry.version <= entryCount[desks[c].entry.service]
      BY <2>1, <2>2, DeskShape DEF EnrollmentInv, Remembers
    <3>2. desks[c].entry.service \in Service /\ desks[c].entry.version \in 1 .. MaxEntry
      BY <3>1, EntryShape
    <3> QED
      BY <1>3, <1>4, <1>6, <3>1, <3>2
  <2> QED
    BY <2>1, <2>2 DEF Recording
<1>12. ASSUME NEW c \in Desk
       PROVE  Remembers(desks[c])'
  <2>1. CASE c = d
    <3>1. desks'[c] = desk
      BY <1>2, <2>1 DEF EnrollmentInv, EnrollmentTypeOK
    <3> QED
      BY <1>2, <1>4, <1>5, <1>6, <1>10, <3>1 DEF Remembers, Recording
  <2>2. CASE c # d
    <3>1. Remembers(desks[c])
      BY DEF EnrollmentInv
    <3> QED
      BY <1>1, <1>2, <1>11, <2>2, <3>1 DEF Remembers, Recording, Stores, Agrees, registered
  <2> QED
    BY <2>1, <2>2
<1>13. OwnEntries'
  <2> SUFFICES ASSUME NEW b \in Desk, NEW c \in Desk, b # c,
                      Recording(desks'[b]), Recording(desks'[c])
               PROVE  desks'[b].entry # desks'[c].entry
    BY DEF OwnEntries, Recording
  <2>1. desks'[d] = desk
    BY <1>2 DEF EnrollmentInv, EnrollmentTypeOK
  <2>2. b # d /\ c # d => desks'[b].entry # desks'[c].entry
    BY <1>11 DEF EnrollmentInv, OwnEntries
  <2>3. b = d => desks'[b].entry # desks'[c].entry
    BY <1>11, <2>1
  <2>4. c = d => desks'[b].entry # desks'[c].entry
    BY <1>11, <2>1
  <2> QED
    BY <2>2, <2>3, <2>4
<1> QED
  BY <1>1, <1>8, <1>9, <1>12, <1>13 DEF EnrollmentInv

(* An entry is written: whoever remembers another one, or this one, still may. *)
LEMMA StoreKeeps ==
  ASSUME EnrollmentInv, NEW d \in Desk, NEW desk \in DeskState, NEW x \in Entry,
         NEW r \in EntryRecord,
         Goto(d, desk), entries' = [entries EXCEPT ![x] = r],
         UNCHANGED <<entryCount, latestEntry>>, UNCHANGED <<vaultVars, registryVars>>,
         x.version <= entryCount[x.service],
         r.status = "active" => Agrees(r.enrollment, r.onchain),
         entries[x].status # "none" => r.enrollment = entries[x].enrollment,
         \A c \in Desk \ {d} : Recording(desks[c]) => desks[c].entry # x,
         desk.pc \in {"idle", "saving"},
         desk.pc = "saving" => desk.entry = x /\ ~Recording(desk)
  PROVE  EnrollmentInv'
<1>1. RegistryInv' /\ UNCHANGED <<policies, enrollments>>
  BY ChainStill
<1>2. DeskState' = DeskState /\ EntryRecord' = EntryRecord
  BY <1>1 DEF DeskState, EntryRecord
<1>3. /\ entries \in [Entry -> EntryRecord \cup {NoEntry}] /\ desks \in [Desk -> DeskState]
      /\ desks' = [desks EXCEPT ![d] = desk]
  BY DEF EnrollmentInv, EnrollmentTypeOK, Goto
<1>4. EnrollmentTypeOK'
  BY <1>2, <1>3 DEF EnrollmentInv, EnrollmentTypeOK
<1>5. r.status # "none"
  BY DEF EntryRecord, Pending, Active
<1>6. entries'[x] = r /\ \A y \in Entry \ {x} : entries'[y] = entries[y]
  BY <1>3
<1>7. EntriesAgree'
  <2> SUFFICES ASSUME NEW y \in Entry
               PROVE  /\ entries'[y].status # "none" => y.version <= entryCount[y.service]
                      /\ entries'[y].status = "active" =>
                            /\ policies[entries'[y].onchain].provider # NoAddress
                            /\ entries'[y].onchain.service = entries'[y].enrollment.service
                            /\ policies[entries'[y].onchain].provider =
                                  entries'[y].enrollment.provider
                            /\ policies[entries'[y].onchain].terms = entries'[y].enrollment.terms
    BY <1>1 DEF EntriesAgree, Agrees, registered
  <2> QED
    BY <1>6 DEF EnrollmentInv, EntriesAgree, Agrees, registered
<1>8. ASSUME NEW y \in Entry, NEW e \in enrollments, Stores(y, e)
      PROVE  entries'[y].status # "none" /\ entries'[y].enrollment = e
  BY <1>5, <1>6, <1>8 DEF Stores
<1>9. ASSUME NEW c \in Desk
      PROVE  Remembers(desks[c])'
  <2>1. CASE c = d
    <3>1. desks'[c] = desk
      BY <1>3, <2>1
    <3> QED
      BY <1>3, <3>1 DEF Remembers, Recording
  <2>2. CASE c # d
    <3>1. desks'[c] = desks[c] /\ Remembers(desks[c])
      BY <1>3, <2>2 DEF EnrollmentInv
    <3>2. Recording(desks[c]) => entries'[desks[c].entry].status = "none"
      <4>1. Recording(desks[c]) => desks[c].entry \in Entry \ {x}
        BY <2>2, DeskShape DEF EnrollmentInv, Recording
      <4> QED
        BY <1>6, <3>1, <4>1 DEF Remembers
    <3>3. desks[c].pc \in {"registered", "reading", "activating"} =>
            /\ entries'[desks[c].entry].status # "none"
            /\ entries'[desks[c].entry].enrollment = desks[c].enrollment
      <4> SUFFICES ASSUME desks[c].pc \in {"registered", "reading", "activating"}
                   PROVE  /\ entries'[desks[c].entry].status # "none"
                          /\ entries'[desks[c].entry].enrollment = desks[c].enrollment
        OBVIOUS
      <4>1. desks[c].entry \in Entry /\ desks[c].enrollment \in enrollments
        BY DeskShape DEF EnrollmentInv
      <4>2. Stores(desks[c].entry, desks[c].enrollment)
        BY <3>1 DEF Remembers
      <4> QED
        BY <1>8, <4>1, <4>2
    <3> QED
      BY <1>1, <3>1, <3>2, <3>3 DEF Remembers, Recording, Stores, Agrees, registered
  <2> QED
    BY <2>1, <2>2
<1>10. OwnEntries'
  <2>1. ~Recording(desk)
    BY DEF Recording
  <2> QED
    BY <1>3, <2>1 DEF EnrollmentInv, OwnEntries, Recording
<1> QED
  BY <1>1, <1>4, <1>7, <1>9, <1>10 DEF EnrollmentInv

(* updatePolicy: an entry is activated with the enrollment it holds. *)
LEMMA ActivateKeeps ==
  ASSUME EnrollmentInv, NEW d \in Desk, Activate(d), UNCHANGED <<vaultVars, registryVars>>
  PROVE  EnrollmentInv'
<1> DEFINE x == desks[d].entry
           r == Active(entries[x].enrollment, desks[d].id)
<1>1. /\ desks[d].pc = "activating" /\ Goto(d, Idle)
      /\ entries' = [entries EXCEPT ![x] = Active(@.enrollment, desks[d].id)]
      /\ UNCHANGED <<entryCount, latestEntry>>
  BY DEF Activate, At
<1>2. x \in Entry /\ desks[d].id \in Policy /\ desks[d].enrollment \in enrollments
  BY <1>1, DeskShape DEF EnrollmentInv
<1>3. entries' = [entries EXCEPT ![x] = r]
  BY <1>1, <1>2 DEF EnrollmentInv, EnrollmentTypeOK
<1>4. /\ entries[x].status # "none" /\ entries[x].enrollment = desks[d].enrollment
      /\ Agrees(desks[d].enrollment, desks[d].id)
  BY <1>1 DEF EnrollmentInv, Remembers, Stores
<1>5. /\ r \in EntryRecord /\ r.enrollment = entries[x].enrollment /\ r.onchain = desks[d].id
  BY <1>2, <1>4 DEF EntryRecord, Active
<1>6. x.version <= entryCount[x.service]
  BY <1>2, <1>4 DEF EnrollmentInv, EntriesAgree
<1>7. \A c \in Desk \ {d} : Recording(desks[c]) => desks[c].entry # x
  BY <1>4 DEF EnrollmentInv, Remembers
<1>8. Idle \in DeskState /\ Idle.pc = "idle"
  BY DEF DeskState, Idle
<1>9. Agrees(r.enrollment, r.onchain)
  BY <1>4, <1>5
<1>10. Goto(d, Idle) /\ UNCHANGED <<entryCount, latestEntry>>
  BY <1>1
<1> HIDE DEF r, x
<1> QED
  BY <1>2, <1>3, <1>5, <1>6, <1>7, <1>8, <1>9, <1>10, StoreKeeps

(* savePolicy: the record and the pointer land in either order. *)
LEMMA SaveEntryKeeps ==
  ASSUME EnrollmentInv, NEW d \in Desk, NEW key \in {"policy", "latest"}, SaveEntry(d, key),
         UNCHANGED <<vaultVars, registryVars>>
  PROVE  EnrollmentInv'
<1> DEFINE x == desks[d].entry
           e == desks[d].enrollment
           left == desks[d].left \ {key}
           desk == IF left = {} THEN Idle ELSE [desks[d] EXCEPT !.left = left]
<1>1. /\ desks[d].pc = "saving" /\ key \in desks[d].left
      /\ \/ /\ key = "policy"
            /\ entries' = [entries EXCEPT ![x] = Pending(e)]
            /\ UNCHANGED latestEntry
         \/ /\ key = "latest"
            /\ latestEntry' = [latestEntry EXCEPT ![x.service] = x.version]
            /\ UNCHANGED entries
      /\ Goto(d, desk) /\ UNCHANGED entryCount
  BY DEF SaveEntry, At
<1>2. desks[d] \in [pc : {"saving"}, enrollment : enrollments, entry : Entry,
                    left : (SUBSET {"policy", "latest"}) \ {{}}]
  BY <1>1 DEF EnrollmentInv, EnrollmentTypeOK, DeskState, Idle
<1>3. x \in Entry /\ e \in enrollments /\ x.version <= entryCount[x.service]
  BY <1>1, <1>2 DEF EnrollmentInv, Remembers
<1>4. left \in SUBSET {"policy", "latest"} /\ key \notin left
  BY <1>2
<1>5. /\ desk \in DeskState /\ desk.pc \in {"idle", "saving"}
      /\ desk.pc = "saving" => desk.entry = x /\ desk.left = left
  <2>1. CASE left = {}
    BY <2>1 DEF DeskState, Idle
  <2>2. CASE left # {}
    <3>1. [desks[d] EXCEPT !.left = left] \in
             [pc : {"saving"}, enrollment : enrollments, entry : Entry,
              left : (SUBSET {"policy", "latest"}) \ {{}}]
      BY <1>2, <1>4, <2>2
    <3> QED
      BY <1>2, <2>2, <3>1 DEF DeskState
  <2> QED
    BY <2>1, <2>2
<1> HIDE DEF desk
<1>6. CASE key = "policy"
  <2>1. entries' = [entries EXCEPT ![x] = Pending(e)] /\ UNCHANGED latestEntry
    BY <1>1, <1>6
  <2>2. /\ Pending(e) \in EntryRecord /\ Pending(e).status = "pending"
        /\ Pending(e).enrollment = e
    BY <1>3 DEF EntryRecord, Pending
  <2>3. Recording(desks[d]) /\ entries[x].status = "none"
    BY <1>1, <1>6 DEF Recording, EnrollmentInv, Remembers
  <2>4. \A c \in Desk \ {d} : Recording(desks[c]) => desks[c].entry # x
    BY <2>3 DEF EnrollmentInv, OwnEntries
  <2>5. ~Recording(desk)
    BY <1>4, <1>5, <1>6 DEF Recording
  <2> QED
    BY <1>1, <1>3, <1>5, <2>1, <2>2, <2>3, <2>4, <2>5, StoreKeeps
<1>7. CASE key = "latest"
  <2>1. /\ latestEntry' = [latestEntry EXCEPT ![x.service] = x.version]
        /\ UNCHANGED entries
    BY <1>1, <1>7
  <2>2. RegistryInv' /\ UNCHANGED <<policies, enrollments>>
    BY ChainStill
  <2>3. DeskState' = DeskState /\ EntryRecord' = EntryRecord
    BY <2>2 DEF DeskState, EntryRecord
  <2>4. desks' = [desks EXCEPT ![d] = desk] /\ desks \in [Desk -> DeskState]
    BY <1>1 DEF Goto, EnrollmentInv, EnrollmentTypeOK
  <2>5. latestEntry' \in [Service -> 0 .. MaxEntry]
    BY <1>3, <2>1, EntryShape DEF EnrollmentInv, EnrollmentTypeOK
  <2>6. EnrollmentTypeOK'
    BY <1>1, <1>5, <2>1, <2>3, <2>4, <2>5 DEF EnrollmentInv, EnrollmentTypeOK
  <2>7. EntriesAgree'
    BY <1>1, <2>1, <2>2 DEF EnrollmentInv, EntriesAgree, Agrees, registered
  <2>8. Recording(desk) => Recording(desks[d]) /\ desk.entry = desks[d].entry
    BY <1>1, <1>5, <1>7 DEF Recording
  <2>9. Remembers(desk)
    BY <1>3, <1>5, <2>8 DEF EnrollmentInv, Remembers
  <2>10. ASSUME NEW c \in Desk
         PROVE  Remembers(desks[c])'
    <3>1. desks'[c] = IF c = d THEN desk ELSE desks[c]
      BY <2>4
    <3>2. Remembers(desks'[c])
      BY <2>9, <3>1 DEF EnrollmentInv
    <3> QED
      BY <1>1, <2>1, <2>2, <3>2 DEF Remembers, Recording, Stores, Agrees, registered
  <2>11. OwnEntries'
    BY <2>4, <2>8 DEF EnrollmentInv, OwnEntries
  <2> QED
    BY <2>2, <2>6, <2>7, <2>10, <2>11 DEF EnrollmentInv
<1> QED
  BY <1>6, <1>7
-------------------------------------------------------------------------------
(* The invariant *)

(* Whatever an invocation does next, the invariant stays. *)
LEMMA ServiceMoves ==
  ASSUME EnrollmentAssumption, EnrollmentInv, EnrollmentNext, UNCHANGED <<vaultVars, registryVars>>
  PROVE  EnrollmentInv'
<1> PICK d \in Desk : DeskStep(d)
  BY DEF EnrollmentNext
<1>1. ASSUME NEW e \in enrollments, Submit(d, e)
      PROVE  EnrollmentInv'
  BY <1>1, SubmitKeeps
<1>2. ASSUME CountVersion(d)
      PROVE  EnrollmentInv'
  BY <1>2, CountVersionKeeps
<1>3. ASSUME NEW key \in {"policy", "latest"}, SaveEntry(d, key)
      PROVE  EnrollmentInv'
  BY <1>3, SaveEntryKeeps
<1>4. ASSUME NEW x \in Entry, Confirm(d, x)
      PROVE  EnrollmentInv'
  BY <1>4, ConfirmKeeps
<1>5. ASSUME NEW id \in Policy, ReadEvent(d, id)
      PROVE  EnrollmentInv'
  BY <1>5, ReadEventKeeps
<1>6. ASSUME ReadPolicy(d)
      PROVE  EnrollmentInv'
  BY <1>6, ReadPolicyKeeps
<1>7. ASSUME Activate(d)
      PROVE  EnrollmentInv'
  BY <1>7, ActivateKeeps
<1>8. ASSUME NEW s \in Service, ResolveLatest(d, s)
      PROVE  EnrollmentInv'
  BY <1>8, ResolveLatestKeeps
<1>9. ASSUME ResolveEntry(d)
      PROVE  EnrollmentInv'
  BY <1>9, ResolveEntryKeeps
<1>10. ASSUME ResolveCoverable(d)
       PROVE  EnrollmentInv'
  BY <1>10, ResolveCoverableKeeps
<1>11. ASSUME Leave(d)
       PROVE  EnrollmentInv'
  BY <1>11, LeaveKeeps DEF Leave
<1> QED
  BY <1>1, <1>2, <1>3, <1>4, <1>5, <1>6, <1>7, <1>8, <1>9, <1>10, <1>11 DEF DeskStep

(* Every step keeps the invariant. *)
LEMMA EnrollmentStepKeeps ==
  ASSUME RegistryAssumption, VaultAssumption, EnrollmentAssumption, EnrollmentInv,
         [EnrollmentStep]_serviceVars
  PROVE  EnrollmentInv'
<1>1. CASE UNCHANGED serviceVars
  <2>1. UNCHANGED allRegistryVars /\ UNCHANGED enrollmentVars
    BY <1>1 DEF serviceVars, allRegistryVars
  <2> QED
    BY <2>1, RegistryMoves
<1>2. CASE RegistryNext /\ UNCHANGED enrollmentVars
  BY <1>2, RegistryMoves
<1>3. CASE EnrollmentNext /\ UNCHANGED <<vaultVars, registryVars>>
  BY <1>3, ServiceMoves
<1> QED
  BY <1>1, <1>2, <1>3 DEF EnrollmentStep

(* Nothing is stored when the service is first deployed. *)
LEMMA EnrollmentInvInit ==
  ASSUME RegistryAssumption, VaultAssumption, EnrollmentAssumption, RegistryInit, EnrollmentInit
  PROVE  EnrollmentInv
<1>1. RegistryInv
  BY RegistryInvInit
<1>2. EnrollmentTypeOK
  <2>1. Idle \in DeskState
    BY DEF DeskState
  <2> QED
    BY <2>1 DEF EnrollmentInit, EnrollmentTypeOK, EnrollmentAssumption
<1>3. EntriesAgree
  BY DEF EnrollmentInit, EntriesAgree, NoEntry
<1>4. \A d \in Desk : desks[d].pc = "idle"
  BY DEF EnrollmentInit, Idle
<1>5. (\A d \in Desk : Remembers(desks[d])) /\ OwnEntries
  BY <1>4 DEF Remembers, Recording, OwnEntries
<1> QED
  BY <1>1, <1>2, <1>3, <1>5 DEF EnrollmentInv

(* The invariant holds in every state the service and the chain reach. *)
LEMMA EnrollmentInvariant == EnrollmentSpec => []EnrollmentInv
<1>1. RegistryInit /\ EnrollmentInit => EnrollmentInv
  BY RegistryAssumption, VaultAssumption, EnrollmentAssumption, EnrollmentInvInit
<1>2. EnrollmentInv /\ [EnrollmentStep]_serviceVars => EnrollmentInv'
  BY RegistryAssumption, VaultAssumption, EnrollmentAssumption, EnrollmentStepKeeps
<1> QED
  BY <1>1, <1>2, PTL DEF EnrollmentSpec, EnrollmentStep, serviceVars

-------------------------------------------------------------------------------
(* Theorems *)

(* Every reachable state has its type: what is stored, and what an invocation is *)
(* holding, was signed by a provider.                                            *)
THEOREM EnrollmentTypes == EnrollmentSpec => []EnrollmentTypeOK
<1>1. EnrollmentInv => EnrollmentTypeOK
  BY DEF EnrollmentInv
<1> QED
  BY <1>1, EnrollmentInvariant, PTL

(* Every active enrollment and every policy offered to a buyer is one its provider *)
(* registered with the terms it signed, however many invocations overlap and       *)
(* whatever was registered, paused or sold in the meantime.                        *)
THEOREM EnrollmentOffersRegistered == EnrollmentSpec => []OfferedIsRegistered
<1>1. EnrollmentInv => OfferedIsRegistered
  BY DEF EnrollmentInv, EntriesAgree, Remembers, Agrees, OfferedIsRegistered, At
<1> QED
  BY <1>1, EnrollmentInvariant, PTL

(* A stored enrollment keeps what its provider signed and an active one stays so: *)
(* invocations that overlap never share an entry.                                 *)
THEOREM EnrollmentEntriesAdvance == EnrollmentSpec => EntriesOnlyAdvance
<1> DEFINE Advances ==
      \A x \in Entry :
        /\ entries[x].status # "none" =>
              entries'[x].status # "none" /\ entries'[x].enrollment = entries[x].enrollment
        /\ entries[x].status = "active" => entries'[x].status = "active"
<1>1. EnrollmentInv /\ [EnrollmentStep]_serviceVars => [Advances]_enrollmentVars
  <2> SUFFICES ASSUME EnrollmentInv, NEW d \in Desk, DeskStep(d)
               PROVE  Advances
    BY DEF EnrollmentStep, EnrollmentNext, serviceVars
  <2>1. ASSUME UNCHANGED entries
        PROVE  Advances
    BY <2>1
  <2>2. ASSUME NEW key \in {"policy", "latest"}, SaveEntry(d, key)
        PROVE  Advances
    <3> DEFINE x == desks[d].entry
    <3>1. desks[d].pc = "saving" /\ key \in desks[d].left
          /\ (UNCHANGED entries \/ /\ key = "policy"
                                   /\ entries' = [entries EXCEPT ![x] = Pending(desks[d].enrollment)])
      BY <2>2 DEF SaveEntry, At
    <3>2. key = "policy" => entries[x].status = "none"
      BY <3>1 DEF EnrollmentInv, Remembers, Recording
    <3>3. entries \in [Entry -> EntryRecord \cup {NoEntry}]
      BY DEF EnrollmentInv, EnrollmentTypeOK
    <3> QED
      BY <3>1, <3>2, <3>3
  <2>3. ASSUME Activate(d)
        PROVE  Advances
    <3> DEFINE x == desks[d].entry
    <3>1. entries' = [entries EXCEPT ![x] = Active(@.enrollment, desks[d].id)]
      BY <2>3 DEF Activate
    <3>2. entries \in [Entry -> EntryRecord \cup {NoEntry}]
      BY DEF EnrollmentInv, EnrollmentTypeOK
    <3>3. entries'[x] = Active(entries[x].enrollment, desks[d].id) \/ x \notin Entry
      BY <3>1, <3>2
    <3>4. \A y \in Entry \ {x} : entries'[y] = entries[y]
      BY <3>1, <3>2
    <3> QED
      BY <3>3, <3>4 DEF Active
  <2> QED
    BY <2>1, <2>2, <2>3 DEF DeskStep, Submit, CountVersion, Confirm, ReadEvent, ReadPolicy,
       ResolveLatest, ResolveEntry, ResolveCoverable, Leave
<1> QED
  BY <1>1, EnrollmentInvariant, PTL
     DEF EnrollmentSpec, EntriesOnlyAdvance, EnrollmentStep, serviceVars

(* The service only reads the chain: with it in place the registry behaves as it *)
(* does alone, so every theorem about RegistrySpec holds of EnrollmentSpec.      *)
THEOREM EnrollmentImplementsRegistry == EnrollmentSpec => RegistrySpec
<1>1. [EnrollmentStep]_serviceVars => [RegistryNext]_allRegistryVars
  BY DEF EnrollmentStep, serviceVars, allRegistryVars
<1> QED
  BY <1>1, PTL DEF EnrollmentSpec, RegistrySpec, EnrollmentStep, serviceVars, allRegistryVars
===============================================================================
