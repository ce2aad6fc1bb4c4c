------------------------ MODULE WriteCustody_proofs -------------------------
(***************************************************************************)
(* Type correctness of WriteCustody, for every set of executions and       *)
(* coordinators, every bound on admission attempts and every choice of     *)
(* faults: one lemma for each group of actions, and the theorem.           *)
(***************************************************************************)
EXTENDS WriteCustody, TLAPS

\* What a delegation starts with, and is left with, has the type of a request.
LEMMA NewRequestType == NewRequest \in Request
BY ModelAssumption DEF NewRequest, Request, NoRecord, Slot, Decisions, Decision, Actions,
     Reasons, HelperEvidence, NoRevision

\* Moving a delegation keeps the types of pc and req.
LEMMA MoveType ==
    ASSUME TypeOK, NEW e \in Executions, NEW phase \in Phases, NEW r \in Request,
           Move(e, phase, r)
    PROVE  pc' \in [Executions -> Phases] /\ req' \in [Executions -> Request]
BY DEF TypeOK, Move

\* A delegation that ends keeps the types of pc and req.
LEMMA FinishType ==
    ASSUME TypeOK, NEW e \in Executions, NEW r \in Request, Finish(e, r)
    PROVE  pc' \in [Executions -> Phases] /\ req' \in [Executions -> Request]
<1>1. "done" \in Phases
  BY DEF Phases
<1>2. [NewRequest EXCEPT !.stopped = r.stopped] \in Request
  BY NewRequestType DEF Request
<1> QED
  BY <1>1, <1>2, MoveType DEF Finish

\* So does one that goes round the admission loop.
LEMMA RetryType ==
    ASSUME TypeOK, NEW e \in Executions, Retry(e)
    PROVE  pc' \in [Executions -> Phases] /\ req' \in [Executions -> Request]
<1> DEFINE n == req[e].attempts + 1
<1>1. req[e] \in Request /\ req[e].attempts \in 0..MaxAttempts
  BY DEF TypeOK, Request
<1>2. CASE n < MaxAttempts
  <2>1. n \in 0..MaxAttempts
    BY <1>1, <1>2, ModelAssumption
  <2>2. [NewRequest EXCEPT !.attempts = n] \in Request
    BY <2>1, NewRequestType DEF Request
  <2>3. "admit" \in Phases
    BY DEF Phases, Admitting
  <2> QED
    BY <1>2, <2>2, <2>3, MoveType DEF Retry
<1>3. CASE ~(n < MaxAttempts)
  BY <1>1, <1>3, FinishType DEF Retry
<1> QED
  BY <1>2, <1>3

\* A reservation, and any advance of a record, is a record.
LEMMA ReservationType ==
    ASSUME NEW e \in Executions
    PROVE  Reservation(e) \in Record /\ ValidRecord(Reservation(e))
BY DEF Reservation, NoRecord, Record, States, HelperEvidence, ValidRecord

\* Advancing a record to any state gives a record.
LEMMA AdvanceType ==
    ASSUME NEW r \in Record, NEW state \in States
    PROVE  Advance(r, state) \in Record
<1>1. r.revision + 1 \in Nat
  BY DEF Record
<1> QED
  BY <1>1 DEF Advance, Record

\* Only a record advances: the empty slot has nowhere to go.
LEMMA AdvancesRecord ==
    ASSUME NEW r \in Slot, NEW state, MayAdvance(r, state)
    PROVE  r \in Record /\ state \in States
BY DEF MayAdvance, Slot, NoRecord, TRANSITIONS, Record, States

\* No state that only leads to a release, or starts no child, needs more of a
\* record than it already has.
LEMMA AdvanceValid ==
    ASSUME NEW r \in Record, ValidRecord(r),
           NEW state \in States \ {"ACTIVE", "TERMINATING", "PREPARING_WORKTREE"}
    PROVE  Advance(r, state) \in Slot /\ ValidRecord(Advance(r, state))
BY AdvanceType DEF ValidRecord, Advance, Slot, Record

\* What an actor publishes is what the schema accepts.
LEMMA OwnedRecord ==
    ASSUME TypeOK, NEW e \in Executions, Owned(e)
    PROVE  slot \in Record
BY CustodyAssumption DEF TypeOK, Owned, Slot, NoRecord

\* The decision over a record is one of the decisions.
LEMMA DecisionType ==
    ASSUME NEW r, NEW coordinator, NEW g, NEW claude
    PROVE  DecideReconciliation(r, coordinator, g, claude) \in Decisions
BY DEF DecideReconciliation, DecideGit, DecideClaude, DecideUnnamed, Decision, Decisions,
       Actions, Reasons

\* What a coordinator forgets with a repository keeps its types.
LEMMA ForgetType ==
    ASSUME TypeOK, NEW c, ForgetRepository(c)
    PROVE  /\ live' \in [Coordinators -> Executions \union {None}]
           /\ spawned' \in [Coordinators -> Executions \union {None}]
           /\ note' \in [Coordinators -> [exec : Executions \union {None}, evidence : HelperEvidence]]
BY DEF ForgetRepository, TypeOK, NoNote, HelperEvidence

\* The steps of an admission keep the types.
LEMMA AdmissionType ==
    ASSUME TypeOK, NEW e \in Executions, Admission(e)
    PROVE  TypeOK'
<1>r. req[e] \in Request /\ slot \in Slot
  BY DEF TypeOK
<1>0. ASSUME NEW c \in Coordinators, Submit(e, c) PROVE TypeOK'
  BY <1>0 DEF Submit, TypeOK, durable, manager, processes, Phases, Admitting
<1>1. CASE Reserve(e)
  <2>1. [req[e] EXCEPT !.known = 0] \in Request
    BY <1>r DEF Request
  <2>2. \A known \in Nat \union {NoRevision} :
           [req[e] EXCEPT !.known = known, !.stopped = TRUE] \in Request
    BY <1>r DEF Request
  <2>3. pc' \in [Executions -> Phases] /\ req' \in [Executions -> Request]
    BY <1>1, <2>1, <2>2, MoveType DEF Reserve, Phases, Preparing, Settling
  <2> QED
    BY <1>1, <2>3, ReservationType DEF Reserve, TypeOK, durable, manager, processes, Slot
<1>2. CASE AdmissionFails(e)
  BY <1>2, FinishType DEF AdmissionFails, TypeOK, durable, manager, processes
<1>3. CASE Observe(e)
  <2>1. \A d \in Decisions : [req[e] EXCEPT !.snap = slot, !.decision = d] \in Request
    BY <1>r DEF Request
  <2>2. pc' \in [Executions -> Phases] /\ req' \in [Executions -> Request]
    BY <1>3, <2>1, DecisionType, MoveType DEF Observe, Phases, Admitting
  <2> QED
    BY <1>3, <2>2 DEF Observe, TypeOK, durable, manager, processes
<1>4. CASE ReconcileChanged(e)
  BY <1>4, FinishType, RetryType DEF ReconcileChanged, TypeOK, durable, manager, processes
<1>4a. CASE ReconcileArchive(e)
  <2>1. slot' \in Slot /\ ValidRecord(slot') /\ history' \subseteq Executions
    <3>1. ValidRecord(NoRecord) /\ NoRecord \in Slot
      BY CustodyAssumption DEF ValidRecord, NoRecord, Slot
    <3>2. slot \in Record
      BY <1>4a DEF ReconcileArchive, SnapshotHolds, SamePublicationAuthority, TypeOK, Slot, NoRecord
    <3> QED
      BY <1>4a, <3>1, <3>2 DEF ReconcileArchive, TypeOK, Record
  <2> QED
    BY <1>4a, <2>1, RetryType DEF ReconcileArchive, TypeOK, manager, processes
<1>5. CASE ReconcileRetain(e)
  <2>1. slot' \in Slot /\ ValidRecord(slot')
    BY <1>5, AdvancesRecord, AdvanceValid DEF ReconcileRetain, TypeOK, States
  <2>2. [NewRequest EXCEPT !.attempts = req[e].attempts] \in Request
    BY NewRequestType DEF TypeOK, Request
  <2>3. req[e] \in Request
    BY DEF TypeOK
  <2>4. pc' \in [Executions -> Phases] /\ req' \in [Executions -> Request]
    BY <1>5, <2>2, <2>3, MoveType, FinishType DEF ReconcileRetain, Phases, Admitting
  <2> QED
    BY <1>5, <2>1, <2>4 DEF ReconcileRetain, TypeOK, durable, manager, processes
<1>6. CASE ReconcileRelease(e)
  <2>1. [req[e] EXCEPT !.snap = slot] \in Request
    BY <1>r DEF Request
  <2>2. pc' \in [Executions -> Phases] /\ req' \in [Executions -> Request]
    BY <1>6, <2>1, MoveType DEF ReconcileRelease, Phases, Admitting
  <2> QED
    BY <1>6, <2>2 DEF ReconcileRelease, TypeOK, durable, manager, processes
<1>7. CASE Reclaim(e)
  <2>1. [req[e] EXCEPT !.snap = slot] \in Request
    BY <1>r DEF Request
  <2>2. pc' \in [Executions -> Phases] /\ req' \in [Executions -> Request]
    BY <1>7, <2>1, MoveType DEF Reclaim, Phases, Admitting
  <2> QED
    BY <1>7, <2>2 DEF Reclaim, TypeOK, durable, manager, processes
<1>8. CASE ReclaimRefused(e)
  BY <1>8, FinishType DEF ReclaimRefused, TypeOK, durable, manager, processes
<1>9. CASE ReclaimCommit(e)
  BY <1>9, MoveType, FinishType DEF ReclaimCommit, TypeOK, durable, manager, processes, Phases, Admitting
<1> QED
  BY <1>0, <1>1, <1>2, <1>3, <1>4, <1>4a, <1>5, <1>6, <1>7, <1>8, <1>9 DEF
     Admission

\* The steps of a worktree preparation keep the types.
LEMMA PreparationType ==
    ASSUME TypeOK, NEW e \in Executions, Preparation(e)
    PROVE  TypeOK'
<1>r. req[e] \in Request /\ slot \in Slot
  BY DEF TypeOK
<1>1. CASE BeginWorktreePreparation(e)
  <2>1. slot \in Record
    BY <1>1, OwnedRecord DEF BeginWorktreePreparation, Publish
  <2>2. slot' \in Slot /\ ValidRecord(slot')
    BY <1>1, <2>1, AdvanceType DEF BeginWorktreePreparation, Publish, Slot, States
  <2>3. pc' \in [Executions -> Phases] /\ req' \in [Executions -> Request]
    BY <1>1, MoveType DEF BeginWorktreePreparation, Phases, Preparing, TypeOK
  <2> QED
    BY <1>1, <2>2, <2>3 DEF BeginWorktreePreparation, TypeOK, durable, manager, processes
<1>2. CASE SpawnGit(e)
  BY <1>2, MoveType DEF SpawnGit, TypeOK, durable, manager, processes, Phases, Preparing
<1>3. CASE RecordWorktreeOperation(e)
  <2>1. slot \in Record
    BY <1>3, OwnedRecord DEF RecordWorktreeOperation
  <2>2. [Advance(slot, slot.state) EXCEPT !.git = TRUE] \in Record
    BY <2>1, AdvanceType DEF Record
  <2>3. slot' \in Slot /\ ValidRecord(slot')
    BY <1>3, <2>1, <2>2 DEF RecordWorktreeOperation, TypeOK, ValidRecord, Advance, Slot, Record
  <2> QED
    BY <1>3, <2>3 DEF RecordWorktreeOperation, TypeOK, durable, manager, processes
<1>4. CASE ClearWorktreeOperation(e)
  <2>1. slot \in Record
    BY <1>4, OwnedRecord DEF ClearWorktreeOperation
  <2>2. [Advance(slot, slot.state) EXCEPT !.git = FALSE] \in Record
    BY <2>1, AdvanceType DEF Record
  <2>3. slot' \in Slot /\ ValidRecord(slot')
    BY <1>4, <2>1, <2>2 DEF ClearWorktreeOperation, TypeOK, ValidRecord, Advance, Slot, Record
  <2>4. pc' \in [Executions -> Phases] /\ req' \in [Executions -> Request]
    BY <1>4, MoveType DEF ClearWorktreeOperation, Phases, Preparing, TypeOK
  <2> QED
    BY <1>4, <2>3, <2>4 DEF ClearWorktreeOperation, TypeOK, durable, manager, processes
<1>5. CASE PreparationFails(e)
  <2>1. \A ambiguous \in BOOLEAN : [req[e] EXCEPT !.ambiguous = ambiguous] \in Request
    BY <1>r DEF Request
  <2>2. pc' \in [Executions -> Phases] /\ req' \in [Executions -> Request]
    BY <1>5, <2>1, MoveType DEF PreparationFails, Phases, Settling
  <2> QED
    BY <1>5, <2>2 DEF PreparationFails, TypeOK, durable, manager, processes
<1>6. CASE MarkSpawning(e)
  <2>1. slot \in Record
    BY <1>6, OwnedRecord DEF MarkSpawning, Publish
  <2>2. slot' \in Record /\ ValidRecord(slot')
    BY <1>6, <2>1, AdvanceType DEF MarkSpawning, Publish, States
  <2>3. slot'.revision \in Nat
    BY <2>2 DEF Record
  <2>4. \A known \in Nat \union {NoRevision} : [req[e] EXCEPT !.known = known] \in Request
    BY <1>r DEF Request
  <2>5. [req[e] EXCEPT !.stopped = TRUE] \in Request /\ req[e].known \in Nat \union {NoRevision}
    BY <1>r DEF Request
  <2>6. pc' \in [Executions -> Phases] /\ req' \in [Executions -> Request]
    <3>1. CASE Move(e, "settle", [req[e] EXCEPT !.stopped = TRUE])
      BY <3>1, <2>5, MoveType DEF Phases, Settling
    <3>2. CASE Move(e, "spawning", [req[e] EXCEPT
                      !.known = IF pc[e] = "reserved" THEN slot'.revision ELSE @])
      BY <3>2, <2>3, <2>4, <2>5, MoveType DEF Phases, Running
    <3> QED
      BY <1>6, <3>1, <3>2 DEF MarkSpawning
  <2>7. spawned' \in [Coordinators -> Executions \union {None}]
    BY <1>6 DEF MarkSpawning, TypeOK
  <2> QED
    BY <1>6, <2>2, <2>6, <2>7 DEF MarkSpawning, TypeOK, durable, manager, processes, Slot
<1> QED
  BY <1>1, <1>2, <1>3, <1>4, <1>5, <1>6 DEF Preparation

\* The steps of a child's lifecycle keep the types.
LEMMA LifecycleType ==
    ASSUME TypeOK, NEW e \in Executions, Lifecycle(e)
    PROVE  TypeOK'
<1>r. req[e] \in Request /\ slot \in Slot
  BY DEF TypeOK
<1>1. CASE SpawnChild(e)
  <2>1. [req[e] EXCEPT !.absent = FALSE] \in Request
    BY <1>r DEF Request
  <2>2. pc' \in [Executions -> Phases] /\ req' \in [Executions -> Request]
    BY <1>1, <2>1, MoveType DEF SpawnChild, Phases, Running
  <2> QED
    BY <1>1, <2>2 DEF SpawnChild, TypeOK, durable, manager, processes
<1>2. CASE SpawnFails(e)
  BY <1>2, MoveType DEF SpawnFails, TypeOK, durable, manager, processes, Phases, Settling
<1>3. CASE Identify(e)
  <2>1. [req[e] EXCEPT !.identified = TRUE] \in Request
    BY <1>r DEF Request
  <2>2. pc' \in [Executions -> Phases] /\ req' \in [Executions -> Request]
    BY <1>3, <2>1, MoveType DEF Identify, Phases, Running
  <2> QED
    BY <1>3, <2>2 DEF Identify, TypeOK, durable, manager, processes
<1>4. CASE IdentifyFails(e)
  BY <1>4, MoveType DEF IdentifyFails, TypeOK, durable, manager, processes, Phases, Running
<1>5. CASE Activate(e)
  <2>1. slot \in Record
    BY <1>5, OwnedRecord DEF Activate, Publish
  <2>2. slot' \in Record /\ ValidRecord(slot')
    <3>1. Advance(slot, "ACTIVE") \in Record
      BY <2>1, AdvanceType DEF States
    <3> QED
      BY <1>5, <3>1 DEF Activate, Publish, Record
  <2>3. slot'.revision \in Nat /\ req[e].known \in Nat \union {NoRevision}
    BY <2>2 DEF Record, TypeOK, Request
  <2>4. \A known \in Nat \union {NoRevision} : [req[e] EXCEPT !.known = known] \in Request
    BY <1>r DEF Request
  <2>5. pc' \in [Executions -> Phases] /\ req' \in [Executions -> Request]
    BY <1>5, <2>3, <2>4, MoveType DEF Activate, Phases, Running
  <2>6. live' \in [Coordinators -> Executions \union {None}]
    BY <1>5 DEF Activate, TypeOK
  <2> QED
    BY <1>5, <2>2, <2>5, <2>6 DEF Activate, TypeOK, durable, manager, processes, Slot
<1>6. CASE ActivateFails(e)
  BY <1>6, MoveType DEF ActivateFails, TypeOK, durable, manager, processes, Phases, Running
<1>7. CASE ObserveClose(e)
  <2>1. [req[e] EXCEPT !.proof = "close"] \in Request
    BY <1>r DEF Request
  <2>2. pc' \in [Executions -> Phases] /\ req' \in [Executions -> Request]
    BY <1>7, <2>1, MoveType DEF ObserveClose, Phases, Settling
  <2> QED
    BY <1>7, <2>2 DEF ObserveClose, TypeOK, durable, manager, processes
<1>8. CASE StopChild(e)
  BY <1>8, MoveType DEF StopChild, TypeOK, durable, manager, processes, Phases, Running
<1>9. CASE BeginTermination(e)
  <2>1. slot' \in Record /\ ValidRecord(slot')
    <3>1. slot \in Record
      BY <1>9, OwnedRecord DEF BeginTermination, Owned
    <3>2. CASE UNCHANGED slot
      BY <3>1, <3>2 DEF TypeOK
    <3>3. CASE Publish(e, Advance(slot, "TERMINATING"))
      BY <3>1, <3>3, AdvanceType DEF Publish, States
    <3> QED
      BY <1>9, <3>2, <3>3 DEF BeginTermination
  <2>2. slot'.revision \in Nat /\ req[e].known \in Nat \union {NoRevision}
    BY <2>1 DEF Record, TypeOK, Request
  <2>3. \A known \in Nat \union {NoRevision}, inTime \in BOOLEAN :
           [req[e] EXCEPT !.authorized = inTime, !.known = known] \in Request
    BY <1>r DEF Request
  <2>4. pc' \in [Executions -> Phases] /\ req' \in [Executions -> Request]
    BY <1>9, <2>2, <2>3, MoveType DEF BeginTermination, Phases, Running
  <2> QED
    BY <1>9, <2>1, <2>4 DEF BeginTermination, TypeOK, durable, manager, processes, Slot
<1>10. CASE TerminationUnpublished(e)
  <2>1. \A authorized \in BOOLEAN : [req[e] EXCEPT !.authorized = authorized] \in Request
    BY <1>r DEF Request
  <2>2. pc' \in [Executions -> Phases] /\ req' \in [Executions -> Request]
    BY <1>10, <2>1, MoveType DEF TerminationUnpublished, Phases, Running
  <2> QED
    BY <1>10, <2>2 DEF TerminationUnpublished, TypeOK, durable, manager, processes
<1>11. CASE LaunchHelper(e)
  BY <1>11, MoveType DEF LaunchHelper, TypeOK, durable, manager, processes, Phases, Running
<1>12. CASE TerminationSettles(e)
  <2>1. \A proof \in {"none", "close", "supervised"}, evidence \in HelperEvidence, late \in BOOLEAN :
           [req[e] EXCEPT !.authorized = FALSE, !.proof = proof,
                          !.evidence = evidence, !.late = late] \in Request
    BY <1>r DEF Request
  <2>2. pc' \in [Executions -> Phases] /\ req' \in [Executions -> Request]
    BY <1>12, <2>1, MoveType DEF TerminationSettles, Phases, Settling, HelperEvidence
  <2> QED
    BY <1>12, <2>2 DEF TerminationSettles, TypeOK, durable, manager, processes
<1> QED
  BY <1>1, <1>2, <1>3, <1>4, <1>5, <1>6, <1>7, <1>8, <1>9, <1>10, <1>11,
     <1>12 DEF Lifecycle

\* The steps that return custody keep the types.
LEMMA ReturnType ==
    ASSUME TypeOK, NEW e \in Executions, Return(e)
    PROVE  TypeOK'
<1>r. req[e] \in Request /\ slot \in Slot
  BY DEF TypeOK
<1>1. CASE Settle(e)
  <2>1. req[e] \in Request /\ [req[e] EXCEPT !.snap = slot] \in Request
    BY <1>r DEF Request
  <2>2. pc' \in [Executions -> Phases] /\ req' \in [Executions -> Request]
    BY <1>1, <2>1, MoveType, FinishType DEF Settle, Phases, Settling
  <2>3. note' \in [Coordinators -> [exec : Executions \union {None}, evidence : HelperEvidence]]
    BY <1>1, <2>1 DEF Settle, TypeOK, Request
  <2>4. live' \in [Coordinators -> Executions \union {None}]
    BY <1>1 DEF Settle, TypeOK
  <2> QED
    BY <1>1, <2>2, <2>3, <2>4 DEF Settle, TypeOK, durable, manager, processes
<1>2. CASE MarkOrphaned(e)
  <2>1. req[e] \in Request
    BY DEF TypeOK
  <2>2. slot \in Record
    BY <1>2, OwnedRecord DEF MarkOrphaned, MayRetain
  <2>3. slot' \in Slot /\ ValidRecord(slot')
    <3>1. CASE slot.state = "ORPHANED"
      BY <1>2, <3>1 DEF MarkOrphaned, TypeOK
    <3>2. CASE slot.state # "ORPHANED"
      <4>1. Advance(slot, "ORPHANED") \in Record
        BY <2>2, AdvanceType DEF States
      <4>2. slot.claude \in BOOLEAN /\ req[e].identified \in BOOLEAN
              /\ slot.helper \in HelperEvidence /\ req[e].evidence \in HelperEvidence
              /\ Advance(slot, "ORPHANED").claude = slot.claude
              /\ Advance(slot, "ORPHANED").helper = slot.helper
        BY <2>1, <2>2 DEF Record, Request, Advance
      <4>3. ValidRecord(slot')
        BY <1>2, <3>2 DEF MarkOrphaned, Publish
      <4>4. slot' \in Record
        BY <1>2, <3>2, <4>1, <4>2 DEF MarkOrphaned, Publish, Record
      <4> QED
        BY <4>3, <4>4 DEF Slot
    <3> QED
      BY <3>1, <3>2
  <2>4. pc' \in [Executions -> Phases] /\ req' \in [Executions -> Request]
    BY <1>2, <2>1, FinishType DEF MarkOrphaned
  <2>5. live' \in [Coordinators -> Executions \union {None}]
    BY <1>2 DEF MarkOrphaned, TypeOK
  <2> QED
    BY <1>2, <2>3, <2>4, <2>5 DEF MarkOrphaned, TypeOK, durable, manager, processes
<1>3. CASE RetentionFails(e)
  BY <1>3, FinishType DEF RetentionFails, TypeOK, durable, manager, processes
<1>4. CASE LateRecovery(e)
  <2>1. [req[e] EXCEPT !.snap = slot, !.late = FALSE] \in Request
    BY <1>r DEF Request
  <2>2. [req[e] EXCEPT !.late = FALSE] \in Request
    BY <1>r DEF Request
  <2>3. pc' \in [Executions -> Phases] /\ req' \in [Executions -> Request]
    BY <1>4, <2>1, <2>2, MoveType, FinishType DEF LateRecovery, Phases
  <2> QED
    BY <1>4, <2>3 DEF LateRecovery, TypeOK, durable, manager, processes
<1>5. CASE ReleaseStep(e)
  <2>1. slot \in Record /\ NextRelease(slot.state) \in States
    BY <1>5, AdvancesRecord DEF ReleaseStep, TypeOK
  <2>2. slot' \in Slot /\ ValidRecord(slot')
    BY <1>5, <2>1, AdvanceValid DEF ReleaseStep, NextRelease, TypeOK, States
  <2>3. req' \in [Executions -> Request]
    <3>1. [req[e] EXCEPT !.snap = slot'] \in Request
      BY <1>r, <2>2 DEF Request
    <3> QED
      BY <1>5, <3>1 DEF ReleaseStep, TypeOK
  <2> QED
    BY <1>5, <2>2, <2>3 DEF ReleaseStep, TypeOK, durable, manager, processes
<1>6. CASE Archive(e)
  <2>1. slot' \in Slot /\ ValidRecord(slot') /\ history' \subseteq Executions
    <3>1. ValidRecord(NoRecord) /\ NoRecord \in Slot
      BY CustodyAssumption DEF ValidRecord, NoRecord, Slot
    <3>2. SnapshotHolds(e) => slot \in Record
      BY DEF SnapshotHolds, SamePublicationAuthority, TypeOK, Slot, NoRecord
    <3> QED
      BY <1>6, <3>1, <3>2 DEF Archive, TypeOK, durable, Record
  <2>2. req[e] \in Request
    BY DEF TypeOK
  <2>3. pc' \in [Executions -> Phases] /\ req' \in [Executions -> Request]
    BY <1>6, <2>2, RetryType, FinishType DEF Archive, Released
  <2>4. /\ live' \in [Coordinators -> Executions \union {None}]
        /\ spawned' \in [Coordinators -> Executions \union {None}]
        /\ note' \in [Coordinators -> [exec : Executions \union {None}, evidence : HelperEvidence]]
    BY <1>6, ForgetType DEF Archive
  <2> QED
    BY <1>6, <2>1, <2>3, <2>4 DEF Archive, TypeOK, durable, manager, processes
<1>7. CASE ReleaseFails(e)
  <2>1. req[e] \in Request /\ [req[e] EXCEPT !.snap = NoRecord] \in Request
    BY <1>r DEF Request, Slot
  <2>2. pc' \in [Executions -> Phases] /\ req' \in [Executions -> Request]
    BY <1>7, <2>1, MoveType, FinishType DEF ReleaseFails, Phases, Settling
  <2> QED
    BY <1>7, <2>2 DEF ReleaseFails, TypeOK, durable, manager, processes
<1> QED
  BY <1>1, <1>2, <1>3, <1>4, <1>5, <1>6, <1>7 DEF Return

\* The death of a coordinator keeps the types.
LEMMA CrashType ==
    ASSUME TypeOK, NEW c \in Coordinators, Crash(c)
    PROVE  TypeOK'
<1>1. /\ pc' \in [Executions -> Phases]
      /\ req' \in [Executions -> Request]
  BY NewRequestType DEF Crash, TypeOK, Phases
<1>2. /\ live' \in [Coordinators -> Executions \union {None}]
      /\ spawned' \in [Coordinators -> Executions \union {None}]
      /\ note' \in [Coordinators -> [exec : Executions \union {None}, evidence : HelperEvidence]]
  BY ForgetType DEF Crash
<1> QED
  BY <1>1, <1>2 DEF Crash, TypeOK, durable, processes

\* A cancellation or a deadline keeps the types.
LEMMA StopType ==
    ASSUME TypeOK, NEW e \in Executions, RequestStops(e)
    PROVE  TypeOK'
<1> DEFINE r == [req[e] EXCEPT !.stopped = TRUE]
<1>0. req[e] \in Request
  BY DEF TypeOK
<1>1. r \in Request /\ [r EXCEPT !.late = FALSE] \in Request
  BY <1>0 DEF Request
<1>2. pc[e] \in Phases
  BY DEF TypeOK
<1>3. pc' \in [Executions -> Phases] /\ req' \in [Executions -> Request]
  <2>1. CASE Finish(e, r) \/ Finish(e, [r EXCEPT !.late = FALSE])
    BY <1>1, <2>1, FinishType
  <2>2. CASE Move(e, "settle", r) \/ Move(e, pc[e], r)
    BY <1>1, <1>2, <2>2, MoveType DEF Phases, Settling
  <2> QED
    BY <2>1, <2>2 DEF RequestStops
<1> QED
  BY <1>3 DEF RequestStops, TypeOK, durable, manager, processes

\* Processes that end by themselves keep the types.
LEMMA EnvironmentType ==
    ASSUME TypeOK, NEW e \in Executions, Environment(e)
    PROVE  TypeOK'
BY DEF Environment, ChildEnds, HelperEnds, GitEnds, TypeOK, durable, manager

\* Every variable keeps its type, and the slot always holds a record the schema
\* accepts.
THEOREM TypeCorrect == Spec => []TypeOK
<1>1. Init => TypeOK
  BY CustodyAssumption, NewRequestType
  DEF Init, TypeOK, ValidRecord, NoRecord, Slot, Phases, NoNote, HelperEvidence
<1>2. TypeOK /\ [Next]_vars => TypeOK'
  <2> SUFFICES ASSUME TypeOK, [Next]_vars PROVE TypeOK'
    OBVIOUS
  <2>1. CASE UNCHANGED vars
    BY <2>1 DEF vars, TypeOK
  <2>2. ASSUME NEW e \in Executions,
               Admission(e) \/ Preparation(e) \/ Lifecycle(e) \/ Return(e)
                 \/ RequestStops(e) \/ Environment(e)
        PROVE  TypeOK'
    BY <2>2, AdmissionType, PreparationType, LifecycleType, ReturnType, StopType,
       EnvironmentType
  <2>3. ASSUME NEW c \in Coordinators, Crash(c) PROVE TypeOK'
    BY <2>3, CrashType
  <2> QED
    BY <2>1, <2>2, <2>3 DEF Next
<1> QED
  BY <1>1, <1>2, PTL DEF Spec
=============================================================================
