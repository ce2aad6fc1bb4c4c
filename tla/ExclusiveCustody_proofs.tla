----------------------- MODULE ExclusiveCustody_proofs -----------------------
(******************************************************************************)
(* The custody of a repository is exclusive: whatever acts for an execution - *)
(* its Claude child, its mutating git, the helper launched to end its child - *)
(* acts while that execution holds the repository.  The release of a record   *)
(* rests on what a coordinator can tell of those processes, so the invariant  *)
(* says that everything it can be told is true: the phase of the delegation,  *)
(* the state of the record, and the helper evidence a stop reported, noted    *)
(* and retained.                                                              *)
(*                                                                            *)
(* Two helpers are excepted, and only theirs: that of a coherent review needs *)
(* no durable termination, and when removing the runtime settings fails, the  *)
(* close of the child is taken for proof whatever its helper does.            *)
(******************************************************************************)
EXTENDS CustodyRelease_proofs

\* Executions whose helper nothing waits for.
Excepted(x) == Review(x) \/ CleanupFaults

\* Nothing acts for x any more, nor ever will: its delegation is past the phases
\* that start a process, and what it started is gone.
Still(x) ==
    /\ pc[x] \in QuietPhases
    /\ git[x] # "running"
    /\ helper[x] = "running" => Excepted(x)

\* The helper evidence v is true of x.
EvidenceTrue(x, v) ==
    /\ v = "never-launched" => helper[x] = "none"
    /\ v = "close-proven" => helper[x] # "running"

\* It is told of an execution whose stop has settled, and it is true.
Told(x, v) == v # "unknown" => pc[x] \in QuietPhases /\ EvidenceTrue(x, v)

\* What delegation e knows of its helper in phase p with request r.
HelperLocal(e, p, r) ==
    /\ p \notin QuietPhases \union {"helper"} => helper[e] = "none"
    /\ r.authorized => p \in {"terminate", "helper"}
    /\ r.evidence # "unknown" => p \in QuietPhases /\ EvidenceTrue(e, r.evidence)
    /\ r.late => p \in QuietPhases /\ helper[e] # "running"
    /\ r.proof # "none" => p \in QuietPhases
    /\ r.proof # "none" \/ p = "release" => (helper[e] = "running" => CleanupFaults)

\* What it knows of its git.
GitLocal(e, p, r) ==
    /\ p \in {"idle", "reserved", "preparing"} \union Admitting => git[e] = "none"
    /\ p \in {"cleared"} \union Running => git[e] # "running"
    /\ p = "settle" /\ git[e] = "running" => r.ambiguous \/ r.stopped
    /\ r.absent /\ (git[e] # "none" \/ p \in Preparing) => r.known \in {0, NoRevision}

\* And what it settled on releasing is still.
ActingLocal(e, p, r) ==
    /\ HelperLocal(e, p, r)
    /\ GitLocal(e, p, r)
    /\ ReleaseDecided(p, r) /\ r.snap.exec \in Executions => Still(r.snap.exec)

\* What acts for x acts under its record, and a helper under durable termination.
ActsUnderRecord(x) ==
    /\ git[x] = "running" => Owned(x)
    /\ helper[x] = "running" => Excepted(x) \/ (Owned(x) /\ slot.state \in ForcedTerminationStates)
    /\ child[x] = "none" => helper[x] = "none"
    /\ child[x] # "none" => git[x] # "running"
    /\ req[x].authorized => Review(x) \/ (Owned(x) /\ slot.state \in ForcedTerminationStates)

Unprepared == {"preparing", "git", "cleared"}

\* What the record in the slot tells of the processes of its execution.
SlotTells ==
    slot.exec \in Executions =>
       /\ slot.state \in TerminalStates => Still(slot.exec)
       /\ slot.state = "RESERVED" => git[slot.exec] = "none" /\ pc[slot.exec] \notin Unprepared
       /\ slot.state # "RESERVED" => slot.revision > 0
       /\ Told(slot.exec, slot.helper)

\* What a coordinator noted of the helpers it launched.
NotesTell ==
    \A c \in Coordinators : note[c].exec \in Executions => Told(note[c].exec, note[c].evidence)

ActingInv ==
    /\ \A x \in Executions : ActsUnderRecord(x)
    /\ SlotTells
    /\ NotesTell
    /\ \A e \in Executions : ActingLocal(e, pc[e], req[e])

\* The record moves on, and what it then tells is true.
SlotMoves ==
    /\ slot'.exec = slot.exec
    /\ slot.exec \in Executions =>
         /\ slot'.state \in TerminalStates => Still(slot.exec)
         /\ slot'.state = "RESERVED" => slot.state = "RESERVED"
         /\ slot'.state # "RESERVED" => slot'.revision > 0
         /\ slot.state \in ForcedTerminationStates /\ slot'.state \notin ForcedTerminationStates
              => Still(slot.exec)
         /\ slot'.helper # slot.helper => Told(slot.exec, slot'.helper)

SlotLeaves == slot' = NoRecord /\ slot.exec \in Executions /\ Still(slot.exec)

\* A coordinator keeps a note, forgets it, or notes what e's stop reported.
NotesMove(e) ==
    \A c \in Coordinators :
       note'[c] \in {note[c], NoNote, [exec |-> e, evidence |-> req[e].evidence]}

\* A step that leaves the slot alone moves no record wrongly.
LEMMA SlotStays ==
    ASSUME ActingInv, UNCHANGED slot
    PROVE  SlotMoves
BY DEF ActingInv, SlotTells, SlotMoves

\* An advance to a state that is not terminal, and keeps a forced termination.
LEMMA SlotAdvances ==
    ASSUME TypeOK, ActingInv, slot \in Record,
           NEW state \in States \ (TerminalStates \union {"RESERVED"}),
           slot.state \in ForcedTerminationStates => state \in ForcedTerminationStates,
           slot'.exec = slot.exec, slot'.state = state, slot'.revision = slot.revision + 1,
           slot'.helper # slot.helper => Told(slot.exec, slot'.helper)
    PROVE  SlotMoves
<1>1. slot'.revision > 0
  BY DEF Record
<1> QED
  BY <1>1 DEF SlotMoves

\* Stillness is for good.
LEMMA StillStays ==
    ASSUME TypeOK, NEW e \in Executions, NEW q, NEW r, Move(e, q, r), UNCHANGED <<helper, git>>,
           pc[e] \in QuietPhases => q \in QuietPhases,
           NEW x \in Executions, Still(x)
    PROVE  Still(x)'
BY DEF TypeOK, Move, Still, Excepted, Review

\* A step that moves one delegation, and perhaps the record, keeps the invariant
\* when what that delegation then knows and holds is true.
LEMMA ActingMove ==
    ASSUME TypeOK, ActingInv, NEW e \in Executions, NEW q, NEW r, Move(e, q, r),
           UNCHANGED <<helper, git>>, SlotMoves \/ SlotLeaves, NotesMove(e),
           \A x \in Executions : child'[x] = child[x] \/ (child'[x] # "none" /\ git[x] # "running"),
           pc[e] \in QuietPhases => q \in QuietPhases,
           q \in Unprepared => slot'.state # "RESERVED",
           r.authorized => Review(e) \/ (slot'.exec = e /\ slot'.state \in ForcedTerminationStates),
           ActingLocal(e, q, r)
    PROVE  ActingInv'
<1>1. \A x \in Executions : Still(x) => Still(x)'
  BY StillStays
<1>2. \A x \in Executions : /\ pc'[x] = (IF x = e THEN q ELSE pc[x])
                            /\ req'[x] = (IF x = e THEN r ELSE req[x])
  BY DEF Move, TypeOK
<1>3. \A x \in Executions : \A v : Told(x, v) => Told(x, v)'
  BY <1>2 DEF Told, EvidenceTrue
<1>4. ASSUME NEW x \in Executions PROVE ActsUnderRecord(x)'
  <2>1. ActsUnderRecord(x) /\ ActingLocal(x, pc[x], req[x])
    BY DEF ActingInv
  <2>2. req[x].authorized => pc[x] \notin QuietPhases
    BY <2>1 DEF ActingLocal, HelperLocal, QuietPhases
  <2>3. CASE SlotMoves
    BY <1>2, <2>1, <2>2, <2>3 DEF ActsUnderRecord, Owned, Excepted, Review, SlotMoves, Still
  <2>4. CASE SlotLeaves
    BY <1>2, <2>1, <2>2, <2>4, CustodyAssumption
    DEF ActsUnderRecord, Owned, Excepted, Review, SlotLeaves, Still, NoRecord, ForcedTerminationStates
  <2> QED
    BY <2>3, <2>4
<1>5. SlotTells'
  <2>1. CASE SlotMoves
    BY <1>1, <1>2, <1>3, <2>1 DEF ActingInv, SlotTells, SlotMoves
  <2>2. CASE SlotLeaves
    BY <2>2, CustodyAssumption DEF SlotTells, SlotLeaves, NoRecord
  <2> QED
    BY <2>1, <2>2
<1>6. NotesTell'
  <2>1. Told(e, req[e].evidence)
    BY DEF ActingInv, ActingLocal, HelperLocal, Told
  <2>2. PICK v : v = req[e].evidence
    OBVIOUS
  <2>3. Told(e, v)'
    BY <1>3, <2>1, <2>2
  <2>4. ASSUME NEW c \in Coordinators, note'[c].exec \in Executions
        PROVE  Told(note[c].exec, note[c].evidence)'
    <3>1. CASE note'[c] = note[c]
      <4>1. PICK x, w : x = note[c].exec /\ w = note[c].evidence
        OBVIOUS
      <4>2. x \in Executions /\ Told(x, w)
        BY <2>4, <3>1, <4>1 DEF ActingInv, NotesTell
      <4>3. Told(x, w)'
        BY <1>3, <4>2
      <4> QED
        BY <3>1, <4>1, <4>3 DEF Told, EvidenceTrue
    <3>2. CASE note'[c] = NoNote
      BY <2>4, <3>2, CustodyAssumption DEF NoNote
    <3>3. CASE note'[c] = [exec |-> e, evidence |-> v]
      BY <2>3, <3>3 DEF Told, EvidenceTrue
    <3> QED
      BY <2>2, <3>1, <3>2, <3>3 DEF NotesMove
  <2> QED
    BY <2>4 DEF NotesTell
<1>7. ASSUME NEW x \in Executions, NEW p, NEW s, ActingLocal(x, p, s)
      PROVE  ActingLocal(x, p, s)'
  <2>1. ReleaseDecided(p, s)' = ReleaseDecided(p, s)
    BY DEF ReleaseDecided
  <2> QED
    BY <1>1, <1>7, <2>1 DEF ActingLocal, HelperLocal, GitLocal, EvidenceTrue
<1>8. ASSUME NEW x \in Executions PROVE ActingLocal(x, pc[x], req[x])'
  <2>1. PICK p, s : p = (IF x = e THEN q ELSE pc[x]) /\ s = (IF x = e THEN r ELSE req[x])
    OBVIOUS
  <2>2. ActingLocal(x, p, s)
    BY <2>1 DEF ActingInv
  <2>3. ActingLocal(x, p, s)'
    BY <1>7, <2>2
  <2>4. pc'[x] = p /\ req'[x] = s
    BY <1>2, <2>1
  <2> QED
    BY <2>3, <2>4 DEF ActingLocal, HelperLocal, GitLocal, EvidenceTrue, ReleaseDecided
<1> QED
  BY <1>4, <1>5, <1>6, <1>8 DEF ActingInv

\* A note that nobody takes.
LEMMA NotesStay ==
    ASSUME NEW e \in Executions, UNCHANGED note
    PROVE  NotesMove(e)
BY DEF NotesMove

\* What a delegation knows of its helper and its git stays true when it ends.
LEMMA ActingDone ==
    ASSUME ActingInv, NEW e \in Executions, pc[e] \notin {"idle"} \union Running
    PROVE  ActingLocal(e, "done", req[e]) /\ ~req[e].authorized
<1>1. ActingLocal(e, pc[e], req[e])
  BY DEF ActingInv
<1>2. ~req[e].authorized
  BY <1>1 DEF ActingLocal, HelperLocal, Running
<1> QED
  BY <1>1, <1>2
  DEF ActingLocal, HelperLocal, GitLocal, ReleaseDecided, QuietPhases, Releasing, Admitting,
      Preparing, Running

\* A delegation that ends keeps the invariant.
LEMMA ActingFinish ==
    ASSUME TypeOK, ActingInv, NEW e \in Executions, NEW r, Finish(e, r),
           UNCHANGED <<child, helper, git>>, SlotMoves \/ SlotLeaves, NotesMove(e),
           ActingLocal(e, "done", r), ~r.authorized
    PROVE  ActingInv'
<1> DEFINE forgotten == [NewRequest EXCEPT !.stopped = r.stopped]
<1>1. /\ ~forgotten.authorized /\ ~forgotten.late
      /\ forgotten.evidence = "unknown" /\ forgotten.proof = "none"
      /\ forgotten.known = NoRevision
  BY DEF NewRequest
<1>2. ActingLocal(e, "done", forgotten)
  BY <1>1 DEF ActingLocal, HelperLocal, GitLocal, ReleaseDecided, QuietPhases, Releasing,
     Admitting, Preparing, Running
<1> QED
  BY <1>1, <1>2, ActingMove DEF Finish, QuietPhases, Unprepared

\* A delegation that goes round the admission loop keeps the invariant.
LEMMA ActingRetry ==
    ASSUME TypeOK, ActingInv, NEW e \in Executions, Retry(e), pc[e] \in Admitting,
           UNCHANGED <<child, helper, git>>, SlotMoves \/ SlotLeaves, NotesMove(e)
    PROVE  ActingInv'
<1> DEFINE n == req[e].attempts + 1
           again == [NewRequest EXCEPT !.attempts = n]
<1>1. /\ ~again.authorized /\ ~again.late
      /\ again.evidence = "unknown" /\ again.proof = "none"
      /\ again.known = NoRevision
  BY DEF NewRequest
<1>2. pc[e] \notin QuietPhases \union {"helper", "idle"} \union Running
  BY DEF Admitting, QuietPhases, Running
<1>3. ActingLocal(e, "admit", again)
  <2>1. ActingLocal(e, pc[e], req[e])
    BY DEF ActingInv
  <2> QED
    BY <1>1, <1>2, <2>1 DEF ActingLocal, HelperLocal, GitLocal, ReleaseDecided, Releasing,
       Admitting, Preparing, Running
<1>4. CASE Move(e, "admit", again)
  BY <1>1, <1>2, <1>3, <1>4, ActingMove DEF Unprepared
<1>5. CASE Finish(e, req[e])
  BY <1>2, <1>5, ActingDone, ActingFinish
<1> QED
  BY <1>4, <1>5 DEF Retry

\* A coordinator compared and found gone is dead, and with it its delegation.
LEMMA GoneOwnerIsDead ==
    ASSUME ChildInv, slot.exec \in Executions,
           NEW coordinator \in Compared(home[slot.exec] \in up), CoordinatorIsGone(coordinator)
    PROVE  pc[slot.exec] = "dead"
<1>1. home[slot.exec] \notin up
  BY DEF CoordinatorIsGone, Compared, SameProcess, Ambiguous, Dead, PidReused
<1>2. Local(slot.exec, pc[slot.exec], req[slot.exec]) /\ pc[slot.exec] # "idle"
  BY DEF ChildInv, RecordTruth
<1> QED
  BY <1>1, <1>2 DEF Local

\* What is released for a dead coordinator is still.
LEMMA DecidesOnStill ==
    ASSUME TypeOK, ChildInv, ActingInv, slot.exec \in Executions,
           NEW coordinator \in IF slot.state = "RELEASED" THEN {SameProcess}
                               ELSE Compared(home[slot.exec] \in up),
           NEW g, NEW claude,
           \/ slot.state = "RELEASED"
           \/ DecideReconciliation(slot, coordinator, g, claude).action
                \in {"complete-terminal-release", "terminalize-and-release"}
    PROVE  Still(slot.exec)
<1> DEFINE d == DecideReconciliation(slot, coordinator, g, claude)
<1>1. CASE slot.state \in TerminalStates
  BY <1>1 DEF ActingInv, SlotTells
<1>2. CASE slot.state \notin TerminalStates
  <2>1. d.action = "terminalize-and-release"
    BY <1>2, CompletesDurableProof DEF TerminalStates, DurableTerminalStates
  <2>2. /\ CoordinatorIsGone(coordinator) /\ slot.state \notin ForcedTerminationStates
        /\ ~slot.claude => slot.state = "RESERVED"
    BY <2>1, DecidesOnEvidence
  <2>3. pc[slot.exec] = "dead"
    BY <1>2, <2>2, GoneOwnerIsDead DEF TerminalStates
  <2>4. ActsUnderRecord(slot.exec)
    BY DEF ActingInv
  <2>5. git[slot.exec] # "running"
    BY <2>2, <2>4 DEF ChildInv, RecordTruth, ActingInv, SlotTells, ActsUnderRecord
  <2> QED
    BY <2>2, <2>3, <2>4, <2>5 DEF Still, ActsUnderRecord, QuietPhases
<1> QED
  BY <1>1, <1>2

\* The helper side of a record is settled only when its helper is gone, and then
\* the delegation is past every phase that starts a process.
LEMMA SettledHelperIsGone ==
    ASSUME TypeOK, ActingInv, NEW c \in Coordinators, slot.exec \in Executions,
           HelperSettled(c, slot)
    PROVE  pc[slot.exec] \in QuietPhases /\ helper[slot.exec] # "running"
<1> DEFINE noted == IF note[c].exec = slot.exec THEN {note[c].evidence} ELSE {}
           reports == {slot.helper} \union noted
<1>1. \A v \in reports : Told(slot.exec, v)
  BY DEF ActingInv, SlotTells, NotesTell
<1>2. \E v \in reports : v # "unknown"
  BY DEF HelperSettled, Launched
<1> QED
  BY <1>1, <1>2 DEF HelperSettled, Launched, Told, EvidenceTrue

\* Admission keeps the invariant: what it decides to release is still.
LEMMA AdmissionActing ==
    ASSUME TypeOK, ChildInv, ActingInv, NEW e \in Executions, Admission(e)
    PROVE  ActingInv'
<1>a. ActingLocal(e, pc[e], req[e]) /\ ActsUnderRecord(e)
  BY DEF ActingInv
<1>t. req[e] \in Request /\ slot \in Slot
  BY DEF TypeOK
<1>s. UNCHANGED note => NotesMove(e)
  BY NotesStay
<1>d. pc[e] \in Admitting => ActingLocal(e, "done", req[e]) /\ ~req[e].authorized
  BY ActingDone DEF Admitting, Running
<1>0. ASSUME NEW c \in Coordinators, Submit(e, c) PROVE ActingInv'
  <2>1. pc[e] = "idle" /\ UNCHANGED <<slot, note, req, child, helper, git>>
    BY <1>0 DEF Submit, durable, manager, processes
  <2>2. Move(e, "admit", req[e])
    BY <1>0, <2>1 DEF Submit, Move, TypeOK
  <2>3. ActingLocal(e, "admit", req[e]) /\ ~req[e].authorized
    BY <1>a, <2>1 DEF ActingLocal, HelperLocal, GitLocal, ReleaseDecided, QuietPhases,
       Releasing, Admitting, Preparing, Running
  <2> QED
    BY <1>s, <2>1, <2>2, <2>3, ActingMove, SlotStays DEF Unprepared, QuietPhases
<1>1. CASE Reserve(e)
  <2>1. /\ slot = NoRecord /\ slot'.exec = e /\ slot'.state = "RESERVED"
        /\ slot'.helper = "unknown" /\ pc[e] = "admit"
        /\ UNCHANGED <<note, child, helper, git>>
    BY <1>1 DEF Reserve, Turn, At, Reservation, NoRecord, manager, processes
  <2>2. PICK q, r :
           /\ q \in {"reserved", "settle"} /\ Move(e, q, r)
           /\ r.authorized = req[e].authorized /\ r.evidence = req[e].evidence
           /\ r.proof = req[e].proof /\ r.late = req[e].late
           /\ r.known \in {0, NoRevision}
    <3> DEFINE R(k) == [req[e] EXCEPT !.known = k]
               S(k) == [req[e] EXCEPT !.known = k, !.stopped = TRUE]
    <3>1. \A k : /\ R(k).authorized = req[e].authorized /\ R(k).evidence = req[e].evidence
                 /\ R(k).proof = req[e].proof /\ R(k).late = req[e].late
                 /\ R(k).known = k
      BY <1>t DEF Request
    <3>2. \A k : /\ S(k).authorized = req[e].authorized /\ S(k).evidence = req[e].evidence
                 /\ S(k).proof = req[e].proof /\ S(k).late = req[e].late
                 /\ S(k).known = k
      BY <1>t DEF Request
    <3>3. Move(e, "reserved", R(0)) \/ \E k \in {0, NoRevision} : Move(e, "settle", S(k))
      BY <1>1 DEF Reserve
    <3> HIDE DEF R, S
    <3> QED
      BY <3>1, <3>2, <3>3
  <2>3. ~r.authorized /\ helper[e] = "none" /\ git[e] = "none" /\ r.evidence = "unknown"
          /\ r.proof = "none" /\ ~r.late
    BY <1>a, <2>1, <2>2 DEF ActingLocal, HelperLocal, GitLocal, QuietPhases, Admitting
  <2>4. \A x \in Executions : slot.exec # x
    BY <2>1, CustodyAssumption DEF NoRecord
  <2>5. \A x \in Executions : /\ pc'[x] = (IF x = e THEN q ELSE pc[x])
                              /\ req'[x] = (IF x = e THEN r ELSE req[x])
    BY <2>2 DEF Move, TypeOK
  <2>6. \A x \in Executions : Still(x) => Still(x)'
    BY <2>1, <2>2, StillStays DEF QuietPhases
  <2>7. ASSUME NEW x \in Executions PROVE ActsUnderRecord(x)'
    <3>1. ActsUnderRecord(x)
      BY DEF ActingInv
    <3> QED
      BY <2>1, <2>3, <2>4, <2>5, <3>1 DEF ActsUnderRecord, Owned, Excepted, Review
  <2>8. SlotTells'
    BY <2>1, <2>2, <2>3, <2>5 DEF SlotTells, TerminalStates, Told, Unprepared
  <2>9. NotesTell'
    BY <2>1, <2>5 DEF ActingInv, NotesTell, Told, EvidenceTrue, QuietPhases
  <2>10. ASSUME NEW x \in Executions PROVE ActingLocal(x, pc[x], req[x])'
    <3>1. CASE x = e
      BY <2>1, <2>2, <2>3, <2>5, <3>1 DEF ActingLocal, HelperLocal, GitLocal, EvidenceTrue,
         ReleaseDecided, QuietPhases, Releasing, Admitting, Preparing, Running
    <3>2. CASE x # e
      BY <2>1, <2>5, <2>6, <3>2 DEF ActingInv, ActingLocal, HelperLocal, GitLocal,
         EvidenceTrue, ReleaseDecided
    <3> QED
      BY <3>1, <3>2
  <2> QED
    BY <2>7, <2>8, <2>9, <2>10 DEF ActingInv
<1>2. CASE AdmissionFails(e)
  BY <1>2, <1>d, <1>s, ActingFinish, SlotStays
  DEF AdmissionFails, Turn, At, Admitting, durable, manager, processes
<1>3. CASE Observe(e)
  <2>1. PICK coordinator, g, claude :
           /\ coordinator \in IF slot.state = "RELEASED" THEN {SameProcess}
                              ELSE Compared(home[slot.exec] \in up)
           /\ Move(e, "reconcile",
                   [req[e] EXCEPT !.snap = slot,
                                  !.decision = DecideReconciliation(slot, coordinator, g, claude)])
    BY <1>3 DEF Observe
  <2> DEFINE d == DecideReconciliation(slot, coordinator, g, claude)
             r == [req[e] EXCEPT !.snap = slot, !.decision = d]
  <2>2. /\ r.snap = slot /\ r.decision = d
        /\ r.authorized = req[e].authorized /\ r.evidence = req[e].evidence
        /\ r.proof = req[e].proof /\ r.late = req[e].late
    BY <1>t DEF Request
  <2>3. ReleaseDecided("reconcile", r) /\ slot.exec \in Executions => Still(slot.exec)
    BY <2>1, <2>2, DecidesOnStill DEF ReleaseDecided, Releasing
  <2>4. pc[e] = "admit"
    BY <1>3 DEF Observe, Turn, At
  <2>5. ActingLocal(e, "reconcile", r) /\ ~r.authorized
    BY <1>a, <2>2, <2>3, <2>4 DEF ActingLocal, HelperLocal, GitLocal, QuietPhases, Admitting,
       Preparing, Running
  <2> QED
    BY <1>3, <1>s, <2>1, <2>4, <2>5, ActingMove, SlotStays
    DEF Observe, QuietPhases, Unprepared, durable, manager, processes
<1>4. CASE ReconcileChanged(e)
  BY <1>4, <1>d, <1>s, ActingFinish, ActingRetry, SlotStays
  DEF ReconcileChanged, Turn, At, Admitting, durable, manager, processes
<1>4a. CASE ReconcileArchive(e)
  <2>1. slot.exec \in Executions /\ slot.state = "RELEASED" /\ slot' = NoRecord
    BY <1>4a, <1>t DEF ReconcileArchive, SnapshotHolds, SamePublicationAuthority, Slot, NoRecord,
       Record
  <2>2. SlotLeaves
    BY <2>1 DEF SlotLeaves, ActingInv, SlotTells, TerminalStates
  <2> QED
    BY <1>4a, <1>s, <2>2, ActingRetry
    DEF ReconcileArchive, Turn, At, Admitting, manager, processes
<1>5. CASE ReconcileRetain(e)
  <2>1. SlotMoves
    <3>1. CASE UNCHANGED slot
      BY <3>1, SlotStays
    <3>2. CASE slot' = Advance(slot, "ORPHANED") /\ MayAdvance(slot, "ORPHANED")
      <4>1. slot \in Record
        BY <3>2, <1>t, AdvancesRecord
      <4>2. /\ slot'.exec = slot.exec /\ slot'.state = "ORPHANED"
            /\ slot'.revision = slot.revision + 1 /\ slot'.helper = slot.helper
        BY <3>2, <4>1 DEF Advance, Record
      <4> QED
        BY <4>1, <4>2, SlotAdvances DEF States, TerminalStates, ForcedTerminationStates
    <3> QED
      BY <1>5, <3>1, <3>2 DEF ReconcileRetain
  <2> DEFINE again == [NewRequest EXCEPT !.attempts = req[e].attempts]
  <2>2. /\ ~again.authorized /\ ~again.late
        /\ again.evidence = "unknown" /\ again.proof = "none"
        /\ again.known = NoRevision
    BY DEF NewRequest
  <2>3. pc[e] = "reconcile"
    BY <1>5 DEF ReconcileRetain, Turn, At
  <2>4. ActingLocal(e, "reclaim", again)
    BY <1>a, <2>2, <2>3 DEF ActingLocal, HelperLocal, GitLocal, ReleaseDecided, QuietPhases,
       Releasing, Admitting, Preparing, Running
  <2> QED
    BY <1>5, <1>d, <1>s, <2>1, <2>2, <2>3, <2>4, ActingMove, ActingFinish
    DEF ReconcileRetain, QuietPhases, Unprepared, Admitting, manager, processes
<1>6. CASE ReconcileRelease(e)
  <2>1. pc[e] = "reconcile" /\ SnapshotHolds(e)
    BY <1>6 DEF ReconcileRelease, Turn, At
  <2>2. slot.exec \in Executions => Still(slot.exec)
    BY <1>6, <1>a, <2>1 DEF ReconcileRelease, SnapshotHolds, SamePublicationAuthority,
       ActingLocal, ReleaseDecided
  <2>3. ActingLocal(e, "unwind", [req[e] EXCEPT !.snap = slot])
          /\ ~[req[e] EXCEPT !.snap = slot].authorized
    BY <1>a, <1>t, <2>1, <2>2 DEF ActingLocal, HelperLocal, GitLocal, Request, QuietPhases,
       Admitting, Preparing, Running
  <2> QED
    BY <1>6, <1>s, <2>1, <2>3, ActingMove, SlotStays
    DEF ReconcileRelease, QuietPhases, Unprepared, durable, manager, processes
<1>7. CASE Reclaim(e)
  <2>1. pc[e] = "reclaim" /\ home[e] \in Coordinators
    BY <1>7 DEF Reclaim, At, TypeOK
  <2>2. ASSUME slot.exec \in Executions PROVE Still(slot.exec)
    <3>1. ActsUnderRecord(slot.exec) /\ child[slot.exec] # "none"
      BY <1>7, <2>2 DEF Reclaim, ActingInv, ChildInv, RecordTruth
    <3>2. pc[slot.exec] \in QuietPhases /\ helper[slot.exec] # "running"
      BY <1>7, <2>1, <2>2, SettledHelperIsGone DEF Reclaim
    <3> QED
      BY <3>1, <3>2 DEF Still, ActsUnderRecord
  <2>3. ActingLocal(e, "reclaiming", [req[e] EXCEPT !.snap = slot])
          /\ ~[req[e] EXCEPT !.snap = slot].authorized
    BY <1>a, <1>t, <2>1, <2>2 DEF ActingLocal, HelperLocal, GitLocal, Request, QuietPhases,
       Admitting, Preparing, Running
  <2> QED
    BY <1>7, <1>s, <2>1, <2>3, ActingMove, SlotStays
    DEF Reclaim, QuietPhases, Unprepared, durable, manager, processes
<1>8. CASE ReclaimRefused(e)
  BY <1>8, <1>d, <1>s, ActingFinish, SlotStays
  DEF ReclaimRefused, At, Admitting, durable, manager, processes
<1>9. CASE ReclaimCommit(e)
  <2>1. pc[e] = "reclaiming"
    BY <1>9 DEF ReclaimCommit, Turn, At
  <2>2. ActingLocal(e, "unwind", req[e]) /\ ~req[e].authorized
    BY <1>a, <2>1 DEF ActingLocal, HelperLocal, GitLocal, ReleaseDecided, QuietPhases,
       Releasing, Admitting, Preparing, Running
  <2> QED
    BY <1>9, <1>d, <1>s, <2>1, <2>2, ActingMove, ActingFinish, SlotStays
    DEF ReclaimCommit, QuietPhases, Unprepared, Admitting, durable, manager, processes
<1> QED
  BY <1>0, <1>1, <1>2, <1>3, <1>4, <1>4a, <1>5, <1>6, <1>7, <1>8, <1>9 DEF Admission

\* Worktree preparation keeps the invariant: its git runs under its own record.
LEMMA PreparationActing ==
    ASSUME TypeOK, ChildInv, ActingInv, NEW e \in Executions, Preparation(e)
    PROVE  ActingInv'
<1>a. ActingLocal(e, pc[e], req[e]) /\ ActsUnderRecord(e) /\ Local(e, pc[e], req[e])
  BY DEF ActingInv, ChildInv
<1>t. req[e] \in Request /\ slot \in Slot
  BY DEF TypeOK
<1>s. UNCHANGED note => NotesMove(e)
  BY NotesStay
<1>1. CASE BeginWorktreePreparation(e)
  <2>1. slot \in Record /\ slot.state \notin ForcedTerminationStates /\ pc[e] = "reserved"
    <3>1. MayAdvance(slot, "PREPARING_WORKTREE")
      BY <1>1, OwnedRecord DEF BeginWorktreePreparation, Publish, Advance, Record
    <3> QED
      BY <1>1, <3>1, OwnedRecord DEF BeginWorktreePreparation, Publish, Turn, At, MayAdvance,
         TRANSITIONS, ForcedTerminationStates
  <2>2. /\ slot'.exec = slot.exec /\ slot'.state = "PREPARING_WORKTREE"
        /\ slot'.revision = slot.revision + 1 /\ slot'.helper = slot.helper
    BY <1>1, <2>1 DEF BeginWorktreePreparation, Publish, Advance, Record
  <2>3. SlotMoves
    BY <2>1, <2>2, SlotAdvances DEF States, TerminalStates
  <2>4. ActingLocal(e, "preparing", req[e]) /\ ~req[e].authorized
    BY <1>a, <2>1 DEF ActingLocal, HelperLocal, GitLocal, ReleaseDecided, QuietPhases,
       Releasing, Admitting, Preparing, Running
  <2> QED
    BY <1>1, <1>s, <2>1, <2>2, <2>3, <2>4, ActingMove
    DEF BeginWorktreePreparation, QuietPhases, manager, processes
<1>2. CASE SpawnGit(e)
  <2>1. /\ pc[e] = "preparing" /\ Owned(e) /\ helper[e] = "none" /\ child[e] = "none"
        /\ UNCHANGED <<slot, note, req, child, helper>>
    BY <1>2, <1>a DEF SpawnGit, At, Local, Preparing, ActingLocal, HelperLocal, QuietPhases,
       durable, manager, Move, TypeOK
  <2>2. \A x \in Executions : /\ pc'[x] = (IF x = e THEN "git" ELSE pc[x])
                              /\ git'[x] = (IF x = e THEN "running" ELSE git[x])
    BY <1>2 DEF SpawnGit, Move, TypeOK
  <2>3. \A x \in Executions : Still(x) => x # e /\ Still(x)'
    BY <2>1, <2>2 DEF Still, QuietPhases, Excepted, Review
  <2>4. slot.exec = e /\ slot.state # "RESERVED"
    BY <2>1 DEF Owned, ActingInv, SlotTells, Unprepared
  <2>5. \A x \in Executions : \A v : Told(x, v) => Told(x, v)'
    BY <2>1, <2>2 DEF Told, EvidenceTrue, QuietPhases
  <2>6. ASSUME NEW x \in Executions PROVE ActsUnderRecord(x)'
    BY <2>1, <2>2, <2>4 DEF ActingInv, ActsUnderRecord, Owned, Excepted, Review
  <2>7. SlotTells'
    BY <2>1, <2>2, <2>3, <2>4, <2>5 DEF ActingInv, SlotTells
  <2>8. NotesTell'
    BY <2>1, <2>5 DEF ActingInv, NotesTell
  <2>9. ASSUME NEW x \in Executions PROVE ActingLocal(x, pc[x], req[x])'
    <3>1. CASE x = e
      BY <1>a, <2>1, <2>2, <3>1 DEF ActingLocal, HelperLocal, GitLocal, EvidenceTrue,
         ReleaseDecided, QuietPhases, Releasing, Admitting, Preparing, Running
    <3>2. CASE x # e
      BY <2>1, <2>2, <2>3, <3>2 DEF ActingInv, ActingLocal, HelperLocal, GitLocal,
         EvidenceTrue, ReleaseDecided
    <3> QED
      BY <3>1, <3>2
  <2> QED
    BY <2>6, <2>7, <2>8, <2>9 DEF ActingInv
<1>3. CASE RecordWorktreeOperation(e)
  <2>1. slot \in Record /\ slot.state = "PREPARING_WORKTREE" /\ pc[e] = "git"
    BY <1>3, OwnedRecord DEF RecordWorktreeOperation, Turn, At
  <2>2. /\ slot'.exec = slot.exec /\ slot'.state = "PREPARING_WORKTREE"
        /\ slot'.revision = slot.revision + 1 /\ slot'.helper = slot.helper
    BY <1>3, <2>1 DEF RecordWorktreeOperation, Advance, Record
  <2>3. SlotMoves
    BY <2>1, <2>2, SlotAdvances DEF States, TerminalStates, ForcedTerminationStates
  <2>4. Move(e, "git", req[e])
    BY <1>3, <2>1 DEF RecordWorktreeOperation, Move, TypeOK
  <2>5. ActingLocal(e, "git", req[e]) /\ ~req[e].authorized
    BY <1>a, <2>1 DEF ActingLocal, HelperLocal
  <2> QED
    BY <1>3, <1>s, <2>1, <2>2, <2>3, <2>4, <2>5, ActingMove
    DEF RecordWorktreeOperation, QuietPhases, manager, processes
<1>4. CASE ClearWorktreeOperation(e)
  <2>1. /\ slot \in Record /\ slot.exec = e /\ pc[e] = "git" /\ git[e] = "gone"
        /\ slot.state # "RESERVED"
    BY <1>4, OwnedRecord DEF ClearWorktreeOperation, Turn, At, Owned, ActingInv, SlotTells,
       Unprepared
  <2>2. /\ slot'.exec = slot.exec /\ slot'.state = slot.state
        /\ slot'.revision \in {slot.revision, slot.revision + 1} /\ slot'.helper = slot.helper
    BY <1>4, <2>1 DEF ClearWorktreeOperation, Advance, Record
  <2>3. slot'.revision > 0
    BY <2>1, <2>2 DEF ActingInv, SlotTells, Record
  <2>4. SlotMoves
    BY <2>1, <2>2, <2>3 DEF SlotMoves, ActingInv, SlotTells
  <2>5. ActingLocal(e, "cleared", req[e]) /\ ~req[e].authorized
    BY <1>a, <2>1 DEF ActingLocal, HelperLocal, GitLocal, ReleaseDecided, QuietPhases,
       Releasing, Admitting, Preparing, Running
  <2> QED
    BY <1>4, <1>s, <2>1, <2>2, <2>4, <2>5, ActingMove
    DEF ClearWorktreeOperation, QuietPhases, manager, processes
<1>5. CASE PreparationFails(e)
  <2>1. PICK ambiguous \in BOOLEAN :
           /\ git[e] = "running" => ambiguous
           /\ Move(e, "settle", [req[e] EXCEPT !.ambiguous = ambiguous])
    BY <1>5 DEF PreparationFails
  <2>2. ActingLocal(e, "settle", [req[e] EXCEPT !.ambiguous = ambiguous])
          /\ ~[req[e] EXCEPT !.ambiguous = ambiguous].authorized
    BY <1>5, <1>a, <1>t, <2>1 DEF PreparationFails, At, Request, ActingLocal, HelperLocal,
       GitLocal, ReleaseDecided, QuietPhases, Releasing, Admitting, Preparing, Running
  <2> QED
    BY <1>5, <1>s, <2>1, <2>2, ActingMove, SlotStays
    DEF PreparationFails, QuietPhases, Unprepared, durable, manager, processes
<1>6. CASE MarkSpawning(e)
  <2>1. slot \in Record /\ slot.state \notin ForcedTerminationStates
          /\ pc[e] \in {"reserved", "cleared"}
    <3>1. slot \in Record /\ Publish(e, Advance(slot, "SPAWNING"))
      BY <1>6, OwnedRecord DEF MarkSpawning, Publish
    <3>2. MayAdvance(slot, "SPAWNING")
      BY <3>1, AdvancedState DEF Publish
    <3> QED
      BY <1>6, <3>1, <3>2 DEF MarkSpawning, Turn, At, MayAdvance, TRANSITIONS,
         ForcedTerminationStates
  <2>2. /\ slot'.exec = slot.exec /\ slot'.state = "SPAWNING"
        /\ slot'.revision = slot.revision + 1 /\ slot'.helper = slot.helper
    BY <1>6, <2>1 DEF MarkSpawning, Publish, Advance, Record
  <2>3. SlotMoves
    BY <2>1, <2>2, SlotAdvances DEF States, TerminalStates
  <2>4. UNCHANGED <<note, child, helper, git>>
    BY <1>6 DEF MarkSpawning, processes
  <2>5. git[e] # "running" /\ (pc[e] = "reserved" => git[e] = "none")
    BY <1>a, <2>1 DEF ActingLocal, GitLocal
  <2>6. CASE Move(e, "settle", [req[e] EXCEPT !.stopped = TRUE])
    <3>1. ActingLocal(e, "settle", [req[e] EXCEPT !.stopped = TRUE])
            /\ ~[req[e] EXCEPT !.stopped = TRUE].authorized
      BY <1>a, <1>t, <2>1, <2>5 DEF Request, ActingLocal, HelperLocal, GitLocal,
         ReleaseDecided, QuietPhases, Releasing, Admitting, Preparing, Running
    <3> QED
      BY <1>s, <2>1, <2>2, <2>3, <2>4, <2>6, <3>1, ActingMove DEF QuietPhases, Unprepared
  <2>7. CASE Move(e, "spawning", [req[e] EXCEPT
                    !.known = IF pc[e] = "reserved" THEN slot'.revision ELSE @])
    <3>1. PICK k : k = IF pc[e] = "reserved" THEN slot'.revision ELSE req[e].known
      OBVIOUS
    <3>2. Move(e, "spawning", [req[e] EXCEPT !.known = k])
      BY <2>7, <3>1
    <3>3. ActingLocal(e, "spawning", [req[e] EXCEPT !.known = k])
            /\ ~[req[e] EXCEPT !.known = k].authorized
      BY <1>a, <1>t, <2>1, <2>5, <3>1 DEF Request, ActingLocal, HelperLocal, GitLocal,
         ReleaseDecided, QuietPhases, Releasing, Admitting, Preparing, Running
    <3> QED
      BY <1>s, <2>1, <2>2, <2>3, <2>4, <3>2, <3>3, ActingMove DEF QuietPhases, Unprepared
  <2> QED
    BY <1>6, <2>6, <2>7 DEF MarkSpawning
<1> QED
  BY <1>1, <1>2, <1>3, <1>4, <1>5, <1>6 DEF Preparation

\* The lifecycle of a child keeps the invariant: a helper is launched once forced
\* termination is durable, and is gone before its target's close is proof.
LEMMA LifecycleActing ==
    ASSUME TypeOK, ChildInv, ActingInv, NEW e \in Executions, Lifecycle(e)
    PROVE  ActingInv'
<1>a. ActingLocal(e, pc[e], req[e]) /\ ActsUnderRecord(e) /\ Local(e, pc[e], req[e])
  BY DEF ActingInv, ChildInv
<1>t. req[e] \in Request /\ slot \in Slot
  BY DEF TypeOK
<1>s. UNCHANGED note => NotesMove(e)
  BY NotesStay
<1>1. CASE SpawnChild(e)
  <2>1. pc[e] = "spawning" /\ UNCHANGED <<slot, note, helper, git>>
    BY <1>1 DEF SpawnChild, At, durable, manager
  <2>2. git[e] # "running"
    BY <1>a, <2>1 DEF ActingLocal, GitLocal, Running
  <2>3. \A x \in Executions : child'[x] = child[x] \/ (child'[x] # "none" /\ git[x] # "running")
    BY <1>1, <2>2 DEF SpawnChild, TypeOK
  <2>4. ActingLocal(e, "identify", [req[e] EXCEPT !.absent = FALSE])
          /\ ~[req[e] EXCEPT !.absent = FALSE].authorized
    BY <1>a, <1>t, <2>1 DEF Request, ActingLocal, HelperLocal, GitLocal, ReleaseDecided,
       QuietPhases, Releasing, Admitting, Preparing, Running
  <2> QED
    BY <1>1, <1>s, <2>1, <2>3, <2>4, ActingMove, SlotStays
    DEF SpawnChild, QuietPhases, Unprepared
<1>2. CASE SpawnFails(e)
  <2>1. pc[e] = "spawning"
    BY <1>2 DEF SpawnFails, At
  <2>2. ActingLocal(e, "settle", req[e]) /\ ~req[e].authorized
    BY <1>a, <2>1 DEF ActingLocal, HelperLocal, GitLocal, ReleaseDecided, QuietPhases,
       Releasing, Admitting, Preparing, Running
  <2> QED
    BY <1>2, <1>s, <2>1, <2>2, ActingMove, SlotStays
    DEF SpawnFails, QuietPhases, Unprepared, durable, manager, processes
<1>3. CASE Identify(e)
  <2>1. pc[e] = "identify"
    BY <1>3 DEF Identify, At
  <2>2. ActingLocal(e, "activate", [req[e] EXCEPT !.identified = TRUE])
          /\ ~[req[e] EXCEPT !.identified = TRUE].authorized
    BY <1>a, <1>t, <2>1 DEF Request, ActingLocal, HelperLocal, GitLocal, ReleaseDecided,
       QuietPhases, Releasing, Admitting, Preparing, Running
  <2> QED
    BY <1>3, <1>s, <2>1, <2>2, ActingMove, SlotStays
    DEF Identify, QuietPhases, Unprepared, durable, manager, processes
<1>4. CASE IdentifyFails(e)
  <2>1. pc[e] = "identify"
    BY <1>4 DEF IdentifyFails, At
  <2>2. ActingLocal(e, "terminate", req[e]) /\ ~req[e].authorized
    BY <1>a, <2>1 DEF ActingLocal, HelperLocal, GitLocal, ReleaseDecided, QuietPhases,
       Releasing, Admitting, Preparing, Running
  <2> QED
    BY <1>4, <1>s, <2>1, <2>2, ActingMove, SlotStays
    DEF IdentifyFails, QuietPhases, Unprepared, durable, manager, processes
<1>5. CASE Activate(e)
  <2>1. /\ slot \in Record /\ slot.state = "SPAWNING" /\ pc[e] = "activate" /\ ~req[e].absent
        /\ UNCHANGED <<note, child, helper, git>>
    BY <1>5, <1>a, OwnedRecord DEF Activate, Publish, Turn, At, Local, Running, processes
  <2>2. /\ slot'.exec = slot.exec /\ slot'.state = "ACTIVE"
        /\ slot'.revision = slot.revision + 1 /\ slot'.helper = slot.helper
    BY <1>5, <2>1 DEF Activate, Publish, Advance, Record
  <2>3. SlotMoves
    BY <2>1, <2>2, SlotAdvances DEF States, TerminalStates, ForcedTerminationStates
  <2>4. PICK q, k : q \in {"active", "transition"} /\ Move(e, q, [req[e] EXCEPT !.known = k])
    <3> DEFINE K(k) == [req[e] EXCEPT !.known = k]
    <3>1. \E k : Move(e, "active", K(k)) \/ Move(e, "transition", K(k))
      BY <1>5 DEF Activate
    <3> HIDE DEF K
    <3>2. \E q, k : q \in {"active", "transition"} /\ Move(e, q, K(k))
      BY <3>1
    <3> QED
      BY <3>2 DEF K
  <2>5. ActingLocal(e, q, [req[e] EXCEPT !.known = k]) /\ ~[req[e] EXCEPT !.known = k].authorized
    BY <1>a, <1>t, <2>1, <2>4 DEF Request, ActingLocal, HelperLocal, GitLocal, ReleaseDecided,
       QuietPhases, Releasing, Admitting, Preparing, Running
  <2> QED
    BY <1>s, <2>1, <2>3, <2>4, <2>5, ActingMove DEF QuietPhases, Unprepared
<1>6. CASE ActivateFails(e)
  <2>1. pc[e] = "activate"
    BY <1>6 DEF ActivateFails, At
  <2>2. \A q \in {"active", "transition"} : ActingLocal(e, q, req[e]) /\ ~req[e].authorized
    BY <1>a, <2>1 DEF ActingLocal, HelperLocal, GitLocal, ReleaseDecided, QuietPhases,
       Releasing, Admitting, Preparing, Running
  <2> QED
    BY <1>6, <1>s, <2>1, <2>2, ActingMove, SlotStays
    DEF ActivateFails, QuietPhases, Unprepared, durable, processes
<1>7. CASE ObserveClose(e)
  <2>1. pc[e] = "active"
    BY <1>7 DEF ObserveClose, At
  <2>2. ActingLocal(e, "settle", [req[e] EXCEPT !.proof = "close"])
          /\ ~[req[e] EXCEPT !.proof = "close"].authorized
    BY <1>a, <1>t, <2>1 DEF Request, ActingLocal, HelperLocal, GitLocal, ReleaseDecided,
       QuietPhases, Releasing, Admitting, Preparing, Running
  <2> QED
    BY <1>7, <1>s, <2>1, <2>2, ActingMove, SlotStays
    DEF ObserveClose, QuietPhases, Unprepared, durable, manager, processes
<1>8. CASE StopChild(e)
  <2>1. pc[e] = "active"
    BY <1>8 DEF StopChild, At
  <2>2. ActingLocal(e, "transition", req[e]) /\ ~req[e].authorized
    BY <1>a, <2>1 DEF ActingLocal, HelperLocal, GitLocal, ReleaseDecided, QuietPhases,
       Releasing, Admitting, Preparing, Running
  <2> QED
    BY <1>8, <1>s, <2>1, <2>2, ActingMove, SlotStays
    DEF StopChild, QuietPhases, Unprepared, durable, manager, processes
<1>9. CASE BeginTermination(e)
  <2>1. /\ slot \in Record /\ slot.exec = e /\ pc[e] = "transition" /\ ~req[e].absent
        /\ UNCHANGED <<note, child, helper, git>>
    BY <1>9, <1>a, OwnedRecord DEF BeginTermination, Owned, Turn, At, Local, Running, manager,
       processes
  <2>2. SlotMoves /\ slot'.exec = e /\ slot'.state \in ForcedTerminationStates
    <3>1. CASE slot.state = "TERMINATING" /\ UNCHANGED slot
      BY <2>1, <3>1, SlotStays DEF ForcedTerminationStates
    <3>2. CASE Publish(e, Advance(slot, "TERMINATING"))
      <4>1. /\ slot'.exec = slot.exec /\ slot'.state = "TERMINATING"
            /\ slot'.revision = slot.revision + 1 /\ slot'.helper = slot.helper
        BY <2>1, <3>2 DEF Publish, Advance, Record
      <4> QED
        BY <2>1, <4>1, SlotAdvances DEF States, TerminalStates, ForcedTerminationStates
    <3> QED
      BY <1>9, <3>1, <3>2 DEF BeginTermination
  <2>3. PICK inTime, k : Move(e, "terminate", [req[e] EXCEPT !.authorized = inTime, !.known = k])
    BY <1>9 DEF BeginTermination
  <2>4. ActingLocal(e, "terminate", [req[e] EXCEPT !.authorized = inTime, !.known = k])
    BY <1>a, <1>t, <2>1 DEF Request, ActingLocal, HelperLocal, GitLocal, ReleaseDecided,
       QuietPhases, Releasing, Admitting, Preparing, Running
  <2> QED
    BY <1>s, <2>1, <2>2, <2>3, <2>4, ActingMove DEF QuietPhases, Unprepared
<1>10. CASE TerminationUnpublished(e)
  <2>1. pc[e] = "transition"
    BY <1>10 DEF TerminationUnpublished, At
  <2>2. PICK b \in BOOLEAN : (b => Review(e)) /\ Move(e, "terminate", [req[e] EXCEPT !.authorized = b])
    BY <1>10 DEF TerminationUnpublished
  <2>3. /\ ActingLocal(e, "terminate", [req[e] EXCEPT !.authorized = b])
        /\ [req[e] EXCEPT !.authorized = b].authorized => Review(e)
    BY <1>a, <1>t, <2>1, <2>2 DEF Request, ActingLocal, HelperLocal, GitLocal, ReleaseDecided,
       QuietPhases, Releasing, Admitting, Preparing, Running
  <2> QED
    BY <1>10, <1>s, <2>1, <2>2, <2>3, ActingMove, SlotStays
    DEF TerminationUnpublished, QuietPhases, Unprepared, durable, manager, processes
<1>11. CASE LaunchHelper(e)
  <2>1. /\ pc[e] = "terminate" /\ req[e].authorized /\ child[e] = "running"
        /\ UNCHANGED <<slot, note, req, child, git>>
    BY <1>11 DEF LaunchHelper, At, durable, manager, Move, TypeOK
  <2>2. \A x \in Executions : /\ pc'[x] = (IF x = e THEN "helper" ELSE pc[x])
                              /\ helper'[x] = (IF x = e THEN "running" ELSE helper[x])
    BY <1>11 DEF LaunchHelper, Move, TypeOK
  <2>3. \A x \in Executions : Still(x) => x # e /\ Still(x)'
    BY <2>1, <2>2 DEF Still, QuietPhases, Excepted, Review
  <2>4. \A x \in Executions : \A v : Told(x, v) => Told(x, v)'
    BY <2>1, <2>2 DEF Told, EvidenceTrue, QuietPhases
  <2>5. ASSUME NEW x \in Executions PROVE ActsUnderRecord(x)'
    BY <2>1, <2>2 DEF ActingInv, ActsUnderRecord, Owned, Excepted, Review
  <2>6. SlotTells'
    BY <2>1, <2>2, <2>3, <2>4 DEF ActingInv, SlotTells, Unprepared
  <2>7. NotesTell'
    BY <2>1, <2>4 DEF ActingInv, NotesTell
  <2>8. ASSUME NEW x \in Executions PROVE ActingLocal(x, pc[x], req[x])'
    <3>1. CASE x = e
      BY <1>a, <2>1, <2>2, <3>1 DEF ActingLocal, HelperLocal, GitLocal, EvidenceTrue,
         ReleaseDecided, QuietPhases, Releasing, Admitting, Preparing, Running
    <3>2. CASE x # e
      BY <2>1, <2>2, <2>3, <3>2 DEF ActingInv, ActingLocal, HelperLocal, GitLocal,
         EvidenceTrue, ReleaseDecided
    <3> QED
      BY <3>1, <3>2
  <2> QED
    BY <2>5, <2>6, <2>7, <2>8 DEF ActingInv
<1>12. CASE TerminationSettles(e)
  <2>1. PICK quiet \in BOOLEAN, cleanupFails \in BOOLEAN, named \in {"identified", "unidentified"},
             proof \in {"none", "close", "supervised"}, evidence \in HelperEvidence, late \in BOOLEAN :
           /\ quiet => pc[e] # "helper" \/ helper[e] = "gone"
           /\ pc[e] # "helper" => quiet
           /\ proof # "none" => quiet \/ CleanupFaults
           /\ evidence = IF pc[e] # "helper" THEN "never-launched"
                         ELSE IF quiet THEN "close-proven" ELSE named
           /\ late => quiet
           /\ Move(e, "settle", [req[e] EXCEPT !.authorized = FALSE, !.proof = proof,
                                               !.evidence = evidence, !.late = late])
    BY <1>12 DEF TerminationSettles, HelperEvidence
  <2>2. pc[e] \in {"terminate", "helper"}
    BY <1>12 DEF TerminationSettles, At
  <2>3. /\ evidence = "never-launched" => helper[e] = "none"
        /\ quiet => helper[e] # "running"
    BY <1>a, <2>1, <2>2 DEF ActingLocal, HelperLocal, QuietPhases
  <2> DEFINE r == [req[e] EXCEPT !.authorized = FALSE, !.proof = proof,
                                 !.evidence = evidence, !.late = late]
  <2>4. /\ ~r.authorized /\ r.proof = proof /\ r.evidence = evidence /\ r.late = late
        /\ r.absent = req[e].absent /\ r.known = req[e].known
    BY <1>t DEF Request
  <2>5. EvidenceTrue(e, evidence)
    BY <2>1, <2>3 DEF EvidenceTrue
  <2>6. git[e] # "running"
    BY <1>a, <2>2 DEF ActingLocal, GitLocal, Running
  <2> HIDE DEF r
  <2>7. ActingLocal(e, "settle", r)
    BY <1>a, <2>1, <2>2, <2>3, <2>4, <2>5, <2>6 DEF ActingLocal, HelperLocal, GitLocal,
       ReleaseDecided, QuietPhases, Releasing, Admitting, Preparing, Running
  <2>8. Move(e, "settle", r)
    BY <2>1 DEF r
  <2> QED
    BY <1>12, <1>s, <2>2, <2>4, <2>7, <2>8, ActingMove, SlotStays
    DEF TerminationSettles, QuietPhases, Unprepared, durable, manager, processes
<1> QED
  BY <1>1, <1>2, <1>3, <1>4, <1>5, <1>6, <1>7, <1>8, <1>9, <1>10, <1>11, <1>12 DEF Lifecycle

\* Returning custody keeps the invariant: a delegation releases what is still, and
\* what it notes and retains of its helper is what its stop reported.
LEMMA ReturnActing ==
    ASSUME TypeOK, ChildInv, ActingInv, NEW e \in Executions, Return(e)
    PROVE  ActingInv'
<1>a. ActingLocal(e, pc[e], req[e]) /\ ActsUnderRecord(e) /\ Local(e, pc[e], req[e])
  BY DEF ActingInv, ChildInv
<1>t. req[e] \in Request /\ slot \in Slot
  BY DEF TypeOK
<1>s. UNCHANGED note => NotesMove(e)
  BY NotesStay
<1>d. pc[e] \in QuietPhases \union Admitting => ActingLocal(e, "done", req[e]) /\ ~req[e].authorized
  BY ActingDone DEF QuietPhases, Admitting, Running
<1>1. CASE Settle(e)
  <2>1. pc[e] = "settle" /\ UNCHANGED <<slot, child, helper, git>>
    BY <1>1 DEF Settle, Turn, At, durable, processes
  <2>2. NotesMove(e)
    <3>1. \/ UNCHANGED note
          \/ note' = [note EXCEPT ![home[e]] = [exec |-> e, evidence |-> req[e].evidence]]
      BY <1>1 DEF Settle
    <3> QED
      BY <1>s, <3>1 DEF NotesMove, TypeOK
  <2>3. CASE Move(e, "release", [req[e] EXCEPT !.snap = slot]) /\ ReleaseAuthorized(e)
               /\ ReleaseAccepted(e)
    <3>1. slot.exec = e
      BY <2>3 DEF ReleaseAccepted, Owned
    <3>2. (helper[e] = "running" => CleanupFaults) /\ git[e] # "running"
      <4>1. CASE req[e].absent
        <5>1. child[e] = "none" /\ helper[e] = "none"
          BY <1>a, <2>1, <4>1 DEF Local, ActsUnderRecord
        <5>2. ASSUME git[e] = "running" PROVE FALSE
          <6>1. req[e].stopped /\ req[e].known \in {0, NoRevision}
            BY <1>a, <2>1, <2>3, <4>1, <5>2 DEF ActingLocal, GitLocal, ReleaseAuthorized
          <6>2. slot.revision \in {0, NoRevision}
            BY <2>3, <6>1 DEF ReleaseAccepted
          <6>3. slot.state # "RESERVED" /\ slot.revision > 0
            BY <3>1, <5>2 DEF ActingInv, SlotTells
          <6> QED
            BY <6>2, <6>3 DEF NoRevision
        <5> QED
          BY <5>1, <5>2
      <4>2. CASE ~req[e].absent
        BY <1>a, <2>3, <4>2 DEF ReleaseAuthorized, ActingLocal, HelperLocal, Local, ActsUnderRecord
      <4> QED
        BY <4>1, <4>2
    <3>3. Still(e)
      BY <2>1, <3>2 DEF Still, Excepted, QuietPhases
    <3>4. ActingLocal(e, "release", [req[e] EXCEPT !.snap = slot])
            /\ ~[req[e] EXCEPT !.snap = slot].authorized
      BY <1>a, <1>t, <2>1, <3>1, <3>2, <3>3 DEF Request, ActingLocal, HelperLocal, GitLocal,
         ReleaseDecided, QuietPhases, Releasing, Admitting, Preparing, Running
    <3> QED
      BY <2>1, <2>2, <2>3, <3>4, ActingMove, SlotStays DEF QuietPhases, Unprepared
  <2>4. CASE Finish(e, req[e])
    BY <1>d, <2>1, <2>2, <2>4, ActingFinish, SlotStays DEF QuietPhases
  <2>5. CASE Move(e, "orphan", req[e])
    <3>1. ActingLocal(e, "orphan", req[e])
      BY <1>a, <2>1 DEF ActingLocal, HelperLocal, GitLocal, ReleaseDecided, QuietPhases,
         Releasing, Admitting, Preparing, Running
    <3> QED
      BY <1>d, <2>1, <2>2, <2>5, <3>1, ActingMove, SlotStays DEF QuietPhases, Unprepared
  <2> QED
    BY <1>1, <2>3, <2>4, <2>5 DEF Settle
<1>2. CASE MarkOrphaned(e)
  <2>1. /\ slot \in Record /\ slot.exec = e /\ pc[e] = "orphan"
        /\ UNCHANGED <<note, child, helper, git>> /\ Finish(e, req[e])
    BY <1>2, OwnedRecord DEF MarkOrphaned, MayRetain, Owned, Turn, At, processes
  <2>2. SlotMoves
    <3>1. CASE UNCHANGED slot
      BY <3>1, SlotStays
    <3>2. CASE ~(UNCHANGED slot)
      <4>1. /\ slot'.exec = slot.exec /\ slot'.state = "ORPHANED"
            /\ slot'.revision = slot.revision + 1
            /\ slot'.helper \in {slot.helper, req[e].evidence}
        BY <1>2, <2>1, <3>2 DEF MarkOrphaned, Publish, Advance, Record
      <4>2. Told(e, req[e].evidence)
        BY <1>a DEF ActingLocal, HelperLocal, Told, QuietPhases
      <4> QED
        BY <2>1, <4>1, <4>2, SlotAdvances DEF States, TerminalStates, ForcedTerminationStates
    <3> QED
      BY <3>1, <3>2
  <2> QED
    BY <1>d, <1>s, <2>1, <2>2, ActingFinish DEF QuietPhases
<1>3. CASE RetentionFails(e)
  BY <1>3, <1>d, <1>s, ActingFinish, SlotStays
  DEF RetentionFails, Turn, At, QuietPhases, durable, manager, processes
<1>4. CASE LateRecovery(e)
  <2>1. /\ pc[e] = "done" /\ req[e].late /\ child[e] = "closed"
        /\ UNCHANGED <<slot, note, child, helper, git>>
    BY <1>4 DEF LateRecovery, Turn, At, durable, manager, processes
  <2>2. CASE Owned(e) /\ Move(e, "recover", [req[e] EXCEPT !.snap = slot, !.late = FALSE])
    <3>1. Still(e)
      BY <1>a, <2>1 DEF Still, ActsUnderRecord, ActingLocal, HelperLocal, QuietPhases
    <3>2. ActingLocal(e, "recover", [req[e] EXCEPT !.snap = slot, !.late = FALSE])
            /\ ~[req[e] EXCEPT !.snap = slot, !.late = FALSE].authorized
      BY <1>a, <1>t, <2>1, <2>2, <3>1 DEF Owned, Request, ActingLocal, HelperLocal, GitLocal,
         ReleaseDecided, QuietPhases, Releasing, Admitting, Preparing, Running
    <3> QED
      BY <1>s, <2>1, <2>2, <3>2, ActingMove, SlotStays DEF QuietPhases, Unprepared
  <2>3. CASE Finish(e, [req[e] EXCEPT !.late = FALSE])
    <3>1. ActingLocal(e, "done", [req[e] EXCEPT !.late = FALSE])
            /\ ~[req[e] EXCEPT !.late = FALSE].authorized
      BY <1>a, <1>t, <2>1 DEF Request, ActingLocal, HelperLocal, GitLocal,
         ReleaseDecided, QuietPhases, Releasing, Admitting, Preparing, Running
    <3> QED
      BY <1>s, <2>1, <2>3, <3>1, ActingFinish, SlotStays
  <2> QED
    BY <1>4, <2>2, <2>3 DEF LateRecovery
<1>5. CASE ReleaseStep(e)
  <2>1. /\ slot \in Record /\ slot'.exec = slot.exec /\ slot'.state \in TerminalStates
        /\ slot'.revision = slot.revision + 1 /\ slot'.helper = slot.helper
    BY <1>5, <1>t, AdvancesRecord DEF ReleaseStep, Advance, Record, NextRelease, TerminalStates
  <2>2. pc[e] \in Releasing /\ UNCHANGED <<note, child, helper, git>>
          /\ req[e].snap.exec = slot.exec /\ slot.exec \in Executions
    BY <1>5, <2>1 DEF ReleaseStep, SnapshotHolds, SamePublicationAuthority, manager, processes,
       Record
  <2>3. Still(slot.exec)
    BY <1>a, <2>2 DEF ActingLocal, ReleaseDecided
  <2>4. slot'.revision > 0
    BY <2>1 DEF Record
  <2>5. SlotMoves
    BY <2>1, <2>3, <2>4 DEF SlotMoves, TerminalStates
  <2>6. Move(e, pc[e], [req[e] EXCEPT !.snap = slot'])
    BY <1>5 DEF ReleaseStep, Move, TypeOK
  <2>7. ActingLocal(e, pc[e], [req[e] EXCEPT !.snap = slot'])
          /\ ~[req[e] EXCEPT !.snap = slot'].authorized
    BY <1>a, <1>t, <2>1, <2>2, <2>3 DEF Request, ActingLocal, HelperLocal, GitLocal,
       ReleaseDecided, QuietPhases, Releasing, Admitting, Preparing, Running
  <2> QED
    BY <1>s, <2>2, <2>5, <2>6, <2>7, ActingMove DEF Releasing, Unprepared
<1>6. CASE Archive(e)
  <2>1. pc[e] \in Releasing /\ UNCHANGED <<child, helper, git>> /\ Released(e)
    BY <1>6 DEF Archive, processes
  <2>2. NotesMove(e)
    BY <1>6 DEF Archive, ForgetRepository, NotesMove, TypeOK
  <2>3. SlotMoves \/ SlotLeaves
    <3>1. CASE UNCHANGED durable
      BY <3>1, SlotStays DEF durable
    <3>2. CASE SnapshotHolds(e) /\ slot' = NoRecord
      <4>1. slot.exec = req[e].snap.exec /\ slot.exec \in Executions
        BY <1>t, <3>2 DEF SnapshotHolds, SamePublicationAuthority, Slot, NoRecord, Record
      <4> QED
        BY <1>a, <2>1, <3>2, <4>1 DEF SlotLeaves, ActingLocal, ReleaseDecided
    <3> QED
      BY <1>6, <3>1, <3>2 DEF Archive
  <2>4. CASE pc[e] = "unwind"
    BY <2>1, <2>2, <2>3, <2>4, ActingRetry DEF Released, Admitting
  <2>5. CASE pc[e] # "unwind"
    BY <1>d, <2>1, <2>2, <2>3, <2>5, ActingFinish DEF Released, Releasing, QuietPhases
  <2> QED
    BY <2>4, <2>5
<1>7. CASE ReleaseFails(e)
  <2>1. pc[e] \in Releasing /\ UNCHANGED <<slot, note, child, helper, git>>
    BY <1>7 DEF ReleaseFails, durable, manager, processes
  <2>2. CASE pc[e] = "release" /\ Move(e, "orphan", [req[e] EXCEPT !.snap = NoRecord])
    <3>1. ActingLocal(e, "orphan", [req[e] EXCEPT !.snap = NoRecord])
            /\ ~[req[e] EXCEPT !.snap = NoRecord].authorized
      BY <1>a, <1>t, <2>1, <2>2 DEF Request, ActingLocal, HelperLocal, GitLocal,
         ReleaseDecided, QuietPhases, Releasing, Admitting, Preparing, Running
    <3> QED
      BY <1>s, <2>1, <2>2, <3>1, ActingMove, SlotStays DEF QuietPhases, Unprepared
  <2>3. CASE Finish(e, req[e])
    BY <1>d, <1>s, <2>1, <2>3, ActingFinish, SlotStays DEF Releasing, QuietPhases, Admitting
  <2> QED
    BY <1>7, <2>2, <2>3 DEF ReleaseFails
<1> QED
  BY <1>1, <1>2, <1>3, <1>4, <1>5, <1>6, <1>7 DEF Return

\* The death of a coordinator keeps the invariant: nothing it knew is needed.
LEMMA CrashActing ==
    ASSUME TypeOK, ActingInv, NEW c \in Coordinators, Crash(c)
    PROVE  ActingInv'
<1>1. UNCHANGED <<slot, child, helper, git>>
  BY DEF Crash, durable, processes
<1>2. \A x \in Executions :
         /\ pc'[x] = (IF home[x] = c THEN "dead" ELSE pc[x])
         /\ req'[x] = (IF home[x] = c THEN NewRequest ELSE req[x])
  BY DEF Crash
<1>3. /\ ~NewRequest.authorized /\ ~NewRequest.late /\ NewRequest.evidence = "unknown"
      /\ NewRequest.proof = "none" /\ NewRequest.known = NoRevision
  BY DEF NewRequest
<1>4. \A x \in Executions : Still(x) => Still(x)'
  BY <1>1, <1>2 DEF Still, Excepted, Review, QuietPhases
<1>5. \A x \in Executions : \A v : Told(x, v) => Told(x, v)'
  BY <1>1, <1>2 DEF Told, EvidenceTrue, QuietPhases
<1>6. ASSUME NEW x \in Executions PROVE ActsUnderRecord(x)'
  BY <1>1, <1>2, <1>3 DEF ActingInv, ActsUnderRecord, Owned, Excepted, Review
<1>7. SlotTells'
  BY <1>1, <1>2, <1>4, <1>5 DEF ActingInv, SlotTells, Unprepared
<1>8. NotesTell'
  <2>1. ASSUME NEW k \in Coordinators, note'[k].exec \in Executions
        PROVE  Told(note[k].exec, note[k].evidence)'
    <3>1. PICK x, v : x = note[k].exec /\ v = note[k].evidence
      OBVIOUS
    <3>2. note'[k] = NoNote \/ note'[k] = note[k]
      BY DEF Crash, ForgetRepository, TypeOK
    <3>3. note'[k] = note[k]
      BY <2>1, <3>2, CustodyAssumption DEF NoNote
    <3>4. Told(x, v)'
      BY <1>5, <2>1, <3>1, <3>3 DEF ActingInv, NotesTell
    <3> QED
      BY <3>1, <3>3, <3>4 DEF Told, EvidenceTrue
  <2> QED
    BY <2>1 DEF NotesTell
<1>9. ASSUME NEW x \in Executions PROVE ActingLocal(x, pc[x], req[x])'
  <2>1. ActingLocal(x, pc[x], req[x])
    BY DEF ActingInv
  <2>2. CASE home[x] = c
    BY <1>1, <1>2, <1>3, <2>2 DEF ActingLocal, HelperLocal, GitLocal, ReleaseDecided,
       QuietPhases, Releasing, Admitting, Preparing, Running
  <2>3. CASE home[x] # c
    <3>1. pc'[x] = pc[x] /\ req'[x] = req[x]
            /\ ReleaseDecided(pc[x], req[x])' = ReleaseDecided(pc[x], req[x])
      BY <1>2, <2>3 DEF ReleaseDecided
    <3> QED
      BY <1>1, <1>4, <2>1, <3>1 DEF ActingLocal, HelperLocal, GitLocal, EvidenceTrue
  <2> QED
    BY <2>2, <2>3
<1> QED
  BY <1>6, <1>7, <1>8, <1>9 DEF ActingInv

\* A stop keeps the invariant: a git it leaves running stays with a request that
\* holds no later revision than that of its reservation.
LEMMA StopActing ==
    ASSUME TypeOK, ChildInv, ActingInv, NEW e \in Executions, RequestStops(e)
    PROVE  ActingInv'
<1> DEFINE r == [req[e] EXCEPT !.stopped = TRUE]
           late == [r EXCEPT !.late = FALSE]
<1>1. req[e] \in Request /\ ActingLocal(e, pc[e], req[e]) /\ ActsUnderRecord(e)
  BY DEF TypeOK, ActingInv
<1>2. /\ r.authorized = req[e].authorized /\ late.authorized = req[e].authorized
      /\ r.evidence = req[e].evidence /\ late.evidence = req[e].evidence
      /\ r.proof = req[e].proof /\ late.proof = req[e].proof
      /\ r.late = req[e].late /\ ~late.late
      /\ r.absent = req[e].absent /\ late.absent = req[e].absent
      /\ r.known = req[e].known /\ late.known = req[e].known
      /\ r.snap = req[e].snap /\ late.snap = req[e].snap
      /\ r.decision = req[e].decision
      /\ r.stopped
  BY <1>1 DEF Request
<1>3. UNCHANGED <<slot, note, child, helper, git>> /\ NotesMove(e)
  BY NotesStay DEF RequestStops, durable, manager, processes
<1>4. CASE pc[e] \notin {"idle"} \union Running /\ (Finish(e, r) \/ Finish(e, late))
  <2>1. ActingLocal(e, "done", req[e]) /\ ~req[e].authorized
    BY <1>4, ActingDone
  <2>2. ActingLocal(e, "done", r) /\ ActingLocal(e, "done", late)
    BY <1>2, <2>1 DEF ActingLocal, HelperLocal, GitLocal, ReleaseDecided, QuietPhases,
       Releasing, Admitting, Preparing, Running
  <2> QED
    BY <1>2, <1>3, <1>4, <2>1, <2>2, ActingFinish, SlotStays
<1>5. CASE pc[e] \in Preparing /\ Move(e, "settle", r)
  <2>1. ActingLocal(e, "settle", r) /\ ~r.authorized
    BY <1>1, <1>2, <1>5 DEF ActingLocal, HelperLocal, GitLocal, ReleaseDecided, QuietPhases,
       Releasing, Admitting, Preparing, Running
  <2> QED
    BY <1>3, <1>5, <2>1, ActingMove, SlotStays DEF Preparing, QuietPhases, Unprepared
<1>6. CASE pc[e] \in Running \union {"settle"} /\ Move(e, pc[e], r)
  <2>1. ActingLocal(e, pc[e], r)
    BY <1>1, <1>2, <1>6 DEF ActingLocal, HelperLocal, GitLocal, ReleaseDecided, QuietPhases,
       Releasing, Admitting, Preparing, Running
  <2> QED
    BY <1>1, <1>2, <1>3, <1>6, <2>1, ActingMove, SlotStays
    DEF Running, Unprepared, ActsUnderRecord, Owned
<1> QED
  BY <1>4, <1>5, <1>6 DEF RequestStops, Admitting, Running

\* Processes that end keep the invariant.
LEMMA EnvironmentActing ==
    ASSUME TypeOK, ActingInv, NEW e \in Executions, Environment(e)
    PROVE  ActingInv'
<1>1. UNCHANGED <<slot, note, pc, req>>
  BY DEF Environment, ChildEnds, HelperEnds, GitEnds, durable, manager
<1>2. \A x \in Executions :
         /\ child'[x] = "none" <=> child[x] = "none"
         /\ helper'[x] = "none" <=> helper[x] = "none"
         /\ helper'[x] = "running" => helper[x] = "running"
         /\ git'[x] = "none" <=> git[x] = "none"
         /\ git'[x] = "running" => git[x] = "running"
  BY DEF Environment, ChildEnds, HelperEnds, GitEnds, TypeOK
<1>3. \A x \in Executions : Still(x) => Still(x)'
  BY <1>1, <1>2 DEF Still, Excepted, Review
<1>4. \A x \in Executions : \A v : Told(x, v) => Told(x, v)'
  BY <1>1, <1>2 DEF Told, EvidenceTrue
<1>5. ASSUME NEW x \in Executions PROVE ActsUnderRecord(x)'
  BY <1>1, <1>2 DEF ActingInv, ActsUnderRecord, Owned, Excepted, Review
<1>6. SlotTells'
  BY <1>1, <1>2, <1>3, <1>4 DEF ActingInv, SlotTells
<1>7. NotesTell'
  BY <1>1, <1>4 DEF ActingInv, NotesTell
<1>8. ASSUME NEW x \in Executions PROVE ActingLocal(x, pc[x], req[x])'
  <2>1. ActingLocal(x, pc[x], req[x])
    BY DEF ActingInv
  <2>2. ReleaseDecided(pc[x], req[x])' = ReleaseDecided(pc[x], req[x])
    BY <1>1 DEF ReleaseDecided
  <2> QED
    BY <1>1, <1>2, <1>3, <2>1, <2>2 DEF ActingLocal, HelperLocal, GitLocal, EvidenceTrue
<1> QED
  BY <1>5, <1>6, <1>7, <1>8 DEF ActingInv

\* The strengthened invariant, for every set of executions, writes and reviews,
\* and every choice of faults.
LEMMA ActingInvariant == Spec => []ActingInv
<1>1. Init => ActingInv
  <2> SUFFICES ASSUME Init PROVE ActingInv
    OBVIOUS
  <2>1. /\ ~NewRequest.authorized /\ ~NewRequest.late /\ NewRequest.evidence = "unknown"
        /\ NewRequest.proof = "none" /\ NewRequest.known = NoRevision
    BY DEF NewRequest
  <2>2. \A x \in Executions : ActsUnderRecord(x) /\ ActingLocal(x, pc[x], req[x])
    BY <2>1 DEF Init, ActsUnderRecord, ActingLocal, HelperLocal, GitLocal, ReleaseDecided,
       QuietPhases, Releasing, Admitting, Preparing, Running
  <2>3. SlotTells /\ NotesTell
    BY CustodyAssumption DEF Init, SlotTells, NotesTell, NoRecord, NoNote
  <2> QED
    BY <2>2, <2>3 DEF ActingInv
<1>2. TypeOK /\ ChildInv /\ ActingInv /\ [Next]_vars => ActingInv'
  <2> SUFFICES ASSUME TypeOK, ChildInv, ActingInv, [Next]_vars PROVE ActingInv'
    OBVIOUS
  <2>1. CASE UNCHANGED vars
    BY <2>1 DEF vars, ActingInv, ActsUnderRecord, SlotTells, NotesTell, ActingLocal,
       HelperLocal, GitLocal, ReleaseDecided, Told, EvidenceTrue, Still, Owned, Excepted, Review
  <2>2. ASSUME NEW e \in Executions,
               Admission(e) \/ Preparation(e) \/ Lifecycle(e) \/ Return(e)
                 \/ RequestStops(e) \/ Environment(e)
        PROVE  ActingInv'
    BY <2>2, AdmissionActing, PreparationActing, LifecycleActing, ReturnActing, StopActing,
       EnvironmentActing
  <2>3. ASSUME NEW c \in Coordinators, Crash(c) PROVE ActingInv'
    BY <2>3, CrashActing
  <2> QED
    BY <2>1, <2>2, <2>3 DEF Next
<1> QED
  BY <1>1, <1>2, TypeCorrect, ChildInvariant, PTL DEF Spec

\* A release by the delegation itself waits for the close of the helper it
\* launched, for a write and for a review.
THEOREM ReleaseAwaitsHelper ==
    ASSUME ~CleanupFaults
    PROVE  Spec => []HandoffAwaitsHelper
<1>1. ActingInv => HandoffAwaitsHelper
  BY DEF ActingInv, ActingLocal, HelperLocal, HandoffAwaitsHelper
<1> QED
  BY <1>1, ActingInvariant, PTL

\* The Claude child and the mutating git of every execution, a write or a
\* review's, act only while it holds the repository, whatever faults; and while
\* the runtime settings can be removed, the helper of a write runs only under its
\* own record of a forced termination.
THEOREM WritesActAsOwners ==
    Spec => [](\A e \in Executions :
                  /\ "running" \in {child[e], git[e]} => Owned(e)
                  /\ helper[e] = "running" /\ ~Review(e) /\ ~CleanupFaults
                       => Owned(e) /\ slot.state \in ForcedTerminationStates)
<1>1. ActingInv /\ ChildIsOwner
        => \A e \in Executions :
              /\ "running" \in {child[e], git[e]} => Owned(e)
              /\ helper[e] = "running" /\ ~Review(e) /\ ~CleanupFaults
                   => Owned(e) /\ slot.state \in ForcedTerminationStates
  BY DEF ActingInv, ActsUnderRecord, Excepted, ChildIsOwner
<1> QED
  BY <1>1, ActingInvariant, ChildOwnsRepository, PTL

\* Where no execution is a review, a destructive helper runs only under a record
\* that says, durably, that forced termination has begun.
THEOREM HelpersAreDurablyAuthorized ==
    ASSUME ~CleanupFaults, ReviewExecutions = {}
    PROVE  Spec => []HelperUnderDurableTermination
<1>1. ActingInv => HelperUnderDurableTermination
  BY DEF ActingInv, ActsUnderRecord, HelperUnderDurableTermination, Excepted, Review
<1> QED
  BY <1>1, ActingInvariant, PTL

\* There, whatever acts for an execution acts while it holds the repository.
THEOREM ActingOwnsRepository ==
    ASSUME ~CleanupFaults, ReviewExecutions = {}
    PROVE  Spec => []ActingIsOwner
<1>1. ActingInv /\ ChildIsOwner => ActingIsOwner
  BY DEF ActingInv, ActsUnderRecord, ChildIsOwner, ActingIsOwner, Acting, Excepted, Review
<1> QED
  BY <1>1, ActingInvariant, ChildOwnsRepository, PTL

\* Nothing the abstract custody sees changes.
Unseen ==
    /\ slot'.exec = slot.exec
    /\ UNCHANGED <<history, child, helper, git>>

\* An advance of a record is a record of the same execution.
LEMMA AdvanceKeepsHolder ==
    ASSUME NEW r \in Slot, NEW state, MayAdvance(r, state)
    PROVE  Advance(r, state).exec = r.exec
BY AdvancesRecord DEF Advance, Record

\* The steps of an admission, the reservation and the archive apart, are not seen.
LEMMA AdmissionUnseen ==
    ASSUME TypeOK, NEW e \in Executions, Admission(e), ~Reserve(e), ~ReconcileArchive(e)
    PROVE  Unseen
<1>1. CASE ReconcileRetain(e)
  BY <1>1, AdvanceKeepsHolder DEF ReconcileRetain, TypeOK, Unseen, processes
<1>2. CASE ~ReconcileRetain(e)
  BY <1>2 DEF Admission, Submit, AdmissionFails, Observe, ReconcileChanged, ReconcileRelease,
     Reclaim, ReclaimRefused, ReclaimCommit, Unseen, durable, processes
<1> QED
  BY <1>1, <1>2

\* Nor are those of a preparation, the start of a git apart.
LEMMA PreparationUnseen ==
    ASSUME TypeOK, NEW e \in Executions, Preparation(e), ~SpawnGit(e)
    PROVE  Unseen
<1>1. Owned(e) => slot \in Record
  BY OwnedRecord
<1>2. CASE BeginWorktreePreparation(e)
  BY <1>1, <1>2 DEF BeginWorktreePreparation, Publish, Advance, Record, Unseen, processes
<1>3. CASE RecordWorktreeOperation(e)
  BY <1>1, <1>3 DEF RecordWorktreeOperation, Advance, Record, Unseen, processes
<1>4. CASE ClearWorktreeOperation(e)
  BY <1>1, <1>4 DEF ClearWorktreeOperation, Advance, Record, Unseen, processes
<1>5. CASE PreparationFails(e)
  BY <1>5 DEF PreparationFails, Unseen, durable, processes
<1>6. CASE MarkSpawning(e)
  BY <1>1, <1>6 DEF MarkSpawning, Publish, Advance, Record, Unseen, processes
<1> QED
  BY <1>2, <1>3, <1>4, <1>5, <1>6 DEF Preparation

\* Nor those of a child's life, its start and its helper's apart.
LEMMA LifecycleUnseen ==
    ASSUME TypeOK, NEW e \in Executions, Lifecycle(e), ~SpawnChild(e), ~LaunchHelper(e)
    PROVE  Unseen
<1>1. Owned(e) => slot \in Record
  BY OwnedRecord
<1>2. CASE Activate(e)
  BY <1>1, <1>2 DEF Activate, Publish, Advance, Record, Unseen, processes
<1>3. CASE BeginTermination(e)
  BY <1>1, <1>3 DEF BeginTermination, Publish, Advance, Record, Unseen, processes
<1>4. CASE ~Activate(e) /\ ~BeginTermination(e)
  BY <1>4 DEF Lifecycle, SpawnFails, Identify, IdentifyFails, ActivateFails, ObserveClose,
     StopChild, TerminationUnpublished, TerminationSettles, Unseen, durable, processes
<1> QED
  BY <1>2, <1>3, <1>4

\* Nor those of a return, up to the archive.
LEMMA ReturnUnseen ==
    ASSUME TypeOK, NEW e \in Executions, Return(e), ~Archive(e)
    PROVE  Unseen
<1>1. Owned(e) => slot \in Record
  BY OwnedRecord
<1>2. CASE MarkOrphaned(e)
  BY <1>1, <1>2 DEF MarkOrphaned, Publish, Advance, Record, Unseen, processes
<1>3. CASE ReleaseStep(e)
  BY <1>3, AdvanceKeepsHolder DEF ReleaseStep, TypeOK, Unseen, processes
<1>4. CASE ~MarkOrphaned(e) /\ ~ReleaseStep(e)
  BY <1>4 DEF Return, Settle, RetentionFails, LateRecovery, ReleaseFails, Unseen, durable,
     processes
<1> QED
  BY <1>2, <1>3, <1>4

\* What is not seen is a stutter.
LEMMA UnseenStutters == Unseen => UNCHANGED Exclusive!vars
BY DEF Unseen, Exclusive!vars, Acting

\* The reservation takes the repository.
LEMMA ReserveTakes ==
    ASSUME NEW e \in Executions, Reserve(e)
    PROVE  Exclusive!Take(e)
BY DEF Reserve, Reservation, NoRecord, processes, Exclusive!Take, Acting

\* An execution starts to act only while it holds the repository.
LEMMA StartsWork ==
    ASSUME TypeOK, ChildInv, ActingInv, NEW e \in Executions,
           SpawnGit(e) \/ SpawnChild(e) \/ LaunchHelper(e)
    PROVE  Exclusive!StartWork(e)
<1>1. Owned(e)
  BY DEF ChildInv, ChildIsOwner, Local, SpawnGit, SpawnChild, LaunchHelper, At, Preparing
<1>2. UNCHANGED <<slot, history>>
  BY DEF SpawnGit, SpawnChild, LaunchHelper, durable
<1>3. \A x \in Executions : Acting(x)' <=> (x = e \/ Acting(x))
  BY DEF SpawnGit, SpawnChild, LaunchHelper, TypeOK, Acting
<1> QED
  BY <1>1, <1>2, <1>3 DEF Exclusive!StartWork, Owned

\* A process that ends leaves its execution acting or not.
LEMMA EndsWork ==
    ASSUME TypeOK, NEW e \in Executions, Environment(e)
    PROVE  Exclusive!EndWork(e) \/ UNCHANGED Exclusive!vars
<1>1. UNCHANGED <<slot, history>>
  BY DEF Environment, ChildEnds, HelperEnds, GitEnds, durable
<1>2. /\ \A x \in Executions \ {e} : Acting(x)' <=> Acting(x)
      /\ Acting(e)' => Acting(e)
  BY DEF Environment, ChildEnds, HelperEnds, GitEnds, TypeOK, Acting
<1> QED
  BY <1>1, <1>2 DEF Exclusive!EndWork, Exclusive!vars

\* The archive returns the repository, and nothing acts for its execution; when
\* another coordinator has archived the record, nothing is seen.
LEMMA ArchiveReturns ==
    ASSUME ~CleanupFaults, ReviewExecutions = {},
           TypeOK, ChildInv, ActingInv, NEW e \in Executions, Archive(e)
    PROVE  \/ \E x \in Executions : Exclusive!Return(x)
           \/ UNCHANGED Exclusive!vars
<1>1. CASE UNCHANGED durable
  BY <1>1, UnseenStutters DEF Archive, durable, processes, Unseen
<1>2. CASE /\ SnapshotHolds(e)
           /\ slot' = NoRecord /\ history' = history \union {slot.exec}
  <2>1. slot.exec = req[e].snap.exec /\ slot.exec \in Executions
    BY <1>2 DEF TypeOK, SnapshotHolds, SamePublicationAuthority, Slot, NoRecord, Record,
       Archive, Request
  <2>2. Quiet(slot.exec) /\ Still(slot.exec)
    BY <2>1 DEF Archive, ActingInv, ActingLocal, ChildInv, Local, ReleaseDecided
  <2>3. ~Acting(slot.exec)
    BY <2>1, <2>2 DEF Acting, Quiet, Still, Excepted, Review
  <2>4. Exclusive!Return(slot.exec)
    BY <1>2, <2>3 DEF Archive, processes, NoRecord, Exclusive!Return, Acting
  <2> QED
    BY <2>1, <2>4
<1> QED
  BY <1>1, <1>2 DEF Archive

\* So does that of a RELEASED record an admission finds.
LEMMA ReconciledReturns ==
    ASSUME ~CleanupFaults, ReviewExecutions = {},
           TypeOK, ChildInv, ActingInv, NEW e \in Executions, ReconcileArchive(e)
    PROVE  \E x \in Executions : Exclusive!Return(x)
<1>1. slot.exec \in Executions /\ slot.state = "RELEASED"
  BY DEF ReconcileArchive, SnapshotHolds, SamePublicationAuthority, TypeOK, Slot, NoRecord, Record
<1>2. Quiet(slot.exec) /\ Still(slot.exec)
  BY <1>1 DEF ChildInv, RecordTruth, ActingInv, SlotTells, TerminalStates
<1>3. ~Acting(slot.exec)
  BY <1>1, <1>2 DEF Acting, Quiet, Still, Excepted, Review
<1>4. Exclusive!Return(slot.exec)
  BY <1>3 DEF ReconcileArchive, processes, NoRecord, Exclusive!Return, Acting
<1> QED
  BY <1>1, <1>4

\* Where no execution is a review, the delegations, their processes and their
\* coordinators together implement exclusive custody: a step takes the
\* repository, starts or ends work in it, returns it, or is not seen.
THEOREM WritesImplementExclusiveCustody ==
    ASSUME ~CleanupFaults, ReviewExecutions = {}
    PROVE  Spec => ImplementsExclusiveCustody
<1>1. Init => Exclusive!Init
  BY DEF Init, NoRecord, Exclusive!Init, Acting
<1>2. TypeOK /\ ChildInv /\ ActingInv /\ [Next]_vars => [Exclusive!Next]_(Exclusive!vars)
  <2> SUFFICES ASSUME TypeOK, ChildInv, ActingInv, [Next]_vars
               PROVE  [Exclusive!Next]_(Exclusive!vars)
    OBVIOUS
  <2>1. CASE UNCHANGED vars
    BY <2>1, UnseenStutters DEF vars, Unseen
  <2>2. ASSUME NEW e \in Executions, Admission(e) PROVE [Exclusive!Next]_(Exclusive!vars)
    BY <2>2, AdmissionUnseen, ReserveTakes, ReconciledReturns, UnseenStutters DEF Exclusive!Next
  <2>3. ASSUME NEW e \in Executions, Preparation(e) PROVE [Exclusive!Next]_(Exclusive!vars)
    BY <2>3, PreparationUnseen, StartsWork, UnseenStutters DEF Exclusive!Next
  <2>4. ASSUME NEW e \in Executions, Lifecycle(e) PROVE [Exclusive!Next]_(Exclusive!vars)
    BY <2>4, LifecycleUnseen, StartsWork, UnseenStutters DEF Exclusive!Next
  <2>5. ASSUME NEW e \in Executions, Return(e) PROVE [Exclusive!Next]_(Exclusive!vars)
    BY <2>5, ReturnUnseen, ArchiveReturns, UnseenStutters DEF Exclusive!Next
  <2>6. ASSUME NEW e \in Executions, RequestStops(e) PROVE [Exclusive!Next]_(Exclusive!vars)
    BY <2>6, UnseenStutters DEF RequestStops, Unseen, durable, processes
  <2>7. ASSUME NEW e \in Executions, Environment(e) PROVE [Exclusive!Next]_(Exclusive!vars)
    BY <2>7, EndsWork DEF Exclusive!Next
  <2>8. ASSUME NEW c \in Coordinators, Crash(c) PROVE [Exclusive!Next]_(Exclusive!vars)
    BY <2>8, UnseenStutters DEF Crash, Unseen, durable, processes
  <2> QED
    BY <2>1, <2>2, <2>3, <2>4, <2>5, <2>6, <2>7, <2>8 DEF Next
<1> QED
  BY <1>1, <1>2, TypeCorrect, ChildInvariant, ActingInvariant, PTL
  DEF Spec, ImplementsExclusiveCustody, Exclusive!Spec

\* The same, of the processes that work in the repository: the Claude child and
\* the mutating git of every execution, writes and reviews alike.
Working(e) == "running" \in {child[e], git[e]}

Worked == INSTANCE ExclusiveCustody
            WITH holder <- slot.exec, past <- history,
                 busy <- {e \in Executions : Working(e)}

\* What is not seen is a stutter here too, and so is all that a helper does.
LEMMA UnseenWorks == (Unseen \/ UNCHANGED <<slot, history, child, git>>) => UNCHANGED Worked!vars
BY DEF Unseen, Worked!vars, Working

\* The reservation takes the repository, and a child or a git starts to work in it.
LEMMA TakesOrStarts ==
    ASSUME TypeOK, ChildInv, NEW e \in Executions, Reserve(e) \/ SpawnGit(e) \/ SpawnChild(e)
    PROVE  Worked!Take(e) \/ Worked!StartWork(e)
<1>1. CASE Reserve(e)
  BY <1>1 DEF Reserve, Reservation, NoRecord, processes, Worked!Take, Working
<1>2. CASE SpawnGit(e) \/ SpawnChild(e)
  <2>1. Owned(e) /\ UNCHANGED <<slot, history>>
    BY <1>2 DEF ChildInv, Local, SpawnGit, SpawnChild, At, Preparing, durable
  <2>2. \A x \in Executions : Working(x)' <=> (x = e \/ Working(x))
    BY <1>2 DEF SpawnGit, SpawnChild, TypeOK, Working
  <2> QED
    BY <2>1, <2>2 DEF Worked!StartWork, Owned
<1> QED
  BY <1>1, <1>2

\* It ends its work.
LEMMA StopsWork ==
    ASSUME TypeOK, NEW e \in Executions, Environment(e)
    PROVE  Worked!EndWork(e) \/ UNCHANGED Worked!vars
<1>1. UNCHANGED <<slot, history>>
  BY DEF Environment, ChildEnds, HelperEnds, GitEnds, durable
<1>2. /\ \A x \in Executions \ {e} : Working(x)' <=> Working(x)
      /\ Working(e)' => Working(e)
  BY DEF Environment, ChildEnds, HelperEnds, GitEnds, TypeOK, Working
<1> QED
  BY <1>1, <1>2 DEF Worked!EndWork, Worked!vars

\* The archive returns a repository in which nothing works any more.
LEMMA ArchiveReturnsWork ==
    ASSUME TypeOK, ChildInv, ActingInv, NEW e \in Executions, Archive(e)
    PROVE  \/ \E x \in Executions : Worked!Return(x)
           \/ UNCHANGED Worked!vars
<1>1. CASE UNCHANGED durable
  BY <1>1, UnseenWorks DEF Archive, durable, processes, Unseen
<1>2. CASE /\ SnapshotHolds(e)
           /\ slot' = NoRecord /\ history' = history \union {slot.exec}
  <2>1. slot.exec = req[e].snap.exec /\ slot.exec \in Executions
    BY <1>2 DEF TypeOK, SnapshotHolds, SamePublicationAuthority, Slot, NoRecord, Record,
       Archive, Request
  <2>2. Quiet(slot.exec) /\ Still(slot.exec)
    BY <2>1 DEF Archive, ActingInv, ActingLocal, ChildInv, Local, ReleaseDecided
  <2>3. ~Working(slot.exec)
    BY <2>1, <2>2 DEF Working, Quiet, Still
  <2>4. Worked!Return(slot.exec)
    BY <1>2, <2>3 DEF Archive, processes, NoRecord, Worked!Return, Working
  <2> QED
    BY <2>1, <2>4
<1> QED
  BY <1>1, <1>2 DEF Archive

\* So does that of a RELEASED record an admission finds.
LEMMA ReconciledReturnsWork ==
    ASSUME TypeOK, ChildInv, ActingInv, NEW e \in Executions, ReconcileArchive(e)
    PROVE  \E x \in Executions : Worked!Return(x)
<1>1. slot.exec \in Executions /\ slot.state = "RELEASED"
  BY DEF ReconcileArchive, SnapshotHolds, SamePublicationAuthority, TypeOK, Slot, NoRecord, Record
<1>2. ~Working(slot.exec)
  BY <1>1 DEF ChildInv, RecordTruth, ActingInv, SlotTells, TerminalStates, Working, Quiet, Still
<1>3. Worked!Return(slot.exec)
  BY <1>2 DEF ReconcileArchive, processes, NoRecord, Worked!Return, Working
<1> QED
  BY <1>1, <1>3

\* Custody is exclusive among the Claude children and the mutating gits of every
\* execution, a review's included, and whatever faults.
THEOREM WorkIsExclusive == Spec => Worked!Spec
<1>1. Init => Worked!Init
  BY DEF Init, NoRecord, Worked!Init, Working
<1>2. TypeOK /\ ChildInv /\ ActingInv /\ [Next]_vars => [Worked!Next]_(Worked!vars)
  <2> SUFFICES ASSUME TypeOK, ChildInv, ActingInv, [Next]_vars
               PROVE  [Worked!Next]_(Worked!vars)
    OBVIOUS
  <2>1. CASE UNCHANGED vars
    BY <2>1, UnseenWorks DEF vars
  <2>2. ASSUME NEW e \in Executions, Admission(e) PROVE [Worked!Next]_(Worked!vars)
    BY <2>2, AdmissionUnseen, TakesOrStarts, ReconciledReturnsWork, UnseenWorks DEF Worked!Next
  <2>3. ASSUME NEW e \in Executions, Preparation(e) PROVE [Worked!Next]_(Worked!vars)
    BY <2>3, PreparationUnseen, TakesOrStarts, UnseenWorks DEF Worked!Next
  <2>4. ASSUME NEW e \in Executions, Lifecycle(e) PROVE [Worked!Next]_(Worked!vars)
    <3>1. CASE LaunchHelper(e)
      BY <3>1, UnseenWorks DEF LaunchHelper, durable
    <3> QED
      BY <2>4, <3>1, LifecycleUnseen, TakesOrStarts, UnseenWorks DEF Worked!Next
  <2>5. ASSUME NEW e \in Executions, Return(e) PROVE [Worked!Next]_(Worked!vars)
    BY <2>5, ReturnUnseen, ArchiveReturnsWork, UnseenWorks DEF Worked!Next
  <2>6. ASSUME NEW e \in Executions, RequestStops(e) PROVE [Worked!Next]_(Worked!vars)
    BY <2>6, UnseenWorks DEF RequestStops, durable, processes
  <2>7. ASSUME NEW e \in Executions, Environment(e) PROVE [Worked!Next]_(Worked!vars)
    BY <2>7, StopsWork DEF Worked!Next
  <2>8. ASSUME NEW c \in Coordinators, Crash(c) PROVE [Worked!Next]_(Worked!vars)
    BY <2>8, UnseenWorks DEF Crash, durable, processes
  <2> QED
    BY <2>1, <2>2, <2>3, <2>4, <2>5, <2>6, <2>7, <2>8 DEF Next
<1> QED
  BY <1>1, <1>2, TypeCorrect, ChildInvariant, ActingInvariant, PTL
  DEF Spec, Worked!Spec
=============================================================================
