------------------------ MODULE CustodyRelease_proofs ------------------------
(******************************************************************************)
(* What a release of custody rests on.                                        *)
(*                                                                            *)
(* While a Claude child runs, its execution holds the repository.  That is    *)
(* not inductive: a release takes many steps, and between the step that       *)
(* decides it and the one that archives the record nothing looks at the child *)
(* again.  What carries it is that a release is only ever decided about an    *)
(* execution that is quiet for good.                                          *)
(*                                                                            *)
(* A record whose forced termination began is released only by the            *)
(* coordinator that began it: by the delegation itself, by its late recovery, *)
(* or by that coordinator's own reclaim.                                      *)
(*                                                                            *)
(* What a delegation does not release it retains: where it may refuse to      *)
(* retain its record, that record already says more than the delegation does. *)
(******************************************************************************)
EXTENDS WriteCustody_proofs

\* Phases from which no child is ever spawned.
QuietPhases == {"dead", "done", "settle", "release", "orphan", "recover"}

\* The child of x has ended, or will never be spawned.
Quiet(x) ==
    \/ child[x] \in {"exited", "closed"}
    \/ child[x] = "none" /\ pc[x] \in QuietPhases

TerminalStates == {"TERMINAL_PROVEN", "HANDOFF_READY", "RELEASED"}

\* A delegation in phase p with request r has settled on releasing r.snap.
ReleaseDecided(p, r) ==
    \/ p \in Releasing \union {"reclaiming"}
    \/ /\ p = "reconcile"
       /\ \/ r.snap.state = "RELEASED"
          \/ r.decision.action \in {"complete-terminal-release", "terminalize-and-release"}

\* What delegation e knows about its child, and holds, in phase p with request r.
Local(e, p, r) ==
    /\ p \in Preparing \union {"spawning"} => Owned(e)
    /\ p \in {"idle", "spawning"} \union Admitting \union Preparing => child[e] = "none"
    /\ p \in Running \ {"spawning"} => child[e] # "none"
    /\ r.identified => child[e] # "none"
    /\ r.absent /\ p \notin {"dead", "done", "recover"} => child[e] = "none"
    /\ r.proof # "none" => child[e] = "closed"
    /\ ReleaseDecided(p, r) /\ r.snap.exec \in Executions => Quiet(r.snap.exec)
    /\ p # "idle" => home[e] \in Coordinators
    /\ home[e] \in Coordinators \ up => p = "dead"

\* What the record in the slot tells of the child of its execution.
RecordTruth ==
    slot.exec \in Executions =>
       /\ slot.claude => child[slot.exec] # "none"
       /\ slot.state = "RESERVED" => child[slot.exec] = "none" /\ pc[slot.exec] # "spawning"
       /\ slot.state \in TerminalStates => Quiet(slot.exec)
       /\ pc[slot.exec] # "idle"

ChildInv ==
    /\ ChildIsOwner
    /\ RecordTruth
    /\ \A e \in Executions : Local(e, pc[e], req[e])

\* The record of an execution moves on.
RecordMoves ==
    /\ slot'.exec = slot.exec
    /\ slot'.state = "RESERVED" => slot.state = "RESERVED"
    /\ slot.exec \in Executions =>
         /\ slot'.claude => child[slot.exec] # "none"
         /\ slot'.state \in TerminalStates => Quiet(slot.exec)

\* The record leaves the slot for the history.
RecordLeaves == slot' = NoRecord /\ slot.exec \in Executions /\ Quiet(slot.exec)

\* A step that leaves the slot alone moves no record wrongly.
LEMMA RecordStays ==
    ASSUME ChildInv, UNCHANGED slot
    PROVE  RecordMoves
BY DEF ChildInv, RecordTruth, RecordMoves

\* A transition that does not publish a terminal state.
LEMMA RecordAdvances ==
    ASSUME TypeOK, ChildInv, NEW state \in States \ (TerminalStates \union {"RESERVED"}),
           slot'.exec = slot.exec, slot'.state = state,
           slot'.claude => slot.claude \/ child[slot.exec] # "none"
    PROVE  RecordMoves
BY DEF ChildInv, RecordTruth, RecordMoves

\* What a decision to release for a dead coordinator rests on.
LEMMA DecidesOnEvidence ==
    ASSUME NEW r, NEW coordinator, NEW g, NEW claude,
           DecideReconciliation(r, coordinator, g, claude).action = "terminalize-and-release"
    PROVE  /\ CoordinatorIsGone(coordinator)
           /\ r.state \notin ForcedTerminationStates
           /\ ~r.git
           /\ r.claude => claude \notin {SameProcess, Ambiguous, Unobserved}
           /\ ~r.claude => r.state = "RESERVED"
BY DEF DecideReconciliation, DecideGit, DecideClaude, DecideUnnamed, Decision,
       CoordinatorIsGone, ForcedTerminationStates

\* A release is completed only for a record that carries durable terminal proof.
LEMMA CompletesDurableProof ==
    ASSUME NEW r, NEW coordinator, NEW g, NEW claude,
           DecideReconciliation(r, coordinator, g, claude).action = "complete-terminal-release"
    PROVE  r.state \in DurableTerminalStates
BY DEF DecideReconciliation, DecideGit, DecideClaude, DecideUnnamed, Decision

\* Quiet is for good: a delegation never comes back from the phases in which it
\* spawns no child.
LEMMA QuietStays ==
    ASSUME TypeOK, NEW e \in Executions, NEW q, NEW r, Move(e, q, r), UNCHANGED child,
           pc[e] \in QuietPhases => q \in QuietPhases,
           NEW x \in Executions, Quiet(x)
    PROVE  Quiet(x)'
BY DEF TypeOK, Move, Quiet

\* A step that moves one delegation, and perhaps the record, keeps the invariant
\* when what that delegation then knows and holds is true.
LEMMA MoveStep ==
    ASSUME TypeOK, ChildInv, NEW e \in Executions, NEW q, NEW r, Move(e, q, r),
           UNCHANGED <<home, up, child>>, RecordMoves \/ RecordLeaves,
           q # "idle", q = "spawning" => slot'.state # "RESERVED",
           pc[e] \in QuietPhases => q \in QuietPhases, Local(e, q, r)
    PROVE  ChildInv'
<1>1. \A x \in Executions : Quiet(x) => Quiet(x)'
  BY QuietStays
<1>2. \A x \in Executions : /\ pc'[x] = (IF x = e THEN q ELSE pc[x])
                            /\ req'[x] = (IF x = e THEN r ELSE req[x])
  BY DEF Move, TypeOK
<1>3. ChildIsOwner'
  BY DEF ChildInv, ChildIsOwner, RecordMoves, RecordLeaves, Owned, Quiet
<1>4. RecordTruth'
  <2>1. CASE RecordMoves
    BY <1>1, <1>2, <2>1 DEF ChildInv, RecordTruth, RecordMoves
  <2>2. CASE RecordLeaves
    BY <2>2, CustodyAssumption DEF RecordTruth, RecordLeaves, NoRecord
  <2> QED
    BY <2>1, <2>2
<1>5. ASSUME NEW x \in Executions, NEW p, NEW s, Local(x, p, s),
             pc[x] \in QuietPhases => p \in QuietPhases
      PROVE  Local(x, p, s)'
  <2>1. ReleaseDecided(p, s)' = ReleaseDecided(p, s)
    BY DEF ReleaseDecided
  <2>2. p \in Preparing \union {"spawning"} => Owned(x)'
    <3>1. CASE RecordMoves
      BY <1>5, <3>1 DEF RecordMoves, Owned, Local
    <3>2. CASE RecordLeaves
      BY <1>5, <3>2 DEF RecordLeaves, Owned, Local, Quiet, QuietPhases, Preparing, NoRecord
    <3> QED
      BY <3>1, <3>2
  <2> QED
    BY <1>1, <1>5, <2>1, <2>2 DEF Local
<1>6. ASSUME NEW x \in Executions PROVE Local(x, pc[x], req[x])'
  <2>1. CASE x = e
    BY <1>2, <1>5, <2>1 DEF Local
  <2>2. CASE x # e
    <3>1. Local(x, pc[x], req[x])
      BY DEF ChildInv
    <3> QED
      BY <1>2, <1>5, <2>2, <3>1 DEF Local
  <2> QED
    BY <2>1, <2>2
<1> QED
  BY <1>3, <1>4, <1>6 DEF ChildInv

\* A delegation that ends keeps the invariant.
LEMMA FinishStep ==
    ASSUME TypeOK, ChildInv, NEW e \in Executions, NEW r \in Request, Finish(e, r),
           UNCHANGED <<home, up, child>>, RecordMoves \/ RecordLeaves,
           Local(e, "done", r)
    PROVE  ChildInv'
<1> DEFINE forgotten == [NewRequest EXCEPT !.stopped = r.stopped]
<1>1. forgotten.proof = "none" /\ forgotten.identified = FALSE
  BY DEF NewRequest
<1>2. Local(e, "done", forgotten)
  BY <1>1 DEF Local, ReleaseDecided, Releasing, Admitting, Preparing, Running
<1> QED
  BY <1>2, MoveStep DEF Finish, QuietPhases

\* What a delegation knows stays true when it ends.
LEMMA DoneLocal ==
    ASSUME ChildInv, NEW e \in Executions, home[e] \in up, pc[e] # "idle"
    PROVE  Local(e, "done", req[e])
BY DEF ChildInv, Local, ReleaseDecided, Releasing, Admitting, Preparing, Running

\* A delegation that goes round the admission loop keeps the invariant.
LEMMA RetryStep ==
    ASSUME TypeOK, ChildInv, NEW e \in Executions, Retry(e), pc[e] \in Admitting,
           home[e] \in up, UNCHANGED <<home, up, child>>, RecordMoves \/ RecordLeaves
    PROVE  ChildInv'
<1> DEFINE n == req[e].attempts + 1
           again == [NewRequest EXCEPT !.attempts = n]
<1>1. /\ again.proof = "none" /\ again.identified = FALSE
      /\ Local(e, pc[e], req[e]) /\ req[e] \in Request
  BY DEF NewRequest, ChildInv, TypeOK
<1>2. pc[e] # "idle" /\ pc[e] \notin QuietPhases
  BY DEF Admitting, QuietPhases
<1>3. Local(e, "admit", again)
  BY <1>1 DEF Local, ReleaseDecided, Releasing, Admitting, Preparing, Running
<1>4. CASE Move(e, "admit", again)
  BY <1>2, <1>3, <1>4, MoveStep
<1>5. CASE Finish(e, req[e])
  BY <1>1, <1>2, <1>5, DoneLocal, FinishStep
<1> QED
  BY <1>4, <1>5 DEF Retry

\* Admission keeps the invariant: what it decides to release is quiet.
LEMMA AdmissionChild ==
    ASSUME TypeOK, ChildInv, NEW e \in Executions, Admission(e)
    PROVE  ChildInv'
<1>l. Local(e, pc[e], req[e])
  BY DEF ChildInv
<1>t. req[e] \in Request /\ slot \in Slot
  BY DEF TypeOK
<1>0. ASSUME NEW c \in Coordinators, Submit(e, c) PROVE ChildInv'
  <2>1. pc[e] = "idle" /\ child[e] = "none" /\ UNCHANGED <<slot, up, child, req>> /\ c \in up
    BY <1>0, <1>l DEF Submit, Local, durable, processes
  <2>2. \A x \in Executions : /\ pc'[x] = (IF x = e THEN "admit" ELSE pc[x])
                              /\ home'[x] = (IF x = e THEN c ELSE home[x])
    BY <1>0 DEF Submit, TypeOK
  <2>3. \A x \in Executions : Quiet(x) => Quiet(x)'
    BY <2>1, <2>2 DEF Quiet, QuietPhases
  <2>4. ChildIsOwner' /\ RecordTruth'
    BY <2>1, <2>2, <2>3 DEF ChildInv, ChildIsOwner, Owned, RecordTruth
  <2>5. ASSUME NEW x \in Executions PROVE Local(x, pc[x], req[x])'
    <3>1. CASE x = e
      BY <1>l, <2>1, <2>2, <3>1 DEF Local, ReleaseDecided, Releasing, Admitting, Preparing, Running
    <3>2. CASE x # e
      <4>1. Local(x, pc[x], req[x]) /\ pc'[x] = pc[x] /\ req'[x] = req[x] /\ home'[x] = home[x]
        BY <2>1, <2>2, <3>2 DEF ChildInv
      <4>2. ReleaseDecided(pc[x], req[x])' = ReleaseDecided(pc[x], req[x]) /\ Owned(x)' = Owned(x)
        BY <2>1, <4>1 DEF ReleaseDecided, Owned
      <4> QED
        BY <2>1, <2>3, <4>1, <4>2 DEF Local
    <3> QED
      BY <3>1, <3>2
  <2> QED
    BY <2>4, <2>5 DEF ChildInv
<1>1. CASE Reserve(e)
  <2>1. /\ slot = NoRecord /\ slot'.exec = e /\ slot'.state = "RESERVED" /\ ~slot'.claude
        /\ UNCHANGED <<home, up, child>>
    BY <1>1 DEF Reserve, Reservation, NoRecord, manager, processes
  <2>2. PICK q \in {"reserved", "settle"}, r \in Request :
           /\ Move(e, q, r)
           /\ r.absent = req[e].absent /\ r.proof = req[e].proof
           /\ r.identified = req[e].identified
    <3> DEFINE R(k) == [req[e] EXCEPT !.known = k]
               S(k) == [req[e] EXCEPT !.known = k, !.stopped = TRUE]
    <3>1. \A k \in Nat \union {NoRevision} :
             /\ R(k) \in Request /\ R(k).absent = req[e].absent
             /\ R(k).proof = req[e].proof /\ R(k).identified = req[e].identified
      BY <1>t DEF Request
    <3>2. \A k \in Nat \union {NoRevision} :
             /\ S(k) \in Request /\ S(k).absent = req[e].absent
             /\ S(k).proof = req[e].proof /\ S(k).identified = req[e].identified
      BY <1>t DEF Request
    <3>3. CASE Move(e, "reserved", R(0))
      BY <3>1, <3>3
    <3>4. ASSUME NEW k \in {0, NoRevision}, Move(e, "settle", S(k))
          PROVE  \E q \in {"reserved", "settle"}, r \in Request :
                   /\ Move(e, q, r)
                   /\ r.absent = req[e].absent /\ r.proof = req[e].proof
                   /\ r.identified = req[e].identified
      BY <3>2, <3>4
    <3> HIDE DEF R, S
    <3> QED
      BY <1>1, <3>3, <3>4 DEF Reserve, R, S
  <2>3. /\ pc[e] = "admit" /\ child[e] = "none" /\ home[e] \in up
    BY <1>1, <1>l DEF Reserve, Turn, At, Local, Admitting
  <2>4. \A x \in Executions : /\ pc'[x] = (IF x = e THEN q ELSE pc[x])
                              /\ req'[x] = (IF x = e THEN r ELSE req[x])
    BY <2>2 DEF Move, TypeOK
  <2>5. \A x \in Executions : Quiet(x) => Quiet(x)'
    BY <2>1, <2>2, <2>3, QuietStays DEF QuietPhases
  <2>6. \A x \in Executions : slot.exec # x
    BY <2>1, CustodyAssumption DEF NoRecord
  <2>7. ChildIsOwner' /\ RecordTruth'
    BY <2>1, <2>2, <2>3, <2>4, <2>6 DEF ChildInv, ChildIsOwner, Owned, RecordTruth, TerminalStates
  <2>8. ASSUME NEW x \in Executions PROVE Local(x, pc[x], req[x])'
    <3>1. CASE x = e
      BY <2>1, <2>2, <2>3, <2>4, <3>1, <1>l DEF Local, Owned, ReleaseDecided, Releasing, Admitting, Preparing, Running
    <3>2. CASE x # e
      <4>1. Local(x, pc[x], req[x])
        BY DEF ChildInv
      <4>2. pc[x] \notin Preparing \union {"spawning"}
        BY <4>1, <2>6 DEF Local, Owned
      <4>3. ReleaseDecided(pc[x], req[x])' = ReleaseDecided(pc[x], req[x]) /\ pc'[x] = pc[x] /\ req'[x] = req[x]
        BY <2>4, <3>2 DEF ReleaseDecided
      <4> QED
        BY <2>1, <2>5, <4>1, <4>2, <4>3 DEF Local
    <3> QED
      BY <3>1, <3>2
  <2> QED
    BY <2>7, <2>8 DEF ChildInv
<1>2. CASE AdmissionFails(e)
  BY <1>2, <1>t, DoneLocal, FinishStep, RecordStays DEF AdmissionFails, Turn, At, durable, manager, processes
<1>3. CASE Observe(e)
  <2>1. PICK coordinator \in IF slot.state = "RELEASED" THEN {SameProcess}
                             ELSE Compared(home[slot.exec] \in up),
             g, claude \in MatchStatuses :
           /\ NeedsClaudeObservation(slot, coordinator)
                => claude \in Compared(child[slot.exec] = "running")
           /\ Move(e, "reconcile",
                   [req[e] EXCEPT !.snap = slot,
                                  !.decision = DecideReconciliation(slot, coordinator, g, claude)])
    BY <1>3 DEF Observe, Compared, MatchStatuses
  <2> DEFINE d == DecideReconciliation(slot, coordinator, g, claude)
             r == [req[e] EXCEPT !.snap = slot, !.decision = d]
  <2>2. r.snap = slot /\ r.decision = d /\ r.absent = req[e].absent
          /\ r.proof = req[e].proof /\ r.identified = req[e].identified
    BY <1>t DEF Request
  <2>3. ASSUME slot.exec \in Executions,
               \/ slot.state = "RELEASED"
               \/ d.action \in {"complete-terminal-release", "terminalize-and-release"}
        PROVE  Quiet(slot.exec)
    <3>1. CASE slot.state \in TerminalStates
      BY <2>3, <3>1 DEF ChildInv, RecordTruth
    <3>2. CASE slot.state \notin TerminalStates
      <4>1. d.action = "terminalize-and-release"
        BY <2>3, <3>2, CompletesDurableProof DEF TerminalStates, DurableTerminalStates
      <4>2. CoordinatorIsGone(coordinator) /\ coordinator # Unobserved
        BY <4>1, <2>1, <3>2, DecidesOnEvidence DEF Compared, TerminalStates, SameProcess, Unobserved, Ambiguous, Dead, PidReused
      <4>3. pc[slot.exec] = "dead"
        <5>1. home[slot.exec] \notin up
          BY <4>2, <2>1, <3>2 DEF CoordinatorIsGone, Compared, TerminalStates, SameProcess, Ambiguous, Dead, PidReused
        <5>2. Local(slot.exec, pc[slot.exec], req[slot.exec]) /\ pc[slot.exec] # "idle"
          BY <2>3 DEF ChildInv, RecordTruth
        <5> QED
          BY <5>1, <5>2 DEF Local
      <4>4. child[slot.exec] \in {"none", "running", "exited", "closed"}
        BY <2>3 DEF TypeOK
      <4>5. CASE slot.claude
        <5>1. NeedsClaudeObservation(slot, coordinator) /\ claude \in {Dead, PidReused}
          BY <4>1, <4>2, <4>5, <2>1, DecidesOnEvidence DEF NeedsClaudeObservation, Compared, SameProcess, Ambiguous, Dead, PidReused, Unobserved
        <5>2. child[slot.exec] # "running"
          BY <5>1, <2>1 DEF Compared, SameProcess, Ambiguous, Dead, PidReused
        <5> QED
          BY <4>3, <4>4, <5>2 DEF Quiet, QuietPhases
      <4>6. CASE ~slot.claude
        <5>1. slot.state = "RESERVED"
          BY <4>1, <4>6, DecidesOnEvidence
        <5> QED
          BY <2>3, <4>3, <5>1 DEF ChildInv, RecordTruth, Quiet, QuietPhases
      <4> QED
        BY <4>5, <4>6
    <3> QED
      BY <3>1, <3>2
  <2>4. Local(e, "reconcile", r)
    BY <1>3, <1>l, <2>2, <2>3 DEF Observe, Turn, At, Local, ReleaseDecided, Releasing, Admitting, Preparing, Running
  <2> QED
    BY <1>3, <2>1, <2>4, MoveStep, RecordStays DEF Observe, Turn, At, QuietPhases, durable, manager, processes
<1>4. CASE ReconcileChanged(e)
  BY <1>4, <1>t, DoneLocal, FinishStep, RetryStep, RecordStays
  DEF ReconcileChanged, Turn, At, Admitting, durable, manager, processes
<1>4a. CASE ReconcileArchive(e)
  <2>1. pc[e] = "reconcile" /\ home[e] \in up /\ UNCHANGED <<home, up, child>>
    BY <1>4a DEF ReconcileArchive, Turn, At, processes
  <2>2. slot.exec \in Executions /\ slot.state = "RELEASED" /\ slot' = NoRecord
    BY <1>4a, <1>t DEF ReconcileArchive, SnapshotHolds, SamePublicationAuthority, Slot, NoRecord,
       Record
  <2>3. RecordLeaves
    BY <2>2 DEF RecordLeaves, ChildInv, RecordTruth, TerminalStates
  <2> QED
    BY <1>4a, <2>1, <2>3, RetryStep DEF ReconcileArchive, Admitting
<1>5. CASE ReconcileRetain(e)
  <2>1. RecordMoves
    <3>1. CASE UNCHANGED slot
      BY <3>1, RecordStays
    <3>2. CASE slot' = Advance(slot, "ORPHANED") /\ MayAdvance(slot, "ORPHANED")
      <4>1. slot \in Record
        BY <3>2, <1>t, AdvancesRecord
      <4>2. slot'.exec = slot.exec /\ slot'.state = "ORPHANED" /\ slot'.claude = slot.claude
        BY <3>2, <4>1 DEF Advance, Record
      <4> QED
        BY <4>2, RecordAdvances DEF States, TerminalStates
    <3> QED
      BY <1>5, <3>1, <3>2 DEF ReconcileRetain
  <2> DEFINE again == [NewRequest EXCEPT !.attempts = req[e].attempts]
  <2>2. again.proof = "none" /\ again.identified = FALSE
    BY DEF NewRequest
  <2>3. Local(e, "reclaim", again)
    BY <1>5, <1>l, <2>2 DEF ReconcileRetain, Turn, At, Local, ReleaseDecided, Releasing, Admitting, Preparing, Running
  <2> QED
    BY <1>5, <1>t, <2>1, <2>3, MoveStep, DoneLocal, FinishStep
    DEF ReconcileRetain, Turn, At, QuietPhases, durable, manager, processes
<1>6. CASE ReconcileRelease(e)
  <2>1. slot.exec \in Executions => Quiet(slot.exec)
    BY <1>6, <1>l DEF ReconcileRelease, Turn, At, SnapshotHolds, SamePublicationAuthority,
       Local, ReleaseDecided, ChildInv, RecordTruth, TerminalStates
  <2>2. Local(e, "unwind", [req[e] EXCEPT !.snap = slot])
    BY <1>6, <1>l, <1>t, <2>1 DEF ReconcileRelease, Turn, At, Local, Request, Releasing, Admitting, Preparing, Running
  <2> QED
    BY <1>6, <2>2, MoveStep, RecordStays DEF ReconcileRelease, Turn, At, QuietPhases, durable, manager, processes
<1>7. CASE Reclaim(e)
  <2>1. slot.exec \in Executions => Quiet(slot.exec)
    BY <1>7 DEF Reclaim, TypeOK, ChildInv, RecordTruth, Quiet
  <2>2. Local(e, "reclaiming", [req[e] EXCEPT !.snap = slot])
    BY <1>7, <1>l, <1>t, <2>1 DEF Reclaim, At, Local, Request, Releasing, Admitting, Preparing, Running
  <2> QED
    BY <1>7, <2>2, MoveStep, RecordStays DEF Reclaim, At, QuietPhases, durable, manager, processes
<1>8. CASE ReclaimRefused(e)
  BY <1>8, <1>t, DoneLocal, FinishStep, RecordStays DEF ReclaimRefused, Turn, At, durable, manager, processes
<1>9. CASE ReclaimCommit(e)
  <2>1. Local(e, "unwind", req[e])
    BY <1>9, <1>l DEF ReclaimCommit, Turn, At, Local, ReleaseDecided, Releasing, Admitting, Preparing, Running
  <2> QED
    BY <1>9, <1>t, <2>1, MoveStep, DoneLocal, FinishStep, RecordStays
    DEF ReclaimCommit, Turn, At, QuietPhases, durable, manager, processes
<1> QED
  BY <1>0, <1>1, <1>2, <1>3, <1>4, <1>4a, <1>5, <1>6, <1>7, <1>8, <1>9 DEF
     Admission

\* Worktree preparation keeps the invariant: it runs under its own record.
LEMMA PreparationChild ==
    ASSUME TypeOK, ChildInv, NEW e \in Executions, Preparation(e)
    PROVE  ChildInv'
<1>l. Local(e, pc[e], req[e])
  BY DEF ChildInv
<1>t. req[e] \in Request /\ slot \in Slot
  BY DEF TypeOK
<1>1. CASE BeginWorktreePreparation(e)
  <2>1. slot \in Record /\ Owned(e)
    BY <1>1, OwnedRecord DEF BeginWorktreePreparation, Publish
  <2>2. RecordMoves
    <3>1. slot'.exec = slot.exec /\ slot'.state = "PREPARING_WORKTREE" /\ slot'.claude = slot.claude
      BY <1>1, <2>1 DEF BeginWorktreePreparation, Publish, Advance, Record
    <3> QED
      BY <3>1, RecordAdvances DEF States, TerminalStates
  <2>3. Local(e, "preparing", req[e])
    BY <1>1, <1>l DEF BeginWorktreePreparation, Turn, At, Local, ReleaseDecided, Releasing, Admitting, Preparing, Running
  <2> QED
    BY <1>1, <2>2, <2>3, MoveStep DEF BeginWorktreePreparation, Turn, At, QuietPhases, durable, manager, processes
<1>2. CASE SpawnGit(e)
  <2>1. Local(e, "git", req[e])
    BY <1>2, <1>l, <1>t DEF SpawnGit, Turn, At, Local, ReleaseDecided, Request, Releasing, Admitting, Preparing, Running
  <2> QED
    BY <1>2, <2>1, MoveStep, RecordStays DEF SpawnGit, Turn, At, QuietPhases, durable, manager, processes
<1>3. CASE RecordWorktreeOperation(e)
  <2>1. slot \in Record
    BY <1>3, OwnedRecord DEF RecordWorktreeOperation
  <2>2. RecordMoves
    <3>1. slot'.exec = slot.exec /\ slot'.state = slot.state /\ slot'.claude = slot.claude
            /\ slot.state = "PREPARING_WORKTREE"
      BY <1>3, <2>1 DEF RecordWorktreeOperation, Advance, Record
    <3> QED
      BY <3>1, RecordAdvances DEF States, TerminalStates
  <2>3. Move(e, pc[e], req[e])
    BY <1>3 DEF RecordWorktreeOperation, Move, TypeOK
  <2> QED
    BY <1>3, <1>l, <2>2, <2>3, MoveStep DEF RecordWorktreeOperation, Turn, At, durable, manager, processes
<1>4. CASE ClearWorktreeOperation(e)
  <2>1. slot \in Record
    BY <1>4, OwnedRecord DEF ClearWorktreeOperation
  <2>2. RecordMoves
    <3>1. slot'.exec = slot.exec /\ slot'.state = slot.state /\ slot'.claude = slot.claude
      BY <1>4, <2>1 DEF ClearWorktreeOperation, Advance, Record
    <3> QED
      BY <3>1 DEF RecordMoves, ChildInv, RecordTruth
  <2>3. Local(e, "cleared", req[e])
    BY <1>4, <1>l DEF ClearWorktreeOperation, Turn, At, Local, ReleaseDecided, Releasing, Admitting, Preparing, Running
  <2> QED
    BY <1>4, <2>2, <2>3, MoveStep DEF ClearWorktreeOperation, Turn, At, QuietPhases, durable, manager, processes
<1>5. CASE PreparationFails(e)
  <2>1. \A ambiguous \in BOOLEAN : Local(e, "settle", [req[e] EXCEPT !.ambiguous = ambiguous])
    BY <1>5, <1>l, <1>t DEF PreparationFails, At, Local, ReleaseDecided, Request, Releasing, Admitting, Preparing, Running
  <2> QED
    BY <1>5, <2>1, MoveStep, RecordStays DEF PreparationFails, At, QuietPhases, durable, manager, processes
<1>6. CASE MarkSpawning(e)
  <2>1. slot \in Record /\ Owned(e)
    BY <1>6, OwnedRecord DEF MarkSpawning, Publish
  <2>2. slot'.exec = slot.exec /\ slot'.state = "SPAWNING" /\ slot'.claude = slot.claude
    BY <1>6, <2>1 DEF MarkSpawning, Publish, Advance, Record
  <2>3. RecordMoves
    BY <2>2, RecordAdvances DEF States, TerminalStates
  <2>4. pc[e] \in {"reserved", "cleared"} /\ home[e] \in up /\ UNCHANGED <<home, up, child>>
    BY <1>6 DEF MarkSpawning, Turn, At, processes
  <2>6. CASE Move(e, "settle", [req[e] EXCEPT !.stopped = TRUE])
    <3>1. Local(e, "settle", [req[e] EXCEPT !.stopped = TRUE])
      BY <1>l, <1>t, <2>4 DEF Local, ReleaseDecided, Request, Releasing, Admitting, Preparing, Running
    <3> QED
      BY <2>3, <2>4, <2>6, <3>1, MoveStep DEF QuietPhases
  <2>7. CASE Move(e, "spawning", [req[e] EXCEPT
                    !.known = IF pc[e] = "reserved" THEN slot'.revision ELSE @])
    <3>1. Local(e, "spawning", [req[e] EXCEPT
                    !.known = IF pc[e] = "reserved" THEN slot'.revision ELSE @])
      BY <1>l, <1>t, <2>1, <2>4 DEF Local, ReleaseDecided, Request, Releasing, Admitting, Preparing, Running
    <3> QED
      BY <2>2, <2>3, <2>4, <2>7, <3>1, MoveStep DEF QuietPhases, Preparing
  <2> QED
    BY <1>6, <2>6, <2>7 DEF MarkSpawning
<1> QED
  BY <1>1, <1>2, <1>3, <1>4, <1>5, <1>6 DEF Preparation

\* The lifecycle of a child keeps the invariant: it starts under its own record.
LEMMA LifecycleChild ==
    ASSUME TypeOK, ChildInv, NEW e \in Executions, Lifecycle(e)
    PROVE  ChildInv'
<1>l. Local(e, pc[e], req[e])
  BY DEF ChildInv
<1>t. req[e] \in Request /\ slot \in Slot
  BY DEF TypeOK
<1>1. CASE SpawnChild(e)
  <2>1. pc[e] = "spawning" /\ child[e] = "none" /\ Owned(e) /\ home[e] \in up
    BY <1>1, <1>l DEF SpawnChild, At, Local
  <2>2. \A x \in Executions : child'[x] = IF x = e THEN "running" ELSE child[x]
    BY <1>1 DEF SpawnChild, TypeOK
  <2>3. \A x \in Executions : /\ pc'[x] = (IF x = e THEN "identify" ELSE pc[x])
                              /\ x # e => req'[x] = req[x]
    BY <1>1 DEF SpawnChild, Move, TypeOK
  <2>4. req'[e].absent = FALSE /\ req'[e].proof = req[e].proof
          /\ req'[e].identified = req[e].identified
    BY <1>1, <1>t DEF SpawnChild, Move, TypeOK, Request
  <2>5. \A x \in Executions : Quiet(x) => x # e /\ Quiet(x)'
    BY <2>1, <2>2, <2>3 DEF Quiet, QuietPhases
  <2>6. UNCHANGED <<slot, home, up>>
    BY <1>1 DEF SpawnChild, durable
  <2>7. ChildIsOwner' /\ RecordTruth'
    BY <2>1, <2>2, <2>3, <2>5, <2>6 DEF ChildInv, ChildIsOwner, Owned, RecordTruth
  <2>8. ASSUME NEW x \in Executions PROVE Local(x, pc[x], req[x])'
    <3>1. CASE x = e
      BY <1>l, <2>1, <2>2, <2>3, <2>4, <2>6, <3>1 DEF Local, ReleaseDecided, Releasing, Admitting, Preparing, Running
    <3>2. CASE x # e
      <4>1. Local(x, pc[x], req[x]) /\ pc'[x] = pc[x] /\ req'[x] = req[x] /\ child'[x] = child[x]
        BY <2>2, <2>3, <3>2 DEF ChildInv
      <4>2. ReleaseDecided(pc[x], req[x])' = ReleaseDecided(pc[x], req[x]) /\ Owned(x)' = Owned(x)
        BY <2>6, <4>1 DEF ReleaseDecided, Owned
      <4> QED
        BY <2>5, <2>6, <4>1, <4>2 DEF Local
    <3> QED
      BY <3>1, <3>2
  <2> QED
    BY <2>7, <2>8 DEF ChildInv
<1>2. CASE SpawnFails(e)
  <2>1. Local(e, "settle", req[e])
    BY <1>2, <1>l, <1>t DEF SpawnFails, Turn, At, Local, ReleaseDecided, Request, Releasing, Admitting, Preparing, Running
  <2> QED
    BY <1>2, <2>1, MoveStep, RecordStays DEF SpawnFails, Turn, At, QuietPhases, durable, manager, processes
<1>3. CASE Identify(e)
  <2>1. Local(e, "activate", [req[e] EXCEPT !.identified = TRUE])
    BY <1>3, <1>l, <1>t DEF Identify, Turn, At, Local, ReleaseDecided, Request, Releasing, Admitting, Preparing, Running
  <2> QED
    BY <1>3, <2>1, MoveStep, RecordStays DEF Identify, Turn, At, QuietPhases, durable, manager, processes
<1>4. CASE IdentifyFails(e)
  <2>1. Local(e, "terminate", req[e])
    BY <1>4, <1>l, <1>t DEF IdentifyFails, Turn, At, Local, ReleaseDecided, Request, Releasing, Admitting, Preparing, Running
  <2> QED
    BY <1>4, <2>1, MoveStep, RecordStays DEF IdentifyFails, Turn, At, QuietPhases, durable, manager, processes
<1>5. CASE Activate(e)
  <2>1. slot \in Record /\ Owned(e)
    BY <1>5, OwnedRecord DEF Activate, Publish
  <2>2. pc[e] = "activate" /\ home[e] \in up /\ UNCHANGED <<home, up, child>> /\ child[e] # "none"
    BY <1>5, <1>l DEF Activate, Turn, At, Local, Running, processes
  <2>3. RecordMoves
    <3>1. slot'.exec = slot.exec /\ slot'.state = "ACTIVE" /\ child[slot.exec] # "none"
      BY <1>5, <2>1, <2>2 DEF Activate, Publish, Advance, Record, Owned
    <3> QED
      BY <3>1, RecordAdvances DEF States, TerminalStates
  <2>4. \A known : \A q \in {"active", "transition"} : Local(e, q, [req[e] EXCEPT !.known = known])
    BY <1>l, <1>t, <2>2 DEF Local, ReleaseDecided, Request, Releasing, Admitting, Preparing, Running
  <2> QED
    BY <1>5, <2>2, <2>3, <2>4, MoveStep DEF Activate, QuietPhases
<1>6. CASE ActivateFails(e)
  <2>1. \A q \in {"active", "transition"} : Local(e, q, req[e])
    BY <1>6, <1>l DEF ActivateFails, At, Local, ReleaseDecided, Releasing, Admitting, Preparing, Running
  <2> QED
    BY <1>6, <2>1, MoveStep, RecordStays DEF ActivateFails, At, QuietPhases, durable, processes
<1>7. CASE ObserveClose(e)
  <2>1. Local(e, "settle", [req[e] EXCEPT !.proof = "close"])
    BY <1>7, <1>l, <1>t DEF ObserveClose, Turn, At, Local, ReleaseDecided, Request, Releasing, Admitting, Preparing, Running
  <2> QED
    BY <1>7, <2>1, MoveStep, RecordStays DEF ObserveClose, Turn, At, QuietPhases, durable, manager, processes
<1>8. CASE StopChild(e)
  <2>1. Local(e, "transition", req[e])
    BY <1>8, <1>l, <1>t DEF StopChild, Turn, At, Local, ReleaseDecided, Request, Releasing, Admitting, Preparing, Running
  <2> QED
    BY <1>8, <2>1, MoveStep, RecordStays DEF StopChild, Turn, At, QuietPhases, durable, manager, processes
<1>9. CASE BeginTermination(e)
  <2>1. slot \in Record /\ Owned(e)
    BY <1>9, OwnedRecord DEF BeginTermination, Owned
  <2>2. RecordMoves
    <3>1. CASE UNCHANGED slot
      BY <3>1, RecordStays
    <3>2. CASE Publish(e, Advance(slot, "TERMINATING"))
      <4>1. slot'.exec = slot.exec /\ slot'.state = "TERMINATING" /\ slot'.claude = slot.claude
        BY <2>1, <3>2 DEF Publish, Advance, Record
      <4> QED
        BY <4>1, RecordAdvances DEF States, TerminalStates
    <3> QED
      BY <1>9, <3>1, <3>2 DEF BeginTermination
  <2>3. \A known, inTime : Local(e, "terminate", [req[e] EXCEPT !.authorized = inTime, !.known = known])
    BY <1>9, <1>l, <1>t DEF BeginTermination, Turn, At, Local, ReleaseDecided, Request, Releasing, Admitting, Preparing, Running
  <2> QED
    BY <1>9, <2>2, <2>3, MoveStep DEF BeginTermination, Turn, At, QuietPhases, processes
<1>10. CASE TerminationUnpublished(e)
  <2>1. \A authorized : Local(e, "terminate", [req[e] EXCEPT !.authorized = authorized])
    BY <1>10, <1>l, <1>t DEF TerminationUnpublished, At, Local, ReleaseDecided, Request, Releasing, Admitting, Preparing, Running
  <2> QED
    BY <1>10, <2>1, MoveStep, RecordStays DEF TerminationUnpublished, At, QuietPhases, durable, manager, processes
<1>11. CASE LaunchHelper(e)
  <2>1. Local(e, "helper", req[e])
    BY <1>11, <1>l DEF LaunchHelper, At, Local, ReleaseDecided, Releasing, Admitting, Preparing, Running
  <2> QED
    BY <1>11, <2>1, MoveStep, RecordStays DEF LaunchHelper, At, QuietPhases, durable
<1>12. CASE TerminationSettles(e)
  <2>1. PICK proof, evidence, late :
           /\ proof # "none" => child[e] = "closed"
           /\ Move(e, "settle", [req[e] EXCEPT !.authorized = FALSE, !.proof = proof,
                                               !.evidence = evidence, !.late = late])
    BY <1>12 DEF TerminationSettles
  <2>2. Local(e, "settle", [req[e] EXCEPT !.authorized = FALSE, !.proof = proof,
                                          !.evidence = evidence, !.late = late])
    BY <1>12, <1>l, <1>t, <2>1 DEF TerminationSettles, At, Local, ReleaseDecided, Request, Releasing, Admitting, Preparing, Running
  <2> QED
    BY <1>12, <2>1, <2>2, MoveStep, RecordStays DEF TerminationSettles, At, QuietPhases, durable, manager, processes
<1> QED
  BY <1>1, <1>2, <1>3, <1>4, <1>5, <1>6, <1>7, <1>8, <1>9, <1>10, <1>11,
     <1>12 DEF Lifecycle

\* Returning custody keeps the invariant: what is archived is quiet.
LEMMA ReturnChild ==
    ASSUME TypeOK, ChildInv, NEW e \in Executions, Return(e)
    PROVE  ChildInv'
<1>l. Local(e, pc[e], req[e])
  BY DEF ChildInv
<1>t. req[e] \in Request /\ slot \in Slot
  BY DEF TypeOK
<1>1. CASE Settle(e)
  <2>1. pc[e] = "settle" /\ home[e] \in up /\ UNCHANGED <<slot, home, up, child>>
    BY <1>1 DEF Settle, Turn, At, durable, manager, processes
  <2>2. CASE Move(e, "release", [req[e] EXCEPT !.snap = slot]) /\ ReleaseAuthorized(e)
               /\ ReleaseAccepted(e)
    <3>1. slot.exec = e /\ child[e] \in {"none", "closed"}
      BY <1>l, <2>1, <2>2 DEF ReleaseAuthorized, ReleaseAccepted, Owned, Local
    <3>2. Local(e, "release", [req[e] EXCEPT !.snap = slot])
      BY <1>l, <1>t, <2>1, <3>1 DEF Local, Request, Quiet, QuietPhases, Releasing, Admitting, Preparing, Running
    <3> QED
      BY <2>1, <2>2, <3>2, MoveStep, RecordStays DEF QuietPhases
  <2>3. CASE Finish(e, req[e])
    BY <1>t, <2>1, <2>3, DoneLocal, FinishStep, RecordStays
  <2>4. CASE Move(e, "orphan", req[e])
    <3>1. Local(e, "orphan", req[e])
      BY <1>l, <2>1 DEF Local, ReleaseDecided, Releasing, Admitting, Preparing, Running
    <3> QED
      BY <2>1, <2>4, <3>1, MoveStep, RecordStays DEF QuietPhases
  <2> QED
    BY <1>1, <2>2, <2>3, <2>4 DEF Settle
<1>2. CASE MarkOrphaned(e)
  <2>1. slot \in Record /\ Owned(e)
    BY <1>2, OwnedRecord DEF MarkOrphaned, MayRetain
  <2>2. pc[e] = "orphan" /\ home[e] \in up /\ UNCHANGED <<home, up, child>> /\ Finish(e, req[e])
    BY <1>2 DEF MarkOrphaned, Turn, At, processes
  <2>3. RecordMoves
    <3>1. CASE UNCHANGED slot
      BY <3>1, RecordStays
    <3>2. CASE ~(UNCHANGED slot)
      <4>1. slot'.exec = slot.exec /\ slot'.state = "ORPHANED"
              /\ slot'.claude = (slot.claude \/ req[e].identified)
        BY <1>2, <2>1, <3>2 DEF MarkOrphaned, Publish, Advance, Record
      <4>2. slot'.claude => slot.claude \/ child[slot.exec] # "none"
        BY <1>l, <2>1, <4>1 DEF Local, Owned
      <4> QED
        BY <4>1, <4>2, RecordAdvances DEF States, TerminalStates
    <3> QED
      BY <3>1, <3>2
  <2> QED
    BY <1>t, <2>2, <2>3, DoneLocal, FinishStep
<1>3. CASE RetentionFails(e)
  BY <1>3, <1>t, DoneLocal, FinishStep, RecordStays DEF RetentionFails, Turn, At, durable, manager, processes
<1>4. CASE LateRecovery(e)
  <2>1. pc[e] = "done" /\ home[e] \in up /\ child[e] = "closed" /\ UNCHANGED <<slot, home, up, child>>
    BY <1>4 DEF LateRecovery, Turn, At, durable, manager, processes
  <2>2. CASE Owned(e) /\ Move(e, "recover", [req[e] EXCEPT !.snap = slot, !.late = FALSE])
    <3>1. Local(e, "recover", [req[e] EXCEPT !.snap = slot, !.late = FALSE])
      BY <1>l, <1>t, <2>1, <2>2 DEF Local, Owned, Request, Quiet, Releasing, Admitting, Preparing, Running
    <3> QED
      BY <2>1, <2>2, <3>1, MoveStep, RecordStays DEF QuietPhases
  <2>3. CASE Finish(e, [req[e] EXCEPT !.late = FALSE])
    <3>1. [req[e] EXCEPT !.late = FALSE] \in Request
      BY <1>t DEF Request
    <3>2. Local(e, "done", [req[e] EXCEPT !.late = FALSE])
      BY <1>l, <1>t, <2>1 DEF Local, ReleaseDecided, Request, Releasing, Admitting, Preparing, Running
    <3> QED
      BY <2>1, <2>3, <3>1, <3>2, FinishStep, RecordStays
  <2> QED
    BY <1>4, <2>2, <2>3 DEF LateRecovery
<1>5. CASE ReleaseStep(e)
  <2>1. slot \in Record /\ slot'.exec = slot.exec /\ slot'.claude = slot.claude
          /\ slot'.state \in TerminalStates
    BY <1>5, <1>t, AdvancesRecord DEF ReleaseStep, Advance, Record, NextRelease, TerminalStates
  <2>2. pc[e] \in Releasing /\ home[e] \in up /\ UNCHANGED <<home, up, child>>
          /\ req[e].snap.exec = slot.exec
    BY <1>5 DEF ReleaseStep, SnapshotHolds, SamePublicationAuthority, durable, manager, processes
  <2>3. Quiet(slot.exec)
    BY <1>l, <2>1, <2>2 DEF Local, ReleaseDecided, Record
  <2>4. RecordMoves
    BY <2>1, <2>3 DEF RecordMoves, ChildInv, RecordTruth, TerminalStates
  <2>5. Move(e, pc[e], [req[e] EXCEPT !.snap = slot'])
    BY <1>5 DEF ReleaseStep, Move, TypeOK
  <2>6. Local(e, pc[e], [req[e] EXCEPT !.snap = slot'])
    BY <1>l, <1>t, <2>1, <2>2, <2>3 DEF Local, ReleaseDecided, Request, Releasing
  <2> QED
    BY <2>2, <2>4, <2>5, <2>6, MoveStep DEF Releasing
<1>6. CASE Archive(e)
  <2>1. pc[e] \in Releasing /\ home[e] \in up /\ UNCHANGED <<home, up, child>> /\ Released(e)
    BY <1>6 DEF Archive, processes
  <2>2. RecordMoves \/ RecordLeaves
    <3>1. CASE UNCHANGED durable
      BY <3>1, RecordStays DEF durable
    <3>2. CASE SnapshotHolds(e) /\ slot' = NoRecord
      <4>1. slot.exec = req[e].snap.exec /\ slot.exec \in Executions
        BY <1>t, <3>2 DEF SnapshotHolds, SamePublicationAuthority, Slot, NoRecord, Record
      <4> QED
        BY <1>l, <2>1, <3>2, <4>1 DEF RecordLeaves, Local, ReleaseDecided
    <3> QED
      BY <1>6, <3>1, <3>2 DEF Archive
  <2>3. CASE pc[e] = "unwind"
    BY <2>1, <2>2, <2>3, RetryStep DEF Released, Admitting
  <2>4. CASE pc[e] # "unwind"
    BY <1>t, <2>1, <2>2, <2>4, DoneLocal, FinishStep DEF Released, Releasing
  <2> QED
    BY <2>3, <2>4
<1>7. CASE ReleaseFails(e)
  <2>1. pc[e] \in Releasing /\ home[e] \in up /\ UNCHANGED <<slot, home, up, child>>
    BY <1>7 DEF ReleaseFails, durable, manager, processes
  <2>2. CASE pc[e] = "release" /\ Move(e, "orphan", [req[e] EXCEPT !.snap = NoRecord])
    <3>1. Local(e, "orphan", [req[e] EXCEPT !.snap = NoRecord])
      BY <1>l, <1>t, <2>1, <2>2 DEF Local, ReleaseDecided, Request, Releasing, Admitting, Preparing, Running
    <3> QED
      BY <2>1, <2>2, <3>1, MoveStep, RecordStays DEF QuietPhases
  <2>3. CASE Finish(e, req[e])
    BY <1>t, <2>1, <2>3, DoneLocal, FinishStep, RecordStays DEF Releasing
  <2> QED
    BY <1>7, <2>2, <2>3 DEF ReleaseFails
<1> QED
  BY <1>1, <1>2, <1>3, <1>4, <1>5, <1>6, <1>7 DEF Return

\* The death of a coordinator keeps the invariant.
LEMMA CrashChild ==
    ASSUME TypeOK, ChildInv, NEW c \in Coordinators, Crash(c)
    PROVE  ChildInv'
<1>1. UNCHANGED <<slot, child, home>> /\ up' = up \ {c}
  BY DEF Crash, durable, processes
<1>2. \A x \in Executions :
         /\ pc'[x] = (IF home[x] = c THEN "dead" ELSE pc[x])
         /\ req'[x] = (IF home[x] = c THEN NewRequest ELSE req[x])
  BY DEF Crash
<1>3. \A x \in Executions : Quiet(x) => Quiet(x)'
  BY <1>1, <1>2 DEF Quiet, QuietPhases
<1>4. ChildIsOwner' /\ RecordTruth'
  BY <1>1, <1>2, <1>3 DEF ChildInv, ChildIsOwner, Owned, RecordTruth
<1>5. ASSUME NEW x \in Executions PROVE Local(x, pc[x], req[x])'
  <2>1. Local(x, pc[x], req[x])
    BY DEF ChildInv
  <2>2. CASE home[x] = c
    <3>1. NewRequest.proof = "none" /\ NewRequest.identified = FALSE
      BY DEF NewRequest
    <3> QED
      BY <1>1, <1>2, <2>1, <2>2, <3>1
      DEF Local, ReleaseDecided, Releasing, Admitting, Preparing, Running
  <2>3. CASE home[x] # c
    <3>1. pc'[x] = pc[x] /\ req'[x] = req[x] /\ Owned(x)' = Owned(x)
            /\ ReleaseDecided(pc[x], req[x])' = ReleaseDecided(pc[x], req[x])
      BY <1>1, <1>2, <2>3 DEF Owned, ReleaseDecided
    <3> QED
      BY <1>1, <1>3, <2>1, <2>3, <3>1 DEF Local
  <2> QED
    BY <2>2, <2>3
<1> QED
  BY <1>4, <1>5 DEF ChildInv

\* A stop keeps the invariant: no stopped delegation spawns.
LEMMA StopChildInv ==
    ASSUME TypeOK, ChildInv, NEW e \in Executions, RequestStops(e)
    PROVE  ChildInv'
<1> DEFINE r == [req[e] EXCEPT !.stopped = TRUE]
           late == [r EXCEPT !.late = FALSE]
<1>1. req[e] \in Request /\ Local(e, pc[e], req[e]) /\ home[e] \in up
  BY DEF TypeOK, ChildInv, RequestStops
<1>2. /\ r \in Request /\ late \in Request
      /\ r.absent = req[e].absent /\ late.absent = req[e].absent
      /\ r.proof = req[e].proof /\ late.proof = req[e].proof
      /\ r.identified = req[e].identified /\ late.identified = req[e].identified
  BY <1>1 DEF Request
<1>3. UNCHANGED <<slot, home, up, child>>
  BY DEF RequestStops, durable, processes
<1>4. CASE pc[e] # "idle" /\ (Finish(e, r) \/ Finish(e, late))
  <2>1. Local(e, "done", r) /\ Local(e, "done", late)
    BY <1>1, <1>2, <1>4 DEF Local, ReleaseDecided, Releasing, Admitting, Preparing, Running
  <2> QED
    BY <1>2, <1>3, <1>4, <2>1, FinishStep, RecordStays
<1>5. CASE pc[e] \in Preparing /\ Move(e, "settle", r)
  <2>1. Local(e, "settle", r)
    BY <1>1, <1>2, <1>5 DEF Local, ReleaseDecided, Releasing, Admitting, Preparing, Running
  <2> QED
    BY <1>3, <1>5, <2>1, MoveStep, RecordStays DEF Preparing, QuietPhases
<1>6. CASE pc[e] \in Running \union {"settle"} /\ Move(e, pc[e], r)
  <2>1. Local(e, pc[e], r)
    BY <1>1, <1>2, <1>6 DEF Local, ReleaseDecided, Releasing, Admitting, Preparing, Running
  <2>2. pc[e] = "spawning" => slot.state # "RESERVED"
    BY <1>1 DEF ChildInv, RecordTruth, Local, Owned
  <2> QED
    BY <1>3, <1>6, <2>1, <2>2, MoveStep, RecordStays DEF Running
<1> QED
  BY <1>4, <1>5, <1>6 DEF RequestStops, Admitting

\* Processes that end keep the invariant.
LEMMA EnvironmentChild ==
    ASSUME TypeOK, ChildInv, NEW e \in Executions, Environment(e)
    PROVE  ChildInv'
<1>1. UNCHANGED <<slot, up, home, pc, req>>
  BY DEF Environment, ChildEnds, HelperEnds, GitEnds, durable
<1>2. \A x \in Executions : /\ child[x] = "none" <=> child'[x] = "none"
                            /\ child[x] = "closed" => child'[x] = "closed"
                            /\ child'[x] = "running" => child[x] = "running"
  BY DEF Environment, ChildEnds, HelperEnds, GitEnds, TypeOK
<1>3. child' \in [Executions -> {"none", "running", "exited", "closed"}]
  BY EnvironmentType DEF TypeOK
<1>4. \A x \in Executions : Quiet(x) => Quiet(x)'
  BY <1>1, <1>2, <1>3 DEF Quiet
<1>5. ChildIsOwner' /\ RecordTruth'
  BY <1>1, <1>2, <1>4 DEF ChildInv, ChildIsOwner, Owned, RecordTruth
<1>6. ASSUME NEW x \in Executions PROVE Local(x, pc[x], req[x])'
  <2>1. Local(x, pc[x], req[x])
    BY DEF ChildInv
  <2>2. ReleaseDecided(pc[x], req[x])' = ReleaseDecided(pc[x], req[x]) /\ Owned(x)' = Owned(x)
    BY <1>1 DEF ReleaseDecided, Owned
  <2> QED
    BY <1>1, <1>2, <1>4, <2>1, <2>2 DEF Local
<1> QED
  BY <1>5, <1>6 DEF ChildInv

\* The strengthened invariant, for every set of executions and coordinators.
LEMMA ChildInvariant == Spec => []ChildInv
<1>1. Init => ChildInv
  BY CustodyAssumption
  DEF Init, ChildInv, ChildIsOwner, RecordTruth, Local, ReleaseDecided, NoRecord, NewRequest,
      Releasing, Admitting, Preparing, Running
<1>2. TypeOK /\ ChildInv /\ [Next]_vars => ChildInv'
  <2> SUFFICES ASSUME TypeOK, ChildInv, [Next]_vars PROVE ChildInv'
    OBVIOUS
  <2>1. CASE UNCHANGED vars
    BY <2>1 DEF vars, ChildInv, ChildIsOwner, RecordTruth, Local, ReleaseDecided, Quiet, Owned
  <2>2. ASSUME NEW e \in Executions,
               Admission(e) \/ Preparation(e) \/ Lifecycle(e) \/ Return(e)
                 \/ RequestStops(e) \/ Environment(e)
        PROVE  ChildInv'
    BY <2>2, AdmissionChild, PreparationChild, LifecycleChild, ReturnChild, StopChildInv,
       EnvironmentChild
  <2>3. ASSUME NEW c \in Coordinators, Crash(c) PROVE ChildInv'
    BY <2>3, CrashChild
  <2> QED
    BY <2>1, <2>2, <2>3 DEF Next
<1> QED
  BY <1>1, <1>2, TypeCorrect, PTL DEF Spec

\* While a Claude child runs, its execution holds the repository: whatever
\* crashes, fails, is cancelled or reconciled, with any number of executions
\* and coordinators, writes and reviews.
THEOREM ChildOwnsRepository == Spec => []ChildIsOwner
<1>1. ChildInv => ChildIsOwner
  BY DEF ChildInv
<1> QED
  BY <1>1, ChildInvariant, PTL

-----------------------------------------------------------------------------
(* Who may release a record whose forced termination began.                   *)

\* What delegation e, in phase p with request r, holds of another's record.
HomeLocal(e, p, r) ==
    /\ r.snap.exec \in Executions => pc[r.snap.exec] # "idle"
    /\ p = "reconcile" =>
         /\ r.decision.action = "terminalize-and-release"
              => r.snap.state \notin ForcedTerminationStates
         /\ r.decision.action = "complete-terminal-release"
              => r.snap.state \in DurableTerminalStates
    /\ p \in Releasing \union {"reclaiming"} /\ r.snap.state \in ForcedTerminationStates
         => home[r.snap.exec] = home[e]

HomeInv == \A e \in Executions : HomeLocal(e, pc[e], req[e])

\* A step that moves one delegation keeps the invariant when what that delegation
\* then holds is true.
LEMMA HomeMove ==
    ASSUME TypeOK, HomeInv, NEW e \in Executions, NEW q, NEW r, Move(e, q, r),
           UNCHANGED home, q # "idle", HomeLocal(e, q, r)
    PROVE  HomeInv'
<1>1. \A x \in Executions : /\ pc'[x] = (IF x = e THEN q ELSE pc[x])
                            /\ req'[x] = (IF x = e THEN r ELSE req[x])
  BY DEF Move, TypeOK
<1>2. ASSUME NEW x \in Executions PROVE HomeLocal(x, pc[x], req[x])'
  <2>1. CASE x = e
    BY <1>1, <2>1 DEF HomeLocal
  <2>2. CASE x # e
    BY <1>1, <2>2 DEF HomeInv, HomeLocal
  <2> QED
    BY <2>1, <2>2
<1> QED
  BY <1>2 DEF HomeInv

\* A move that decides no release, and keeps or drops the snapshot.
LEMMA HomeOrdinary ==
    ASSUME TypeOK, HomeInv, NEW e \in Executions, NEW q, NEW r, Move(e, q, r),
           UNCHANGED home, q \notin {"idle", "reconcile", "reclaiming"} \union Releasing,
           r.snap \in {req[e].snap, NoRecord}
    PROVE  HomeInv'
<1>1. HomeLocal(e, q, r)
  BY CustodyAssumption DEF HomeInv, HomeLocal, NoRecord
<1> QED
  BY <1>1, HomeMove

\* A delegation that ends keeps the invariant.
LEMMA HomeFinish ==
    ASSUME TypeOK, HomeInv, NEW e \in Executions, NEW r, Finish(e, r), UNCHANGED home,
           r.snap = req[e].snap
    PROVE  HomeInv'
<1>1. [NewRequest EXCEPT !.stopped = r.stopped].snap = NoRecord
  BY DEF NewRequest
<1> QED
  BY <1>1, HomeOrdinary DEF Finish, Releasing

\* A delegation that goes round the admission loop keeps the invariant.
LEMMA HomeRetry ==
    ASSUME TypeOK, HomeInv, NEW e \in Executions, Retry(e), UNCHANGED home
    PROVE  HomeInv'
<1>1. [NewRequest EXCEPT !.attempts = req[e].attempts + 1].snap = NoRecord
  BY DEF NewRequest
<1>2. ASSUME NEW r, r.snap = NoRecord, Move(e, "admit", r) PROVE HomeInv'
  BY <1>2, HomeOrdinary DEF Releasing
<1>3. CASE Finish(e, req[e])
  BY <1>3, HomeFinish
<1> QED
  BY <1>1, <1>2, <1>3 DEF Retry

\* Admission keeps the invariant: another coordinator's forced termination is
\* retained, and a reclaim is the coordinator's own.
LEMMA AdmissionHome ==
    ASSUME TypeOK, ChildInv, HomeInv, NEW e \in Executions, Admission(e)
    PROVE  HomeInv'
<1>h. HomeLocal(e, pc[e], req[e])
  BY DEF HomeInv
<1>t. req[e] \in Request /\ slot \in Slot
  BY DEF TypeOK
<1>0. ASSUME NEW c \in Coordinators, Submit(e, c) PROVE HomeInv'
  <2>1. pc[e] = "idle" /\ UNCHANGED req
    BY <1>0 DEF Submit
  <2>2. \A x \in Executions : /\ pc'[x] = (IF x = e THEN "admit" ELSE pc[x])
                              /\ x # e => home'[x] = home[x]
    BY <1>0 DEF Submit, TypeOK
  <2> QED
    <3>1. ASSUME NEW x \in Executions PROVE HomeLocal(x, pc[x], req[x])'
      <4>1. HomeLocal(x, pc[x], req[x]) /\ req[x] \in Request
        BY DEF HomeInv, TypeOK
      <4>2. req[x].snap.state \in ForcedTerminationStates => req[x].snap.exec \in Executions
        BY <4>1 DEF Request, Slot, Record, NoRecord, ForcedTerminationStates
      <4>3. CASE x = e
        BY <2>1, <2>2, <4>1, <4>3 DEF HomeLocal, Releasing
      <4>4. CASE x # e
        BY <2>1, <2>2, <4>1, <4>2, <4>4 DEF HomeLocal
      <4> QED
        BY <4>3, <4>4
    <3> QED
      BY <3>1 DEF HomeInv
<1>1. CASE Reserve(e)
  <2>1. \A k : /\ [req[e] EXCEPT !.known = k].snap = req[e].snap
               /\ [req[e] EXCEPT !.known = k, !.stopped = TRUE].snap = req[e].snap
    BY <1>t DEF Request
  <2> QED
    BY <1>1, <2>1, HomeOrdinary DEF Reserve, Releasing
<1>2. CASE AdmissionFails(e)
  BY <1>2, HomeFinish DEF AdmissionFails
<1>3. CASE Observe(e)
  <2>1. PICK coordinator, g, claude :
           Move(e, "reconcile",
                [req[e] EXCEPT !.snap = slot,
                               !.decision = DecideReconciliation(slot, coordinator, g, claude)])
    BY <1>3 DEF Observe
  <2> DEFINE d == DecideReconciliation(slot, coordinator, g, claude)
             r == [req[e] EXCEPT !.snap = slot, !.decision = d]
  <2>2. r.snap = slot /\ r.decision = d
    BY <1>t DEF Request
  <2>3. HomeLocal(e, "reconcile", r)
    BY <2>2, DecidesOnEvidence, CompletesDurableProof
    DEF HomeLocal, ChildInv, RecordTruth, Releasing
  <2> QED
    BY <1>3, <2>1, <2>3, HomeMove DEF Observe
<1>4. CASE ReconcileChanged(e)
  BY <1>4, HomeFinish, HomeRetry DEF ReconcileChanged
<1>4a. CASE ReconcileArchive(e)
  BY <1>4a, HomeRetry DEF ReconcileArchive
<1>5. CASE ReconcileRetain(e)
  <2>1. [NewRequest EXCEPT !.attempts = req[e].attempts].snap = NoRecord
    BY DEF NewRequest
  <2> QED
    BY <1>5, <2>1, HomeOrdinary, HomeFinish DEF ReconcileRetain, Releasing
<1>6. CASE ReconcileRelease(e)
  <2>1. slot.state \notin ForcedTerminationStates
    BY <1>6, <1>h DEF ReconcileRelease, Turn, At, SnapshotHolds, SamePublicationAuthority,
       HomeLocal, ForcedTerminationStates, DurableTerminalStates
  <2>2. [req[e] EXCEPT !.snap = slot].snap = slot
    BY <1>t DEF Request
  <2>3. HomeLocal(e, "unwind", [req[e] EXCEPT !.snap = slot])
    BY <2>1, <2>2 DEF HomeLocal, ChildInv, RecordTruth
  <2> QED
    BY <1>6, <2>3, HomeMove DEF ReconcileRelease
<1>7. CASE Reclaim(e)
  <2>1. home[slot.exec] = home[e]
    BY <1>7 DEF Reclaim
  <2>2. [req[e] EXCEPT !.snap = slot].snap = slot
    BY <1>t DEF Request
  <2>3. HomeLocal(e, "reclaiming", [req[e] EXCEPT !.snap = slot])
    BY <2>1, <2>2 DEF HomeLocal, ChildInv, RecordTruth
  <2> QED
    BY <1>7, <2>3, HomeMove DEF Reclaim
<1>8. CASE ReclaimRefused(e)
  BY <1>8, HomeFinish DEF ReclaimRefused
<1>9. CASE ReclaimCommit(e)
  <2>1. HomeLocal(e, "unwind", req[e])
    BY <1>9, <1>h DEF ReclaimCommit, Turn, At, HomeLocal
  <2> QED
    BY <1>9, <2>1, HomeMove, HomeFinish DEF ReclaimCommit
<1> QED
  BY <1>0, <1>1, <1>2, <1>3, <1>4, <1>4a, <1>5, <1>6, <1>7, <1>8, <1>9 DEF
     Admission

\* Worktree preparation decides no release.
LEMMA PreparationHome ==
    ASSUME TypeOK, ChildInv, HomeInv, NEW e \in Executions, Preparation(e)
    PROVE  HomeInv'
<1>h. HomeLocal(e, pc[e], req[e])
  BY DEF HomeInv
<1>t. req[e] \in Request /\ slot \in Slot
  BY DEF TypeOK
<1>1. CASE BeginWorktreePreparation(e)
  BY <1>1, HomeOrdinary DEF BeginWorktreePreparation, Releasing
<1>2. CASE SpawnGit(e)
  BY <1>2, HomeOrdinary DEF SpawnGit, Releasing
<1>3. CASE RecordWorktreeOperation(e)
  BY <1>3 DEF RecordWorktreeOperation, HomeInv, HomeLocal
<1>4. CASE ClearWorktreeOperation(e)
  BY <1>4, HomeOrdinary DEF ClearWorktreeOperation, Releasing
<1>5. CASE PreparationFails(e)
  <2>1. \A ambiguous : [req[e] EXCEPT !.ambiguous = ambiguous].snap = req[e].snap
    BY <1>t DEF Request
  <2> QED
    BY <1>5, <2>1, HomeOrdinary DEF PreparationFails, Releasing
<1>6. CASE MarkSpawning(e)
  <2>1. \A k : [req[e] EXCEPT !.known = k].snap = req[e].snap
    BY <1>t DEF Request
  <2>2. [req[e] EXCEPT !.stopped = TRUE].snap = req[e].snap
    BY <1>t DEF Request
  <2>3. \E k : \E q \in {"spawning", "settle"} : \/ Move(e, q, [req[e] EXCEPT !.known = k])
                                           \/ Move(e, q, [req[e] EXCEPT !.stopped = TRUE])
    BY <1>6 DEF MarkSpawning
  <2> QED
    BY <1>6, <2>1, <2>2, <2>3, HomeOrdinary DEF MarkSpawning, Releasing
<1> QED
  BY <1>1, <1>2, <1>3, <1>4, <1>5, <1>6 DEF Preparation

\* The lifecycle of a child decides no release.
LEMMA LifecycleHome ==
    ASSUME TypeOK, ChildInv, HomeInv, NEW e \in Executions, Lifecycle(e)
    PROVE  HomeInv'
<1>h. HomeLocal(e, pc[e], req[e])
  BY DEF HomeInv
<1>t. req[e] \in Request /\ slot \in Slot
  BY DEF TypeOK
<1>1. CASE SpawnChild(e)
  <2>1. [req[e] EXCEPT !.absent = FALSE].snap = req[e].snap
    BY <1>t DEF Request
  <2> QED
    BY <1>1, <2>1, HomeOrdinary DEF SpawnChild, Releasing
<1>2. CASE SpawnFails(e)
  BY <1>2, HomeOrdinary DEF SpawnFails, Releasing
<1>3. CASE Identify(e)
  <2>1. [req[e] EXCEPT !.identified = TRUE].snap = req[e].snap
    BY <1>t DEF Request
  <2> QED
    BY <1>3, <2>1, HomeOrdinary DEF Identify, Releasing
<1>4. CASE IdentifyFails(e)
  BY <1>4, HomeOrdinary DEF IdentifyFails, Releasing
<1>5. CASE Activate(e)
  <2>1. \A k : [req[e] EXCEPT !.known = k].snap = req[e].snap
    BY <1>t DEF Request
  <2> QED
    BY <1>5, <2>1, HomeOrdinary DEF Activate, Releasing
<1>6. CASE ActivateFails(e)
  BY <1>6, HomeOrdinary DEF ActivateFails, Releasing
<1>7. CASE ObserveClose(e)
  <2>1. [req[e] EXCEPT !.proof = "close"].snap = req[e].snap
    BY <1>t DEF Request
  <2> QED
    BY <1>7, <2>1, HomeOrdinary DEF ObserveClose, Releasing
<1>8. CASE StopChild(e)
  BY <1>8, HomeOrdinary DEF StopChild, Releasing
<1>9. CASE BeginTermination(e)
  <2>1. \A k, b : [req[e] EXCEPT !.authorized = b, !.known = k].snap = req[e].snap
    BY <1>t DEF Request
  <2> QED
    BY <1>9, <2>1, HomeOrdinary DEF BeginTermination, Releasing
<1>10. CASE TerminationUnpublished(e)
  <2>1. \A b : [req[e] EXCEPT !.authorized = b].snap = req[e].snap
    BY <1>t DEF Request
  <2> QED
    BY <1>10, <2>1, HomeOrdinary DEF TerminationUnpublished, Releasing
<1>11. CASE LaunchHelper(e)
  BY <1>11, HomeOrdinary DEF LaunchHelper, Releasing
<1>12. CASE TerminationSettles(e)
  <2>1. PICK p, v, b : Move(e, "settle", [req[e] EXCEPT !.authorized = FALSE, !.proof = p,
                                                    !.evidence = v, !.late = b])
    BY <1>12 DEF TerminationSettles
  <2>2. [req[e] EXCEPT !.authorized = FALSE, !.proof = p, !.evidence = v, !.late = b].snap
          = req[e].snap
    BY <1>t DEF Request
  <2>3. UNCHANGED home
    BY <1>12 DEF TerminationSettles
  <2>4. ASSUME NEW r, r.snap = req[e].snap, Move(e, "settle", r) PROVE HomeInv'
    BY <2>3, <2>4, HomeOrdinary DEF Releasing
  <2> QED
    BY <2>1, <2>2, <2>4
<1> QED
  BY <1>1, <1>2, <1>3, <1>4, <1>5, <1>6, <1>7, <1>8, <1>9, <1>10, <1>11,
     <1>12 DEF Lifecycle

\* Returning custody keeps the invariant: a delegation releases its own record.
LEMMA ReturnHome ==
    ASSUME TypeOK, ChildInv, HomeInv, NEW e \in Executions, Return(e)
    PROVE  HomeInv'
<1>h. HomeLocal(e, pc[e], req[e])
  BY DEF HomeInv
<1>t. req[e] \in Request /\ slot \in Slot
  BY DEF TypeOK
<1>1. CASE Settle(e)
  <2>1. UNCHANGED home
    BY <1>1 DEF Settle
  <2>2. CASE Move(e, "release", [req[e] EXCEPT !.snap = slot]) /\ ReleaseAccepted(e)
    <3>1. [req[e] EXCEPT !.snap = slot].snap = slot
      BY <1>t DEF Request
    <3>2. HomeLocal(e, "release", [req[e] EXCEPT !.snap = slot])
      BY <2>2, <3>1 DEF HomeLocal, ReleaseAccepted, Owned, ChildInv, RecordTruth
    <3> QED
      BY <2>1, <2>2, <3>2, HomeMove
  <2>3. CASE Finish(e, req[e])
    BY <2>1, <2>3, HomeFinish
  <2>4. CASE Move(e, "orphan", req[e])
    BY <2>1, <2>4, HomeOrdinary DEF Releasing
  <2> QED
    BY <1>1, <2>2, <2>3, <2>4 DEF Settle
<1>2. CASE MarkOrphaned(e)
  BY <1>2, HomeFinish DEF MarkOrphaned
<1>3. CASE RetentionFails(e)
  BY <1>3, HomeFinish DEF RetentionFails
<1>4. CASE LateRecovery(e)
  <2>1. UNCHANGED home
    BY <1>4 DEF LateRecovery
  <2>2. CASE Owned(e) /\ Move(e, "recover", [req[e] EXCEPT !.snap = slot, !.late = FALSE])
    <3>1. [req[e] EXCEPT !.snap = slot, !.late = FALSE].snap = slot
      BY <1>t DEF Request
    <3>2. HomeLocal(e, "recover", [req[e] EXCEPT !.snap = slot, !.late = FALSE])
      BY <2>2, <3>1 DEF HomeLocal, Owned, ChildInv, RecordTruth
    <3> QED
      BY <2>1, <2>2, <3>2, HomeMove
  <2>3. CASE Finish(e, [req[e] EXCEPT !.late = FALSE])
    <3>1. [req[e] EXCEPT !.late = FALSE].snap = req[e].snap
      BY <1>t DEF Request
    <3> QED
      BY <2>1, <2>3, <3>1, HomeFinish
  <2> QED
    BY <1>4, <2>2, <2>3 DEF LateRecovery
<1>5. CASE ReleaseStep(e)
  <2>1. slot'.exec = slot.exec /\ slot'.state \notin ForcedTerminationStates
    <3>1. slot \in Record
      BY <1>5, <1>t, AdvancesRecord DEF ReleaseStep
    <3> QED
      BY <1>5, <3>1 DEF ReleaseStep, Advance, Record, NextRelease, ForcedTerminationStates
  <2>2. [req[e] EXCEPT !.snap = slot'].snap = slot'
    BY <1>t DEF Request
  <2>3. Move(e, pc[e], [req[e] EXCEPT !.snap = slot'])
    BY <1>5 DEF ReleaseStep, Move, TypeOK
  <2>4. HomeLocal(e, pc[e], [req[e] EXCEPT !.snap = slot'])
    BY <1>5, <2>1, <2>2 DEF ReleaseStep, HomeLocal, Releasing, ChildInv, RecordTruth
  <2> QED
    BY <1>5, <2>3, <2>4, HomeMove DEF ReleaseStep, Releasing
<1>6. CASE Archive(e)
  BY <1>6, HomeFinish, HomeRetry DEF Archive, Released
<1>7. CASE ReleaseFails(e)
  <2>1. [req[e] EXCEPT !.snap = NoRecord].snap = NoRecord
    BY <1>t DEF Request
  <2> QED
    BY <1>7, <2>1, HomeOrdinary, HomeFinish DEF ReleaseFails, Releasing
<1> QED
  BY <1>1, <1>2, <1>3, <1>4, <1>5, <1>6, <1>7 DEF Return

\* Stops and ending processes decide no release.
LEMMA OtherHome ==
    ASSUME TypeOK, HomeInv, NEW e \in Executions, RequestStops(e) \/ Environment(e)
    PROVE  HomeInv'
<1>1. CASE RequestStops(e)
  <2> DEFINE r == [req[e] EXCEPT !.stopped = TRUE]
             late == [r EXCEPT !.late = FALSE]
  <2>1. req[e] \in Request /\ HomeLocal(e, pc[e], req[e])
    BY DEF TypeOK, HomeInv
  <2>2. r.snap = req[e].snap /\ late.snap = req[e].snap
    BY <2>1 DEF Request
  <2>3. UNCHANGED home
    BY <1>1 DEF RequestStops
  <2>4. CASE Finish(e, r) \/ Finish(e, late)
    BY <2>2, <2>3, <2>4, HomeFinish
  <2>5. CASE Move(e, "settle", r)
    BY <2>2, <2>3, <2>5, HomeOrdinary DEF Releasing
  <2>6. CASE pc[e] \in Running \union {"settle"} /\ Move(e, pc[e], r)
    BY <2>2, <2>3, <2>6, HomeOrdinary DEF Releasing, Running
  <2> QED
    BY <1>1, <2>4, <2>5, <2>6 DEF RequestStops
<1>2. CASE Environment(e)
  BY <1>2 DEF Environment, ChildEnds, HelperEnds, GitEnds, HomeInv, HomeLocal
<1> QED
  BY <1>1, <1>2

\* The death of a coordinator leaves its delegations nothing to release.
LEMMA CrashHome ==
    ASSUME TypeOK, HomeInv, NEW c \in Coordinators, Crash(c)
    PROVE  HomeInv'
<1>1. NewRequest.snap.exec = None /\ None \notin Executions
  BY CustodyAssumption DEF NewRequest, NoRecord
<1>2. UNCHANGED home
  BY DEF Crash
<1>3. \A x \in Executions :
         /\ pc'[x] = (IF home[x] = c THEN "dead" ELSE pc[x])
         /\ req'[x] = (IF home[x] = c THEN NewRequest ELSE req[x])
  BY DEF Crash
<1>4. ASSUME NEW x \in Executions PROVE HomeLocal(x, pc[x], req[x])'
  <2>1. CASE home[x] = c
    BY <1>1, <1>2, <1>3, <2>1 DEF HomeLocal, Releasing
  <2>2. CASE home[x] # c
    BY <1>2, <1>3, <2>2 DEF HomeInv, HomeLocal
  <2> QED
    BY <2>1, <2>2
<1> QED
  BY <1>4 DEF HomeInv

\* The state of a record that has advanced.
LEMMA AdvancedState ==
    ASSUME NEW r \in Record, NEW s
    PROVE  /\ Advance(r, s).state = s
           /\ \A g : [Advance(r, s) EXCEPT !.git = g].state = s
           /\ \A c : [Advance(r, s) EXCEPT !.claude = c].state = s
           /\ \A c, h : [Advance(r, s) EXCEPT !.claude = c, !.helper = h].state = s
BY DEF Advance, Record

\* Only a step of a release publishes terminal proof.
LEMMA TerminalStepIsRelease ==
    ASSUME TypeOK, Next, slot'.state = "TERMINAL_PROVEN", slot.state # "TERMINAL_PROVEN"
    PROVE  \E e \in Executions : ReleaseStep(e)
<1> SUFFICES ASSUME \A e \in Executions : ~ReleaseStep(e) PROVE FALSE
  OBVIOUS
<1>1. ASSUME NEW e \in Executions, Owned(e), NEW s, s # "TERMINAL_PROVEN",
             slot' = Advance(slot, s)
      PROVE  FALSE
  BY <1>1, OwnedRecord, AdvancedState
<1>2. ASSUME NEW e \in Executions, Admission(e) PROVE FALSE
  <2>1. CASE Reserve(e)
    BY <2>1 DEF Reserve, Reservation, NoRecord
  <2>2. CASE ReconcileRetain(e)
    BY <2>2, AdvancesRecord, AdvancedState DEF ReconcileRetain, TypeOK
  <2>3. CASE ReconcileArchive(e)
    BY <2>3 DEF ReconcileArchive, NoRecord
  <2> QED
    BY <1>2, <2>1, <2>2, <2>3 DEF Admission, Submit, AdmissionFails, Observe, ReconcileChanged,
       ReconcileRelease, Reclaim, ReclaimRefused, ReclaimCommit, durable
<1>3. ASSUME NEW e \in Executions, Preparation(e) PROVE FALSE
  <2>1. CASE RecordWorktreeOperation(e)
    BY <2>1, OwnedRecord, AdvancedState DEF RecordWorktreeOperation
  <2>2. CASE ClearWorktreeOperation(e)
    BY <2>2, OwnedRecord, AdvancedState DEF ClearWorktreeOperation
  <2> QED
    BY <1>1, <1>3, <2>1, <2>2 DEF Preparation, BeginWorktreePreparation, SpawnGit,
       PreparationFails, MarkSpawning, Publish, durable
<1>4. ASSUME NEW e \in Executions, Lifecycle(e) PROVE FALSE
  <2>1. CASE Activate(e)
    BY <2>1, OwnedRecord, AdvancedState DEF Activate, Publish
  <2>2. CASE BeginTermination(e)
    BY <1>1, <2>2 DEF BeginTermination, Publish
  <2> QED
    BY <1>4, <2>1, <2>2 DEF Lifecycle, SpawnChild, SpawnFails, Identify, IdentifyFails,
       ActivateFails, ObserveClose, StopChild, TerminationUnpublished, LaunchHelper,
       TerminationSettles, durable
<1>5. ASSUME NEW e \in Executions, Return(e) PROVE FALSE
  <2>1. CASE MarkOrphaned(e)
    <3>1. slot \in Record
      BY <2>1, OwnedRecord DEF MarkOrphaned, MayRetain
    <3>2. slot'.state = slot.state \/ slot'.state = "ORPHANED"
      BY <2>1, <3>1 DEF MarkOrphaned, Publish, Advance, Record
    <3> QED
      BY <3>2
  <2>2. CASE Archive(e)
    BY <2>2 DEF Archive, NoRecord, durable
  <2> QED
    BY <1>5, <2>1, <2>2 DEF Return, Settle, RetentionFails, LateRecovery, ReleaseFails, durable
<1> QED
  BY <1>2, <1>3, <1>4, <1>5 DEF Next, RequestStops, Environment, ChildEnds, HelperEnds,
     GitEnds, Crash, durable

\* A record whose forced termination began reaches TERMINAL_PROVEN only while the
\* coordinator that began it is alive.
THEOREM ForcedTerminationIsNotInherited == Spec => ForcedTerminationStaysHome
<1>1. Init => HomeInv
  <2>1. NewRequest.snap.exec = None /\ None \notin Executions
    BY CustodyAssumption DEF NewRequest, NoRecord
  <2> QED
    BY <2>1 DEF Init, HomeInv, HomeLocal, Releasing
<1>2. TypeOK /\ ChildInv /\ HomeInv /\ [Next]_vars => HomeInv'
  <2> SUFFICES ASSUME TypeOK, ChildInv, HomeInv, [Next]_vars PROVE HomeInv'
    OBVIOUS
  <2>1. CASE UNCHANGED vars
    BY <2>1 DEF vars, HomeInv, HomeLocal
  <2>2. ASSUME NEW e \in Executions,
               Admission(e) \/ Preparation(e) \/ Lifecycle(e) \/ Return(e)
                 \/ RequestStops(e) \/ Environment(e)
        PROVE  HomeInv'
    BY <2>2, AdmissionHome, PreparationHome, LifecycleHome, ReturnHome, OtherHome
  <2>3. ASSUME NEW c \in Coordinators, Crash(c) PROVE HomeInv'
    BY <2>3, CrashHome
  <2> QED
    BY <2>1, <2>2, <2>3 DEF Next
<1>3. TypeOK /\ HomeInv /\ [Next]_vars
        => [slot.state \in ForcedTerminationStates /\ slot'.state = "TERMINAL_PROVEN"
              => home[slot.exec] \in up]_vars
  <2> SUFFICES ASSUME TypeOK, HomeInv, Next,
                      slot.state \in ForcedTerminationStates, slot'.state = "TERMINAL_PROVEN"
               PROVE  home[slot.exec] \in up
    OBVIOUS
  <2>1. slot.state # "TERMINAL_PROVEN"
    BY DEF ForcedTerminationStates
  <2>2. PICK e \in Executions : ReleaseStep(e)
    BY <2>1, TerminalStepIsRelease
  <2> QED
    BY <2>2 DEF ReleaseStep, SnapshotHolds, SamePublicationAuthority, HomeInv, HomeLocal
<1> QED
  BY <1>1, <1>2, <1>3, TypeCorrect, ChildInvariant, PTL DEF Spec, ForcedTerminationStaysHome

-----------------------------------------------------------------------------
(* What a delegation that ended leaves in the slot.                           *)

\* States in which a record waits for whoever finishes its release.
Kept == {"ORPHANED"} \union TerminalStates

\* Delegation e in phase p with request r, while the slot holds s and the live
\* child of its coordinator is l's: it owns nothing before its reservation, and
\* from then on what its retention will need.
KeptLocal(e, p, r, s, l) ==
    /\ p \in {"idle"} \union Admitting => s.exec # e
    /\ p \in Preparing \union Running \union Settling => r.known # NoRevision \/ r.stopped
    /\ p = "activate" => r.identified
    /\ s.exec = e /\ s.state \in {"ACTIVE", "TERMINATING"} /\ p \notin {"done", "dead", "recover"}
         => r.identified /\ l = e
    /\ s.exec = e /\ p \in {"done", "recover"} /\ ~r.stopped => s.state \in Kept

KeptInv == \A e \in Executions : KeptLocal(e, pc[e], req[e], slot, live[home[e]])

\* A step of e moves the record of another only to where it is kept, and leaves
\* what its coordinator knows of its child.
OthersKeep(e) ==
    \A x \in Executions \ {e} :
       /\ home'[x] = home[x]
       /\ slot'.exec = x =>
            /\ slot.exec = x
            /\ slot'.state = slot.state \/ slot'.state \in Kept
            /\ live'[home[x]] = live[home[x]]

\* A delegation that publishes onto its own record, or nothing, disturbs no other.
LEMMA OwnerDisturbsNone ==
    ASSUME NEW e \in Executions, UNCHANGED home,
           slot'.exec = e \/ UNCHANGED <<slot, live>>
    PROVE  OthersKeep(e)
BY DEF OthersKeep

\* A step that moves one delegation keeps the invariant when what that delegation
\* then holds is enough.
LEMMA KeptMove ==
    ASSUME TypeOK, KeptInv, NEW e \in Executions, NEW q, NEW r, Move(e, q, r), OthersKeep(e),
           KeptLocal(e, q, r, slot', live'[home'[e]])
    PROVE  KeptInv'
<1>1. \A x \in Executions : /\ pc'[x] = (IF x = e THEN q ELSE pc[x])
                            /\ req'[x] = (IF x = e THEN r ELSE req[x])
  BY DEF Move, TypeOK
<1>2. ASSUME NEW x \in Executions PROVE KeptLocal(x, pc'[x], req'[x], slot', live'[home'[x]])
  <2>1. CASE x = e
    BY <1>1, <2>1
  <2>2. CASE x # e
    <3>1. KeptLocal(x, pc[x], req[x], slot, live[home[x]])
      BY DEF KeptInv
    <3> QED
      BY <1>1, <2>2, <3>1 DEF KeptLocal, OthersKeep, Kept, TerminalStates
  <2> QED
    BY <2>1, <2>2
<1> QED
  BY <1>2 DEF KeptInv

\* A delegation that ends keeps the invariant when its own record is kept.
LEMMA KeptFinish ==
    ASSUME TypeOK, KeptInv, NEW e \in Executions, NEW r, Finish(e, r), OthersKeep(e),
           slot'.exec = e /\ ~r.stopped => slot'.state \in Kept
    PROVE  KeptInv'
<1> DEFINE forgotten == [NewRequest EXCEPT !.stopped = r.stopped]
<1>1. forgotten.stopped = r.stopped
  BY DEF NewRequest
<1>2. \A s : s.stopped = r.stopped => KeptLocal(e, "done", s, slot', live'[home'[e]])
  BY DEF KeptLocal, Admitting, Preparing, Running, Settling
<1> QED
  BY <1>1, <1>2, KeptMove DEF Finish

\* So does one that goes round the admission loop: it owns nothing.
LEMMA KeptRetry ==
    ASSUME TypeOK, KeptInv, NEW e \in Executions, Retry(e), OthersKeep(e), slot'.exec # e
    PROVE  KeptInv'
<1>1. \A s : KeptLocal(e, "admit", s, slot', live'[home'[e]])
  BY DEF KeptLocal, Admitting, Preparing, Running, Settling
<1> QED
  BY <1>1, KeptMove, KeptFinish DEF Retry

\* Admission keeps the invariant: the record it moves is another's, to ORPHANED.
LEMMA AdmissionKept ==
    ASSUME TypeOK, KeptInv, NEW e \in Executions, Admission(e)
    PROVE  KeptInv'
<1>l. KeptLocal(e, pc[e], req[e], slot, live[home[e]]) /\ req[e] \in Request
  BY DEF KeptInv, TypeOK
<1>o. pc[e] \in Admitting => slot.exec # e
  BY <1>l DEF KeptLocal
<1>a. \A q \in Admitting : \A r, s, l : s.exec # e => KeptLocal(e, q, r, s, l)
  BY DEF KeptLocal, Admitting, Preparing, Running, Settling
<1>0. ASSUME NEW c \in Coordinators, Submit(e, c) PROVE KeptInv'
  <2>1. Move(e, "admit", req[e]) /\ OthersKeep(e) /\ slot'.exec # e
    BY <1>0, <1>l DEF Submit, Move, TypeOK, OthersKeep, KeptLocal, durable, manager
  <2> QED
    BY <1>a, <2>1, KeptMove DEF Admitting
<1>1. CASE Reserve(e)
  <2>1. slot'.exec = e /\ slot'.state = "RESERVED" /\ UNCHANGED home
    BY <1>1 DEF Reserve, Reservation, NoRecord
  <2>2. OthersKeep(e)
    BY <2>1, OwnerDisturbsNone
  <2>3. PICK q, r : /\ q \in {"reserved", "settle"} /\ Move(e, q, r)
                    /\ r.known # NoRevision \/ r.stopped
    <3> DEFINE R(k) == [req[e] EXCEPT !.known = k]
               S(k) == [req[e] EXCEPT !.known = k, !.stopped = TRUE]
    <3>1. R(0).known # NoRevision /\ \A k : S(k).stopped
      BY <1>l DEF Request, NoRevision
    <3>2. Move(e, "reserved", R(0)) \/ \E k \in {0, NoRevision} : Move(e, "settle", S(k))
      BY <1>1 DEF Reserve
    <3> HIDE DEF R, S
    <3> QED
      BY <3>1, <3>2
  <2>4. KeptLocal(e, q, r, slot', live'[home'[e]])
    BY <2>1, <2>3 DEF KeptLocal, Admitting
  <2> QED
    BY <2>2, <2>3, <2>4, KeptMove
<1>2. CASE ReconcileRetain(e)
  <2>1. pc[e] = "reconcile" /\ UNCHANGED <<home, live>>
    BY <1>2 DEF ReconcileRetain, Turn, At, manager
  <2>2. slot'.exec = slot.exec /\ (slot' = slot \/ slot'.state = "ORPHANED")
    <3>1. MayAdvance(slot, "ORPHANED") => slot \in Record
      BY AdvancesRecord DEF TypeOK
    <3> QED
      BY <1>2, <3>1 DEF ReconcileRetain, Advance, Record
  <2>3. OthersKeep(e) /\ slot'.exec # e
    BY <1>o, <2>1, <2>2 DEF OthersKeep, Kept, Admitting
  <2> QED
    BY <1>2, <1>a, <2>3, KeptMove, KeptFinish DEF ReconcileRetain, Admitting
<1>2a. CASE ReconcileArchive(e)
  <2>1. slot' = NoRecord /\ UNCHANGED home
    BY <1>2a DEF ReconcileArchive
  <2>2. \A x \in Executions : slot'.exec # x
    BY <2>1, CustodyAssumption DEF NoRecord
  <2>3. OthersKeep(e) /\ slot'.exec # e
    BY <2>1, <2>2 DEF OthersKeep
  <2> QED
    BY <1>2a, <2>3, KeptRetry DEF ReconcileArchive
<1>3. CASE ~(Reserve(e) \/ ReconcileRetain(e) \/ ReconcileArchive(e)) /\ ~(\E c \in Coordinators : Submit(e, c))
  <2>1. pc[e] \in Admitting /\ UNCHANGED <<slot, live, home>>
    BY <1>3 DEF Admission, AdmissionFails, Observe, ReconcileChanged, ReconcileRelease,
       Reclaim, ReclaimRefused, ReclaimCommit, Turn, At, Admitting, durable, manager
  <2>2. OthersKeep(e) /\ slot'.exec # e
    BY <1>o, <2>1, OwnerDisturbsNone
  <2>3. \/ \E q \in Admitting : \E r : Move(e, q, r)
        \/ \E r : Finish(e, r)
        \/ Retry(e)
    BY <1>3 DEF Admission, AdmissionFails, Observe, ReconcileChanged, ReconcileRelease,
       Reclaim, ReclaimRefused, ReclaimCommit, Admitting
  <2> QED
    BY <1>a, <2>2, <2>3, KeptMove, KeptFinish, KeptRetry
<1> QED
  BY <1>0, <1>1, <1>2, <1>2a, <1>3

\* Worktree preparation keeps the invariant: its owner still holds the revision of
\* its reservation, and no child is active.
LEMMA PreparationKept ==
    ASSUME TypeOK, ChildInv, KeptInv, NEW e \in Executions, Preparation(e)
    PROVE  KeptInv'
<1>l. KeptLocal(e, pc[e], req[e], slot, live[home[e]]) /\ req[e] \in Request
  BY DEF KeptInv, TypeOK
<1>r. Owned(e) => slot \in Record
  BY OwnedRecord
<1>1. CASE BeginWorktreePreparation(e)
  <2>1. pc[e] = "reserved" /\ slot'.exec = e /\ slot'.state = "PREPARING_WORKTREE"
          /\ UNCHANGED home
    BY <1>1, <1>r DEF BeginWorktreePreparation, Publish, Advance, Record, Turn, At, Owned
  <2>2. KeptLocal(e, "preparing", req[e], slot', live'[home'[e]])
    BY <1>l, <2>1 DEF KeptLocal, Admitting, Preparing, Running
  <2> QED
    BY <1>1, <2>1, <2>2, KeptMove, OwnerDisturbsNone DEF BeginWorktreePreparation
<1>2. CASE SpawnGit(e)
  <2>1. pc[e] = "preparing" /\ UNCHANGED <<slot, live, home>>
    BY <1>2 DEF SpawnGit, At, durable, manager
  <2>2. KeptLocal(e, "git", req[e], slot', live'[home'[e]])
    BY <1>l, <2>1 DEF KeptLocal, Admitting, Preparing, Running
  <2> QED
    BY <1>2, <2>1, <2>2, KeptMove, OwnerDisturbsNone DEF SpawnGit
<1>3. CASE RecordWorktreeOperation(e)
  <2>1. slot'.exec = e /\ slot'.state = slot.state /\ slot.exec = e
          /\ UNCHANGED <<live, home, pc, req>>
    BY <1>3, <1>r DEF RecordWorktreeOperation, Advance, Record, Owned, manager
  <2>2. KeptLocal(e, pc[e], req[e], slot', live'[home'[e]])
    BY <1>l, <2>1 DEF KeptLocal
  <2>3. Move(e, pc[e], req[e])
    BY <2>1 DEF Move, TypeOK
  <2> QED
    BY <2>1, <2>2, <2>3, KeptMove, OwnerDisturbsNone
<1>4. CASE ClearWorktreeOperation(e)
  <2>1. pc[e] = "git" /\ slot'.exec = e /\ slot'.state = slot.state /\ slot.exec = e
          /\ UNCHANGED <<live, home>>
    BY <1>4, <1>r DEF ClearWorktreeOperation, Advance, Record, Owned, Turn, At, manager
  <2>2. KeptLocal(e, "cleared", req[e], slot', live'[home'[e]])
    BY <1>l, <2>1 DEF KeptLocal, Admitting, Preparing, Running
  <2> QED
    BY <1>4, <2>1, <2>2, KeptMove, OwnerDisturbsNone DEF ClearWorktreeOperation
<1>5. CASE PreparationFails(e)
  <2>1. pc[e] \in Preparing /\ UNCHANGED <<slot, live, home>>
    BY <1>5 DEF PreparationFails, At, durable, manager
  <2>2. PICK b \in BOOLEAN : Move(e, "settle", [req[e] EXCEPT !.ambiguous = b])
    BY <1>5 DEF PreparationFails
  <2>3. KeptLocal(e, "settle", [req[e] EXCEPT !.ambiguous = b], slot', live'[home'[e]])
    BY <1>l, <2>1 DEF KeptLocal, Request, Admitting, Preparing, Running
  <2> QED
    BY <2>1, <2>2, <2>3, KeptMove, OwnerDisturbsNone
<1>6. CASE MarkSpawning(e)
  <2>1. pc[e] \in Preparing /\ slot'.exec = e /\ slot'.state = "SPAWNING"
          /\ slot'.revision \in Nat /\ UNCHANGED home
    BY <1>6, <1>r DEF MarkSpawning, Publish, Advance, Record, Turn, At, Owned, Preparing
  <2>2. PICK q, r : /\ q \in {"spawning", "settle"} /\ Move(e, q, r)
                    /\ r.known # NoRevision \/ r.stopped
    <3> DEFINE k == IF pc[e] = "reserved" THEN slot'.revision ELSE req[e].known
               R == [req[e] EXCEPT !.known = k]
               S == [req[e] EXCEPT !.stopped = TRUE]
    <3>1. R.known = k /\ R.stopped = req[e].stopped /\ S.stopped
      BY <1>l DEF Request
    <3>2. k # NoRevision \/ req[e].stopped
      BY <1>l, <2>1 DEF KeptLocal, NoRevision
    <3>3. R = [req[e] EXCEPT !.known = IF pc[e] = "reserved" THEN slot'.revision ELSE @]
      OBVIOUS
    <3>4. Move(e, "spawning", R) \/ Move(e, "settle", S)
      BY <1>6, <3>3 DEF MarkSpawning
    <3> HIDE DEF R, S
    <3> QED
      BY <3>1, <3>2, <3>4
  <2>3. KeptLocal(e, q, r, slot', live'[home'[e]])
    BY <2>1, <2>2 DEF KeptLocal, Admitting
  <2> QED
    BY <2>1, <2>2, <2>3, KeptMove, OwnerDisturbsNone
<1> QED
  BY <1>1, <1>2, <1>3, <1>4, <1>5, <1>6 DEF Preparation

\* The life of a child keeps the invariant: its record is ACTIVE only once its
\* coordinator knows the child, and knows it as live.
LEMMA LifecycleKept ==
    ASSUME TypeOK, ChildInv, KeptInv, NEW e \in Executions, Lifecycle(e)
    PROVE  KeptInv'
<1>l. KeptLocal(e, pc[e], req[e], slot, live[home[e]]) /\ req[e] \in Request
  BY DEF KeptInv, TypeOK
<1>r. Owned(e) => slot \in Record
  BY OwnedRecord
<1>h. pc[e] # "idle" => home[e] \in Coordinators
  BY DEF ChildInv, Local
<1>1. CASE Activate(e)
  <2>1. /\ pc[e] = "activate" /\ slot'.exec = e /\ slot'.revision \in Nat /\ UNCHANGED home
        /\ live'[home[e]] = e /\ req[e].identified
    BY <1>1, <1>r, <1>h, <1>l DEF Activate, Publish, Advance, Record, Turn, At, Owned, TypeOK,
       KeptLocal
  <2>2. PICK q, r : /\ q \in {"active", "transition"} /\ Move(e, q, r) /\ r.identified
                    /\ r.known # NoRevision \/ r.stopped
    <3> DEFINE R(k) == [req[e] EXCEPT !.known = k]
    <3>1. \A k : R(k).known = k /\ R(k).stopped = req[e].stopped /\ R(k).identified
      BY <1>l, <2>1 DEF Request
    <3>2. \A k \in {slot'.revision, req[e].known} : k # NoRevision \/ req[e].stopped
      BY <1>l, <2>1 DEF KeptLocal, Running, NoRevision
    <3>3. \/ Move(e, "active", R(slot'.revision))
          \/ \E k \in {slot'.revision, req[e].known} : Move(e, "transition", R(k))
      BY <1>1 DEF Activate
    <3> HIDE DEF R
    <3> QED
      BY <3>1, <3>2, <3>3
  <2>3. KeptLocal(e, q, r, slot', live'[home'[e]])
    BY <2>1, <2>2 DEF KeptLocal, Admitting
  <2> QED
    BY <2>1, <2>2, <2>3, KeptMove, OwnerDisturbsNone
<1>2. CASE ActivateFails(e)
  <2>1. /\ pc[e] = "activate" /\ UNCHANGED <<slot, home>>
        /\ live' = [live EXCEPT ![home[e]] = IF slot.exec = e THEN e ELSE @] \/ UNCHANGED live
    BY <1>2 DEF ActivateFails, At, durable, Owned
  <2>2. /\ live'[home[e]] \in {live[home[e]], e}
        /\ slot.exec # e => UNCHANGED live
    BY <2>1, <1>h DEF TypeOK
  <2>3. PICK q \in {"active", "transition"} : Move(e, q, req[e])
    BY <1>2 DEF ActivateFails
  <2>4. KeptLocal(e, q, req[e], slot', live'[home'[e]])
    BY <1>l, <2>1, <2>2 DEF KeptLocal, Admitting, Preparing, Running
  <2> QED
    BY <2>1, <2>2, <2>3, <2>4, KeptMove, OwnerDisturbsNone
<1>3. CASE BeginTermination(e)
  <2>1. /\ pc[e] = "transition" /\ slot'.exec = e /\ slot'.revision \in Nat
        /\ slot.exec = e /\ slot.state \in {"ACTIVE", "TERMINATING"} /\ UNCHANGED <<home, live>>
    <3>1. pc[e] = "transition" /\ slot.exec = e /\ slot \in Record /\ UNCHANGED <<home, live>>
      BY <1>3, <1>r DEF BeginTermination, Turn, At, Owned, manager
    <3>2. \/ slot.state = "TERMINATING" /\ UNCHANGED slot
          \/ slot.state = "ACTIVE" /\ slot' = Advance(slot, "TERMINATING")
      BY <1>3 DEF BeginTermination, Publish
    <3>3. slot'.exec = slot.exec /\ slot'.revision \in Nat
      <4>1. CASE slot' = slot
        BY <3>1, <4>1 DEF Record
      <4>2. CASE slot' = Advance(slot, "TERMINATING")
        BY <3>1, <4>2 DEF Advance, Record
      <4> QED
        BY <3>2, <4>1, <4>2
    <3> QED
      BY <3>1, <3>2, <3>3
  <2>2. req[e].identified /\ live[home[e]] = e
    BY <1>l, <2>1 DEF KeptLocal
  <2>3. PICK r : /\ Move(e, "terminate", r) /\ r.identified
                 /\ r.known # NoRevision \/ r.stopped
    <3> DEFINE R(b, k) == [req[e] EXCEPT !.authorized = b, !.known = k]
    <3>1. \A b, k : R(b, k).known = k /\ R(b, k).stopped = req[e].stopped /\ R(b, k).identified
      BY <1>l, <2>2 DEF Request
    <3>2. \A k \in {slot'.revision, req[e].known} : k # NoRevision \/ req[e].stopped
      BY <1>l, <2>1 DEF KeptLocal, Running, NoRevision
    <3>3. \E b \in BOOLEAN, k \in {slot'.revision, req[e].known} : Move(e, "terminate", R(b, k))
      BY <1>3 DEF BeginTermination
    <3> HIDE DEF R
    <3> QED
      BY <3>1, <3>2, <3>3
  <2>4. KeptLocal(e, "terminate", r, slot', live'[home'[e]])
    BY <2>1, <2>2, <2>3 DEF KeptLocal, Admitting
  <2> QED
    BY <2>1, <2>3, <2>4, KeptMove, OwnerDisturbsNone
<1>4. CASE ~Activate(e) /\ ~ActivateFails(e) /\ ~BeginTermination(e)
  <2>1. pc[e] \in Running /\ UNCHANGED <<slot, live, home>>
    BY <1>4 DEF Lifecycle, SpawnChild, SpawnFails, Identify, IdentifyFails, ObserveClose,
       StopChild, TerminationUnpublished, LaunchHelper, TerminationSettles, At, Running,
       durable, manager
  <2>2. PICK q \in (Running \ {"activate"}) \union {"activate", "settle"} : \E r :
           /\ Move(e, q, r)
           /\ r.known = req[e].known /\ r.stopped = req[e].stopped
           /\ req[e].identified \/ q = "activate" => r.identified
    <3>1. CASE SpawnChild(e)
      <4>1. Move(e, "identify", [req[e] EXCEPT !.absent = FALSE])
        BY <3>1 DEF SpawnChild
      <4> QED
        BY <1>l, <4>1 DEF Running, Request
    <3>2. CASE Identify(e)
      <4>1. Move(e, "activate", [req[e] EXCEPT !.identified = TRUE])
        BY <3>2 DEF Identify
      <4> QED
        BY <1>l, <4>1 DEF Running, Request
    <3>3. CASE ObserveClose(e)
      <4>1. Move(e, "settle", [req[e] EXCEPT !.proof = "close"])
        BY <3>3 DEF ObserveClose
      <4> QED
        BY <1>l, <4>1 DEF Running, Request
    <3>4. CASE TerminationUnpublished(e)
      <4>1. PICK b \in BOOLEAN : Move(e, "terminate", [req[e] EXCEPT !.authorized = b])
        BY <3>4 DEF TerminationUnpublished
      <4> QED
        BY <1>l, <4>1 DEF Running, Request
    <3>5. CASE TerminationSettles(e)
      <4>1. PICK proof, evidence, late :
               Move(e, "settle", [req[e] EXCEPT !.authorized = FALSE, !.proof = proof,
                                                !.evidence = evidence, !.late = late])
        BY <3>5 DEF TerminationSettles
      <4> DEFINE r == [req[e] EXCEPT !.authorized = FALSE, !.proof = proof,
                                     !.evidence = evidence, !.late = late]
      <4>2. /\ r.known = req[e].known /\ r.stopped = req[e].stopped
            /\ r.identified = req[e].identified
        BY <1>l DEF Request
      <4>3. Move(e, "settle", r)
        BY <4>1
      <4> HIDE DEF r
      <4> QED
        BY <4>2, <4>3
    <3>6. CASE SpawnFails(e) \/ IdentifyFails(e) \/ StopChild(e) \/ LaunchHelper(e)
      BY <3>6 DEF SpawnFails, IdentifyFails, StopChild, LaunchHelper, Running
    <3> QED
      BY <1>4, <3>1, <3>2, <3>3, <3>4, <3>5, <3>6 DEF Lifecycle
  <2>3. PICK r : /\ Move(e, q, r)
                 /\ r.known = req[e].known /\ r.stopped = req[e].stopped
                 /\ req[e].identified \/ q = "activate" => r.identified
    BY <2>2
  <2>4. KeptLocal(e, q, r, slot', live'[home'[e]])
    BY <1>l, <2>1, <2>3 DEF KeptLocal, Admitting, Preparing, Running, Settling
  <2> QED
    BY <2>1, <2>3, <2>4, KeptMove, OwnerDisturbsNone
<1> QED
  BY <1>1, <1>2, <1>3, <1>4

\* Returning custody keeps the invariant: a delegation that does not release its
\* record retains it, and a record it cannot retain already says more.
LEMMA ReturnKept ==
    ASSUME TypeOK, ChildInv, KeptInv, ~HostFaults, NEW e \in Executions, Return(e)
    PROVE  KeptInv'
<1>l. KeptLocal(e, pc[e], req[e], slot, live[home[e]]) /\ req[e] \in Request /\ slot \in Slot
  BY DEF KeptInv, TypeOK
<1>r. Owned(e) => slot \in Record
  BY OwnedRecord
<1>h. pc[e] # "idle" => home[e] \in Coordinators
  BY DEF ChildInv, Local
<1>1. CASE Settle(e)
  <2>1. pc[e] = "settle" /\ UNCHANGED <<slot, home>>
    BY <1>1 DEF Settle, Turn, At, durable
  <2>2. /\ live'[home[e]] \in {live[home[e]], e}
        /\ slot.exec # e => UNCHANGED live
    BY <1>1, <1>h, <2>1 DEF Settle, ReleaseAccepted, Owned, TypeOK
  <2>3. OthersKeep(e)
    BY <2>1, <2>2, OwnerDisturbsNone
  <2>4. CASE Finish(e, req[e]) /\ (req[e].known = NoRevision \/ req[e].stopped)
    <3>1. req[e].stopped
      BY <1>l, <2>1, <2>4 DEF KeptLocal, Settling
    <3> QED
      BY <2>3, <2>4, <3>1, KeptFinish
  <2>5. CASE Move(e, "release", [req[e] EXCEPT !.snap = slot])
    <3>1. KeptLocal(e, "release", [req[e] EXCEPT !.snap = slot], slot', live'[home'[e]])
      BY <1>l, <2>1, <2>2 DEF KeptLocal, Request, Admitting, Preparing, Running, Settling
    <3> QED
      BY <2>3, <2>5, <3>1, KeptMove
  <2>6. CASE Move(e, "orphan", req[e])
    <3>1. KeptLocal(e, "orphan", req[e], slot', live'[home'[e]])
      BY <1>l, <2>1, <2>2 DEF KeptLocal, Admitting, Preparing, Running, Settling
    <3> QED
      BY <2>3, <2>6, <3>1, KeptMove
  <2> QED
    BY <1>1, <2>4, <2>5, <2>6 DEF Settle
<1>2. CASE MarkOrphaned(e)
  <2>1. slot'.exec = e /\ slot'.state = "ORPHANED" /\ Finish(e, req[e]) /\ UNCHANGED home
    BY <1>2, <1>r DEF MarkOrphaned, MayRetain, Publish, Advance, Record, Owned
  <2> QED
    BY <2>1, KeptFinish, OwnerDisturbsNone DEF Kept
<1>3. CASE RetentionFails(e)
  <2>1. /\ pc[e] = "orphan" /\ ~MayRetain(e) /\ Finish(e, req[e])
        /\ UNCHANGED <<slot, live, home>>
    BY <1>3 DEF RetentionFails, Turn, At, durable, manager
  <2>2. ASSUME slot.exec = e, ~req[e].stopped PROVE slot.state \in Kept
    <3>1. slot.state \in {"ACTIVE", "TERMINATING"} => req[e].identified /\ live[home[e]] = e
      BY <1>l, <2>1, <2>2 DEF KeptLocal
    <3>2. slot \in Record /\ ~MayAdvance(slot, "ORPHANED")
      BY <1>r, <2>1, <2>2, <3>1 DEF MayRetain, Owned
    <3> QED
      BY <3>2 DEF MayAdvance, TRANSITIONS, Record, States, Kept, TerminalStates
  <2> QED
    BY <2>1, <2>2, KeptFinish, OwnerDisturbsNone
<1>4. CASE LateRecovery(e)
  <2>1. pc[e] = "done" /\ ~req[e].stopped /\ UNCHANGED <<slot, live, home>>
    BY <1>4 DEF LateRecovery, Turn, At, durable, manager
  <2>2. slot.exec = e => slot.state \in Kept
    BY <1>l, <2>1 DEF KeptLocal
  <2>3. KeptLocal(e, "recover", [req[e] EXCEPT !.snap = slot, !.late = FALSE],
                  slot', live'[home'[e]])
    BY <2>1, <2>2 DEF KeptLocal, Admitting, Preparing, Running, Settling
  <2> QED
    BY <1>4, <2>1, <2>2, <2>3, KeptMove, KeptFinish, OwnerDisturbsNone DEF LateRecovery
<1>5. CASE ReleaseStep(e)
  <2>1. /\ pc[e] \in Releasing /\ slot'.exec = slot.exec /\ slot'.state \in TerminalStates
        /\ UNCHANGED <<live, home>>
    BY <1>5, <1>l, AdvancesRecord DEF ReleaseStep, Advance, Record, NextRelease,
       TerminalStates, manager
  <2>2. OthersKeep(e)
    BY <2>1 DEF OthersKeep, Kept
  <2>3. Move(e, pc[e], [req[e] EXCEPT !.snap = slot'])
    BY <1>5 DEF ReleaseStep, Move, TypeOK
  <2>4. KeptLocal(e, pc[e], [req[e] EXCEPT !.snap = slot'], slot', live'[home'[e]])
    BY <1>l, <2>1 DEF KeptLocal, Request, Releasing, Admitting, Preparing, Running, Settling,
       Kept, TerminalStates
  <2> QED
    BY <2>2, <2>3, <2>4, KeptMove
<1>6. CASE Archive(e)
  <2>1. Released(e) /\ UNCHANGED home /\ pc[e] \in Releasing
    BY <1>6 DEF Archive
  <2>2. slot'.exec = None
    BY <1>6 DEF Archive, ArchivedAlready, durable, NoRecord
  <2>3. OthersKeep(e) /\ slot'.exec # e
    BY <2>1, <2>2, CustodyAssumption DEF OthersKeep
  <2> QED
    BY <2>1, <2>3, KeptRetry, KeptFinish DEF Released
<1>7. CASE ReleaseFails(e)
  <2>1. pc[e] \in Releasing /\ UNCHANGED <<slot, live, home>>
    BY <1>7 DEF ReleaseFails, durable, manager
  <2>2. OthersKeep(e)
    BY <2>1, OwnerDisturbsNone
  <2>3. CASE pc[e] = "release" /\ Move(e, "orphan", [req[e] EXCEPT !.snap = NoRecord])
    <3>1. KeptLocal(e, "orphan", [req[e] EXCEPT !.snap = NoRecord], slot', live'[home'[e]])
      BY <1>l, <2>1, <2>3 DEF KeptLocal, Request, Admitting, Preparing, Running, Settling
    <3> QED
      BY <2>2, <2>3, <3>1, KeptMove
  <2>4. CASE Finish(e, req[e]) /\ (pc[e] = "release" => req[e].stopped)
    <3>1. slot.exec = e /\ ~req[e].stopped => slot.state \in Kept
      BY <1>l, <2>1, <2>4 DEF KeptLocal, Releasing, Admitting
    <3> QED
      BY <2>1, <2>2, <2>4, <3>1, KeptFinish
  <2> QED
    BY <1>7, <2>3, <2>4 DEF ReleaseFails
<1> QED
  BY <1>1, <1>2, <1>3, <1>4, <1>5, <1>6, <1>7 DEF Return

\* A stop keeps the invariant: a stopped delegation owes nothing.
LEMMA StopKept ==
    ASSUME TypeOK, KeptInv, NEW e \in Executions, RequestStops(e)
    PROVE  KeptInv'
<1> DEFINE r == [req[e] EXCEPT !.stopped = TRUE]
           late == [r EXCEPT !.late = FALSE]
<1>l. KeptLocal(e, pc[e], req[e], slot, live[home[e]]) /\ req[e] \in Request
  BY DEF KeptInv, TypeOK
<1>1. r.stopped /\ late.stopped /\ r.identified = req[e].identified
  BY <1>l DEF Request
<1>2. UNCHANGED <<slot, live, home>>
  BY DEF RequestStops, durable, manager
<1>3. OthersKeep(e)
  BY <1>2, OwnerDisturbsNone
<1>4. CASE Finish(e, r) \/ Finish(e, late)
  BY <1>1, <1>3, <1>4, KeptFinish
<1>5. CASE \/ pc[e] \in Preparing /\ Move(e, "settle", r)
           \/ pc[e] \in Running \union {"settle"} /\ Move(e, pc[e], r)
  <2>1. PICK q \in {"settle", pc[e]} : Move(e, q, r) /\ pc[e] \in Preparing \union Running \union {"settle"}
    BY <1>5
  <2>2. KeptLocal(e, q, r, slot', live'[home'[e]])
    BY <1>l, <1>1, <1>2, <2>1 DEF KeptLocal, Admitting, Preparing, Running
  <2> QED
    BY <1>3, <2>1, <2>2, KeptMove
<1> QED
  BY <1>4, <1>5 DEF RequestStops

\* A crash keeps the invariant: the dead owe nothing.
LEMMA CrashKept ==
    ASSUME TypeOK, ChildInv, KeptInv, NEW c \in Coordinators, Crash(c)
    PROVE  KeptInv'
<1>1. ASSUME NEW x \in Executions PROVE KeptLocal(x, pc'[x], req'[x], slot', live'[home'[x]])
  <2>1. KeptLocal(x, pc[x], req[x], slot, live[home[x]]) /\ UNCHANGED <<slot, home>>
    BY DEF KeptInv, Crash, durable
  <2>2. CASE home[x] = c
    <3>1. pc'[x] = "dead"
      BY <2>2 DEF Crash
    <3> QED
      BY <3>1 DEF KeptLocal, Admitting, Preparing, Running, Settling
  <2>3. CASE home[x] # c /\ pc[x] # "idle"
    <3>1. pc'[x] = pc[x] /\ req'[x] = req[x] /\ home[x] \in Coordinators
      BY <2>3 DEF Crash, ChildInv, Local
    <3>2. live'[home[x]] = live[home[x]]
      BY <2>3, <3>1 DEF Crash, ForgetRepository, TypeOK
    <3> QED
      BY <2>1, <3>1, <3>2
  <2>4. CASE home[x] # c /\ pc[x] = "idle"
    <3>1. pc'[x] = "idle" /\ slot'.exec # x
      BY <2>1, <2>4 DEF Crash, KeptLocal
    <3> QED
      BY <3>1 DEF KeptLocal, Preparing, Running, Settling
  <2> QED
    BY <2>2, <2>3, <2>4
<1> QED
  BY <1>1 DEF KeptInv

\* The strengthened invariant, for every set of executions and coordinators.
LEMMA KeptInvariant ==
    ASSUME ~HostFaults
    PROVE  Spec => []KeptInv
<1>1. Init => KeptInv
  <2> SUFFICES ASSUME Init, NEW e \in Executions
               PROVE  KeptLocal(e, pc[e], req[e], slot, live[home[e]])
    BY DEF KeptInv
  <2>1. slot.exec # e /\ pc[e] = "idle"
    BY CustodyAssumption DEF Init, NoRecord
  <2> QED
    BY <2>1 DEF KeptLocal, Preparing, Running, Settling
<1>2. TypeOK /\ ChildInv /\ KeptInv /\ [Next]_vars => KeptInv'
  <2> SUFFICES ASSUME TypeOK, ChildInv, KeptInv, [Next]_vars PROVE KeptInv'
    OBVIOUS
  <2>1. CASE UNCHANGED vars
    BY <2>1 DEF vars, KeptInv
  <2>2. ASSUME NEW e \in Executions,
               Admission(e) \/ Preparation(e) \/ Lifecycle(e) \/ Return(e) \/ RequestStops(e)
        PROVE  KeptInv'
    BY <2>2, AdmissionKept, PreparationKept, LifecycleKept, ReturnKept, StopKept
  <2>3. ASSUME NEW e \in Executions, Environment(e) PROVE KeptInv'
    BY <2>3 DEF Environment, ChildEnds, HelperEnds, GitEnds, durable, manager, KeptInv
  <2>4. ASSUME NEW c \in Coordinators, Crash(c) PROVE KeptInv'
    BY <2>4, CrashKept
  <2> QED
    BY <2>1, <2>2, <2>3, <2>4 DEF Next
<1> QED
  BY <1>1, <1>2, TypeCorrect, ChildInvariant, PTL DEF Spec

\* While the host does not fail a publication, a delegation that ended without
\* being stopped left its record, if it still holds it, retained or on its way
\* out: whatever settlement could not release, it retained.
THEOREM NothingLeftUnderWay ==
    ASSUME ~HostFaults
    PROVE  Spec => []NothingAbandoned
<1>1. KeptInv => NothingAbandoned
  BY DEF KeptInv, KeptLocal, NothingAbandoned, Owned, Kept, TerminalStates, DurableTerminalStates
<1> QED
  BY <1>1, KeptInvariant, PTL
=============================================================================
