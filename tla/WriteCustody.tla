---------------------------- MODULE WriteCustody ----------------------------
(***************************************************************************)
(* The durable custody of one repository, and the delegations that take    *)
(* and return it: the custody manager of each coordinator process          *)
(* (src/src/custody/custody-manager.mjs), the control flow of a delegation *)
(* (src/src/delegate-agent.mjs), the lifecycle of its Claude child         *)
(* (src/src/claude-runner.mjs, src/src/claude-termination.mjs) and its     *)
(* worktree preparation (src/src/worktree-manager.mjs).                    *)
(*                                                                         *)
(* One publication is one atomic step here: read the record, compare it    *)
(* with what the mutation read, rename.  A release is four of them         *)
(* (TERMINAL_PROVEN, HANDOFF_READY, RELEASED, archive), and a crash, a     *)
(* cancellation or a host failure may fall between any two.                *)
(*                                                                         *)
(* The platform is Windows: elsewhere a coordinator cannot observe its own *)
(* identity (inspectProcess is ambiguous), so no custody is ever admitted. *)
(***************************************************************************)
EXTENDS ReconciliationPolicy, FiniteSets

CONSTANTS
    Coordinators,     \* MCP server processes; a restart is a new one
    HostFaults,       \* whether a publication may fail for a host reason
    CleanupFaults,    \* whether removing the runtime settings may fail
    MaxAttempts       \* admission attempts (4 in the code)

ASSUME ModelAssumption ==
    /\ None \notin Coordinators
    /\ HostFaults \in BOOLEAN /\ CleanupFaults \in BOOLEAN
    /\ MaxAttempts \in Nat \ {0}

VARIABLES
    slot,       \* the record under ownership/, or NoRecord
    history,    \* executions archived under executions/
    up,         \* live coordinators
    home,       \* the coordinator that runs a delegation
    pc,         \* where a delegation is
    req,        \* what a delegation holds in memory
    live,       \* #liveIdentities of a coordinator
    spawned,    \* #supervisedSpawns of a coordinator
    note,       \* #helperNotes of a coordinator
    child,      \* the Claude child of an execution
    helper,     \* the taskkill helper launched against it
    git         \* its mutating git process

durable == <<slot, history>>
manager == <<live, spawned, note>>
processes == <<child, helper, git>>
vars == <<slot, history, up, home, pc, req, live, spawned, note, child, helper, git>>

NoRevision == -1
NoNote == [exec |-> None, evidence |-> "unknown"]

Admitting == {"admit", "reconcile", "reclaim", "reclaiming", "unwind"}
Preparing == {"reserved", "preparing", "git", "cleared"}
Running   == {"spawning", "identify", "activate", "active", "transition", "terminate", "helper"}
Settling  == {"settle", "release", "orphan"}
Phases == {"idle", "done", "dead", "recover"}
            \union Admitting \union Preparing \union Running \union Settling

\* Phases in which a delegation is inside the publications of a release.
Releasing == {"unwind", "release", "recover"}

Request ==
    [attempts : 0..MaxAttempts,  \* admission attempts made
     snap : Slot,                \* the record the next mutation expects
     decision : Decisions,       \* reconciliation decision taken on it
     known : Nat \union {NoRevision},   \* revision of the reservation held
     absent : BOOLEAN,           \* no child of this execution ever existed
     ambiguous : BOOLEAN,        \* worktree preparation left unproven effects
     identified : BOOLEAN,       \* the child's PID and start time are known
     authorized : BOOLEAN,       \* a destructive helper may be launched
     proof : {"none", "close", "supervised"},
     evidence : HelperEvidence,
     late : BOOLEAN,             \* late exact-close recovery is armed
     stopped : BOOLEAN]          \* cancelled, or past its deadline

NewRequest ==
    [attempts |-> 0, snap |-> NoRecord, decision |-> Decision("retain", "live"),
     known |-> NoRevision, absent |-> TRUE, ambiguous |-> FALSE,
     identified |-> FALSE, authorized |-> FALSE, proof |-> "none",
     evidence |-> "unknown", late |-> FALSE, stopped |-> FALSE]

Init ==
    /\ slot = NoRecord
    /\ history = {}
    /\ up = Coordinators
    /\ home = [e \in Executions |-> None]
    /\ pc = [e \in Executions |-> "idle"]
    /\ req = [e \in Executions |-> NewRequest]
    /\ live = [c \in Coordinators |-> None]
    /\ spawned = [c \in Coordinators |-> None]
    /\ note = [c \in Coordinators |-> NoNote]
    /\ child = [e \in Executions |-> "none"]
    /\ helper = [e \in Executions |-> "none"]
    /\ git = [e \in Executions |-> "none"]

-----------------------------------------------------------------------------
Owned(e) == slot.exec = e
Review(e) == e \in ReviewExecutions

\* The mutation queue of e's coordinator is not held by another delegation's
\* release, or a mutation that was cancelled while it waited took the end of the
\* queue with it (CustodyStore).
QueueFree(e) ==
    \A d \in Executions \ {e} :
       home[d] = home[e] /\ pc[d] \in Releasing
         => \E f \in Executions \ {d} : home[f] = home[e] /\ req[f].stopped

At(e, phase) == pc[e] = phase /\ home[e] \in up
Turn(e, phase) == At(e, phase) /\ QueueFree(e)

Move(e, phase, r) ==
    /\ pc' = [pc EXCEPT ![e] = phase]
    /\ req' = [req EXCEPT ![e] = r]

\* The delegation is over.  Only an armed late recovery keeps what it held.
Finish(e, r) ==
    Move(e, "done", IF r.late THEN r ELSE [NewRequest EXCEPT !.stopped = r.stopped])

\* The record e's coordinator publishes onto the slot it read.
Publish(e, r) ==
    /\ Owned(e)
    /\ MayAdvance(slot, r.state)
    /\ ValidRecord(r)
    /\ slot' = r

-----------------------------------------------------------------------------
(* Admission.                                                              *)

Submit(e, c) ==
    /\ pc[e] = "idle" /\ c \in up
    /\ home' = [home EXCEPT ![e] = c]
    /\ pc' = [pc EXCEPT ![e] = "admit"]
    /\ UNCHANGED <<durable, up, req, manager, processes>>

\* The rename that creates ownership/.  When the request stops while that
\* rename is in flight, the fence tells the delegation that it landed, or it
\* never learns.
Reserve(e) ==
    /\ Turn(e, "admit") /\ ~req[e].stopped
    /\ slot = NoRecord
    /\ e \notin history
    /\ slot' = Reservation(e)
    /\ \/ Move(e, "reserved", [req[e] EXCEPT !.known = 0])
       \/ \E known \in {0, NoRevision} :
             Move(e, "settle", [req[e] EXCEPT !.known = known, !.stopped = TRUE])
    /\ UNCHANGED <<history, up, home, manager, processes>>

AdmissionFails(e) ==
    /\ HostFaults
    /\ \E phase \in {"admit", "reconcile", "reclaiming"} : Turn(e, phase)
    /\ Finish(e, req[e])
    /\ UNCHANGED <<durable, up, home, manager, processes>>

\* What comparing a stored process identity with the running system may say.
Compared(alive) ==
    {Ambiguous} \union (IF alive THEN {SameProcess} ELSE {Dead, PidReused})

\* The slot is taken: snapshot its record and, unless it is RELEASED, observe
\* the processes it names, outside the mutation queue.
Observe(e) ==
    /\ Turn(e, "admit") /\ ~req[e].stopped
    /\ slot # NoRecord
    /\ \E coordinator \in IF slot.state = "RELEASED" THEN {SameProcess}
                           ELSE Compared(home[slot.exec] \in up) :
       \E g \in IF NeedsGitObservation(slot, coordinator)
                  THEN Compared(git[slot.exec] = "running") ELSE {Unobserved} :
       \E claude \in IF NeedsClaudeObservation(slot, coordinator)
                       THEN Compared(child[slot.exec] = "running") ELSE {Unobserved} :
          Move(e, "reconcile",
               [req[e] EXCEPT !.snap = slot,
                              !.decision = DecideReconciliation(slot, coordinator, g, claude)])
    /\ UNCHANGED <<durable, up, home, manager, processes>>

\* Mutant: the loop forgets its bound.
RetryWithoutBound(e) ==
    Move(e, "admit", [NewRequest EXCEPT !.attempts = req[e].attempts + 1])

\* reserveWriteAccess goes round its loop.
Retry(e) ==
    LET n == req[e].attempts + 1
    IN  IF n < MaxAttempts THEN Move(e, "admit", [NewRequest EXCEPT !.attempts = n])
        ELSE Finish(e, req[e])

SnapshotHolds(e) == SamePublicationAuthority(slot, req[e].snap)

\* The snapshot is stale.  A RELEASED record that is gone or another's is an
\* error, unless it is found archived on the second look; anything else is tried
\* again.
ReconcileChanged(e) ==
    LET gone == req[e].snap.state = "RELEASED" /\ slot.exec # req[e].snap.exec
    IN  /\ Turn(e, "reconcile")
        /\ ~SnapshotHolds(e)
        /\ \/ ~gone /\ Retry(e)
           \/ gone /\ Finish(e, req[e])
           \/ gone /\ slot = NoRecord /\ req[e].snap.exec \in history /\ Retry(e)
        /\ UNCHANGED <<durable, up, home, manager, processes>>

\* A RELEASED record is archived on the spot.  What this coordinator holds in
\* memory for the repository stays.
ReconcileArchive(e) ==
    /\ Turn(e, "reconcile") /\ SnapshotHolds(e)
    /\ slot.state = "RELEASED" /\ slot.exec \notin history
    /\ slot' = NoRecord
    /\ history' = history \union {slot.exec}
    /\ Retry(e)
    /\ UNCHANGED <<up, home, manager, processes>>

\* Custody is retained.  A record of a live owner, once forced termination has
\* begun, may still be this coordinator's own to reclaim.
ReconcileRetain(e) ==
    LET d == req[e].decision
    IN  /\ Turn(e, "reconcile") /\ SnapshotHolds(e)
        /\ slot.state # "RELEASED"
        /\ d.action \in {"retain", "orphan"}
        /\ IF d.action = "orphan" /\ slot.state # "ORPHANED"
             THEN /\ MayAdvance(slot, "ORPHANED")
                  /\ slot' = Advance(slot, "ORPHANED")
             ELSE UNCHANGED slot
        /\ IF d.reason = "live" /\ slot'.state \in ForcedTerminationStates
             THEN Move(e, "reclaim", [NewRequest EXCEPT !.attempts = req[e].attempts])
             ELSE Finish(e, req[e])
        /\ UNCHANGED <<history, up, home, manager, processes>>

\* The record releases: its publications follow, one by one.
ReconcileRelease(e) ==
    /\ Turn(e, "reconcile") /\ SnapshotHolds(e)
    /\ slot.state # "RELEASED"
    /\ req[e].decision.action \in {"complete-terminal-release", "terminalize-and-release"}
    /\ Move(e, "unwind", [req[e] EXCEPT !.snap = slot])
    /\ UNCHANGED <<durable, up, home, manager, processes>>

\* Positive evidence that no destructive helper is acting on r's execution.
HelperSettled(c, r) ==
    LET noted == IF note[c].exec = r.exec THEN {note[c].evidence} ELSE {}
        reports == {r.helper} \union noted
    IN  IF \E v \in reports : Launched(v)
          THEN \/ "close-proven" \in reports
               \/ "identified" \in reports /\ helper[r.exec] = "gone"
          ELSE "never-launched" \in reports

\* This coordinator's own record of a forced termination, its exact child now
\* observed gone and the helper side settled.
Reclaim(e) ==
    /\ At(e, "reclaim")
    /\ slot # NoRecord /\ slot.state \in ForcedTerminationStates
    /\ spawned[home[e]] = slot.exec /\ slot.claude
    /\ home[slot.exec] = home[e]
    /\ child[slot.exec] # "running"
    /\ HelperSettled(home[e], slot)
    /\ Move(e, "reclaiming", [req[e] EXCEPT !.snap = slot])
    /\ UNCHANGED <<durable, up, home, manager, processes>>

ReclaimRefused(e) ==
    /\ At(e, "reclaim")
    /\ Finish(e, req[e])
    /\ UNCHANGED <<durable, up, home, manager, processes>>

ReclaimCommit(e) ==
    /\ Turn(e, "reclaiming")
    /\ IF SnapshotHolds(e) THEN Move(e, "unwind", req[e]) ELSE Finish(e, req[e])
    /\ UNCHANGED <<durable, up, home, manager, processes>>

-----------------------------------------------------------------------------
(* Worktree preparation and the decision to spawn.                         *)

BeginWorktreePreparation(e) ==
    /\ Turn(e, "reserved") /\ ~Review(e)
    /\ Publish(e, Advance(slot, "PREPARING_WORKTREE"))
    /\ Move(e, "preparing", req[e])
    /\ UNCHANGED <<history, up, home, manager, processes>>

SpawnGit(e) ==
    /\ At(e, "preparing")
    /\ git' = [git EXCEPT ![e] = "running"]
    /\ Move(e, "git", req[e])
    /\ UNCHANGED <<durable, up, home, manager, child, helper>>

RecordWorktreeOperation(e) ==
    /\ Turn(e, "git")
    /\ Owned(e) /\ slot.state = "PREPARING_WORKTREE" /\ ~slot.git
    /\ slot' = [Advance(slot, slot.state) EXCEPT !.git = TRUE]
    /\ UNCHANGED <<history, up, home, pc, req, manager, processes>>

\* The exact git child closed, so its identity may be cleared.
ClearWorktreeOperation(e) ==
    /\ Turn(e, "git") /\ git[e] = "gone"
    /\ Owned(e)
    /\ slot' = IF slot.git THEN [Advance(slot, slot.state) EXCEPT !.git = FALSE] ELSE slot
    /\ Move(e, "cleared", req[e])
    /\ UNCHANGED <<history, up, home, manager, processes>>

\* Preparation fails.  An interrupted git, or one whose identity could not be
\* persisted, leaves effects nobody observed.
PreparationFails(e) ==
    /\ \E phase \in Preparing : At(e, phase)
    /\ \E ambiguous \in BOOLEAN :
          /\ ambiguous => git[e] # "none"
          /\ git[e] = "running" => ambiguous
          /\ Move(e, "settle", [req[e] EXCEPT !.ambiguous = ambiguous])
    /\ UNCHANGED <<durable, up, home, manager, processes>>

\* Only the direct path learns the new revision: preparation returns a
\* workspace, not the record.  A stop that wins the race with the result hides
\* it too.
MarkSpawning(e) ==
    /\ \E phase \in {"reserved", "cleared"} : Turn(e, phase)
    /\ Publish(e, Advance(slot, "SPAWNING"))
    /\ spawned' = [spawned EXCEPT ![home[e]] = e]
    /\ \/ Move(e, "spawning",
               [req[e] EXCEPT !.known = IF pc[e] = "reserved" THEN slot'.revision ELSE @])
       \/ Move(e, "settle", [req[e] EXCEPT !.stopped = TRUE])
    /\ UNCHANGED <<history, up, home, live, note, processes>>

-----------------------------------------------------------------------------
(* The Claude child.                                                       *)

SpawnChild(e) ==
    /\ At(e, "spawning") /\ ~req[e].stopped
    /\ child' = [child EXCEPT ![e] = "running"]
    /\ Move(e, "identify", [req[e] EXCEPT !.absent = FALSE])
    /\ UNCHANGED <<durable, up, home, manager, helper, git>>

SpawnFails(e) ==
    /\ At(e, "spawning")
    /\ Move(e, "settle", req[e])
    /\ UNCHANGED <<durable, up, home, manager, processes>>

\* The PID and start time of the child, refused once the child has ended.
Identify(e) ==
    /\ At(e, "identify") /\ ~req[e].stopped
    /\ child[e] = "running"
    /\ Move(e, "activate", [req[e] EXCEPT !.identified = TRUE])
    /\ UNCHANGED <<durable, up, home, manager, processes>>

IdentifyFails(e) ==
    /\ At(e, "identify")
    /\ Move(e, "terminate", req[e])
    /\ UNCHANGED <<durable, up, home, manager, processes>>

\* onChildStarted.  The publication may land after the runner has already
\* turned to stop the child, and its revision be learnt too late.
Activate(e) ==
    /\ Turn(e, "activate") /\ ~req[e].stopped
    /\ slot.state = "SPAWNING"
    /\ Publish(e, [Advance(slot, "ACTIVE") EXCEPT !.claude = TRUE])
    /\ live' = [live EXCEPT ![home[e]] = e]
    /\ \/ Move(e, "active", [req[e] EXCEPT !.known = slot'.revision])
       \/ \E known \in {slot'.revision, req[e].known} :
             Move(e, "transition", [req[e] EXCEPT !.known = known])
    /\ UNCHANGED <<history, up, home, spawned, note, processes>>

\* Not published.  A coherent review carries on without it; a write execution
\* is stopped, unless its child closed first.
ActivateFails(e) ==
    /\ At(e, "activate")
    /\ live' = [live EXCEPT ![home[e]] = IF Owned(e) THEN e ELSE @]
         \/ UNCHANGED live
    /\ \/ Move(e, "transition", req[e])
       \/ /\ ~req[e].stopped
          /\ Review(e) \/ child[e] = "closed"
          /\ Move(e, "active", req[e])
    /\ UNCHANGED <<durable, up, home, spawned, note, processes>>

ObserveClose(e) ==
    /\ At(e, "active") /\ child[e] = "closed"
    /\ Move(e, "settle", [req[e] EXCEPT !.proof = "close"])
    /\ UNCHANGED <<durable, up, home, manager, processes>>

\* Mutant: a child that has exited is not stopped, though its stdio is open.
StopOnlyRunning(e) ==
    /\ At(e, "active") /\ child[e] = "running"
    /\ Move(e, "transition", req[e])
    /\ UNCHANGED <<durable, up, home, manager, processes>>

\* Timeout, output overflow, stream failure or cancellation.
StopChild(e) ==
    /\ At(e, "active")
    /\ Move(e, "transition", req[e])
    /\ UNCHANGED <<durable, up, home, manager, processes>>

-----------------------------------------------------------------------------
(* Forced termination.                                                     *)

\* TERMINATING is published before anything destructive.  A publication that
\* outlives its bound may still land, but then authorizes nothing.
BeginTermination(e) ==
    /\ Turn(e, "transition") /\ ~req[e].stopped
    /\ slot.exec = e /\ slot.claude /\ live[home[e]] = e
    /\ \/ slot.state = "TERMINATING" /\ UNCHANGED slot
       \/ slot.state = "ACTIVE" /\ Publish(e, Advance(slot, "TERMINATING"))
    /\ \E inTime \in BOOLEAN, known \in {slot'.revision, req[e].known} :
          /\ inTime => known = slot'.revision
          /\ Move(e, "terminate", [req[e] EXCEPT !.authorized = inTime, !.known = known])
    /\ UNCHANGED <<history, up, home, manager, processes>>

\* The publication failed, was refused, cancelled or timed out.  The callback
\* of a coherent review swallows its own failure.
TerminationUnpublished(e) ==
    /\ At(e, "transition")
    /\ \E authorized \in BOOLEAN :
          /\ authorized => Review(e) /\ ~req[e].stopped
          /\ Move(e, "terminate", [req[e] EXCEPT !.authorized = authorized])
    /\ UNCHANGED <<durable, up, home, manager, processes>>

\* The helper is launched at a PID just compared with the child's identity.
LaunchHelper(e) ==
    /\ At(e, "terminate")
    /\ req[e].identified /\ req[e].authorized
    /\ child[e] = "running"
    /\ helper' = [helper EXCEPT ![e] = "running"]
    /\ Move(e, "helper", req[e])
    /\ UNCHANGED <<durable, up, home, manager, child, git>>

\* The stop settles: with the close of the target and of any helper, or with
\* its deadline.  Failing to remove the runtime settings replaces the error,
\* and takes the target's close as proof whatever the helper does.
TerminationSettles(e) ==
    LET launched == pc[e] = "helper"
        closed == child[e] = "closed"
    IN  /\ At(e, "terminate") \/ At(e, "helper")
        /\ \E quiet, cleanupFails \in BOOLEAN, named \in {"identified", "unidentified"} :
              /\ quiet => ~launched \/ helper[e] = "gone"
              /\ ~launched => quiet
              /\ cleanupFails => CleanupFaults
              /\ Move(e, "settle",
                      [req[e] EXCEPT
                         !.authorized = FALSE,
                         !.proof = IF closed /\ (quiet \/ cleanupFails)
                                     THEN IF req[e].identified \/ ~quiet THEN "close" ELSE "supervised"
                                     ELSE "none",
                         !.evidence = IF ~launched THEN "never-launched"
                                      ELSE IF quiet THEN "close-proven" ELSE named,
                         !.late = ~closed /\ quiet])
        /\ UNCHANGED <<durable, up, home, manager, processes>>

-----------------------------------------------------------------------------
(* Returning custody.                                                      *)

\* authorizedCustodyRelease and terminalSettlementAuthority agree on this.
ReleaseAuthorized(e) ==
    IF req[e].absent THEN ~req[e].ambiguous ELSE req[e].proof # "none"

\* Mutant: the record must already name the child.
RecoverPersistedSpawn(e) ==
    /\ slot.state = "SPAWNING" /\ slot.claude
    /\ live[home[e]] = None /\ spawned[home[e]] = e

MayRecoverUnpersistedSpawn(e) ==
    /\ slot.state = "SPAWNING" /\ ~slot.claude
    /\ live[home[e]] = None /\ spawned[home[e]] = e

LiveIdentity(e) ==
    req[e].identified /\ (live[home[e]] = e \/ MayRecoverUnpersistedSpawn(e))

\* Mutant: the settlement of a stopped request is not pinned to a revision.
ReleaseUnpinned(e) ==
    /\ Owned(e)
    /\ CASE req[e].absent -> slot.state \in SafeUnstartedStates /\ ~slot.claude
         [] req[e].proof = "close" ->
              slot.state \in {"SPAWNING", "ACTIVE", "TERMINATING"} /\ LiveIdentity(e)
         [] req[e].proof = "supervised" ->
              slot.state = "SPAWNING" /\ ~slot.claude /\ spawned[home[e]] = e
         [] OTHER -> FALSE

\* What the custody manager demands of the release it is asked for.  A stopped
\* request is pinned to the revision it holds.
ReleaseAccepted(e) ==
    /\ Owned(e)
    /\ req[e].stopped => slot.revision = req[e].known
    /\ CASE req[e].absent -> slot.state \in SafeUnstartedStates /\ ~slot.claude
         [] req[e].proof = "close" ->
              slot.state \in {"SPAWNING", "ACTIVE", "TERMINATING"} /\ LiveIdentity(e)
         [] req[e].proof = "supervised" ->
              slot.state = "SPAWNING" /\ ~slot.claude /\ spawned[home[e]] = e
         [] OTHER -> FALSE

\* The end of a delegation: note the helper evidence, then release, or retain
\* the record as an orphan, or - once the request is stopped - leave it alone.
Settle(e) ==
    LET releases == ReleaseAuthorized(e) /\ ReleaseAccepted(e)
    IN  /\ Turn(e, "settle")
        /\ note' = IF req[e].evidence = "unknown" THEN note
                   ELSE [note EXCEPT ![home[e]] = [exec |-> e, evidence |-> req[e].evidence]]
        /\ IF req[e].known = NoRevision THEN Finish(e, req[e])
           ELSE IF releases THEN Move(e, "release", [req[e] EXCEPT !.snap = slot])
           ELSE IF req[e].stopped THEN Finish(e, req[e])
           ELSE Move(e, "orphan", req[e])
        /\ live' = IF releases /\ req[e].proof = "close"
                     THEN [live EXCEPT ![home[e]] = e] ELSE live
        /\ UNCHANGED <<durable, up, home, spawned, processes>>

\* Mutant: only a record that names a child is worth retaining.
RetainOnlyIdentified(e) ==
    /\ Owned(e) /\ slot.claude
    /\ slot.state = "ORPHANED" \/ MayAdvance(slot, "ORPHANED")
    /\ slot.state \in {"ACTIVE", "TERMINATING"} => req[e].identified /\ live[home[e]] = e

\* markOrphanedWriteAccess: retain, with the identity and helper evidence held.
MayRetain(e) ==
    /\ Owned(e)
    /\ slot.state = "ORPHANED" \/ MayAdvance(slot, "ORPHANED")
    /\ slot.state \in {"ACTIVE", "TERMINATING"} => req[e].identified /\ live[home[e]] = e

MarkOrphaned(e) ==
    /\ Turn(e, "orphan") /\ MayRetain(e)
    /\ IF slot.state = "ORPHANED" THEN UNCHANGED <<slot, live>>
       ELSE /\ Publish(e, [Advance(slot, "ORPHANED") EXCEPT
                             !.claude = @ \/ req[e].identified,
                             !.helper = IF req[e].evidence = "unknown" THEN @ ELSE req[e].evidence])
            /\ live' = IF req[e].identified THEN [live EXCEPT ![home[e]] = e] ELSE live
    /\ Finish(e, req[e])
    /\ UNCHANGED <<history, up, home, spawned, note, processes>>

RetentionFails(e) ==
    /\ Turn(e, "orphan")
    /\ HostFaults \/ ~MayRetain(e)
    /\ Finish(e, req[e])
    /\ UNCHANGED <<durable, up, home, manager, processes>>

\* The child this coordinator could not prove terminated has closed after all,
\* and its delegation has retained the record.
LateRecovery(e) ==
    /\ Turn(e, "done") /\ req[e].late /\ ~req[e].stopped
    /\ child[e] = "closed"
    /\ IF /\ Owned(e) /\ slot.state = "ORPHANED"
          /\ IF req[e].identified THEN slot.claude /\ live[home[e]] = e
             ELSE ~slot.claude /\ spawned[home[e]] = e
         THEN Move(e, "recover", [req[e] EXCEPT !.snap = slot, !.late = FALSE])
         ELSE Finish(e, [req[e] EXCEPT !.late = FALSE])
    /\ UNCHANGED <<durable, up, home, manager, processes>>

-----------------------------------------------------------------------------
(* The publications of a release, each checked against the record the last *)
(* one left.  The coordinator's mutation queue is held throughout.         *)

NextRelease(state) ==
    CASE state = "TERMINAL_PROVEN" -> "HANDOFF_READY"
      [] state = "HANDOFF_READY" -> "RELEASED"
      [] OTHER -> "TERMINAL_PROVEN"

ReleaseStep(e) ==
    /\ pc[e] \in Releasing /\ home[e] \in up
    /\ SnapshotHolds(e)
    /\ MayAdvance(slot, NextRelease(slot.state))
    /\ slot' = Advance(slot, NextRelease(slot.state))
    /\ req' = [req EXCEPT ![e].snap = slot']
    /\ UNCHANGED <<history, up, home, pc, manager, processes>>

\* After an admission's own clean-up it goes round its loop; otherwise the
\* delegation ends.
Released(e) == IF pc[e] = "unwind" THEN Retry(e) ELSE Finish(e, req[e])

\* completeTerminalRelease: what the coordinator knew of its child, of its spawn
\* and of a helper goes with the record.
ForgetRepository(c) ==
    /\ live' = [live EXCEPT ![c] = None]
    /\ spawned' = [spawned EXCEPT ![c] = None]
    /\ note' = [note EXCEPT ![c] = NoNote]

ArchivedAlready(e) ==
    req[e].snap.state = "RELEASED" /\ slot = NoRecord /\ req[e].snap.exec \in history

\* The rename of ownership/ to executions/<id>, or the discovery that another
\* coordinator has already done it.
Archive(e) ==
    /\ pc[e] \in Releasing /\ home[e] \in up
    /\ req[e].snap.state = "RELEASED"
    /\ \/ /\ SnapshotHolds(e)
          /\ slot.exec \notin history
          /\ slot' = NoRecord
          /\ history' = history \union {slot.exec}
       \/ ArchivedAlready(e) /\ UNCHANGED durable
    /\ Released(e)
    /\ ForgetRepository(home[e])
    /\ UNCHANGED <<up, home, processes>>

\* Another coordinator moved the record, the host failed, or the settlement of
\* a stopped request ran out of its budget.
ReleaseFails(e) ==
    /\ pc[e] \in Releasing /\ home[e] \in up
    /\ \/ HostFaults
       \/ ~SnapshotHolds(e) /\ ~ArchivedAlready(e)
       \/ pc[e] = "release" /\ req[e].stopped
    /\ IF pc[e] = "release" /\ ~req[e].stopped
         THEN Move(e, "orphan", [req[e] EXCEPT !.snap = NoRecord])
         ELSE Finish(e, req[e])
    /\ UNCHANGED <<durable, up, home, manager, processes>>

-----------------------------------------------------------------------------
(* Stops, crashes and the processes themselves.                            *)

\* Cancellation or deadline.  Nothing not yet published may be published any
\* more; what is running is stopped, and what is owned goes to settlement.
RequestStops(e) ==
    LET r == [req[e] EXCEPT !.stopped = TRUE]
    IN  /\ home[e] \in up /\ ~req[e].stopped
        /\ CASE pc[e] \in Admitting \union {"release", "recover", "orphan"} -> Finish(e, r)
             [] pc[e] \in Preparing -> Move(e, "settle", r)
             [] pc[e] \in Running \union {"settle"} -> Move(e, pc[e], r)
             [] pc[e] = "done" /\ req[e].late -> Finish(e, [r EXCEPT !.late = FALSE])
             [] OTHER -> FALSE
        /\ UNCHANGED <<durable, up, home, manager, processes>>

\* The coordinator process dies; the children and helpers it spawned do not.
Crash(c) ==
    LET hosted == {e \in Executions : home[e] = c}
    IN  /\ c \in up
        /\ up' = up \ {c}
        /\ pc' = [e \in Executions |-> IF e \in hosted THEN "dead" ELSE pc[e]]
        /\ req' = [e \in Executions |-> IF e \in hosted THEN NewRequest ELSE req[e]]
        /\ ForgetRepository(c)
        /\ UNCHANGED <<durable, home, processes>>

\* exit, and later the close of its stdio
ChildEnds(e) ==
    /\ \/ child[e] = "running" /\ \E how \in {"exited", "closed"} : child' = [child EXCEPT ![e] = how]
       \/ child[e] = "exited" /\ child' = [child EXCEPT ![e] = "closed"]
    /\ UNCHANGED <<durable, up, home, pc, req, manager, helper, git>>

HelperEnds(e) ==
    /\ helper[e] = "running"
    /\ helper' = [helper EXCEPT ![e] = "gone"]
    /\ UNCHANGED <<durable, up, home, pc, req, manager, child, git>>

GitEnds(e) ==
    /\ git[e] = "running"
    /\ git' = [git EXCEPT ![e] = "gone"]
    /\ UNCHANGED <<durable, up, home, pc, req, manager, child, helper>>

-----------------------------------------------------------------------------
Admission(e) ==
    \/ \E c \in Coordinators : Submit(e, c)
    \/ Reserve(e) \/ AdmissionFails(e) \/ Observe(e)
    \/ ReconcileChanged(e) \/ ReconcileArchive(e)
    \/ ReconcileRetain(e) \/ ReconcileRelease(e)
    \/ Reclaim(e) \/ ReclaimRefused(e) \/ ReclaimCommit(e)

Preparation(e) ==
    \/ BeginWorktreePreparation(e) \/ SpawnGit(e)
    \/ RecordWorktreeOperation(e) \/ ClearWorktreeOperation(e)
    \/ PreparationFails(e) \/ MarkSpawning(e)

Lifecycle(e) ==
    \/ SpawnChild(e) \/ SpawnFails(e)
    \/ Identify(e) \/ IdentifyFails(e) \/ Activate(e) \/ ActivateFails(e)
    \/ ObserveClose(e) \/ StopChild(e)
    \/ BeginTermination(e) \/ TerminationUnpublished(e)
    \/ LaunchHelper(e) \/ TerminationSettles(e)

Return(e) ==
    \/ Settle(e) \/ MarkOrphaned(e) \/ RetentionFails(e) \/ LateRecovery(e)
    \/ ReleaseStep(e) \/ Archive(e) \/ ReleaseFails(e)

Environment(e) == ChildEnds(e) \/ HelperEnds(e) \/ GitEnds(e)

Next ==
    \/ \E e \in Executions :
          Admission(e) \/ Preparation(e) \/ Lifecycle(e) \/ Return(e)
            \/ RequestStops(e) \/ Environment(e)
    \/ \E c \in Coordinators : Crash(c)

Spec == Init /\ [][Next]_vars

\* Every wait of a delegation is bounded by a deadline or a budget, and its
\* coordinator keeps running callbacks: a delegation that can step, steps.
\* Nothing makes a coordinator crash, a request stop or a process end.
Proceeds(e) ==
    \/ pc[e] \in Admitting /\ Admission(e)
    \/ pc[e] \in Preparing /\ Preparation(e)
    \/ pc[e] \in Running /\ Lifecycle(e)
    \/ pc[e] \in Settling \union Releasing \union {"done"} /\ Return(e)

FairSpec == Spec /\ \A e \in Executions : WF_vars(Proceeds(e))

-----------------------------------------------------------------------------
(* Properties.                                                             *)

\* Every variable has its type, and whatever is in the slot is a record the
\* schema accepts.
TypeOK ==
    /\ slot \in Slot /\ ValidRecord(slot)
    /\ history \subseteq Executions
    /\ up \subseteq Coordinators
    /\ home \in [Executions -> Coordinators \union {None}]
    /\ pc \in [Executions -> Phases]
    /\ req \in [Executions -> Request]
    /\ live \in [Coordinators -> Executions \union {None}]
    /\ spawned \in [Coordinators -> Executions \union {None}]
    /\ note \in [Coordinators -> [exec : Executions \union {None}, evidence : HelperEvidence]]
    /\ child \in [Executions -> {"none", "running", "exited", "closed"}]
    /\ helper \in [Executions -> {"none", "running", "gone"}]
    /\ git \in [Executions -> {"none", "running", "gone"}]

\* A process that acts on the repository for e: its Claude child, its mutating
\* git, or a helper that may still kill what now runs at its PID.
Acting(e) == "running" \in {child[e], helper[e], git[e]}

\* Custody is held for as long as anything acts for the execution: whoever
\* else takes the repository finds no process of an earlier owner in it.
ActingIsOwner == \A e \in Executions : Acting(e) => Owned(e)

\* The delegations, their processes and their coordinators together implement
\* exclusive custody: records may be stranded, never shared.
Exclusive == INSTANCE ExclusiveCustody
               WITH holder <- slot.exec, past <- history,
                    busy <- {e \in Executions : Acting(e)}
ImplementsExclusiveCustody == Exclusive!Spec

\* The part of it that a coherent review shares: while a Claude child runs, no
\* other managed execution is admitted.
ChildIsOwner == \A e \in Executions : child[e] = "running" => Owned(e)

\* A destructive helper runs only under a record that says, durably, that
\* forced termination has begun.
HelperUnderDurableTermination ==
    \A e \in Executions :
       helper[e] = "running" => Owned(e) /\ slot.state \in ForcedTerminationStates

\* A record whose forced termination began is never released for a coordinator
\* that has died: only the coordinator that was stopping the child can tell
\* whether its helper is gone.
ForcedTerminationStaysHome ==
    [][slot.state \in ForcedTerminationStates /\ slot'.state = "TERMINAL_PROVEN"
         => home[slot.exec] \in up]_vars

\* A release by the delegation itself waits for the close of the helper it
\* launched, not for the child's alone.
HandoffAwaitsHelper ==
    \A e \in Executions : pc[e] = "release" => helper[e] # "running"

\* A delegation that ended without being stopped never leaves its record in a
\* state that says work is under way: what is still in the slot is an orphan, or
\* carries durable terminal proof for someone to finish its release.
NothingAbandoned ==
    \A e \in Executions :
       pc[e] = "done" /\ ~req[e].stopped /\ Owned(e) =>
          slot.state \in {"ORPHANED", "RELEASED"} \union DurableTerminalStates

\* A delegation that was admitted ends, whatever its child, its git or the other
\* delegations of its coordinator do.
EveryDelegationEnds ==
    \A e \in Executions : pc[e] # "idle" ~> pc[e] \in {"done", "dead"}

\* Its coordinator holds no child's identity left from an earlier execution.
FreshMemory(e) == live[home[e]] \in {None, e}

\* A delegation that holds proof that its exact child closed returns custody,
\* unless it is stopped, its coordinator dies first, or its coordinator still
\* holds the identity of an earlier child whose RELEASED record it archived
\* while reconciling.
ProvenCloseReturnsCustody ==
    \A e \in Executions :
       pc[e] = "settle" /\ req[e].proof # "none" /\ ~req[e].stopped /\ FreshMemory(e)
         ~> e \in history \/ req[e].stopped \/ pc[e] = "dead"
=============================================================================
