---------------------------- MODULE CustodyStore ----------------------------
(***************************************************************************)
(* The files under the durable record, one level below WriteCustody: what  *)
(* one mutation does between taking its turn in the mutation queue of its  *)
(* coordinator and giving it back (src/src/custody/durable-store.mjs,      *)
(* publication-retry.mjs and #withRepositoryMutation of                    *)
(* custody-manager.mjs).                                                   *)
(*                                                                         *)
(* A publication is not atomic here.  The compare is a read; the rename is *)
(* issued afterwards, in the same turn of the event loop as the last check *)
(* for cancellation, and lands or is rejected later.  A rename onto the    *)
(* record file replaces whatever record is then there; a rename of a       *)
(* reservation onto an ownership directory that exists is rejected.  A     *)
(* rejection that the host caused is tried again, from the compare.        *)
(* Some mutations publish under a guard that keeps their turn while a      *)
(* rename is in flight; those that prepare the writer pass none on.        *)
(***************************************************************************)
EXTENDS Integers

CONSTANTS
    Mutations,          \* mutations asked of a custody manager, each once
    Coordinators,       \* coordinator processes, each with one queue
    None,
    MaxRenames,         \* PUBLICATION_RETRY_MAX_ATTEMPTS (4)
    MaxReservations     \* rounds of reserveWriteAccess (4)

ASSUME StoreAssumption ==
    /\ None \notin Mutations \union Coordinators
    /\ MaxRenames \in Nat \ {0} /\ MaxReservations \in Nat \ {0}

VARIABLES
    slot,       \* the record in ownership/record.json, or Absent
    up,         \* live coordinators
    archive,    \* the directories under executions/, with the record in each
    tail,       \* #mutationTails: per coordinator, the last to ask for a turn
    job,        \* what each mutation is and how far it has come
    serial      \* history: of one coordinator one mutation at a time was under way

vars == <<slot, up, archive, tail, job, serial>>

(***************************************************************************)
(* A record is named by the reservation that created it.                   *)
(***************************************************************************)
Absent == [exec |-> None, revision |-> 0, released |-> FALSE]
Records == [exec : Mutations, revision : Nat, released : BOOLEAN]

Kinds == {"none", "reserve", "prepare", "advance", "release"}

\* The mutations that hand their publication guard to the store.  Recording a
\* worktree, the Git operation in it and the spawn to come hands on none.
Guarded(kind) == kind # "prepare"

Steps == {"new", "queued", "base", "staged", "issued", "landed", "rejected",
          "archive", "archiving", "backoff", "conflict", "done", "failed"}

Job == [kind : Kinds,
        at : Coordinators \union {None},
        step : Steps,
        base : Records \union {Absent},   \* the record the mutation read
        renames : 0..MaxRenames,          \* attempts of this publication
        rounds : 0..MaxReservations,
        cancelled : BOOLEAN,              \* mutationSignal
        started : BOOLEAN,                \* publicationGuard.publicationStarted
        behind : SUBSET Mutations,        \* turns it still waits for
        left : BOOLEAN,                   \* queueReleased
        fence : {"open", "started", "published", "conflict", "failed"},
        told : {"nothing", "held", "not-acquired", "unproven"}]

NewJob == [kind |-> "none", at |-> None, step |-> "new", base |-> Absent,
           renames |-> 0, rounds |-> 0, cancelled |-> FALSE, started |-> FALSE,
           behind |-> {}, left |-> FALSE, fence |-> "open", told |-> "nothing"]

Init ==
    /\ slot = Absent
    /\ up = Coordinators
    /\ archive = {}
    /\ tail = [c \in Coordinators |-> None]
    /\ job = [m \in Mutations |-> NewJob]
    /\ serial = TRUE

-----------------------------------------------------------------------------
(* #withRepositoryMutation: a turn comes when every turn it was asked behind *)
(* has been given back.                                                      *)

At(m, step) == job[m].step = step /\ job[m].at \in up

\* The turns still out in the chain of promises that ends in tail[c].
Chain(c) == IF tail[c] = None THEN {} ELSE job[tail[c]].behind \union {tail[c]}

\* The next publication of m, which expects the record base.
NextRecord(m) ==
    CASE job[m].kind = "reserve" -> [Absent EXCEPT !.exec = m]
      [] job[m].kind \in {"prepare", "advance"} -> [job[m].base EXCEPT !.revision = @ + 1]
      [] OTHER -> [job[m].base EXCEPT !.revision = @ + 1, !.released = TRUE]

Become(m, step, j) ==
    /\ job' = [job EXCEPT ![m] = [j EXCEPT !.step = step]]
    /\ UNCHANGED tail

\* releaseQueue: the turn is given back; the queue forgets its last turn though
\* earlier ones are still out.
GiveBack(m, j) ==
    /\ job' = [d \in Mutations |-> IF d = m THEN [j EXCEPT !.left = TRUE]
                                   ELSE [job[d] EXCEPT !.behind = @ \ {m}]]
    /\ tail' = [tail EXCEPT ![j.at] = IF @ = m THEN None ELSE @]

\* Mutant: a mutation that settles keeps its turn.
ConcludeHoldingTurn(m, step, j) == Become(m, step, j)

\* The mutation settles: whatever its turn still held is given back.
Conclude(m, step, j) == GiveBack(m, [j EXCEPT !.step = step])

\* A turn is asked for, behind whatever the queue still remembers.
Queue(m, c, j) ==
    /\ job' = [job EXCEPT ![m] = [j EXCEPT !.step = "queued", !.behind = Chain(c)]]
    /\ tail' = [tail EXCEPT ![c] = m]

Ask(m, c, kind) ==
    /\ job[m].step = "new" /\ c \in up
    /\ Queue(m, c, [job[m] EXCEPT !.kind = kind, !.at = c])
    /\ UNCHANGED <<slot, up, archive>>

\* The turn begins, unless the mutation lost its authority while it waited.
TakeTurn(m) ==
    /\ At(m, "queued") /\ job[m].behind = {}
    /\ IF job[m].cancelled THEN Conclude(m, "failed", job[m])
       ELSE Become(m, IF job[m].kind = "reserve" THEN "staged" ELSE "base", job[m])
    /\ UNCHANGED <<slot, up, archive>>

\* The record the mutation is built from: this coordinator's own, or, unless the
\* mutation prepares a writer, one whose coordinator is gone.  A record that is
\* already RELEASED only waits for its archive.
MayAct(m) ==
    \/ job[slot.exec].at = job[m].at
    \/ job[m].kind # "prepare" /\ job[slot.exec].at \notin up

Unfit(m) ==
    \/ job[m].cancelled \/ slot = Absent \/ ~MayAct(m)
    \/ slot.released /\ job[m].kind # "release"

\* Mutant: a release archives the record without publishing RELEASED first.
ReadBaseToArchive(m) ==
    /\ At(m, "base")
    /\ IF Unfit(m) THEN Conclude(m, "failed", job[m])
       ELSE Become(m, IF job[m].kind = "release" THEN "archive" ELSE "staged",
                   [job[m] EXCEPT !.base = slot])
    /\ UNCHANGED <<slot, up, archive>>

ReadBase(m) ==
    /\ At(m, "base")
    /\ IF Unfit(m) THEN Conclude(m, "failed", job[m])
       ELSE Become(m, IF slot.released THEN "archive" ELSE "staged",
                   [job[m] EXCEPT !.base = slot])
    /\ UNCHANGED <<slot, up, archive>>

-----------------------------------------------------------------------------
(* One publication.                                                        *)

\* Mutant: the fence learns of the rename only once it has settled.
IssuedBehindFence(j) ==
    [j EXCEPT !.started = @ \/ Guarded(j.kind), !.renames = @ + 1]

\* The rename is about to be issued; the guard, if the mutation has one, and the
\* admission fence learn of it first.
Issued(j) ==
    [j EXCEPT !.started = @ \/ Guarded(j.kind), !.renames = @ + 1,
              !.fence = IF j.kind = "reserve" THEN "started" ELSE @]

\* Mutant: a transient rejection is tried again without a bound.
MayRetryForever(j) == TRUE

MayRetry(j) == j.renames < MaxRenames

\* The compare: an absent slot for a reservation, else exactly the record the
\* mutation was built from.  The rename follows in the same turn of the loop.
CompareAndIssue(m) ==
    LET j == job[m]
    IN  /\ At(m, "staged")
        /\ IF j.cancelled
             THEN Conclude(m, "failed",
                           [j EXCEPT !.fence = IF j.fence = "started" THEN "failed" ELSE @])
           ELSE IF j.kind = "reserve" /\ slot # Absent
             THEN Conclude(m, "conflict",
                           [j EXCEPT !.fence = IF @ = "started" THEN "conflict" ELSE @])
           ELSE IF j.kind # "reserve" /\ slot # j.base THEN Conclude(m, "failed", j)
           ELSE Become(m, "issued", Issued(j))
        /\ UNCHANGED <<slot, up, archive>>

\* The rename takes effect.  It replaces the record file of any ownership
\* directory that is there, and needs one.
RenameLands(m) ==
    LET j == job[m]
    IN  /\ j.step = "issued"
        /\ IF j.kind = "reserve" THEN slot = Absent ELSE slot # Absent
        /\ slot' = NextRecord(m)
        /\ Become(m, "landed", j)
        /\ UNCHANGED <<up, archive>>

\* The host rejects it, or the directory is there, or is not.
RenameRejected(m) ==
    /\ job[m].step = "issued"
    /\ Become(m, "rejected", job[m])
    /\ UNCHANGED <<slot, up, archive>>

\* A landed rename ends a mutation, except that a release goes on to archive.
Landed(m) ==
    LET j == job[m]
    IN  /\ At(m, "landed")
        /\ CASE j.kind = "reserve" -> Conclude(m, "done", [j EXCEPT !.fence = "published"])
             [] j.kind \in {"prepare", "advance"} -> Conclude(m, "done", j)
             [] OTHER -> Become(m, "archive", [j EXCEPT !.base = NextRecord(m), !.renames = 0])
        /\ UNCHANGED <<slot, up, archive>>

\* A rejected reservation asks the slot whether a competitor won.  Otherwise the
\* rejection is transient, and tried again within the bound, or it is final.
Rejected(m) ==
    LET j == job[m]
    IN  /\ At(m, "rejected")
        /\ IF j.kind = "reserve" /\ slot # Absent
             THEN Conclude(m, "conflict", [j EXCEPT !.fence = "conflict"])
           ELSE \/ MayRetry(j) /\ Become(m, "backoff", j)
                \/ Conclude(m, "failed",
                            [j EXCEPT !.fence = IF j.kind = "reserve" THEN "failed" ELSE @])
        /\ UNCHANGED <<slot, up, archive>>

\* The wait before a retry ends early when the mutation is cancelled.  A retry
\* is a whole new attempt: it starts from the compare.
Backoff(m) ==
    LET j == job[m]
    IN  /\ At(m, "backoff")
        /\ IF j.cancelled
             THEN Conclude(m, "failed",
                           [j EXCEPT !.fence = IF j.kind = "reserve" THEN "failed" ELSE @])
           ELSE Become(m, IF j.base.released THEN "archive" ELSE "staged", j)
        /\ UNCHANGED <<slot, up, archive>>

\* reserveWriteAccess goes round its loop after a conflict that reconciliation
\* cleared: a new turn in the queue.
ReserveAgain(m) ==
    LET j == job[m]
    IN  /\ j.step = "conflict" /\ j.rounds + 1 < MaxReservations /\ ~j.cancelled
        /\ Queue(m, j.at, [j EXCEPT !.rounds = @ + 1, !.renames = 0,
                                    !.started = FALSE, !.left = FALSE])
        /\ UNCHANGED <<slot, up, archive>>

-----------------------------------------------------------------------------
(* archiveOwnership: the ownership directory becomes executions/<id>.       *)

Directory(id, record) == [id |-> id, record |-> record]
Occupied(id) == \E d \in archive : d.id = id
ArchivedAlready(m) ==
    LET base == job[m].base IN slot = Absent /\ Directory(base.exec, base) \in archive

CompareAndArchive(m) ==
    LET j == job[m]
    IN  /\ At(m, "archive")
        /\ IF j.cancelled THEN Conclude(m, "failed", j)
           ELSE IF ArchivedAlready(m) THEN Conclude(m, "done", j)
           ELSE IF slot # j.base \/ Occupied(j.base.exec)
             THEN Conclude(m, "failed", j)
           ELSE Become(m, "archiving", Issued(j))
        /\ UNCHANGED <<slot, up, archive>>

ArchiveLands(m) ==
    /\ job[m].step = "archiving"
    /\ slot # Absent /\ ~Occupied(job[m].base.exec)
    /\ archive' = archive \union {Directory(job[m].base.exec, slot)}
    /\ slot' = Absent
    /\ Conclude(m, "done", job[m])
    /\ UNCHANGED up

\* ENOENT is looked at once more; a transient rejection is tried again.
ArchiveRejected(m) ==
    LET j == job[m]
    IN  /\ j.step = "archiving"
        /\ \/ ArchivedAlready(m) /\ Conclude(m, "done", j)
           \/ MayRetry(j) /\ Become(m, "backoff", j)
           \/ Conclude(m, "failed", j)
        /\ UNCHANGED <<slot, up, archive>>

-----------------------------------------------------------------------------
(* Cancellation, and what the request that waits for a reservation is told. *)

\* Mutant: a cancelled mutation gives its turn back whatever it has in flight.
CancelAtOnce(m) ==
    LET j == [job[m] EXCEPT !.cancelled = TRUE]
    IN  /\ j.step \notin {"new", "done", "failed"} /\ ~job[m].cancelled /\ j.at \in up
        /\ GiveBack(m, j)
        /\ UNCHANGED <<slot, up, archive>>

\* The abort listener gives the turn back at once, unless the guard tells that a
\* rename may be in flight.
Cancel(m) ==
    LET j == [job[m] EXCEPT !.cancelled = TRUE]
    IN  /\ j.step \notin {"new", "done", "failed"} /\ ~job[m].cancelled /\ j.at \in up
        /\ IF j.started THEN Become(m, j.step, j) ELSE GiveBack(m, j)
        /\ UNCHANGED <<slot, up, archive>>

\* settleAdmissionAfterRequestStop: no rename was issued, or the attempt has
\* settled and the fence tells, or the wait for it ran out.
Tell(m) ==
    LET j == job[m]
        settled == j.step \in {"done", "failed", "conflict"}
    IN  /\ j.kind = "reserve" /\ j.told = "nothing"
        /\ j.cancelled \/ j.step = "done"
        /\ j.at \in up
        /\ \E answer \in
             IF j.step = "done" THEN {"held"}
             ELSE IF j.fence = "open" THEN {"not-acquired"}
             ELSE IF settled /\ j.fence \in {"conflict", "failed"} THEN {"not-acquired"}
             ELSE {"unproven"} :
               Become(m, j.step, [j EXCEPT !.told = answer])
        /\ UNCHANGED <<slot, up, archive>>

\* The coordinator dies.  A rename it had issued may still land.
Crash(c) ==
    /\ c \in up
    /\ up' = up \ {c}
    /\ UNCHANGED <<slot, archive, tail, job>>

\* Under way: the mutation has a turn in which it may still publish, or has a
\* rename in flight.
HasTurn(m) ==
    /\ ~job[m].left
    /\ \/ job[m].step \in {"issued", "archiving"}
       \/ /\ job[m].at \in up
          /\ job[m].step \in {"base", "staged", "landed", "rejected", "archive", "backoff"}

\* A rename that no guard kept the turn for, when its request had stopped.
RenameAtLarge(m) ==
    job[m].left /\ job[m].step = "issued" /\ ~Guarded(job[m].kind)

Underway(m) == HasTurn(m) \/ RenameAtLarge(m)

\* Mutations are serial when those under way at once belong to different
\* coordinators and no coordinator has died.
Serial ==
    \A m1, m2 \in Mutations :
       Underway(m1) /\ Underway(m2) /\ m1 # m2
         => job[m1].at # job[m2].at /\ up = Coordinators

Step(m) ==
    \/ \E c \in Coordinators, kind \in Kinds \ {"none"} : Ask(m, c, kind)
    \/ TakeTurn(m) \/ ReadBase(m) \/ CompareAndIssue(m)
    \/ RenameLands(m) \/ RenameRejected(m) \/ Landed(m) \/ Rejected(m)
    \/ Backoff(m) \/ ReserveAgain(m)
    \/ CompareAndArchive(m) \/ ArchiveLands(m) \/ ArchiveRejected(m)
    \/ Cancel(m) \/ Tell(m)

Next ==
    /\ (\E c \in Coordinators : Crash(c)) \/ (\E m \in Mutations : Step(m))
    /\ serial' = (serial /\ Serial')

Spec == Init /\ [][Next]_vars

\* The event loop runs what can run, and the host settles every rename: as long
\* as it may be retried, a rejected rename is not the end of a mutation.
Runs(m) ==
    \/ TakeTurn(m) \/ ReadBase(m) \/ CompareAndIssue(m) \/ RenameLands(m)
    \/ RenameRejected(m) \/ Landed(m) \/ Rejected(m) \/ Backoff(m)
    \/ CompareAndArchive(m) \/ ArchiveLands(m) \/ ArchiveRejected(m)

FairSpec == Spec /\ \A m \in Mutations : WF_vars(Runs(m) /\ Next)

-----------------------------------------------------------------------------
(* Properties.                                                             *)

\* Every variable has its type.
TypeOK ==
    /\ slot \in Records \union {Absent}
    /\ up \subseteq Coordinators
    /\ archive \subseteq [id : Mutations, record : Records]
    /\ tail \in [Coordinators -> Mutations \union {None}]
    /\ job \in [Mutations -> Job]
    /\ serial \in BOOLEAN

\* A publication builds on the record that is in the slot: it creates a
\* reservation where there was none, advances the record there by one revision,
\* or archives a released one.
BuildsOnSlot ==
    \/ slot' = slot
    \/ slot = Absent /\ slot'.revision = 0
    \/ slot'.exec = slot.exec /\ slot'.revision = slot.revision + 1 /\ ~slot.released
    \/ slot' = Absent /\ slot.released

\* A stale callback overwrites no later state, no released archive and no newly
\* admitted owner.
NoLostUpdate == [][BuildsOnSlot]_vars

\* It is so as long as no two mutations of a coordinator hold a turn at once, no
\* coordinator died, and no other mutation was under way beside a rename at
\* large: a guarded mutation whose request stopped while its rename was in
\* flight keeps the others out until it has settled.
SerialUpdatesAreNotLost == [][serial => BuildsOnSlot]_vars

\* Within one live coordinator the mutations of a repository are serial, whether
\* they hold a turn or have left a rename behind.
OneMutationAtATime ==
    \A m1, m2 \in Mutations :
       Underway(m1) /\ Underway(m2) /\ m1 # m2 => job[m1].at # job[m2].at

\* What a stopped request is told of its admission stays true: a reservation
\* reported as not acquired never was in the slot and never will be; one reported
\* as held is in the slot or archived, as long as mutations have been serial.
FenceTellsTruth ==
    \A m \in Mutations :
       LET published == slot.exec = m \/ Occupied(m)
       IN  /\ job[m].told = "not-acquired" => ~published
           /\ serial /\ job[m].told = "held" => published

\* The history keeps each execution once, under its own name and released, and
\* no execution in it comes back to the slot, as long as mutations have been
\* serial.
ArchiveIsFinal ==
    serial =>
      /\ \A d \in archive : d.record.exec = d.id /\ d.record.released
      /\ \A d1, d2 \in archive : d1.id = d2.id => d1 = d2
      /\ ~Occupied(slot.exec)

\* A mutation that asked for its turn settles: a mutation cancelled in the
\* queue, or one whose rename the host rejects, blocks no other for good.
EveryMutationSettles ==
    \A m \in Mutations :
       job[m].step = "queued"
         ~> job[m].step \in {"done", "failed", "conflict"} \/ job[m].at \notin up
=============================================================================
