------------------------ MODULE CustodyStore_proofs ------------------------
(***************************************************************************)
(* Proofs about CustodyStore, for every set of mutations and coordinators  *)
(* and every value of the bounds.                                          *)
(***************************************************************************)
EXTENDS CustodyStore, TLAPS

-----------------------------------------------------------------------------
(* What a mutation may look like at each of its steps.                     *)

JobOK(j) ==
    /\ j.step = "new" =>
         /\ j.kind = "none" /\ j.base = Absent /\ j.renames = 0
         /\ ~j.left /\ j.told = "nothing"
    /\ j.step # "new" => j.kind # "none" /\ j.at \in Coordinators
    /\ j.step \in {"issued", "archiving"} /\ Guarded(j.kind) => j.started /\ ~j.left
    /\ j.left => j.cancelled \/ j.step \in {"done", "failed", "conflict"}
    /\ j.step \in {"queued", "base", "staged", "archive", "backoff"} =>
         j.renames < MaxRenames
    /\ j.kind = "reserve" =>
         j.base = Absent /\ j.step \notin {"base", "archive", "archiving"}
    /\ j.kind # "reserve" /\ j.step \in {"staged", "issued", "landed", "rejected", "backoff"} =>
         j.base # Absent
    /\ j.step \in {"archive", "archiving"} => j.base.released
    /\ j.base.released => j.kind = "release"
    /\ j.step \in {"staged", "issued", "landed"} => ~j.base.released
    /\ j.kind = "reserve" /\ j.step \in {"issued", "landed", "rejected", "backoff"} =>
         j.fence = "started"
    /\ j.told = "not-acquired" =>
         /\ j.kind = "reserve" /\ j.cancelled
         /\ j.step \in {"queued", "staged", "failed", "conflict"}
    /\ j.told = "held" => j.kind = "reserve" /\ j.step = "done"

JobsOK == \A m \in Mutations : JobOK(job[m])

(* A reservation that landed stays landed.  Whatever is in the slot, in the *)
(* history or in the hands of a mutation was reserved so, and a mutation    *)
(* only holds what its own coordinator reserved or a dead one did.          *)

Born(m) == job[m].kind = "reserve" /\ job[m].step \in {"landed", "done"}

MayHold(m, base) ==
    base # Absent =>
      /\ Born(base.exec)
      /\ job[base.exec].at = job[m].at \/ job[base.exec].at \notin up

Lineage == \A m \in Mutations : MayHold(m, job[m].base)

Births ==
    /\ slot # Absent => Born(slot.exec)
    /\ \A d \in archive : Born(d.id)

(* While mutations are serial, a rename in flight finds the record it was   *)
(* issued for, and a reservation that landed is in the slot or archived.    *)

Replaces(j) == (j.kind # "reserve" /\ j.step = "issued") \/ j.step = "archiving"

InTurn ==
    serial => Serial /\ \A m \in Mutations : Replaces(job[m]) => slot = job[m].base

Stays == serial => \A m \in Mutations : Born(m) => slot.exec = m \/ Occupied(m)

IInv == TypeOK /\ JobsOK /\ Lineage /\ Births /\ InTurn /\ Stays /\ ArchiveIsFinal

USE StoreAssumption

LEMMA AbsentFields == Absent.exec = None /\ ~Absent.released /\ Absent \notin Records
BY DEF Absent, Records

LEMMA InitIsIInv == Init => IInv
<1> SUFFICES ASSUME Init PROVE IInv
  OBVIOUS
<1>1. NewJob \in Job
  BY DEF NewJob, Job, Kinds, Steps
<1>2. TypeOK
  BY <1>1 DEF Init, TypeOK
<1>3. JobsOK
  BY AbsentFields DEF Init, JobsOK, JobOK, NewJob
<1>4. Lineage /\ Births
  BY DEF Init, Lineage, MayHold, Births, NewJob
<1>5. Serial
  BY DEF Init, Serial, Underway, HasTurn, RenameAtLarge, NewJob
<1>6. InTurn
  BY <1>5 DEF Init, InTurn, Replaces, NewJob
<1>7. Stays
  BY DEF Init, Stays, Born, NewJob
<1>8. ArchiveIsFinal
  BY DEF Init, ArchiveIsFinal, Occupied
<1>9. QED
  BY <1>2, <1>3, <1>4, <1>6, <1>7, <1>8 DEF IInv

-----------------------------------------------------------------------------
(* What a step does to the mutations: one becomes k, of the others no more  *)
(* changes than the turns they wait for.                                    *)

Alike(j, k) ==
    /\ j.kind = k.kind /\ j.at = k.at /\ j.step = k.step /\ j.base = k.base
    /\ j.renames = k.renames /\ j.rounds = k.rounds
    /\ j.cancelled = k.cancelled /\ j.started = k.started /\ j.left = k.left
    /\ j.fence = k.fence /\ j.told = k.told

Moves(m, k) ==
    /\ job' \in [Mutations -> Job]
    /\ tail' \in [Coordinators -> Mutations \union {None}]
    /\ Alike(job'[m], k)
    /\ \A d \in Mutations \ {m} : Alike(job'[d], job[d])

LEMMA BecomeMoves ==
  ASSUME TypeOK, NEW m \in Mutations, NEW step \in Steps, NEW j \in Job,
         Become(m, step, j)
  PROVE  Moves(m, [j EXCEPT !.step = step])
<1> DEFINE k == [j EXCEPT !.step = step]
<1>1. k \in Job
  BY DEF Job
<1>2. job' = [job EXCEPT ![m] = k] /\ tail' = tail
  BY DEF Become
<1>3. job' \in [Mutations -> Job] /\ tail' \in [Coordinators -> Mutations \union {None}]
  BY <1>1, <1>2 DEF TypeOK
<1>4. job'[m] = k /\ \A d \in Mutations \ {m} : job'[d] = job[d]
  BY <1>2 DEF TypeOK
<1>5. QED
  BY <1>3, <1>4 DEF Moves, Alike

LEMMA GiveBackMoves ==
  ASSUME TypeOK, NEW m \in Mutations, NEW j \in Job, j.at \in Coordinators,
         GiveBack(m, j)
  PROVE  Moves(m, [j EXCEPT !.left = TRUE])
<1> DEFINE k == [j EXCEPT !.left = TRUE]
           Shorter(d) == [job[d] EXCEPT !.behind = @ \ {m}]
<1>1. k \in Job
  BY DEF Job
<1>2. \A d \in Mutations : Shorter(d) \in Job /\ Alike(Shorter(d), job[d])
  <2> SUFFICES ASSUME NEW d \in Mutations PROVE Shorter(d) \in Job /\ Alike(Shorter(d), job[d])
    OBVIOUS
  <2>1. job[d] \in Job
    BY DEF TypeOK
  <2>2. job[d].behind \ {m} \in SUBSET Mutations
    BY <2>1 DEF Job
  <2>3. QED
    BY <2>1, <2>2 DEF Job, Alike
<1>3. job' = [d \in Mutations |-> IF d = m THEN k ELSE Shorter(d)]
  BY DEF GiveBack
<1>4. job'[m] = k /\ \A d \in Mutations \ {m} : job'[d] = Shorter(d)
  BY <1>3
<1>5. job' \in [Mutations -> Job]
  BY <1>1, <1>2, <1>3
<1>6. tail' \in [Coordinators -> Mutations \union {None}]
  BY DEF GiveBack, TypeOK
<1>7. Alike(k, k)
  BY DEF Alike
<1>8. QED
  BY <1>2, <1>4, <1>5, <1>6, <1>7 DEF Moves

LEMMA ConcludeMoves ==
  ASSUME TypeOK, NEW m \in Mutations, NEW step \in Steps, NEW j \in Job,
         j.at \in Coordinators, Conclude(m, step, j)
  PROVE  Moves(m, [j EXCEPT !.step = step, !.left = TRUE])
<1> DEFINE i == [j EXCEPT !.step = step]
<1>1. i \in Job /\ i.at \in Coordinators
  BY DEF Job
<1>2. GiveBack(m, i)
  BY DEF Conclude
<1>3. Moves(m, [i EXCEPT !.left = TRUE])
  BY <1>1, <1>2, GiveBackMoves
<1>4. [i EXCEPT !.left = TRUE] = [j EXCEPT !.step = step, !.left = TRUE]
  BY DEF Job
<1>5. QED
  BY <1>3, <1>4

LEMMA QueueMoves ==
  ASSUME TypeOK, NEW m \in Mutations, NEW c \in Coordinators, NEW j \in Job,
         Queue(m, c, j)
  PROVE  Moves(m, [j EXCEPT !.step = "queued"])
<1> DEFINE k == [j EXCEPT !.step = "queued", !.behind = Chain(c)]
<1>1. Chain(c) \in SUBSET Mutations
  BY DEF Chain, TypeOK, Job
<1>2. k \in Job
  BY <1>1 DEF Job, Steps
<1>3. job' = [job EXCEPT ![m] = k] /\ tail' = [tail EXCEPT ![c] = m]
  BY DEF Queue
<1>4. job' \in [Mutations -> Job] /\ tail' \in [Coordinators -> Mutations \union {None}]
  BY <1>2, <1>3 DEF TypeOK
<1>5. job'[m] = k /\ \A d \in Mutations \ {m} : job'[d] = job[d]
  BY <1>3 DEF TypeOK
<1>6. Alike(k, [j EXCEPT !.step = "queued"])
  BY DEF Alike, Job
<1>7. QED
  BY <1>4, <1>5, <1>6 DEF Moves, Alike

-----------------------------------------------------------------------------
(* A step that touches no file keeps the invariant if what its mutation     *)
(* becomes fits the state.                                                  *)

Fits(m, k) ==
    /\ JobOK(k)
    /\ job[m].step # "new" => k.kind = job[m].kind /\ k.at = job[m].at
    /\ k.kind = "reserve" =>
         (k.step \in {"landed", "done"} <=> job[m].step \in {"landed", "done"})
    /\ k.base # Absent =>
         /\ Born(k.base.exec)
         /\ job[k.base.exec].at = k.at \/ job[k.base.exec].at \notin up
    /\ serial /\ Replaces(k) => slot = k.base

\* The history variable only turns when mutations are no longer serial.
Noted == serial' \in BOOLEAN /\ (serial' => serial /\ Serial')

LEMMA AlikeIsOK == ASSUME NEW j, NEW k, Alike(j, k), JobOK(k) PROVE JobOK(j)
BY DEF Alike, JobOK

LEMMA BornStays ==
  ASSUME IInv, NEW m \in Mutations, NEW k, Moves(m, k),
         job[m].step # "new" => k.kind = job[m].kind /\ k.at = job[m].at,
         Born(m) => k.step \in {"landed", "done"}
  PROVE  \A d \in Mutations : Born(d) => Born(d)' /\ job'[d].at = job[d].at
BY DEF Moves, Alike, Born

LEMMA QuietStep ==
  ASSUME IInv, NEW m \in Mutations, NEW k, Moves(m, k), Fits(m, k),
         UNCHANGED <<slot, up, archive>>, Noted
  PROVE  IInv'
<1> USE DEF IInv
<1>1. TypeOK'
  BY DEF TypeOK, Moves, Noted
<1>2. JobsOK'
  BY AlikeIsOK DEF JobsOK, Moves, Fits
<1>3. \A d \in Mutations : Born(d) => Born(d)' /\ job'[d].at = job[d].at
  BY BornStays DEF Fits, Born
<1>4. \A d \in Mutations : Born(d)' => Born(d)
  BY DEF Moves, Alike, Born, Fits, JobOK, JobsOK
<1>5. Lineage'
  <2>1. ASSUME NEW d \in Mutations, NEW o \in Mutations,
               job'[d].base # Absent, o = job'[d].base.exec
        PROVE  Born(o)' /\ (job'[o].at = job'[d].at \/ job'[o].at \notin up')
    <3>1. Born(o) /\ (job[o].at = job'[d].at \/ job[o].at \notin up)
      <4>1. CASE d = m
        BY <2>1, <4>1 DEF Moves, Alike, Fits
      <4>2. CASE d # m
        BY <2>1, <4>2 DEF Moves, Alike, Lineage, MayHold
      <4>3. QED
        BY <4>1, <4>2
    <3>2. QED
      BY <3>1, <1>3
  <2>2. \A d \in Mutations : job'[d].base # Absent => job'[d].base.exec \in Mutations
    BY <1>1 DEF TypeOK, Job, Records
  <2>3. QED
    BY <2>1, <2>2 DEF Lineage, MayHold, Born
<1>6. Births'
  BY <1>3 DEF Births, TypeOK, Records
<1>7. InTurn'
  BY DEF InTurn, Moves, Alike, Fits, Replaces, Noted
<1>8. Stays'
  BY <1>4 DEF Stays, Occupied, Noted, Moves
<1>9. ArchiveIsFinal'
  BY DEF ArchiveIsFinal, Occupied, Noted
<1>10. QED
  BY <1>1, <1>2, <1>5, <1>6, <1>7, <1>8, <1>9

LEMMA Before ==
  ASSUME IInv, NEW m \in Mutations
  PROVE  job[m] \in Job /\ JobOK(job[m]) /\ MayHold(m, job[m].base)
         /\ (serial /\ Replaces(job[m]) => slot = job[m].base)
BY DEF IInv, TypeOK, JobsOK, Lineage, InTurn

Fences == {"open", "started", "published", "conflict", "failed"}
Acting == {"queued", "base", "staged", "issued", "landed", "rejected",
           "archive", "archiving", "backoff"}

\* A mutation may settle at any step; a reservation is done when it landed,
\* and only then.
LEMMA Settles ==
  ASSUME IInv, Noted, UNCHANGED <<slot, up, archive>>, NEW m \in Mutations,
         NEW step \in {"done", "failed", "conflict"}, NEW f \in Fences,
         job[m].step \in Acting,
         job[m].kind = "reserve" => (step = "done" <=> job[m].step = "landed"),
         Conclude(m, step, [job[m] EXCEPT !.fence = f])
  PROVE  IInv'
<1> DEFINE j == [job[m] EXCEPT !.fence = f]
           k == [j EXCEPT !.step = step, !.left = TRUE]
<1>1. job[m] \in Job /\ JobOK(job[m]) /\ MayHold(m, job[m].base)
  BY Before
<1>2. j \in Job /\ j.at \in Coordinators /\ step \in Steps
  BY <1>1 DEF Job, JobOK, Fences, Steps, Acting
<1>3. Moves(m, k)
  BY <1>2, ConcludeMoves DEF IInv
<1>4. /\ k.kind = job[m].kind /\ k.at = job[m].at /\ k.base = job[m].base
      /\ k.step = step /\ k.told = job[m].told /\ k.cancelled = job[m].cancelled
  BY <1>1 DEF Job
<1>5. JobOK(k)
  BY <1>1, <1>4 DEF JobOK, Acting
<1>6. Fits(m, k)
  BY <1>1, <1>4, <1>5 DEF Fits, MayHold, Replaces, Acting
<1>7. QED
  BY <1>3, <1>6, QuietStep

LEMMA SettlesPlainly ==
  ASSUME IInv, Noted, UNCHANGED <<slot, up, archive>>, NEW m \in Mutations,
         NEW step \in {"done", "failed"}, job[m].step \in Acting,
         job[m].kind = "reserve" => step = "failed" /\ job[m].step # "landed",
         Conclude(m, step, job[m])
  PROVE  IInv'
<1>1. job[m] \in Job
  BY Before
<1>2. job[m].fence \in Fences /\ job[m] = [job[m] EXCEPT !.fence = job[m].fence]
  BY <1>1 DEF Job, Fences
<1>3. Conclude(m, step, [job[m] EXCEPT !.fence = job[m].fence])
  BY <1>2
<1>4. QED
  BY <1>2, <1>3, Settles

LEMMA Proceeds ==
  ASSUME IInv, Noted, UNCHANGED <<slot, up, archive>>, NEW m \in Mutations,
         NEW step \in Steps, NEW j \in Job, Become(m, step, j),
         Fits(m, [j EXCEPT !.step = step])
  PROVE  IInv'
<1>1. Moves(m, [j EXCEPT !.step = step])
  BY BecomeMoves DEF IInv
<1>2. QED
  BY <1>1, QuietStep

-----------------------------------------------------------------------------
(* The steps that touch no file.                                           *)

LEMMA AskKeeps ==
  ASSUME IInv, Noted, NEW m \in Mutations, NEW c \in Coordinators,
         NEW kind \in Kinds \ {"none"}, Ask(m, c, kind)
  PROVE  IInv'
<1> DEFINE j == [job[m] EXCEPT !.kind = kind, !.at = c]
           k == [j EXCEPT !.step = "queued"]
<1>1. job[m] \in Job /\ JobOK(job[m]) /\ job[m].step = "new"
  BY Before DEF Ask
<1>2. j \in Job
  BY <1>1 DEF Job
<1>3. Moves(m, k)
  BY <1>2, QueueMoves DEF IInv, Ask
<1>4. JobOK(k)
  BY <1>1 DEF JobOK, Job, Kinds
<1>5. Fits(m, k)
  BY <1>1, <1>4 DEF Fits, JobOK, Job, Replaces
<1>6. QED
  BY <1>3, <1>5, QuietStep DEF Ask

LEMMA TakeTurnKeeps ==
  ASSUME IInv, Noted, NEW m \in Mutations, TakeTurn(m)
  PROVE  IInv'
<1> DEFINE step == IF job[m].kind = "reserve" THEN "staged" ELSE "base"
           k == [job[m] EXCEPT !.step = step]
<1>1. /\ job[m] \in Job /\ JobOK(job[m]) /\ MayHold(m, job[m].base)
      /\ job[m].step = "queued" /\ UNCHANGED <<slot, up, archive>>
  BY Before DEF TakeTurn, At
<1>2. CASE job[m].cancelled
  BY <1>1, <1>2, SettlesPlainly DEF TakeTurn, Acting
<1>3. CASE ~job[m].cancelled
  <2>1. Become(m, step, job[m]) /\ step \in Steps
    BY <1>3 DEF TakeTurn, Steps
  <2>2. JobOK(k)
    BY <1>1, AbsentFields DEF JobOK, Job
  <2>3. Fits(m, k)
    BY <1>1, <2>2 DEF Fits, Job, MayHold, Replaces
  <2>4. QED
    BY <1>1, <2>1, <2>3, Proceeds
<1>4. QED
  BY <1>2, <1>3

LEMMA ReadBaseKeeps ==
  ASSUME IInv, Noted, NEW m \in Mutations, ReadBase(m)
  PROVE  IInv'
<1> DEFINE step == IF slot.released THEN "archive" ELSE "staged"
           j == [job[m] EXCEPT !.base = slot]
           k == [j EXCEPT !.step = step]
<1>1. /\ job[m] \in Job /\ JobOK(job[m]) /\ job[m].step = "base"
      /\ UNCHANGED <<slot, up, archive>>
  BY Before DEF ReadBase, At
<1>2. job[m].kind # "reserve"
  BY <1>1 DEF JobOK
<1>3. CASE Unfit(m)
  BY <1>1, <1>2, <1>3, SettlesPlainly DEF ReadBase, Acting
<1>4. CASE ~Unfit(m)
  <2>1. Become(m, step, j) /\ step \in Steps
    BY <1>4 DEF ReadBase, Steps
  <2>2. slot \in Records /\ Born(slot.exec)
    BY <1>4 DEF IInv, TypeOK, Births, Unfit
  <2>3. j \in Job
    BY <1>1, <2>2 DEF Job
  <2>4. JobOK(k)
    BY <1>1, <1>2, <1>4 DEF JobOK, Job, Unfit
  <2>5. Fits(m, k)
    BY <1>1, <1>2, <1>4, <2>2, <2>4 DEF Fits, Job, MayAct, Unfit, Replaces
  <2>6. QED
    BY <1>1, <2>1, <2>3, <2>5, Proceeds
<1>5. QED
  BY <1>3, <1>4

LEMMA IssuedFields ==
  ASSUME NEW j \in Job, j.renames < MaxRenames
  PROVE  /\ Issued(j) \in Job
         /\ Issued(j).kind = j.kind /\ Issued(j).at = j.at
         /\ Issued(j).base = j.base /\ Issued(j).step = j.step
         /\ Issued(j).cancelled = j.cancelled /\ Issued(j).left = j.left
         /\ Issued(j).told = j.told /\ (Guarded(j.kind) => Issued(j).started)
         /\ j.kind = "reserve" => Issued(j).fence = "started"
<1> DEFINE n == j.renames + 1
           f == IF j.kind = "reserve" THEN "started" ELSE j.fence
           t == j.started \/ Guarded(j.kind)
           i == [j EXCEPT !.started = t, !.renames = n, !.fence = f]
<1>1. n \in 0..MaxRenames
  BY DEF Job
<1>2. f \in {"open", "started", "published", "conflict", "failed"}
      /\ (j.kind = "reserve" => f = "started")
  BY DEF Job
<1>3. Issued(j) = i
  BY DEF Issued
<1>3b. t \in BOOLEAN /\ (Guarded(j.kind) => t)
  BY DEF Job
<1> HIDE DEF n, f, t
<1>4. /\ i \in Job /\ i.kind = j.kind /\ i.at = j.at /\ i.base = j.base
      /\ i.step = j.step /\ i.cancelled = j.cancelled /\ i.left = j.left
      /\ i.told = j.told /\ i.started = t /\ i.fence = f
  BY <1>1, <1>2, <1>3b DEF Job
<1> HIDE DEF i
<1>5. QED
  BY <1>2, <1>3, <1>3b, <1>4

LEMMA CompareAndIssueKeeps ==
  ASSUME IInv, Noted, NEW m \in Mutations, CompareAndIssue(m)
  PROVE  IInv'
<1> DEFINE j == job[m]
           k == [Issued(j) EXCEPT !.step = "issued"]
<1>1. /\ j \in Job /\ JobOK(j) /\ MayHold(m, j.base) /\ j.step = "staged"
      /\ UNCHANGED <<slot, up, archive>>
  BY Before DEF CompareAndIssue, At
<1>2. CASE j.cancelled
  <2>1. (IF j.fence = "started" THEN "failed" ELSE j.fence) \in Fences
    BY <1>1 DEF Job, Fences
  <2>2. QED
    BY <1>1, <1>2, <2>1, Settles DEF CompareAndIssue, Acting
<1>3. CASE ~j.cancelled /\ j.kind = "reserve" /\ slot # Absent
  <2>1. (IF j.fence = "started" THEN "conflict" ELSE j.fence) \in Fences
    BY <1>1 DEF Job, Fences
  <2>2. Conclude(m, "conflict", [j EXCEPT !.fence = IF j.fence = "started" THEN "conflict" ELSE j.fence])
    BY <1>3 DEF CompareAndIssue
  <2>3. QED
    BY <1>1, <2>1, <2>2, Settles DEF Acting
<1>4. CASE ~j.cancelled /\ j.kind # "reserve" /\ slot # j.base
  BY <1>1, <1>4, SettlesPlainly DEF CompareAndIssue, Acting
<1>5. CASE /\ ~j.cancelled /\ ~(j.kind = "reserve" /\ slot # Absent)
           /\ ~(j.kind # "reserve" /\ slot # j.base)
  <2>1. Become(m, "issued", Issued(j)) /\ "issued" \in Steps
    BY <1>5 DEF CompareAndIssue, Steps
  <2>2. j.renames < MaxRenames
    BY <1>1 DEF JobOK
  <2>3. Issued(j) \in Job
    BY <1>1, <2>2, IssuedFields
  <2>4. /\ k.kind = j.kind /\ k.at = j.at /\ k.base = j.base /\ k.step = "issued"
        /\ ~k.cancelled /\ k.left = j.left /\ k.told = j.told /\ (Guarded(k.kind) => k.started)
        /\ k.kind = "reserve" => k.fence = "started"
    BY <1>1, <1>5, <2>2, <2>3, IssuedFields DEF Job
  <2>5. JobOK(k)
    BY <1>1, <1>5, <2>4 DEF JobOK
  <2>6. Fits(m, k)
    BY <1>1, <1>5, <2>4, <2>5 DEF Fits, MayHold, Replaces
  <2>7. QED
    BY <1>1, <2>1, <2>3, <2>6, Proceeds
<1>6. QED
  BY <1>2, <1>3, <1>4, <1>5

LEMMA RenameRejectedKeeps ==
  ASSUME IInv, Noted, NEW m \in Mutations, RenameRejected(m)
  PROVE  IInv'
<1> DEFINE k == [job[m] EXCEPT !.step = "rejected"]
<1>1. /\ job[m] \in Job /\ JobOK(job[m]) /\ MayHold(m, job[m].base)
      /\ job[m].step = "issued" /\ "rejected" \in Steps
  BY Before DEF RenameRejected, Steps
<1>2. JobOK(k)
  BY <1>1 DEF JobOK, Job
<1>3. Fits(m, k)
  BY <1>1, <1>2 DEF Fits, Job, MayHold, Replaces
<1>4. QED
  BY <1>1, <1>3, Proceeds DEF RenameRejected

\* The record a release published is the one it goes on to archive.
LEMMA NextRecordIsRecord ==
  ASSUME IInv, NEW m \in Mutations, job[m].step \in {"issued", "landed"}
  PROVE  /\ NextRecord(m) \in Records /\ NextRecord(m) # Absent
         /\ job[m].kind = "reserve" =>
              NextRecord(m).exec = m /\ NextRecord(m).revision = 0
         /\ job[m].kind # "reserve" =>
              /\ job[m].base \in Records
              /\ NextRecord(m).exec = job[m].base.exec
              /\ NextRecord(m).revision = job[m].base.revision + 1
         /\ job[m].kind = "release" => NextRecord(m).released
<1>1. job[m] \in Job /\ JobOK(job[m])
  BY Before
<1>2. CASE job[m].kind = "reserve"
  <2>1. NextRecord(m) = [exec |-> m, revision |-> 0, released |-> FALSE]
    BY <1>2 DEF NextRecord, Absent
  <2>2. QED
    BY <1>2, <2>1, AbsentFields DEF Records
<1>3. CASE job[m].kind # "reserve"
  <2>1. job[m].base \in Records
    BY <1>1, <1>3 DEF Job, JobOK
  <2>2. CASE job[m].kind \in {"prepare", "advance"}
    <3>1. NextRecord(m) = [job[m].base EXCEPT !.revision = job[m].base.revision + 1]
      BY <2>2 DEF NextRecord
    <3>2. QED
      BY <2>1, <2>2, <3>1, AbsentFields DEF Records
  <2>3. CASE job[m].kind \notin {"prepare", "advance"}
    <3>1. NextRecord(m) = [job[m].base EXCEPT !.revision = job[m].base.revision + 1,
                                              !.released = TRUE]
      BY <1>3, <2>3 DEF NextRecord
    <3> DEFINE b == job[m].base
               n == b.revision + 1
               r == [b EXCEPT !.revision = n, !.released = TRUE]
    <3>2. n \in Nat
      BY <2>1 DEF Records
    <3>3. NextRecord(m) = r
      BY <3>1
    <3> HIDE DEF n
    <3>4. r \in Records /\ r.exec = b.exec /\ r.revision = n /\ r.released = TRUE
      BY <2>1, <3>2 DEF Records
    <3> HIDE DEF r
    <3>5. QED
      BY <1>3, <2>1, <3>3, <3>4, AbsentFields DEF n
  <2>4. QED
    BY <2>2, <2>3
<1>4. QED
  BY <1>2, <1>3

LEMMA LandedKeeps ==
  ASSUME IInv, Noted, NEW m \in Mutations, Landed(m)
  PROVE  IInv'
<1> DEFINE r == NextRecord(m)
           j == [job[m] EXCEPT !.base = r, !.renames = 0]
           k == [j EXCEPT !.step = "archive"]
<1>1. /\ job[m] \in Job /\ JobOK(job[m]) /\ MayHold(m, job[m].base)
      /\ job[m].step = "landed" /\ UNCHANGED <<slot, up, archive>>
  BY Before DEF Landed, At
<1>2. CASE job[m].kind = "reserve"
  <2>1. Conclude(m, "done", [job[m] EXCEPT !.fence = "published"])
    BY <1>2 DEF Landed
  <2>2. QED
    BY <1>1, <2>1, Settles DEF Acting, Fences
<1>3. CASE job[m].kind \in {"prepare", "advance"}
  <2>1. Conclude(m, "done", job[m])
    BY <1>3 DEF Landed
  <2>2. QED
    BY <1>1, <1>3, <2>1, SettlesPlainly DEF Acting
<1>4. CASE job[m].kind = "release"
  <2>1. Become(m, "archive", j) /\ "archive" \in Steps
    BY <1>4 DEF Landed, Steps
  <2>2. r \in Records /\ r.exec = job[m].base.exec /\ r.released /\ job[m].base # Absent
    <3>1. job[m].step \in {"issued", "landed"} /\ job[m].kind # "reserve"
      BY <1>1, <1>4
    <3>2. /\ NextRecord(m) \in Records /\ NextRecord(m).exec = job[m].base.exec
          /\ NextRecord(m).released /\ job[m].base \in Records
      BY <1>4, <3>1, NextRecordIsRecord
    <3>3. QED
      BY <3>2, AbsentFields
  <2> HIDE DEF r
  <2>3. j \in Job
    <3>1. 0 \in 0..MaxRenames
      OBVIOUS
    <3>2. QED
      BY <1>1, <2>2, <3>1 DEF Job
  <2>4. JobOK(k)
    BY <1>1, <1>4, <2>2 DEF JobOK, Job
  <2>5. Fits(m, k)
    BY <1>1, <1>4, <2>2, <2>4 DEF Fits, Job, MayHold, Replaces
  <2>6. QED
    BY <1>1, <2>1, <2>3, <2>5, Proceeds
<1>5. QED
  BY <1>1, <1>2, <1>3, <1>4 DEF Job, Kinds, JobOK

\* A retry waits where its attempt was rejected.
LEMMA BackoffFits ==
  ASSUME IInv, NEW m \in Mutations, job[m].step \in {"rejected", "archiving"},
         MayRetry(job[m])
  PROVE  Fits(m, [job[m] EXCEPT !.step = "backoff"])
<1> DEFINE k == [job[m] EXCEPT !.step = "backoff"]
<1>1. job[m] \in Job /\ JobOK(job[m]) /\ MayHold(m, job[m].base)
  BY Before
<1>2. job[m].kind # "reserve" => job[m].base # Absent
  BY <1>1, AbsentFields DEF JobOK
<1>3. JobOK(k)
  BY <1>1, <1>2 DEF JobOK, Job, MayRetry
<1>4. QED
  BY <1>1, <1>3 DEF Fits, Job, MayHold, Replaces

LEMMA RejectedKeeps ==
  ASSUME IInv, Noted, NEW m \in Mutations, Rejected(m)
  PROVE  IInv'
<1> DEFINE f == IF job[m].kind = "reserve" THEN "failed" ELSE job[m].fence
<1>1. /\ job[m] \in Job /\ job[m].step = "rejected"
      /\ UNCHANGED <<slot, up, archive>>
  BY Before DEF Rejected, At
<1>2. f \in Fences
  BY <1>1 DEF Job, Fences
<1>3. CASE Conclude(m, "conflict", [job[m] EXCEPT !.fence = "conflict"])
  BY <1>1, <1>3, Settles DEF Acting, Fences
<1>4. CASE MayRetry(job[m]) /\ Become(m, "backoff", job[m])
  BY <1>1, <1>4, BackoffFits, Proceeds DEF Steps
<1>5. CASE Conclude(m, "failed", [job[m] EXCEPT !.fence = f])
  BY <1>1, <1>2, <1>5, Settles DEF Acting
<1>6. QED
  BY <1>3, <1>4, <1>5 DEF Rejected

LEMMA BackoffKeeps ==
  ASSUME IInv, Noted, NEW m \in Mutations, Backoff(m)
  PROVE  IInv'
<1> DEFINE f == IF job[m].kind = "reserve" THEN "failed" ELSE job[m].fence
           step == IF job[m].base.released THEN "archive" ELSE "staged"
           k == [job[m] EXCEPT !.step = step]
<1>1. /\ job[m] \in Job /\ JobOK(job[m]) /\ MayHold(m, job[m].base)
      /\ job[m].step = "backoff" /\ UNCHANGED <<slot, up, archive>>
  BY Before DEF Backoff, At
<1>2. CASE job[m].cancelled
  <2>1. f \in Fences
    BY <1>1 DEF Job, Fences
  <2>2. Conclude(m, "failed", [job[m] EXCEPT !.fence = f])
    BY <1>2 DEF Backoff
  <2>3. QED
    BY <1>1, <2>1, <2>2, Settles DEF Acting
<1>3. CASE ~job[m].cancelled
  <2>1. Become(m, step, job[m]) /\ step \in Steps
    BY <1>3 DEF Backoff, Steps
  <2>2. JobOK(k)
    BY <1>1, <1>3, AbsentFields DEF JobOK, Job
  <2>3. Fits(m, k)
    BY <1>1, <2>2 DEF Fits, Job, MayHold, Replaces
  <2>4. QED
    BY <1>1, <2>1, <2>3, Proceeds
<1>4. QED
  BY <1>2, <1>3

LEMMA ReserveAgainKeeps ==
  ASSUME IInv, Noted, NEW m \in Mutations, ReserveAgain(m)
  PROVE  IInv'
<1> DEFINE n == job[m].rounds + 1
           j == [job[m] EXCEPT !.rounds = n, !.renames = 0,
                               !.started = FALSE, !.left = FALSE]
           k == [j EXCEPT !.step = "queued"]
<1>1. /\ job[m] \in Job /\ JobOK(job[m]) /\ MayHold(m, job[m].base)
      /\ job[m].step = "conflict" /\ ~job[m].cancelled
      /\ job[m].rounds + 1 < MaxReservations
      /\ Queue(m, job[m].at, j) /\ UNCHANGED <<slot, up, archive>>
  BY Before DEF ReserveAgain
<1>2. n \in 0..MaxReservations /\ 0 \in 0..MaxRenames
  BY <1>1 DEF Job
<1> HIDE DEF n
<1>3. j \in Job
  BY <1>1, <1>2 DEF Job
<1>4. job[m].at \in Coordinators
  BY <1>1 DEF JobOK
<1>5. Moves(m, k)
  BY <1>1, <1>3, <1>4, QueueMoves DEF IInv
<1>6. JobOK(k)
  BY <1>1 DEF JobOK, Job
<1>7. Fits(m, k)
  BY <1>1, <1>6 DEF Fits, Job, MayHold, Replaces
<1>8. QED
  BY <1>1, <1>5, <1>7, QuietStep

LEMMA CompareAndArchiveKeeps ==
  ASSUME IInv, Noted, NEW m \in Mutations, CompareAndArchive(m)
  PROVE  IInv'
<1> DEFINE j == job[m]
           k == [Issued(j) EXCEPT !.step = "archiving"]
           moved == slot # j.base \/ Occupied(j.base.exec)
<1>1. /\ j \in Job /\ JobOK(j) /\ MayHold(m, j.base) /\ j.step = "archive"
      /\ UNCHANGED <<slot, up, archive>>
  BY Before DEF CompareAndArchive, At
<1>2. j.kind # "reserve" /\ j.renames < MaxRenames
  BY <1>1 DEF JobOK
<1>3. CASE Conclude(m, "failed", j)
  BY <1>1, <1>2, <1>3, SettlesPlainly DEF Acting
<1>4. CASE Conclude(m, "done", j)
  BY <1>1, <1>2, <1>4, SettlesPlainly DEF Acting
<1>5. CASE ~j.cancelled /\ ~moved /\ Become(m, "archiving", Issued(j))
  <2>1. Issued(j) \in Job /\ "archiving" \in Steps
    BY <1>1, <1>2, IssuedFields DEF Steps
  <2>2. /\ k.kind = j.kind /\ k.at = j.at /\ k.base = j.base /\ k.step = "archiving"
        /\ ~k.cancelled /\ k.left = j.left /\ k.told = j.told /\ (Guarded(k.kind) => k.started)
    BY <1>1, <1>2, <1>5, <2>1, IssuedFields DEF Job
  <2>3. JobOK(k)
    BY <1>1, <1>2, <1>5, <2>2 DEF JobOK
  <2>4. Fits(m, k)
    BY <1>1, <1>2, <1>5, <2>2, <2>3 DEF Fits, MayHold
  <2>5. QED
    BY <1>1, <1>5, <2>1, <2>4, Proceeds
<1>6. \/ Conclude(m, "failed", j) \/ Conclude(m, "done", j)
      \/ ~j.cancelled /\ ~moved /\ Become(m, "archiving", Issued(j))
  <2>1. CASE j.cancelled
    BY <2>1 DEF CompareAndArchive
  <2>2. CASE ~j.cancelled /\ ArchivedAlready(m)
    BY <2>2 DEF CompareAndArchive
  <2>3. CASE ~j.cancelled /\ ~ArchivedAlready(m) /\ moved
    BY <2>3 DEF CompareAndArchive
  <2>4. CASE ~j.cancelled /\ ~ArchivedAlready(m) /\ ~moved
    BY <2>4 DEF CompareAndArchive
  <2>5. QED
    BY <2>1, <2>2, <2>3, <2>4
<1>7. QED
  BY <1>3, <1>4, <1>5, <1>6

LEMMA ArchiveRejectedKeeps ==
  ASSUME IInv, Noted, NEW m \in Mutations, ArchiveRejected(m)
  PROVE  IInv'
<1>1. /\ job[m] \in Job /\ JobOK(job[m]) /\ job[m].step = "archiving"
      /\ UNCHANGED <<slot, up, archive>>
  BY Before DEF ArchiveRejected
<1>2. job[m].kind # "reserve"
  BY <1>1 DEF JobOK
<1>3. CASE Conclude(m, "done", job[m])
  BY <1>1, <1>2, <1>3, SettlesPlainly DEF Acting
<1>4. CASE MayRetry(job[m]) /\ Become(m, "backoff", job[m])
  BY <1>1, <1>4, BackoffFits, Proceeds DEF Steps
<1>5. CASE Conclude(m, "failed", job[m])
  BY <1>1, <1>2, <1>5, SettlesPlainly DEF Acting
<1>6. QED
  BY <1>3, <1>4, <1>5 DEF ArchiveRejected

LEMMA CancelKeeps ==
  ASSUME IInv, Noted, NEW m \in Mutations, Cancel(m)
  PROVE  IInv'
<1> DEFINE j == [job[m] EXCEPT !.cancelled = TRUE]
<1>1. /\ job[m] \in Job /\ JobOK(job[m]) /\ MayHold(m, job[m].base)
      /\ (serial /\ Replaces(job[m]) => slot = job[m].base)
      /\ job[m].step \notin {"new", "done", "failed"}
      /\ UNCHANGED <<slot, up, archive>>
  BY Before DEF Cancel
<1>2. j \in Job /\ j.step \in Steps /\ j.at \in Coordinators /\ j.started = job[m].started
  BY <1>1 DEF Job, JobOK
<1>3. CASE job[m].started
  <2> DEFINE k == [j EXCEPT !.step = j.step]
  <2>1. Become(m, j.step, j)
    BY <1>2, <1>3 DEF Cancel
  <2>2. JobOK(k)
    BY <1>1 DEF JobOK, Job
  <2>3. Fits(m, k)
    BY <1>1, <2>2 DEF Fits, Job, MayHold, Replaces
  <2>4. QED
    BY <1>1, <1>2, <2>1, <2>3, Proceeds
<1>4. CASE ~job[m].started
  <2> DEFINE k == [j EXCEPT !.left = TRUE]
  <2>1. Moves(m, k)
    BY <1>2, <1>4, GiveBackMoves DEF IInv, Cancel
  <2>2. JobOK(k)
    BY <1>1, <1>4 DEF JobOK, Job
  <2>3. Fits(m, k)
    BY <1>1, <2>2 DEF Fits, Job, MayHold, Replaces
  <2>4. QED
    BY <1>1, <2>1, <2>3, QuietStep
<1>5. QED
  BY <1>3, <1>4

\* What a stopped request is told is settled by then.
LEMMA TellKeeps ==
  ASSUME IInv, Noted, NEW m \in Mutations, Tell(m)
  PROVE  IInv'
<1>1. /\ job[m] \in Job /\ JobOK(job[m]) /\ MayHold(m, job[m].base)
      /\ (serial /\ Replaces(job[m]) => slot = job[m].base)
      /\ job[m].kind = "reserve" /\ job[m].told = "nothing"
      /\ job[m].cancelled \/ job[m].step = "done"
      /\ job[m].at \in up /\ UNCHANGED <<slot, up, archive>>
  BY Before DEF Tell
<1>2. PICK answer \in {"held", "not-acquired", "unproven"} :
        /\ Become(m, job[m].step, [job[m] EXCEPT !.told = answer])
        /\ answer = "held" => job[m].step = "done"
        /\ answer = "not-acquired" =>
             /\ job[m].step # "done"
             /\ \/ job[m].fence = "open"
                \/ job[m].step \in {"done", "failed", "conflict"}
  BY DEF Tell
<1> DEFINE j == [job[m] EXCEPT !.told = answer]
           k == [j EXCEPT !.step = job[m].step]
<1>3. j \in Job /\ job[m].step \in Steps
  BY <1>1 DEF Job
<1>4. job[m].step # "new"
  BY <1>1 DEF JobOK
<1>5. JobOK(k)
  BY <1>1, <1>2, <1>4 DEF JobOK, Job, Steps
<1>6. Fits(m, k)
  BY <1>1, <1>5 DEF Fits, Job, MayHold, Replaces
<1>7. QED
  BY <1>1, <1>2, <1>3, <1>6, Proceeds

LEMMA CrashKeeps ==
  ASSUME IInv, Noted, NEW c \in Coordinators, Crash(c)
  PROVE  IInv'
<1> USE DEF Crash
<1>1. TypeOK'
  BY DEF IInv, TypeOK, Noted
<1>2. JobsOK'
  BY DEF IInv, JobsOK, JobOK
<1>3. Lineage' /\ Births'
  BY DEF IInv, Lineage, MayHold, Births, Born
<1>4. InTurn'
  BY DEF IInv, InTurn, Replaces, Noted
<1>5. Stays' /\ ArchiveIsFinal'
  BY DEF IInv, Stays, ArchiveIsFinal, Born, Occupied, Noted
<1>6. QED
  BY <1>1, <1>2, <1>3, <1>4, <1>5 DEF IInv

-----------------------------------------------------------------------------
(* The steps that touch a file.  No rename in flight stands in the way of   *)
(* another while mutations are serial: both would be issued for the record  *)
(* in the slot, whose coordinator is alive, and so by that coordinator.     *)

LEMMA NoCollision ==
  ASSUME IInv, serial, NEW m \in Mutations, NEW d \in Mutations, m # d,
         job[m].step \in {"issued", "archiving"},
         job[m].kind = "reserve" => slot = Absent,
         Replaces(job[d])
  PROVE  FALSE
<1>1. JobOK(job[m]) /\ JobOK(job[d]) /\ MayHold(m, job[m].base) /\ MayHold(d, job[d].base)
  BY Before
<1>2. Underway(m) /\ Underway(d)
  BY <1>1 DEF Underway, HasTurn, RenameAtLarge, JobOK, Replaces, Guarded
<1>3. job[m].at # job[d].at /\ up = Coordinators
  BY <1>2 DEF IInv, InTurn, Serial
<1>4. slot = job[d].base /\ slot # Absent
  BY <1>1, AbsentFields DEF IInv, InTurn, JobOK, Replaces
<1>5. slot = job[m].base
  BY <1>4 DEF IInv, InTurn, Replaces
<1>6. slot.exec \in Mutations /\ Born(slot.exec)
  BY <1>4, <1>1 DEF IInv, TypeOK, Records, MayHold
<1>7. job[slot.exec].at \in Coordinators
  BY <1>6 DEF IInv, JobsOK, JobOK, Born
<1>8. job[slot.exec].at = job[d].at /\ job[slot.exec].at = job[m].at
  BY <1>1, <1>3, <1>4, <1>5, <1>7 DEF MayHold
<1>9. QED
  BY <1>3, <1>8

LEMMA RenameLandsKeeps ==
  ASSUME IInv, Noted, NEW m \in Mutations, RenameLands(m)
  PROVE  IInv'
<1> DEFINE r == NextRecord(m)
           k == [job[m] EXCEPT !.step = "landed"]
<1>1. /\ job[m] \in Job /\ JobOK(job[m]) /\ MayHold(m, job[m].base)
      /\ job[m].step = "issued" /\ slot' = r /\ UNCHANGED <<up, archive>>
      /\ IF job[m].kind = "reserve" THEN slot = Absent ELSE slot # Absent
  BY Before DEF RenameLands
<1>2. /\ r \in Records /\ r # Absent
      /\ job[m].kind = "reserve" => r.exec = m
      /\ job[m].kind # "reserve" => job[m].base \in Records /\ r.exec = job[m].base.exec
  BY <1>1, NextRecordIsRecord
<1> HIDE DEF r
<1>3. Moves(m, k)
  BY <1>1, BecomeMoves DEF RenameLands, IInv, Steps
<1>4. /\ k.kind = job[m].kind /\ k.at = job[m].at /\ k.base = job[m].base
      /\ k.step = "landed"
  BY <1>1 DEF Job
<1>5. JobOK(k)
  BY <1>1 DEF JobOK, Job
<1>6. \A d \in Mutations : Born(d) => Born(d)' /\ job'[d].at = job[d].at
  BY <1>1, <1>3, <1>4, BornStays
<1>7. \A d \in Mutations : Born(d)' => Born(d) \/ (d = m /\ job[m].kind = "reserve")
  BY <1>3, <1>4 DEF Moves, Alike, Born
<1>8. PICK o \in Mutations : o = r.exec
  BY <1>2 DEF Records
<1>8b. Born(o)'
  <2>1. CASE job[m].kind = "reserve"
    BY <1>2, <1>3, <1>4, <1>8, <2>1 DEF Moves, Alike, Born
  <2>2. CASE job[m].kind # "reserve"
    BY <1>1, <1>2, <1>6, <1>8, <2>2, AbsentFields DEF MayHold
  <2>3. QED
    BY <2>1, <2>2
<1>9. TypeOK'
  BY <1>1, <1>2, <1>3 DEF IInv, TypeOK, Moves, Noted
<1>10. JobsOK'
  BY <1>3, <1>5, AlikeIsOK DEF IInv, JobsOK, Moves
<1>11. \A d \in Mutations : job'[d].base = job[d].base /\ job'[d].at = job[d].at
  BY <1>3, <1>4 DEF Moves, Alike
<1>12. Lineage'
  <2>1. ASSUME NEW d \in Mutations, NEW n \in Mutations,
               job[d].base # Absent, n = job[d].base.exec
        PROVE  Born(n)' /\ (job'[n].at = job'[d].at \/ job'[n].at \notin up')
    BY <1>1, <1>6, <1>11, <2>1 DEF IInv, Lineage, MayHold
  <2>2. \A d \in Mutations : job[d].base # Absent => job[d].base.exec \in Mutations
    BY DEF IInv, TypeOK, Job, Records
  <2>3. QED
    BY <1>11, <2>1, <2>2 DEF Lineage, MayHold, Born
<1>13. Births'
  <2>1. \A d \in archive : d.id \in Mutations /\ Born(d.id)
    BY DEF IInv, TypeOK, Births
  <2>2. QED
    BY <1>1, <1>6, <1>8, <1>8b, <2>1 DEF Births, Born
<1>14. InTurn'
  <2> SUFFICES ASSUME serial' PROVE Serial' /\ \A d \in Mutations : Replaces(job'[d]) => slot' = job'[d].base
    BY DEF InTurn, Replaces
  <2>1. serial /\ Serial'
    BY DEF Noted
  <2>2. \A d \in Mutations \ {m} : ~Replaces(job[d])
    BY <1>1, <2>1, NoCollision
  <2>3. \A d \in Mutations : ~Replaces(job'[d])
    BY <1>3, <1>4, <2>2 DEF Moves, Alike, Replaces
  <2>4. QED
    BY <2>1, <2>3
<1>15. serial /\ job[m].kind # "reserve" => slot = job[m].base /\ r.exec = slot.exec
  BY <1>1, <1>2 DEF IInv, InTurn, Replaces
<1>16. job[m].kind = "reserve" => slot.exec = None /\ ~Born(m)
  BY <1>1, AbsentFields DEF Born
<1>17. Stays'
  <2> SUFFICES ASSUME serial', NEW d \in Mutations, Born(d)'
               PROVE  slot'.exec = d \/ Occupied(d)'
    BY DEF Stays
  <2>1. serial
    BY DEF Noted
  <2>2. CASE Born(d)
    <3>1. slot.exec = d \/ Occupied(d)
      BY <2>1, <2>2 DEF IInv, Stays
    <3>2. Occupied(d) => Occupied(d)'
      BY <1>1 DEF Occupied
    <3>3. QED
      BY <1>1, <1>15, <1>16, <2>1, <3>1, <3>2
  <2>3. CASE d = m /\ job[m].kind = "reserve"
    BY <1>1, <1>2, <2>3
  <2>4. QED
    BY <1>7, <2>2, <2>3
<1>18. ArchiveIsFinal'
  <2> SUFFICES ASSUME serial PROVE ~Occupied(r.exec)
    BY <1>1 DEF IInv, ArchiveIsFinal, Occupied, Noted
  <2>1. CASE job[m].kind = "reserve"
    BY <1>2, <1>16, <2>1 DEF IInv, Births, Occupied
  <2>2. CASE job[m].kind # "reserve"
    BY <1>15, <2>2 DEF IInv, ArchiveIsFinal
  <2>3. QED
    BY <2>1, <2>2
<1>19. QED
  BY <1>9, <1>10, <1>12, <1>13, <1>14, <1>17, <1>18 DEF IInv

LEMMA ArchiveLandsKeeps ==
  ASSUME IInv, Noted, NEW m \in Mutations, ArchiveLands(m)
  PROVE  IInv'
<1> DEFINE base == job[m].base
           new == Directory(base.exec, slot)
           k == [job[m] EXCEPT !.step = "done", !.left = TRUE]
<1>1. /\ job[m] \in Job /\ JobOK(job[m]) /\ MayHold(m, base)
      /\ job[m].step = "archiving" /\ slot # Absent /\ ~Occupied(base.exec)
      /\ archive' = archive \union {new} /\ slot' = Absent /\ up' = up
  BY Before DEF ArchiveLands
<1>2. /\ job[m].kind # "reserve" /\ base # Absent /\ base \in Records /\ base.released
      /\ job[m].at \in Coordinators
  BY <1>1, AbsentFields DEF JobOK, Job
<1>3. Moves(m, k)
  BY <1>1, <1>2, ConcludeMoves DEF ArchiveLands, IInv, Steps
<1>4. /\ k.kind = job[m].kind /\ k.at = job[m].at /\ k.base = job[m].base
      /\ k.step = "done"
  BY <1>1 DEF Job
<1>5. JobOK(k)
  BY <1>1, <1>2 DEF JobOK, Job
<1>6. \A d \in Mutations : Born(d) => Born(d)' /\ job'[d].at = job[d].at
  BY <1>1, <1>3, <1>4, BornStays
<1>7. \A d \in Mutations : Born(d)' => Born(d)
  BY <1>2, <1>3, <1>4 DEF Moves, Alike, Born
<1>8. new.id = base.exec /\ new.record = slot /\ base.exec \in Mutations
      /\ new \in [id : Mutations, record : Records]
  BY <1>1, <1>2 DEF Directory, Records, IInv, TypeOK
<1> HIDE DEF new
<1>9. TypeOK'
  BY <1>1, <1>3, <1>8 DEF IInv, TypeOK, Moves, Noted
<1>10. JobsOK'
  BY <1>3, <1>5, AlikeIsOK DEF IInv, JobsOK, Moves
<1>11. \A d \in Mutations : job'[d].base = job[d].base /\ job'[d].at = job[d].at
  BY <1>3, <1>4 DEF Moves, Alike
<1>12. Lineage'
  <2>1. ASSUME NEW d \in Mutations, NEW o \in Mutations,
               job[d].base # Absent, o = job[d].base.exec
        PROVE  Born(o)' /\ (job'[o].at = job'[d].at \/ job'[o].at \notin up')
    BY <1>1, <1>6, <1>11, <2>1 DEF IInv, Lineage, MayHold
  <2>2. \A d \in Mutations : job[d].base # Absent => job[d].base.exec \in Mutations
    BY DEF IInv, TypeOK, Job, Records
  <2>3. QED
    BY <1>11, <2>1, <2>2 DEF Lineage, MayHold, Born
<1>13. Births'
  <2>1. \A d \in archive' : d.id \in Mutations /\ Born(d.id)
    BY <1>1, <1>2, <1>8 DEF IInv, TypeOK, Births, MayHold
  <2>2. QED
    BY <1>1, <1>6, <2>1 DEF Births, Born
<1>14. serial => \A d \in Mutations \ {m} : ~Replaces(job[d])
  BY <1>1, <1>2, NoCollision
<1>15. InTurn'
  <2>1. serial' => \A d \in Mutations : ~Replaces(job'[d])
    BY <1>3, <1>4, <1>14 DEF Moves, Alike, Replaces, Noted
  <2>2. QED
    BY <2>1 DEF InTurn, Noted
<1>16. serial => slot = base
  BY <1>1 DEF IInv, InTurn, Replaces
<1>17. Stays'
  <2> SUFFICES ASSUME serial', NEW d \in Mutations, Born(d)'
               PROVE  \E e \in archive' : e.id = d
    BY DEF Stays, Occupied
  <2>1. serial /\ (slot.exec = d \/ Occupied(d))
    BY <1>7 DEF Noted, IInv, Stays
  <2>2. QED
    BY <1>1, <1>8, <1>16, <2>1 DEF Occupied
<1>18. ArchiveIsFinal'
  <2> SUFFICES ASSUME serial
               PROVE  /\ \A d \in archive' : d.record.exec = d.id /\ d.record.released
                      /\ \A d1, d2 \in archive' : d1.id = d2.id => d1 = d2
                      /\ \A d \in archive' : d.id # Absent.exec
    BY <1>1 DEF ArchiveIsFinal, Occupied, Noted
  <2>1. \A d \in archive' : d.record.exec = d.id /\ d.record.released
    BY <1>1, <1>2, <1>8, <1>16 DEF IInv, ArchiveIsFinal
  <2>2. \A d1, d2 \in archive' : d1.id = d2.id => d1 = d2
    BY <1>1, <1>8 DEF IInv, ArchiveIsFinal, Occupied
  <2>3. \A d \in archive' : d.id # Absent.exec
    BY <1>9, AbsentFields DEF TypeOK
  <2>4. QED
    BY <2>1, <2>2, <2>3
<1>19. QED
  BY <1>9, <1>10, <1>12, <1>13, <1>15, <1>17, <1>18 DEF IInv

-----------------------------------------------------------------------------
(* Every step keeps the invariant.                                         *)

LEMMA StepKeepsIInv ==
  ASSUME IInv, [Next]_vars
  PROVE  IInv'
<1>1. CASE UNCHANGED vars
  BY <1>1 DEF vars, IInv, TypeOK, JobsOK, JobOK, Lineage, MayHold, Births, Born,
              InTurn, Replaces, Serial, Underway, HasTurn, RenameAtLarge, Stays, Occupied, ArchiveIsFinal
<1>2. CASE Next
  <2>1. serial \in BOOLEAN /\ serial' = (serial /\ Serial')
    BY <1>2 DEF Next, IInv, TypeOK
  <2>2. serial' \in BOOLEAN /\ (serial' => serial /\ Serial')
    BY <2>1, Zenon
  <2>3. Noted
    BY <2>2 DEF Noted
  <2>4. ASSUME NEW c \in Coordinators, Crash(c) PROVE IInv'
    BY <2>3, <2>4, CrashKeeps
  <2>5. ASSUME NEW m \in Mutations, Step(m) PROVE IInv'
    <3>1. CASE \E c \in Coordinators, kind \in Kinds \ {"none"} : Ask(m, c, kind)
      BY <2>3, <3>1, AskKeeps
    <3>2. CASE TakeTurn(m)
      BY <2>3, <3>2, TakeTurnKeeps
    <3>3. CASE ReadBase(m)
      BY <2>3, <3>3, ReadBaseKeeps
    <3>4. CASE CompareAndIssue(m)
      BY <2>3, <3>4, CompareAndIssueKeeps
    <3>5. CASE RenameLands(m)
      BY <2>3, <3>5, RenameLandsKeeps
    <3>6. CASE RenameRejected(m)
      BY <2>3, <3>6, RenameRejectedKeeps
    <3>7. CASE Landed(m)
      BY <2>3, <3>7, LandedKeeps
    <3>8. CASE Rejected(m)
      BY <2>3, <3>8, RejectedKeeps
    <3>9. CASE Backoff(m)
      BY <2>3, <3>9, BackoffKeeps
    <3>10. CASE ReserveAgain(m)
      BY <2>3, <3>10, ReserveAgainKeeps
    <3>11. CASE CompareAndArchive(m)
      BY <2>3, <3>11, CompareAndArchiveKeeps
    <3>12. CASE ArchiveLands(m)
      BY <2>3, <3>12, ArchiveLandsKeeps
    <3>13. CASE ArchiveRejected(m)
      BY <2>3, <3>13, ArchiveRejectedKeeps
    <3>14. CASE Cancel(m)
      BY <2>3, <3>14, CancelKeeps
    <3>15. CASE Tell(m)
      BY <2>3, <3>15, TellKeeps
    <3>16. QED
      BY <2>5, <3>1, <3>2, <3>3, <3>4, <3>5, <3>6, <3>7, <3>8, <3>9, <3>10,
         <3>11, <3>12, <3>13, <3>14, <3>15 DEF Step
  <2>6. QED
    BY <1>2, <2>4, <2>5 DEF Next
<1>3. QED
  BY <1>1, <1>2

LEMMA IInvHolds == Spec => []IInv
BY InitIsIInv, StepKeepsIInv, PTL DEF Spec

\* Every variable keeps its type: in particular, no publication is attempted
\* more often than its bound, and no reservation goes round more often.
THEOREM TypeCorrectness == Spec => []TypeOK
<1>1. IInv => TypeOK
  BY DEF IInv
<1>2. QED
  BY <1>1, IInvHolds, PTL

\* The history keeps each execution once, released, under its own name, as
\* long as mutations have been serial: no two of a coordinator in a turn at once,
\* and none under way beside a rename that no guard covers and whose request
\* stopped.
THEOREM HistoryIsFinal == Spec => []ArchiveIsFinal
<1>1. IInv => ArchiveIsFinal
  BY DEF IInv
<1>2. QED
  BY <1>1, IInvHolds, PTL

\* A reservation that a stopped request is told was not acquired was never
\* published and never will be, whatever rename was in flight and whether or not
\* mutations were serial; one it is told is held stays in the slot or the
\* history as long as they were.
THEOREM StoppedRequestIsToldTheTruth == Spec => []FenceTellsTruth
<1>1. ASSUME IInv PROVE FenceTellsTruth
  <2> SUFFICES ASSUME NEW m \in Mutations
               PROVE  /\ job[m].told = "not-acquired" => slot.exec # m /\ ~Occupied(m)
                      /\ serial /\ job[m].told = "held" => slot.exec = m \/ Occupied(m)
    BY DEF FenceTellsTruth
  <2>1. JobOK(job[m])
    BY <1>1, Before
  <2>2. job[m].told = "not-acquired" => ~Born(m)
    BY <2>1 DEF JobOK, Born
  <2>3. slot.exec = m => Born(m)
    BY <1>1, AbsentFields DEF IInv, Births
  <2>4. Occupied(m) => Born(m)
    BY <1>1 DEF IInv, Births, Occupied
  <2>5. job[m].told = "held" => Born(m)
    BY <2>1 DEF JobOK, Born
  <2>6. QED
    BY <1>1, <2>2, <2>3, <2>4, <2>5 DEF IInv, Stays
<1>2. QED
  BY <1>1, IInvHolds, PTL

\* As long as mutations have been serial, a rename builds on the record that is
\* in the slot: no stale callback overwrites a later state, a released record
\* or a newly admitted owner.  A rename in flight whose request stopped is no
\* exception if it is guarded; an unguarded one must have been alone.
THEOREM NoUpdateIsLost == Spec => SerialUpdatesAreNotLost
<1>1. ASSUME IInv, [Next]_vars PROVE [serial => BuildsOnSlot]_vars
  <2> SUFFICES ASSUME serial, slot' # slot PROVE BuildsOnSlot
    BY DEF BuildsOnSlot
  <2>1. PICK m \in Mutations : RenameLands(m) \/ ArchiveLands(m)
    BY <1>1 DEF Next, vars, Step, Crash, Ask, TakeTurn, ReadBase, CompareAndIssue,
                RenameRejected, Landed, Rejected, Backoff, ReserveAgain,
                CompareAndArchive, ArchiveRejected, Cancel, Tell
  <2>2. /\ job[m] \in Job /\ JobOK(job[m])
        /\ Replaces(job[m]) => slot = job[m].base
    BY <1>1, Before
  <2>3. CASE RenameLands(m)
    <3>1. /\ job[m].step = "issued" /\ slot' = NextRecord(m)
          /\ job[m].kind = "reserve" => slot = Absent
      BY <2>3 DEF RenameLands
    <3>2. CASE job[m].kind = "reserve"
      BY <1>1, <3>1, <3>2, NextRecordIsRecord DEF BuildsOnSlot
    <3>3. CASE job[m].kind # "reserve"
      <4>1. slot = job[m].base /\ ~slot.released
        BY <2>2, <3>1, <3>3 DEF Replaces, JobOK
      <4>2. slot'.exec = slot.exec /\ slot'.revision = slot.revision + 1
        BY <1>1, <3>1, <3>3, <4>1, NextRecordIsRecord
      <4>3. QED
        BY <4>1, <4>2 DEF BuildsOnSlot
    <3>4. QED
      BY <3>2, <3>3
  <2>4. CASE ArchiveLands(m)
    <3>1. job[m].step = "archiving" /\ slot' = Absent
      BY <2>4 DEF ArchiveLands
    <3>2. slot.released
      BY <2>2, <3>1 DEF Replaces, JobOK
    <3>3. QED
      BY <3>1, <3>2 DEF BuildsOnSlot
  <2>5. QED
    BY <2>1, <2>3, <2>4
<1>2. QED
  BY <1>1, IInvHolds, PTL DEF Spec, SerialUpdatesAreNotLost
=============================================================================
