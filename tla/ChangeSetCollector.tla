------------------------- MODULE ChangeSetCollector -------------------------
(***************************************************************************)
(* collectChangeSet (src/src/changeset/collector.mjs, workspace-digest.mjs,*)
(* target.mjs): the identity of what is changed in a repository, read in   *)
(* many steps while others may write.                                      *)
(*                                                                         *)
(* The collector looks at status, target and submodule head, reads every   *)
(* changed file between two stats, and looks at the three again; only if   *)
(* nothing differs is the identity called exact.  A deadline, an abort or  *)
(* an error answers at any point.                                          *)
(*                                                                         *)
(* Status tells which files differ from the index, not what they say: of   *)
(* two texts of a changed file it shows the same.                          *)
(***************************************************************************)
EXTENDS Integers, Sequences, FiniteSets

CONSTANTS
    Paths,        \* files of the work tree
    Texts,        \* what a changed file may say
    Targets,      \* what the declared review target may resolve to, or not
    Heads,        \* commits the submodule may have checked out, none the index's
    Clean,        \* a file as the index has it
    Review,       \* the execution a coherent review collects for
    Writers,      \* executions that may edit the work tree
    None,
    MaxAttempts,  \* MAX_COLLECTION_ATTEMPTS (3)
    MaxWrites     \* bound on the changes made to the repository

ASSUME CollectorAssumption ==
    /\ Clean \notin Texts /\ None \notin Paths \union Targets \union Heads
    /\ Review # None /\ Review \notin Writers /\ None \notin Writers
    /\ MaxAttempts \in Nat \ {0} /\ MaxWrites \in Nat

VARIABLES
    repo,      \* what is in the repository
    custody,   \* the execution whose record is under ownership/, or None
    writes,    \* the number of changes so far
    coll,      \* the collection
    course     \* what was in the repository, change by change, since the
               \* collection's last attempt began: for the properties only

collectorVars == <<repo, custody, writes, coll, course>>

Repository == [tree : [Paths -> Texts \union {Clean}], target : Targets, head : Heads]

Status == {p \in Paths : repo.tree[p] # Clean}

\* What parsePorcelainV2, resolveTargetContext, readCleanSubmoduleHeads and
\* digestEntry would say of a repository at rest.
Identity(r) == [status |-> {p \in Paths : r.tree[p] # Clean},
                files |-> [p \in Paths |-> r.tree[p]], target |-> r.target, head |-> r.head]

Steps == {"off", "custody", "status", "target", "head", "files",
          "status again", "target again", "head again"}

Answers == {"none", "exact", "unstable", "lost", "busy", "refused", "expired"}

Collection ==
    [pc : Steps,
     held : BOOLEAN,                  \* custodyExpectation: exclusive-held, or observational
     attempt : 1..MaxAttempts,
     status : SUBSET Paths,           \* observation A
     target : Targets \union {None},
     head : Heads \union {None},
     files : [Paths -> Texts \union {Clean}],
     todo : SUBSET Paths,             \* changed files not yet read
     reading : Paths \union {None},   \* the file between its two stats
     torn : BOOLEAN,                  \* it was written since the first
     again : BOOLEAN,                 \* its one retry is under way
     answer : Answers]

Blank == [pc |-> "off", held |-> FALSE, attempt |-> 1, status |-> {}, target |-> None,
          head |-> None, files |-> [p \in Paths |-> Clean], todo |-> {},
          reading |-> None, torn |-> FALSE, again |-> FALSE, answer |-> "none"]

Collected == [status |-> coll.status, files |-> coll.files,
              target |-> coll.target, head |-> coll.head]

Exact == coll.answer = "exact"

CollectorInit ==
    /\ repo \in Repository /\ custody = None /\ writes = 0 /\ course = <<repo>>
    /\ coll = Blank

-----------------------------------------------------------------------------
(* The repository and its writers.                                         *)

Running == coll.pc # "off"

Change(new) ==
    /\ writes < MaxWrites /\ new # repo
    /\ repo' = new /\ writes' = writes + 1
    /\ course' = IF Running THEN Append(course, new) ELSE course
    /\ UNCHANGED custody

\* A write to the file being read shows in its second stat.
WriteFile(p, text) ==
    /\ Change([repo EXCEPT !.tree[p] = text])
    /\ coll' = [coll EXCEPT !.torn = @ \/ coll.reading = p]

MoveTarget(t) == Change([repo EXCEPT !.target = t]) /\ UNCHANGED coll
MoveHead(h) == Change([repo EXCEPT !.head = h]) /\ UNCHANGED coll

AnyChange ==
    \/ \E p \in Paths, text \in Texts \union {Clean} : WriteFile(p, text)
    \/ \E t \in Targets : MoveTarget(t)
    \/ \E h \in Heads : MoveHead(h)

\* The write slot, as ReviewBinding sees WriteCustody.
WriterTakesCustody(w) ==
    custody = None /\ custody' = w /\ UNCHANGED <<repo, writes, coll, course>>

WriterReturnsCustody(w) ==
    custody = w /\ custody' = None /\ UNCHANGED <<repo, writes, coll, course>>

-----------------------------------------------------------------------------
(* The collector.                                                          *)

At(step) == coll.pc = step

\* An answer that is not exact carries reasons and no identity.
Answer(a) ==
    /\ coll' = [Blank EXCEPT !.answer = a]
    /\ course' = <<repo>>
    /\ UNCHANGED <<repo, custody, writes>>

Collect(new) == coll' = new /\ UNCHANGED <<repo, custody, writes, course>>

\* Only instability is worth another attempt.
NextAttempt(c) == [Blank EXCEPT !.pc = "status", !.held = c.held, !.attempt = c.attempt + 1]

\* Mutant: instability is worth any number of attempts.
UnstableForever == Collect(NextAttempt(coll))

Unstable ==
    IF coll.attempt < MaxAttempts THEN Collect(NextAttempt(coll)) ELSE Answer("unstable")

Begin(exclusive) == coll' = [Blank EXCEPT !.pc = "custody", !.held = exclusive]

\* verifyCustodyExpectation, and getting to the top of the work tree.
VerifyCustodyExpectation ==
    /\ At("custody")
    /\ \/ coll.held /\ custody # Review /\ Answer("lost")
       \/ ~coll.held /\ custody # None /\ Answer("busy")
       \/ custody = (IF coll.held THEN Review ELSE None)
          /\ Collect([coll EXCEPT !.pc = "status"])

ReadStatusSnapshot ==
    /\ At("status")
    /\ coll' = [coll EXCEPT !.pc = "target", !.status = Status]
    /\ course' = <<repo>>
    /\ UNCHANGED <<repo, custody, writes>>

ResolveTargetContext ==
    At("target") /\ Collect([coll EXCEPT !.pc = "head", !.target = repo.target])

ReadCleanSubmoduleHeads ==
    At("head") /\ Collect([coll EXCEPT !.pc = "files", !.head = repo.head, !.todo = coll.status])

StatFile(p) ==
    /\ At("files") /\ coll.reading = None /\ p \in coll.todo
    /\ Collect([coll EXCEPT !.reading = p])

\* digestOnce up to its second stat, and the one retry of digestWorkspaceEntry.
DigestFile(p) ==
    /\ At("files") /\ coll.reading = p
    /\ \/ ~coll.torn /\ Collect([coll EXCEPT !.files[p] = repo.tree[p], !.todo = @ \ {p},
                                             !.reading = None, !.again = FALSE])
       \/ coll.torn /\ ~coll.again /\ Collect([coll EXCEPT !.torn = FALSE, !.again = TRUE])
       \/ coll.torn /\ coll.again /\ Unstable

FilesRead ==
    /\ At("files") /\ coll.reading = None /\ coll.todo = {}
    /\ Collect([coll EXCEPT !.pc = "status again"])

Compare(step, same, next) ==
    At(step) /\ IF same THEN Collect([coll EXCEPT !.pc = next]) ELSE Unstable

ReadStatusAgain == Compare("status again", Status = coll.status, "target again")
\* Mutant: the target is not compared again.
ResolveTargetOnce == Compare("target again", TRUE, "head again")

ResolveTargetAgain == Compare("target again", repo.target = coll.target, "head again")

ReadHeadsAgain ==
    /\ At("head again")
    /\ IF repo.head = coll.head THEN Collect([coll EXCEPT !.pc = "off", !.answer = "exact"])
       ELSE Unstable

\* Git fails, a file cannot be read or is too large: no attempt would help.
Refuse == Running /\ Answer("refused")

\* The deadline passes or the request is aborted.
Expire == Running /\ Answer("expired")

CollectorStep ==
    \/ VerifyCustodyExpectation \/ ReadStatusSnapshot \/ ResolveTargetContext
    \/ ReadCleanSubmoduleHeads \/ (\E p \in Paths : StatFile(p) \/ DigestFile(p))
    \/ FilesRead \/ ReadStatusAgain \/ ResolveTargetAgain \/ ReadHeadsAgain
    \/ Refuse \/ Expire

-----------------------------------------------------------------------------
(* Properties.                                                             *)

CollectorTypeOK ==
    /\ repo \in Repository /\ custody \in Writers \union {Review, None}
    /\ writes \in 0..MaxWrites /\ coll \in Collection
    /\ course \in Seq(Repository) /\ Len(course) > 0

\* The number of times a part of the repository changed during the attempt.
Changes(Part(_)) ==
    Cardinality({i \in 1..(Len(course) - 1) : Part(course[i]) # Part(course[i + 1])})

\* An exact identity is that of a repository that existed at one instant of
\* the attempt that collected it, as the order of collector.mjs:36-48 is meant
\* to ensure, if at most one changed file was written meanwhile and nothing
\* changed and changed back; against more no bracket of separate looks helps,
\* and collector.mjs:31-34 claims no snapshot isolation.
ExactExisted ==
    Exact /\ Changes(LAMBDA r : r.tree) <= 1
          /\ Changes(LAMBDA r : r.target) <= 1 /\ Changes(LAMBDA r : r.head) <= 1
      => \E i \in 1..Len(course) : Collected = Identity(course[i])
=============================================================================
