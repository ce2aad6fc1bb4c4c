# Durable write custody: models, checks and proofs

The server in `src/src/` runs Claude agents for MCP clients.  An agent that may
write works in the client's repository, so the server must never let two managed
agents into one repository at a time - across several server processes, crashes,
cancelled requests and Windows' habit of rejecting renames and reusing PIDs.  It
does so with a *durable ownership record* per repository: a directory
`ownership/` whose creation admits, whose `record.json` is advanced by
compare-and-rename, and whose rename to `executions/<id>` releases.  This
directory holds TLA+ models of that mechanism and of what rests on it, the TLC
instances that check them, and TLAPS proofs of the main results.

Paths such as `custody/custody-manager.mjs` are under `src/src/`; line numbers of
every definition are in `PROJECT.json` ("map").

## 1. Inventory

### Core: custody of a repository

| Part | State | Operations | Made hard by |
|---|---|---|---|
| Ownership record (`custody/record-schema.mjs`) | one record: execution, state, revision, coordinator and child identities, git operation, helper evidence | legal transitions, field rules, *publication authority* (execution, revision, state, coordinator) | every reader may be another process, at another time |
| Reconciliation policy (`custody/reconciliation-policy.mjs`) | none | decides from a record and up to three process comparisons: retain, orphan, complete a release, terminalize and release | comparisons may be ambiguous; PIDs are reused |
| Custody manager (`custody/custody-manager.mjs`) | per coordinator, in memory: `#liveIdentities`, `#supervisedSpawns`, `#helperNotes`, `#mutationTails` | reserve, mark preparing, spawning, active, terminating, orphaned; record and clear a git operation; release unstarted, after terminal, after an unpersisted spawn, orphaned after terminal; reconcile; reclaim its own forced termination | memory, record and the caller's snapshot advance at different times; a crash loses the first |
| Durable store (`custody/durable-store.mjs`, `publication-retry.mjs`) | files: `ownership/record.json`, `executions/<id>` | create a reservation, publish a record, archive; bounded retry of a rejected rename; admission fence | compare and rename are two steps; a rename outlives cancellation and process |
| Delegation (`delegate-agent.mjs`) | one request: reservation held, evidence gathered | admission, preparation, run, settlement, retention, late recovery, late release | a stop may fall anywhere, and a timer that saw nothing proves nothing |
| Runner and termination (`claude-runner.mjs`, `claude-termination.mjs`) | one child, one `taskkill` helper | spawn, identify, activate, observe close, stop, force | `exit` is not `close`; a helper outlives the target and may hit a reused PID |
| Worktree preparation (`worktree-manager.mjs`) | one mutating git child at a time, journaled in the record | record before, clear after, ambiguity on interruption | git may die with effects nobody observed |
| Request context (`request-context.mjs`) | one abort signal, one deadline | `isActive`, `assertActive`, `observe` | `observe` abandons an operation that then still runs |
| Process identity (`process-identity.mjs`) | none | compares PID and start time: same, dead, reused, ambiguous | an external query that may fail |

They interact so.  A client request becomes a delegation in one coordinator (MCP
server process).  It asks its manager for the repository; the manager serializes
mutations of one repository in an in-memory queue and goes to the store for each
publication.  If the slot is taken, the manager observes the processes its record
names, *outside* the queue, and applies the policy's decision only if the record
has not changed authority since.  The runner calls back into the delegation when
the child started and when a termination begins, and the delegation publishes
ACTIVE and TERMINATING through the manager.  At the end the delegation decides
from its evidence whether to release or retain.

### Core: evidence of a review

A *coherent review* takes the same record as a writer, so that the change set it
speaks of cannot move, and at its end publishes a receipt.

| Part | State | Operations | Made hard by |
|---|---|---|---|
| Publication fence (`review/publication-fence.mjs`) | cancelled, started, settled | cancel, begin, settle | "cancelled" and "started" must exclude each other without a lock |
| Change-set collection (`changeset/`) | one collection: what each look saw, the attempt | status, target and submodule heads, every changed file between two stats, the three again; retry; deadline | there is no snapshot: anything may move between two looks |
| Binder (`review/review-binding.mjs`), admission (`review/coherent-admission.mjs`) | before-state of one review | admit, collect, find prior reviews, verify still held, collect again, compare, verify again, publish | custody may be lost during any await, and the repository change without it |
| Receipt store (`review/receipt-store.mjs`) | `reviews/cs/<change set>/<review>`, scope index `reviews/sc`, artifacts | put: artifact, receipt, pointer, prune; find a scope's receipts: index, then sweep of all | the bound is read before the rename that fills it; an errno does not tell what landed; a crash leaves receipts the index does not mention, and prunes overlap |
| Selection (`reconcile_only` in `delegate-agent.mjs`) | none | the one fresh receipt of a complete history that has the evidence the question needs | absent, unknown and unfit look alike |
| Finalization (in `delegate-agent.mjs`) | what is reported of the publication | race with a bound, wait for quiescence, release now or late | custody must outlast a rename nobody waits for any more |

### Around the core

Supervised commands (`supervised-process.mjs`, `process/`) run every git command:
a promise per command, settled once by whichever comes first of the child's close,
the close of the `taskkill` helper sent against it, and two deadlines, with an
identity query awaited in between.  The worktree preparation decides from the
answer (`terminationProven`) whether its git is over.  The termination primitives
are shared with the Claude runner.

Timeout hierarchy (`timeout-policy.mjs`): budgets that must nest.  Freshness and
subject of a review (`review/freshness.mjs`, ...): pure computations.  The rest - agent registry,
prompts, command lines, shell policy, outcome projection, preflight, workspace
root, server shell, installer and hooks - keeps no state that the guarantees
above depend on.  `PROJECT.json` lists each with its status and the reason.

### What correctness means

* Custody: one execution at a time; none of its processes - child, helper, git -
  acts once another may be admitted; a returned execution never holds again.
* Forced termination: a destructive helper only under a durable TERMINATING, and
  only the coordinator that launched it may conclude that it is gone.
* Store: a publication builds on the record that is in the slot; what a stopped
  request is told of its admission is true; the history is final.
* Liveness: delegations and mutations end, proven closes return custody, and no
  live record says work is under way when it is not.
* Supervised commands: one answer, also when no process ever ends; called over only
  when child and helper are over; nothing asked or launched after it.
* Review: a receipt lands only under custody; what is reported of it is true; a
  review ends although its rename may never settle.
* Its subject: an identity called exact is of something that existed; a bound
  receipt is of what the reviewer was shown, and no managed writer came between;
  nobody is told of a mutation that nobody made.
* Its memory: a receipt has its result; a history called complete is; a receipt
  taken for the answer was the only one that could be, and "none" means none.

## 2. Modules

| Module | Models | Lines of state |
|---|---|---|
| `CustodyRecord` | the record, its states, transitions, field rules and authority | none, operators |
| `ReconciliationPolicy` | the decision table | none, operators |
| `WriteCustody` | one repository, any coordinators and executions: manager, delegation, runner, termination, worktree preparation | 12 variables |
| `ExclusiveCustody` | what custody promises, abstractly: holder, busy, past | 3 variables |
| `CustodyStore` | one level below: files, renames, queue, retry, cancellation, admission fence | 6 variables |
| `ReviewPublication` | the end of a coherent review: binder, receipt rename, fence, finalization, release | 8 variables |
| `ChangeSetCollector` | one collection and whoever changes the repository meanwhile | 5 variables |
| `ReviewBinding` | EXTENDS it: a coherent review from admission to the decision to bind | 5 more |
| `ReviewHistory` | receipts, artifacts, index, prunes, and a search with its selection | 9 variables |
| `SupervisedProcess` | one supervised command: child, identity gate, `taskkill` and its watcher, deadlines | 11 variables |
| `BoundedCommand` | what a supervised command promises, abstractly: processes started, processes over, the answer | 3 variables |
| `MCWriteCustody`, `MCCustodyStore`, `MCReviewPublication`, `MCReviewBinding`, `MCReviewHistory`, `MCSupervisedProcess` | instances for TLC | |
| `WriteCustody_proofs`, `CustodyRelease_proofs`, `ExclusiveCustody_proofs`, `CustodyStore_proofs`, `ReviewPublication_proofs`, `ReviewBinding_proofs`, `ReviewHistory_proofs`, `SupervisedProcess_proofs` | the proofs | |

`WriteCustody` EXTENDS the two operator modules and instantiates
`ExclusiveCustody` with `holder <- slot.exec`, `past <- history`, and `busy` the
executions with a running child, helper or git.  `CustodyStore` and
`ReviewPublication` stand beside it: the first is about the one assumption
`WriteCustody` makes of files (a publication is atomic), the second takes
custody as one variable and models what `WriteCustody` leaves out of a review.
`ReviewBinding` is what comes before it - what the receipt is of - over the
collector, and `ReviewHistory` what comes after: what becomes of receipts.
`SupervisedProcess` is what `WriteCustody` takes for granted of its git commands -
that one reported over is over - and implements `BoundedCommand` with
`started` and `ended` the processes of the command, the child and the `taskkill`
sent against it, kept apart: a `taskkill` launched after the answer would be a
`Start` that `BoundedCommand` does not allow, although the child may still run.

### WriteCustody and the code

| Variable | In the code |
|---|---|
| `slot`, `history` | `ownership/record.json` and the directories under `executions/` |
| `up`, `home` | coordinator processes, and the one a delegation runs in |
| `pc`, `req` | the control point and the local variables of `delegateAgent`, `runClaudeAgent` and `terminateClaudeProcess` for one execution |
| `live`, `spawned`, `note` | `#liveIdentities`, `#supervisedSpawns`, `#helperNotes` |
| `child`, `helper`, `git` | the operating system's processes; they survive their coordinator |

The actions follow the phases of a delegation: admission (`Submit`, `Reserve`,
`Observe`, `ReconcileChanged/Archive/Retain/Release`, `Reclaim...`, the loop of
`reserveWriteAccess`), preparation (`BeginWorktreePreparation` ... `MarkSpawning`),
the child (`SpawnChild`, `Identify`, `Activate`, `ObserveClose`, `StopChild`),
forced termination (`BeginTermination`, `TerminationUnpublished`, `LaunchHelper`,
`TerminationSettles`), and the return (`Settle`, `MarkOrphaned`, `LateRecovery`,
and the four publications of a release: `ReleaseStep` three times, then
`Archive`).  `RequestStops` and `Crash` may come at any step.

Decisions of the translation:

* The repository is one slot: records of different repositories share nothing.
* The platform is Windows.  Elsewhere a coordinator cannot observe its own
  identity and admits nobody.
* A publication is one step.  That is what `CustodyStore` shows of mutations that
  are serial in its sense; for the rest - two coordinators reconciling beside a dead
  one, or a cancelled mutation that left an unguarded rename behind - the record of
  one execution may land over another's, and what is said of `WriteCustody` says
  nothing of that (finding `unguarded_rename`).
* Only the archive that ends a delegation's own release forgets the memory of its
  coordinator (`Archive`, `ForgetRepository`).  A `RELEASED` record found while
  reconciling is archived by `ReconcileArchive`, which leaves `live`, `spawned` and
  `note` alone, as the code does.
* A stop that wins a race with a publication in flight is part of the action that
  publishes (`Reserve`, `MarkSpawning`, `Activate`, `BeginTermination` may land
  without the delegation learning the revision); `known` is the revision it did
  learn, and the release of a stopped request is pinned to it.
* A finished delegation forgets its memory unless late recovery is armed.
* `QueueFree` lets a mutation through although a release is under way if another
  request of that coordinator was stopped: an over-approximation of the way a
  cancelled wait forgets the tail of the queue (finding `overtaken_turn`).
* The runner's settlement after a stop is waited for within its bound, so the
  evidence is there when `Settle` reads it.  A failure of `markSpawning` in a
  review, after which an advisory review runs without the record, is left out.
* A settlement signal of a stopped request may run out at any publication:
  `ReleaseFails`.

### CustodyStore and the code

A mutation asks for a turn in its coordinator's queue (`Ask`, `TakeTurn`), reads
what it builds on (`ReadBase`), compares and issues its rename in one turn of the
event loop (`CompareAndIssue`), and learns later that it landed or was rejected
(`RenameLands`, `RenameRejected`, then `Landed`, `Rejected`).  A rename onto
`record.json` replaces whatever is there; one onto an existing `ownership/` is
rejected.  `Backoff` retries from the compare, `ReserveAgain` is the outer loop of
an admission, `CompareAndArchive` ... move the directory away.  `Cancel` is the
request's stop: it gives the turn back unless the mutation's guard says that a
rename may be in flight; `Tell` is what `settleAdmissionAfterRequestStop` concludes
from the fence.

* Besides `reserve` and `release` there are two kinds of mutation, told apart by who
  may ask and by the guard.  `prepare` stands for `beginWorktreePreparation`,
  `recordWorktreeOperation` and `markSpawning`, which hand no guard on to the store,
  so that their `started` never rises; `advance` for all the others, which do
  (`Guarded`).
* `serial` is a history variable.  A mutation is under way (`Underway`) while it
  holds a turn in which it may still publish, and while a rename it left behind
  without a guard is in flight (`RenameAtLarge`).  `serial` stays TRUE as long as
  those under way at once belong to different coordinators and none has died.  A
  *guarded* mutation that is cancelled with its rename in flight needs no such
  exception: it keeps its turn, and the others wait.  An unguarded one whose rename
  settles before anything else begins is serial too.
* The findings `unguarded_rename` and `overtaken_turn` show behaviours outside it,
  and so would two reconcilers of a dead coordinator's record (section 3).

### ReviewPublication and the code

`binder` is how far `reviewBinder.after` has come, down through `put`;
`rename` what the file system did with the authoritative rename; `fence` the
fence; `pc` and `req` `finalizeReviewWithinDeadline` and the settlement after it.
`Cross` is the check for cancellation, the mark and the rename without an await in
between; `BoundExpires` is the other side: cancel, then look whether it was
started.  `QuiescenceExpires` gives up on a rename in flight and keeps custody;
`LateRelease` is the detached continuation that returns it.  A rename may land
although it reports an error (`RenameMisreported`), and lands after a crash.  Each
review has its own coordinator, and all are of one change set, where they share
the bound.  That a *release* may fail is `WriteCustody`'s concern and left out here.

### ChangeSetCollector, ReviewBinding and the code

`coll` is the state of `collectOnce`: the answers of its first three looks, the
files read so far, and the file between its two stats.  Each look is one action,
since each is one Git command or one read; between any two of them anybody may
change a file, the target or the submodule (`AnyChange`).  `course` is history: what
was in the repository since the attempt began.

* Status shows *which* files differ from the index, so two texts of a changed file
  look the same to it; that is why files are read, and between two stats.
* A write to a file that is being read shows in its second stat; time stamps too
  coarse to tell are left out.
* One submodule and one target stand for all; how many files there are matters only
  for the order in which they are read, and every order is allowed.
* Whatever Git or the file system refuses is `Refuse`; deadline and abort `Expire`.
* The binder's steps are named for the lines of `after` they stop at.  Admission and
  `markSpawning` are one step unless the latter fails (`AdmitAndLose`).
* `Misjudge` is another coordinator's reconciliation of a review it wrongly takes for
  dead - the case both verifications exist for.  `Write("external")` is an editor or
  a shell, which custody does not bind.
* Prior reviews, the evidence of a committed range and the prompt are left out.

### ReviewHistory and the code

`put` is how far the store has come with each review: the artifact, the receipt's
rename, the pointer, the prune, one unlink at a time.  `Begin` takes a review only
while no other is before its rename - custody, which is returned without waiting for
pointer and prune.  `Abandon` is a crash, a stop or a failure anywhere, which the
code passes over in silence once the receipt is durable.  `search` is
`discoverForScope`: `ListIndex` and `FollowPointer`, then the sweep of all receipts
(`ListRoot`, `ListDirectory`, `LoadReceipt`, `EndDirectory`), its verdict
(`EndSweep`), and the selection a `reconcile_only` request makes of it (`Select`).

* Reviews are numbered by age, as the names of pointers sort.
* A pointer's own content, validation of a receipt against its path, and the
  deadline of a search are one choice: readable or not.
* Freshness is "the receipt is of the change set collected now"; that the reviewer's
  contract, policy, model and task must agree too would only select fewer.
* Whether a receipt has the complete evidence of a committed change is the constant
  `Evidenced`.  When the request is about a committed change (`committed`), only
  those apply (`Applicable`); any other request takes every receipt.  The order of
  `Select` is the code's: receipts that are fresh but do not apply are
  "evidence-unproven", before ambiguity and completeness are looked at; beside one
  that applies they do not count.
* The selection by `review_id`, and an indeterminate current change set, which
  selects nothing, are left out.

### SupervisedProcess and the code

Each callback of `runSupervisedProcess` and `superviseTaskkillHelper` is an action;
what the code does up to its next await is in it.  `interrupt` runs
`requestTermination` up to its only await, the identity comparison, which
`GateDenies` and `GateAuthorizes` continue; launching the helper and arming its
watcher are one turn.  `settle` also gives up a watcher (`SettleWith`).

* `left` counts what is left of the termination grace from the interruption on
  (`Tick`), and `AuthorizationReserve` is what `deadlineWithReserve` keeps of it.
  Time passes whether or not a due timer is dispatched, so a timer may come
  arbitrarily late, and timers in any order: more orders than Node has.
* The useful-work deadline, output faults and aborts may come at any moment.
* Other platforms than Windows are the runs in which no identity is captured.
* The continuation of the comparison and the `.then` behind it are one turn: no
  event of a process falls between two microtasks.
* A helper object without `on`, which only a test's adapter returns, is left out.

## 3. Runs

| Run | Instance | Shows | Distinct states, time on two cores |
|---|---|---|---|
| `write_custody` | 2 writers, 2 coordinators, 2 admission attempts, host failures | types; **ActingIsOwner**: nothing acts for an execution that does not hold the repository; **ChildIsOwner**: a running child's execution holds it; **HelperUnderDurableTermination**; **ForcedTerminationStaysHome**; and the refinement **ImplementsExclusiveCustody** | 1,050,841, about 1 min |
| `write_custody_live` | a review and a writer, 1 coordinator, 2 admission attempts, clean-up failures, fairness | **EveryDelegationEnds**, **ProvenCloseReturnsCustody**, **NothingAbandoned** | 279,073, about 2 min |
| `custody_store` | 3 mutations, guarded or not, 2 coordinators, 2 renames, 2 rounds | **SerialUpdatesAreNotLost**, **FenceTellsTruth**, **ArchiveIsFinal** | 2,549,480, about 2 min |
| `custody_store_live` | 2 mutations, 2 coordinators, fairness | **EveryMutationSettles** | 111,292, half a minute |
| `review_publication` | 2 reviews, 2 renames, room for 1 receipt, fairness | **ReceiptUnderCustody**, **ReportsTruth**, **StoreKeepsItsBound**, **FinalizationEnds**, **LateSettlementReturnsCustody** | 383,035, about 1 min |
| `bound_review` | 2 files, 2 texts, 2 targets, 2 submodule heads, 1 managed writer, 2 attempts, 3 changes | **ExactExisted**; **BoundIntervalHeld**, **BoundSubjectIsCurrent**; **MutationIsReal** | 1,272,820, about 1 min |
| `receipt_history` | 3 reviews, one without evidence, 2 scopes, 3 change sets, every bound 1 or 2 | **CompleteHistoryMissesNothing**, **SelectedAlone**, **NoneFoundIsNone**, **ReceiptHasArtifact**, **NewestPointersSurvive** | 2,325,212, about 1 min |
| `supervised_process` | one command, a grace of 4 with 1 reserved, fairness | **ImplementsBoundedCommand**; **AskedAtMostOnce**, **NeverLeftUnasked**, **NothingAskedAfterAnswer**: the requests to the exact handle, and the launch of `taskkill`; **EveryCallIsAnswered** | 671, a second |

Four further runs each refute one sentence of the documentation or comments:

| Run | What the code does |
|---|---|
| `helper_after_cleanup` | When removing the runtime settings fails, the replacing error carries the child's raw terminal proof, and custody is released while the helper may still run (`claude-runner.mjs:202`; README says the handoff requires the helper's own close). |
| `review_helper` | In a coherent review the callback that publishes TERMINATING swallows its own failure, and `taskkill` is launched although nothing durable says so (`delegate-agent.mjs:1697`). |
| `unguarded_rename` | `beginWorktreePreparation`, `recordWorktreeOperation` and `markSpawning` pass no publication guard on.  Cancelled with its rename in flight, such a mutation gives its turn back; the release behind it publishes RELEASED, and the rename puts the earlier state in its place.  With a fourth mutation, a new reservation after the archive, it lands on the new owner's record (`custody/custody-manager.mjs:324`, `348`, `378`; their callers do pass an abort signal: `delegate-agent.mjs:1255` and `1611`, `worktree-manager.mjs:227`, `317` and `399`).  The comments at `custody-manager.mjs:1097-1101` and `durable-store.mjs:532-536` and README.md:278 and 294 promise the opposite. |
| `overtaken_turn` | A mutation cancelled while last in the queue deletes the queue's tail, and the next one starts beside the one still in front (`custody/custody-manager.mjs:1108`). |

Four more disagreements have no run of their own:

* *Two successors of a dead coordinator.*  Nothing ties compare and rename together
  across processes (`custody/durable-store.mjs:512`).  When two coordinators both
  reconcile a third's record, a rename one of them issued can land on a reservation
  made after the other had archived it, against README.md:278 ("a stale callback
  cannot overwrite a later state, released archive, or newly admitted owner").
  `CustodyStore` with three mutations of three coordinators has such behaviours; it
  is why `Serial` asks that no coordinator has died.
* *A receipt that does not apply is passed over in silence.*  README.md:404 says that
  more than one FRESH receipt is `AMBIGUOUS` and never selected silently.  For a
  committed change, of two fresh receipts of which one lacks the evidence, the code
  selects the other (`delegate-agent.mjs:1365-1371`).  `SelectedAlone` claims what the
  code keeps to: the only one that applies.
* *A stale identity refuses a release.*  A stopped release may leave a `RELEASED`
  record; the next admission of the same coordinator archives it
  (`custody/custody-manager.mjs:884-891`) without forgetting the identity of its
  child, which is then taken for the next execution's.  A release of a child whose
  own identity was never persisted, otherwise accepted on its proven close, is then
  refused (`custody-manager.mjs:1213-1224`) and the record retained until its
  coordinator ends, while README.md:282 says that such a child's custody is released.
  `ProvenCloseReturnsCustody` therefore has the hypothesis `FreshMemory`; without it
  TLC refutes it in the instance of `write_custody_live`, and with one attempt at
  admission the case does not arise.
* *A child that never started.*  README.md:315 says that of a stopped request a
  record whose process merely appears not to have started stays retained, while
  `terminalSettlementAuthority` (`delegate-agent.mjs:878`) also releases on the
  proven absence of a child.  The code looks right, the sentence too broad.

Deadlock is not checked: a system in which every delegation has ended, every
coordinator has crashed, or the one command was answered, really stops.  That
nothing stops earlier is what the liveness properties say.

### Bounds, and why they are enough

* Two executions and two coordinators: every property of `WriteCustody` is about
  an owner and one who takes over, and the taker-over either shares the owner's
  memory or does not.  A third coordinator adds only the race of two reconcilers,
  which is a matter of files (above).
* Two admission attempts (4 in the code) reach the loop's head again after each
  way of going round it, in the liveness run too: what one delegation's failed
  release leaves behind, the next one finds on its second attempt.
* Three mutations: one under way, one waiting, one behind it - what it takes for
  a cancelled wait to matter, and for a rename left behind to undo what came after
  it (in `unguarded_rename`, a reservation, its preparation and its release).  What
  takes a fourth mutation is left to the proofs, which bound none.  Two renames
  (4 in the code) and two rounds: one that fails and is retried, one that exhausts
  the bound.
* Room for one receipt (64 in the code) is where two reviews compete; two renames
  as above.
* Two files are what it takes for one to be read before and one after a third party
  acts; two attempts, one that is disturbed and one that is not; three changes, one
  before, one during and one after a collection, or there and back and there.
* Three reviews: two of the searcher's change set, which compete for the answer, and
  one in between of another scope.  One of the two lacks the evidence of a committed
  change, so that a fresh receipt is selected beside one that does not apply, is
  ambiguous with it, or is all there is.  The bounds of the store are low enough to
  be met, and all but one to be passed: one pointer, two receipts of a change set,
  two directories, two loads.  The bound of two receipts found is only met, as two
  reviews are of the searcher's scope; the theorems hold for every bound.  Two
  reviews share a result, and so an artifact.
* A grace of four units has every position relative to the reserve: before it, in
  it with time left, and over.  Commands do not share state, so one is enough.
* Revisions need no bound: a record only advances along its transitions and at
  most once round each git operation.

Symmetry is used only where no liveness property is checked: over executions and
coordinators where the instance does not distinguish them, over files, texts,
targets and heads in `bound_review` (which names none of them), and in
`receipt_history` over the change sets other than the searcher's.

### Fairness

`WriteCustody`: weak fairness of each delegation's own steps.  Every wait there is
bounded - request deadline, termination and evidence timeouts, settlement budget -
so the code always has a next step, and the model gives a timeout an action that
is enabled beside the event it waits for (`StopChild`, `TerminationSettles`,
`ReleaseFails`).  Nothing is assumed of children, helpers, git, stops or crashes.
`CustodyStore`: each mutation's steps and the settling of its rename - the code
awaits a rename without a timer, so without that assumption nothing ends - but
not that a rename succeeds.  `ReviewPublication`: binder and delegation; the file
system owes the rename no answer, and `FinalizationEnds` holds all the same.
`SupervisedProcess`: time passes and the two timers of the command are dispatched
in the end (they stay referenced, so Node's loop lives until then); no process, no
query and no timer of the helper's owes anything.

## 4. Proofs

TLAPS proves the following for every set of executions, coordinators and reviews,
every bound and, unless the table says otherwise, every choice of faults.

| Theorem | States |
|---|---|
| `WriteCustody_proofs!TypeCorrect` | `Spec => []TypeOK`, with the record always valid for its schema |
| `CustodyRelease_proofs!ChildOwnsRepository` | `Spec => []ChildIsOwner` |
| `CustodyRelease_proofs!ForcedTerminationIsNotInherited` | `Spec => ForcedTerminationStaysHome` |
| `CustodyRelease_proofs!NothingLeftUnderWay` | `Spec => []NothingAbandoned`, if `~HostFaults` |
| `ExclusiveCustody_proofs!WorkIsExclusive` | `Spec => Worked!Spec`: the refinement of `ExclusiveCustody` by children and git, reviews and faults included |
| `ExclusiveCustody_proofs!WritesActAsOwners` | children and git act only as owners; so do helpers of writes, under a durable termination, if `~CleanupFaults` |
| `ExclusiveCustody_proofs!ReleaseAwaitsHelper` | `Spec => []HandoffAwaitsHelper`, if `~CleanupFaults` |
| `ExclusiveCustody_proofs!HelpersAreDurablyAuthorized` | `Spec => []HelperUnderDurableTermination`, if `~CleanupFaults` and no reviews |
| `ExclusiveCustody_proofs!ActingOwnsRepository` | `Spec => []ActingIsOwner`, under the same |
| `ExclusiveCustody_proofs!WritesImplementExclusiveCustody` | `Spec => ImplementsExclusiveCustody`, under the same |
| `CustodyStore_proofs!TypeCorrectness` | `Spec => []TypeOK` |
| `CustodyStore_proofs!NoUpdateIsLost` | `Spec => SerialUpdatesAreNotLost` |
| `CustodyStore_proofs!StoppedRequestIsToldTheTruth` | `Spec => []FenceTellsTruth` |
| `CustodyStore_proofs!HistoryIsFinal` | `Spec => []ArchiveIsFinal` |
| `ReviewPublication_proofs!TypeCorrect` | `Spec => []TypeOK` |
| `ReviewPublication_proofs!ReceiptsLandUnderCustody` | `Spec => ReceiptUnderCustody` |
| `ReviewPublication_proofs!ReportsAreTrue` | `Spec => []ReportsTruth` |
| `ReviewPublication_proofs!StoreNeverOverfull` | `Spec => []StoreKeepsItsBound` |
| `ReviewBinding_proofs!TypeCorrectness` | `Spec => []TypeOK` |
| `ReviewBinding_proofs!BoundReviewWasAlone` | `Spec => []BoundIntervalHeld` |
| `ReviewBinding_proofs!SubjectIsCurrent` | `Spec => []BoundSubjectIsCurrent` |
| `ReviewBinding_proofs!NobodyIsBlamed` | `Spec => []MutationIsReal` |
| `ReviewBinding_proofs!ExactIdentityExisted` | `Spec => []ExactExisted` |
| `ReviewBinding_proofs!BoundSubjectExisted` | the same of what a bound receipt is of |
| `ReviewHistory_proofs!TypeCorrectness` | `Spec => []TypeOK` |
| `ReviewHistory_proofs!CompletenessIsHonest` | `Spec => []CompleteHistoryMissesNothing` |
| `ReviewHistory_proofs!SelectionIsUnambiguous` | `Spec => []SelectedAlone` |
| `ReviewHistory_proofs!AbsenceIsProven` | `Spec => []NoneFoundIsNone` |
| `ReviewHistory_proofs!ArtifactsComeFirst` | `Spec => []ReceiptHasArtifact` |
| `ReviewHistory_proofs!NewestPointersStay` | `Spec => []NewestPointersSurvive` |
| `SupervisedProcess_proofs!TypeCorrect` | `Spec => []TypeOK` |
| `SupervisedProcess_proofs!SupervisionIsBounded` | `Spec => ImplementsBoundedCommand` |
| `SupervisedProcess_proofs!OneRequest` | `Spec => []AskedAtMostOnce` |
| `SupervisedProcess_proofs!SomeoneAsked` | `Spec => []NeverLeftUnasked` |
| `SupervisedProcess_proofs!AnswerEndsRequests` | `Spec => NothingAskedAfterAnswer` |

The assumptions are the named ones on the constants (`CustodyAssumption`,
`StoreAssumption`, `ModelAssumption`, `ReviewAssumption`, `CollectorAssumption`, `HistoryAssumption`,
`TimeoutAssumption`): `None` is no execution, coordinator, review or file, reviews
are executions, a review is no writer, reviews of a history are finitely many,
bounds are positive.  TLC evaluates them in the runs.

Where a theorem has a hypothesis besides, the code needs it, and the faults it
excludes are exactly those the model has an action for:

* `~CleanupFaults` - the runtime settings of a child can be removed - and no
  reviews: `helper_after_cleanup` and `review_helper` are runs in which one of the
  two does not hold and the helper of an execution outlives its custody, or runs
  without a durable record.  `WorkIsExclusive` and `WritesActAsOwners` have what
  holds all the same: only the helpers escape, never a child or git.
* `~HostFaults` - no file operation fails for good - for `NothingAbandoned`: a
  delegation whose retention cannot be written leaves the record as it was.

*A child's execution holds the repository.*  `ChildIsOwner` is not inductive: a
release takes five steps, and nothing looks at the child between the decision and
the archive.  `ChildInv` adds what carries it: whoever has decided on a release -
the delegation, a reconciler with a snapshot, a reclaimer - decided it of an
execution that is *quiet*, its child ended or never to be spawned (`Local`); a
record in a terminal state, or one that still says RESERVED, tells the truth about
the child (`RecordTruth`).  Quiet is stable, and a snapshot whose authority still
holds is the record.  Each group of actions keeps `ChildInv` in a lemma of its own.

*Forced termination stays home.*  `HomeInv` says that whoever is about to release a
record whose forced termination began is at home where that record's execution is:
the policy never terminalizes such a record, and reclaim requires the spawn to be
in this coordinator's own memory.  The theorem follows from it and `ChildInv`.

*Nothing is left under way.*  `KeptInv` says of each delegation what its retention
will need - the revision it knows, the identity of its child, that child as the
live one of its coordinator - and, once it has ended without a stop, that the record
it may still hold is ORPHANED or terminal.  It is inductive because others leave it
so (`OthersKeep`): a reconciler or reclaimer moves somebody else's record only to
ORPHANED, to a terminal state, or out of the slot.

*What acts, owns.*  The release of a record rests on what a coordinator can tell of
three processes, so `ActingInv` says that all it can be told is true: in which
phases a delegation can have a helper or a git (`HelperLocal`, `GitLocal`), what the
states of the record and its helper evidence mean (`SlotTells`), that a note of
helper evidence outlives its delegation truthfully (`NotesTell`), and that every
decision on a release is of an execution that is *still*: its delegation is past the
phases that start a process, and its git and helper are gone (`ActingLocal`).  The two
exceptions, reviews and clean-up faults, are exceptions of `ActingInv` and not
hypotheses of it: one predicate, `Excepted`, frees exactly the helpers nobody waits
for.  A step that moves one delegation and perhaps the record is settled by one
lemma (`ActingMove`).

*The refinement.*  With `TypeOK`, `ChildInv` and `ActingInv`, each step takes the
repository (`Reserve`), starts or ends a process of its holder, archives the record
of one that is still (`Archive`, the abstract `Return`), or is not seen.  That the
archive finds nothing at work is where the two invariants are needed.

*No update of the store is lost.*  `JobOK` says what a mutation may look like at each
of its steps; `Lineage` and `Births`, that whatever is in the slot, in the history or
in the hands of a mutation is a reservation that landed, and that a mutation only
holds a record of its own coordinator or of a dead one.  With `InTurn` - while
mutations are serial, a rename in flight finds the record it was issued for - two
renames in flight would both belong to the coordinator of the record in the slot,
which serial mutations exclude (`NoCollision`).  The guard is what makes that
apply to a cancelled mutation: a guarded one has not given its turn back while its
rename is in flight, so it has its turn still; one without a guard is at large, and
counts as under way until its rename has settled.  A step that touches no file is
settled by one lemma (`QuietStep`): what its mutation becomes must fit the state.
What a stopped request is told needs no serial mutations, as far as "not acquired"
goes: no such reservation was ever issued, or its rename was rejected.

*Receipts land under custody.*  The invariant ties three parties: `FenceAgrees`
(the binder is past the fence exactly when it is marked, and a rename in flight
means unsettled), `ReportAgrees` (every report was read off the fence, and
"cancelled" and "not attempted" exclude that the fence is ever crossed), and
`HoldsCustody` (a live delegation that has not settled holds custody, and so does
one that ended with a publication pending).  A step about one review leaves the
others untouched (`UntouchedKeeps`), so each action is one case.  For the bound,
`RoomInv` adds that whoever has passed the count and may still land finds room:
two such reviews would both hold the repository.

*A bound review was alone, and is of what is there.*  Two arguments.  `SlotInv`:
custody is granted to a review once, at its start, so a review that holds it at its
second verification has held it throughout, and whoever wrote under custody of its
own has taken it away for good.  `CollectionInv`: in an attempt during which nothing
changed (`Undisturbed`), everything observed so far is what was there at its start;
a change adds to `course`, so nothing need be said of disturbed attempts.
`SubjectInv` carries the comparison from the end of the second collection to the
receipt, and `BlameInv` the identity the reviewer was shown, as long as nobody has
written, to the second collection, where nothing can then differ.

*An exact identity existed.*  `Seen` names the moments of the looks of an attempt, in
the order of the collector: target at *a*, head at *b*, each file from *b* to *c*,
status again at *c*, target at *d*, head at *e*; a look still to come may have any
moment yet.  What is the same at *a* and *d* and changed at most once did not
change between (`FirstOneThenOther`), so that target and head are right at every
moment from *b* to *c*.  The tree changed once or not at all between *b* and *c*, by
one file (`OneFileEach`): each file shows the tree at *b* or the tree at *c*, and all
but one show both, so one of the two moments will do.  That whatever differs between
two moments changed between them (`Steady`) is a fact about sequences that needs
induction; as the course only grows by appending, it is proved as an invariant.

*A complete history is complete.*  `SweepInv`: every receipt the search should find
and has not is still in a directory or a file to be looked at, or one of the two
flags that forbid "complete" is set.  `PutInv` orders artifact, receipt and pointer,
so that a directory that may hold a receipt is always there to be listed.  The
selection follows: the fresh receipts found are all there were, those that apply
are the applicable ones of them, and of a finite set that is neither empty nor of
more than one element (`AtMostOne`) one can be taken.  That "none" is answered only
if there was none needs the order of the code: that a fresh receipt which does not
apply is noticed before the rest.

*The newest pointers stay.*  Prunes rest on listings that may be old.  `IndexInv` says
that whatever a prune has listed, or still means to remove, and a pointer that is
gone, is *outdated*: at least as many newer pointers of its scope as the bound have
been written.  What is outdated stays so (`OutdatedForGood`, since what is newer than a pointer
only grows), and the newest are never outdated.

*A supervised command is bounded.*  `IInv` says how far termination has come in
each party's terms: the gate against the interruption and the requests (`GateInv`),
the watcher against the helper and the requests (`WatcherInv`: a watcher that has
not reported a failure means nobody asked the handle), the child (`ChildInv`), and
that a report that calls the command over is true (`ReportInv`).  With it every
step starts a process before the answer (`StartsProcess`), ends one
(`EndsProcess`), answers (`AnswersOver`, `AnswersUnproven`), or is not seen
(`StepSimulation`).  That the late answer of the identity query launches nothing is
the case of `GateAuthorizes`, which looks again whether the command is answered.

### Only model-checked

All liveness (fairness and ENABLED are outside the prover): `EveryDelegationEnds`,
`ProvenCloseReturnsCustody`, `EveryMutationSettles`, `FinalizationEnds`,
`LateSettlementReturnsCustody`, `EveryCallIsAnswered`.  Every invariant and every
action property of a passing run is a theorem.

## 5. Not modelled

* Inside the modelled parts: output limits and stream parsing (one nondeterministic
  stop), diagnostics and wording of outcomes, the arithmetic of deadlines, layout
  checks of directories, the read-side stability loop of the store, the individual
  git commands of a worktree, the parsing of porcelain output and the hash of a
  change set, how the evidence of a committed range is computed.
* A collection that only observes checks custody as it begins and not again
  (`collector.mjs:223-232`): a writer may be admitted under its eyes.  The model has
  it; no property forbids it, since nothing is bound on such a collection.
* A reported failure of a receipt's rename is not compared with the destination
  (`receipt-store.mjs:482`): a receipt reported as failed may exist.  The model has
  it; the documentation promises nothing else.
* Output bytes of supervised commands and the environment git gets.
* Timeout hierarchy: constants that nest, checked by the repository's own start-up
  assertions.
* Everything without state of its own (section 1).
* External: the operating system's processes and files and the Claude CLI appear
  only as the code meets them.

## 6. Plan

1. Done: record, policy, `WriteCustody`, its abstraction, `CustodyStore`,
   `ReviewPublication`, `ReviewBinding` over `ChangeSetCollector`, `ReviewHistory`,
   `SupervisedProcess` with its abstraction; types, child ownership, forced
   termination, exclusive custody and its refinement, the store's properties, the
   review results, the instant of an exact identity, the index of receipts and the
   refinement of supervised commands proved.
2. Next models: forced termination in detail (outer timeout against the helper's, and
   the identity gate before `taskkill`, as `SupervisedProcess` has them for git); the
   nesting of timeouts as integer operators against a reference definition.
3. Next proofs: the types and safety of what is modelled next; of the store, that
   the publications of `CustodyStore` implement the atomic ones `WriteCustody`
   assumes.
