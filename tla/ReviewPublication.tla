------------------------- MODULE ReviewPublication -------------------------
(***************************************************************************)
(* The end of a coherent review: the binder that collects the repository   *)
(* again and publishes a receipt (src/src/review/review-binding.mjs,       *)
(* receipt-store.mjs), the fence around that publication                   *)
(* (publication-fence.mjs), and the delegation that waits for it under a   *)
(* deadline and then returns custody (src/src/delegate-agent.mjs).         *)
(*                                                                         *)
(* A deadline stops nobody.  It takes the authority to publish from a      *)
(* binder that has not crossed the fence; for one that has, only the       *)
(* settling of its rename tells whether a receipt exists, and custody must *)
(* outlast it.  Custody itself is one variable here: WriteCustody shows    *)
(* how it is taken and returned.  Every review is of the same change set,  *)
(* the case in which they share a directory of receipts.                   *)
(***************************************************************************)
EXTENDS Integers, FiniteSets

CONSTANTS
    Reviews,       \* coherent reviews, each in a coordinator of its own
    None,
    MaxRenames,    \* PUBLICATION_RETRY_MAX_ATTEMPTS (4)
    MaxReceipts    \* MAX_RECEIPTS_PER_CHANGE_SET (64)

ASSUME ReviewAssumption ==
    None \notin Reviews /\ MaxRenames \in Nat \ {0} /\ MaxReceipts \in Nat \ {0}

VARIABLES
    custody,    \* the review whose record is under ownership/, or None
    receipts,   \* reviews whose receipt is durable under reviews/cs
    up,         \* reviews whose coordinator is alive
    binder,     \* how far reviewBinder.after has come
    rename,     \* how the file system answered the authoritative rename
    fence,      \* the publication fence of each review
    pc,         \* where the delegation is
    req         \* what the delegation knows

vars == <<custody, receipts, up, binder, rename, fence, pc, req>>

BinderSteps == {"off", "start", "verify", "collect", "reverify", "stage", "cross",
                "renaming", "settled", "returned", "threw"}
Renames == {"none", "issued", "landed", "rejected", "misreported"}
DelegationSteps == {"idle", "review", "race", "quiesce", "settle", "done", "dead"}

Fence == [cancelled : BOOLEAN,                           \* controller.signal.aborted
          started : BOOLEAN,                             \* guard.publicationStarted
          settled : {"no", "published", "failed"},       \* the observed settlement
          renames : 0..MaxRenames]

NewFence == [cancelled |-> FALSE, started |-> FALSE, settled |-> "no", renames |-> 0]

Reports == {"none", "not-attempted", "cancelled", "pending", "published", "failed"}

Request == [active : BOOLEAN,      \* the request was not cancelled and has time left
            proof : BOOLEAN,       \* exact proof that the reviewer's process closed
            report : Reports,      \* what is reported of the publication
            armed : BOOLEAN]       \* a late release waits for the settlement

NewRequest == [active |-> TRUE, proof |-> FALSE, report |-> "none", armed |-> FALSE]

Init ==
    /\ custody = None /\ receipts = {} /\ up = Reviews
    /\ binder = [r \in Reviews |-> "off"]
    /\ rename = [r \in Reviews |-> "none"]
    /\ fence = [r \in Reviews |-> NewFence]
    /\ pc = [r \in Reviews |-> "idle"]
    /\ req = [r \in Reviews |-> NewRequest]

Bind(r, step) == binder' = [binder EXCEPT ![r] = step]
Go(r, step) == pc' = [pc EXCEPT ![r] = step]

-----------------------------------------------------------------------------
(* Before the end.                                                         *)

\* admit: a review that is denied custody runs all the same, and binds nothing.
Admit(r) ==
    /\ pc[r] = "idle" /\ r \in up
    /\ IF custody = None THEN custody' = r /\ Go(r, "review")
                         ELSE UNCHANGED custody /\ Go(r, "done")
    /\ UNCHANGED <<receipts, up, binder, rename, fence, req>>

\* The reviewer's process ends.  A completed execution has proof of its close.
\* A stopped request attempts no binding.
ReviewEnds(r) ==
    /\ pc[r] = "review"
    /\ \E completed, proof \in BOOLEAN :
          /\ completed => proof
          /\ req' = [req EXCEPT ![r].proof = proof]
          /\ IF req[r].active
               THEN Go(r, "race") /\ Bind(r, IF completed THEN "start" ELSE "returned")
               ELSE Go(r, "settle") /\ UNCHANGED binder
    /\ UNCHANGED <<custody, receipts, up, rename, fence>>

-----------------------------------------------------------------------------
(* The binder.  Every step but the settling of a rename first asks whether *)
(* the request is still active, and throws when it is not.                 *)

BinderAt(r, step) == binder[r] = step /\ r \in up

BinderThrows(r) ==
    /\ \E step \in {"start", "verify", "collect", "reverify", "stage", "cross"} : BinderAt(r, step)
    /\ ~req[r].active
    /\ Bind(r, "threw")
    /\ UNCHANGED <<custody, receipts, up, rename, fence, pc, req>>

\* verifyStillHeld, the collection of the change set, verifyStillHeld again: a
\* review that lost its custody, or whose subject moved, is unbound.
Examine(r) ==
    /\ req[r].active
    /\ \/ BinderAt(r, "start") /\ Bind(r, "verify")
       \/ BinderAt(r, "verify") /\ Bind(r, IF custody = r THEN "collect" ELSE "returned")
       \/ BinderAt(r, "collect") /\ \E next \in {"reverify", "returned"} : Bind(r, next)
       \/ BinderAt(r, "reverify") /\ Bind(r, IF custody = r THEN "stage" ELSE "returned")
    /\ UNCHANGED <<custody, receipts, up, rename, fence, pc, req>>

\* The store refuses a change set that holds its fill of receipts; otherwise the
\* receipt and its artifact are staged, or that fails.
Stage(r) ==
    /\ BinderAt(r, "stage") /\ req[r].active
    /\ \E next \in IF Cardinality(receipts) < MaxReceipts THEN {"cross", "returned"}
                                                          ELSE {"returned"} : Bind(r, next)
    /\ UNCHANGED <<custody, receipts, up, rename, fence, pc, req>>

\* Mutant: the store does not look at the fence.
CrossUnfenced(r) ==
    /\ BinderAt(r, "cross") /\ req[r].active
    /\ Bind(r, "renaming")
    /\ fence' = [fence EXCEPT ![r].started = TRUE, ![r].renames = 1]
    /\ rename' = [rename EXCEPT ![r] = "issued"]
    /\ UNCHANGED <<custody, receipts, up, pc, req>>

\* The fence: the check for cancellation, the mark and the rename in one turn.
Cross(r) ==
    /\ BinderAt(r, "cross") /\ req[r].active
    /\ IF fence[r].cancelled
         THEN Bind(r, "returned") /\ UNCHANGED <<rename, fence>>
         ELSE /\ Bind(r, "renaming")
              /\ fence' = [fence EXCEPT ![r].started = TRUE, ![r].renames = 1]
              /\ rename' = [rename EXCEPT ![r] = "issued"]
    /\ UNCHANGED <<custody, receipts, up, pc, req>>

\* The file system: a rename once issued lands or is rejected, at any time, and
\* outlives the process that issued it.
RenameLands(r) ==
    /\ rename[r] = "issued"
    /\ receipts' = receipts \union {r}
    /\ rename' = [rename EXCEPT ![r] = "landed"]
    /\ UNCHANGED <<custody, up, binder, fence, pc, req>>

RenameRejected(r) ==
    /\ rename[r] = "issued"
    /\ rename' = [rename EXCEPT ![r] = "rejected"]
    /\ UNCHANGED <<custody, receipts, up, binder, fence, pc, req>>

\* An error for a rename that did land: the code never takes an errno as
\* evidence of what is at the destination.
RenameMisreported(r) ==
    /\ rename[r] = "issued"
    /\ receipts' = receipts \union {r}
    /\ rename' = [rename EXCEPT ![r] = "misreported"]
    /\ UNCHANGED <<custody, up, binder, fence, pc, req>>

\* Mutant: a rejection is tried again for as long as it lasts.
RetriedForever(r) ==
    /\ BinderAt(r, "renaming") /\ rename[r] = "rejected"
    /\ req[r].active
    /\ fence' = [fence EXCEPT ![r].renames = @ + 1]
    /\ rename' = [rename EXCEPT ![r] = "issued"]
    /\ UNCHANGED <<custody, receipts, up, binder, pc, req>>

\* A rejection that moved nothing is tried again, within the bound and while the
\* request is active: the fence stays crossed in between.
RenameRetried(r) ==
    /\ BinderAt(r, "renaming") /\ rename[r] = "rejected"
    /\ fence[r].renames < MaxRenames /\ req[r].active
    /\ fence' = [fence EXCEPT ![r].renames = @ + 1]
    /\ rename' = [rename EXCEPT ![r] = "issued"]
    /\ UNCHANGED <<custody, receipts, up, binder, pc, req>>

\* What the sequence comes to.  After an error the destination is read, and the
\* receipt found there counts as published: but not after every error, and not
\* for a request that has stopped.
Disposition(r) ==
    CASE rename[r] = "landed" -> {"published"}
      [] rename[r] = "rejected" -> {"failed"}
      [] rename[r] = "misreported" -> {"failed"} \union IF req[r].active THEN {"published"} ELSE {}
      [] OTHER -> {}

\* settleReceiptPublication: the fence learns how the whole sequence ended.
PublicationSettles(r) ==
    /\ BinderAt(r, "renaming")
    /\ \E settled \in Disposition(r) : fence' = [fence EXCEPT ![r].settled = settled]
    /\ Bind(r, "settled")
    /\ UNCHANGED <<custody, receipts, up, rename, pc, req>>

\* What is left of put is housekeeping; a stop of the request surfaces as a throw.
BinderReturns(r) ==
    /\ BinderAt(r, "settled")
    /\ \/ Bind(r, "returned")
       \/ fence[r].settled = "failed" /\ ~req[r].active /\ Bind(r, "threw")
    /\ UNCHANGED <<custody, receipts, up, rename, fence, pc, req>>

-----------------------------------------------------------------------------
(* finalizeReviewWithinDeadline.                                           *)

Report(r, what) == req' = [req EXCEPT ![r].report = what]

\* The operation won the race.  It never returns with a publication unsettled,
\* since put awaits its rename.
OperationObserved(r) ==
    /\ pc[r] = "race" /\ binder[r] \in {"returned", "threw"}
    /\ Go(r, "settle")
    /\ Report(r, IF fence[r].settled = "no" THEN "not-attempted" ELSE fence[r].settled)
    /\ UNCHANGED <<custody, receipts, up, binder, rename, fence>>

\* Mutant: past the bound, a publication that was started counts as cancelled.
BoundExpiresBlindly(r) ==
    /\ pc[r] = "race"
    /\ fence' = [fence EXCEPT ![r].cancelled = TRUE]
    /\ Go(r, "settle") /\ Report(r, "cancelled")
    /\ UNCHANGED <<custody, receipts, up, binder, rename>>

\* The bound, or the stop of the request, won.  Authority is withdrawn from a
\* binder that has not crossed the fence.
BoundExpires(r) ==
    /\ pc[r] = "race"
    /\ fence' = [fence EXCEPT ![r].cancelled = TRUE]
    /\ IF fence[r].started THEN Go(r, "quiesce") /\ UNCHANGED req
                           ELSE Go(r, "settle") /\ Report(r, "cancelled")
    /\ UNCHANGED <<custody, receipts, up, binder, rename>>

SettlementObserved(r) ==
    /\ pc[r] = "quiesce" /\ fence[r].settled # "no"
    /\ Go(r, "settle") /\ Report(r, fence[r].settled)
    /\ UNCHANGED <<custody, receipts, up, binder, rename, fence>>

\* Mutant: the wait for the settlement has no bound of its own.
QuiescenceAwaitsBinder(r) ==
    /\ pc[r] = "quiesce" /\ binder[r] \in {"returned", "threw"}
    /\ Go(r, "settle") /\ Report(r, "pending")
    /\ UNCHANGED <<custody, receipts, up, binder, rename, fence>>

\* Nobody knows whether a receipt landed or will.
QuiescenceExpires(r) ==
    /\ pc[r] = "quiesce"
    /\ Go(r, "settle") /\ Report(r, "pending")
    /\ UNCHANGED <<custody, receipts, up, binder, rename, fence>>

-----------------------------------------------------------------------------
(* Returning custody.                                                      *)

\* Mutant: custody is returned on the proof of the close alone.
ReleasesOnProof(r) == req[r].proof

\* A publication that did not quiesce keeps its custody, whatever is proven of
\* the reviewer's process.
Releases(r) == req[r].proof /\ req[r].report # "pending"

\* Only the record of r itself is ever released.  That a release may fail, and
\* then leaves the record, is the business of WriteCustody.
Release(r) == custody' = IF custody = r THEN None ELSE custody

Settle(r) ==
    /\ pc[r] = "settle"
    /\ Go(r, "done")
    /\ IF Releases(r) THEN Release(r) ELSE UNCHANGED custody
    /\ req' = [req EXCEPT ![r].armed = req[r].report = "pending"]
    /\ UNCHANGED <<receipts, up, binder, rename, fence>>

\* Mutant: the late release is tried once, at the end of the delegation, when
\* the settlement is what it was waiting for.
LateReleaseOnce(r) ==
    /\ pc[r] = "done" /\ req[r].armed
    /\ req' = [req EXCEPT ![r].armed = FALSE]
    /\ IF fence[r].settled # "no" /\ req[r].active /\ req[r].proof
         THEN Release(r)
         ELSE UNCHANGED custody
    /\ UNCHANGED <<receipts, up, binder, rename, fence, pc>>

\* The publication settled after all: the same release, for a request that is
\* still active.
LateRelease(r) ==
    /\ pc[r] = "done" /\ req[r].armed /\ fence[r].settled # "no"
    /\ req' = [req EXCEPT ![r].armed = FALSE]
    /\ IF req[r].active /\ req[r].proof THEN Release(r) ELSE UNCHANGED custody
    /\ UNCHANGED <<receipts, up, binder, rename, fence, pc>>

-----------------------------------------------------------------------------
\* Cancellation or the request's own deadline.  While the delegation waits for
\* the binder it withdraws authority at once.
RequestStops(r) ==
    /\ r \in up /\ pc[r] # "idle" /\ req[r].active
    /\ req' = [req EXCEPT ![r].active = FALSE]
    /\ fence' = [fence EXCEPT ![r].cancelled = @ \/ pc[r] = "race"]
    /\ UNCHANGED <<custody, receipts, up, binder, rename, pc>>

Crash(r) ==
    /\ r \in up
    /\ up' = up \ {r}
    /\ Go(r, "dead")
    /\ UNCHANGED <<custody, receipts, binder, rename, fence, req>>

\* Another coordinator reconciles the record of a dead one.
Reconcile(r) ==
    /\ custody = r /\ r \notin up
    /\ custody' = None
    /\ UNCHANGED <<receipts, up, binder, rename, fence, pc, req>>

Binder(r) ==
    \/ BinderThrows(r) \/ Examine(r) \/ Stage(r) \/ Cross(r)
    \/ RenameRetried(r) \/ PublicationSettles(r) \/ BinderReturns(r)

Delegation(r) ==
    \/ Admit(r) \/ ReviewEnds(r)
    \/ OperationObserved(r) \/ BoundExpires(r) \/ SettlementObserved(r)
    \/ QuiescenceExpires(r) \/ Settle(r) \/ LateRelease(r)

Next ==
    \E r \in Reviews :
       \/ Binder(r) \/ Delegation(r)
       \/ RenameLands(r) \/ RenameRejected(r) \/ RenameMisreported(r)
       \/ RequestStops(r) \/ Crash(r) \/ Reconcile(r)

Spec == Init /\ [][Next]_vars

\* The event loop runs what can run, and every wait of the delegation has a
\* timer.  The file system owes no rename an answer.
FairSpec ==
    /\ Spec
    /\ \A r \in Reviews : WF_vars(Binder(r)) /\ WF_vars(Delegation(r) /\ pc[r] # "idle")

-----------------------------------------------------------------------------
(* Properties.                                                             *)

\* Every variable has its type.
TypeOK ==
    /\ custody \in Reviews \union {None}
    /\ receipts \subseteq Reviews /\ up \subseteq Reviews
    /\ binder \in [Reviews -> BinderSteps]
    /\ rename \in [Reviews -> Renames]
    /\ fence \in [Reviews -> Fence]
    /\ pc \in [Reviews -> DelegationSteps]
    /\ req \in [Reviews -> Request]

\* A receipt becomes durable only while its review holds the repository it
\* speaks of; only a rename that outlives its coordinator may land later.
ReceiptUnderCustody ==
    [][\A r \in up : r \in receipts' \ receipts => custody = r]_vars

\* What is reported of a publication is what there is: a receipt reported as
\* published is durable, one reported as cancelled or not attempted never will
\* be, and one reported as failed does not appear later.
ReportsTruth ==
    \A r \in Reviews :
       /\ req[r].report = "published" => r \in receipts
       /\ req[r].report \in {"not-attempted", "cancelled"} => r \notin receipts
       /\ req[r].report \in {"not-attempted", "cancelled", "failed"} => rename[r] # "issued"

\* The bound on the receipts of a change set is read before the rename that
\* fills it; custody is what keeps two reviews from reading it together.
StoreKeepsItsBound == up = Reviews => Cardinality(receipts) <= MaxReceipts

\* A review ends, whatever becomes of its rename.
FinalizationEnds == \A r \in Reviews : pc[r] = "race" ~> pc[r] \in {"done", "dead"}

\* A review that kept custody for a publication nobody had seen settle returns
\* it once the publication settles, if its request is still active.
LateSettlementReturnsCustody ==
    \A r \in Reviews :
       pc[r] = "done" /\ req[r].report = "pending" /\ fence[r].settled # "no"
         ~> custody # r \/ ~req[r].active \/ r \notin up
=============================================================================
