---------------------- MODULE ReviewPublication_proofs ----------------------
(***************************************************************************)
(* What holds of ReviewPublication for any number of reviews and any       *)
(* bounds.  A receipt lands only under custody because custody outlasts    *)
(* every rename in flight: the invariant below ties the three parties, the *)
(* binder that issues the rename, the fence that records it, and the       *)
(* delegation that decides about custody by what it read from the fence.   *)
(***************************************************************************)
EXTENDS ReviewPublication, FiniteSetTheorems, TLAPS

BeforeCrossing == {"off", "start", "verify", "collect", "reverify", "stage", "cross"}

\* The binder and its rename, as the fence records them.
FenceAgrees(r) ==
    /\ binder[r] \in BeforeCrossing => ~fence[r].started
    /\ binder[r] = "renaming" => fence[r].started /\ fence[r].settled = "no"
    /\ binder[r] \in {"settled", "returned", "threw"} /\ fence[r].started
         => fence[r].settled # "no"
    /\ rename[r] = "issued" => binder[r] = "renaming"
    /\ ~fence[r].started => rename[r] = "none" /\ fence[r].settled = "no"
    /\ r \in receipts <=> rename[r] \in {"landed", "misreported"}
    /\ fence[r].settled = "published" => r \in receipts

\* What the delegation has reported, as the fence bears it out.
ReportAgrees(r) ==
    /\ pc[r] \in {"idle", "review"} => binder[r] = "off"
    /\ pc[r] \in {"idle", "review", "race", "quiesce"} => req[r].report = "none"
    /\ pc[r] = "quiesce" => fence[r].started
    /\ pc[r] \in {"settle", "done"} /\ req[r].report = "none" => binder[r] = "off"
    /\ req[r].report = "not-attempted"
         => ~fence[r].started /\ binder[r] \in {"returned", "threw"}
    /\ req[r].report = "cancelled" => ~fence[r].started /\ fence[r].cancelled
    /\ req[r].report = "pending" => fence[r].started
    /\ req[r].report \in {"published", "failed"} => fence[r].settled = req[r].report

\* A live delegation that has not settled holds custody, and so does one that
\* ended with a publication nobody has seen settle.
HoldsCustody(r) ==
    /\ r \in up <=> pc[r] # "dead"
    /\ pc[r] \in {"review", "race", "quiesce", "settle"} => custody = r
    /\ pc[r] = "done" /\ req[r].report = "pending" /\ fence[r].settled = "no"
         => custody = r

ReviewInv(r) == FenceAgrees(r) /\ ReportAgrees(r) /\ HoldsCustody(r)

IInv == TypeOK /\ \A r \in Reviews : ReviewInv(r)

\* The steps of Next that are of neither binder nor delegation.
Surroundings(s) ==
    \/ RenameLands(s) \/ RenameRejected(s) \/ RenameMisreported(s)
    \/ RequestStops(s) \/ Crash(s) \/ Reconcile(s)

\* Nothing that concerns r changed, but perhaps custody that was not its own.
Untouched(r) ==
    /\ binder'[r] = binder[r] /\ rename'[r] = rename[r] /\ fence'[r] = fence[r]
    /\ pc'[r] = pc[r] /\ req'[r] = req[r]
    /\ r \in receipts' <=> r \in receipts
    /\ r \in up' <=> r \in up
    /\ custody' = custody \/ custody # r

\* A review no step touches keeps its part of the invariant.
LEMMA UntouchedKeeps ==
    ASSUME NEW r \in Reviews, ReviewInv(r), Untouched(r)
    PROVE  ReviewInv(r)'
BY DEF ReviewInv, Untouched, FenceAgrees, ReportAgrees, HoldsCustody, BeforeCrossing

-----------------------------------------------------------------------------
(* The types. *)

\* What the steps write into a fence or a request is one.
LEMMA EntryTypes ==
    ASSUME TypeOK, NEW s \in Reviews
    PROVE  /\ [fence[s] EXCEPT !.started = TRUE, !.renames = 1] \in Fence
           /\ fence[s].renames < MaxRenames => [fence[s] EXCEPT !.renames = @ + 1] \in Fence
           /\ \A b \in BOOLEAN : [fence[s] EXCEPT !.cancelled = b] \in Fence
           /\ \A d \in {"no", "published", "failed"} : [fence[s] EXCEPT !.settled = d] \in Fence
           /\ \A b \in BOOLEAN :
                 /\ [req[s] EXCEPT !.proof = b] \in Request
                 /\ [req[s] EXCEPT !.armed = b] \in Request
                 /\ [req[s] EXCEPT !.active = b] \in Request
           /\ \A what \in Reports : [req[s] EXCEPT !.report = what] \in Request
<1>1. fence[s] \in Fence /\ req[s] \in Request
  BY DEF TypeOK
<1>2. fence[s].renames < MaxRenames => fence[s].renames + 1 \in 0..MaxRenames
  BY <1>1, ReviewAssumption DEF Fence
<1>3. 1 \in 0..MaxRenames
  BY ReviewAssumption
<1> QED
  BY <1>1, <1>2, <1>3 DEF Fence, Request

\* Every step keeps the types: one case per action.
LEMMA TypeStep == TypeOK /\ [Next]_vars => TypeOK'
<1> SUFFICES ASSUME TypeOK, [Next]_vars PROVE TypeOK'
  OBVIOUS
<1>1. ASSUME NEW s \in Reviews, BinderThrows(s) PROVE TypeOK'
  BY <1>1 DEF TypeOK, BinderSteps, BinderThrows, BinderAt, Bind
<1>2. ASSUME NEW s \in Reviews, Examine(s) PROVE TypeOK'
  BY <1>2 DEF TypeOK, BinderSteps, Examine, BinderAt, Bind
<1>3. ASSUME NEW s \in Reviews, Stage(s) PROVE TypeOK'
  BY <1>3 DEF TypeOK, BinderSteps, Stage, BinderAt, Bind
<1>4. ASSUME NEW s \in Reviews, Cross(s) PROVE TypeOK'
  <2>1. fence' \in [Reviews -> Fence]
    BY <1>4, EntryTypes DEF TypeOK, Cross
  <2> QED
    BY <1>4, <2>1 DEF TypeOK, BinderSteps, DelegationSteps, Renames, Cross, BinderAt, Bind
<1>5. ASSUME NEW s \in Reviews, RenameRetried(s) PROVE TypeOK'
  <2>1. fence' \in [Reviews -> Fence]
    BY <1>5, EntryTypes DEF TypeOK, RenameRetried
  <2> QED
    BY <1>5, <2>1 DEF TypeOK, BinderSteps, DelegationSteps, Renames, RenameRetried, BinderAt
<1>6. ASSUME NEW s \in Reviews, PublicationSettles(s) PROVE TypeOK'
  BY <1>6 DEF TypeOK, BinderSteps, Fence, PublicationSettles, BinderAt, Bind, Disposition
<1>7. ASSUME NEW s \in Reviews, BinderReturns(s) PROVE TypeOK'
  BY <1>7 DEF TypeOK, BinderSteps, BinderReturns, BinderAt, Bind
<1>8. ASSUME NEW s \in Reviews, Admit(s) PROVE TypeOK'
  BY <1>8 DEF TypeOK, DelegationSteps, Admit, Go
<1>9. ASSUME NEW s \in Reviews, ReviewEnds(s) PROVE TypeOK'
  <2>1. req' \in [Reviews -> Request]
    BY <1>9, EntryTypes DEF TypeOK, ReviewEnds
  <2> QED
    BY <1>9, <2>1 DEF TypeOK, BinderSteps, DelegationSteps, Renames, ReviewEnds, Go, Bind
<1>10. ASSUME NEW s \in Reviews, OperationObserved(s) PROVE TypeOK'
  BY <1>10 DEF TypeOK, DelegationSteps, Reports, Request, Fence, OperationObserved, Go, Report
<1>11. ASSUME NEW s \in Reviews, BoundExpires(s) PROVE TypeOK'
  <2>1. fence' \in [Reviews -> Fence]
    BY <1>11, EntryTypes DEF TypeOK, BoundExpires
  <2>2. req' \in [Reviews -> Request]
    BY <1>11, EntryTypes DEF TypeOK, BoundExpires, Report, Reports
  <2> QED
    BY <1>11, <2>1, <2>2 DEF TypeOK, BinderSteps, DelegationSteps, Renames, BoundExpires, Go,
       Report
<1>12. ASSUME NEW s \in Reviews, SettlementObserved(s) PROVE TypeOK'
  BY <1>12 DEF TypeOK, DelegationSteps, Reports, Request, Fence, SettlementObserved, Go, Report
<1>13. ASSUME NEW s \in Reviews, QuiescenceExpires(s) PROVE TypeOK'
  BY <1>13 DEF TypeOK, DelegationSteps, Reports, Request, QuiescenceExpires, Go, Report
<1>14. ASSUME NEW s \in Reviews, Settle(s) PROVE TypeOK'
  <2>1. req' \in [Reviews -> Request]
    BY <1>14, EntryTypes DEF TypeOK, Settle
  <2> QED
    BY <1>14, <2>1 DEF TypeOK, BinderSteps, DelegationSteps, Renames, Settle, Go, Releases,
       Release
<1>15. ASSUME NEW s \in Reviews, LateRelease(s) PROVE TypeOK'
  BY <1>15 DEF TypeOK, Reports, Request, LateRelease, Release
<1>16. ASSUME NEW s \in Reviews, RenameLands(s) PROVE TypeOK'
  BY <1>16 DEF TypeOK, Renames, RenameLands
<1>17. ASSUME NEW s \in Reviews, RenameRejected(s) PROVE TypeOK'
  BY <1>17 DEF TypeOK, Renames, RenameRejected
<1>18. ASSUME NEW s \in Reviews, RenameMisreported(s) PROVE TypeOK'
  BY <1>18 DEF TypeOK, Renames, RenameMisreported
<1>19. ASSUME NEW s \in Reviews, RequestStops(s) PROVE TypeOK'
  <2>1. req' \in [Reviews -> Request]
    BY <1>19, EntryTypes DEF TypeOK, RequestStops
  <2>2. fence' \in [Reviews -> Fence]
    BY <1>19, EntryTypes DEF TypeOK, RequestStops
  <2> QED
    BY <1>19, <2>1, <2>2 DEF TypeOK, BinderSteps, DelegationSteps, Renames, RequestStops
<1>20. ASSUME NEW s \in Reviews, Crash(s) PROVE TypeOK'
  BY <1>20 DEF TypeOK, DelegationSteps, Crash, Go
<1>21. ASSUME NEW s \in Reviews, Reconcile(s) PROVE TypeOK'
  BY <1>21 DEF TypeOK, Reconcile
<1>22. CASE UNCHANGED vars
  BY <1>22 DEF TypeOK, vars
<1> QED
  BY <1>1, <1>2, <1>3, <1>4, <1>5, <1>6, <1>7, <1>8, <1>9, <1>10, <1>11, <1>12, <1>13, <1>14,
     <1>15, <1>16, <1>17, <1>18, <1>19, <1>20, <1>21, <1>22 DEF Next, Binder, Delegation

-----------------------------------------------------------------------------
(* The invariant.  Each step is of one review: it leaves the others alone, *)
(* and what it takes from custody was never theirs.                        *)

\* The steps of a binder keep the invariant of every review: a binder stays within
\* its fence.
LEMMA BinderKeeps ==
    ASSUME IInv, NEW s \in Reviews, Binder(s)
    PROVE  \A r \in Reviews : ReviewInv(r)'
<1> USE ReviewAssumption DEF IInv
<1>1. ASSUME BinderThrows(s) PROVE \A r \in Reviews : ReviewInv(r)'
  <2>1. ASSUME NEW r \in Reviews, r # s PROVE Untouched(r)
    BY <1>1, <2>1 DEF Untouched, TypeOK, ReviewInv, HoldsCustody, BinderThrows, BinderAt, Bind
  <2>2. ReviewInv(s)'
    BY <1>1 DEF ReviewInv, FenceAgrees, ReportAgrees, HoldsCustody, BeforeCrossing, TypeOK,
       Fence, Request, BinderThrows, BinderAt, Bind
  <2> QED
    BY <2>1, <2>2, UntouchedKeeps
<1>2. ASSUME Examine(s) PROVE \A r \in Reviews : ReviewInv(r)'
  <2>1. ASSUME NEW r \in Reviews, r # s PROVE Untouched(r)
    BY <1>2, <2>1 DEF Untouched, TypeOK, ReviewInv, HoldsCustody, Examine, BinderAt, Bind
  <2>2. ReviewInv(s)'
    BY <1>2 DEF ReviewInv, FenceAgrees, ReportAgrees, HoldsCustody, BeforeCrossing, TypeOK,
       Fence, Request, Examine, BinderAt, Bind
  <2> QED
    BY <2>1, <2>2, UntouchedKeeps
<1>3. ASSUME Stage(s) PROVE \A r \in Reviews : ReviewInv(r)'
  <2>1. ASSUME NEW r \in Reviews, r # s PROVE Untouched(r)
    BY <1>3, <2>1 DEF Untouched, TypeOK, ReviewInv, HoldsCustody, Stage, BinderAt, Bind
  <2>2. ReviewInv(s)'
    BY <1>3 DEF ReviewInv, FenceAgrees, ReportAgrees, HoldsCustody, BeforeCrossing, TypeOK,
       Fence, Request, Stage, BinderAt, Bind
  <2> QED
    BY <2>1, <2>2, UntouchedKeeps
<1>4. ASSUME Cross(s) PROVE \A r \in Reviews : ReviewInv(r)'
  <2>1. ASSUME NEW r \in Reviews, r # s PROVE Untouched(r)
    BY <1>4, <2>1 DEF Untouched, TypeOK, ReviewInv, HoldsCustody, Cross, BinderAt, Bind
  <2>2. ReviewInv(s)'
    BY <1>4 DEF ReviewInv, FenceAgrees, ReportAgrees, HoldsCustody, BeforeCrossing, TypeOK,
       Fence, Request, Cross, BinderAt, Bind
  <2> QED
    BY <2>1, <2>2, UntouchedKeeps
<1>5. ASSUME RenameRetried(s) PROVE \A r \in Reviews : ReviewInv(r)'
  <2>1. ASSUME NEW r \in Reviews, r # s PROVE Untouched(r)
    BY <1>5, <2>1 DEF Untouched, TypeOK, ReviewInv, HoldsCustody, RenameRetried, BinderAt
  <2>2. ReviewInv(s)'
    BY <1>5 DEF ReviewInv, FenceAgrees, ReportAgrees, HoldsCustody, BeforeCrossing, TypeOK,
       Fence, Request, RenameRetried, BinderAt
  <2> QED
    BY <2>1, <2>2, UntouchedKeeps
<1>6. ASSUME PublicationSettles(s) PROVE \A r \in Reviews : ReviewInv(r)'
  <2>1. ASSUME NEW r \in Reviews, r # s PROVE Untouched(r)
    BY <1>6, <2>1 DEF Untouched, TypeOK, ReviewInv, HoldsCustody, PublicationSettles, BinderAt,
       Bind, Disposition
  <2>2. ReviewInv(s)'
    BY <1>6 DEF ReviewInv, FenceAgrees, ReportAgrees, HoldsCustody, BeforeCrossing, TypeOK,
       Fence, Request, PublicationSettles, BinderAt, Bind, Disposition
  <2> QED
    BY <2>1, <2>2, UntouchedKeeps
<1>7. ASSUME BinderReturns(s) PROVE \A r \in Reviews : ReviewInv(r)'
  <2>1. ASSUME NEW r \in Reviews, r # s PROVE Untouched(r)
    BY <1>7, <2>1 DEF Untouched, TypeOK, ReviewInv, HoldsCustody, BinderReturns, BinderAt, Bind
  <2>2. ReviewInv(s)'
    BY <1>7 DEF ReviewInv, FenceAgrees, ReportAgrees, HoldsCustody, BeforeCrossing, TypeOK,
       Fence, Request, BinderReturns, BinderAt, Bind
  <2> QED
    BY <2>1, <2>2, UntouchedKeeps
<1> QED
  BY <1>1, <1>2, <1>3, <1>4, <1>5, <1>6, <1>7 DEF Binder

\* So do those of a delegation: what it reports it read from the fence, and it
\* returns only its own custody, once nothing can land any more.
LEMMA DelegationKeeps ==
    ASSUME IInv, NEW s \in Reviews, Delegation(s)
    PROVE  \A r \in Reviews : ReviewInv(r)'
<1> USE ReviewAssumption DEF IInv
<1>1. ASSUME Admit(s) PROVE \A r \in Reviews : ReviewInv(r)'
  <2>1. ASSUME NEW r \in Reviews, r # s PROVE Untouched(r)
    BY <1>1, <2>1 DEF Untouched, TypeOK, ReviewInv, HoldsCustody, Admit, Go
  <2>2. ReviewInv(s)'
    BY <1>1 DEF ReviewInv, FenceAgrees, ReportAgrees, HoldsCustody, BeforeCrossing, TypeOK,
       Fence, Request, Admit, Go
  <2> QED
    BY <2>1, <2>2, UntouchedKeeps
<1>2. ASSUME ReviewEnds(s) PROVE \A r \in Reviews : ReviewInv(r)'
  <2>1. ASSUME NEW r \in Reviews, r # s PROVE Untouched(r)
    BY <1>2, <2>1 DEF Untouched, TypeOK, ReviewInv, HoldsCustody, ReviewEnds, Go, Bind
  <2>2. ReviewInv(s)'
    BY <1>2 DEF ReviewInv, FenceAgrees, ReportAgrees, HoldsCustody, BeforeCrossing, TypeOK,
       Fence, Request, ReviewEnds, Go, Bind
  <2> QED
    BY <2>1, <2>2, UntouchedKeeps
<1>3. ASSUME OperationObserved(s) PROVE \A r \in Reviews : ReviewInv(r)'
  <2>1. ASSUME NEW r \in Reviews, r # s PROVE Untouched(r)
    BY <1>3, <2>1 DEF Untouched, TypeOK, ReviewInv, HoldsCustody, OperationObserved, Go, Report
  <2>2. ReviewInv(s)'
    BY <1>3 DEF ReviewInv, FenceAgrees, ReportAgrees, HoldsCustody, BeforeCrossing, TypeOK,
       Fence, Request, OperationObserved, Go, Report
  <2> QED
    BY <2>1, <2>2, UntouchedKeeps
<1>4. ASSUME BoundExpires(s) PROVE \A r \in Reviews : ReviewInv(r)'
  <2>1. ASSUME NEW r \in Reviews, r # s PROVE Untouched(r)
    BY <1>4, <2>1 DEF Untouched, TypeOK, ReviewInv, HoldsCustody, BoundExpires, Go, Report
  <2>2. ReviewInv(s)'
    BY <1>4 DEF ReviewInv, FenceAgrees, ReportAgrees, HoldsCustody, BeforeCrossing, TypeOK,
       Fence, Request, BoundExpires, Go, Report
  <2> QED
    BY <2>1, <2>2, UntouchedKeeps
<1>5. ASSUME SettlementObserved(s) PROVE \A r \in Reviews : ReviewInv(r)'
  <2>1. ASSUME NEW r \in Reviews, r # s PROVE Untouched(r)
    BY <1>5, <2>1 DEF Untouched, TypeOK, ReviewInv, HoldsCustody, SettlementObserved, Go, Report
  <2>2. ReviewInv(s)'
    BY <1>5 DEF ReviewInv, FenceAgrees, ReportAgrees, HoldsCustody, BeforeCrossing, TypeOK,
       Fence, Request, SettlementObserved, Go, Report
  <2> QED
    BY <2>1, <2>2, UntouchedKeeps
<1>6. ASSUME QuiescenceExpires(s) PROVE \A r \in Reviews : ReviewInv(r)'
  <2>1. ASSUME NEW r \in Reviews, r # s PROVE Untouched(r)
    BY <1>6, <2>1 DEF Untouched, TypeOK, ReviewInv, HoldsCustody, QuiescenceExpires, Go, Report
  <2>2. ReviewInv(s)'
    BY <1>6 DEF ReviewInv, FenceAgrees, ReportAgrees, HoldsCustody, BeforeCrossing, TypeOK,
       Fence, Request, QuiescenceExpires, Go, Report
  <2> QED
    BY <2>1, <2>2, UntouchedKeeps
<1>7. ASSUME Settle(s) PROVE \A r \in Reviews : ReviewInv(r)'
  <2>1. ASSUME NEW r \in Reviews, r # s PROVE Untouched(r)
    BY <1>7, <2>1 DEF Untouched, TypeOK, ReviewInv, HoldsCustody, Settle, Go, Releases, Release
  <2>2. ReviewInv(s)'
    BY <1>7 DEF ReviewInv, FenceAgrees, ReportAgrees, HoldsCustody, BeforeCrossing, TypeOK,
       Fence, Request, Settle, Go, Releases, Release
  <2> QED
    BY <2>1, <2>2, UntouchedKeeps
<1>8. ASSUME LateRelease(s) PROVE \A r \in Reviews : ReviewInv(r)'
  <2>1. ASSUME NEW r \in Reviews, r # s PROVE Untouched(r)
    BY <1>8, <2>1 DEF Untouched, TypeOK, ReviewInv, HoldsCustody, LateRelease, Release
  <2>2. ReviewInv(s)'
    BY <1>8 DEF ReviewInv, FenceAgrees, ReportAgrees, HoldsCustody, BeforeCrossing, TypeOK,
       Fence, Request, LateRelease, Release
  <2> QED
    BY <2>1, <2>2, UntouchedKeeps
<1> QED
  BY <1>1, <1>2, <1>3, <1>4, <1>5, <1>6, <1>7, <1>8 DEF Delegation

\* So do the file system, a stop, a crash and the reconciliation that follows it.
LEMMA SurroundingsKeeps ==
    ASSUME IInv, NEW s \in Reviews, Surroundings(s)
    PROVE  \A r \in Reviews : ReviewInv(r)'
<1> USE ReviewAssumption DEF IInv
<1>1. ASSUME RenameLands(s) PROVE \A r \in Reviews : ReviewInv(r)'
  <2>1. ASSUME NEW r \in Reviews, r # s PROVE Untouched(r)
    BY <1>1, <2>1 DEF Untouched, TypeOK, ReviewInv, HoldsCustody, RenameLands
  <2>2. ReviewInv(s)'
    BY <1>1 DEF ReviewInv, FenceAgrees, ReportAgrees, HoldsCustody, BeforeCrossing, TypeOK,
       Fence, Request, RenameLands
  <2> QED
    BY <2>1, <2>2, UntouchedKeeps
<1>2. ASSUME RenameRejected(s) PROVE \A r \in Reviews : ReviewInv(r)'
  <2>1. ASSUME NEW r \in Reviews, r # s PROVE Untouched(r)
    BY <1>2, <2>1 DEF Untouched, TypeOK, ReviewInv, HoldsCustody, RenameRejected
  <2>2. ReviewInv(s)'
    BY <1>2 DEF ReviewInv, FenceAgrees, ReportAgrees, HoldsCustody, BeforeCrossing, TypeOK,
       Fence, Request, RenameRejected
  <2> QED
    BY <2>1, <2>2, UntouchedKeeps
<1>3. ASSUME RenameMisreported(s) PROVE \A r \in Reviews : ReviewInv(r)'
  <2>1. ASSUME NEW r \in Reviews, r # s PROVE Untouched(r)
    BY <1>3, <2>1 DEF Untouched, TypeOK, ReviewInv, HoldsCustody, RenameMisreported
  <2>2. ReviewInv(s)'
    BY <1>3 DEF ReviewInv, FenceAgrees, ReportAgrees, HoldsCustody, BeforeCrossing, TypeOK,
       Fence, Request, RenameMisreported
  <2> QED
    BY <2>1, <2>2, UntouchedKeeps
<1>4. ASSUME RequestStops(s) PROVE \A r \in Reviews : ReviewInv(r)'
  <2>1. ASSUME NEW r \in Reviews, r # s PROVE Untouched(r)
    BY <1>4, <2>1 DEF Untouched, TypeOK, ReviewInv, HoldsCustody, RequestStops
  <2>2. ReviewInv(s)'
    BY <1>4 DEF ReviewInv, FenceAgrees, ReportAgrees, HoldsCustody, BeforeCrossing, TypeOK,
       Fence, Request, RequestStops
  <2> QED
    BY <2>1, <2>2, UntouchedKeeps
<1>5. ASSUME Crash(s) PROVE \A r \in Reviews : ReviewInv(r)'
  <2>1. ASSUME NEW r \in Reviews, r # s PROVE Untouched(r)
    BY <1>5, <2>1 DEF Untouched, TypeOK, ReviewInv, HoldsCustody, Crash, Go
  <2>2. ReviewInv(s)'
    BY <1>5 DEF ReviewInv, FenceAgrees, ReportAgrees, HoldsCustody, BeforeCrossing, TypeOK,
       Fence, Request, Crash, Go
  <2> QED
    BY <2>1, <2>2, UntouchedKeeps
<1>6. ASSUME Reconcile(s) PROVE \A r \in Reviews : ReviewInv(r)'
  <2>1. ASSUME NEW r \in Reviews, r # s PROVE Untouched(r)
    BY <1>6, <2>1 DEF Untouched, TypeOK, ReviewInv, HoldsCustody, Reconcile
  <2>2. ReviewInv(s)'
    BY <1>6 DEF ReviewInv, FenceAgrees, ReportAgrees, HoldsCustody, BeforeCrossing, TypeOK,
       Fence, Request, Reconcile
  <2> QED
    BY <2>1, <2>2, UntouchedKeeps
<1> QED
  BY <1>1, <1>2, <1>3, <1>4, <1>5, <1>6 DEF Surroundings

\* The invariant is inductive.
LEMMA InvariantStep == IInv /\ [Next]_vars => IInv'
<1> SUFFICES ASSUME IInv, [Next]_vars PROVE \A r \in Reviews : ReviewInv(r)'
  BY TypeStep DEF IInv
<1>1. CASE \E s \in Reviews : Binder(s) \/ Delegation(s) \/ Surroundings(s)
  BY <1>1, BinderKeeps, DelegationKeeps, SurroundingsKeeps
<1>2. CASE UNCHANGED vars
  BY <1>2, UntouchedKeeps DEF IInv, Untouched, vars
<1> QED
  BY <1>1, <1>2 DEF Next, Surroundings

\* It holds at the start, when nobody holds anything.
LEMMA InvariantInit == Init => IInv
<1> SUFFICES ASSUME Init PROVE IInv
  OBVIOUS
<1> USE ReviewAssumption DEF Init, NewFence, NewRequest
<1>1. TypeOK
  BY DEF TypeOK, BinderSteps, DelegationSteps, Renames, Fence, Request, Reports
<1>2. \A r \in Reviews : ReviewInv(r)
  BY DEF ReviewInv, FenceAgrees, ReportAgrees, HoldsCustody, BeforeCrossing
<1> QED
  BY <1>1, <1>2 DEF IInv

\* So it holds throughout.
LEMMA Invariant == Spec => []IInv
BY InvariantInit, InvariantStep, PTL DEF Spec

-----------------------------------------------------------------------------
(* The theorems.                                                           *)

\* Every variable has its type, for any reviews and any bounds.
THEOREM TypeCorrect == Spec => []TypeOK
<1>1. IInv => TypeOK
  BY DEF IInv
<1> QED
  BY <1>1, Invariant, PTL

\* What a review reports of its publication is what there is: its fence bears
\* the report out, and the fence tells the truth about the rename.
THEOREM ReportsAreTrue == Spec => []ReportsTruth
<1>1. IInv => ReportsTruth
  BY DEF IInv, ReviewInv, FenceAgrees, ReportAgrees, ReportsTruth
<1> QED
  BY <1>1, Invariant, PTL

\* A rename in flight has its review's custody around it.
LEMMA IssuedUnderCustody ==
    ASSUME IInv, NEW r \in up, rename[r] = "issued"
    PROVE  custody = r
BY DEF IInv, TypeOK, ReviewInv, FenceAgrees, ReportAgrees, HoldsCustody, BeforeCrossing,
       DelegationSteps, Request, Reports

\* Only a rename that was issued makes a receipt appear.
LEMMA OnlyRenamesLand ==
    ASSUME [Next]_vars, NEW r \in receipts' \ receipts
    PROVE  rename[r] = "issued" /\ receipts' = receipts \union {r}
BY DEF Next, Binder, Delegation, vars, BinderThrows, Examine, Stage, Cross, RenameRetried,
       PublicationSettles, BinderReturns, Admit, ReviewEnds, OperationObserved, BoundExpires,
       SettlementObserved, QuiescenceExpires, Settle, LateRelease, RenameLands, RenameRejected,
       RenameMisreported, RequestStops, Crash, Reconcile

\* A receipt becomes durable only while its review holds the repository.
THEOREM ReceiptsLandUnderCustody == Spec => ReceiptUnderCustody
<1>1. IInv /\ [Next]_vars => [\A r \in up : r \in receipts' \ receipts => custody = r]_vars
  BY IssuedUnderCustody, OnlyRenamesLand
<1> QED
  BY <1>1, Invariant, PTL DEF Spec, ReceiptUnderCustody
-----------------------------------------------------------------------------
(* The bound of the store, which nothing but custody keeps: the receipts   *)
(* are counted well before the rename that adds one.                       *)

\* A publication that has passed the count and may still land.
MayLand(r) ==
    \/ binder[r] = "cross" /\ ~fence[r].cancelled
    \/ binder[r] = "renaming" /\ rename[r] \in {"issued", "rejected"}

RoomInv ==
    /\ IsFiniteSet(receipts)
    /\ StoreKeepsItsBound
    /\ \A r \in Reviews : up = Reviews /\ MayLand(r) => Cardinality(receipts) < MaxReceipts

\* Two such publications would both hold the repository.
LEMMA MayLandHolds ==
    ASSUME IInv, NEW r \in up, MayLand(r)
    PROVE  custody = r
BY DEF IInv, TypeOK, ReviewInv, FenceAgrees, ReportAgrees, HoldsCustody, BeforeCrossing,
       DelegationSteps, Request, Reports, MayLand

\* A publication may land only if it could before, or was staged by this step.
LEMMA NewlyStaged ==
    ASSUME IInv, [Next]_vars, NEW r \in Reviews, MayLand(r)'
    PROVE  MayLand(r) \/ (Cardinality(receipts) < MaxReceipts /\ receipts' = receipts)
<1>1. CASE UNCHANGED vars
  BY <1>1 DEF vars, MayLand
<1>2. ASSUME NEW s \in Reviews, Binder(s)
      PROVE  MayLand(r) \/ (Cardinality(receipts) < MaxReceipts /\ receipts' = receipts)
  BY <1>2 DEF Binder, BinderThrows, Examine, Stage, Cross, RenameRetried, PublicationSettles,
         BinderReturns, BinderAt, Bind, Fence, IInv, TypeOK, MayLand
<1>3. ASSUME NEW s \in Reviews, Delegation(s) PROVE MayLand(r)
  BY <1>3 DEF Delegation, Admit, ReviewEnds, OperationObserved, BoundExpires,
         SettlementObserved, QuiescenceExpires, Settle, LateRelease, Bind, Fence,
         IInv, TypeOK, MayLand
<1>4. ASSUME NEW s \in Reviews, Surroundings(s) PROVE MayLand(r)
  BY <1>4 DEF Surroundings, RenameLands, RenameRejected, RenameMisreported, RequestStops,
         Crash, Reconcile, Fence, ReviewInv, FenceAgrees, IInv, TypeOK, MayLand
<1>5. CASE \E s \in Reviews : Binder(s) \/ Delegation(s) \/ Surroundings(s)
  BY <1>5, <1>2, <1>3, <1>4
<1> QED
  BY <1>1, <1>5 DEF Next, Surroundings

\* Every coordinator that is up was up before.
LEMMA NobodyReturns == [Next]_vars => up' \subseteq up
BY DEF Next, Binder, Delegation, vars, BinderThrows, Examine, Stage, Cross, RenameRetried,
       PublicationSettles, BinderReturns, Admit, ReviewEnds, OperationObserved, BoundExpires,
       SettlementObserved, QuiescenceExpires, Settle, LateRelease, RenameLands, RenameRejected,
       RenameMisreported, RequestStops, Crash, Reconcile

\* A rename that landed is not landing any more.
LEMMA LandedOnce ==
    ASSUME IInv, [Next]_vars, NEW r \in receipts' \ receipts
    PROVE  ~MayLand(r)' /\ MayLand(r) /\ r \in Reviews
<1>1. rename[r] = "issued" /\ r \in Reviews /\ IInv'
  BY OnlyRenamesLand, InvariantStep DEF IInv, TypeOK
<1>2. binder[r] = "renaming"
  BY <1>1 DEF IInv, ReviewInv, FenceAgrees
<1>3. rename'[r] \in {"landed", "misreported"} /\ fence'[r].started
  BY <1>1 DEF IInv, ReviewInv, FenceAgrees
<1> QED
  BY <1>1, <1>2, <1>3 DEF MayLand, IInv, ReviewInv, FenceAgrees, BeforeCrossing

\* The steps keep the bound: the one rename that lands uses the room it counted.
LEMMA RoomStep == IInv /\ RoomInv /\ [Next]_vars => RoomInv'
<1> SUFFICES ASSUME IInv, RoomInv, [Next]_vars PROVE RoomInv'
  OBVIOUS
<1> USE ReviewAssumption
<1>1. up' = Reviews => up = Reviews
  BY NobodyReturns DEF IInv, TypeOK
<1>2. CASE receipts' \subseteq receipts
  <2>1. receipts' = receipts
    BY <1>2 DEF Next, Binder, Delegation, vars, BinderThrows, Examine, Stage, Cross,
           RenameRetried, PublicationSettles, BinderReturns, Admit, ReviewEnds,
           OperationObserved, BoundExpires, SettlementObserved, QuiescenceExpires, Settle,
           LateRelease, RenameLands, RenameRejected, RenameMisreported, RequestStops, Crash,
           Reconcile
  <2> QED
    BY <1>1, <2>1, NewlyStaged DEF RoomInv, StoreKeepsItsBound
<1>3. ASSUME NEW r \in receipts' \ receipts PROVE RoomInv'
  <2>1. receipts' = receipts \union {r}
    BY OnlyRenamesLand
  <2>2. MayLand(r) /\ ~MayLand(r)' /\ r \in Reviews
    BY LandedOnce
  <2>3. IsFiniteSet(receipts') /\ Cardinality(receipts') = Cardinality(receipts) + 1
    BY <2>1, FS_AddElement DEF RoomInv
  <2>4. Cardinality(receipts) \in Nat
    BY FS_CardinalityType DEF RoomInv
  <2>5. up' = Reviews => Cardinality(receipts') <= MaxReceipts
    BY <1>1, <2>2, <2>3, <2>4 DEF RoomInv
  <2>6. ASSUME NEW q \in Reviews, up' = Reviews, MayLand(q)' PROVE FALSE
    <3>1. MayLand(q)
      BY <2>6, <2>1, NewlyStaged
    <3> QED
      BY <1>1, <2>2, <2>6, <3>1, MayLandHolds
  <2> QED
    BY <2>3, <2>5, <2>6 DEF RoomInv, StoreKeepsItsBound
<1> QED
  BY <1>2, <1>3

\* A change set never holds more receipts than its bound, as long as no
\* coordinator died with a rename in flight.
THEOREM StoreNeverOverfull == Spec => []StoreKeepsItsBound
<1>1. Init => RoomInv
  BY FS_EmptySet, ReviewAssumption DEF Init, RoomInv, StoreKeepsItsBound, MayLand
<1>2. RoomInv => StoreKeepsItsBound
  BY DEF RoomInv
<1> QED
  BY <1>1, <1>2, RoomStep, Invariant, PTL DEF Spec
=============================================================================
