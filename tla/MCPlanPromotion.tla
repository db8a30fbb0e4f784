--------------------------- MODULE MCPlanPromotion ---------------------------
(***************************************************************************)
(* PlanPromotion with two slices, the second of which depends on the       *)
(* first, and two processes: one that reviews, one that may do without     *)
(* the lock.                                                               *)
(***************************************************************************)
EXTENDS PlanPromotion, TLC

CONSTANTS reviewer, bare
TheDeps == 1 :> {} @@ 2 :> {1}
\* A copy from when the first slice was approved and the second rejected.
TheDrafts == {1 :> "approved" @@ 2 :> "rejected"}
TheOrders ==
  reviewer :> {"approve", "reject", "promote", "finalize-yaml", "regenerate", "reopen", "rewrite"}
    @@ bare :> {"promote", "finalize-yaml", "finalize", "set-status", "elicit"}
=============================================================================
