------------------------- MODULE EngagementStatuses -------------------------
(***************************************************************************)
(* The lifecycle column engagements.status and, for each handler that      *)
(* guards on it, the set of statuses the guard names.  The guards are NOT  *)
(* the same set in every handler: which statuses each one lists is part of *)
(* the behaviour under study.                                              *)
(***************************************************************************)

GatherStatuses  == {"ingesting", "issued", "in_progress"}
PendingStatuses == {"pending_vp_approval", "pending_ceo_approval"}
HoldStatuses    == {"returned_to_sales", "awaiting_clarification", "escalated"}
DraftStatuses   == {"drafting", "draft_ready"}
OutcomeStatuses == {"closed", "lost"}

Statuses ==
  GatherStatuses \cup PendingStatuses \cup HoldStatuses \cup DraftStatuses
    \cup OutcomeStatuses
    \cup {"submitted", "predicted", "pending_approval", "approved", "sent",
          "rejected", "expired"}

(* approve: TERMINAL_STATUSES *)
CanApproveFrom == Statuses \ {"closed", "lost", "rejected", "sent", "expired"}

CanRejectFrom_NoClosed == Statuses \ {"rejected", "sent", "expired"}

(* reject: its guard omits "lost" *)
CanRejectFrom == Statuses \ {"closed", "rejected", "sent", "expired"}

(* runReviewerHold: its guard omits "lost" as well *)
CanHoldFrom == Statuses \ {"closed", "sent", "expired", "rejected"}

(* revertApproval *)
CanRevertFrom == {"approved", "rejected"} \cup DraftStatuses

(* markOutcome *)
CanCloseFrom == {"sent"}

(* ProposalDraftService.generate: APPROVED_STATUSES plus "sent" *)
CanDraftFrom == {"approved", "sent"} \cup DraftStatuses

(* The conditional claim both generate paths use to enter "drafting" *)
DraftClaimFrom == {"approved", "draft_ready", "sent"}
=============================================================================
