------------------------------ MODULE OrderFSM ------------------------------
(***************************************************************************)
(* The order state machine: the states of OrderState, the transition table *)
(* of is_valid_transition and the two predicates on states that OrderFSM   *)
(* and OrderRecord share.                                                  *)
(***************************************************************************)

States == {"New", "PendingAck", "Open", "PartiallyFilled", "Filled",
           "CancelPending", "Cancelled", "Rejected", "Expired",
           "UnknownRecovery"}

is_terminal(s) == s \in {"Filled", "Cancelled", "Rejected", "Expired"}

is_active(s) == s \in {"Open", "PartiallyFilled", "PendingAck", "CancelPending"}

Successors(s) ==
  CASE s = "New"             -> {"PendingAck"}
    [] s = "PendingAck"      -> {"Open", "Rejected", "Filled",
                                 "PartiallyFilled", "CancelPending",
                                 "Cancelled", "UnknownRecovery"}
    [] s = "Open"            -> {"PartiallyFilled", "Filled", "CancelPending",
                                 "Cancelled", "Expired", "UnknownRecovery"}
    [] s = "PartiallyFilled" -> {"Filled", "CancelPending", "Cancelled",
                                 "Expired", "UnknownRecovery"}
    [] s = "CancelPending"   -> {"Cancelled", "Filled", "PartiallyFilled",
                                 "UnknownRecovery"}
    [] s = "UnknownRecovery" -> States
    [] OTHER                 -> {}

is_valid_transition(from, to) == ~is_terminal(from) /\ to \in Successors(from)
=============================================================================
