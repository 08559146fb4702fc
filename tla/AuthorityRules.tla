--------------------------- MODULE AuthorityRules ---------------------------
(***************************************************************************)
(* What a role lets a registered person do: roles name sets of capabilities *)
(* and every case act requires some of them.                                *)
(***************************************************************************)
EXTENDS CaseRules

Roles == {"OWNER", "CASE_READER", "CASE_REGISTRAR", "CASE_HANDLER",
          "PAYMENT_RECORDER", "DATA_STEWARD", "AUDITOR"}

Policy(role) ==
  CASE role = "OWNER"            -> {"MANAGE_AUTHORITY", "READ_AUTHORITY"}
    [] role = "CASE_READER"      -> {"READ_CASE", "READ_HISTORY"}
    [] role = "CASE_REGISTRAR"   -> {"READ_CASE", "READ_HISTORY", "REGISTER"}
    [] role = "CASE_HANDLER"     -> {"READ_CASE", "READ_HISTORY", "READ_HISTORY_FULL",
                                     "REGISTER", "DECIDE", "CLOSE", "MANAGE_CASE_WORK"}
    [] role = "PAYMENT_RECORDER" -> {"READ_CASE", "READ_HISTORY", "RECORD_PAYMENT"}
    [] role = "DATA_STEWARD"     -> {"READ_CASE", "READ_HISTORY", "STEWARD"}
    [] role = "AUDITOR"          -> {"READ_CASE", "READ_HISTORY", "READ_HISTORY_FULL",
                                     "READ_AUTHORITY"}

(* The capabilities a set of roles amounts to. *)
Held(roles) == UNION {Policy(role) : role \in roles}

(* A correction needs the capability of each group it touches. *)
CorrectionCapabilities == {"REGISTER", "DECIDE", "RECORD_PAYMENT"}

CorrectionNeeds(c) ==
  {g \in CorrectionCapabilities :
     \/ g = "REGISTER"       /\ c.registration # KeepRegistration
     \/ g = "DECIDE"         /\ c.decision.choice # "KEEP"
     \/ g = "RECORD_PAYMENT" /\ c.payment.choice # "KEEP"}

Needs(act) ==
  CASE act.kind \in {"OPEN", "AMEND_REGISTRATION"}      -> {"REGISTER"}
    [] act.kind \in {"DECIDE", "WITHDRAW_DECISION"}     -> {"DECIDE"}
    [] act.kind \in {"RECORD_PAYMENT", "CLEAR_PAYMENT"} -> {"RECORD_PAYMENT"}
    [] act.kind \in {"CLOSE", "REOPEN"}                 -> {"CLOSE"}
    [] act.kind \in {"VOID", "REINSTATE", "ERASE"}      -> {"STEWARD"}
    [] act.kind = "CORRECT"                             -> CorrectionNeeds(act.correction)

(* An empty correction still asks for one of the correction capabilities. *)
MayAct(held, act) ==
  /\ Needs(act) \subseteq held
  /\ act.kind = "CORRECT" => held \cap CorrectionCapabilities # {}
=============================================================================
