----------------------------- MODULE MCCaseLife -----------------------------
(* Three days and a zero and a nonzero amount; see CaseLife.cfg. *)
EXTENDS CaseLife

MCDays        == 1 .. 3
MCAmounts     == {0, 5}
MCParticulars == {1, 2}
=============================================================================
