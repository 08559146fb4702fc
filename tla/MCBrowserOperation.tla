----------------------- MODULE MCBrowserOperation -----------------------
(* Small instances of BrowserOperation. *)
EXTENDS BrowserOperation

Scenario(authored, effects, contexts, withdraw) ==
  [subject |-> authored, effects |-> effects, contexts |-> contexts, withdraw |-> withdraw]

\* Every phase but the one between the journal write and the dispatch.
SafeWithdrawals == Phases \ {"PREPARING"}

\* A case: long enough for a conflict, the rebase onto the newer revision and its
\* dispatch. Every subject: a change of requester or session, or a withdrawal, anywhere.
MCScenarios ==
  {Scenario("CASE", 4, 0, {}),
   Scenario("CASE", 3, 1, SafeWithdrawals),
   Scenario("OPEN", 3, 1, SafeWithdrawals),
   Scenario("AUTHORITY", 2, 0, SafeWithdrawals)}

\* A withdrawal while the journal write is under way.
MCLateWithdrawal == {Scenario("CASE", 2, 0, Phases)}
=============================================================================
