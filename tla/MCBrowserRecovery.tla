------------------------ MODULE MCBrowserRecovery ------------------------
(* A small instance of BrowserRecovery. *)
EXTENDS BrowserRecovery

\* Two attempts of one operation under different acts.
MCRecords ==
  {[attempt |-> 1, actor |-> "ana", op |-> "o1", act |-> "PAY"],
   [attempt |-> 2, actor |-> "ana", op |-> "o1", act |-> "CLOSE"]}

MCOwn == {r \in MCRecords : r.attempt = 1}
=============================================================================
