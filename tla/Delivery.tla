------------------------------ MODULE Delivery ------------------------------
(***************************************************************************)
(* What the register promises the author of an operation, whatever happens  *)
(* to requests and answers on the way: an operation identity is accepted at *)
(* most once, an author's final nonacceptance and acceptance exclude each   *)
(* other, and only a fate that has been settled is ever told.               *)
(***************************************************************************)

CONSTANTS Actors, Operations

VARIABLES fate,   \* what became of each author's operation identity
          told    \* the fates clients have been told, by author and identity

vars == <<fate, told>>

Fates == {"OPEN", "ACCEPTED", "NOT_ACCEPTED"}

Init ==
  /\ fate = [k \in Actors \X Operations |-> "OPEN"]
  /\ told = {}

(* One author's submission of an identity nobody has used is accepted. *)
Accept(a, o) ==
  /\ fate[<<a, o>>] = "OPEN"
  /\ \A b \in Actors : fate[<<b, o>>] # "ACCEPTED"
  /\ fate' = [fate EXCEPT ![<<a, o>>] = "ACCEPTED"]
  /\ UNCHANGED told

(* Final nonacceptance binds its author only. *)
Settle(a, o) ==
  /\ fate[<<a, o>>] = "OPEN"
  /\ fate' = [fate EXCEPT ![<<a, o>>] = "NOT_ACCEPTED"]
  /\ UNCHANGED told

Tell(a, o) ==
  /\ fate[<<a, o>>] # "OPEN"
  /\ told' = told \cup {<<a, o, fate[<<a, o>>]>>}
  /\ UNCHANGED fate

Next == \E a \in Actors, o \in Operations : Accept(a, o) \/ Settle(a, o) \/ Tell(a, o)

Spec == Init /\ [][Next]_vars
=============================================================================
