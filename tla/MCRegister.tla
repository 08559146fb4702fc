----------------------------- MODULE MCRegister -----------------------------
(* Small registers: two people, few operations, and the requests of one      *)
(* question each. Every request may be sent any number of times.             *)
EXTENDS Register, TLC

CONSTANTS ann, ben, o1, o2, o3, o4, r1, r2

MCActors      == {ann, ben}
MCDays        == {1}
MCAmounts     == {0, 5}
MCParticulars == {1}
MCGrants == (ann :> {"OWNER", "CASE_HANDLER", "DATA_STEWARD"}) @@
            (ben :> {"OWNER", "CASE_HANDLER"})

ByReference(r) == [by |-> "REFERENCE", reference |-> r]
ById(c)        == [by |-> "ID", id |-> c]
CaseRequest(actor, op, target, expected, act) ==
  [kind |-> "CASE", op |-> op, actor |-> actor, target |-> target,
   expected |-> expected, act |-> act]
AuthorityRequest(actor, op, change, subject) ==
  [kind |-> "AUTHORITY", op |-> op, actor |-> actor, subject |-> subject, change |-> change]
Lookup(kind, actor, op) == [kind |-> kind, op |-> op, actor |-> actor]

OpenIt  == [kind |-> "OPEN",
            registration |-> [incident |-> 1, notified |-> 1, particulars |-> 1]]
DecideIt == [kind |-> "DECIDE", decision |-> [date |-> 1, payable |-> 5]]

(* The fate of two operations: a repeated and a foreign submission of the
   same content, other content under a used identity, settlement, status. *)
DeliveryOperations == {o1, o2}
DeliveryRequests ==
  {CaseRequest(ann, o1, ByReference(r1), 0, OpenIt),
   CaseRequest(ben, o1, ByReference(r1), 0, OpenIt),
   CaseRequest(ben, o2, ById(o1), 1, DecideIt),
   Lookup("RESOLVE", ann, o1), Lookup("RESOLVE", ben, o1),
   Lookup("STATUS", ann, o1)}

(* A case that is opened, decided, closed, erased, and whose reference is
   asked for again; acts race on its revisions. *)
HistoryOperations == {o1, o2, o3, o4}
HistoryRequests ==
  {CaseRequest(ann, o1, ByReference(r1), 0, OpenIt),
   CaseRequest(ben, o2, ByReference(r1), 0, OpenIt),
   CaseRequest(ben, o3, ByReference(r1), 1, DecideIt),
   CaseRequest(ben, o4, ById(o1), 2, [kind |-> "CLOSE"]),
   CaseRequest(ann, o2, ByReference(r1), 1, [kind |-> "ERASE"]),
   CaseRequest(ann, o4, ById(o1), 2, [kind |-> "ERASE"]),
   CaseRequest(ben, o3, ByReference(r2), 0, OpenIt)}

(* Owners who disable each other or themselves, maintenance meanwhile, with a
   case act and a settlement beside them.                                  *)
ControlOperations == {o1, o2, o3}
ControlRequests ==
  {AuthorityRequest(ann, o3, "DISABLE", ben),
   AuthorityRequest(ann, o2, "DISABLE", ann),
   AuthorityRequest(ben, o2, "DISABLE", ann),
   CaseRequest(ann, o1, ByReference(r1), 0, OpenIt),
   Lookup("RESOLVE", ann, o1)}
=============================================================================
