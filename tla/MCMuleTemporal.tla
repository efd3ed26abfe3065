--------------------------- MODULE MCMuleTemporal ---------------------------
(***************************************************************************)
(* Owner 1 holds two accounts and closes inside the window; owner 2, a     *)
(* mule, joins a day late; a relative at another bank and the bank's       *)
(* income ledger have no owner.  A tick is half a day.                     *)
(***************************************************************************)
EXTENDS MuleTemporal

MCRegistry ==
  LET rec(k, role, bank, owner, ext, mule) ==
        [key |-> k, role |-> role, bank |-> bank, owner |-> owner, ext |-> ext, mule |-> mule]
  IN <<rec("a1", "account", "internal", 1, FALSE, FALSE), rec("a2", "account", "internal", 1, FALSE, FALSE),
       rec("b1", "account", "internal", 2, FALSE, TRUE), rec("x", "family", "external", 0, TRUE, FALSE),
       rec("gl", "ledger", "internal", 0, FALSE, FALSE)>>
MCJoin == 1 :> 0 @@ 2 :> 2
MCClose == 1 :> 5 @@ 2 :> 9
MCHomesOf == 1 :> <<[area |-> "north", from |-> 0], [area |-> "south", from |-> 3]>>
             @@ 2 :> <<[area |-> "north", from |-> 0]>>
MCStreetOf == 1 :> "street" @@ 2 :> "street"
MCRingOf == 1 :> -1 @@ 2 :> 0

use(p, item, first, last, e) == [person |-> p, item |-> item, first |-> first, last |-> last, enrolled |-> e]
MCDevices == <<
  <<use(1, "d", 0, 0, TRUE), use(1, "d", 2, 2, TRUE)>>,       \* adjacent
  <<use(1, "d", 0, 0, TRUE), use(1, "d", 4, 6, TRUE)>>,       \* a gap, cut by the closure
  <<use(1, "d", 0, 3, TRUE), use(1, "d", 1, 1, TRUE), use(2, "d", 2, 2, TRUE)>>,  \* enclosed, shared
  <<use(1, "d", 0, 2, FALSE), use(2, "d", 0, 0, TRUE)>>>>     \* not enrolled; before the join
MCUsages == [i \in DOMAIN MCDevices |-> [devices |-> MCDevices[i], ips |-> <<use(2, "i", 0, 3, TRUE)>>]]

pay(s, d, c, a, dev, ip) ==
  [src |-> s, dst |-> d, chan |-> c, amount |-> a, device |-> dev, ip |-> ip, ts |-> 0, draw |-> FALSE]
MCPayments == {
  pay("a1", "b1", "p2p", 2, "d", "none"), pay("a2", "x", "familySupport", 3, "e", "i"),
  pay("b1", "x", "muleForward", 1, "none", "none"), pay("x", "b1", "muleIn", 3, "none", "none"),
  pay("a1", "gl", "interest", 1, "none", "none"), pay("x", "a1", "p2p", NoAmount, "none", "j")}
MCSenders == {<<FALSE, <<"owner", 1>>>>, <<FALSE, <<"owner", 2>>>>, <<FALSE, <<"key", "x">>>>,
              <<FALSE, <<"key", "a1">>>>, <<FALSE, <<"key", "a2">>>>}
MCDailyCap(business) == IF business THEN 6 ELSE 3
MCMonthlyCap(business) == IF business THEN 8 ELSE 4
=============================================================================
