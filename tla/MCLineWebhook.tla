----------------------------- MODULE MCLineWebhook -----------------------------
(* Small instances of LineWebhook.                                         *)
EXTENDS LineWebhook, TLC

CONSTANTS w1, w2, a1, a2, k1, k2, c1, c2, i1, i2, i3

E(type, user) == [type |-> type, user |-> user]

(* Two deliveries that meet the same users in opposite order, so that      *)
(* their transactions can wait for each other; together they have every    *)
(* kind of event, and the first is delivered twice.                        *)
MCDeliveries == {"d1", "d2"}
MCEvents ==
  [d \in MCDeliveries |->
     IF d = "d1" THEN <<E("text", k1), E("text", k2)>>
     ELSE <<E("follow", k2), E("unfollow", k1), E("other", k1)>>]
MCAttempts == [d \in MCDeliveries |-> IF d = "d1" THEN 2 ELSE 1]
(* A user follows, and later writes.                                       *)
MCTextEvents ==
  [d \in MCDeliveries |-> IF d = "d1" THEN <<E("follow", k1)>> ELSE <<E("text", k1)>>]
MCOnce == [d \in MCDeliveries |-> 1]

(* Administrators link one user, to either customer.                       *)
MCLinks == {<<k1, c1>>, <<k1, c2>>}
===============================================================================
