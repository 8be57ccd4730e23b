---------------------------- MODULE MCPaymentIpn ----------------------------
(* Small instances of PaymentIpn: two top-ups of one wallet, or one top-up   *)
(* and one trip.                                                             *)
EXTENDS PaymentIpn

CONSTANTS o1, o2, w1, h1, h2, a, b

\* The structure of the instances.
MCWalletOf == [o \in Orders |-> w1]
MCOwner == [w \in Wallets |-> "shoemaker"]
MCCustomer == [w \in Wallets |-> "customer"]
MCAmount == [o \in Orders |-> IF o = o1 THEN 1 ELSE 2]
MCOpening == [w \in Wallets |-> 5]
MCWorkerOf == [h \in Handlers |-> IF h = h1 THEN a ELSE b]
MCOneWorker == [h \in Handlers |-> a]
MCCorrections == {-3}

=============================================================================
