----------------------------- MODULE MCVouchers -----------------------------
(* A small instance of Vouchers: one voucher, two customers, one of whom is  *)
(* verified later, and two workers with one request each.                    *)
EXTENDS Vouchers

CONSTANTS v1, c1, c2, h1, h2, a, b

MCWorkerOf == [h \in Handlers |-> IF h = h1 THEN a ELSE b]

=============================================================================
