---------------------------- MODULE WalletLedger ----------------------------
(***************************************************************************)
(* What the wallets promise, with no handler, lock, replica or worker in   *)
(* sight: a wallet changes only when one order is credited to it, by       *)
(* exactly the amount of that order, or when an administrator corrects it. *)
(* PaymentIpn is shown to implement this specification.                    *)
(***************************************************************************)
EXTENDS Integers, FiniteSets

CONSTANTS
    Orders,       \* the top-up transactions
    Wallets,
    WalletOf,     \* Transaction.walletId
    Amount,       \* Transaction.amount
    Opening,      \* the balance each wallet starts with
    Corrections   \* the amounts an administrator may add (negative: take away)

VARIABLES
    balance,      \* Wallet.balance
    credits,      \* how many times each order was credited
    corrected     \* the net manual correction of each wallet

ledgerVars == <<balance, credits, corrected>>

Init ==
    /\ balance = Opening
    /\ credits = [o \in Orders |-> 0]
    /\ corrected = [w \in Wallets |-> 0]

Credit(o) ==
    /\ balance' = [balance EXCEPT ![WalletOf[o]] = @ + Amount[o]]
    /\ credits' = [credits EXCEPT ![o] = @ + 1]
    /\ UNCHANGED corrected

Correct(w, d) ==
    /\ balance' = [balance EXCEPT ![w] = @ + d]
    /\ corrected' = [corrected EXCEPT ![w] = @ + d]
    /\ UNCHANGED credits

Next ==
    \/ \E o \in Orders : Credit(o)
    \/ \E w \in Wallets, d \in Corrections : Correct(w, d)

Spec == Init /\ [][Next]_ledgerVars

=============================================================================
