----------------------------- MODULE PaymentIpn -----------------------------
(***************************************************************************)
(* The payment notifications (IPN) of the VNPAY gateway and what the admin *)
(* backend does with them: PaymentController.paymentIpn and the            *)
(* PaymentService functions it calls, over a MySQL master, its replica and *)
(* one connection pool per worker, beside the two admin operations that    *)
(* write the same rows (withdrawal status, manual wallet correction).      *)
(*                                                                         *)
(* One step of the model is what a handler does between two awaits.        *)
(***************************************************************************)
EXTENDS Integers, FiniteSets

CONSTANTS
    Orders,        \* top-up transactions: a 20-character orderId
    Trips,         \* trips paid online: a dddd-dddddd-dddd orderId
    NoRef,         \* the reference of no order and no trip
    Wallets,
    WalletOf,      \* Transaction.walletId
    Owner,         \* the wallet's "customer" or "shoemaker", or "nobody"
    Amount,        \* Transaction.amount
    Opening,       \* the balance each wallet starts with
    Handlers,      \* the requests the workers can have in progress at once
    NoHandler,
    Workers,       \* the processes forked by Cluster.createCluster
    WorkerOf,      \* the worker each request runs in
    PoolSize,      \* master connections in a worker's pool (a driver default)
    Markable,      \* the orders an administrator may mark as SUCCESS
    Corrections,   \* the amounts of a manual wallet correction
    Overlap,       \* may two notifications of a reference be handled at once?
    Lag,           \* may the replica be behind the master?
    Faults,        \* may a database call fail?
    Mismatch,      \* may the amount paid differ from the amount of the row?
    MaxVerdicts,   \* bound: verdicts the gateway reaches on a reference
    MaxDups,       \* bound: duplicated and malformed notifications
    MaxCrashes,    \* bound: crashes of a worker
    MaxCorrections \* bound: manual wallet corrections

Refs == Orders \union Trips
Statuses == {"PENDING", "SUCCESS", "PAID", "FAILED"}
Absent == "absent"

\* The query of a notification: vnp_TxnRef, vnp_ResponseCode (success or any
\* other code) and whether vnp_Amount / 100 is the amount of the row.
Notices == [ref : Refs, code : {"00", "24"}, right : BOOLEAN]
NoNotice == [ref |-> NoRef, code |-> "none", right |-> FALSE]

RspCodes == {"00", "01", "02", "04", "97", "99"}

ASSUME ConstantsAssumption ==
    /\ NoRef \notin Refs /\ NoHandler \notin Handlers
    /\ Orders \intersect Trips = {}
    /\ WalletOf \in [Orders -> Wallets]
    /\ Owner \in [Wallets -> {"customer", "shoemaker", "nobody"}]
    /\ Amount \in [Orders -> Nat \ {0}]
    /\ Opening \in [Wallets -> Int]
    /\ WorkerOf \in [Handlers -> Workers]
    /\ Markable \subseteq Orders
    /\ Corrections \subseteq Int
    /\ PoolSize \in Nat \ {0}
    /\ {Overlap, Lag, Faults, Mismatch} \subseteq BOOLEAN
    /\ {MaxVerdicts, MaxDups, MaxCrashes, MaxCorrections} \subseteq Nat

VARIABLES
    \* the gateway
    sent,        \* the verdicts reached, each to be notified
    acked,       \* those answered 00 or 02, which the gateway stops repeating
    dups,        \* duplicated and malformed notifications so far
    \* the database
    status,      \* master: Transaction.status, Trip.paymentStatus
    replica,     \* what a repository read returns (the slave)
    balance,     \* Wallet.balance, committed
    lock,        \* the transaction holding the row lock of a wallet
    notes,       \* the orders a notification row tells the owner of
    dropped,     \* history: orders recorded as SUCCESS by one who does not credit them
    credits,     \* history: how many times an order was credited
    corrected,   \* history: the net manual correction of a wallet
    corrections, \* manual corrections so far
    \* the workers
    pc,          \* where a request is
    job,         \* the notification it handles
    snap,        \* the balance it read under the row lock
    rsp,         \* the RspCode it answers
    crashes      \* crashes so far

gatewayVars == <<sent, acked, dups>>
rowVars == <<status, replica>>
walletVars == <<balance, lock, credits>>
manualVars == <<corrected, corrections>>
handlerVars == <<pc, job, snap, rsp>>
vars == <<gatewayVars, rowVars, walletVars, notes, dropped, manualVars, handlerVars, crashes>>

-----------------------------------------------------------------------------
\* Where a request can be.  From "lock" to "commit" it is in a transaction.
InTransaction == {"lock", "notify", "commit"}
HoldsLock == {"notify", "commit"}
Stages == {"idle", "check", "save", "wallet", "reply"} \union InTransaction

TypeOK ==
    /\ sent \subseteq Notices /\ acked \subseteq sent
    /\ dups \in Nat /\ crashes \in Nat /\ corrections \in Nat
    /\ status \in [Refs -> Statuses]
    /\ replica \in [Refs -> Statuses \union {Absent}]
    /\ balance \in [Wallets -> Int]
    /\ lock \in [Wallets -> Handlers \union {NoHandler}]
    /\ notes \subseteq Orders /\ dropped \subseteq Orders
    /\ credits \in [Orders -> Nat]
    /\ corrected \in [Wallets -> Int]
    /\ pc \in [Handlers -> Stages]
    /\ job \in [Handlers -> sent \union {NoNotice}]
    /\ snap \in [Handlers -> Int]
    /\ rsp \in [Handlers -> RspCodes \union {"none"}]

\* Rows are created PENDING by the client backend; a lagging replica may not
\* have them yet.
Init ==
    /\ sent = {} /\ acked = {} /\ dups = 0
    /\ status = [r \in Refs |-> "PENDING"]
    /\ replica = [r \in Refs |-> IF Lag THEN Absent ELSE "PENDING"]
    /\ balance = Opening
    /\ lock = [w \in Wallets |-> NoHandler]
    /\ notes = {} /\ dropped = {}
    /\ credits = [o \in Orders |-> 0]
    /\ corrected = [w \in Wallets |-> 0] /\ corrections = 0
    /\ pc = [h \in Handlers |-> "idle"]
    /\ job = [h \in Handlers |-> NoNotice]
    /\ snap = [h \in Handlers |-> 0]
    /\ rsp = [h \in Handlers |-> "none"]
    /\ crashes = 0

-----------------------------------------------------------------------------
(* Helpers *)

\* The status that ends the life of a row.
Settled(r) == IF r \in Trips THEN "PAID" ELSE "SUCCESS"

\* repository.save: the master at once, the replica at once only without lag.
WriteStatus(r, s) ==
    /\ status' = [status EXCEPT ![r] = s]
    /\ replica' = IF Lag THEN replica ELSE status'

Goto(h, stage) == pc' = [pc EXCEPT ![h] = stage]

Answer(h, code) ==
    /\ Goto(h, "reply")
    /\ rsp' = [rsp EXCEPT ![h] = code]

\* The worker of h has a master connection left in its pool.
PoolFree(h) ==
    Cardinality({g \in Handlers : WorkerOf[g] = WorkerOf[h] /\ pc[g] \in InTransaction})
        < PoolSize

WalletOfJob(h) == WalletOf[job[h].ref]

\* The request has recorded a payment and is in updateWallet.
Crediting(h) == pc[h] \in {"wallet"} \union InTransaction

\* The locks left once the transactions of the requests in G are gone.
Unlocked(G) == [w \in Wallets |-> IF lock[w] \in G THEN NoHandler ELSE lock[w]]

-----------------------------------------------------------------------------
(* The gateway, external: it decides, notifies and repeats until answered. *)

\* A reference can be declined and paid later, never the other way round.
Decide(n) ==
    /\ n \notin sent
    /\ Mismatch \/ n.right
    /\ LET earlier == {m \in sent : m.ref = n.ref} IN
        /\ Cardinality(earlier) < MaxVerdicts
        /\ \A m \in earlier : m.code # "00"
    /\ sent' = sent \union {n}
    /\ UNCHANGED <<acked, dups, rowVars, walletVars, notes, dropped, manualVars, handlerVars, crashes>>

InHand(n) == \E h \in Handlers : job[h] = n

Accept(h, n) ==
    /\ pc[h] = "idle"
    /\ Overlap \/ \A g \in Handlers : job[g].ref # n.ref
    /\ Goto(h, "check")
    /\ job' = [job EXCEPT ![h] = n]
    /\ UNCHANGED <<sent, acked, rowVars, walletVars, notes, dropped, manualVars, snap, rsp, crashes>>

\* The first delivery of a verdict, or its retry as long as it is not answered.
Deliver(h, n) ==
    /\ n \in sent \ acked
    /\ ~InHand(n)
    /\ Accept(h, n)
    /\ UNCHANGED dups

\* A delivery too many: the answer was lost, or is slower than the gateway.
Duplicate(h, n) ==
    /\ n \in acked \/ InHand(n)
    /\ n \in sent
    /\ dups < MaxDups
    /\ dups' = dups + 1
    /\ Accept(h, n)

\* A request answered without a look at the database.
Reject(h, code) ==
    /\ pc[h] = "idle"
    /\ dups < MaxDups
    /\ dups' = dups + 1
    /\ Answer(h, code)
    /\ UNCHANGED <<sent, acked, rowVars, walletVars, notes, dropped, manualVars, job, snap, crashes>>

\* validateSecureHash fails.
BadChecksum(h) == Reject(h, "97")

\* vnp_TxnRef is missing (or names no row, which ends the same).
MissingOrder(h) == Reject(h, "01")

\* The answer leaves: 00 and 02 stop the gateway, any other makes it retry.
Reply(h) ==
    /\ pc[h] = "reply"
    /\ acked' = IF rsp[h] \in {"00", "02"} THEN acked \union {job[h]} ELSE acked
    /\ Goto(h, "idle")
    /\ job' = [job EXCEPT ![h] = NoNotice]
    /\ snap' = [snap EXCEPT ![h] = 0]
    /\ rsp' = [rsp EXCEPT ![h] = "none"]
    /\ UNCHANGED <<sent, dups, rowVars, walletVars, notes, dropped, manualVars, crashes>>

-----------------------------------------------------------------------------
(* paymentIpn *)

\* Mutant: the status of the row is not looked at.
Screened_NoStatus(n) ==
    IF replica[n.ref] = Absent THEN "01" ELSE IF ~n.right THEN "04" ELSE "ok"

\* What the checks on the row read from the replica say of notification n.
Screened(n) ==
    CASE replica[n.ref] = Absent -> "01"
      [] replica[n.ref] # Absent /\ ~n.right -> "04"
      [] replica[n.ref] = Settled(n.ref) /\ n.right -> "02"
      [] OTHER -> "ok"

\* The row is read on the replica, and judged with no await in between.
Check(h) ==
    /\ pc[h] = "check"
    /\ IF Screened(job[h]) = "ok"
         THEN Goto(h, "save") /\ UNCHANGED rsp
         ELSE Answer(h, Screened(job[h]))
    /\ UNCHANGED <<gatewayVars, rowVars, walletVars, notes, dropped, manualVars, job, snap, crashes>>

CheckTrip(h) == job[h].ref \in Trips /\ Check(h)

CheckTransaction(h) == job[h].ref \in Orders /\ Check(h)

\* The write needs a master connection, and looks at nothing it may have missed.
UpdateTrip(h) ==
    /\ pc[h] = "save" /\ job[h].ref \in Trips
    /\ PoolFree(h)
    /\ WriteStatus(job[h].ref, IF job[h].code = "00" THEN "PAID" ELSE "FAILED")
    /\ Answer(h, "00")
    /\ UNCHANGED <<gatewayVars, walletVars, notes, dropped, manualVars, job, snap, crashes>>

\* Mutant: the wallet is credited whatever the response code.
UpdateTransaction_AnyCode(h) ==
    /\ pc[h] = "save" /\ job[h].ref \in Orders
    /\ PoolFree(h)
    /\ WriteStatus(job[h].ref, IF job[h].code = "00" THEN "SUCCESS" ELSE "FAILED")
    /\ Goto(h, "wallet")
    /\ UNCHANGED <<gatewayVars, walletVars, notes, dropped, manualVars, job, snap, rsp, crashes>>

\* Mutant: the response code itself is written as the status.
UpdateTransaction_RespCode(h) ==
    /\ pc[h] = "save" /\ job[h].ref \in Orders
    /\ PoolFree(h)
    /\ WriteStatus(job[h].ref, job[h].code)
    /\ IF job[h].code = "00" THEN Goto(h, "wallet") /\ UNCHANGED rsp ELSE Answer(h, "00")
    /\ UNCHANGED <<gatewayVars, walletVars, notes, dropped, manualVars, job, snap, crashes>>

UpdateTransaction(h) ==
    /\ pc[h] = "save" /\ job[h].ref \in Orders
    /\ PoolFree(h)
    /\ IF job[h].code = "00"
         THEN WriteStatus(job[h].ref, "SUCCESS") /\ Goto(h, "wallet") /\ UNCHANGED rsp
         ELSE WriteStatus(job[h].ref, "FAILED") /\ Answer(h, "00")
    /\ UNCHANGED <<gatewayVars, walletVars, notes, dropped, manualVars, job, snap, crashes>>

\* Mutant: the catch answers 00.
IpnError_Success(h) ==
    /\ Faults
    /\ pc[h] \in {"check", "save"}
    /\ Answer(h, "00")
    /\ UNCHANGED <<gatewayVars, rowVars, walletVars, notes, dropped, manualVars, job, snap, crashes>>

\* The catch of the handler: the read or the write failed, or the write went
\* through and its answer was lost.
IpnError(h) ==
    /\ Faults
    /\ pc[h] \in {"check", "save"}
    /\ \/ UNCHANGED <<rowVars, dropped>>
       \/ /\ pc[h] = "save"
          /\ WriteStatus(job[h].ref,
                         IF job[h].code = "00" THEN Settled(job[h].ref) ELSE "FAILED")
          /\ dropped' = dropped \union {r \in {job[h].ref} \intersect Orders : job[h].code = "00"}
    /\ Answer(h, "99")
    /\ UNCHANGED <<gatewayVars, walletVars, notes, manualVars, job, snap, crashes>>

-----------------------------------------------------------------------------
(* updateWallet: one database transaction on a connection of its own *)

\* Mutant: the status test returns unless the row read again is SUCCESS.
BeginWallet_Guarded(h) ==
    /\ pc[h] = "wallet"
    /\ PoolFree(h)
    /\ IF replica[job[h].ref] = "SUCCESS"
         THEN Goto(h, "lock") /\ UNCHANGED rsp
         ELSE Answer(h, "00")
    /\ UNCHANGED <<gatewayVars, rowVars, walletVars, notes, dropped, manualVars, job, snap, crashes>>

\* The transaction row is read again on the replica; the test of its status
\* returns in no case, so that a stale row does not stop the credit.
BeginWallet(h) ==
    /\ pc[h] = "wallet"
    /\ replica[job[h].ref] # Absent
    /\ PoolFree(h)
    /\ Goto(h, "lock")
    /\ UNCHANGED <<gatewayVars, rowVars, walletVars, notes, dropped, manualVars, job, snap, rsp, crashes>>

\* Mutant: the wallet is read without waiting for its row lock.
LockWallet_NoWait(h) ==
    /\ pc[h] = "lock"
    /\ lock' = [lock EXCEPT ![WalletOfJob(h)] = h]
    /\ snap' = [snap EXCEPT ![h] = balance[WalletOfJob(h)]]
    /\ Goto(h, IF Owner[WalletOfJob(h)] = "nobody" THEN "commit" ELSE "notify")
    /\ UNCHANGED <<gatewayVars, rowVars, balance, credits, notes, dropped, manualVars, job, rsp, crashes>>

\* Mutant: only customers are told.
LockWallet_CustomersOnly(h) ==
    /\ pc[h] = "lock"
    /\ lock[WalletOfJob(h)] = NoHandler
    /\ lock' = [lock EXCEPT ![WalletOfJob(h)] = h]
    /\ snap' = [snap EXCEPT ![h] = balance[WalletOfJob(h)]]
    /\ Goto(h, IF Owner[WalletOfJob(h)] = "customer" THEN "notify" ELSE "commit")
    /\ UNCHANGED <<gatewayVars, rowVars, balance, credits, notes, dropped, manualVars, job, rsp, crashes>>

\* SELECT ... FOR UPDATE.
LockWallet(h) ==
    /\ pc[h] = "lock"
    /\ lock[WalletOfJob(h)] = NoHandler
    /\ lock' = [lock EXCEPT ![WalletOfJob(h)] = h]
    /\ snap' = [snap EXCEPT ![h] = balance[WalletOfJob(h)]]
    /\ Goto(h, IF Owner[WalletOfJob(h)] = "nobody" THEN "commit" ELSE "notify")
    /\ UNCHANGED <<gatewayVars, rowVars, balance, credits, notes, dropped, manualVars, job, rsp, crashes>>

\* The notification row is saved on another connection, outside the open
\* transaction: it stays whatever becomes of that transaction.
NotifyOwner(h) ==
    /\ pc[h] = "notify"
    /\ PoolFree(h)
    /\ notes' = notes \union {job[h].ref}
    /\ Goto(h, "commit")
    /\ UNCHANGED <<gatewayVars, rowVars, walletVars, dropped, manualVars, job, snap, rsp, crashes>>

\* Mutant: the row lock outlives the transaction.
CommitWallet_KeepsLock(h) ==
    /\ pc[h] = "commit"
    /\ balance' = [balance EXCEPT ![WalletOfJob(h)] = snap[h] + Amount[job[h].ref]]
    /\ credits' = [credits EXCEPT ![job[h].ref] = @ + 1]
    /\ Answer(h, "00")
    /\ UNCHANGED <<gatewayVars, rowVars, lock, notes, dropped, manualVars, job, snap, crashes>>

CommitWallet(h) ==
    /\ pc[h] = "commit"
    /\ balance' = [balance EXCEPT ![WalletOfJob(h)] = snap[h] + Amount[job[h].ref]]
    /\ credits' = [credits EXCEPT ![job[h].ref] = @ + 1]
    /\ lock' = Unlocked({h})
    /\ Answer(h, "00")
    /\ UNCHANGED <<gatewayVars, rowVars, notes, dropped, manualVars, job, snap, crashes>>

\* Any failure rolls the transaction back; updateWallet swallows it, and the
\* handler answers as if the wallet had been credited.
UpdateWalletError(h) ==
    /\ Faults /\ Crediting(h)
    /\ lock' = Unlocked({h})
    /\ dropped' = dropped \union {job[h].ref}
    /\ Answer(h, "00")
    /\ UNCHANGED <<gatewayVars, rowVars, balance, credits, notes, manualVars, job, snap, crashes>>

-----------------------------------------------------------------------------
(* The database and the workers around the handlers *)

\* The replica catches up on a row.
Sync(r) ==
    /\ replica[r] # status[r]
    /\ replica' = [replica EXCEPT ![r] = status[r]]
    /\ UNCHANGED <<gatewayVars, status, walletVars, notes, dropped, manualVars, handlerVars, crashes>>

\* A worker dies with every request it has; its transactions roll back, its
\* requests stay unanswered and a new worker takes its place.
Crash(w) ==
    LET dead == {h \in Handlers : WorkerOf[h] = w} IN
    /\ crashes < MaxCrashes
    /\ crashes' = crashes + 1
    /\ \E h \in dead : pc[h] # "idle"
    /\ lock' = Unlocked(dead)
    /\ pc' = [h \in Handlers |-> IF h \in dead THEN "idle" ELSE pc[h]]
    /\ job' = [h \in Handlers |-> IF h \in dead THEN NoNotice ELSE job[h]]
    /\ snap' = [h \in Handlers |-> IF h \in dead THEN 0 ELSE snap[h]]
    /\ rsp' = [h \in Handlers |-> IF h \in dead THEN "none" ELSE rsp[h]]
    /\ dropped' = dropped \union {job[h].ref : h \in {g \in dead : Crediting(g)}}
    /\ UNCHANGED <<gatewayVars, rowVars, balance, credits, notes, manualVars>>

\* WithdrawalsService.updateStatus: any transaction the replica knows is
\* marked SUCCESS, whatever its type and its status.
MarkSuccess(o) ==
    /\ o \in Markable
    /\ replica[o] # Absent
    /\ WriteStatus(o, "SUCCESS")
    /\ dropped' = dropped \union {o}
    /\ UNCHANGED <<gatewayVars, walletVars, notes, manualVars, handlerVars, crashes>>

\* The stored procedure update_wallet_taker, external: it updates the row in
\* one statement, which waits for the row lock.
CorrectWallet(w, d) ==
    /\ corrections < MaxCorrections
    /\ corrections' = corrections + 1
    /\ lock[w] = NoHandler
    /\ balance' = [balance EXCEPT ![w] = @ + d]
    /\ corrected' = [corrected EXCEPT ![w] = @ + d]
    /\ UNCHANGED <<gatewayVars, rowVars, lock, credits, notes, dropped, handlerVars, crashes>>

-----------------------------------------------------------------------------
Gateway ==
    \/ \E n \in Notices : Decide(n)
    \/ \E h \in Handlers, n \in sent : Deliver(h, n) \/ Duplicate(h, n)

\* What a request does when nothing fails.
Step(h) ==
    \/ CheckTrip(h) \/ CheckTransaction(h)
    \/ UpdateTrip(h) \/ UpdateTransaction(h)
    \/ BeginWallet(h) \/ LockWallet(h) \/ NotifyOwner(h) \/ CommitWallet(h)
    \/ Reply(h)

Failure(h) == IpnError(h) \/ UpdateWalletError(h)

Environment ==
    \/ \E r \in Refs : Sync(r)
    \/ \E w \in Workers : Crash(w)
    \/ \E o \in Orders : MarkSuccess(o)
    \/ \E w \in Wallets, d \in Corrections : CorrectWallet(w, d)

Next ==
    \/ Gateway
    \/ \E h \in Handlers : BadChecksum(h) \/ MissingOrder(h) \/ Step(h) \/ Failure(h)
    \/ Environment

Spec == Init /\ [][Next]_vars

-----------------------------------------------------------------------------
(* Safety under any gateway, any lag, any failure *)

\* The payment that settles a reference: a success verdict of the right amount.
Paid(r) == \E n \in sent : n.ref = r /\ n.code = "00" /\ n.right

\* From the SELECT ... FOR UPDATE to the end of the transaction no one else
\* changes the wallet, so that writing back "balance read + amount" is sound:
\* the row lock, the manual correction and the rollback of a dead worker all
\* have to respect it.
LockedReadIsFresh ==
    \A h \in Handlers : pc[h] \in HoldsLock =>
        /\ lock[WalletOfJob(h)] = h
        /\ snap[h] = balance[WalletOfJob(h)]

\* A lock is held by a request that is in the transaction that took it: no
\* failure or crash leaves a wallet locked for ever.
LockHasOwner ==
    \A w \in Wallets : lock[w] # NoHandler =>
        pc[lock[w]] \in HoldsLock /\ WalletOfJob(lock[w]) = w

\* Both: no one changes a wallet under the hands of a transaction, and no wallet
\* stays locked when its transaction has failed or died.
LockIsSound == LockedReadIsFresh /\ LockHasOwner

\* No wallet is credited for an order the gateway has not reported as paid, for
\* the right amount: neither a declined payment, nor a wrong amount, nor the
\* SUCCESS an administrator writes ever reaches updateWallet.
CreditedWasPaid == \A o \in Orders : credits[o] > 0 => Paid(o)

\* The owner of a wallet is told of each order credited to it: the notification
\* row is saved before the transaction commits, and its failure undoes it.
CreditAnnounced ==
    \A o \in Orders :
        credits[o] > 0 /\ Owner[WalletOf[o]] # "nobody" => o \in notes

\* The gateway is told to stop (00, 02) only when the row is no longer PENDING
\* in the master, although the decision is taken on a stale replica and the
\* worker may die at any point.
AckedIsRecorded == \A n \in acked : status[n.ref] # "PENDING"

\* A payment the gateway was answered for is credited, or about to be, unless it
\* was recorded by one who does not credit it: a request whose updateWallet
\* failed or whose worker died, a write whose answer was lost, or an
\* administrator.  Stale reads and repeated notifications lose nothing.
Accounted(o) ==
    \/ credits[o] > 0 \/ o \in dropped
    \/ \E h \in Handlers : Crediting(h) /\ job[h].ref = o

AckedIsAccounted ==
    \A n \in acked : n.code = "00" /\ n.ref \in Orders => Accounted(n.ref)

\* The wallets do what WalletLedger says: each step leaves them alone, credits
\* one order in full, or applies one manual correction; concurrent top-ups and
\* corrections of a wallet are never lost.
Ledger == INSTANCE WalletLedger
              WITH balance <- balance, credits <- credits, corrected <- corrected
LedgerSpec == Ledger!Spec

-----------------------------------------------------------------------------
(* What the status check gives when notifications of a reference are handled *)
(* one at a time and reads see the last write                                *)

Serial == ~Overlap /\ ~Lag

\* An order is credited at most once, whatever is repeated, retried after a
\* crash or a lost answer, or declined before it is paid (the 02 answer).
CreditedOnce == \A o \in Orders : credits[o] <= 1

\* A row that is PAID (SUCCESS) stays so: a late or repeated notification of
\* a declined attempt does not overwrite it.  (Except one an administrator may
\* mark: his SUCCESS can be overwritten by a decline already being handled.)
PaidIsFinal ==
    [][\A r \in Refs \ Markable : status[r] = Settled(r) => status'[r] = Settled(r)]_vars

-----------------------------------------------------------------------------
(* Liveness *)

\* A request goes on as the event loop and the database serve it, first come
\* first served for a row lock or a connection of the pool; the replica
\* catches up; the gateway repeats what is not answered.
Fairness ==
    /\ \A h \in Handlers : SF_vars(Step(h))
    /\ \A r \in Refs : WF_vars(Sync(r))
    /\ \A n \in Notices : SF_vars(n \in sent /\ \E h \in Handlers : Deliver(h, n))

FairSpec == Spec /\ Fairness

\* A top-up that is paid is credited in the end, through lag, duplicates and
\* notifications handled at once (but no crash: see README).
PaidIsCredited == \A o \in Orders : Paid(o) ~> credits[o] > 0

\* Every request is answered: no one waits for ever for a row lock or for the
\* second connection that the notification needs.
RequestsAnswered == \A h \in Handlers : pc[h] # "idle" ~> pc[h] = "idle"

=============================================================================
