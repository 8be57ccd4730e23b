-------------------------- MODULE PaymentIpnProofs --------------------------
(* Theorems about PaymentIpn, for every value of its constants.              *)
EXTENDS PaymentIpn, TLAPS

-----------------------------------------------------------------------------
(* Type correctness *)

\* What the checks on the row answer, and when they let the handler go on.
LEMMA ScreenedType ==
    ASSUME NEW n \in Notices
    PROVE  /\ Screened(n) \in {"01", "04", "02", "ok"}
           /\ Screened(n) = "ok" <=>
                replica[n.ref] # Absent /\ n.right /\ replica[n.ref] # Settled(n.ref)
           /\ Screened(n) = "02" => replica[n.ref] = Settled(n.ref)
<1>1. CASE replica[n.ref] = Absent
  BY <1>1 DEF Screened
<1>2. CASE replica[n.ref] # Absent /\ ~n.right
  BY <1>2 DEF Screened
<1>3. CASE replica[n.ref] # Absent /\ n.right /\ replica[n.ref] = Settled(n.ref)
  BY <1>3 DEF Screened
<1>4. CASE replica[n.ref] # Absent /\ n.right /\ replica[n.ref] # Settled(n.ref)
  BY <1>4 DEF Screened
<1> QED BY <1>1, <1>2, <1>3, <1>4 DEF Notices

\* What a request holds at each stage: from "check" on a notification, and in
\* updateWallet the notification of a payment of an order, of the right amount.
StageInv ==
    \A h \in Handlers :
        /\ pc[h] = "idle" => job[h] = NoNotice
        /\ pc[h] \in {"check", "save"} => job[h] # NoNotice
        /\ pc[h] = "save" => job[h].right
        /\ pc[h] \in {"wallet"} \union InTransaction =>
               job[h].ref \in Orders /\ job[h].code = "00" /\ job[h].right
        /\ rsp[h] \in {"00", "02"} => job[h] # NoNotice

TypeInv == TypeOK /\ StageInv

LEMMA InitTypeInv == Init => TypeInv
BY ConstantsAssumption
DEF Init, TypeInv, TypeOK, StageInv, Refs, Statuses, Stages, Notices, RspCodes, InTransaction

\* No row has the reference of NoNotice.
LEMMA NoNoticeNotSent == TypeOK => NoNotice \notin sent /\ NoNotice \notin Notices
BY ConstantsAssumption DEF TypeOK, NoNotice, Notices

LEMMA NextTypeInv == TypeInv /\ [Next]_vars => TypeInv'
<1> SUFFICES ASSUME TypeInv, [Next]_vars PROVE TypeInv'
  OBVIOUS
<1> USE ConstantsAssumption, NoNoticeNotSent
    DEF TypeInv, TypeOK, StageInv, Stages, InTransaction, RspCodes, Statuses
<1>1. ASSUME NEW n \in Notices, Decide(n) PROVE TypeInv'
  BY <1>1 DEF Decide, rowVars, walletVars, manualVars, handlerVars
<1>2. ASSUME NEW h \in Handlers, NEW n \in sent, Deliver(h, n) PROVE TypeInv'
  BY <1>2 DEF Deliver, Accept, Goto, rowVars, walletVars, manualVars
<1>3. ASSUME NEW h \in Handlers, NEW n \in sent, Duplicate(h, n) PROVE TypeInv'
  BY <1>3 DEF Duplicate, Accept, Goto, rowVars, walletVars, manualVars
<1>4. ASSUME NEW h \in Handlers, BadChecksum(h) \/ MissingOrder(h) PROVE TypeInv'
  BY <1>4 DEF BadChecksum, MissingOrder, Reject, Answer, Goto, rowVars, walletVars, manualVars
<1>5. ASSUME NEW h \in Handlers, Reply(h) PROVE TypeInv'
  BY <1>5 DEF Reply, Goto, rowVars, walletVars, manualVars
<1>6. ASSUME NEW h \in Handlers, CheckTrip(h) \/ CheckTransaction(h) PROVE TypeInv'
  <2>1. Check(h) /\ job[h].ref \in Refs
    BY <1>6 DEF CheckTrip, CheckTransaction, Refs
  <2>2. job[h] \in Notices
    BY <2>1 DEF NoNotice
  <2>3. /\ Screened(job[h]) \in {"01", "04", "02", "ok"}
        /\ Screened(job[h]) = "ok" => job[h].right
    BY <2>2, ScreenedType
  <2> QED BY <2>1, <2>2, <2>3 DEF Check, Answer, Goto, gatewayVars, rowVars, walletVars, manualVars
<1>7. ASSUME NEW h \in Handlers, UpdateTrip(h) PROVE TypeInv'
  <2>1. TypeOK'
    BY <1>7 DEF UpdateTrip, WriteStatus, Answer, Goto, gatewayVars, walletVars, manualVars
  <2>2. StageInv'
    BY <1>7 DEF UpdateTrip, Answer, Goto
  <2> QED BY <2>1, <2>2
<1>8. ASSUME NEW h \in Handlers, UpdateTransaction(h) PROVE TypeInv'
  BY <1>8 DEF UpdateTransaction, WriteStatus, Answer, Goto, gatewayVars, walletVars, manualVars
<1>9. ASSUME NEW h \in Handlers, IpnError(h) PROVE TypeInv'
  BY <1>9 DEF IpnError, WriteStatus, Settled, Answer, Goto, gatewayVars, rowVars, walletVars, manualVars
<1>10. ASSUME NEW h \in Handlers, BeginWallet(h) PROVE TypeInv'
  BY <1>10 DEF BeginWallet, Goto, gatewayVars, rowVars, walletVars, manualVars
<1>11. ASSUME NEW h \in Handlers, LockWallet(h) PROVE TypeInv'
  BY <1>11 DEF LockWallet, WalletOfJob, Goto, gatewayVars, rowVars, manualVars
<1>12. ASSUME NEW h \in Handlers, NotifyOwner(h) PROVE TypeInv'
  BY <1>12 DEF NotifyOwner, WalletOfJob, Goto, gatewayVars, rowVars, walletVars, manualVars
<1>13. ASSUME NEW h \in Handlers, CommitWallet(h) PROVE TypeInv'
  BY <1>13 DEF CommitWallet, WalletOfJob, Unlocked, NoNotice, Answer, Goto, gatewayVars, rowVars, manualVars
<1>14. ASSUME NEW h \in Handlers, UpdateWalletError(h) PROVE TypeInv'
  BY <1>14 DEF UpdateWalletError, Crediting, Unlocked, NoNotice, Answer, Goto, gatewayVars, rowVars, manualVars
<1>15. ASSUME NEW r \in Refs, Sync(r) PROVE TypeInv'
  BY <1>15 DEF Sync, gatewayVars, walletVars, manualVars, handlerVars
<1>16. ASSUME NEW w \in Workers, Crash(w) PROVE TypeInv'
  BY <1>16 DEF Crash, Unlocked, Crediting, gatewayVars, rowVars, manualVars
<1>17. ASSUME NEW o \in Orders, MarkSuccess(o) PROVE TypeInv'
  BY <1>17 DEF MarkSuccess, WriteStatus, gatewayVars, walletVars, manualVars, handlerVars
<1>18. ASSUME NEW w \in Wallets, NEW d \in Corrections, CorrectWallet(w, d) PROVE TypeInv'
  BY <1>18 DEF CorrectWallet, gatewayVars, rowVars, handlerVars
<1>19. CASE UNCHANGED vars
  BY <1>19 DEF vars, gatewayVars, rowVars, walletVars, manualVars, handlerVars
<1> QED
  BY <1>1, <1>2, <1>3, <1>4, <1>5, <1>6, <1>7, <1>8, <1>9, <1>10, <1>11, <1>12,
     <1>13, <1>14, <1>15, <1>16, <1>17, <1>18, <1>19
  DEF Next, Gateway, Step, Failure, Environment

\* Every state of PaymentIpn is well typed: in particular the gateway only
\* stops for verdicts it reached, and a request only handles such a verdict.
THEOREM TypeCorrect == Spec => []TypeOK
<1>1. TypeInv => TypeOK
  BY DEF TypeInv
<1> QED BY InitTypeInv, NextTypeInv, <1>1, PTL DEF Spec

-----------------------------------------------------------------------------
(* The row lock of a wallet *)

LockInv == LockedReadIsFresh /\ LockHasOwner

LEMMA InitLockInv == Init => LockInv
BY ConstantsAssumption DEF Init, LockInv, LockedReadIsFresh, LockHasOwner, HoldsLock

LEMMA NextLockInv == TypeInv /\ LockInv /\ [Next]_vars => LockInv'
<1> SUFFICES ASSUME TypeInv, LockInv, [Next]_vars PROVE LockInv'
  OBVIOUS
<1> USE ConstantsAssumption
    DEF TypeInv, TypeOK, StageInv, Stages, InTransaction, HoldsLock, LockInv,
        LockedReadIsFresh, LockHasOwner, WalletOfJob
<1>1. ASSUME NEW n \in Notices, Decide(n) PROVE LockInv'
  BY <1>1 DEF Decide, rowVars, walletVars, manualVars, handlerVars
<1>2. ASSUME NEW h \in Handlers, NEW n \in sent, Deliver(h, n) \/ Duplicate(h, n) PROVE LockInv'
  BY <1>2 DEF Deliver, Duplicate, Accept, Goto, rowVars, walletVars, manualVars
<1>3. ASSUME NEW h \in Handlers, BadChecksum(h) \/ MissingOrder(h) PROVE LockInv'
  BY <1>3 DEF BadChecksum, MissingOrder, Reject, Answer, Goto, rowVars, walletVars, manualVars
<1>4. ASSUME NEW h \in Handlers, Reply(h) PROVE LockInv'
  BY <1>4 DEF Reply, Goto, rowVars, walletVars, manualVars
<1>5. ASSUME NEW h \in Handlers, CheckTrip(h) \/ CheckTransaction(h) PROVE LockInv'
  BY <1>5 DEF CheckTrip, CheckTransaction, Check, Answer, Goto, gatewayVars, rowVars,
              walletVars, manualVars
<1>6. ASSUME NEW h \in Handlers, UpdateTrip(h) PROVE LockInv'
  BY <1>6 DEF UpdateTrip, Answer, Goto, gatewayVars, walletVars, manualVars
<1>7. ASSUME NEW h \in Handlers, UpdateTransaction(h) PROVE LockInv'
  BY <1>7 DEF UpdateTransaction, Answer, Goto, gatewayVars, walletVars, manualVars
<1>8. ASSUME NEW h \in Handlers, IpnError(h) PROVE LockInv'
  BY <1>8 DEF IpnError, Answer, Goto, gatewayVars, rowVars, walletVars, manualVars
<1>9. ASSUME NEW h \in Handlers, BeginWallet(h) PROVE LockInv'
  BY <1>9 DEF BeginWallet, Goto, gatewayVars, rowVars, walletVars, manualVars
<1>10. ASSUME NEW h \in Handlers, LockWallet(h) PROVE LockInv'
  BY <1>10 DEF LockWallet, Goto, gatewayVars, rowVars, manualVars
<1>11. ASSUME NEW h \in Handlers, NotifyOwner(h) PROVE LockInv'
  BY <1>11 DEF NotifyOwner, Goto, gatewayVars, rowVars, walletVars, manualVars
<1>12. ASSUME NEW h \in Handlers, CommitWallet(h) PROVE LockInv'
  BY <1>12 DEF CommitWallet, Unlocked, Answer, Goto, gatewayVars, rowVars, manualVars
<1>13. ASSUME NEW h \in Handlers, UpdateWalletError(h) PROVE LockInv'
  BY <1>13 DEF UpdateWalletError, Crediting, Unlocked, Answer, Goto, gatewayVars, rowVars, manualVars
<1>14. ASSUME NEW r \in Refs, Sync(r) PROVE LockInv'
  BY <1>14 DEF Sync, gatewayVars, walletVars, manualVars, handlerVars
<1>15. ASSUME NEW w \in Workers, Crash(w) PROVE LockInv'
  <2> DEFINE dead == {h \in Handlers : WorkerOf[h] = w}
  <2>1. \A h \in dead : pc'[h] = "idle"
    BY <1>15 DEF Crash
  <2>2. \A h \in Handlers \ dead : pc'[h] = pc[h] /\ job'[h] = job[h] /\ snap'[h] = snap[h]
    BY <1>15 DEF Crash
  <2>3. \A v \in Wallets :
           lock'[v] = IF lock[v] \in dead THEN NoHandler ELSE lock[v]
    BY <1>15 DEF Crash, Unlocked
  <2>4. UNCHANGED balance
    BY <1>15 DEF Crash
  <2>5. \A h \in Handlers : pc[h] \in HoldsLock => WalletOfJob(h) \in Wallets
    OBVIOUS
  <2> HIDE DEF dead
  <2>6. LockedReadIsFresh'
    BY <2>1, <2>2, <2>3, <2>4, <2>5
  <2>7. LockHasOwner'
    BY <2>1, <2>2, <2>3
  <2> QED BY <2>6, <2>7
<1>16. ASSUME NEW o \in Orders, MarkSuccess(o) PROVE LockInv'
  BY <1>16 DEF MarkSuccess, WriteStatus, gatewayVars, walletVars, manualVars, handlerVars
<1>17. ASSUME NEW w \in Wallets, NEW d \in Corrections, CorrectWallet(w, d) PROVE LockInv'
  BY <1>17 DEF CorrectWallet, gatewayVars, rowVars, handlerVars
<1>18. CASE UNCHANGED vars
  BY <1>18 DEF vars, gatewayVars, rowVars, walletVars, manualVars, handlerVars
<1> QED
  BY <1>1, <1>2, <1>3, <1>4, <1>5, <1>6, <1>7, <1>8, <1>9, <1>10, <1>11, <1>12,
     <1>13, <1>14, <1>15, <1>16, <1>17, <1>18
  DEF Next, Gateway, Step, Failure, Environment

\* The balance a request reads under the row lock is the committed balance for
\* as long as its transaction lasts, and no lock outlives its transaction.
THEOREM LockSafe == Spec => []LockIsSound
<1>1. TypeInv /\ LockInv => LockIsSound
  BY DEF LockInv, LockIsSound
<1> QED BY InitTypeInv, NextTypeInv, InitLockInv, NextLockInv, <1>1, PTL DEF Spec

-----------------------------------------------------------------------------
(* PaymentIpn implements WalletLedger *)

LEMMA InitLedger == Init => Ledger!Init
BY DEF Init, Ledger!Init

LEMMA NextLedger ==
    TypeInv /\ LockInv /\ [Next]_vars => [Ledger!Next]_(Ledger!ledgerVars)
<1> SUFFICES ASSUME TypeInv, LockInv, [Next]_vars
             PROVE  Ledger!Next \/ UNCHANGED Ledger!ledgerVars
  OBVIOUS
<1> USE DEF Ledger!ledgerVars
<1>1. ASSUME NEW n \in Notices, Decide(n) PROVE UNCHANGED Ledger!ledgerVars
  BY <1>1 DEF Decide, walletVars, manualVars
<1>2. ASSUME NEW h \in Handlers, NEW n \in sent, Deliver(h, n) \/ Duplicate(h, n)
      PROVE  UNCHANGED Ledger!ledgerVars
  BY <1>2 DEF Deliver, Duplicate, Accept, walletVars, manualVars
<1>3. ASSUME NEW h \in Handlers,
             BadChecksum(h) \/ MissingOrder(h) \/ Reply(h) \/ CheckTrip(h) \/ CheckTransaction(h)
             \/ UpdateTrip(h) \/ UpdateTransaction(h) \/ IpnError(h) \/ BeginWallet(h)
      PROVE  UNCHANGED Ledger!ledgerVars
  BY <1>3 DEF BadChecksum, MissingOrder, Reject, Reply, CheckTrip, CheckTransaction, Check, UpdateTrip,
              UpdateTransaction, IpnError, BeginWallet, walletVars, manualVars
<1>4. ASSUME NEW h \in Handlers, LockWallet(h) \/ NotifyOwner(h) \/ UpdateWalletError(h)
      PROVE  UNCHANGED Ledger!ledgerVars
  BY <1>4 DEF LockWallet, NotifyOwner, UpdateWalletError, walletVars, manualVars
<1>5. ASSUME NEW h \in Handlers, CommitWallet(h) PROVE Ledger!Next
  <2>1. job[h].ref \in Orders /\ snap[h] = balance[WalletOf[job[h].ref]]
    BY <1>5 DEF CommitWallet, TypeInv, StageInv, InTransaction, HoldsLock, LockInv,
                LockedReadIsFresh, WalletOfJob
  <2>2. Ledger!Credit(job[h].ref)
    BY <1>5, <2>1 DEF CommitWallet, WalletOfJob, Ledger!Credit, TypeInv, TypeOK, manualVars
  <2> QED BY <2>1, <2>2 DEF Ledger!Next
<1>6. ASSUME NEW w \in Wallets, NEW d \in Corrections, CorrectWallet(w, d) PROVE Ledger!Next
  BY <1>6 DEF CorrectWallet, Ledger!Next, Ledger!Correct
<1>7. ASSUME Environment PROVE Ledger!Next \/ UNCHANGED Ledger!ledgerVars
  BY <1>6, <1>7 DEF Environment, Sync, Crash, MarkSuccess, walletVars, manualVars
<1>8. CASE UNCHANGED vars
  BY <1>8 DEF vars, walletVars, manualVars
<1> QED
  BY <1>1, <1>2, <1>3, <1>4, <1>5, <1>7, <1>8 DEF Next, Gateway, Step, Failure

\* The payment handlers implement the ledger: every step credits one order in
\* full, applies one manual correction, or leaves the wallets alone.
THEOREM LedgerImplemented == Spec => LedgerSpec
BY InitTypeInv, NextTypeInv, InitLockInv, NextLockInv, InitLedger, NextLedger, PTL
DEF Spec, LedgerSpec, Ledger!Spec

-----------------------------------------------------------------------------
(* What is credited, announced and answered, under any failure *)

\* The row of a notification that reached the write is not PENDING any more,
\* for its handler, for the replica and for the gateway once it is answered;
\* the owner is told before the transaction can commit.
RecordInv ==
    /\ CreditedWasPaid
    /\ CreditAnnounced
    /\ AckedIsRecorded
    /\ \A r \in Refs : replica[r] \notin {"PENDING", Absent} => status[r] # "PENDING"
    /\ \A h \in Handlers :
          /\ pc[h] \in {"wallet"} \union InTransaction \/ rsp[h] \in {"00", "02"} =>
                status[job[h].ref] # "PENDING"
          /\ pc[h] = "commit" /\ Owner[WalletOfJob(h)] # "nobody" =>
                job[h].ref \in notes

LEMMA InitRecordInv == Init => RecordInv
BY ConstantsAssumption
DEF Init, RecordInv, CreditedWasPaid, CreditAnnounced, AckedIsRecorded, InTransaction, Refs

\* A status that is written is never PENDING, so that no row becomes PENDING.
LEMMA WriteKeepsRecorded ==
    ASSUME TypeOK, NEW r \in Refs, NEW s \in Statuses \ {"PENDING"}, WriteStatus(r, s),
           \A x \in Refs : replica[x] \notin {"PENDING", Absent} => status[x] # "PENDING"
    PROVE  /\ \A x \in Refs : status[x] # "PENDING" => status'[x] # "PENDING"
           /\ \A x \in Refs : replica'[x] \notin {"PENDING", Absent} => status'[x] # "PENDING"
           /\ status'[r] # "PENDING"
BY DEF TypeOK, WriteStatus

LEMMA NextRecordInv == TypeInv /\ RecordInv /\ [Next]_vars => RecordInv'
<1> SUFFICES ASSUME TypeInv, RecordInv, [Next]_vars PROVE RecordInv'
  OBVIOUS
<1> USE ConstantsAssumption, NoNoticeNotSent
    DEF TypeInv, TypeOK, StageInv, Stages, InTransaction, RecordInv, CreditedWasPaid,
        CreditAnnounced, AckedIsRecorded, Paid, WalletOfJob
<1>1. ASSUME NEW n \in Notices, Decide(n) PROVE RecordInv'
  BY <1>1 DEF Decide, rowVars, walletVars, manualVars, handlerVars
<1>2. ASSUME NEW h \in Handlers, NEW n \in sent, Deliver(h, n) \/ Duplicate(h, n)
      PROVE  RecordInv'
  BY <1>2 DEF Deliver, Duplicate, Accept, Goto, rowVars, walletVars, manualVars
<1>3. ASSUME NEW h \in Handlers, BadChecksum(h) \/ MissingOrder(h) PROVE RecordInv'
  BY <1>3 DEF BadChecksum, MissingOrder, Reject, Answer, Goto, rowVars, walletVars, manualVars
<1>4. ASSUME NEW h \in Handlers, Reply(h) PROVE RecordInv'
  BY <1>4 DEF Reply, Goto, rowVars, walletVars, manualVars
<1>5. ASSUME NEW h \in Handlers, CheckTrip(h) \/ CheckTransaction(h) PROVE RecordInv'
  <2>1. Check(h) /\ job[h] \in Notices
    BY <1>5 DEF CheckTrip, CheckTransaction, Check
  <2>2. Screened(job[h]) = "02" => status[job[h].ref] # "PENDING"
    BY <2>1, ScreenedType DEF Settled, Notices, Absent
  <2> QED
    BY <2>1, <2>2, ScreenedType
    DEF Check, Answer, Goto, gatewayVars, rowVars, walletVars, manualVars
<1>6. ASSUME NEW h \in Handlers, UpdateTrip(h) \/ UpdateTransaction(h) \/ IpnError(h)
      PROVE  RecordInv'
  <2>1. job[h] \in Notices /\ job[h].ref \in Refs
    BY <1>6 DEF UpdateTrip, UpdateTransaction, IpnError, Notices
  <2>2. UNCHANGED <<gatewayVars, walletVars, notes, manualVars, job>>
    BY <1>6 DEF UpdateTrip, UpdateTransaction, IpnError
  <2>3. \A g \in Handlers \ {h} : pc'[g] = pc[g] /\ rsp'[g] = rsp[g]
    BY <1>6 DEF UpdateTrip, UpdateTransaction, IpnError, Answer, Goto
  <2>4. pc'[h] # "commit"
    BY <1>6 DEF UpdateTrip, UpdateTransaction, IpnError, Answer, Goto
  <2>5. CASE UNCHANGED rowVars /\ rsp'[h] = "99" /\ pc'[h] = "reply"
    BY <2>2, <2>3, <2>5 DEF gatewayVars, walletVars, rowVars
  <2>6. CASE \E s \in Statuses \ {"PENDING"} : WriteStatus(job[h].ref, s)
    <3>1. PICK s \in Statuses \ {"PENDING"} : WriteStatus(job[h].ref, s)
      BY <2>6
    <3>2. /\ \A x \in Refs : status[x] # "PENDING" => status'[x] # "PENDING"
          /\ \A x \in Refs : replica'[x] \notin {"PENDING", Absent} => status'[x] # "PENDING"
          /\ status'[job[h].ref] # "PENDING"
      BY <2>1, <3>1, WriteKeepsRecorded
    <3>3. \A g \in Handlers :
             pc'[g] \in {"wallet"} \union InTransaction \/ rsp'[g] \in {"00", "02"} =>
                status'[job'[g].ref] # "PENDING"
      <4>1. \A g \in Handlers :
               pc[g] \in {"wallet"} \union InTransaction \/ rsp[g] \in {"00", "02"} =>
                  job[g].ref \in Refs
        BY DEF Notices, Refs
      <4> QED BY <2>1, <2>2, <2>3, <3>2, <4>1
    <3> QED BY <2>2, <2>3, <2>4, <3>2, <3>3 DEF gatewayVars, walletVars, Notices
  <2>7. \/ UNCHANGED rowVars /\ rsp'[h] = "99" /\ pc'[h] = "reply"
        \/ \E s \in Statuses \ {"PENDING"} : WriteStatus(job[h].ref, s)
    BY <1>6, <2>1
    DEF UpdateTrip, UpdateTransaction, IpnError, Settled, Statuses, Answer, Goto
  <2> QED BY <2>5, <2>6, <2>7
<1>7. ASSUME NEW h \in Handlers, BeginWallet(h) PROVE RecordInv'
  BY <1>7 DEF BeginWallet, Goto, gatewayVars, rowVars, walletVars, manualVars
<1>8. ASSUME NEW h \in Handlers, LockWallet(h) PROVE RecordInv'
  BY <1>8 DEF LockWallet, Goto, gatewayVars, rowVars, manualVars
<1>9. ASSUME NEW h \in Handlers, NotifyOwner(h) PROVE RecordInv'
  <2>1. job[h].ref \in Orders
    BY <1>9 DEF NotifyOwner
  <2>2. notes' = notes \union {job[h].ref}
    BY <1>9 DEF NotifyOwner
  <2>3. \A g \in Handlers \ {h} : pc'[g] = pc[g]
    BY <1>9 DEF NotifyOwner, Goto
  <2>4. pc'[h] = "commit" /\ pc[h] = "notify"
    BY <1>9 DEF NotifyOwner, Goto
  <2>5. UNCHANGED <<sent, acked, status, replica, credits, job, rsp>>
    BY <1>9 DEF NotifyOwner, gatewayVars, rowVars, walletVars
  <2>7. CreditedWasPaid' /\ AckedIsRecorded'
    BY <2>5
  <2>8. CreditAnnounced'
    BY <2>2, <2>5
  <2>9. \A g \in Handlers : pc'[g] = "commit" /\ Owner[WalletOfJob(g)'] # "nobody" =>
           job'[g].ref \in notes'
    <3> SUFFICES ASSUME NEW g \in Handlers,
                        pc'[g] = "commit", Owner[WalletOfJob(g)'] # "nobody"
                 PROVE  job'[g].ref \in notes'
      OBVIOUS
    <3>1. CASE g = h
      BY <2>2, <2>5, <3>1
    <3>2. CASE g # h
      <4>1. pc[g] = "commit" /\ Owner[WalletOfJob(g)] # "nobody" /\ job'[g] = job[g]
        BY <2>3, <2>5, <3>2
      <4>2. job[g].ref \in notes
        BY <4>1
      <4> QED BY <2>2, <4>1, <4>2
    <3> QED BY <3>1, <3>2
  <2>10. \A g \in Handlers :
            pc'[g] \in {"wallet"} \union InTransaction \/ rsp'[g] \in {"00", "02"} =>
               status'[job'[g].ref] # "PENDING"
    BY <2>3, <2>4, <2>5
  <2> QED BY <2>5, <2>7, <2>8, <2>9, <2>10
<1>10. ASSUME NEW h \in Handlers, CommitWallet(h) PROVE RecordInv'
  <2>1. /\ job[h] \in sent /\ job[h].ref \in Orders
        /\ job[h].code = "00" /\ job[h].right
    BY <1>10 DEF CommitWallet, NoNotice
  <2>2. CreditedWasPaid'
    BY <1>10, <2>1 DEF CommitWallet, gatewayVars
  <2>3. CreditAnnounced'
    BY <1>10, <2>1 DEF CommitWallet
  <2>4. \A g \in Handlers \ {h} : pc'[g] = pc[g] /\ rsp'[g] = rsp[g]
    BY <1>10 DEF CommitWallet, Answer, Goto
  <2>5. pc'[h] = "reply" /\ status[job[h].ref] # "PENDING"
    BY <1>10 DEF CommitWallet, Answer, Goto
  <2> QED BY <1>10, <2>2, <2>3, <2>4, <2>5 DEF CommitWallet, gatewayVars, rowVars
<1>11. ASSUME NEW h \in Handlers, UpdateWalletError(h) PROVE RecordInv'
  BY <1>11 DEF UpdateWalletError, Crediting, Answer, Goto, gatewayVars, rowVars, manualVars
<1>12. ASSUME NEW r \in Refs, Sync(r) PROVE RecordInv'
  BY <1>12 DEF Sync, gatewayVars, walletVars, manualVars, handlerVars
<1>13. ASSUME NEW w \in Workers, Crash(w) PROVE RecordInv'
  BY <1>13 DEF Crash, gatewayVars, rowVars, manualVars
<1>14. ASSUME NEW o \in Orders, MarkSuccess(o) PROVE RecordInv'
  <2>1. UNCHANGED <<gatewayVars, walletVars, notes, handlerVars>>
    BY <1>14 DEF MarkSuccess
  <2>2. /\ \A x \in Refs : status[x] # "PENDING" => status'[x] # "PENDING"
        /\ \A x \in Refs : replica'[x] \notin {"PENDING", Absent} => status'[x] # "PENDING"
    BY <1>14, WriteKeepsRecorded DEF MarkSuccess, Statuses, Refs
  <2>3. \A g \in Handlers :
           pc[g] \in {"wallet"} \union InTransaction \/ rsp[g] \in {"00", "02"} =>
              job[g].ref \in Refs
    BY DEF Notices, Refs
  <2> QED BY <2>1, <2>2, <2>3 DEF gatewayVars, walletVars, handlerVars, Notices
<1>15. ASSUME NEW w \in Wallets, NEW d \in Corrections, CorrectWallet(w, d) PROVE RecordInv'
  BY <1>15 DEF CorrectWallet, gatewayVars, rowVars, handlerVars
<1>16. CASE UNCHANGED vars
  BY <1>16 DEF vars, gatewayVars, rowVars, walletVars, manualVars, handlerVars
<1> QED
  BY <1>1, <1>2, <1>3, <1>4, <1>5, <1>6, <1>7, <1>8, <1>9, <1>10, <1>11, <1>12,
     <1>13, <1>14, <1>15, <1>16
  DEF Next, Gateway, Step, Failure, Environment

\* A wallet is credited only for a payment of the right amount that the gateway
\* reported.
THEOREM CreditsArePaid == Spec => []CreditedWasPaid
<1>1. RecordInv => CreditedWasPaid
  BY DEF RecordInv
<1> QED BY InitTypeInv, NextTypeInv, InitRecordInv, NextRecordInv, <1>1, PTL DEF Spec

\* Whoever owns a credited wallet has a notification of it.
THEOREM CreditsAreAnnounced == Spec => []CreditAnnounced
<1>1. RecordInv => CreditAnnounced
  BY DEF RecordInv
<1> QED BY InitTypeInv, NextTypeInv, InitRecordInv, NextRecordInv, <1>1, PTL DEF Spec

\* The gateway stops repeating a verdict only when the master has recorded one.
THEOREM AcksAreRecorded == Spec => []AckedIsRecorded
<1>1. RecordInv => AckedIsRecorded
  BY DEF RecordInv
<1> QED BY InitTypeInv, NextTypeInv, InitRecordInv, NextRecordInv, <1>1, PTL DEF Spec

-----------------------------------------------------------------------------
(* A payment that is answered for is credited, or known to be dropped *)

\* An order that is SUCCESS, in the master or in the replica, is accounted for,
\* and so is one whose payment is being answered: the request that wrote the
\* status is in updateWallet until it has credited or dropped the order.
AccountInv ==
    /\ AckedIsAccounted
    /\ \A o \in Orders : status[o] = "SUCCESS" \/ replica[o] = "SUCCESS" => Accounted(o)
    /\ \A h \in Handlers :
          rsp[h] \in {"00", "02"} /\ job[h].code = "00" /\ job[h].ref \in Orders =>
             Accounted(job[h].ref)

LEMMA InitAccountInv == Init => AccountInv
BY DEF Init, AccountInv, AckedIsAccounted, Absent, Refs

\* A request leaves updateWallet by crediting its order or by dropping it, and
\* neither is ever undone.
CreditingEnds ==
    /\ dropped \subseteq dropped'
    /\ \A o \in Orders : credits[o] > 0 => credits'[o] > 0
    /\ \A h \in Handlers : Crediting(h) =>
          \/ Crediting(h)' /\ job'[h] = job[h]
          \/ job[h].ref \in dropped'
          \/ credits'[job[h].ref] > 0

LEMMA NextCreditingEnds == TypeInv /\ [Next]_vars => CreditingEnds
<1> SUFFICES ASSUME TypeInv, [Next]_vars PROVE CreditingEnds
  OBVIOUS
<1> USE DEF TypeInv, TypeOK, StageInv, InTransaction, Crediting, CreditingEnds, Goto, Answer,
            walletVars, handlerVars
<1>1. ASSUME NEW n \in Notices, Decide(n) PROVE CreditingEnds
  BY <1>1 DEF Decide
<1>2. ASSUME NEW h \in Handlers, NEW n \in sent, Deliver(h, n) \/ Duplicate(h, n)
      PROVE  CreditingEnds
  BY <1>2 DEF Deliver, Duplicate, Accept
<1>3. ASSUME NEW h \in Handlers, BadChecksum(h) \/ MissingOrder(h) PROVE CreditingEnds
  BY <1>3 DEF BadChecksum, MissingOrder, Reject
<1>4. ASSUME NEW h \in Handlers, CheckTrip(h) \/ CheckTransaction(h) \/ Reply(h)
      PROVE  CreditingEnds
  BY <1>4 DEF CheckTrip, CheckTransaction, Check, Reply
<1>5. ASSUME NEW h \in Handlers, UpdateTrip(h) \/ UpdateTransaction(h) \/ IpnError(h)
      PROVE  CreditingEnds
  BY <1>5 DEF UpdateTrip, UpdateTransaction, IpnError
<1>6. ASSUME NEW h \in Handlers, BeginWallet(h) \/ LockWallet(h) \/ NotifyOwner(h)
      PROVE  CreditingEnds
  BY <1>6 DEF BeginWallet, LockWallet, NotifyOwner
<1>7. ASSUME NEW h \in Handlers, CommitWallet(h) PROVE CreditingEnds
  <2>1. job[h].ref \in Orders
    BY <1>7 DEF CommitWallet
  <2>2. \A o \in Orders : credits'[o] = IF o = job[h].ref THEN credits[o] + 1 ELSE credits[o]
    BY <1>7 DEF CommitWallet
  <2>3. \A g \in Handlers \ {h} : pc'[g] = pc[g]
    BY <1>7 DEF CommitWallet
  <2>4. UNCHANGED <<dropped, job>>
    BY <1>7 DEF CommitWallet
  <2> QED BY <2>1, <2>2, <2>3, <2>4
<1>8. ASSUME NEW h \in Handlers, UpdateWalletError(h) PROVE CreditingEnds
  BY <1>8 DEF UpdateWalletError
<1>9. ASSUME NEW w \in Workers, Crash(w) PROVE CreditingEnds
  BY <1>9 DEF Crash
<1>10. ASSUME Environment, \A w \in Workers : ~Crash(w) PROVE CreditingEnds
  BY <1>10 DEF Environment, Sync, MarkSuccess, CorrectWallet
<1>11. CASE UNCHANGED vars
  BY <1>11 DEF vars
<1> QED
  BY <1>1, <1>2, <1>3, <1>4, <1>5, <1>6, <1>7, <1>8, <1>9, <1>10, <1>11
  DEF Next, Gateway, Step, Failure, Environment

\* What is accounted for stays so.
LEMMA AccountedStays ==
    ASSUME TypeOK, CreditingEnds, NEW o \in Orders, Accounted(o)
    PROVE  Accounted(o)'
<1>1. CASE credits[o] > 0 \/ o \in dropped
  BY <1>1 DEF Accounted, CreditingEnds
<1>2. ASSUME NEW h \in Handlers, Crediting(h), job[h].ref = o PROVE Accounted(o)'
  BY <1>2 DEF Accounted, CreditingEnds
<1> QED BY <1>1, <1>2 DEF Accounted

LEMMA NextAccountInv == TypeInv /\ AccountInv /\ [Next]_vars => AccountInv'
<1> SUFFICES ASSUME TypeInv, AccountInv, [Next]_vars PROVE AccountInv'
  OBVIOUS
<1> DEFINE Recorded(o) == status[o] = "SUCCESS" \/ replica[o] = "SUCCESS"
           Answered(h) == rsp[h] \in {"00", "02"} /\ job[h].code = "00" /\ job[h].ref \in Orders
           NewRecorded == \A o \in Orders : Recorded(o)' => Recorded(o) \/ Accounted(o)'
           NewAnswered ==
             \A h \in Handlers : Answered(h)' =>
                \/ Answered(h) /\ job'[h] = job[h]
                \/ Accounted(job[h].ref)' /\ job'[h] = job[h]
           NewAcked ==
             \A n \in acked' : n \in acked \/ \E h \in Handlers : n = job[h] /\ rsp[h] \in {"00", "02"}
<1>a. \A o \in Orders : Accounted(o) => Accounted(o)'
  BY NextCreditingEnds, AccountedStays DEF TypeInv
<1> SUFFICES NewRecorded /\ NewAnswered /\ NewAcked
  BY <1>a DEF AccountInv, AckedIsAccounted
<1> USE ConstantsAssumption, NoNoticeNotSent DEF TypeInv, TypeOK, StageInv, InTransaction, Goto, Answer, WriteStatus
<1>1. ASSUME NEW n \in Notices, Decide(n) PROVE NewRecorded /\ NewAnswered /\ NewAcked
  BY <1>1 DEF Decide, rowVars, handlerVars
<1>2. ASSUME NEW h \in Handlers, NEW n \in sent, Deliver(h, n) \/ Duplicate(h, n)
      PROVE  NewRecorded /\ NewAnswered /\ NewAcked
  BY <1>2 DEF Deliver, Duplicate, Accept, rowVars
<1>3. ASSUME NEW h \in Handlers, BadChecksum(h) \/ MissingOrder(h)
      PROVE  NewRecorded /\ NewAnswered /\ NewAcked
  BY <1>3 DEF BadChecksum, MissingOrder, Reject, rowVars
<1>4. ASSUME NEW h \in Handlers, Reply(h) PROVE NewRecorded /\ NewAnswered /\ NewAcked
  BY <1>4 DEF Reply, rowVars
<1>5. ASSUME NEW h \in Handlers, CheckTrip(h) \/ CheckTransaction(h)
      PROVE  NewRecorded /\ NewAnswered /\ NewAcked
  <2>1. Check(h) /\ job[h] \in Notices /\ job[h].ref \in Refs
    BY <1>5 DEF CheckTrip, CheckTransaction, Check, Notices
  <2>2. /\ UNCHANGED <<rowVars, acked, job>>
        /\ \A g \in Handlers \ {h} : rsp'[g] = rsp[g]
        /\ rsp'[h] \in {"00", "02"} => Screened(job[h]) = "02" \/ rsp'[h] = rsp[h]
    BY <2>1, ScreenedType DEF Check, gatewayVars
  <2>3. ASSUME job[h].ref \in Orders, Screened(job[h]) = "02" PROVE Accounted(job[h].ref)'
    <3>1. replica[job[h].ref] = "SUCCESS"
      BY <2>1, <2>3, ConstantsAssumption DEF Screened, Settled
    <3>2. Accounted(job[h].ref)
      BY <2>3, <3>1 DEF AccountInv
    <3>3. \A o \in Orders : o = job[h].ref => Accounted(o)'
      BY <1>a, <3>2
    <3> QED BY <2>2, <2>3, <3>3 DEF Accounted
  <2> QED BY <2>2, <2>3 DEF rowVars
<1>6. ASSUME NEW h \in Handlers, UpdateTrip(h)
      PROVE  NewRecorded /\ NewAnswered /\ NewAcked
  BY <1>6 DEF UpdateTrip, gatewayVars, Refs
<1>7. ASSUME NEW h \in Handlers, UpdateTransaction(h)
      PROVE  NewRecorded /\ NewAnswered /\ NewAcked
  <2>1. CASE job[h].code = "00"
    <3>1. Crediting(h)' /\ job' = job /\ rsp' = rsp /\ acked' = acked
      BY <1>7, <2>1 DEF UpdateTransaction, Crediting, gatewayVars
    <3>2. Accounted(job[h].ref)'
      BY <3>1 DEF Accounted
    <3>3. \A o \in Orders : Recorded(o)' => Recorded(o) \/ o = job[h].ref
      BY <1>7, <2>1 DEF UpdateTransaction, Refs
    <3> QED BY <3>1, <3>2, <3>3
  <2>2. CASE job[h].code # "00"
    BY <1>7, <2>2 DEF UpdateTransaction, gatewayVars, Refs
  <2> QED BY <2>1, <2>2
<1>8. ASSUME NEW h \in Handlers, IpnError(h) PROVE NewRecorded /\ NewAnswered /\ NewAcked
  <2>1. /\ \A g \in Handlers \ {h} : rsp'[g] = rsp[g]
        /\ rsp'[h] = "99" /\ UNCHANGED <<job, acked>>
    BY <1>8 DEF IpnError, gatewayVars
  <2>2. \A o \in Orders : Recorded(o)' => Recorded(o) \/ o \in dropped'
    BY <1>8 DEF IpnError, rowVars, Settled, Refs
  <2> QED BY <2>1, <2>2 DEF Accounted
<1>9. ASSUME NEW h \in Handlers, BeginWallet(h) \/ LockWallet(h) \/ NotifyOwner(h)
      PROVE  NewRecorded /\ NewAnswered /\ NewAcked
  BY <1>9 DEF BeginWallet, LockWallet, NotifyOwner, gatewayVars, rowVars
<1>10. ASSUME NEW h \in Handlers, CommitWallet(h) \/ UpdateWalletError(h)
       PROVE  NewRecorded /\ NewAnswered /\ NewAcked
  <2>1. /\ \A g \in Handlers \ {h} : rsp'[g] = rsp[g]
        /\ UNCHANGED <<rowVars, job, acked>>
    BY <1>10 DEF CommitWallet, UpdateWalletError, gatewayVars
  <2>2. job[h].ref \in Orders
    BY <1>10 DEF CommitWallet, UpdateWalletError, Crediting
  <2>3. credits'[job[h].ref] > 0 \/ job[h].ref \in dropped'
    BY <1>10, <2>2 DEF CommitWallet, UpdateWalletError
  <2> QED BY <2>1, <2>3 DEF rowVars, Accounted
<1>11. ASSUME NEW r \in Refs, Sync(r) PROVE NewRecorded /\ NewAnswered /\ NewAcked
  BY <1>11 DEF Sync, gatewayVars, handlerVars
<1>12. ASSUME NEW w \in Workers, Crash(w) PROVE NewRecorded /\ NewAnswered /\ NewAcked
  BY <1>12 DEF Crash, gatewayVars, rowVars
<1>13. ASSUME NEW o \in Orders, MarkSuccess(o) PROVE NewRecorded /\ NewAnswered /\ NewAcked
  <2>1. UNCHANGED <<acked, job, rsp>> /\ dropped' = dropped \union {o}
    BY <1>13 DEF MarkSuccess, gatewayVars, handlerVars
  <2>2. \A p \in Orders : Recorded(p)' => Recorded(p) \/ p \in dropped'
    BY <1>13, <2>1 DEF MarkSuccess, Refs
  <2> QED BY <2>1, <2>2 DEF Accounted
<1>14. ASSUME NEW w \in Wallets, NEW d \in Corrections, CorrectWallet(w, d)
       PROVE  NewRecorded /\ NewAnswered /\ NewAcked
  BY <1>14 DEF CorrectWallet, gatewayVars, rowVars, handlerVars
<1>15. CASE UNCHANGED vars
  BY <1>15 DEF vars, gatewayVars, rowVars, handlerVars
<1> QED
  BY <1>1, <1>2, <1>3, <1>4, <1>5, <1>6, <1>7, <1>8, <1>9, <1>10, <1>11, <1>12,
     <1>13, <1>14, <1>15
  DEF Next, Gateway, Step, Failure, Environment

\* A payment that was answered 00 or 02 is credited, is about to be, or was
\* dropped by a failure, a crash or an administrator: neither lag nor
\* repetition nor overlap loses a credit.
THEOREM AcksAreAccounted == Spec => []AckedIsAccounted
<1>1. AccountInv => AckedIsAccounted
  BY DEF AccountInv
<1> QED BY InitTypeInv, NextTypeInv, InitAccountInv, NextAccountInv, <1>1, PTL DEF Spec

-----------------------------------------------------------------------------
(* One notification of a reference at a time, and no lag *)

\* A credited order is SUCCESS, which the next notification reads; a request
\* past the check on an order is alone on it and finds it not credited.
SerialInv ==
    /\ CreditedOnce
    /\ replica = status
    /\ \A g, h \in Handlers : job[g].ref = job[h].ref /\ job[h] # NoNotice => g = h
    /\ \A o \in Orders : credits[o] > 0 => status[o] = "SUCCESS"
    /\ \A h \in Handlers :
          /\ pc[h] \in {"save", "wallet"} \union InTransaction /\ job[h].ref \in Orders =>
                credits[job[h].ref] = 0
          /\ pc[h] \in {"wallet"} \union InTransaction => status[job[h].ref] = "SUCCESS"
          /\ pc[h] = "save" /\ job[h].ref \notin Markable =>
                status[job[h].ref] # Settled(job[h].ref)

LEMMA InitSerialInv == ASSUME Serial PROVE Init => SerialInv
BY ConstantsAssumption DEF Serial, Init, SerialInv, CreditedOnce, InTransaction, NoNotice

\* A request on a notification holds the reference of a row.
LEMMA RefOfJob == TypeOK =>
    /\ NoNotice.ref = NoRef
    /\ \A h \in Handlers : job[h] # NoNotice => job[h].ref # NoRef
BY ConstantsAssumption DEF TypeOK, NoNotice, Notices

LEMMA NextSerialInv ==
    ASSUME Serial
    PROVE  TypeInv /\ SerialInv /\ [Next]_vars => SerialInv'
<1> SUFFICES ASSUME TypeInv, SerialInv, [Next]_vars PROVE SerialInv'
  OBVIOUS
<1> USE ConstantsAssumption, NoNoticeNotSent
    DEF Serial, TypeInv, TypeOK, StageInv, Stages, InTransaction, SerialInv, CreditedOnce
<1>1. ASSUME NEW n \in Notices, Decide(n) PROVE SerialInv'
  BY <1>1 DEF Decide, rowVars, walletVars, manualVars, handlerVars
<1>2. ASSUME NEW h \in Handlers, NEW n \in sent, Deliver(h, n) \/ Duplicate(h, n)
      PROVE  SerialInv'
  <2>1. Accept(h, n)
    BY <1>2 DEF Deliver, Duplicate
  <2>2. /\ job' = [job EXCEPT ![h] = n] /\ pc' = [pc EXCEPT ![h] = "check"]
        /\ \A g \in Handlers : job[g].ref # n.ref
    BY <2>1 DEF Accept, Goto
  <2>3. \A f, g \in Handlers : job'[f].ref = job'[g].ref /\ job'[g] # NoNotice => f = g
    BY <2>2
  <2> QED BY <2>1, <2>2, <2>3 DEF Accept, rowVars, walletVars
<1>3. ASSUME NEW h \in Handlers, BadChecksum(h) \/ MissingOrder(h) PROVE SerialInv'
  BY <1>3 DEF BadChecksum, MissingOrder, Reject, Answer, Goto, rowVars, walletVars, manualVars
<1>4. ASSUME NEW h \in Handlers, Reply(h) PROVE SerialInv'
  <2>1. /\ job' = [job EXCEPT ![h] = NoNotice] /\ pc' = [pc EXCEPT ![h] = "idle"]
        /\ UNCHANGED <<rowVars, credits>>
    BY <1>4 DEF Reply, Goto, walletVars
  <2>2. \A f, g \in Handlers : job'[f].ref = job'[g].ref /\ job'[g] # NoNotice => f = g
    BY <2>1, RefOfJob
  <2> QED BY <2>1, <2>2 DEF rowVars
<1>5. ASSUME NEW h \in Handlers, CheckTrip(h) \/ CheckTransaction(h) PROVE SerialInv'
  <2>1. Check(h) /\ job[h] \in Notices
    BY <1>5 DEF CheckTrip, CheckTransaction, Check
  <2>2. Screened(job[h]) = "ok" =>
           /\ status[job[h].ref] # Settled(job[h].ref)
           /\ job[h].ref \in Orders => credits[job[h].ref] = 0
    BY <2>1, ScreenedType DEF Settled
  <2> QED
    BY <2>1, <2>2, ScreenedType
    DEF Check, Answer, Goto, gatewayVars, rowVars, walletVars, manualVars
<1>6. ASSUME NEW h \in Handlers, UpdateTrip(h) \/ UpdateTransaction(h) \/ IpnError(h)
      PROVE  SerialInv'
  <2>1. job[h] \in Notices /\ job[h].ref \in Refs
    BY <1>6 DEF UpdateTrip, UpdateTransaction, IpnError, Notices
  <2>2. UNCHANGED <<gatewayVars, walletVars, notes, manualVars, job>>
    BY <1>6 DEF UpdateTrip, UpdateTransaction, IpnError
  <2>3. \A g \in Handlers \ {h} : pc'[g] = pc[g]
    BY <1>6 DEF UpdateTrip, UpdateTransaction, IpnError, Answer, Goto
  <2>4. /\ pc'[h] # "save"
        /\ pc'[h] \in {"wallet"} \union InTransaction =>
              pc[h] = "save" /\ job[h].ref \in Orders /\ status'[job[h].ref] = "SUCCESS"
    BY <1>6, <2>1
    DEF UpdateTrip, UpdateTransaction, IpnError, WriteStatus, Answer, Goto, Refs
  <2>5. replica' = status' /\ \A r \in Refs \ {job[h].ref} : status'[r] = status[r]
    BY <1>6, <2>1 DEF UpdateTrip, UpdateTransaction, IpnError, WriteStatus, rowVars
  <2>6. status' = status \/ pc[h] = "save"
    BY <1>6 DEF UpdateTrip, UpdateTransaction, IpnError, rowVars
  <2>7. \A o \in Orders : credits'[o] > 0 => status'[o] = "SUCCESS"
    <3> SUFFICES ASSUME NEW o \in Orders, credits[o] > 0 PROVE status'[o] = "SUCCESS"
      BY <2>2 DEF walletVars
    <3>1. CASE o = job[h].ref
      BY <2>6, <3>1
    <3>2. CASE o # job[h].ref
      BY <2>5, <3>2 DEF Refs
    <3> QED BY <3>1, <3>2
  <2>8. \A g \in Handlers \ {h} :
           pc[g] \in {"save", "wallet"} \union InTransaction =>
              status'[job[g].ref] = status[job[g].ref]
    BY <2>1, <2>5 DEF Notices, Refs
  <2> QED BY <2>2, <2>3, <2>4, <2>5, <2>7, <2>8 DEF walletVars
<1>7. ASSUME NEW h \in Handlers,
             BeginWallet(h) \/ LockWallet(h) \/ NotifyOwner(h) \/ UpdateWalletError(h)
      PROVE  SerialInv'
  <2>1. UNCHANGED <<rowVars, credits, job>>
    BY <1>7 DEF BeginWallet, LockWallet, NotifyOwner, UpdateWalletError, walletVars
  <2>2. /\ \A g \in Handlers \ {h} : pc'[g] = pc[g]
        /\ pc'[h] # "save" /\ pc[h] \in {"wallet"} \union InTransaction
    BY <1>7 DEF BeginWallet, LockWallet, NotifyOwner, UpdateWalletError, Crediting, Answer, Goto
  <2> QED BY <2>1, <2>2 DEF rowVars
<1>8. ASSUME NEW h \in Handlers, CommitWallet(h) PROVE SerialInv'
  <2>1. job[h].ref \in Orders /\ credits[job[h].ref] = 0 /\ job[h] # NoNotice
    BY <1>8 DEF CommitWallet, NoNotice
  <2> QED BY <1>8, <2>1 DEF CommitWallet, Answer, Goto, gatewayVars, rowVars, manualVars
<1>9. ASSUME NEW r \in Refs, Sync(r) PROVE SerialInv'
  BY <1>9 DEF Sync
<1>10. ASSUME NEW w \in Workers, Crash(w) PROVE SerialInv'
  <2>1. /\ \A h \in Handlers : \/ job'[h] = NoNotice /\ pc'[h] = "idle"
                               \/ job'[h] = job[h] /\ pc'[h] = pc[h]
        /\ UNCHANGED <<rowVars, credits>>
    BY <1>10 DEF Crash
  <2>2. \A f, g \in Handlers : job'[f].ref = job'[g].ref /\ job'[g] # NoNotice => f = g
    BY <2>1, RefOfJob
  <2> QED BY <2>1, <2>2 DEF rowVars
<1>11. ASSUME NEW o \in Orders, MarkSuccess(o) PROVE SerialInv'
  BY <1>11 DEF MarkSuccess, WriteStatus, gatewayVars, walletVars, manualVars, handlerVars, Refs
<1>12. ASSUME NEW w \in Wallets, NEW d \in Corrections, CorrectWallet(w, d) PROVE SerialInv'
  BY <1>12 DEF CorrectWallet, gatewayVars, rowVars, handlerVars
<1>13. CASE UNCHANGED vars
  BY <1>13 DEF vars, gatewayVars, rowVars, walletVars, manualVars, handlerVars
<1> QED
  BY <1>1, <1>2, <1>3, <1>4, <1>5, <1>6, <1>7, <1>8, <1>9, <1>10, <1>11, <1>12, <1>13
  DEF Next, Gateway, Step, Failure, Environment

\* With one notification of a reference at a time and reads of the last write,
\* no order is credited twice, whatever fails, crashes or is repeated.
THEOREM SerialCreditsOnce == ASSUME Serial PROVE Spec => []CreditedOnce
<1>1. SerialInv => CreditedOnce
  BY DEF SerialInv
<1> QED BY InitTypeInv, NextTypeInv, InitSerialInv, NextSerialInv, <1>1, PTL DEF Spec

\* Then too a row that is PAID (SUCCESS) stays so, unless an administrator
\* marks rows the gateway is still deciding on.
THEOREM SerialPaidIsFinal == ASSUME Serial PROVE Spec => PaidIsFinal
<1>1. TypeInv /\ SerialInv /\ [Next]_vars =>
        [\A r \in Refs \ Markable : status[r] = Settled(r) => status'[r] = Settled(r)]_vars
  <2> SUFFICES ASSUME TypeInv, SerialInv, Next,
                      NEW r \in Refs \ Markable, status[r] = Settled(r)
               PROVE  status'[r] = Settled(r)
    OBVIOUS
  <2>1. ASSUME NEW h \in Handlers, UpdateTrip(h) \/ UpdateTransaction(h) \/ IpnError(h)
        PROVE  status'[r] = Settled(r)
    <3>1. CASE UNCHANGED status
      BY <3>1
    <3>2. CASE ~UNCHANGED status
      <4>1. pc[h] = "save" /\ \E s : WriteStatus(job[h].ref, s)
        BY <2>1, <3>2 DEF UpdateTrip, UpdateTransaction, IpnError, rowVars
      <4>2. job[h].ref # r
        BY <4>1 DEF SerialInv
      <4> QED BY <4>1, <4>2 DEF WriteStatus, TypeInv, TypeOK
    <3> QED BY <3>1, <3>2
  <2>2. ASSUME NEW o \in Orders, MarkSuccess(o) PROVE status'[r] = Settled(r)
    BY <2>2 DEF MarkSuccess, WriteStatus, TypeInv, TypeOK
  <2>3. ASSUME NEW h \in Handlers,
               BadChecksum(h) \/ MissingOrder(h) \/ Reply(h) \/ CheckTrip(h) \/ CheckTransaction(h)
               \/ BeginWallet(h) \/ LockWallet(h) \/ NotifyOwner(h) \/ CommitWallet(h)
               \/ UpdateWalletError(h)
        PROVE  UNCHANGED status
    BY <2>3 DEF BadChecksum, MissingOrder, Reject, Reply, CheckTrip, CheckTransaction, Check, BeginWallet,
                LockWallet, NotifyOwner, CommitWallet, UpdateWalletError, rowVars
  <2>4. Gateway => UNCHANGED status
    BY DEF Gateway, Decide, Deliver, Duplicate, Accept, rowVars
  <2>5. ASSUME Environment PROVE status'[r] = Settled(r)
    BY <2>2, <2>5 DEF Environment, Sync, Crash, CorrectWallet, rowVars
  <2> QED BY <2>1, <2>3, <2>4, <2>5 DEF Next, Step, Failure
<1> QED
  BY InitTypeInv, NextTypeInv, InitSerialInv, NextSerialInv, <1>1, PTL DEF Spec, PaidIsFinal

=============================================================================
