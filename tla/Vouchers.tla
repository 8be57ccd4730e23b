------------------------------ MODULE Vouchers ------------------------------
(***************************************************************************)
(* The vouchers an administrator creates, changes and removes, and who     *)
(* holds them: VoucherService over vouchers and customer_vouchers.  A      *)
(* voucher that becomes global is granted to every verified customer, one  *)
(* that ceases to be is taken back from those who have not used it, by     *)
(* calls that nobody awaits: they run beside the request that made them,   *)
(* outlive it, and if one fails Node ends the worker for an unhandled      *)
(* rejection.                                                              *)
(*                                                                         *)
(* Names, codes, discounts and dates are left out; a create that is refused *)
(* for its code or its discount changes nothing.                           *)
(***************************************************************************)
EXTENDS Integers, FiniteSets

CONSTANTS
    VoucherIds,
    NoVoucher,
    Customers,
    FirstVerified,  \* the customers verified to begin with
    Handlers,       \* a request and the call it leaves behind
    Workers,
    WorkerOf,
    Lag,            \* may the replica be behind the master?
    Faults,         \* may a database call fail?
    MaxRequests,    \* bound: admin requests
    MaxUses,        \* bound: uses of a voucher by a customer
    MaxCrashes      \* bound: crashes of a worker

ASSUME VoucherAssumption ==
    /\ NoVoucher \notin VoucherIds
    /\ FirstVerified \subseteq Customers
    /\ WorkerOf \in [Handlers -> Workers]
    /\ {Lag, Faults} \subseteq BOOLEAN
    /\ {MaxRequests, MaxUses, MaxCrashes} \subseteq Nat

VARIABLES
    voucher,   \* master: is the row absent, private or global (isGlobal)?
    replica,   \* what a repository read returns of it
    verified,  \* Customer.isVerified
    unused,    \* the rows of customer_vouchers without timeUse
    used,      \* those with it
    req,       \* what each admin request is doing
    task,      \* what the call it left behind is doing
    eligible,  \* history: the customers verified when the last grant began
    calm,      \* history: the vouchers whose requests and calls never met a
               \* failure, a stale read, another request or a partial update
    requests, uses, crashes

rows == <<voucher, replica, unused, used>>
counters == <<requests, uses, crashes>>
vars == <<rows, verified, req, task, eligible, calm, counters>>

States == {"none", "private", "global"}

\* dto.isGlobal; an update may leave it out.
Choices == {"yes", "no", "missing"}

NoRequest == [pc |-> "idle", v |-> NoVoucher, isGlobal |-> "missing"]
Requests == [pc : {"insert", "read", "reread", "write", "find", "count", "refind", "delete"},
             v : VoucherIds, isGlobal : Choices] \union {NoRequest}

NoTask == [pc |-> "idle", v |-> NoVoucher, who |-> {}]
Tasks == [pc : {"list", "insert", "revoke"}, v : VoucherIds, who : SUBSET Customers]
             \union {NoTask}

TypeOK ==
    /\ voucher \in [VoucherIds -> States] /\ replica \in [VoucherIds -> States]
    /\ verified \subseteq Customers
    /\ unused \in [VoucherIds -> [Customers -> Nat]]
    /\ used \in [VoucherIds -> [Customers -> Nat]]
    /\ req \in [Handlers -> Requests] /\ task \in [Handlers -> Tasks]
    /\ eligible \in [VoucherIds -> SUBSET Customers]
    /\ calm \subseteq VoucherIds
    /\ {requests, uses, crashes} \subseteq Nat

NoRows == [c \in Customers |-> 0]

Init ==
    /\ voucher = [v \in VoucherIds |-> "none"] /\ replica = voucher
    /\ verified = FirstVerified
    /\ unused = [v \in VoucherIds |-> NoRows] /\ used = unused
    /\ req = [h \in Handlers |-> NoRequest] /\ task = [h \in Handlers |-> NoTask]
    /\ eligible = [v \in VoucherIds |-> {}]
    /\ calm = VoucherIds
    /\ requests = 0 /\ uses = 0 /\ crashes = 0

-----------------------------------------------------------------------------
(* Helpers *)

Busy(v) == \E h \in Handlers : req[h].v = v \/ task[h].v = v

WriteRow(v, s) ==
    /\ voucher' = [voucher EXCEPT ![v] = s]
    /\ replica' = IF Lag THEN replica ELSE voucher'

Goto(h, stage) == req' = [req EXCEPT ![h].pc = stage]
End(h) == req' = [req EXCEPT ![h] = NoRequest]

\* A call that is not awaited begins.
Spawn(h, stage) == task' = [task EXCEPT ![h] = [pc |-> stage, v |-> req[h].v, who |-> {}]]

Disturb(V) == calm' = calm \ V

\* A read of the row on the replica by request h.
ReadDisturbs(h) == Disturb({v \in {req[h].v} : replica[v] # voucher[v]})

\* The requests and calls of a worker end, wherever they are.
Kill(w) ==
    LET dead == {h \in Handlers : WorkerOf[h] = w} IN
    /\ req' = [h \in Handlers |-> IF h \in dead THEN NoRequest ELSE req[h]]
    /\ task' = [h \in Handlers |-> IF h \in dead THEN NoTask ELSE task[h]]
    /\ Disturb({req[h].v : h \in dead} \union {task[h].v : h \in dead})

-----------------------------------------------------------------------------
(* The requests of the administrators *)

Accept(h, v, isGlobal, stage) ==
    /\ req[h] = NoRequest /\ task[h] = NoTask
    /\ requests < MaxRequests
    /\ requests' = requests + 1
    /\ req' = [req EXCEPT ![h] = [pc |-> stage, v |-> v, isGlobal |-> isGlobal]]
    /\ Disturb({u \in {v} : Busy(u) \/ (stage = "read" /\ isGlobal = "missing")})
    /\ UNCHANGED <<rows, verified, task, eligible, uses, crashes>>

\* A new row has a fresh id: one that nothing refers to any more stands for it.
Create(h, v) ==
    /\ voucher[v] = "none" /\ replica[v] = "none" /\ ~Busy(v)
    /\ \E isGlobal \in Choices : Accept(h, v, isGlobal, "insert")

Update(h, v) == \E isGlobal \in Choices : Accept(h, v, isGlobal, "read")

Remove(h, v) == Accept(h, v, "missing", "find")

\* Mutant: the column has no default.
Stored_NoDefault(isGlobal) ==
    CASE isGlobal = "yes" -> "global" [] isGlobal = "no" -> "private" [] OTHER -> isGlobal

\* The column isGlobal defaults to false.
Stored(isGlobal) == IF isGlobal = "yes" THEN "global" ELSE "private"

\* A grant begins; eligible remembers for whom.
Grant(h) ==
    /\ Spawn(h, "list")
    /\ eligible' = [eligible EXCEPT ![req[h].v] = verified]

\* create: the row, and the grant once it has its id.
InsertVoucher(h) ==
    LET v == req[h].v IN
    /\ req[h].pc = "insert"
    /\ WriteRow(v, Stored(req[h].isGlobal))
    /\ IF req[h].isGlobal = "yes"
         THEN Grant(h)
         ELSE eligible' = [eligible EXCEPT ![v] = {}] /\ UNCHANGED task
    /\ End(h)
    /\ UNCHANGED <<unused, used, verified, calm, counters>>

\* Mutant: the stored value is not compared.
Grants_Always(h) == replica[req[h].v] # "none" /\ req[h].isGlobal = "yes"

\* Mutant: nothing is taken back.
Revokes_Never(h) == FALSE

\* update compares the stored isGlobal, read on the replica, with the one of the
\* request: left out (undefined) it differs from both, and revokes.
Grants(h) == replica[req[h].v] = "private" /\ req[h].isGlobal = "yes"

Revokes(h) ==
    \/ replica[req[h].v] = "global" /\ req[h].isGlobal # "yes"
    \/ replica[req[h].v] = "private" /\ req[h].isGlobal = "missing"

ReadVoucher(h) ==
    /\ req[h].pc = "read"
    /\ IF replica[req[h].v] = "none" THEN End(h) ELSE Goto(h, "reread")
    /\ \/ Grants(h) /\ Grant(h)
       \/ ~Grants(h) /\ Revokes(h) /\ Spawn(h, "revoke") /\ UNCHANGED eligible
       \/ ~Grants(h) /\ ~Revokes(h) /\ UNCHANGED <<task, eligible>>
    /\ ReadDisturbs(h)
    /\ UNCHANGED <<rows, verified, counters>>

\* remove finds the voucher; findByIdAndUpdate and permanentlyDelete read the row
\* once more.
After == [find |-> "count", reread |-> "write", refind |-> "delete"]

FindVoucher(h) ==
    /\ req[h].pc \in DOMAIN After
    /\ IF replica[req[h].v] = "none" THEN End(h) ELSE Goto(h, After[req[h].pc])
    /\ ReadDisturbs(h)
    /\ UNCHANGED <<rows, verified, task, eligible, counters>>

\* What is left out of the request is left as it is.
WriteVoucher(h) ==
    LET v == req[h].v IN
    /\ req[h].pc = "write"
    /\ IF voucher[v] = "none" \/ req[h].isGlobal = "missing"
         THEN UNCHANGED <<voucher, replica>>
         ELSE WriteRow(v, Stored(req[h].isGlobal))
    /\ End(h)
    /\ UNCHANGED <<unused, used, verified, task, eligible, calm, counters>>

\* The rows with timeUse: Not(null), which is <> NULL and true of no row: the
\* removal goes on although the voucher has been used.
CountUsed(h) ==
    /\ req[h].pc = "count"
    /\ Goto(h, "refind")
    /\ UNCHANGED <<rows, verified, task, eligible, calm, counters>>

\* Mutant: the rows of the customers stay.
Cascade_None(held, v) == held

\* The rows of the customers go with the voucher (onDelete: CASCADE).
Cascade(held, v) == [held EXCEPT ![v] = NoRows]

DeleteVoucher(h) ==
    LET v == req[h].v IN
    /\ req[h].pc = "delete"
    /\ WriteRow(v, "none")
    /\ unused' = Cascade(unused, v) /\ used' = Cascade(used, v)
    /\ End(h)
    /\ UNCHANGED <<verified, task, eligible, calm, counters>>

\* A database call of a request fails, and the request is answered 400.
RequestError(h) ==
    /\ Faults /\ req[h].pc # "idle"
    /\ End(h)
    /\ Disturb({req[h].v})
    /\ UNCHANGED <<rows, verified, task, eligible, counters>>

-----------------------------------------------------------------------------
(* The calls nobody awaits *)

EndTask(h) == task' = [task EXCEPT ![h] = NoTask]

\* getIdAllCustomer: a replica that is behind misses some.
ListCustomers(h) ==
    LET v == task[h].v IN
    /\ task[h].pc = "list"
    /\ \E who \in SUBSET verified :
        /\ Lag \/ who = verified
        /\ task' = [task EXCEPT ![h] = [pc |-> "insert", v |-> v, who |-> who]]
        /\ Disturb({u \in {v} : ~(eligible[u] \subseteq who)})
    /\ UNCHANGED <<rows, verified, req, eligible, counters>>

\* One insert for all of them, whatever they hold already.
Granted(v, who) == [c \in Customers |-> IF c \in who THEN unused[v][c] + 1 ELSE unused[v][c]]

\* A foreign key without its voucher fails, and the worker with it.
InsertMany(h) ==
    LET v == task[h].v IN
    /\ task[h].pc = "insert"
    /\ IF voucher[v] = "none" /\ task[h].who # {}
         THEN Kill(WorkerOf[h]) /\ UNCHANGED unused
         ELSE /\ unused' = [unused EXCEPT ![v] = Granted(v, task[h].who)]
              /\ EndTask(h)
              /\ UNCHANGED <<req, calm>>
    /\ UNCHANGED <<voucher, replica, used, verified, eligible, counters>>

\* Mutant: what is used is taken back as well.
Revoke_All(h) ==
    LET v == task[h].v IN
    /\ task[h].pc = "revoke"
    /\ unused' = [unused EXCEPT ![v] = NoRows]
    /\ used' = [used EXCEPT ![v] = NoRows]
    /\ EndTask(h)
    /\ UNCHANGED <<voucher, replica, verified, req, eligible, calm, counters>>

\* revokeAllVoucherById: the rows whose timeUse is null.
Revoke(h) ==
    LET v == task[h].v IN
    /\ task[h].pc = "revoke"
    /\ unused' = [unused EXCEPT ![v] = NoRows]
    /\ EndTask(h)
    /\ UNCHANGED <<voucher, replica, used, verified, req, eligible, calm, counters>>

\* The call fails: an unhandled rejection.
TaskError(h) ==
    /\ Faults /\ task[h].pc # "idle"
    /\ Kill(WorkerOf[h])
    /\ UNCHANGED <<rows, verified, eligible, counters>>

-----------------------------------------------------------------------------
(* The customers (the client backend, external), the replica, the workers *)

Verify(c) ==
    /\ c \notin verified
    /\ verified' = verified \union {c}
    /\ UNCHANGED <<rows, req, task, eligible, calm, counters>>

UseVoucher(c, v) ==
    /\ unused[v][c] > 0 /\ uses < MaxUses
    /\ uses' = uses + 1
    /\ unused' = [unused EXCEPT ![v][c] = @ - 1]
    /\ used' = [used EXCEPT ![v][c] = @ + 1]
    /\ UNCHANGED <<voucher, replica, verified, req, task, eligible, calm, requests, crashes>>

Sync(v) ==
    /\ replica[v] # voucher[v]
    /\ replica' = [replica EXCEPT ![v] = voucher[v]]
    /\ UNCHANGED <<voucher, unused, used, verified, req, task, eligible, calm, counters>>

Crash(w) ==
    /\ crashes < MaxCrashes
    /\ crashes' = crashes + 1
    /\ Kill(w)
    /\ UNCHANGED <<rows, verified, eligible, requests, uses>>

-----------------------------------------------------------------------------
RequestStep(h) ==
    \/ InsertVoucher(h) \/ ReadVoucher(h) \/ WriteVoucher(h)
    \/ FindVoucher(h) \/ CountUsed(h) \/ DeleteVoucher(h)

TaskStep(h) == ListCustomers(h) \/ InsertMany(h) \/ Revoke(h)

Next ==
    \/ \E h \in Handlers :
        \/ \E v \in VoucherIds : Create(h, v) \/ Update(h, v) \/ Remove(h, v)
        \/ RequestStep(h) \/ RequestError(h) \/ TaskStep(h) \/ TaskError(h)
    \/ \E c \in Customers : Verify(c) \/ \E v \in VoucherIds : UseVoucher(c, v)
    \/ \E v \in VoucherIds : Sync(v)
    \/ \E w \in Workers : Crash(w)

Spec == Init /\ [][Next]_vars

-----------------------------------------------------------------------------
(* Whatever overlaps, fails or lags *)

\* A customer's record of having used a voucher goes only with the voucher:
\* revocations that overtake or repeat one another leave it.
UsedIsKept ==
    [][\A v \in VoucherIds, c \in Customers :
          used'[v][c] < used[v][c] => voucher'[v] = "none"]_vars

\* No one holds a voucher that does not exist: the call that was left behind
\* can still run after the voucher was removed, and must not bring rows back.
NobodyHoldsNone ==
    \A v \in VoucherIds : voucher[v] = "none" =>
        \A c \in Customers : unused[v][c] = 0 /\ used[v][c] = 0

-----------------------------------------------------------------------------
(* A voucher that was never disturbed *)

Settled(v) == v \in calm /\ ~Busy(v)

GlobalIsHeld ==
    \A v \in VoucherIds : Settled(v) /\ voucher[v] = "global" =>
        \A c \in eligible[v] : unused[v][c] + used[v][c] > 0

PrivateIsRevoked ==
    \A v \in VoucherIds : Settled(v) /\ voucher[v] = "private" =>
        \A c \in Customers : unused[v][c] = 0

\* Once all calls are done, a global voucher is held, or was used, by every
\* customer who was verified when it was granted, and a private one waits for
\* no one, through any number of grants and revocations.
GrantsAreCarriedOut == GlobalIsHeld /\ PrivateIsRevoked

\* No one holds a voucher twice: it is granted only when it becomes global.
HeldOnce ==
    \A v \in calm, c \in Customers : unused[v][c] <= 1

=============================================================================
