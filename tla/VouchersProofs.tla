--------------------------- MODULE VouchersProofs ---------------------------
(* Theorems about Vouchers, for every value of its constants.               *)
EXTENDS Vouchers, TLAPS

-----------------------------------------------------------------------------
(* Type correctness *)

LEMMA InitTypeOK == Init => TypeOK
BY VoucherAssumption
DEF Init, TypeOK, States, Requests, NoRequest, Tasks, NoTask, NoRows

\* A request or a call that is not idle is about a voucher.
LEMMA AboutAVoucher ==
    ASSUME TypeOK, NEW h \in Handlers
    PROVE  /\ req[h].pc # "idle" => req[h].v \in VoucherIds
           /\ task[h].pc # "idle" => task[h].v \in VoucherIds /\ task[h].who \subseteq Customers
BY DEF TypeOK, Requests, NoRequest, Tasks, NoTask

LEMMA StoredType == ASSUME NEW isGlobal PROVE Stored(isGlobal) \in {"private", "global"}
BY DEF Stored

LEMMA GrantedType ==
    ASSUME TypeOK, NEW v \in VoucherIds, NEW who
    PROVE  Granted(v, who) \in [Customers -> Nat]
BY DEF TypeOK, Granted

LEMMA CascadeType ==
    ASSUME NEW held \in [VoucherIds -> [Customers -> Nat]], NEW v \in VoucherIds
    PROVE  Cascade(held, v) \in [VoucherIds -> [Customers -> Nat]]
BY DEF Cascade, NoRows

LEMMA WriteRowType ==
    ASSUME TypeOK, NEW v \in VoucherIds, NEW s \in States, WriteRow(v, s)
    PROVE  voucher' \in [VoucherIds -> States] /\ replica' \in [VoucherIds -> States]
BY DEF TypeOK, WriteRow

LEMMA KillType ==
    ASSUME TypeOK, NEW w, Kill(w)
    PROVE  /\ req' \in [Handlers -> Requests] /\ task' \in [Handlers -> Tasks]
           /\ calm' \subseteq VoucherIds
BY DEF TypeOK, Kill, Disturb, Requests, Tasks

\* Where a request and a call may go.
LEMMA MovesType ==
    ASSUME TypeOK, NEW h \in Handlers
    PROVE  /\ End(h) => req' \in [Handlers -> Requests]
           /\ \A stage \in {"reread", "write", "count", "refind", "delete"} :
                  req[h].pc # "idle" /\ Goto(h, stage) => req' \in [Handlers -> Requests]
           /\ \A stage \in {"list", "revoke"} :
                  req[h].pc # "idle" /\ Spawn(h, stage) => task' \in [Handlers -> Tasks]
           /\ EndTask(h) => task' \in [Handlers -> Tasks]
<1>1. End(h) => req' \in [Handlers -> Requests]
  BY DEF TypeOK, End, Requests
<1>2. ASSUME NEW stage \in {"reread", "write", "count", "refind", "delete"},
             req[h].pc # "idle", Goto(h, stage)
      PROVE  req' \in [Handlers -> Requests]
  <2> DEFINE Open == [pc : {"insert", "read", "reread", "write", "find", "count", "refind", "delete"},
                     v : VoucherIds, isGlobal : Choices]
  <2>1. req[h] \in Requests /\ req[h].pc # "idle"
    BY <1>2 DEF TypeOK
  <2>2. req[h] \in Open
    BY <2>1 DEF Requests, NoRequest
  <2>3. [req[h] EXCEPT !.pc = stage] \in Open
    BY <2>2
  <2>4. [req[h] EXCEPT !.pc = stage] \in Requests
    BY <2>3 DEF Requests
  <2>5. req' = [req EXCEPT ![h] = [req[h] EXCEPT !.pc = stage]]
    BY <1>2 DEF Goto
  <2> QED BY <2>4, <2>5 DEF TypeOK
<1>3. ASSUME NEW stage \in {"list", "revoke"}, req[h].pc # "idle", Spawn(h, stage)
      PROVE  task' \in [Handlers -> Tasks]
  <2>1. [pc |-> stage, v |-> req[h].v, who |-> {}] \in Tasks
    BY <1>3, AboutAVoucher DEF Tasks
  <2> QED BY <2>1, <1>3 DEF TypeOK, Spawn
<1>4. EndTask(h) => task' \in [Handlers -> Tasks]
  BY DEF TypeOK, EndTask, Tasks
<1> QED BY <1>1, <1>2, <1>3, <1>4

LEMMA NextTypeOK == TypeOK /\ [Next]_vars => TypeOK'
<1> SUFFICES ASSUME TypeOK, [Next]_vars PROVE TypeOK'
  OBVIOUS
<1>1. ASSUME NEW h \in Handlers, NEW v \in VoucherIds, NEW isGlobal \in Choices,
             NEW stage \in {"insert", "read", "find"}, Accept(h, v, isGlobal, stage)
      PROVE  TypeOK'
  <2>1. [pc |-> stage, v |-> v, isGlobal |-> isGlobal] \in Requests
    BY DEF Requests
  <2> QED BY <2>1, <1>1 DEF Accept, Disturb, TypeOK, rows
<1>2. ASSUME NEW h \in Handlers, NEW v \in VoucherIds, Create(h, v) \/ Update(h, v) \/ Remove(h, v)
      PROVE  TypeOK'
  BY <1>1, <1>2 DEF Create, Update, Remove, Choices
<1>3. ASSUME NEW h \in Handlers, InsertVoucher(h) PROVE TypeOK'
  <2>1. req[h].v \in VoucherIds /\ End(h) /\ WriteRow(req[h].v, Stored(req[h].isGlobal))
    BY <1>3, AboutAVoucher DEF InsertVoucher
  <2>2. voucher' \in [VoucherIds -> States] /\ replica' \in [VoucherIds -> States]
    BY <2>1, StoredType, WriteRowType DEF States
  <2>3. task' \in [Handlers -> Tasks] /\ eligible' \in [VoucherIds -> SUBSET Customers]
    BY <1>3, <2>1, MovesType DEF InsertVoucher, Grant, TypeOK
  <2> QED BY <1>3, <2>1, <2>2, <2>3, MovesType DEF InsertVoucher, TypeOK, counters
<1>4. ASSUME NEW h \in Handlers, ReadVoucher(h) PROVE TypeOK'
  <2>1. req[h].v \in VoucherIds
    BY <1>4, AboutAVoucher DEF ReadVoucher
  <2>2. req' \in [Handlers -> Requests]
    BY <1>4, MovesType DEF ReadVoucher
  <2>3. task' \in [Handlers -> Tasks] /\ eligible' \in [VoucherIds -> SUBSET Customers]
    BY <1>4, <2>1, MovesType DEF ReadVoucher, Grant, TypeOK
  <2> QED BY <1>4, <2>2, <2>3 DEF ReadVoucher, ReadDisturbs, Disturb, TypeOK, rows, counters
<1>5. ASSUME NEW h \in Handlers, FindVoucher(h) PROVE TypeOK'
  <2>1. req[h].pc # "idle" /\ After[req[h].pc] \in {"count", "write", "delete"}
    BY <1>5 DEF FindVoucher, After
  <2>2. req' \in [Handlers -> Requests]
    BY <1>5, <2>1, MovesType DEF FindVoucher
  <2> QED BY <1>5, <2>2 DEF FindVoucher, ReadDisturbs, Disturb, TypeOK, rows, counters
<1>6. ASSUME NEW h \in Handlers, WriteVoucher(h) PROVE TypeOK'
  <2>1. req[h].v \in VoucherIds /\ End(h)
    BY <1>6, AboutAVoucher DEF WriteVoucher
  <2>2. voucher' \in [VoucherIds -> States] /\ replica' \in [VoucherIds -> States]
    BY <1>6, <2>1, StoredType, WriteRowType DEF WriteVoucher, States, TypeOK
  <2> QED BY <1>6, <2>1, <2>2, MovesType DEF WriteVoucher, TypeOK, counters
<1>7. ASSUME NEW h \in Handlers, CountUsed(h) PROVE TypeOK'
  <2>1. req' \in [Handlers -> Requests]
    BY <1>7, MovesType DEF CountUsed
  <2> QED BY <1>7, <2>1 DEF CountUsed, TypeOK, rows, counters
<1>8. ASSUME NEW h \in Handlers, DeleteVoucher(h) PROVE TypeOK'
  <2>1. req[h].v \in VoucherIds /\ End(h) /\ WriteRow(req[h].v, "none")
    BY <1>8, AboutAVoucher DEF DeleteVoucher
  <2>2. voucher' \in [VoucherIds -> States] /\ replica' \in [VoucherIds -> States]
    BY <2>1, WriteRowType DEF States
  <2>3. /\ unused' \in [VoucherIds -> [Customers -> Nat]]
        /\ used' \in [VoucherIds -> [Customers -> Nat]]
    BY <1>8, <2>1, CascadeType DEF DeleteVoucher, TypeOK
  <2> QED BY <1>8, <2>1, <2>2, <2>3, MovesType DEF DeleteVoucher, TypeOK, counters
<1>9. ASSUME NEW h \in Handlers, RequestError(h) PROVE TypeOK'
  BY <1>9, MovesType DEF RequestError, Disturb, TypeOK, rows, counters
<1>10. ASSUME NEW h \in Handlers, ListCustomers(h) PROVE TypeOK'
  <2>1. PICK who \in SUBSET verified :
           task' = [task EXCEPT ![h] = [pc |-> "insert", v |-> task[h].v, who |-> who]]
    BY <1>10 DEF ListCustomers
  <2>2. [pc |-> "insert", v |-> task[h].v, who |-> who] \in Tasks
    BY <1>10, AboutAVoucher DEF ListCustomers, TypeOK, Tasks
  <2>3. task' \in [Handlers -> Tasks]
    BY <2>1, <2>2 DEF TypeOK
  <2> QED BY <1>10, <2>3 DEF ListCustomers, Disturb, TypeOK, rows, counters
<1>11. ASSUME NEW h \in Handlers, InsertMany(h) PROVE TypeOK'
  <2>1. task[h].v \in VoucherIds
    BY <1>11, AboutAVoucher DEF InsertMany
  <2>2. CASE voucher[task[h].v] = "none" /\ task[h].who # {}
    BY <1>11, <2>2, KillType DEF InsertMany, TypeOK, counters
  <2>3. CASE ~(voucher[task[h].v] = "none" /\ task[h].who # {})
    <3>1. unused' \in [VoucherIds -> [Customers -> Nat]]
      <4>1. Granted(task[h].v, task[h].who) \in [Customers -> Nat]
        BY <2>1, GrantedType
      <4>2. unused' = [unused EXCEPT ![task[h].v] = Granted(task[h].v, task[h].who)]
        BY <1>11, <2>3 DEF InsertMany
      <4> QED BY <2>1, <4>1, <4>2 DEF TypeOK
    <3> QED BY <1>11, <2>3, <3>1, MovesType DEF InsertMany, TypeOK, counters
  <2> QED BY <2>2, <2>3
<1>12. ASSUME NEW h \in Handlers, Revoke(h) PROVE TypeOK'
  BY <1>12, MovesType DEF Revoke, NoRows, TypeOK, counters
<1>13. ASSUME NEW h \in Handlers, TaskError(h) PROVE TypeOK'
  BY <1>13, KillType DEF TaskError, TypeOK, rows, counters
<1>14. ASSUME NEW c \in Customers, Verify(c) PROVE TypeOK'
  BY <1>14 DEF Verify, TypeOK, rows, counters
<1>15. ASSUME NEW c \in Customers, NEW v \in VoucherIds, UseVoucher(c, v) PROVE TypeOK'
  <2>1. unused[v][c] \in Nat /\ unused[v][c] > 0 /\ used[v][c] \in Nat
    BY <1>15 DEF UseVoucher, TypeOK
  <2> QED BY <1>15, <2>1 DEF UseVoucher, TypeOK
<1>16. ASSUME NEW v \in VoucherIds, Sync(v) PROVE TypeOK'
  BY <1>16 DEF Sync, TypeOK, counters
<1>17. ASSUME NEW w \in Workers, Crash(w) PROVE TypeOK'
  BY <1>17, KillType DEF Crash, TypeOK, rows
<1>18. CASE UNCHANGED vars
  BY <1>18 DEF vars, rows, counters, TypeOK
<1> QED
  BY <1>2, <1>3, <1>4, <1>5, <1>6, <1>7, <1>8, <1>9, <1>10, <1>11, <1>12, <1>13,
     <1>14, <1>15, <1>16, <1>17, <1>18
  DEF Next, RequestStep, TaskStep

\* Every state is well typed: in particular no customer's count of vouchers
\* falls below zero, whatever revocations and uses overtake one another.
THEOREM TypeCorrect == Spec => []TypeOK
BY InitTypeOK, NextTypeOK, PTL DEF Spec

-----------------------------------------------------------------------------
(* Who holds and who used a voucher *)

\* What a step does to the rows of the vouchers and of the customers, whoever
\* takes it: nothing; a voucher is written; it goes with all its rows; it is
\* granted; it is revoked; a customer uses it.
WriteStep(v, s) == voucher' = [voucher EXCEPT ![v] = s] /\ UNCHANGED <<unused, used>>
GoneStep(v) ==
    /\ voucher' = [voucher EXCEPT ![v] = "none"]
    /\ unused' = [unused EXCEPT ![v] = NoRows] /\ used' = [used EXCEPT ![v] = NoRows]
GrantStep(v, who) ==
    /\ voucher[v] # "none" \/ who = {}
    /\ unused' = [unused EXCEPT ![v] = Granted(v, who)]
    /\ UNCHANGED <<voucher, used>>
RevokeStep(v) == unused' = [unused EXCEPT ![v] = NoRows] /\ UNCHANGED <<voucher, used>>

RowStep ==
    \/ UNCHANGED <<voucher, unused, used>>
    \/ \E v \in VoucherIds, s \in {"private", "global"} : WriteStep(v, s)
    \/ \E v \in VoucherIds : GoneStep(v) \/ RevokeStep(v)
    \/ \E v \in VoucherIds, who \in SUBSET Customers : GrantStep(v, who)
    \/ \E v \in VoucherIds, c \in Customers : UseVoucher(c, v)

LEMMA EveryRowStep == TypeOK /\ [Next]_vars => RowStep
<1> SUFFICES ASSUME TypeOK, [Next]_vars PROVE RowStep
  OBVIOUS
<1>1. ASSUME NEW h \in Handlers, InsertVoucher(h) PROVE RowStep
  BY <1>1, AboutAVoucher, StoredType DEF InsertVoucher, WriteRow, RowStep, WriteStep
<1>2. ASSUME NEW h \in Handlers, WriteVoucher(h) PROVE RowStep
  BY <1>2, AboutAVoucher, StoredType DEF WriteVoucher, WriteRow, RowStep, WriteStep
<1>3. ASSUME NEW h \in Handlers, DeleteVoucher(h) PROVE RowStep
  BY <1>3, AboutAVoucher DEF DeleteVoucher, WriteRow, Cascade, RowStep, GoneStep
<1>4. ASSUME NEW h \in Handlers, InsertMany(h) PROVE RowStep
  BY <1>4, AboutAVoucher DEF InsertMany, RowStep, GrantStep
<1>5. ASSUME NEW h \in Handlers, Revoke(h) PROVE RowStep
  BY <1>5, AboutAVoucher DEF Revoke, RowStep, RevokeStep
<1>6. CASE UNCHANGED vars
  BY <1>6 DEF vars, rows, RowStep
<1>7. ASSUME NEW h \in Handlers, NEW v \in VoucherIds, Create(h, v) \/ Update(h, v) \/ Remove(h, v)
      PROVE  UNCHANGED <<voucher, unused, used>>
  BY <1>7 DEF Create, Update, Remove, Accept, rows
<1>8. ASSUME NEW h \in Handlers,
             \/ ReadVoucher(h) \/ FindVoucher(h) \/ CountUsed(h) \/ RequestError(h)
             \/ ListCustomers(h) \/ TaskError(h)
      PROVE  UNCHANGED <<voucher, unused, used>>
  BY <1>8 DEF ReadVoucher, FindVoucher, CountUsed, RequestError, ListCustomers, TaskError, rows
<1>9. ASSUME NEW c \in Customers, Verify(c) PROVE UNCHANGED <<voucher, unused, used>>
  BY <1>9 DEF Verify, rows
<1>10. ASSUME NEW v \in VoucherIds, Sync(v) PROVE UNCHANGED <<voucher, unused, used>>
  BY <1>10 DEF Sync
<1>11. ASSUME NEW w \in Workers, Crash(w) PROVE UNCHANGED <<voucher, unused, used>>
  BY <1>11 DEF Crash, rows
<1> QED
  BY <1>1, <1>2, <1>3, <1>4, <1>5, <1>6, <1>7, <1>8, <1>9, <1>10, <1>11
  DEF Next, RequestStep, TaskStep, RowStep

\* A voucher that is gone is held by nobody and was used by nobody: the calls
\* left behind by its requests cannot bring its rows back.
THEOREM NoneIsHeldByNobody == Spec => []NobodyHoldsNone
<1>1. Init => NobodyHoldsNone
  BY DEF Init, NobodyHoldsNone, NoRows
<1>2. TypeOK /\ NobodyHoldsNone /\ [Next]_vars => NobodyHoldsNone'
  <2> SUFFICES ASSUME TypeOK, NobodyHoldsNone, [Next]_vars,
                      NEW u \in VoucherIds, voucher'[u] = "none", NEW d \in Customers
               PROVE  unused'[u][d] = 0 /\ used'[u][d] = 0
    BY DEF NobodyHoldsNone
  <2> USE DEF TypeOK, NobodyHoldsNone, NoRows
  <2>1. CASE UNCHANGED <<voucher, unused, used>>
    BY <2>1
  <2>2. ASSUME NEW v \in VoucherIds, NEW s \in {"private", "global"}, WriteStep(v, s)
        PROVE  unused'[u][d] = 0 /\ used'[u][d] = 0
    BY <2>2 DEF WriteStep
  <2>3. ASSUME NEW v \in VoucherIds, GoneStep(v)
        PROVE  unused'[u][d] = 0 /\ used'[u][d] = 0
    BY <2>3 DEF GoneStep
  <2>4. ASSUME NEW v \in VoucherIds, NEW who \in SUBSET Customers, GrantStep(v, who)
        PROVE  unused'[u][d] = 0 /\ used'[u][d] = 0
    BY <2>4 DEF GrantStep, Granted
  <2>5. ASSUME NEW v \in VoucherIds, RevokeStep(v)
        PROVE  unused'[u][d] = 0 /\ used'[u][d] = 0
    BY <2>5 DEF RevokeStep
  <2>6. ASSUME NEW v \in VoucherIds, NEW c \in Customers, UseVoucher(c, v)
        PROVE  unused'[u][d] = 0 /\ used'[u][d] = 0
    <3>1. v # u
      BY <2>6 DEF UseVoucher
    <3> QED BY <2>6, <3>1 DEF UseVoucher
  <2> QED BY <2>1, <2>2, <2>3, <2>4, <2>5, <2>6, EveryRowStep DEF RowStep
<1> QED BY <1>1, <1>2, TypeCorrect, PTL DEF Spec

\* The record that a customer used a voucher goes only with the voucher: no
\* revocation, however late or repeated, takes it.
THEOREM UsesAreKept == Spec => UsedIsKept
<1>1. TypeOK /\ [Next]_vars =>
        [\A v \in VoucherIds, c \in Customers :
            used'[v][c] < used[v][c] => voucher'[v] = "none"]_vars
  <2> SUFFICES ASSUME TypeOK, [Next]_vars,
                      NEW u \in VoucherIds, NEW d \in Customers, used'[u][d] < used[u][d]
               PROVE  voucher'[u] = "none"
    OBVIOUS
  <2> USE DEF TypeOK, NoRows
  <2>1. used # used'
    OBVIOUS
  <2>2. ASSUME NEW v \in VoucherIds, GoneStep(v) PROVE voucher'[u] = "none"
    BY <2>2 DEF GoneStep
  <2>3. ASSUME NEW v \in VoucherIds, NEW c \in Customers, UseVoucher(c, v) PROVE FALSE
    BY <2>3 DEF UseVoucher
  <2> QED BY <2>1, <2>2, <2>3, EveryRowStep DEF RowStep, WriteStep, RevokeStep, GrantStep
<1> QED BY <1>1, TypeCorrect, PTL DEF Spec, UsedIsKept

-----------------------------------------------------------------------------
(* A voucher that was never disturbed *)

NoneHeld(v) == \A c \in Customers : unused[v][c] = 0
OneHeld(v) == \A c \in Customers : unused[v][c] <= 1

\* The rows of the customers fit a voucher that is, or is about to be, in s.
AtRest(v, s) ==
    IF s = "global"
      THEN OneHeld(v) /\ \A c \in eligible[v] : unused[v][c] + used[v][c] > 0
      ELSE NoneHeld(v)

\* They will, once the call t left behind is done.
Underway(v, t, s) ==
    \/ t.pc = "idle" /\ AtRest(v, s)
    \/ t.v = v /\ t.pc = "list" /\ s = "global" /\ NoneHeld(v)
    \/ t.v = v /\ t.pc = "insert" /\ s = "global" /\ NoneHeld(v) /\ eligible[v] \subseteq t.who
    \/ t.v = v /\ t.pc = "revoke" /\ s = "private" /\ OneHeld(v)

\* Where the one request that is about v is, and the call it left behind.
InHand(v, h) ==
    \/ /\ req[h].v = v /\ req[h].pc = "insert" /\ task[h].pc = "idle"
       /\ voucher[v] = "none" /\ NoneHeld(v)
    \/ /\ req[h].v = v /\ req[h].pc = "read" /\ req[h].isGlobal # "missing"
       /\ task[h].pc = "idle" /\ AtRest(v, voucher[v])
    \/ /\ req[h].v = v /\ req[h].pc \in {"find", "count", "refind", "delete"}
       /\ task[h].pc = "idle" /\ AtRest(v, voucher[v])
    \/ /\ req[h].v = v /\ req[h].pc \in {"reread", "write"} /\ req[h].isGlobal # "missing"
       /\ voucher[v] # "none" /\ Underway(v, task[h], Stored(req[h].isGlobal))
    \/ /\ req[h].pc = "idle" /\ task[h].v = v
       /\ Underway(v, task[h], voucher[v])

About(h, v) == req[h].v = v \/ task[h].v = v

\* A voucher nothing disturbed is at rest or in the hands of one request.
CalmInv(v) ==
    \/ ~Busy(v) /\ AtRest(v, voucher[v])
    \/ \E h \in Handlers : InHand(v, h) /\ \A g \in Handlers \ {h} : ~About(g, v)

CalmsInv == \A v \in calm : CalmInv(v)

\* What a request that is about v, or the call it left behind, acts upon.
Acts(h, v) == (req[h].pc # "idle" /\ req[h].v = v) \/ (task[h].pc # "idle" /\ task[h].v = v)

RowsStay(v) ==
    /\ voucher'[v] = voucher[v] /\ eligible'[v] = eligible[v]
    /\ unused'[v] = unused[v] /\ used'[v] = used[v]

HandlerStays(g) == req'[g] = req[g] /\ task'[g] = task[g]

LEMMA AtRestStays ==
    ASSUME NEW v, RowsStay(v), NEW s
    PROVE  AtRest(v, s)' <=> AtRest(v, s)
BY DEF RowsStay, AtRest, OneHeld, NoneHeld

LEMMA InHandStays ==
    ASSUME NEW v, RowsStay(v), NEW h, HandlerStays(h), InHand(v, h)
    PROVE  InHand(v, h)'
<1>1. NoneHeld(v)' <=> NoneHeld(v)
  BY DEF RowsStay, NoneHeld
<1>2. OneHeld(v)' <=> OneHeld(v)
  BY DEF RowsStay, OneHeld
<1>3. \A s : AtRest(v, s)' <=> AtRest(v, s)
  BY AtRestStays
<1>4. \A t, s : Underway(v, t, s)' <=> Underway(v, t, s)
  BY <1>1, <1>2, <1>3 DEF RowsStay, Underway
<1> QED BY <1>1, <1>3, <1>4 DEF InHand, HandlerStays, RowsStay

\* A step that is not about v.
LEMMA CalmKept ==
    ASSUME NEW v, CalmInv(v), RowsStay(v),
           \A g \in Handlers : HandlerStays(g) \/ (~About(g, v) /\ ~About(g, v)')
    PROVE  CalmInv(v)'
<1>1. \A g \in Handlers : About(g, v)' <=> About(g, v)
  BY DEF About, HandlerStays
<1>2. CASE ~Busy(v) /\ AtRest(v, voucher[v])
  <2>1. ~Busy(v)'
    BY <1>1, <1>2 DEF Busy, About
  <2>2. AtRest(v, voucher[v])'
    BY <1>2 DEF RowsStay, AtRest, OneHeld, NoneHeld
  <2> QED BY <2>1, <2>2 DEF CalmInv
<1>3. ASSUME NEW h \in Handlers, InHand(v, h), \A g \in Handlers \ {h} : ~About(g, v)
      PROVE  CalmInv(v)'
  <2>1. About(h, v)
    BY <1>3 DEF InHand, About
  <2>2. InHand(v, h)'
    BY <1>3, <2>1, InHandStays
  <2> QED BY <1>1, <1>3, <2>2 DEF CalmInv
<1> QED BY <1>2, <1>3 DEF CalmInv

LEMMA CalmOwner ==
    ASSUME NEW v, CalmInv(v), NEW h \in Handlers, About(h, v)
    PROVE  InHand(v, h) /\ \A g \in Handlers \ {h} : ~About(g, v)
<1>1. Busy(v)
  BY DEF Busy, About
<1>2. PICK k \in Handlers : InHand(v, k) /\ \A g \in Handlers \ {k} : ~About(g, v)
  BY <1>1 DEF CalmInv
<1> QED BY <1>2

\* A step of the request about v, or of its call, leaves the other vouchers alone.
LEMMA CalmMoved ==
    ASSUME TypeOK, CalmsInv, NEW h \in Handlers, NEW v \in VoucherIds, Acts(h, v),
           calm' \subseteq calm,
           \A g \in Handlers \ {h} : HandlerStays(g),
           \A u \in VoucherIds \ {v} : RowsStay(u),
           req'[h].v \in {req[h].v, NoVoucher}, task'[h].v \in {task[h].v, v, NoVoucher},
           v \in calm' /\ InHand(v, h) =>
               InHand(v, h)' \/ (~About(h, v)' /\ AtRest(v, voucher[v])')
    PROVE  CalmsInv'
<1> SUFFICES ASSUME NEW u \in calm' PROVE CalmInv(u)'
  BY DEF CalmsInv
<1>1. u \in calm /\ u \in VoucherIds /\ CalmInv(u)
  BY DEF CalmsInv, TypeOK
<1>2. CASE u = v
  <2>1. InHand(v, h) /\ \A g \in Handlers \ {h} : ~About(g, v)
    BY <1>1, <1>2, CalmOwner DEF Acts, About
  <2>2. \A g \in Handlers \ {h} : ~About(g, v)'
    BY <2>1 DEF About, HandlerStays
  <2>3. CASE InHand(v, h)'
    BY <1>2, <2>2, <2>3 DEF CalmInv
  <2>4. CASE ~About(h, v)' /\ AtRest(v, voucher[v])'
    <3>1. ~Busy(v)'
      BY <2>2, <2>4 DEF Busy, About
    <3> QED BY <1>2, <2>4, <3>1 DEF CalmInv
  <2> QED BY <1>2, <2>1, <2>3, <2>4
<1>3. CASE u # v
  <2>1. ~About(h, u)
    <3>1. ASSUME About(h, u) PROVE FALSE
      <4>1. InHand(u, h)
        BY <1>1, <3>1, CalmOwner
      <4> QED BY <1>3, <4>1 DEF InHand, Underway, Acts
    <3> QED BY <3>1
  <2>2. ~About(h, u)'
    BY <1>1, <1>3, <2>1, VoucherAssumption DEF About
  <2> QED BY <1>1, <1>3, <2>1, <2>2, CalmKept
<1> QED BY <1>2, <1>3

LEMMA GotoMoves ==
    ASSUME TypeOK, NEW h \in Handlers, req[h].pc # "idle", NEW stage, Goto(h, stage)
    PROVE  /\ req'[h].pc = stage /\ req'[h].v = req[h].v /\ req'[h].isGlobal = req[h].isGlobal
           /\ \A g \in Handlers \ {h} : req'[g] = req[g]
<1> DEFINE Open == [pc : {"insert", "read", "reread", "write", "find", "count", "refind", "delete"},
                   v : VoucherIds, isGlobal : Choices]
<1>1. req[h] \in Open
  BY DEF TypeOK, Requests, NoRequest
<1>2. req' = [req EXCEPT ![h] = [req[h] EXCEPT !.pc = stage]]
  BY DEF Goto
<1>3. PICK r : r = [req[h] EXCEPT !.pc = stage]
  OBVIOUS
<1>4. r.pc = stage /\ r.v = req[h].v /\ r.isGlobal = req[h].isGlobal
  BY <1>1, <1>3
<1>5. req' = [req EXCEPT ![h] = r]
  BY <1>2, <1>3
<1> QED BY <1>4, <1>5 DEF TypeOK

LEMMA EndMoves ==
    ASSUME TypeOK, NEW h \in Handlers
    PROVE  /\ End(h) => /\ req'[h].pc = "idle" /\ req'[h].v = NoVoucher
                        /\ \A g \in Handlers \ {h} : req'[g] = req[g]
           /\ EndTask(h) => /\ task'[h].pc = "idle" /\ task'[h].v = NoVoucher
                            /\ \A g \in Handlers \ {h} : task'[g] = task[g]
BY DEF TypeOK, End, EndTask, NoRequest, NoTask

LEMMA SpawnMoves ==
    ASSUME TypeOK, NEW h \in Handlers, NEW stage, Spawn(h, stage)
    PROVE  /\ task'[h].pc = stage /\ task'[h].v = req[h].v
           /\ \A g \in Handlers \ {h} : task'[g] = task[g]
BY DEF TypeOK, Spawn

LEMMA IdleIsAboutNone ==
    ASSUME TypeOK, NEW h \in Handlers
    PROVE  /\ req[h].pc = "idle" => req[h] = NoRequest /\ req[h].v = NoVoucher
           /\ task[h].pc = "idle" => task[h] = NoTask /\ task[h].v = NoVoucher
           /\ NoVoucher \notin VoucherIds
<1>1. req[h] \in Requests /\ task[h] \in Tasks
  BY DEF TypeOK
<1>2. req[h].pc = "idle" => req[h] = NoRequest
  BY <1>1 DEF Requests
<1>3. task[h].pc = "idle" => task[h] = NoTask
  BY <1>1 DEF Tasks
<1> QED BY <1>2, <1>3, VoucherAssumption DEF NoRequest, NoTask

LEMMA InitCalms == Init => CalmsInv
BY VoucherAssumption
DEF Init, CalmsInv, CalmInv, Busy, AtRest, NoneHeld, NoRequest, NoTask, NoRows

LEMMA AcceptCalms ==
    ASSUME TypeOK, CalmsInv, NobodyHoldsNone, NEW h \in Handlers, NEW v \in VoucherIds,
           Create(h, v) \/ Update(h, v) \/ Remove(h, v)
    PROVE  CalmsInv'
<1>1. PICK isGlobal \in Choices, stage \in {"insert", "read", "find"} :
          Accept(h, v, isGlobal, stage) /\ (stage = "insert" => voucher[v] = "none")
  BY DEF Create, Update, Remove, Choices
<1>2. /\ req[h] = NoRequest /\ task[h] = NoTask
      /\ req' = [req EXCEPT ![h] = [pc |-> stage, v |-> v, isGlobal |-> isGlobal]]
      /\ calm' = calm \ {u \in {v} : Busy(u) \/ (stage = "read" /\ isGlobal = "missing")}
      /\ UNCHANGED <<voucher, unused, used, task, eligible>>
  BY <1>1 DEF Accept, Disturb, rows
<1>3. /\ req'[h].pc = stage /\ req'[h].v = v /\ req'[h].isGlobal = isGlobal
      /\ task'[h].pc = "idle" /\ \A g \in Handlers \ {h} : HandlerStays(g)
  BY <1>2 DEF TypeOK, HandlerStays, NoTask
<1>4. \A u : RowsStay(u)
  BY <1>2 DEF RowsStay
<1> SUFFICES ASSUME NEW u \in calm' PROVE CalmInv(u)'
  BY DEF CalmsInv
<1>5. u \in calm /\ u \in VoucherIds /\ CalmInv(u)
  BY <1>2 DEF CalmsInv, TypeOK
<1>6. CASE u = v
  <2>1. ~Busy(v) /\ ~(stage = "read" /\ isGlobal = "missing")
    BY <1>2, <1>6
  <2>2. AtRest(v, voucher[v])
    <3>1. ~\E k \in Handlers : InHand(v, k)
      BY <2>1 DEF InHand, Busy
    <3> QED BY <1>5, <1>6, <3>1 DEF CalmInv
  <2>3. AtRest(v, voucher[v])'
    BY <1>4, <2>2 DEF RowsStay, AtRest, OneHeld, NoneHeld
  <2>4. stage = "insert" => voucher'[v] = "none" /\ NoneHeld(v)'
    BY <1>1, <1>2, <2>3 DEF AtRest
  <2>5. InHand(v, h)'
    BY <1>3, <2>1, <2>3, <2>4 DEF InHand
  <2>6. \A g \in Handlers \ {h} : ~About(g, v)'
    BY <1>3, <2>1 DEF Busy, About, HandlerStays
  <2> QED BY <1>6, <2>5, <2>6 DEF CalmInv
<1>7. CASE u # v
  <2>1. ~About(h, u) /\ ~About(h, u)'
    BY <1>2, <1>3, <1>5, <1>7, IdleIsAboutNone DEF About, NoRequest, NoTask
  <2> QED BY <1>3, <1>4, <1>5, <2>1, CalmKept
<1> QED BY <1>6, <1>7

LEMMA KillCalms ==
    ASSUME TypeOK, CalmsInv, NEW w, Kill(w), UNCHANGED <<voucher, unused, used, eligible>>
    PROVE  CalmsInv'
<1> SUFFICES ASSUME NEW v \in calm' PROVE CalmInv(v)'
  BY DEF CalmsInv
<1>1. v \in calm /\ v \in VoucherIds /\ CalmInv(v)
  BY DEF CalmsInv, TypeOK, Kill, Disturb
<1>2. RowsStay(v)
  BY DEF RowsStay
<1>3. ASSUME NEW g \in Handlers, WorkerOf[g] = w PROVE ~About(g, v) /\ ~About(g, v)'
  <2>1. req[g].v # v /\ task[g].v # v
    BY <1>3 DEF Kill, Disturb
  <2>2. req'[g] = NoRequest /\ task'[g] = NoTask
    BY <1>3 DEF Kill
  <2> QED BY <1>1, <2>1, <2>2, VoucherAssumption DEF About, NoRequest, NoTask
<1>4. ASSUME NEW g \in Handlers, WorkerOf[g] # w PROVE HandlerStays(g)
  BY <1>4 DEF Kill, HandlerStays, TypeOK
<1> QED BY <1>1, <1>2, <1>3, <1>4, CalmKept

LEMMA InsertCalms ==
    ASSUME TypeOK, CalmsInv, NEW h \in Handlers, InsertVoucher(h)
    PROVE  CalmsInv'
<1>1. PICK v \in VoucherIds : v = req[h].v
  BY AboutAVoucher DEF InsertVoucher
<1>2. /\ req[h].pc = "insert" /\ WriteRow(v, Stored(req[h].isGlobal)) /\ End(h)
      /\ UNCHANGED <<unused, used, calm>>
      /\ \/ req[h].isGlobal = "yes" /\ Grant(h)
         \/ req[h].isGlobal # "yes" /\ eligible' = [eligible EXCEPT ![v] = {}] /\ task' = task
  BY <1>1 DEF InsertVoucher
<1>3. /\ req'[h].pc = "idle" /\ req'[h].v = NoVoucher /\ v # NoVoucher
      /\ \A g \in Handlers \ {h} : req'[g] = req[g]
  BY <1>2, EndMoves, VoucherAssumption
<1>4. voucher'[v] = Stored(req[h].isGlobal) /\ \A u \in VoucherIds \ {v} : RowsStay(u)
  BY <1>1, <1>2 DEF WriteRow, Grant, RowsStay, TypeOK
<1>5. NoneHeld(v)' <=> NoneHeld(v)
  BY <1>2 DEF NoneHeld
<1>6. Acts(h, v)
  BY <1>1, <1>2 DEF Acts
<1>7. CASE req[h].isGlobal = "yes" /\ Grant(h)
  <2>1. task'[h].pc = "list" /\ task'[h].v = v /\ \A g \in Handlers \ {h} : task'[g] = task[g]
    BY <1>1, <1>7, SpawnMoves DEF Grant
  <2>2. InHand(v, h) => InHand(v, h)'
    BY <1>2, <1>3, <1>4, <1>5, <1>7, <2>1 DEF InHand, Underway, Stored
  <2> QED BY <1>2, <1>3, <1>4, <1>6, <2>1, <2>2, CalmMoved DEF HandlerStays
<1>8. CASE req[h].isGlobal # "yes" /\ task' = task
  <2>1. InHand(v, h) => ~About(h, v)' /\ AtRest(v, voucher[v])'
    <3>1. voucher'[v] = "private"
      BY <1>4, <1>8 DEF Stored
    <3>2. NoneHeld(v)' => AtRest(v, voucher[v])'
      BY <3>1 DEF AtRest
    <3>3. InHand(v, h) => task[h].pc = "idle" /\ NoneHeld(v)
      BY <1>2, <1>3 DEF InHand
    <3> QED BY <1>3, <1>5, <1>8, <3>2, <3>3, IdleIsAboutNone DEF About
  <2> QED BY <1>2, <1>3, <1>4, <1>6, <1>8, <2>1, CalmMoved DEF HandlerStays
<1> QED BY <1>2, <1>7, <1>8

\* What update decides on a copy that is not stale.
LEMMA ReadCalms ==
    ASSUME TypeOK, CalmsInv, NEW h \in Handlers, ReadVoucher(h)
    PROVE  CalmsInv'
<1>1. PICK v \in VoucherIds : v = req[h].v
  BY AboutAVoucher DEF ReadVoucher
<1>2. /\ req[h].pc = "read" /\ UNCHANGED <<voucher, unused, used>>
      /\ \/ replica[v] = "none" /\ End(h)
         \/ replica[v] # "none" /\ Goto(h, "reread")
      /\ \/ Grants(h) /\ Grant(h)
         \/ ~Grants(h) /\ Revokes(h) /\ Spawn(h, "revoke") /\ eligible' = eligible
         \/ ~Grants(h) /\ ~Revokes(h) /\ task' = task /\ eligible' = eligible
      /\ calm' = calm \ {u \in {v} : replica[u] # voucher[u]}
  BY <1>1 DEF ReadVoucher, ReadDisturbs, Disturb, rows
<1>3. /\ Acts(h, v) /\ v # NoVoucher /\ calm' \subseteq calm
      /\ \A u \in VoucherIds \ {v} : RowsStay(u)
      /\ v \in calm' => replica[v] = voucher[v]
  BY <1>1, <1>2, VoucherAssumption DEF Acts, Grant, RowsStay, TypeOK
<1>4. /\ NoneHeld(v)' <=> NoneHeld(v)
      /\ OneHeld(v)' <=> OneHeld(v)
      /\ eligible'[v] = eligible[v] => \A s : AtRest(v, s)' <=> AtRest(v, s)
  BY <1>2 DEF NoneHeld, OneHeld, AtRest
<1>5. voucher[v] \in States /\ req[h].isGlobal \in Choices
  BY <1>1, <1>2 DEF TypeOK, Requests, NoRequest
<1>6. /\ req'[h].v \in {req[h].v, NoVoucher} /\ \A g \in Handlers \ {h} : req'[g] = req[g]
      /\ replica[v] = "none" => req'[h].pc = "idle" /\ req'[h].v = NoVoucher
      /\ replica[v] # "none" => /\ req'[h].pc = "reread" /\ req'[h].v = v
                                /\ req'[h].isGlobal = req[h].isGlobal
  BY <1>1, <1>2, EndMoves, GotoMoves
<1>7. InHand(v, h) => req[h].isGlobal # "missing" /\ task[h].pc = "idle" /\ AtRest(v, voucher[v])
  BY <1>1, <1>2, VoucherAssumption DEF InHand
<1>8. CASE Grants(h) /\ Grant(h)
  <2>1. task'[h].pc = "list" /\ task'[h].v = v /\ \A g \in Handlers \ {h} : task'[g] = task[g]
    BY <1>1, <1>8, SpawnMoves DEF Grant
  <2>2. replica[v] = "private" /\ req[h].isGlobal = "yes"
    BY <1>1, <1>8 DEF Grants
  <2>3. v \in calm' /\ InHand(v, h) => InHand(v, h)'
    <3>1. v \in calm' /\ InHand(v, h) => NoneHeld(v)' /\ voucher'[v] # "none"
      BY <1>2, <1>3, <1>4, <1>7, <2>2 DEF AtRest
    <3> QED BY <1>6, <2>1, <2>2, <3>1 DEF InHand, Underway, Stored
  <2> QED BY <1>3, <1>6, <2>1, <2>3, CalmMoved DEF HandlerStays
<1>9. CASE ~Grants(h) /\ Revokes(h) /\ Spawn(h, "revoke") /\ eligible' = eligible
  <2>1. task'[h].pc = "revoke" /\ task'[h].v = v /\ \A g \in Handlers \ {h} : task'[g] = task[g]
    BY <1>1, <1>9, SpawnMoves
  <2>2. replica[v] # "none"
    BY <1>1, <1>9 DEF Revokes
  <2>3. v \in calm' /\ InHand(v, h) => InHand(v, h)'
    <3>1. InHand(v, h) => replica[v] = "global" /\ req[h].isGlobal = "no"
      BY <1>1, <1>5, <1>7, <1>9 DEF Revokes, Choices
    <3>2. v \in calm' /\ InHand(v, h) => OneHeld(v)' /\ voucher'[v] # "none"
      BY <1>2, <1>3, <1>4, <1>7, <3>1 DEF AtRest
    <3> QED BY <1>6, <2>1, <2>2, <3>1, <3>2 DEF InHand, Underway, Stored
  <2> QED BY <1>3, <1>6, <2>1, <2>3, CalmMoved DEF HandlerStays
<1>10. CASE ~Grants(h) /\ ~Revokes(h) /\ task' = task /\ eligible' = eligible
  <2>1. CASE replica[v] = "none"
    <3>1. v \in calm' /\ InHand(v, h) => ~About(h, v)' /\ AtRest(v, voucher[v])'
      <4>1. InHand(v, h) => AtRest(v, voucher[v])'
        BY <1>2, <1>4, <1>7, <1>10
      <4> QED BY <1>3, <1>6, <1>7, <1>10, <2>1, <4>1, IdleIsAboutNone DEF About
    <3> QED BY <1>3, <1>6, <1>10, <3>1, CalmMoved DEF HandlerStays
  <2>2. CASE replica[v] # "none"
    <3>1. v \in calm' /\ InHand(v, h) => InHand(v, h)'
      <4>1. ASSUME v \in calm', InHand(v, h) PROVE InHand(v, h)'
        <5>1. req[h].isGlobal \in {"yes", "no"} /\ voucher[v] \in {"private", "global"}
          BY <1>3, <1>5, <1>7, <2>2, <4>1 DEF Choices, States
        <5>2. Stored(req[h].isGlobal) = voucher[v]
          BY <1>1, <1>3, <1>10, <4>1, <5>1 DEF Grants, Revokes, Stored
        <5>3. AtRest(v, Stored(req[h].isGlobal))'
          BY <1>1, <1>4, <1>6, <1>7, <1>10, <2>2, <4>1, <5>2 DEF Stored, AtRest
        <5>4. Underway(v, task[h], Stored(req[h].isGlobal))'
          BY <1>7, <1>10, <4>1, <5>3 DEF Underway
        <5> QED BY <1>2, <1>6, <2>2, <5>1, <5>4 DEF InHand
      <4> QED BY <4>1
    <3> QED BY <1>3, <1>6, <1>10, <3>1, CalmMoved DEF HandlerStays
  <2> QED BY <2>1, <2>2
<1> QED BY <1>2, <1>8, <1>9, <1>10

LEMMA FindCalms ==
    ASSUME TypeOK, CalmsInv, NEW h \in Handlers, FindVoucher(h) \/ CountUsed(h) \/ RequestError(h)
    PROVE  CalmsInv'
<1>1. PICK v \in VoucherIds : v = req[h].v
  BY AboutAVoucher DEF FindVoucher, CountUsed, RequestError, After
<1>2. /\ req[h].pc # "idle" /\ UNCHANGED <<voucher, unused, used, task, eligible>>
      /\ calm' \subseteq calm
  BY DEF FindVoucher, CountUsed, RequestError, ReadDisturbs, Disturb, rows, After
<1>3. /\ Acts(h, v) /\ v # NoVoucher /\ \A u \in VoucherIds : RowsStay(u)
  BY <1>1, <1>2, VoucherAssumption DEF Acts, RowsStay
<1>4. \A s : AtRest(v, s)' <=> AtRest(v, s)
  BY <1>3, AtRestStays
<1>5. CASE RequestError(h)
  <2>1. End(h) /\ v \notin calm'
    BY <1>1, <1>5 DEF RequestError, Disturb
  <2> QED BY <1>2, <1>3, <2>1, EndMoves, CalmMoved DEF HandlerStays
<1>6. CASE FindVoucher(h) /\ replica[v] = "none"
  <2>1. End(h) /\ (v \in calm' => voucher[v] = "none") /\ req[h].pc \in {"find", "reread", "refind"}
    BY <1>1, <1>6 DEF FindVoucher, ReadDisturbs, Disturb, After
  <2>2. req'[h].v = NoVoucher /\ \A g \in Handlers \ {h} : req'[g] = req[g]
    BY <2>1, EndMoves
  <2>3. v \in calm' /\ InHand(v, h) => ~About(h, v)' /\ AtRest(v, voucher[v])'
    <3>1. v \in calm' /\ InHand(v, h) => task[h].pc = "idle" /\ AtRest(v, voucher[v])
      BY <1>2, <2>1 DEF InHand
    <3>2. AtRest(v, voucher[v]) => AtRest(v, voucher[v])'
      BY <1>2 DEF AtRest, OneHeld, NoneHeld
    <3> QED BY <1>2, <1>3, <2>2, <3>1, <3>2, IdleIsAboutNone DEF About
  <2> QED BY <1>2, <1>3, <2>2, <2>3, CalmMoved DEF HandlerStays
<1>7. ASSUME NEW stage, Goto(h, stage),
             \/ req[h].pc = "reread" /\ stage = "write"
             \/ req[h].pc \in {"find", "count", "refind"} /\ stage \in {"count", "refind", "delete"}
      PROVE  CalmsInv'
  <2>1. /\ req'[h].pc = stage /\ req'[h].v = v /\ req'[h].isGlobal = req[h].isGlobal
        /\ \A g \in Handlers \ {h} : req'[g] = req[g]
    BY <1>1, <1>2, <1>7, GotoMoves
  <2>2. NoneHeld(v)' <=> NoneHeld(v)
    BY <1>2 DEF NoneHeld
  <2>3. OneHeld(v)' <=> OneHeld(v)
    BY <1>2 DEF OneHeld
  <2>4. \A t, s : Underway(v, t, s)' <=> Underway(v, t, s)
    BY <1>2, <1>4, <2>2, <2>3 DEF Underway
  <2>5. InHand(v, h) => InHand(v, h)'
    BY <1>2, <1>4, <1>7, <2>1, <2>4 DEF InHand
  <2> QED BY <1>1, <1>2, <1>3, <2>1, <2>5, CalmMoved DEF HandlerStays
<1>8. CASE FindVoucher(h) /\ replica[v] # "none"
  <2>1. Goto(h, After[req[h].pc]) /\ req[h].pc \in {"find", "reread", "refind"}
    BY <1>1, <1>8 DEF FindVoucher, After
  <2>2. PICK stage : stage = After[req[h].pc]
    OBVIOUS
  <2>3. \/ req[h].pc = "reread" /\ stage = "write"
        \/ req[h].pc \in {"find", "refind"} /\ stage \in {"count", "delete"}
    BY <2>1, <2>2 DEF After
  <2> QED BY <1>7, <2>1, <2>2, <2>3
<1>9. CASE CountUsed(h)
  BY <1>7, <1>9 DEF CountUsed
<1> QED BY <1>5, <1>6, <1>8, <1>9

LEMMA WriteCalms ==
    ASSUME TypeOK, CalmsInv, NEW h \in Handlers, WriteVoucher(h)
    PROVE  CalmsInv'
<1>1. PICK v \in VoucherIds : v = req[h].v
  BY AboutAVoucher DEF WriteVoucher
<1>2. /\ req[h].pc = "write" /\ End(h) /\ UNCHANGED <<unused, used, task, eligible, calm>>
      /\ \/ voucher[v] = "none" /\ voucher' = voucher
         \/ req[h].isGlobal = "missing" /\ voucher' = voucher
         \/ voucher' = [voucher EXCEPT ![v] = Stored(req[h].isGlobal)]
  BY <1>1 DEF WriteVoucher, WriteRow
<1>3. /\ Acts(h, v) /\ v # NoVoucher /\ \A u \in VoucherIds \ {v} : RowsStay(u)
  BY <1>1, <1>2, VoucherAssumption DEF Acts, RowsStay, TypeOK
<1>4. /\ req'[h].pc = "idle" /\ req'[h].v = NoVoucher
      /\ \A g \in Handlers \ {h} : req'[g] = req[g]
  BY <1>2, EndMoves
<1>5. ASSUME InHand(v, h) PROVE InHand(v, h)' \/ (~About(h, v)' /\ AtRest(v, voucher[v])')
  <2>1. /\ req[h].isGlobal # "missing" /\ voucher[v] # "none"
        /\ Underway(v, task[h], Stored(req[h].isGlobal))
    BY <1>2, <1>5 DEF InHand
  <2>2. voucher'[v] = Stored(req[h].isGlobal)
    BY <1>2, <2>1 DEF TypeOK
  <2>3. NoneHeld(v)' <=> NoneHeld(v)
    BY <1>2 DEF NoneHeld
  <2>4. OneHeld(v)' <=> OneHeld(v)
    BY <1>2 DEF OneHeld
  <2>5. \A s : AtRest(v, s)' <=> AtRest(v, s)
    BY <1>2, <2>3, <2>4 DEF AtRest
  <2>6. \A t, s : Underway(v, t, s)' <=> Underway(v, t, s)
    BY <1>2, <2>3, <2>4, <2>5 DEF Underway
  <2>7. PICK s : s = Stored(req[h].isGlobal)
    OBVIOUS
  <2>8. voucher'[v] = s /\ task' = task /\ Underway(v, task[h], s)
    BY <1>2, <2>1, <2>2, <2>7
  <2>9. CASE task[h].pc = "idle"
    <3>1. AtRest(v, s)
      BY <2>8, <2>9 DEF Underway
    <3>2. AtRest(v, voucher[v])'
      BY <2>3, <2>4, <2>8, <3>1, <1>2 DEF AtRest
    <3> QED BY <1>3, <1>4, <2>8, <2>9, <3>2, IdleIsAboutNone DEF About
  <2>10. CASE task[h].pc # "idle"
    <3>1. task[h].v = v
      BY <2>8, <2>10 DEF Underway
    <3>2. Underway(v, task[h], voucher[v])'
      BY <1>2, <2>3, <2>4, <2>8, <2>10 DEF Underway
    <3> QED BY <1>4, <2>8, <3>1, <3>2 DEF InHand
  <2> QED BY <2>9, <2>10
<1> QED BY <1>1, <1>2, <1>3, <1>4, <1>5, CalmMoved DEF HandlerStays

LEMMA DeleteCalms ==
    ASSUME TypeOK, CalmsInv, NEW h \in Handlers, DeleteVoucher(h)
    PROVE  CalmsInv'
<1>1. PICK v \in VoucherIds : v = req[h].v
  BY AboutAVoucher DEF DeleteVoucher
<1>2. /\ req[h].pc = "delete" /\ End(h) /\ UNCHANGED <<task, eligible, calm>>
      /\ voucher' = [voucher EXCEPT ![v] = "none"]
      /\ unused' = [unused EXCEPT ![v] = NoRows] /\ used' = [used EXCEPT ![v] = NoRows]
  BY <1>1 DEF DeleteVoucher, WriteRow, Cascade
<1>3. /\ Acts(h, v) /\ v # NoVoucher /\ \A u \in VoucherIds \ {v} : RowsStay(u)
  BY <1>1, <1>2, VoucherAssumption DEF Acts, RowsStay, TypeOK
<1>4. /\ req'[h].pc = "idle" /\ req'[h].v = NoVoucher
      /\ \A g \in Handlers \ {h} : req'[g] = req[g]
  BY <1>2, EndMoves
<1>5. AtRest(v, voucher[v])'
  BY <1>2 DEF AtRest, NoneHeld, NoRows, TypeOK
<1>6. InHand(v, h) => ~About(h, v)'
  <2>1. InHand(v, h) => task[h].pc = "idle"
    BY <1>2 DEF InHand
  <2> QED BY <1>2, <1>3, <1>4, <2>1, IdleIsAboutNone DEF About
<1> QED BY <1>2, <1>3, <1>4, <1>5, <1>6, CalmMoved DEF HandlerStays

LEMMA ListCalms ==
    ASSUME TypeOK, CalmsInv, NEW h \in Handlers, ListCustomers(h)
    PROVE  CalmsInv'
<1>1. PICK v \in VoucherIds : v = task[h].v
  BY AboutAVoucher DEF ListCustomers
<1>2. PICK who \in SUBSET verified :
          /\ task' = [task EXCEPT ![h] = [pc |-> "insert", v |-> v, who |-> who]]
          /\ Disturb({u \in {v} : ~(eligible[u] \subseteq who)})
  BY <1>1 DEF ListCustomers
<1>3. task[h].pc = "list" /\ UNCHANGED <<voucher, unused, used, req, eligible>>
  BY DEF ListCustomers, rows
<1>4. /\ task'[h].pc = "insert" /\ task'[h].v = v /\ task'[h].who = who
      /\ \A g \in Handlers \ {h} : task'[g] = task[g]
  BY <1>2 DEF TypeOK
<1>5. /\ Acts(h, v) /\ \A u \in VoucherIds \ {v} : RowsStay(u)
      /\ calm' \subseteq calm /\ (v \in calm' => eligible[v] \subseteq who)
  BY <1>1, <1>2, <1>3 DEF Acts, RowsStay, Disturb
<1>6. NoneHeld(v)' <=> NoneHeld(v)
  BY <1>3 DEF NoneHeld
<1>7. ASSUME v \in calm', InHand(v, h) PROVE InHand(v, h)'
  <2>1. ASSUME NEW s, Underway(v, task[h], s) PROVE Underway(v, task[h], s)'
    <3>1. s = "global" /\ NoneHeld(v)
      BY <1>3, <2>1 DEF Underway
    <3> QED BY <1>3, <1>4, <1>5, <1>6, <1>7, <3>1 DEF Underway
  <2>2. CASE /\ req[h].v = v /\ req[h].pc \in {"reread", "write"} /\ req[h].isGlobal # "missing"
             /\ voucher[v] # "none" /\ Underway(v, task[h], Stored(req[h].isGlobal))
    <3>1. PICK s : s = Stored(req[h].isGlobal)
      OBVIOUS
    <3>2. Underway(v, task[h], s)'
      BY <2>1, <2>2, <3>1
    <3>3. s = Stored(req'[h].isGlobal)
      BY <1>3, <3>1
    <3>4. Underway(v, task[h], Stored(req[h].isGlobal))'
      BY <3>2, <3>3 DEF Underway, AtRest
    <3> QED BY <1>3, <2>2, <3>4 DEF InHand
  <2>3. CASE req[h].pc = "idle" /\ task[h].v = v /\ Underway(v, task[h], voucher[v])
    <3>1. PICK s : s = voucher[v]
      OBVIOUS
    <3>2. Underway(v, task[h], s)' /\ s = voucher'[v]
      BY <1>3, <2>1, <2>3, <3>1
    <3>3. Underway(v, task[h], voucher[v])'
      BY <3>2 DEF Underway, AtRest
    <3> QED BY <1>3, <1>4, <2>3, <3>3 DEF InHand
  <2> QED BY <1>3, <1>7, <2>2, <2>3 DEF InHand
<1> QED BY <1>3, <1>4, <1>5, <1>7, CalmMoved DEF HandlerStays

\* The call a request about v left behind is done.
LEMMA CallDone ==
    ASSUME TypeOK, NEW v \in VoucherIds, NEW h \in Handlers, InHand(v, h), task[h].pc # "idle",
           EndTask(h), UNCHANGED <<voucher, req>>,
           \A s : Underway(v, task[h], s) => AtRest(v, s)'
    PROVE  InHand(v, h)' \/ (~About(h, v)' /\ AtRest(v, voucher[v])')
<1>1. task'[h].pc = "idle" /\ task'[h].v = NoVoucher /\ v # NoVoucher
  BY EndMoves, VoucherAssumption
<1>2. CASE /\ req[h].v = v /\ req[h].pc \in {"reread", "write"} /\ req[h].isGlobal # "missing"
           /\ voucher[v] # "none" /\ Underway(v, task[h], Stored(req[h].isGlobal))
  <2>1. AtRest(v, Stored(req[h].isGlobal))'
    <3>1. PICK s : s = Stored(req[h].isGlobal)
      OBVIOUS
    <3>2. AtRest(v, s)' /\ s = Stored(req[h].isGlobal)'
      BY <1>2, <3>1 DEF Stored
    <3> QED BY <3>2 DEF AtRest
  <2> QED BY <1>1, <1>2, <2>1 DEF InHand, Underway
<1>3. CASE req[h].pc = "idle" /\ Underway(v, task[h], voucher[v])
  <2>1. AtRest(v, voucher[v])'
    <3>1. PICK s : s = voucher[v]
      OBVIOUS
    <3>2. AtRest(v, s)' /\ s = voucher'[v]
      BY <1>3, <3>1
    <3> QED BY <3>2 DEF AtRest
  <2> QED BY <1>1, <1>3, <2>1, IdleIsAboutNone DEF About
<1> QED BY <1>2, <1>3 DEF InHand

LEMMA InsertManyCalms ==
    ASSUME TypeOK, CalmsInv, NEW h \in Handlers, InsertMany(h)
    PROVE  CalmsInv'
<1>1. PICK v \in VoucherIds : v = task[h].v
  BY AboutAVoucher DEF InsertMany
<1>2. task[h].pc = "insert" /\ Acts(h, v) /\ UNCHANGED <<voucher, used, eligible>>
  BY <1>1 DEF InsertMany, Acts
<1>3. CASE Kill(WorkerOf[h]) /\ unused' = unused
  BY <1>2, <1>3, KillCalms
<1>4. CASE /\ unused' = [unused EXCEPT ![v] = Granted(v, task[h].who)]
           /\ EndTask(h) /\ req' = req /\ calm' = calm
  <2>1. \A u \in VoucherIds \ {v} : RowsStay(u)
    BY <1>2, <1>4 DEF RowsStay, TypeOK
  <2>2. \A c \in Customers :
            unused'[v][c] = IF c \in task[h].who THEN unused[v][c] + 1 ELSE unused[v][c]
    BY <1>4 DEF Granted, TypeOK
  <2>3. ASSUME NEW s, Underway(v, task[h], s) PROVE AtRest(v, s)'
    <3>1. s = "global" /\ NoneHeld(v) /\ eligible[v] \subseteq task[h].who
      BY <1>2, <2>3 DEF Underway
    <3>2. \A c \in Customers : unused'[v][c] = IF c \in task[h].who THEN 1 ELSE 0
      BY <2>2, <3>1 DEF NoneHeld
    <3>3. eligible[v] \subseteq Customers /\ \A c \in Customers : used[v][c] \in Nat
      BY DEF TypeOK
    <3>4. \A c \in eligible[v] : unused'[v][c] + used'[v][c] > 0
      BY <1>2, <3>1, <3>2, <3>3
    <3> QED BY <1>2, <3>1, <3>2, <3>4 DEF AtRest, OneHeld
  <2>4. InHand(v, h) => InHand(v, h)' \/ (~About(h, v)' /\ AtRest(v, voucher[v])')
    BY <1>2, <1>4, <2>3, CallDone
  <2> QED BY <1>2, <1>4, <2>1, <2>4, EndMoves, CalmMoved DEF HandlerStays
<1> QED BY <1>1, <1>3, <1>4 DEF InsertMany

LEMMA RevokeCalms ==
    ASSUME TypeOK, CalmsInv, NEW h \in Handlers, Revoke(h)
    PROVE  CalmsInv'
<1>1. PICK v \in VoucherIds : v = task[h].v
  BY AboutAVoucher DEF Revoke
<1>2. /\ task[h].pc = "revoke" /\ Acts(h, v) /\ unused' = [unused EXCEPT ![v] = NoRows]
      /\ EndTask(h) /\ UNCHANGED <<voucher, used, req, eligible, calm>>
  BY <1>1 DEF Revoke, Acts
<1>3. \A u \in VoucherIds \ {v} : RowsStay(u)
  BY <1>2 DEF RowsStay, TypeOK
<1>4. ASSUME NEW s, Underway(v, task[h], s) PROVE AtRest(v, s)'
  <2>1. s = "private"
    BY <1>2, <1>4 DEF Underway
  <2>2. NoneHeld(v)'
    BY <1>2 DEF NoneHeld, NoRows, TypeOK
  <2> QED BY <2>1, <2>2 DEF AtRest
<1>5. InHand(v, h) => InHand(v, h)' \/ (~About(h, v)' /\ AtRest(v, voucher[v])')
  BY <1>2, <1>4, CallDone
<1> QED BY <1>2, <1>3, <1>5, EndMoves, CalmMoved DEF HandlerStays

\* A customer who uses a voucher still accounts for it.
LEMMA UseCalms ==
    ASSUME TypeOK, CalmsInv, NEW c \in Customers, NEW v \in VoucherIds, UseVoucher(c, v)
    PROVE  CalmsInv'
<1> SUFFICES ASSUME NEW u \in calm' PROVE CalmInv(u)'
  BY DEF CalmsInv
<1>1. UNCHANGED <<voucher, req, task, eligible, calm>> /\ unused[v][c] > 0
  BY DEF UseVoucher
<1>2. u \in VoucherIds /\ CalmInv(u) /\ \A g \in Handlers : HandlerStays(g)
  BY <1>1 DEF CalmsInv, TypeOK, HandlerStays
<1>3. CASE u # v
  <2>1. RowsStay(u)
    BY <1>1, <1>2, <1>3 DEF UseVoucher, RowsStay, TypeOK
  <2> QED BY <1>2, <2>1, CalmKept
<1>4. CASE u = v
  <2>1. \A d \in Customers :
            /\ unused[v][d] \in Nat /\ used[v][d] \in Nat
            /\ unused'[v][d] = IF d = c THEN unused[v][d] - 1 ELSE unused[v][d]
            /\ used'[v][d] = IF d = c THEN used[v][d] + 1 ELSE used[v][d]
    BY DEF UseVoucher, TypeOK
  <2>2. ~NoneHeld(v)
    BY <1>1, <2>1 DEF NoneHeld
  <2>3. OneHeld(v) => OneHeld(v)'
    BY <2>1 DEF OneHeld
  <2>4. \A d \in Customers : unused'[v][d] + used'[v][d] = unused[v][d] + used[v][d]
    BY <2>1
  <2>5. \A s : AtRest(v, s) => AtRest(v, s)'
    <3>1. eligible[v] \subseteq Customers
      BY DEF TypeOK
    <3> QED BY <1>1, <2>2, <2>3, <2>4, <3>1 DEF AtRest
  <2>6. \A t, s : Underway(v, t, s) => Underway(v, t, s)'
    BY <2>2, <2>3, <2>5 DEF Underway
  <2>7. \A h \in Handlers : InHand(v, h) => InHand(v, h)'
    BY <1>1, <2>2, <2>5, <2>6 DEF InHand
  <2>8. AtRest(v, voucher[v]) => AtRest(v, voucher[v])'
    BY <1>1, <2>2, <2>3, <2>4 DEF AtRest, TypeOK
  <2> QED BY <1>1, <1>2, <1>4, <2>7, <2>8 DEF CalmInv, Busy, About
<1> QED BY <1>3, <1>4

LEMMA NextCalms == TypeOK /\ NobodyHoldsNone /\ CalmsInv /\ [Next]_vars => CalmsInv'
<1> SUFFICES ASSUME TypeOK, NobodyHoldsNone, CalmsInv, [Next]_vars PROVE CalmsInv'
  OBVIOUS
<1>1. ASSUME UNCHANGED <<voucher, unused, used, req, task, eligible, calm>> PROVE CalmsInv'
  <2> SUFFICES ASSUME NEW v \in calm' PROVE CalmInv(v)'
    BY DEF CalmsInv
  <2>1. CalmInv(v) /\ RowsStay(v) /\ \A g \in Handlers : HandlerStays(g)
    BY <1>1 DEF CalmsInv, RowsStay, HandlerStays
  <2> QED BY <2>1, CalmKept
<1>2. ASSUME NEW c \in Customers, Verify(c) PROVE CalmsInv'
  BY <1>1, <1>2 DEF Verify, rows
<1>3. ASSUME NEW v \in VoucherIds, Sync(v) PROVE CalmsInv'
  BY <1>1, <1>3 DEF Sync
<1>4. ASSUME NEW w \in Workers, Crash(w) PROVE CalmsInv'
  BY <1>4, KillCalms DEF Crash, rows
<1>5. ASSUME NEW h \in Handlers, TaskError(h) PROVE CalmsInv'
  BY <1>5, KillCalms DEF TaskError, rows
<1>6. CASE UNCHANGED vars
  BY <1>1, <1>6 DEF vars, rows
<1> QED
  BY <1>2, <1>3, <1>4, <1>5, <1>6, AcceptCalms, InsertCalms, ReadCalms, FindCalms, WriteCalms,
     DeleteCalms, ListCalms, InsertManyCalms, RevokeCalms, UseCalms
  DEF Next, RequestStep, TaskStep

LEMMA CalmsStay == Spec => []CalmsInv
BY TypeCorrect, NoneIsHeldByNobody, InitCalms, NextCalms, PTL DEF Spec

\* Once its calls are done, a voucher that nothing disturbed is held or was used,
\* if it is global, by all who were verified when it was granted, and if it is
\* private waits for no one, after any number of updates, uses and removals.
THEOREM GrantsCarriedOut == Spec => []GrantsAreCarriedOut
<1>1. CalmsInv => GrantsAreCarriedOut
  <2> SUFFICES ASSUME CalmsInv, NEW v \in VoucherIds, Settled(v)
               PROVE  AtRest(v, voucher[v])
    BY DEF GrantsAreCarriedOut, GlobalIsHeld, PrivateIsRevoked, AtRest, NoneHeld
  <2> QED BY DEF CalmsInv, CalmInv, Settled, Busy, InHand
<1> QED BY <1>1, CalmsStay, PTL

\* Nobody holds such a voucher twice: a grant begins only when all that is left of
\* the last one has been taken back or used.
THEOREM NobodyHoldsTwice == Spec => []HeldOnce
<1>1. TypeOK /\ CalmsInv => HeldOnce
  <2> SUFFICES ASSUME TypeOK, CalmsInv, NEW v \in calm, NEW c \in Customers
               PROVE  unused[v][c] <= 1
    BY DEF HeldOnce
  <2>1. NoneHeld(v) => OneHeld(v)
    BY DEF NoneHeld, OneHeld
  <2>2. \A s : AtRest(v, s) => OneHeld(v)
    BY <2>1 DEF AtRest
  <2>3. \A t, s : Underway(v, t, s) => OneHeld(v)
    BY <2>1, <2>2 DEF Underway
  <2>4. OneHeld(v)
    BY <2>1, <2>2, <2>3 DEF CalmsInv, CalmInv, InHand
  <2> QED BY <2>4 DEF OneHeld
<1> QED BY <1>1, TypeCorrect, CalmsStay, PTL

=============================================================================
