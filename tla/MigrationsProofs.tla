-------------------------- MODULE MigrationsProofs ---------------------------
(* Theorems about Migrations, for any list of migrations that meets its       *)
(* assumptions and any number of workers.                                     *)
EXTENDS Deployment, WellFoundedInduction, TLAPS

-----------------------------------------------------------------------------
(* The first and the last of a set of migrations *)

Less == {p \in Nat \X Nat : p[1] < p[2]}

LEMMA HasLeast ==
    ASSUME NEW S, S \subseteq Nat, S # {}
    PROVE  \E m \in S : \A n \in S : m <= n
<1>1. IsWellFoundedOn(Less, Nat)
  BY NatLessThanWellFounded DEF OpToRel, Less
<1>2. PICK x \in S : \A y \in S : ~(<<y, x>> \in Less)
  BY <1>1, WFMin
<1>3. ASSUME NEW y \in S, y < x PROVE FALSE
  <2>1. <<y, x>> \in Nat \X Nat /\ <<y, x>>[1] = y /\ <<y, x>>[2] = x
    OBVIOUS
  <2> QED BY <1>2, <1>3, <2>1 DEF Less
<1> QED BY <1>2, <1>3

LEMMA HasMost ==
    ASSUME NEW m \in Nat, NEW S, S \subseteq 1..m, S # {}
    PROVE  \E k \in S : \A n \in S : n <= k
<1> DEFINE T == {t \in 0..m : m - t \in S}
<1>1. PICK s \in S : TRUE
  OBVIOUS
<1>2. m - s \in T
  <2>1. s \in 1..m
    OBVIOUS
  <2>2. m - s \in 0..m /\ m - (m - s) = s
    BY <2>1
  <2>3. m - (m - s) \in S
    BY <2>2
  <2>4. PICK t : t = m - s
    OBVIOUS
  <2>5. t \in 0..m /\ m - t \in S
    BY <2>2, <2>3, <2>4
  <2>6. t \in T
    BY <2>5
  <2> QED BY <2>4, <2>6
<1>3. PICK t \in T : \A u \in T : t <= u
  <2>1. T \subseteq 0..m /\ T # {}
    BY <1>2, Zenon
  <2>2. 0..m \subseteq Nat
    OBVIOUS
  <2> HIDE DEF T
  <2>3. T \subseteq Nat /\ T # {}
    BY <2>1, <2>2
  <2> QED BY <2>3, HasLeast
<1>4. ASSUME NEW n \in S PROVE n <= m - t
  <2>1. n \in 1..m /\ m - n \in 0..m /\ m - (m - n) = n
    OBVIOUS
  <2>2. t \in 0..m /\ t <= m - n
    BY <1>3, <2>1
  <2> QED BY <2>1, <2>2
<1> QED BY <1>3, <1>4

LEMMA EarliestIsFirst ==
    ASSUME NEW ks \in SUBSET Numbers, ks # {}
    PROVE  Earliest(ks) \in ks /\ \A j \in ks : Earliest(ks) <= j
<1>1. ks \subseteq Nat
  BY VersionsAssumption DEF Numbers
<1>2. \E k \in ks : \A j \in ks : k <= j
  BY <1>1, HasLeast
<1> QED BY <1>2 DEF Earliest

LEMMA LatestIsLast ==
    ASSUME NEW ks \in SUBSET Numbers, ks # {}
    PROVE  Latest(ks) \in ks /\ \A j \in ks : j <= Latest(ks)
BY HasMost, VersionsAssumption DEF Latest, Numbers

-----------------------------------------------------------------------------
(* Type correctness *)

LEMMA InitTypeOK == Init => TypeOK
<1> SUFFICES ASSUME Init PROVE TypeOK
  OBVIOUS
<1>1. records \in [Numbers -> Nat]
  BY DEF Init
<1> QED BY <1>1 DEF Init, TypeOK

LEMMA AtIsPending ==
    ASSUME TypeOK, NEW w \in Workers, todo[w] # {}
    PROVE  At(w) \in todo[w] /\ At(w) \in Numbers /\ \A j \in todo[w] : At(w) <= j
BY EarliestIsFirst DEF TypeOK, At

LEMMA SaveIsTyped ==
    ASSUME TypeOK, NEW ks, Save(ks)
    PROVE  records' \in [Numbers -> Nat] /\ Recorded' = Recorded \union (ks \intersect Numbers)
BY DEF TypeOK, Save, Recorded

LEMMA RestartIsTyped ==
    ASSUME TypeOK, NEW w \in Workers, Restart(w)
    PROVE  /\ pc' \in [Workers -> {"load", "run", "create", "serve"}]
           /\ todo' \in [Workers -> SUBSET Numbers] /\ step' \in [Workers -> Nat]
           /\ open' \in [Workers -> BOOLEAN] /\ unsaved' \in [Workers -> SUBSET Numbers]
BY DEF TypeOK, Restart

LEMMA NextTypeOK == TypeOK /\ [Next]_vars => TypeOK'
<1> SUFFICES ASSUME TypeOK, [Next]_vars PROVE TypeOK'
  OBVIOUS
<1>1. ASSUME NEW w \in Workers, Load(w) PROVE TypeOK'
  BY <1>1 DEF TypeOK, Load, Pending, operatorVars
<1>2. ASSUME NEW w \in Workers, CheckTable(w) PROVE TypeOK'
  BY <1>2 DEF TypeOK, CheckTable, operatorVars
<1>3. ASSUME NEW w \in Workers, Execute(w) PROVE TypeOK'
  <2>1. /\ records' \in [Numbers -> Nat] /\ open' \in [Workers -> BOOLEAN]
        /\ unsaved' \in [Workers -> SUBSET Numbers]
    <3>1. CASE UNCHANGED <<records, open, unsaved>>
      BY <3>1 DEF TypeOK
    <3>2. CASE /\ Save(unsaved[w]) /\ open' = [open EXCEPT ![w] = FALSE]
               /\ unsaved' = [unsaved EXCEPT ![w] = {}]
      <4>1. records' \in [Numbers -> Nat]
        BY <3>2, SaveIsTyped
      <4> QED BY <3>2, <4>1 DEF TypeOK
    <3> QED BY <1>3, <3>1, <3>2 DEF Execute, Commit
  <2>2. /\ pc' = [pc EXCEPT ![w] = "run"] /\ step' = [step EXCEPT ![w] = @ + 1]
        /\ UNCHANGED <<todo, operatorVars, faults>>
    BY <1>3 DEF Execute
  <2> QED BY <2>1, <2>2 DEF TypeOK, operatorVars
<1>4. ASSUME NEW w \in Workers, Fail(w) PROVE TypeOK'
  <2>1. records' \in [Numbers -> Nat]
    BY <1>4, SaveIsTyped DEF Fail, TypeOK
  <2>2. Restart(w) /\ UNCHANGED <<operatorVars, faults>>
    BY <1>4 DEF Fail
  <2> QED BY <2>1, <2>2, RestartIsTyped DEF TypeOK, operatorVars
<1>5. ASSUME NEW w \in Workers, Record(w) PROVE TypeOK'
  <2>1. At(w) \in Numbers
    BY <1>5, AtIsPending DEF Record, Between
  <2>2. records' \in [Numbers -> Nat] /\ unsaved' \in [Workers -> SUBSET Numbers]
    <3>1. CASE open[w]
      BY <1>5, <2>1, <3>1 DEF Record, TypeOK
    <3>2. CASE ~open[w]
      BY <1>5, <3>2, SaveIsTyped DEF Record, TypeOK
    <3> QED BY <3>1, <3>2
  <2> QED BY <1>5, <2>2 DEF Record, TypeOK, operatorVars
<1>6. ASSUME NEW w \in Workers, Finish(w) PROVE TypeOK'
  <2>1. records' \in [Numbers -> Nat]
    BY <1>6, SaveIsTyped DEF Finish
  <2> QED BY <1>6, <2>1 DEF Finish, TypeOK, operatorVars
<1>7. ASSUME NEW w \in Workers, Fault(w) PROVE TypeOK'
  BY <1>7, RestartIsTyped DEF Fault, TypeOK, operatorVars
<1>8. ASSUME BeginRevert PROVE TypeOK'
  <2>1. Latest(Recorded) \in Numbers
    BY <1>8, LatestIsLast DEF BeginRevert, Recorded
  <2> QED BY <1>8, <2>1 DEF BeginRevert, TypeOK, operatorVars
<1>9. ASSUME ExecuteDown PROVE TypeOK'
  BY <1>9 DEF ExecuteDown, TypeOK, workerVars
<1>10. ASSUME RefuseDown PROVE TypeOK'
  BY <1>10 DEF RefuseDown, TypeOK, workerVars
<1>11. ASSUME EndRevert PROVE TypeOK'
  BY <1>11 DEF EndRevert, TypeOK, workerVars
<1>12. CASE UNCHANGED vars
  BY <1>12 DEF TypeOK, vars, workerVars, operatorVars
<1> QED BY <1>1, <1>2, <1>3, <1>4, <1>5, <1>6, <1>7, <1>8, <1>9, <1>10, <1>11, <1>12
        DEF Next, Start, Operate

\* Every variable keeps to its type: the runner of each worker and the operator
\* who undoes a migration.
THEOREM TypeCorrect == Spec => []TypeOK
<1> QED BY InitTypeOK, NextTypeOK, PTL DEF Spec

-----------------------------------------------------------------------------
(* What is recorded is applied *)

\* All statements of a migration, or those before the nth, have done their work.
All(k) == \A i \in DOMAIN Up(k) : Given(k, i)
Done(k, n) == \A i \in DOMAIN Up(k) : i < n => Given(k, i)

AppliedInv == \A k \in Recorded \ {undo} : All(k)

\* A worker is where it is because what comes before has been done.
RunsInv ==
    \A w \in Workers : pc[w] \in {"run", "create"} =>
        /\ \A k \in unsaved[w] : All(k)
        /\ todo[w] # {} => Done(At(w), step[w])

\* A table that is made if it does not exist is whole, or it does not exist.
WholeInv ==
    \A k \in Numbers : \A i \in DOMAIN Up(k) : Up(k)[i].checks =>
        \A p \in Up(k)[i].clashes : Exists(db, p) => Given(k, i)

SoundInv == ~marred => AppliedInv /\ RunsInv /\ WholeInv /\ (undo # 0 /\ ustep = 1 => All(undo))

\* The service is stopped while the last migration is undone.
StoppedInv ==
    undo # 0 => /\ \A w \in Workers : pc[w] = "load"
                /\ undo \in Recorded /\ \A k \in Recorded : k <= undo

FormInv == db = [t \in Tables |-> db[t]] /\ (\A w \in Workers : step[w] # 0) /\ ustep # 0

ApplyInv == FormInv /\ StoppedInv /\ SoundInv

LEMMA HasTable ==
    ASSUME NEW k \in Numbers, NEW i \in DOMAIN Up(k)
    PROVE  Up(k)[i].table \in Tables
BY DEF Tables

\* A statement of up leaves what is there, and adds its own.
LEMMA UpGrows ==
    ASSUME db = [t \in Tables |-> db[t]], NEW k \in Numbers, NEW i \in DOMAIN Up(k),
           db' = Apply(db, Up(k)[i])
    PROVE  /\ db' = [t \in Tables |-> db'[t]]
           /\ Given(k, i)'
           /\ \A j \in Numbers : \A h \in DOMAIN Up(j) : Given(j, h) => Given(j, h)'
           /\ WholeInv => WholeInv'
<1> DEFINE T == Up(k)[i].table
           A == Up(k)[i].adds
<1>1. T \in Tables
  BY HasTable
<1>2. \A o : ~Dropped(o, Up(k)[i])
  BY UpOnlyAdds DEF Dropped
<1>3. db' = [db EXCEPT ![T] = db[T] \union A]
  <2>1. {o \in db[T] : ~Dropped(o, Up(k)[i])} = db[T]
    BY <1>2
  <2> QED BY <2>1 DEF Apply
<1>4. db'[T] = db[T] \union A /\ \A t \in Tables \ {T} : db'[t] = db[t]
  BY <1>1, <1>3
<1>5. db' = [t \in Tables |-> db'[t]]
  BY <1>3
<1>6. Given(k, i)'
  BY <1>4 DEF Given
<1>7. \A j \in Numbers : \A h \in DOMAIN Up(j) : Given(j, h) => Given(j, h)'
  BY <1>4, HasTable DEF Given
<1>8. ASSUME WholeInv PROVE WholeInv'
  <2> SUFFICES ASSUME NEW j \in Numbers, NEW h \in DOMAIN Up(j), Up(j)[h].checks,
                      NEW p \in Up(j)[h].clashes, NEW o \in db'[p.table], Matches(o, p)
               PROVE  Given(j, h)'
    BY DEF WholeInv, Exists
  <2>1. p.table = Up(j)[h].table /\ p.table \in Tables
    BY UpOnlyAdds, HasTable
  <2>2. CASE o \in db[p.table]
    BY <1>7, <1>8, <2>2 DEF WholeInv, Exists
  <2>3. CASE o \notin db[p.table]
    <3>1. p.table = T /\ o \in A
      BY <1>4, <2>1, <2>3
    <3>2. j = k /\ h = i
      BY <3>1, EachAddedOnce
    <3> QED BY <1>6, <3>2
  <2> QED BY <2>2, <2>3
<1> QED BY <1>5, <1>6, <1>7, <1>8

\* A statement of down leaves what the migrations before it have made.
LEMMA DownShrinks ==
    ASSUME db = [t \in Tables |-> db[t]], NEW k \in Numbers \ Lossy, NEW h \in DOMAIN Down(k),
           db' = Apply(db, Down(k)[h])
    PROVE  /\ \A j \in Numbers : j < k => \A i \in DOMAIN Up(j) : Given(j, i) => Given(j, i)'
           /\ WholeInv => WholeInv'
<1> DEFINE T == Down(k)[h].table
<1>1. Down(k)[h].adds = {}
  BY DownOnlyDrops
<1>2. db' = [db EXCEPT ![T] = {o \in db[T] : ~Dropped(o, Down(k)[h])}]
  BY <1>1 DEF Apply
<1>3. \A t \in Tables : db'[t] = IF t = T THEN {o \in db[T] : ~Dropped(o, Down(k)[h])} ELSE db[t]
  BY <1>2
<1>4. ASSUME NEW j \in Numbers, j < k, NEW i \in DOMAIN Up(j), Given(j, i) PROVE Given(j, i)'
  <2>1. Up(j)[i].table \in Tables
    BY HasTable
  <2>2. CASE Up(j)[i].table # T
    BY <1>3, <1>4, <2>1, <2>2 DEF Given
  <2>3. CASE Up(j)[i].table = T
    <3>1. j \in 1..(k - 1) /\ k - 1 \in {0} \union Numbers
      BY <1>4, VersionsAssumption DEF Numbers
    <3>2. SchemaAt[k - 1][T] = UNION {Brings(n, T) : n \in 1..(k - 1)}
      BY <2>1, <2>3, <3>1 DEF SchemaAt
    <3>3. Up(j)[i].adds \subseteq Brings(j, T)
      BY <2>3 DEF Brings
    <3>4. Up(j)[i].adds \subseteq SchemaAt[k - 1][T]
      BY <3>1, <3>2, <3>3
    <3>5. \A o \in SchemaAt[k - 1][T] : ~Dropped(o, Down(k)[h])
      BY DEF Lossy
    <3> QED BY <1>3, <1>4, <2>1, <2>3, <3>4, <3>5 DEF Given
  <2> QED BY <2>2, <2>3
<1>5. ASSUME WholeInv PROVE WholeInv'
  <2> SUFFICES ASSUME NEW j \in Numbers, NEW i \in DOMAIN Up(j), Up(j)[i].checks,
                      NEW p \in Up(j)[i].clashes, NEW o \in db'[p.table], Matches(o, p)
               PROVE  Given(j, i)'
    BY DEF WholeInv, Exists
  <2>1. p.table = Up(j)[i].table /\ p.table \in Tables
    BY UpOnlyAdds, HasTable
  <2>2. o \in db[p.table]
    BY <1>3, <2>1
  <2>3. Given(j, i)
    BY <1>5, <2>2 DEF WholeInv, Exists
  <2>4. CASE p.table # T
    BY <1>3, <2>1, <2>3, <2>4 DEF Given
  <2>5. CASE p.table = T
    <3>1. ~Dropped(o, Down(k)[h])
      BY <1>3, <2>1, <2>5
    <3>2. ~Down(k)[h].whole
      BY <3>1 DEF Dropped
    <3>3. \A q \in Up(j)[i].adds : ~Dropped(q, Down(k)[h])
      BY <2>1, <2>5, <3>2, DownOnlyDrops
    <3> QED BY <1>3, <2>1, <2>3, <2>5, <3>3 DEF Given
  <2> QED BY <2>4, <2>5
<1> QED BY <1>4, <1>5

LEMMA InitApplyInv == Init => ApplyInv
<1> SUFFICES ASSUME Init PROVE ApplyInv
  OBVIOUS
<1>1. PICK v \in Starts : /\ db = SchemaAt[v]
                          /\ records = [k \in Numbers |-> IF k <= v THEN 1 ELSE 0]
  BY DEF Init
<1>2. v \in {0} \union Numbers /\ v \in Nat
  BY MigrationsAssumption, VersionsAssumption DEF Numbers
<1>3. db = [t \in Tables |-> UNION {Brings(k, t) : k \in 1..v}]
  BY <1>1, <1>2 DEF SchemaAt
<1>4. FormInv
  BY <1>3 DEF Init, FormInv
<1>5. StoppedInv
  BY DEF Init, StoppedInv
<1>6. RunsInv
  BY DEF Init, RunsInv
<1>7. \A k \in Numbers : k \in 1..v => All(k)
  <2>1. ASSUME NEW k \in Numbers, k \in 1..v, NEW i \in DOMAIN Up(k) PROVE Given(k, i)
    <3>1. Up(k)[i].adds \subseteq Brings(k, Up(k)[i].table)
      BY DEF Brings
    <3> QED BY <1>3, <2>1, <3>1, HasTable DEF Given
  <2> QED BY <2>1 DEF All
<1>8. AppliedInv
  <2>1. \A k \in Recorded : k \in Numbers /\ k \in 1..v
    BY <1>1, <1>2 DEF Recorded, Numbers
  <2> QED BY <1>7, <2>1 DEF AppliedInv
<1>9. WholeInv
  <2> SUFFICES ASSUME NEW j \in Numbers, NEW i \in DOMAIN Up(j), Up(j)[i].checks,
                      NEW p \in Up(j)[i].clashes, NEW o \in db[p.table], Matches(o, p)
               PROVE  Given(j, i)
    BY DEF WholeInv, Exists
  <2>1. p.table \in Tables
    BY UpOnlyAdds, HasTable
  <2>2. PICK k \in 1..v : o \in Brings(k, p.table)
    BY <1>3, <2>1
  <2>3. k \in Numbers
    BY <1>2, <2>2, VersionsAssumption DEF Numbers
  <2>4. PICK h \in DOMAIN Up(k) : Up(k)[h].table = p.table /\ o \in Up(k)[h].adds
    BY <2>2 DEF Brings
  <2>5. j = k
    BY <2>3, <2>4, EachAddedOnce
  <2> QED BY <1>7, <2>2, <2>5 DEF All
<1> QED BY <1>4, <1>5, <1>6, <1>8, <1>9 DEF ApplyInv, SoundInv, Init

\* One worker moves, and nothing that was given is taken.
LEMMA RunsKept ==
    ASSUME TypeOK, RunsInv, NEW w \in Workers,
           \A j \in Numbers : \A h \in DOMAIN Up(j) : Given(j, h) => Given(j, h)',
           \A v \in Workers \ {w} : /\ pc'[v] = pc[v] /\ todo'[v] = todo[v]
                                    /\ step'[v] = step[v] /\ unsaved'[v] = unsaved[v],
           pc'[w] \in {"run", "create"} =>
               /\ \A k \in unsaved'[w] : All(k)'
               /\ todo'[w] # {} => Done(At(w), step[w])'
    PROVE  RunsInv'
<1> SUFFICES ASSUME NEW v \in Workers, pc'[v] \in {"run", "create"}
             PROVE  /\ \A k \in unsaved'[v] : All(k)'
                    /\ todo'[v] # {} => Done(At(v), step[v])'
  BY DEF RunsInv
<1>1. CASE v = w
  BY <1>1
<1>2. CASE v # w
  <2>1. /\ pc[v] \in {"run", "create"} /\ todo'[v] = todo[v] /\ step'[v] = step[v]
        /\ unsaved'[v] = unsaved[v]
    BY <1>2
  <2>2. ASSUME NEW k \in unsaved[v] PROVE All(k)'
    <3>1. k \in Numbers /\ All(k)
      BY <2>1, <2>2 DEF RunsInv, TypeOK
    <3> QED BY <3>1 DEF All
  <2>3. ASSUME todo[v] # {} PROVE Done(At(v), step[v])'
    <3>1. At(v) \in Numbers /\ Done(At(v), step[v])
      BY <2>1, <2>3, AtIsPending DEF RunsInv
    <3>2. PICK k, n : k = At(v) /\ n = step[v]
      OBVIOUS
    <3>3. k = At(v)' /\ n = step'[v]
      BY <2>1, <3>2 DEF At
    <3>4. Done(k, n)'
      BY <3>1, <3>2 DEF Done
    <3> QED BY <3>3, <3>4 DEF Done
  <2> QED BY <2>1, <2>2, <2>3
<1> QED BY <1>1, <1>2

\* What a worker commits has been applied.
LEMMA SavesApplied ==
    ASSUME TypeOK, AppliedInv, NEW ks \in SUBSET Numbers, Save(ks), \A k \in ks : All(k), undo' = undo,
           \A j \in Numbers : \A h \in DOMAIN Up(j) : Given(j, h) => Given(j, h)'
    PROVE  AppliedInv'
<1>1. Recorded' = Recorded \union ks
  BY SaveIsTyped
<1>2. \A k \in Numbers : All(k) => All(k)'
  BY DEF All
<1>3. Recorded \subseteq Numbers
  BY DEF Recorded
<1> QED BY <1>1, <1>2, <1>3 DEF AppliedInv

LEMMA StaysApplied ==
    ASSUME AppliedInv, records' = records, undo' = undo,
           \A j \in Numbers : \A h \in DOMAIN Up(j) : Given(j, h) => Given(j, h)'
    PROVE  AppliedInv'
<1>1. Recorded' = Recorded /\ Recorded \subseteq Numbers
  BY DEF Recorded
<1>2. \A k \in Numbers : All(k) => All(k)'
  BY DEF All
<1> QED BY <1>1, <1>2 DEF AppliedInv

LEMMA WholeStays == ASSUME WholeInv, db' = db PROVE WholeInv'
BY DEF WholeInv, Exists, Given

LEMMA Restarted ==
    ASSUME TypeOK, FormInv, NEW w \in Workers, Restart(w), UNCHANGED <<db, ustep>>
    PROVE  /\ FormInv' /\ pc'[w] = "load"
           /\ \A v \in Workers \ {w} : /\ pc'[v] = pc[v] /\ todo'[v] = todo[v]
                                       /\ step'[v] = step[v] /\ unsaved'[v] = unsaved[v]
<1>1. FormInv'
  <2>1. \A v \in Workers : step'[v] # 0
    BY DEF Restart, TypeOK, FormInv
  <2> QED BY <2>1 DEF FormInv
<1> QED BY <1>1 DEF Restart, TypeOK

LEMMA WorkerApplies ==
    ASSUME TypeOK, ApplyInv, NEW w \in Workers, Start(w) \/ Fault(w)
    PROVE  ApplyInv'
<1>0. FormInv /\ StoppedInv /\ SoundInv /\ undo' = undo /\ ustep' = ustep /\ marred' = marred
  BY DEF ApplyInv, Start, Load, CheckTable, Execute, Fail, Record, Finish, Fault, operatorVars
<1>1. db' = db => \A j \in Numbers : \A h \in DOMAIN Up(j) : Given(j, h) => Given(j, h)'
  BY DEF Given
<1>2. pc[w] \in {"run", "create"} => undo = 0
  BY <1>0 DEF StoppedInv
<1>3. undo = 0 => StoppedInv' /\ (SoundInv' <=> (~marred => AppliedInv' /\ RunsInv' /\ WholeInv'))
  BY <1>0 DEF StoppedInv, SoundInv
<1>4. ~marred => AppliedInv /\ RunsInv /\ WholeInv
  BY <1>0 DEF SoundInv
<1>5. todo[w] # {} => At(w) \in Numbers
  BY AtIsPending
<1>6. \A k \in unsaved[w] : k \in Numbers
  BY DEF TypeOK
<1>7. CASE Load(w)
  <2>1. /\ undo = 0 /\ UNCHANGED <<db, records>>
        /\ \A v \in Workers \ {w} : /\ pc'[v] = pc[v] /\ todo'[v] = todo[v]
                                    /\ step'[v] = step[v] /\ unsaved'[v] = unsaved[v]
        /\ step'[w] = 1 /\ unsaved'[w] = {} /\ todo'[w] = Pending
    BY <1>7 DEF Load, TypeOK
  <2>2. FormInv'
    BY <1>0, <2>1 DEF FormInv
  <2>3. todo'[w] # {} => Done(At(w), step[w])'
    <3>1. ASSUME todo'[w] # {} PROVE Done(At(w), step[w])'
      <4>1. At(w)' \in Numbers
        BY <2>1, <3>1, EarliestIsFirst DEF At, Pending
      <4>2. \A i \in DOMAIN Up(At(w)') : ~(i < 1)
        BY <4>1, VersionsAssumption
      <4> QED BY <2>1, <4>2 DEF Done
    <3> QED BY <3>1
  <2>4. ~marred => RunsInv'
    BY <1>1, <1>4, <2>1, <2>3, RunsKept
  <2> QED BY <1>0, <1>1, <1>3, <1>4, <2>1, <2>2, <2>4, StaysApplied, WholeStays DEF ApplyInv
<1>8. CASE CheckTable(w)
  <2>1. /\ pc[w] = "run" /\ todo[w] # {} /\ step[w] \in DOMAIN Up(At(w)) /\ Current(w).checks
        /\ UNCHANGED <<db, records, todo, unsaved>>
        /\ \/ /\ \E p \in Current(w).clashes : Exists(db, p)
              /\ step' = [step EXCEPT ![w] = @ + 1] /\ pc' = pc
           \/ pc' = [pc EXCEPT ![w] = "create"] /\ step' = step
    BY <1>8 DEF CheckTable
  <2>2. /\ \A v \in Workers \ {w} : /\ pc'[v] = pc[v] /\ todo'[v] = todo[v]
                                    /\ step'[v] = step[v] /\ unsaved'[v] = unsaved[v]
        /\ \A v \in Workers : step'[v] # 0
    BY <1>0, <2>1 DEF TypeOK, FormInv
  <2>3. PICK k, n : k = At(w) /\ n = step[w]
    OBVIOUS
  <2>4. k = At(w)' /\ k \in Numbers /\ n \in DOMAIN Up(k) /\ n \in Nat
    BY <1>5, <2>1, <2>3, VersionsAssumption DEF At, TypeOK
  <2>5. ASSUME ~marred PROVE Done(At(w), step[w])'
    <3>1. Done(k, n)
      BY <1>4, <2>1, <2>3, <2>5 DEF RunsInv
    <3>2. CASE step' = step
      <4>1. Done(k, n)'
        BY <2>1, <3>1 DEF Done, Given
      <4> QED BY <2>3, <2>4, <3>2, <4>1 DEF Done
    <3>3. CASE /\ \E p \in Current(w).clashes : Exists(db, p)
               /\ step' = [step EXCEPT ![w] = @ + 1]
      <4>1. Given(k, n)
        BY <1>4, <2>1, <2>3, <2>4, <2>5, <3>3 DEF WholeInv, Current
      <4>2. \A i \in DOMAIN Up(k) : i < n + 1 => i < n \/ i = n
        BY <2>4, VersionsAssumption
      <4>3. Done(k, n + 1)
        BY <3>1, <4>1, <4>2 DEF Done
      <4>4. step'[w] = n + 1
        BY <2>3, <3>3 DEF TypeOK
      <4>5. Done(k, n + 1)'
        BY <2>1, <4>3 DEF Done, Given
      <4> QED BY <2>4, <4>4, <4>5 DEF Done
    <3> QED BY <2>1, <3>2, <3>3
  <2>6. ~marred => RunsInv'
    <3>1. ASSUME ~marred, NEW j \in unsaved'[w] PROVE All(j)'
      <4>1. All(j)
        BY <1>4, <2>1, <3>1 DEF RunsInv
      <4> QED BY <2>1, <4>1 DEF All, Given
    <3> QED BY <1>1, <1>4, <2>1, <2>2, <2>5, <3>1, RunsKept
  <2>7. FormInv'
    BY <1>0, <2>1, <2>2 DEF FormInv
  <2> QED BY <1>0, <1>1, <1>2, <1>3, <1>4, <2>1, <2>6, <2>7, StaysApplied, WholeStays DEF ApplyInv
<1>9. CASE Execute(w)
  <2>1. /\ Ready(w) /\ Commit(w) /\ db' = Apply(db, Current(w))
        /\ pc' = [pc EXCEPT ![w] = "run"] /\ step' = [step EXCEPT ![w] = @ + 1] /\ todo' = todo
    BY <1>9 DEF Execute
  <2>2. todo[w] # {} /\ step[w] \in DOMAIN Up(At(w)) /\ pc[w] \in {"run", "create"}
    BY <2>1 DEF Ready
  <2>3. PICK k, n : k = At(w) /\ n = step[w]
    OBVIOUS
  <2>4. /\ k = At(w)' /\ k \in Numbers /\ n \in DOMAIN Up(k) /\ n \in Nat
        /\ db' = Apply(db, Up(k)[n]) /\ step'[w] = n + 1
    BY <1>5, <2>1, <2>2, <2>3, VersionsAssumption DEF At, TypeOK, Current
  <2>5. /\ db' = [t \in Tables |-> db'[t]] /\ Given(k, n)' /\ (WholeInv => WholeInv')
        /\ \A j \in Numbers : \A h \in DOMAIN Up(j) : Given(j, h) => Given(j, h)'
    BY <1>0, <2>4, UpGrows DEF FormInv
  <2>6. \/ records' = records /\ unsaved' = unsaved
        \/ Save(unsaved[w]) /\ unsaved' = [unsaved EXCEPT ![w] = {}]
    BY <2>1 DEF Commit
  <2>7. /\ \A v \in Workers \ {w} : /\ pc'[v] = pc[v] /\ todo'[v] = todo[v]
                                    /\ step'[v] = step[v] /\ unsaved'[v] = unsaved[v]
        /\ unsaved'[w] \subseteq unsaved[w]
    BY <2>1, <2>6 DEF TypeOK
  <2>8. ASSUME ~marred PROVE AppliedInv' /\ RunsInv'
    <3>1. AppliedInv /\ RunsInv /\ Done(k, n) /\ \A j \in unsaved[w] : All(j)
      BY <1>4, <2>2, <2>3, <2>8 DEF RunsInv
    <3>2. AppliedInv'
      <4>1. CASE records' = records
        BY <1>0, <2>5, <3>1, <4>1, StaysApplied
      <4>2. CASE Save(unsaved[w])
        <5>1. unsaved[w] \in SUBSET Numbers
          BY DEF TypeOK
        <5> QED BY <1>0, <2>5, <3>1, <4>2, <5>1, SavesApplied
      <4> QED BY <2>6, <4>1, <4>2
    <3>3. \A j \in unsaved'[w] : All(j)'
      BY <1>6, <2>5, <2>7, <3>1 DEF All
    <3>4. Done(At(w), step[w])'
      <4>1. \A i \in DOMAIN Up(k) : i < n + 1 => i < n \/ i = n
        BY <2>4, VersionsAssumption
      <4>2. Done(k, n + 1)'
        BY <2>4, <2>5, <3>1, <4>1 DEF Done
      <4> QED BY <2>4, <4>2 DEF Done
    <3> QED BY <2>5, <2>7, <3>1, <3>2, <3>3, <3>4, RunsKept
  <2>9. FormInv'
    <3>1. \A v \in Workers : step'[v] # 0
      BY <1>0, <2>4, <2>7 DEF FormInv
    <3> QED BY <1>0, <2>5, <3>1 DEF FormInv
  <2> QED BY <1>0, <1>2, <1>3, <1>4, <2>2, <2>5, <2>8, <2>9 DEF ApplyInv
<1>10. CASE Fail(w)
  <2>1. /\ pc[w] \in {"run", "create"} /\ Restart(w) /\ db' = db
        /\ records' = records \/ Save(unsaved[w])
    BY <1>10 DEF Fail, Ready
  <2>2. /\ FormInv' /\ pc'[w] = "load"
        /\ \A v \in Workers \ {w} : /\ pc'[v] = pc[v] /\ todo'[v] = todo[v]
                                    /\ step'[v] = step[v] /\ unsaved'[v] = unsaved[v]
    BY <1>0, <2>1, Restarted
  <2>3. ASSUME ~marred PROVE AppliedInv'
    <3>1. \A j \in unsaved[w] : All(j)
      BY <1>4, <2>1, <2>3 DEF RunsInv
    <3>2. unsaved[w] \in SUBSET Numbers
      BY DEF TypeOK
    <3>3. CASE records' = records
      BY <1>0, <1>1, <1>4, <2>1, <2>3, <3>3, StaysApplied
    <3>4. CASE Save(unsaved[w])
      BY <1>0, <1>1, <1>4, <2>1, <2>3, <3>1, <3>2, <3>4, SavesApplied
    <3> QED BY <2>1, <3>3, <3>4
  <2>4. ~marred => RunsInv'
    BY <1>1, <1>4, <2>1, <2>2, RunsKept
  <2> QED BY <1>0, <1>2, <1>3, <1>4, <2>1, <2>2, <2>3, <2>4, WholeStays DEF ApplyInv
<1>11. CASE Record(w)
  <2>1. /\ pc[w] = "run" /\ todo[w] # {} /\ step[w] \notin DOMAIN Up(At(w))
        /\ todo' = [todo EXCEPT ![w] = @ \ {At(w)}] /\ step' = [step EXCEPT ![w] = 1]
        /\ UNCHANGED <<db, pc>>
        /\ \/ unsaved' = [unsaved EXCEPT ![w] = @ \union {At(w)}] /\ records' = records
           \/ Save({At(w)}) /\ unsaved' = unsaved
    BY <1>11 DEF Record, Between
  <2>2. PICK k : k = At(w)
    OBVIOUS
  <2>3. k \in Numbers
    BY <1>5, <2>1, <2>2
  <2>4. ~marred => All(k)
    <3>1. ASSUME ~marred PROVE All(k)
      <4>1. Done(k, step[w])
        BY <1>4, <2>1, <2>2, <3>1 DEF RunsInv
      <4>2. step[w] \in Nat /\ step[w] # 0 /\ DOMAIN Up(k) = 1..Len(Up(k)) /\ Len(Up(k)) \in Nat
        BY <1>0, <2>3, VersionsAssumption DEF TypeOK, FormInv
      <4>3. \A i \in DOMAIN Up(k) : i < step[w]
        BY <2>1, <2>2, <4>2
      <4> QED BY <4>1, <4>3 DEF Done, All
    <3> QED BY <3>1
  <2>5. \A v \in Workers \ {w} : /\ pc'[v] = pc[v] /\ todo'[v] = todo[v]
                                 /\ step'[v] = step[v] /\ unsaved'[v] = unsaved[v]
    BY <2>1 DEF TypeOK
  <2>6. /\ todo'[w] \subseteq Numbers /\ step'[w] = 1
        /\ \A j \in unsaved'[w] : j \in unsaved[w] \/ j = k
    BY <2>1, <2>2 DEF TypeOK
  <2>7. ASSUME ~marred PROVE AppliedInv' /\ RunsInv'
    <3>1. AppliedInv /\ RunsInv /\ All(k) /\ \A j \in unsaved[w] : All(j)
      BY <1>4, <2>1, <2>4, <2>7 DEF RunsInv
    <3>2. AppliedInv'
      <4>1. CASE records' = records
        BY <1>0, <1>1, <2>1, <3>1, <4>1, StaysApplied
      <4>2. CASE Save({At(w)})
        <5>1. {k} \in SUBSET Numbers /\ Save({k})
          BY <2>2, <2>3, <4>2
        <5> QED BY <1>0, <1>1, <2>1, <3>1, <5>1, SavesApplied
      <4> QED BY <2>1, <4>1, <4>2
    <3>3. \A j \in unsaved'[w] : All(j)'
      BY <2>1, <2>6, <3>1 DEF All, Given
    <3>4. ASSUME todo'[w] # {} PROVE Done(At(w), step[w])'
      <4>1. At(w)' \in Numbers
        BY <2>6, <3>4, EarliestIsFirst DEF At
      <4>2. \A i \in DOMAIN Up(At(w)') : ~(i < 1)
        BY <4>1, VersionsAssumption
      <4> QED BY <2>6, <4>2 DEF Done
    <3> QED BY <1>1, <2>1, <2>5, <3>1, <3>2, <3>3, <3>4, RunsKept
  <2>8. FormInv'
    BY <1>0, <2>1, <2>5, <2>6 DEF FormInv
  <2> QED BY <1>0, <1>2, <1>3, <1>4, <2>1, <2>7, <2>8, WholeStays DEF ApplyInv
<1>12. CASE Finish(w)
  <2>1. /\ pc[w] = "run" /\ Save(unsaved[w]) /\ UNCHANGED <<db, todo, step>>
        /\ pc' = [pc EXCEPT ![w] = "serve"] /\ unsaved' = [unsaved EXCEPT ![w] = {}]
    BY <1>12 DEF Finish
  <2>2. /\ pc'[w] = "serve"
        /\ \A v \in Workers \ {w} : /\ pc'[v] = pc[v] /\ todo'[v] = todo[v]
                                    /\ step'[v] = step[v] /\ unsaved'[v] = unsaved[v]
    BY <2>1 DEF TypeOK
  <2>3. ASSUME ~marred PROVE AppliedInv'
    <3>1. \A j \in unsaved[w] : All(j)
      BY <1>4, <2>1, <2>3 DEF RunsInv
    <3>2. unsaved[w] \in SUBSET Numbers
      BY DEF TypeOK
    <3> QED BY <1>0, <1>1, <1>4, <2>1, <2>3, <3>1, <3>2, SavesApplied
  <2>4. ~marred => RunsInv'
    BY <1>1, <1>4, <2>1, <2>2, RunsKept
  <2>5. FormInv'
    BY <1>0, <2>1 DEF FormInv
  <2> QED BY <1>0, <1>2, <1>3, <1>4, <2>1, <2>3, <2>4, <2>5, WholeStays DEF ApplyInv
<1>13. CASE Fault(w)
  <2>1. Restart(w) /\ UNCHANGED <<db, records>>
    BY <1>13 DEF Fault
  <2>2. /\ FormInv' /\ pc'[w] = "load"
        /\ \A v \in Workers \ {w} : /\ pc'[v] = pc[v] /\ todo'[v] = todo[v]
                                    /\ step'[v] = step[v] /\ unsaved'[v] = unsaved[v]
    BY <1>0, <2>1, Restarted
  <2>3. StoppedInv'
    BY <1>0, <2>1, <2>2 DEF StoppedInv, Recorded
  <2>4. ~marred => RunsInv'
    BY <1>1, <1>4, <2>1, <2>2, RunsKept
  <2>5. undo # 0 /\ ustep = 1 /\ ~marred => All(undo)'
    BY <1>0, <2>1 DEF SoundInv, All, Given
  <2>6. ~marred => AppliedInv' /\ WholeInv'
    BY <1>0, <1>1, <1>4, <2>1, StaysApplied, WholeStays
  <2>7. SoundInv'
    BY <1>0, <2>4, <2>5, <2>6 DEF SoundInv
  <2> QED BY <2>2, <2>3, <2>7 DEF ApplyInv
<1> QED BY <1>7, <1>8, <1>9, <1>10, <1>11, <1>12, <1>13 DEF Start

\* The operator undoes the last migration: those before it keep what they made.
LEMMA OperatorApplies ==
    ASSUME TypeOK, ApplyInv, Operate
    PROVE  ApplyInv'
<1>0. FormInv /\ StoppedInv /\ SoundInv /\ step' = step /\ ustep \in Nat
  BY DEF ApplyInv, Operate, BeginRevert, ExecuteDown, RefuseDown, EndRevert, workerVars, TypeOK
<1>1. db' = db => \A j \in Numbers : All(j) => All(j)'
  BY DEF All, Given
<1>2. ~marred => AppliedInv /\ RunsInv /\ WholeInv /\ (undo # 0 /\ ustep = 1 => All(undo))
  BY <1>0 DEF SoundInv
<1>3. Recorded \subseteq Numbers /\ 0 \notin Numbers
  BY VersionsAssumption DEF Recorded, Numbers
<1>4. undo # 0 => \A w \in Workers : pc[w] = "load"
  BY <1>0 DEF StoppedInv
<1>5. (\A w \in Workers : pc'[w] = "load") => RunsInv'
  BY DEF RunsInv
<1>6. CASE BeginRevert
  <2>1. /\ undo = 0 /\ Recorded # {} /\ undo' = Latest(Recorded) /\ ustep' = 1
        /\ \A w \in Workers : pc'[w] = "load"
        /\ UNCHANGED <<db, records, marred>>
    BY <1>6 DEF BeginRevert
  <2>2. Recorded' = Recorded /\ undo' \in Recorded /\ \A k \in Recorded : k <= undo'
    BY <1>3, <2>1, LatestIsLast DEF Recorded
  <2>3. FormInv' /\ StoppedInv'
    BY <1>0, <2>1, <2>2 DEF FormInv, StoppedInv
  <2>4. ASSUME ~marred PROVE AppliedInv' /\ All(undo)'
    <3>1. \A k \in Recorded : All(k)
      BY <1>2, <1>3, <2>1, <2>4 DEF AppliedInv
    <3>2. PICK u : u = undo'
      OBVIOUS
    <3>3. \A k \in Recorded : All(k)'
      BY <1>1, <1>3, <2>1, <3>1
    <3>4. All(u)'
      BY <2>2, <3>2, <3>3
    <3> QED BY <2>2, <3>2, <3>3, <3>4 DEF AppliedInv, All
  <2>5. SoundInv'
    BY <1>2, <1>5, <2>1, <2>4, WholeStays DEF SoundInv
  <2> QED BY <2>3, <2>5 DEF ApplyInv
<1>7. CASE ExecuteDown
  <2>1. /\ undo # 0 /\ ustep \in DOMAIN Down(undo) /\ db' = Apply(db, Down(undo)[ustep])
        /\ ustep' = ustep + 1 /\ marred' = (marred \/ undo \in Lossy)
        /\ UNCHANGED <<records, pc, undo>>
    BY <1>7 DEF ExecuteDown, workerVars
  <2>2. undo \in Numbers /\ undo \in Nat /\ ustep' # 0 /\ ustep' # 1
    BY <1>0, <2>1, VersionsAssumption DEF TypeOK, FormInv, Numbers
  <2>3. FormInv' /\ StoppedInv'
    <3>1. db' = [t \in Tables |-> db'[t]]
      BY <1>0, <2>1 DEF FormInv, Apply
    <3>2. Recorded' = Recorded
      BY <2>1 DEF Recorded
    <3> QED BY <1>0, <2>1, <2>2, <3>1, <3>2 DEF FormInv, StoppedInv
  <2>4. ASSUME ~marred, undo \notin Lossy PROVE AppliedInv' /\ WholeInv'
    <3>1. /\ \A j \in Numbers : j < undo => \A i \in DOMAIN Up(j) : Given(j, i) => Given(j, i)'
          /\ WholeInv => WholeInv'
      <4>1. undo \in Numbers \ Lossy /\ db = [t \in Tables |-> db[t]]
        BY <1>0, <2>2, <2>4 DEF FormInv
      <4> QED BY <2>1, <4>1, DownShrinks
    <3>2. ASSUME NEW k \in Recorded \ {undo} PROVE All(k)'
      <4>1. k \in Numbers /\ k < undo
        BY <1>0, <1>3, <2>1, <2>2, <3>2, VersionsAssumption DEF StoppedInv, Numbers
      <4>2. All(k)
        BY <1>2, <2>4, <3>2 DEF AppliedInv
      <4> QED BY <3>1, <4>1, <4>2 DEF All
    <3>3. AppliedInv'
      BY <2>1, <3>2 DEF AppliedInv, Recorded
    <3> QED BY <1>2, <2>4, <3>1, <3>3
  <2>5. SoundInv'
    BY <1>4, <1>5, <2>1, <2>2, <2>4 DEF SoundInv
  <2> QED BY <2>3, <2>5 DEF ApplyInv
<1>8. CASE RefuseDown
  <2>1. /\ undo # 0 /\ undo' = 0 /\ ustep' = 1 /\ marred' = (marred \/ ustep > 1)
        /\ UNCHANGED <<db, records, pc>>
    BY <1>8 DEF RefuseDown, workerVars
  <2>2. FormInv' /\ StoppedInv'
    BY <1>0, <2>1 DEF FormInv, StoppedInv
  <2>3. ASSUME ~marred, ~(ustep > 1) PROVE AppliedInv'
    <3>1. ustep = 1
      BY <1>0, <2>3 DEF FormInv
    <3>2. \A k \in Recorded : All(k)
      BY <1>2, <2>1, <2>3, <3>1 DEF AppliedInv
    <3>3. \A k \in Recorded : All(k)'
      BY <1>1, <1>3, <2>1, <3>2
    <3> QED BY <2>1, <3>3 DEF AppliedInv, Recorded
  <2>4. SoundInv'
    BY <1>2, <1>4, <1>5, <2>1, <2>3, WholeStays DEF SoundInv
  <2> QED BY <2>2, <2>4 DEF ApplyInv
<1>9. CASE EndRevert
  <2>1. /\ undo # 0 /\ undo' = 0 /\ ustep' = 1
        /\ records' = [records EXCEPT ![undo] = 0]
        /\ UNCHANGED <<db, pc, marred>>
    BY <1>9 DEF EndRevert, workerVars
  <2>2. FormInv' /\ StoppedInv'
    BY <1>0, <2>1 DEF FormInv, StoppedInv
  <2>3. Recorded' = Recorded \ {undo}
    BY <2>1 DEF Recorded, TypeOK
  <2>4. ASSUME ~marred PROVE AppliedInv'
    <3>1. \A k \in Recorded \ {undo} : All(k)'
      BY <1>1, <1>2, <1>3, <2>1, <2>4 DEF AppliedInv
    <3> QED BY <2>3, <3>1 DEF AppliedInv
  <2>5. SoundInv'
    BY <1>2, <1>4, <1>5, <2>1, <2>4, WholeStays DEF SoundInv
  <2> QED BY <2>2, <2>5 DEF ApplyInv
<1> QED BY <1>6, <1>7, <1>8, <1>9 DEF Operate

LEMMA NextApplyInv == TypeOK /\ ApplyInv /\ [Next]_vars => ApplyInv'
<1> SUFFICES ASSUME TypeOK, ApplyInv, [Next]_vars PROVE ApplyInv'
  OBVIOUS
<1>1. CASE UNCHANGED vars
  <2>1. UNCHANGED <<db, records, pc, todo, step, unsaved, undo, ustep, marred>>
    BY <1>1 DEF vars, workerVars, operatorVars
  <2> QED BY <2>1 DEF ApplyInv, FormInv, StoppedInv, SoundInv, AppliedInv, RunsInv, WholeInv,
                      Recorded, All, Done, Given, At, Exists
<1>2. CASE Next
  BY <1>2, WorkerApplies, OperatorApplies DEF Next
<1> QED BY <1>1, <1>2

\* A migration that has a row has done all its work, whichever workers ran it,
\* skipped tables it found, failed or died, and whatever was undone since, as long
\* as no down was refused halfway or dropped what was there before.
THEOREM RecordedStaysApplied == Spec => []RecordedIsApplied
<1>1. ApplyInv => RecordedIsApplied
  BY DEF ApplyInv, SoundInv, AppliedInv, All, RecordedIsApplied
<1> QED BY <1>1, InitTypeOK, NextTypeOK, InitApplyInv, NextApplyInv, PTL DEF Spec

-----------------------------------------------------------------------------
(* What is recorded is in order, and once *)

Running(w) == pc[w] \in {"run", "create"}

\* A worker has gone through the migrations in order, and its open transaction
\* has the records the table lacks.
LinedUp(w) ==
    /\ \A k \in Numbers : k \in todo[w] \/ k \in unsaved[w] \/ k \in Recorded
    /\ \A k \in unsaved[w], j \in todo[w] : k < j
    /\ open[w] \/ unsaved[w] = {}

LinesInv == NoGaps /\ \A w \in Workers : Running(w) => LinedUp(w)

\* The worker that will record k, as the one that got past its statement i.
Holds(w, k, i) == Running(w) /\ (k \in unsaved[w] \/ Past(w, k, i))

\* One worker gets past a statement that cannot be run again, before the
\* migration is recorded; those that still have to run it find what it added.
Guarded(k, i) ==
    /\ records[k] <= 1
    /\ records[k] = 1 => Given(k, i) \/ \A w \in Workers : Running(w) => k \notin todo[w]
    /\ \A w \in Workers : Holds(w, k, i) =>
        Given(k, i) /\ records[k] = 0 /\ \A v \in Workers : Holds(v, k, i) => v = w

HeldInv == \A k \in Numbers : \A i \in DOMAIN Up(k) : Exclusive(Up(k)[i]) => Guarded(k, i)

\* All but w are where they were.
OthersStay(w) ==
    \A v \in Workers \ {w} : /\ pc'[v] = pc[v] /\ todo'[v] = todo[v] /\ step'[v] = step[v]
                             /\ unsaved'[v] = unsaved[v] /\ open'[v] = open[v]

LEMMA GapsClosed ==
    ASSUME TypeOK
    PROVE  NoGaps <=> \A k \in Recorded : k # 1 => k - 1 \in Recorded
<1>1. \A k \in Numbers : k # 1 => k - 1 \in Numbers
  BY VersionsAssumption DEF Numbers
<1> QED BY <1>1 DEF NoGaps, Recorded

LEMMA InitOrdered == Init => LinesInv /\ HeldInv
<1> SUFFICES ASSUME Init PROVE LinesInv /\ HeldInv
  OBVIOUS
<1>1. PICK v \in Starts : records = [k \in Numbers |-> IF k <= v THEN 1 ELSE 0]
  BY DEF Init
<1>2. v \in Nat /\ Numbers \subseteq Nat
  BY MigrationsAssumption, VersionsAssumption DEF Numbers
<1>3. NoGaps
  <2>1. \A k \in Numbers \ {1} : k - 1 \in Numbers
    BY VersionsAssumption DEF Numbers
  <2> QED BY <1>1, <1>2, <2>1 DEF NoGaps
<1>4. \A w \in Workers : ~Running(w)
  BY DEF Init, Running
<1>5. \A k \in Numbers : records[k] <= 1
  BY <1>1
<1> QED BY <1>3, <1>4, <1>5 DEF LinesInv, HeldInv, Guarded, Holds

LEMMA LinesKept ==
    ASSUME LinesInv, NEW w \in Workers, OthersStay(w), Recorded \subseteq Recorded',
           NoGaps', Running(w)' => LinedUp(w)'
    PROVE  LinesInv'
<1> SUFFICES ASSUME NEW v \in Workers \ {w}, Running(v)' PROVE LinedUp(v)'
  BY DEF LinesInv
<1>1. Running(v) /\ todo'[v] = todo[v] /\ unsaved'[v] = unsaved[v] /\ open'[v] = open[v]
  BY DEF OthersStay, Running
<1>2. LinedUp(v)
  BY <1>1 DEF LinesInv
<1> QED BY <1>1, <1>2 DEF LinedUp

\* A worker that commits fills in the numbers up to the one it is at.
LEMMA SavesInOrder ==
    ASSUME TypeOK, TypeOK', LinesInv, NEW w \in Workers, Running(w), Save(unsaved[w])
    PROVE  NoGaps' /\ Recorded' = Recorded \union unsaved[w]
<1>1. Recorded' = Recorded \union unsaved[w]
  BY SaveIsTyped DEF TypeOK
<1>2. LinedUp(w) /\ NoGaps
  BY DEF LinesInv
<1>3. ASSUME NEW k \in Recorded', k # 1 PROVE k - 1 \in Recorded'
  <2>1. CASE k \in Recorded
    BY <1>1, <1>2, <1>3, <2>1, GapsClosed
  <2>2. CASE k \in unsaved[w]
    <3>1. k \in Numbers
      BY <2>2 DEF TypeOK
    <3>2. k \in Nat /\ k - 1 \in Numbers /\ ~(k < k - 1)
      BY <1>3, <3>1, VersionsAssumption DEF Numbers
    <3>3. k - 1 \notin todo[w]
      BY <1>2, <2>2, <3>2 DEF LinedUp
    <3> QED BY <1>1, <1>2, <3>2, <3>3 DEF LinedUp
  <2> QED BY <1>1, <2>1, <2>2
<1>4. NoGaps'
  <2>1. NoGaps' <=> \A k \in Recorded' : k # 1 => k - 1 \in Recorded'
    <3>1. \A k \in Numbers : k # 1 => k - 1 \in Numbers
      BY VersionsAssumption DEF Numbers
    <3> QED BY <3>1 DEF NoGaps, Recorded
  <2> QED BY <1>3, <2>1
<1> QED BY <1>1, <1>4

LEMMA HoldsStay ==
    ASSUME NEW w \in Workers, OthersStay(w), NEW v \in Workers \ {w}, NEW k, NEW i
    PROVE  /\ Holds(v, k, i)' <=> Holds(v, k, i)
           /\ (Running(v)' /\ k \in todo'[v]) <=> (Running(v) /\ k \in todo[v])
BY DEF OthersStay, Holds, Running, Past, At

\* A worker moves without getting past i, and without recording k.
LEMMA HeldKept ==
    ASSUME NEW k, NEW i, Guarded(k, i), NEW w \in Workers, OthersStay(w),
           Given(k, i) => Given(k, i)', records'[k] = records[k],
           Holds(w, k, i)' => Holds(w, k, i),
           Running(w)' /\ k \in todo'[w] => (Running(w) /\ k \in todo[w]) \/ records[k] = 0
    PROVE  Guarded(k, i)'
<1>1. \A v \in Workers : Holds(v, k, i)' => Holds(v, k, i)
  BY HoldsStay
<1>2. records'[k] = 1 => Given(k, i)' \/ \A v \in Workers : Running(v)' => k \notin todo'[v]
  <2> SUFFICES ASSUME records[k] = 1, ~Given(k, i)', NEW v \in Workers, Running(v)', k \in todo'[v]
               PROVE  FALSE
    OBVIOUS
  <2>1. \A u \in Workers : Running(u) => k \notin todo[u]
    BY DEF Guarded
  <2>2. CASE v = w
    BY <2>1, <2>2
  <2>3. CASE v # w
    BY <2>1, <2>3, HoldsStay
  <2> QED BY <2>2, <2>3
<1>3. \A v \in Workers : Holds(v, k, i) =>
        Given(k, i) /\ records[k] = 0 /\ \A u \in Workers : Holds(u, k, i) => u = v
  BY DEF Guarded
<1>4. records[k] <= 1
  BY DEF Guarded
<1> QED BY <1>1, <1>2, <1>3, <1>4 DEF Guarded

\* A worker records k, and has done with it.
LEMMA HeldSaved ==
    ASSUME NEW k, NEW i, Guarded(k, i), NEW w \in Workers, OthersStay(w),
           Given(k, i) => Given(k, i)', records'[k] = records[k] + 1,
           Holds(w, k, i), ~Holds(w, k, i)'
    PROVE  Guarded(k, i)'
<1>1. Given(k, i)' /\ records'[k] = 1
  BY DEF Guarded
<1>2. \A v \in Workers : ~Holds(v, k, i)'
  BY HoldsStay DEF Guarded
<1> QED BY <1>1, <1>2 DEF Guarded

\* A worker gets past i: no other one did, and nobody has recorded k.
LEMMA HeldTaken ==
    ASSUME TypeOK, NEW k \in Numbers, NEW i, Guarded(k, i), NEW w \in Workers, OthersStay(w),
           ~Given(k, i), Given(k, i)', records'[k] = records[k], Running(w), k \in todo[w]
    PROVE  Guarded(k, i)'
<1>1. records[k] = 0
  BY DEF Guarded, TypeOK
<1>2. \A v \in Workers : ~Holds(v, k, i)
  BY DEF Guarded
<1>3. \A v \in Workers : Holds(v, k, i)' => v = w
  BY <1>2, HoldsStay
<1> QED BY <1>1, <1>3 DEF Guarded

\* What a move of one worker has to meet, and what it leaves.
LEMMA StartLines ==
    ASSUME TypeOK, TypeOK', LinesInv, NEW w \in Workers, Start(w) \/ Fault(w)
    PROVE  LinesInv'
<1>0. /\ NoGaps /\ (Running(w) => LinedUp(w))
      /\ (records' = records => NoGaps' /\ Recorded' = Recorded)
  BY DEF LinesInv, NoGaps, Recorded
<1>1. CASE Load(w)
  <2>1. /\ OthersStay(w) /\ records' = records /\ unsaved'[w] = {}
        /\ todo'[w] = Numbers \ Recorded
    BY <1>1 DEF Load, TypeOK, OthersStay, Pending
  <2>2. LinedUp(w)'
    BY <1>0, <2>1 DEF LinedUp
  <2> QED BY <1>0, <2>1, <2>2, LinesKept
<1>2. CASE CheckTable(w)
  <2>1. /\ OthersStay(w) /\ UNCHANGED <<records, todo, open, unsaved>> /\ Running(w)
    BY <1>2 DEF CheckTable, TypeOK, OthersStay, Running
  <2>2. LinedUp(w)'
    BY <1>0, <2>1 DEF LinedUp
  <2> QED BY <1>0, <2>1, <2>2, LinesKept
<1>3. CASE Execute(w)
  <2>1. Running(w) /\ todo' = todo /\ OthersStay(w)
    BY <1>3 DEF Execute, Ready, Commit, TypeOK, OthersStay, Running
  <2>2. CASE UNCHANGED <<records, open, unsaved>>
    <3>1. LinedUp(w)'
      BY <1>0, <2>1, <2>2 DEF LinedUp
    <3> QED BY <1>0, <2>1, <2>2, <3>1, LinesKept
  <2>3. CASE Save(unsaved[w]) /\ unsaved' = [unsaved EXCEPT ![w] = {}]
    <3>1. NoGaps' /\ Recorded' = Recorded \union unsaved[w]
      BY <2>1, <2>3, SavesInOrder
    <3>2. unsaved'[w] = {}
      BY <2>3 DEF TypeOK
    <3>3. LinedUp(w)'
      BY <1>0, <2>1, <3>1, <3>2 DEF LinedUp
    <3> QED BY <2>1, <3>1, <3>3, LinesKept
  <2> QED BY <1>3, <2>2, <2>3 DEF Execute, Commit
<1>4. CASE Fail(w)
  <2>1. Running(w) /\ Restart(w) /\ (records' = records \/ Save(unsaved[w]))
    BY <1>4 DEF Fail, Ready, Running
  <2>2. OthersStay(w) /\ ~Running(w)'
    BY <2>1 DEF Restart, TypeOK, OthersStay, Running
  <2> QED BY <1>0, <2>1, <2>2, SavesInOrder, LinesKept
<1>5. CASE Record(w)
  <2>1. /\ Running(w) /\ todo[w] # {} /\ todo' = [todo EXCEPT ![w] = @ \ {At(w)}]
        /\ UNCHANGED <<pc, open>>
        /\ \/ unsaved' = [unsaved EXCEPT ![w] = @ \union {At(w)}] /\ records' = records /\ open[w]
           \/ Save({At(w)}) /\ unsaved' = unsaved /\ ~open[w]
    BY <1>5 DEF Record, Between, Running
  <2>2. OthersStay(w)
    BY <1>5 DEF Record, TypeOK, OthersStay
  <2>3. PICK k : k = At(w)
    OBVIOUS
  <2>4. /\ k \in Numbers /\ k \in todo[w] /\ (\A j \in todo[w] : k <= j)
        /\ k \in Nat /\ \A j \in todo[w] : j \in Nat
    <3>1. k \in Numbers /\ k \in todo[w] /\ \A j \in todo[w] : k <= j
      BY <2>1, <2>3, AtIsPending
    <3>2. todo[w] \subseteq Nat
      BY VersionsAssumption DEF TypeOK, Numbers
    <3> QED BY <3>1, <3>2
  <2>5. todo'[w] = todo[w] \ {k} /\ \A j \in todo'[w] : k < j
    BY <2>1, <2>3, <2>4 DEF TypeOK
  <2>6. LinedUp(w)
    BY <1>0, <2>1
  <2>7. CASE unsaved' = [unsaved EXCEPT ![w] = @ \union {At(w)}] /\ records' = records /\ open[w]
    <3>1. unsaved'[w] = unsaved[w] \union {k} /\ open'[w] /\ Recorded' = Recorded
      BY <1>0, <2>1, <2>3, <2>7 DEF TypeOK
    <3>2. LinedUp(w)'
      BY <2>5, <2>6, <3>1 DEF LinedUp
    <3> QED BY <1>0, <2>2, <2>7, <3>2, LinesKept
  <2>8. CASE Save({At(w)}) /\ unsaved' = unsaved /\ ~open[w]
    <3>1. unsaved[w] = {} /\ unsaved'[w] = {} /\ Save({k}) /\ {k} \in SUBSET Numbers
      BY <2>3, <2>4, <2>6, <2>8 DEF LinedUp
    <3>2. Recorded' = Recorded \union {k}
      BY <3>1, SaveIsTyped
    <3>3. k # 1 => k - 1 \in Recorded
      <4>1. ASSUME k # 1 PROVE k - 1 \in Recorded
        <5>1. k - 1 \in Numbers /\ ~(k <= k - 1)
          BY <2>4, <4>1, VersionsAssumption DEF Numbers
        <5> QED BY <2>4, <2>6, <3>1, <5>1 DEF LinedUp
      <4> QED BY <4>1
    <3>4. NoGaps'
      <4>1. \A j \in Recorded : j # 1 => j - 1 \in Recorded
        BY <1>0, GapsClosed
      <4>2. \A j \in Recorded' : j # 1 => j - 1 \in Recorded'
        BY <3>2, <3>3, <4>1
      <4>3. \A j \in Numbers : j # 1 => j - 1 \in Numbers
        BY VersionsAssumption DEF Numbers
      <4> QED BY <4>2, <4>3 DEF NoGaps, Recorded
    <3>5. LinedUp(w)'
      BY <2>5, <2>6, <3>1, <3>2 DEF LinedUp
    <3> QED BY <2>2, <3>2, <3>4, <3>5, LinesKept
  <2> QED BY <2>1, <2>7, <2>8
<1>6. CASE Finish(w)
  <2>1. Running(w) /\ Save(unsaved[w]) /\ OthersStay(w) /\ ~Running(w)'
    BY <1>6 DEF Finish, TypeOK, OthersStay, Running
  <2> QED BY <2>1, SavesInOrder, LinesKept
<1>7. CASE Fault(w)
  <2>1. records' = records /\ OthersStay(w) /\ ~Running(w)'
    BY <1>7 DEF Fault, Restart, TypeOK, OthersStay, Running
  <2> QED BY <1>0, <2>1, LinesKept
<1> QED BY <1>1, <1>2, <1>3, <1>4, <1>5, <1>6, <1>7 DEF Start

\* What cannot be run again fails where its own work is found.
LEMMA ExclusiveIsRefused ==
    ASSUME NEW k \in Numbers, NEW i \in DOMAIN Up(k), Exclusive(Up(k)[i]), Given(k, i)
    PROVE  ~Can(db, Up(k)[i])
<1>1. PICK p \in Up(k)[i].clashes : TRUE
  BY DEF Exclusive
<1>2. PICK o \in Up(k)[i].adds : Matches(o, p) /\ p.table = Up(k)[i].table
  BY UpOnlyAdds
<1> QED BY <1>1, <1>2 DEF Can, Exists, Given

\* The rows of k after a worker has saved those of ks.
LEMMA SavedRows ==
    ASSUME TypeOK, NEW ks, Save(ks), NEW k \in Numbers
    PROVE  records'[k] = IF k \in ks THEN records[k] + 1 ELSE records[k]
BY DEF Save

LEMMA StartHeld ==
    ASSUME TypeOK, TypeOK', FormInv, LinesInv, HeldInv, NEW w \in Workers, Start(w) \/ Fault(w)
    PROVE  HeldInv'
<1> SUFFICES ASSUME NEW k \in Numbers, NEW i \in DOMAIN Up(k), Exclusive(Up(k)[i])
             PROVE  Guarded(k, i)'
  BY DEF HeldInv
<1>0. Guarded(k, i) /\ (db' = db => (Given(k, i) => Given(k, i)')) /\ i \in Nat
  BY VersionsAssumption DEF HeldInv, Given
<1>1. CASE Load(w)
  <2>1. OthersStay(w) /\ UNCHANGED <<db, records>>
    BY <1>1 DEF Load, TypeOK, OthersStay
  <2>2. unsaved'[w] = {} /\ step'[w] = 1 /\ todo'[w] = Pending
    BY <1>1 DEF Load, TypeOK
  <2>3. ~Holds(w, k, i)'
    <3>1. ~(1 > i)
      BY VersionsAssumption
    <3> QED BY <2>2, <3>1 DEF Holds, Past
  <2>4. k \in todo'[w] => records[k] = 0
    BY <2>2 DEF Pending, Recorded, TypeOK
  <2> QED BY <1>0, <2>1, <2>3, <2>4, HeldKept
<1>2. CASE CheckTable(w)
  <2>1. /\ OthersStay(w) /\ UNCHANGED <<db, records, todo, unsaved>> /\ pc[w] = "run"
        /\ Current(w).checks /\ (step'[w] = step[w] \/ step'[w] = step[w] + 1)
    BY <1>2 DEF CheckTable, TypeOK, OthersStay
  <2>2. Past(w, k, i)' => Past(w, k, i)
    <3>1. ASSUME Past(w, k, i)' PROVE Past(w, k, i)
      <4>1. At(w) = k /\ todo[w] # {} /\ step'[w] > i
        BY <2>1, <3>1 DEF Past, At
      <4>2. step[w] # i
        BY <2>1, <4>1 DEF Current, Exclusive
      <4>3. step[w] > i
        BY <1>0, <2>1, <4>1, <4>2 DEF TypeOK
      <4> QED BY <2>1, <4>1, <4>3 DEF Past
    <3> QED BY <3>1
  <2>3. Holds(w, k, i)' => Holds(w, k, i)
    BY <2>1, <2>2 DEF Holds, Running
  <2> QED BY <1>0, <2>1, <2>3, HeldKept DEF Running
<1>3. CASE Execute(w)
  <2>1. /\ Ready(w) /\ Can(db, Current(w)) /\ db' = Apply(db, Current(w)) /\ Commit(w)
        /\ todo' = todo /\ step' = [step EXCEPT ![w] = @ + 1]
    BY <1>3 DEF Execute
  <2>2. OthersStay(w)
    BY <1>3 DEF Execute, Commit, TypeOK, OthersStay
  <2>3. /\ todo[w] # {} /\ step[w] \in DOMAIN Up(At(w)) /\ Running(w)
        /\ step'[w] = step[w] + 1 /\ step[w] \in Nat
    BY <2>1 DEF Ready, TypeOK, Running
  <2>4. PICK j, n : j = At(w) /\ n = step[w]
    OBVIOUS
  <2>5. j \in Numbers /\ j \in todo[w] /\ n \in DOMAIN Up(j) /\ db' = Apply(db, Up(j)[n])
    BY <2>1, <2>3, <2>4, AtIsPending DEF Current
  <2>6. Given(j, n)' /\ (Given(k, i) => Given(k, i)')
    BY <2>5, UpGrows DEF FormInv
  <2>7. \/ records' = records /\ unsaved' = unsaved
        \/ Save(unsaved[w]) /\ unsaved'[w] = {}
    BY <2>1 DEF Commit, TypeOK
  <2>8. CASE j = k /\ n = i
    <3>1. ~Given(k, i)
      BY <2>1, <2>4, <2>8, ExclusiveIsRefused DEF Current
    <3>2. k \notin unsaved[w]
      BY <1>0, <2>3, <3>1 DEF Guarded, Holds
    <3>3. records'[k] = records[k]
      BY <2>7, <3>2, SavedRows
    <3> QED BY <1>0, <2>2, <2>3, <2>5, <2>6, <2>8, <3>1, <3>3, HeldTaken
  <2>9. CASE ~(j = k /\ n = i)
    <3>1. Past(w, k, i)' => Past(w, k, i)
      <4>1. ASSUME Past(w, k, i)' PROVE Past(w, k, i)
        <5>1. At(w) = k /\ step'[w] > i
          BY <2>1, <4>1 DEF Past, At
        <5>2. step[w] # i
          BY <2>4, <2>9, <5>1
        <5>3. step[w] > i
          BY <1>0, <2>3, <5>1, <5>2
        <5> QED BY <2>3, <5>1, <5>3 DEF Past, Running
      <4> QED BY <4>1
    <3>2. CASE records'[k] = records[k] /\ unsaved'[w] \subseteq unsaved[w]
      <4>1. Holds(w, k, i)' => Holds(w, k, i)
        BY <2>3, <3>1, <3>2 DEF Holds
      <4> QED BY <1>0, <2>1, <2>2, <2>3, <2>6, <3>2, <4>1, HeldKept
    <3>3. CASE k \in unsaved[w] /\ records'[k] = records[k] + 1 /\ unsaved'[w] = {}
      <4>1. Holds(w, k, i)
        BY <2>3, <3>3 DEF Holds
      <4>2. k \notin todo[w]
        <5>1. \A h \in todo[w] : k < h
          BY <2>3, <3>3 DEF LinesInv, LinedUp
        <5> QED BY <5>1, VersionsAssumption DEF Numbers
      <4>3. ~Holds(w, k, i)'
        <5>1. ~Past(w, k, i)
          BY <2>4, <2>5, <4>2 DEF Past
        <5> QED BY <3>1, <3>3, <5>1 DEF Holds
      <4> QED BY <1>0, <2>2, <2>6, <3>3, <4>1, <4>3, HeldSaved
    <3>4. \/ records'[k] = records[k] /\ unsaved'[w] \subseteq unsaved[w]
          \/ k \in unsaved[w] /\ records'[k] = records[k] + 1 /\ unsaved'[w] = {}
      BY <2>7, SavedRows
    <3> QED BY <3>2, <3>3, <3>4
  <2> QED BY <2>8, <2>9
<1>4. CASE Fail(w) \/ Finish(w) \/ Fault(w)
  <2>1. OthersStay(w) /\ ~Running(w)' /\ db' = db
    BY <1>4 DEF Fail, Finish, Fault, Restart, TypeOK, OthersStay, Running
  <2>2. ~Holds(w, k, i)'
    BY <2>1 DEF Holds
  <2>3. records' = records \/ (Running(w) /\ Save(unsaved[w]))
    BY <1>4 DEF Fail, Finish, Fault, Ready, Running
  <2>4. CASE records'[k] = records[k]
    BY <1>0, <2>1, <2>2, <2>4, HeldKept
  <2>5. CASE Running(w) /\ k \in unsaved[w] /\ records'[k] = records[k] + 1
    <3>1. Holds(w, k, i)
      BY <2>5 DEF Holds
    <3> QED BY <1>0, <2>1, <2>2, <2>5, <3>1, HeldSaved
  <2> QED BY <2>3, <2>4, <2>5, SavedRows
<1>5. CASE Record(w)
  <2>1. /\ Running(w) /\ todo[w] # {} /\ step[w] \notin DOMAIN Up(At(w))
        /\ todo' = [todo EXCEPT ![w] = @ \ {At(w)}] /\ step' = [step EXCEPT ![w] = 1]
        /\ UNCHANGED <<db, pc, open>>
        /\ \/ unsaved' = [unsaved EXCEPT ![w] = @ \union {At(w)}] /\ records' = records /\ open[w]
           \/ Save({At(w)}) /\ unsaved' = unsaved /\ ~open[w]
    BY <1>5 DEF Record, Between, Running
  <2>2. OthersStay(w) /\ step'[w] = 1 /\ todo'[w] = todo[w] \ {At(w)}
    BY <1>5 DEF Record, TypeOK, OthersStay
  <2>3. At(w) = k => Past(w, k, i)
    <3>1. ASSUME At(w) = k PROVE Past(w, k, i)
      <4>1. step[w] \in Nat /\ step[w] # 0 /\ DOMAIN Up(k) = 1..Len(Up(k)) /\ Len(Up(k)) \in Nat
        BY VersionsAssumption DEF TypeOK, FormInv
      <4>2. step[w] > i
        BY <2>1, <3>1, <4>1
      <4> QED BY <2>1, <3>1, <4>2 DEF Past, Running
    <3> QED BY <3>1
  <2>4. ~Past(w, k, i)'
    <3>1. ~(1 > i)
      BY VersionsAssumption
    <3> QED BY <2>2, <3>1 DEF Past
  <2>5. Running(w)' /\ k \in todo'[w] => Running(w) /\ k \in todo[w]
    BY <2>1, <2>2
  <2>6. CASE unsaved' = [unsaved EXCEPT ![w] = @ \union {At(w)}] /\ records' = records /\ open[w]
    <3>1. unsaved'[w] = unsaved[w] \union {At(w)}
      BY <2>6 DEF TypeOK
    <3>2. Holds(w, k, i)' => Holds(w, k, i)
      BY <2>1, <2>3, <2>4, <3>1 DEF Holds
    <3> QED BY <1>0, <2>1, <2>2, <2>5, <2>6, <3>2, HeldKept
  <2>7. CASE Save({At(w)}) /\ unsaved' = unsaved /\ ~open[w]
    <3>1. unsaved'[w] = {}
      BY <2>1, <2>7 DEF LinesInv, LinedUp
    <3>2. ~Holds(w, k, i)'
      BY <2>4, <3>1 DEF Holds
    <3>3. CASE k = At(w)
      <4>1. Holds(w, k, i)
        BY <2>1, <2>3, <3>3 DEF Holds
      <4>2. records'[k] = records[k] + 1
        BY <2>7, <3>3, SavedRows
      <4> QED BY <1>0, <2>1, <2>2, <3>2, <4>1, <4>2, HeldSaved
    <3>4. CASE k # At(w)
      <4>1. records'[k] = records[k]
        BY <2>7, <3>4, SavedRows
      <4> QED BY <1>0, <2>1, <2>2, <2>5, <3>2, <4>1, HeldKept
    <3> QED BY <3>3, <3>4
  <2> QED BY <2>1, <2>6, <2>7
<1> QED BY <1>1, <1>2, <1>3, <1>4, <1>5 DEF Start

\* The operator works while no worker runs.
LEMMA OperatorOrdered ==
    ASSUME TypeOK, TypeOK', StoppedInv, LinesInv, HeldInv, Operate
    PROVE  LinesInv' /\ HeldInv'
<1>1. \A w \in Workers : pc'[w] = "load"
  BY DEF Operate, BeginRevert, ExecuteDown, RefuseDown, EndRevert, workerVars, StoppedInv
<1>2. \/ records' = records
      \/ /\ undo \in Recorded /\ (\A k \in Recorded : k <= undo)
         /\ records' = [records EXCEPT ![undo] = 0]
  BY DEF Operate, BeginRevert, ExecuteDown, RefuseDown, EndRevert, StoppedInv
<1>3. NoGaps'
  <2>1. CASE records' = records
    BY <2>1 DEF LinesInv, NoGaps
  <2>2. CASE /\ undo \in Recorded /\ (\A k \in Recorded : k <= undo)
             /\ records' = [records EXCEPT ![undo] = 0]
    <3>1. Recorded' = Recorded \ {undo}
      BY <2>2 DEF Recorded, TypeOK
    <3>2. \A k \in Recorded : k # 1 => k - 1 \in Recorded
      BY GapsClosed DEF LinesInv
    <3>3. undo \in Nat /\ \A k \in Recorded : k \in Nat
      BY <2>2, VersionsAssumption DEF Recorded, Numbers
    <3>4. ASSUME NEW k \in Recorded', k # 1 PROVE k - 1 \in Recorded'
      <4>1. k \in Recorded /\ k # undo /\ k <= undo /\ k \in Nat
        BY <2>2, <3>1, <3>3, <3>4
      <4>2. k - 1 # undo
        BY <3>3, <4>1
      <4> QED BY <3>1, <3>2, <3>4, <4>1, <4>2
    <3>5. \A j \in Numbers : j # 1 => j - 1 \in Numbers
      BY VersionsAssumption DEF Numbers
    <3> QED BY <3>4, <3>5 DEF NoGaps, Recorded
  <2> QED BY <1>2, <2>1, <2>2
<1>4. \A w \in Workers : ~Running(w)'
  BY <1>1 DEF Running
<1>5. \A k \in Numbers : records[k] <= 1 => records'[k] <= 1
  BY <1>2 DEF TypeOK
<1> QED BY <1>3, <1>4, <1>5 DEF LinesInv, HeldInv, Guarded, Holds

LEMMA NextOrdered ==
    TypeOK /\ TypeOK' /\ ApplyInv /\ LinesInv /\ HeldInv /\ [Next]_vars => LinesInv' /\ HeldInv'
<1> SUFFICES ASSUME TypeOK, TypeOK', ApplyInv, LinesInv, HeldInv, [Next]_vars
             PROVE  LinesInv' /\ HeldInv'
  OBVIOUS
<1>1. CASE UNCHANGED vars
  <2>1. UNCHANGED <<db, records, pc, todo, step, open, unsaved>>
    BY <1>1 DEF vars, workerVars
  <2> QED BY <2>1 DEF LinesInv, NoGaps, LinedUp, Running, Recorded, HeldInv, Guarded, Holds,
                      Past, At, Given
<1>2. CASE Next
  BY <1>2, StartLines, StartHeld, OperatorOrdered DEF Next, ApplyInv
<1> QED BY <1>1, <1>2

\* The table of migrations has no gap, and a migration that cannot be run twice
\* has one row at most: a worker that saves its transaction late, fails or is
\* overtaken never records past a migration that is missing, nor beside another.
THEOREM RecordsStayInOrder == Spec => []RecordsAreInOrder
<1>1. LinesInv /\ HeldInv => RecordsAreInOrder
  BY DEF LinesInv, HeldInv, Guarded, RecordsAreInOrder, RecordedOnce, Single
<1> QED BY <1>1, InitTypeOK, NextTypeOK, InitApplyInv, NextApplyInv, InitOrdered, NextOrdered,
           PTL DEF Spec

-----------------------------------------------------------------------------
(* The schema of the first m migrations *)

\* What clashes with a statement is its own work.
OwnInv ==
    \A k \in Numbers : \A i \in DOMAIN Up(k) : \A p \in Up(k)[i].clashes :
        Exists(db, p) => Given(k, i)

\* All that is there is the work of a statement that has done all of its own.
OriginInv ==
    \A t \in Tables : \A o \in db[t] : \E k \in Numbers : \E i \in DOMAIN Up(k) :
        Up(k)[i].table = t /\ o \in Up(k)[i].adds /\ Given(k, i)

\* A worker that got past statement i of k, and committed what was open.
Carries(w, k, i) == Past(w, k, i) /\ ~open[w]

\* Somebody goes on with a migration that is half done.
CarriedInv ==
    \A k \in Numbers \ Recorded : \A i \in DOMAIN Up(k) :
        Up(k)[i].clashes # {} /\ Given(k, i) => \E w \in Workers : Carries(w, k, i)

ExactInv == OwnInv /\ OriginInv /\ CarriedInv

LEMMA SchemaIs ==
    ASSUME NEW m \in {0} \union Numbers
    PROVE  /\ m \in Nat /\ 1..m \subseteq Numbers
           /\ SchemaAt[m] = [t \in Tables |-> UNION {Brings(k, t) : k \in 1..m}]
BY VersionsAssumption DEF SchemaAt, Numbers

LEMMA SchemaHas ==
    ASSUME NEW m \in {0} \union Numbers, NEW t \in Tables, NEW o
    PROVE  o \in SchemaAt[m][t] <=> \E k \in 1..m : o \in Brings(k, t)
<1>1. SchemaAt[m] = [u \in Tables |-> UNION {Brings(k, u) : k \in 1..m}]
  BY SchemaIs
<1>2. SchemaAt[m][t] = UNION {Brings(k, t) : k \in 1..m}
  BY <1>1
<1> QED BY <1>2

\* What clashes with a statement is there after its migration, and not before.
LEMMA ClashesLater ==
    ASSUME NEW m \in {0} \union Numbers, NEW k \in Numbers, NEW i \in DOMAIN Up(k),
           NEW p \in Up(k)[i].clashes, NEW o \in SchemaAt[m][p.table], Matches(o, p)
    PROVE  k \in 1..m
<1>1. p.table \in Tables
  BY UpOnlyAdds, HasTable
<1>2. PICK j \in 1..m : o \in Brings(j, p.table)
  BY <1>1, SchemaHas
<1>3. j \in Numbers
  BY <1>2, SchemaIs
<1>4. PICK h \in DOMAIN Up(j) : Up(j)[h].table = p.table /\ o \in Up(j)[h].adds
  BY <1>2 DEF Brings
<1> QED BY <1>2, <1>3, <1>4, EachAddedOnce

LEMMA GivenAt ==
    ASSUME NEW m \in {0} \union Numbers, db = SchemaAt[m],
           NEW k \in Numbers, k \in 1..m, NEW i \in DOMAIN Up(k)
    PROVE  Given(k, i)
<1>1. Up(k)[i].adds \subseteq Brings(k, Up(k)[i].table)
  BY DEF Brings
<1> QED BY <1>1, SchemaHas, HasTable DEF Given

\* The work of a statement that clashes with it is seen by what clashes.
LEMMA GivenIsSeen ==
    ASSUME NEW k \in Numbers, NEW i \in DOMAIN Up(k), Up(k)[i].clashes # {}, Given(k, i)
    PROVE  \E p \in Up(k)[i].clashes : \E o \in db[p.table] :
             Matches(o, p) /\ p.table = Up(k)[i].table /\ o \in Up(k)[i].adds
BY UpOnlyAdds DEF Given

LEMMA SchemaIsExact ==
    ASSUME NEW m \in {0} \union Numbers, db = SchemaAt[m]
    PROVE  /\ OwnInv /\ OriginInv
           /\ \A k \in Numbers : \A i \in DOMAIN Up(k) :
                Up(k)[i].clashes # {} /\ Given(k, i) => k \in 1..m
<1>1. OwnInv
  BY ClashesLater, GivenAt DEF OwnInv, Exists
<1>2. OriginInv
  <2> SUFFICES ASSUME NEW t \in Tables, NEW o \in db[t]
               PROVE  \E k \in Numbers : \E i \in DOMAIN Up(k) :
                        Up(k)[i].table = t /\ o \in Up(k)[i].adds /\ Given(k, i)
    BY DEF OriginInv
  <2>1. PICK k \in 1..m : o \in Brings(k, t)
    BY SchemaHas
  <2>2. k \in Numbers
    BY <2>1, SchemaIs
  <2>3. PICK i \in DOMAIN Up(k) : Up(k)[i].table = t /\ o \in Up(k)[i].adds
    BY <2>1 DEF Brings
  <2> QED BY <2>1, <2>2, <2>3, GivenAt
<1>3. ASSUME NEW k \in Numbers, NEW i \in DOMAIN Up(k), Up(k)[i].clashes # {}, Given(k, i)
      PROVE  k \in 1..m
  BY <1>3, GivenIsSeen, ClashesLater
<1> QED BY <1>1, <1>2, <1>3

\* The records without a gap.
LEMMA RecordedIsInitial ==
    ASSUME TypeOK, NoGaps, NEW m \in Recorded, \A k \in Recorded : k <= m
    PROVE  Recorded = 1..m /\ m \in Numbers
<1> DEFINE Missing == {k \in 1..m : k \notin Recorded}
<1>1. m \in Nat /\ m \in Numbers /\ Recorded \subseteq 1..m /\ 1..m \subseteq Numbers
  BY VersionsAssumption DEF Recorded, Numbers
<1>2. CASE Missing = {}
  BY <1>1, <1>2
<1>3. CASE Missing # {}
  <2>1. Missing \subseteq 1..m
    OBVIOUS
  <2> HIDE DEF Missing
  <2>2. PICK k \in Missing : \A n \in Missing : n <= k
    BY <1>1, <1>3, <2>1, HasMost
  <2> USE DEF Missing
  <2>3. k \in 1..m /\ k \notin Recorded /\ k # m
    BY <2>2
  <2>4. k + 1 \in 1..m /\ k + 1 # 1 /\ (k + 1) - 1 = k /\ ~(k + 1 <= k)
    BY <1>1, <2>3
  <2>5. k + 1 \in Recorded
    BY <2>2, <2>4
  <2> QED BY <2>3, <2>4, <2>5, GapsClosed
<1> QED BY <1>2, <1>3

\* While no worker runs, there is what is recorded and nothing else.
LEMMA ExactIsSchema ==
    ASSUME TypeOK, FormInv, ExactInv, AppliedInv, undo = 0, \A w \in Workers : ~Running(w),
           NEW m \in Numbers, Recorded = 1..m
    PROVE  db = SchemaAt[m]
<1>1. m \in {0} \union Numbers
  OBVIOUS
<1>2. /\ SchemaAt[m] = [t \in Tables |-> UNION {Brings(k, t) : k \in 1..m}]
      /\ 1..m \subseteq Numbers
  BY <1>1, SchemaIs
<1>3. ASSUME NEW t \in Tables PROVE db[t] = UNION {Brings(k, t) : k \in 1..m}
  <2>1. ASSUME NEW o \in db[t] PROVE \E k \in 1..m : o \in Brings(k, t)
    <3>1. PICK k \in Numbers : \E i \in DOMAIN Up(k) :
            Up(k)[i].table = t /\ o \in Up(k)[i].adds /\ Given(k, i)
      BY <2>1 DEF ExactInv, OriginInv
    <3>2. PICK i \in DOMAIN Up(k) : Up(k)[i].table = t /\ o \in Up(k)[i].adds /\ Given(k, i)
      BY <3>1
    <3>3. \A w \in Workers : ~Carries(w, k, i)
      BY DEF Carries, Past, Running
    <3>4. k \in Recorded
      BY <3>2, <3>3, AddsClash DEF ExactInv, CarriedInv
    <3> QED BY <3>2, <3>4 DEF Brings
  <2>2. ASSUME NEW k \in 1..m, NEW o \in Brings(k, t) PROVE o \in db[t]
    <3>1. PICK i \in DOMAIN Up(k) : Up(k)[i].table = t /\ o \in Up(k)[i].adds
      BY <2>2 DEF Brings
    <3>2. k # 0
      OBVIOUS
    <3>3. Given(k, i)
      BY <3>2 DEF AppliedInv, All
    <3> QED BY <3>1, <3>3 DEF Given
  <2> QED BY <2>1, <2>2
<1>4. db = [t \in Tables |-> db[t]]
  BY DEF FormInv
<1> QED BY <1>2, <1>3, <1>4

\* A statement of up brings nothing of another one.
LEMMA OwnKept ==
    ASSUME FormInv, OwnInv, NEW j \in Numbers, NEW n \in DOMAIN Up(j), db' = Apply(db, Up(j)[n])
    PROVE  /\ OwnInv'
           /\ \A k \in Numbers : \A i \in DOMAIN Up(k) :
                Up(k)[i].clashes # {} /\ Given(k, i)' => Given(k, i) \/ (k = j /\ i = n)
<1>1. /\ db = [t \in Tables |-> db[t]] /\ Given(j, n)'
      /\ \A k \in Numbers : \A i \in DOMAIN Up(k) : Given(k, i) => Given(k, i)'
  BY UpGrows DEF FormInv
<1>2. ASSUME NEW t \in Tables, NEW o \in db'[t], o \notin db[t]
      PROVE  t = Up(j)[n].table /\ o \in Up(j)[n].adds
  BY <1>1, <1>2, HasTable DEF Apply
<1>3. ASSUME NEW k \in Numbers, NEW i \in DOMAIN Up(k), NEW p \in Up(k)[i].clashes,
             NEW o \in db'[p.table], Matches(o, p)
      PROVE  Given(k, i) \/ (k = j /\ i = n)
  <2>1. p.table \in Tables
    BY UpOnlyAdds, HasTable
  <2>2. CASE o \in db[p.table]
    BY <1>3, <2>2 DEF OwnInv, Exists
  <2>3. CASE o \notin db[p.table]
    <3>1. p.table = Up(j)[n].table /\ o \in Up(j)[n].adds
      BY <1>2, <2>1, <2>3
    <3> QED BY <1>3, <3>1, EachAddedOnce
  <2> QED BY <2>2, <2>3
<1>4. OwnInv'
  BY <1>1, <1>3 DEF OwnInv, Exists
<1>5. ASSUME NEW k \in Numbers, NEW i \in DOMAIN Up(k), Up(k)[i].clashes # {}, Given(k, i)'
      PROVE  Given(k, i) \/ (k = j /\ i = n)
  <2>1. PICK p \in Up(k)[i].clashes : TRUE
    BY <1>5
  <2>2. PICK o \in Up(k)[i].adds : Matches(o, p) /\ p.table = Up(k)[i].table
    BY UpOnlyAdds
  <2>3. o \in db'[p.table]
    BY <1>5, <2>2 DEF Given
  <2> QED BY <1>3, <2>2, <2>3
<1> QED BY <1>4, <1>5

\* What a worker needs for the statement it is at is there.
LEMMA NeedsAreThere ==
    ASSUME TypeOK, AppliedInv, RunsInv, LinesInv, undo = 0,
           NEW w \in Workers, Running(w), todo[w] # {}, step[w] \in DOMAIN Up(At(w)),
           NEW p \in Current(w).needs
    PROVE  Exists(db, p)
<1>1. PICK k, i : k = At(w) /\ i = step[w]
  OBVIOUS
<1>2. /\ k \in Numbers /\ (\A j \in todo[w] : k <= j) /\ i \in DOMAIN Up(k)
      /\ p \in Up(k)[i].needs
  BY <1>1, AtIsPending DEF Current
<1>3. PICK j \in Numbers : \E h \in DOMAIN Up(j) :
        /\ j < k \/ (j = k /\ h < i)
        /\ Up(j)[h].table = p.table /\ \E o \in Up(j)[h].adds : Matches(o, p)
  BY <1>2, NeedsAreMet
<1>4. PICK h \in DOMAIN Up(j) :
        /\ j < k \/ (j = k /\ h < i)
        /\ Up(j)[h].table = p.table /\ \E o \in Up(j)[h].adds : Matches(o, p)
  BY <1>3
<1>5. CASE j < k
  <2>1. j \notin todo[w]
    BY <1>2, <1>5, VersionsAssumption DEF Numbers
  <2>2. j \in unsaved[w] \/ j \in Recorded
    BY <2>1 DEF LinesInv, LinedUp
  <2>3. 0 \notin Numbers
    BY VersionsAssumption DEF Numbers
  <2>4. All(j)
    BY <2>2, <2>3 DEF AppliedInv, RunsInv, Running, Recorded
  <2> QED BY <1>4, <2>4 DEF All, Given, Exists
<1>6. CASE j = k /\ h < i
  <2>1. Done(k, i)
    BY <1>1 DEF RunsInv, Running
  <2> QED BY <1>4, <1>6, <2>1 DEF Done, Given, Exists
<1> QED BY <1>4, <1>5, <1>6

\* A worker that fails has met the work of another, who goes on: with all it had
\* done itself, if it had done anything.
LEMMA FailsOnOthers ==
    ASSUME TypeOK, AppliedInv, RunsInv, LinesInv, OwnInv, CarriedInv, undo = 0,
           NEW w \in Workers, Ready(w), ~Can(db, Current(w)),
           NEW k \in Numbers \ Recorded, NEW i \in DOMAIN Up(k), Past(w, k, i)
    PROVE  \E v \in Workers \ {w} : Carries(v, k, i)
<1>1. PICK n : n = step[w]
  OBVIOUS
<1>2. /\ At(w) = k /\ n > i /\ Running(w) /\ todo[w] # {} /\ n \in DOMAIN Up(k) /\ n \in Nat
      /\ i \in Nat /\ Current(w) = Up(k)[n]
  BY <1>1, VersionsAssumption DEF Past, Ready, Running, Current, TypeOK
<1>3. \A p \in Up(k)[n].needs : Exists(db, p)
  BY <1>1, <1>2, NeedsAreThere
<1>4. PICK p \in Up(k)[n].clashes : Exists(db, p)
  BY <1>2, <1>3, UpOnlyAdds DEF Can
<1>5. Given(k, n)
  BY <1>2, <1>4 DEF OwnInv
<1>6. PICK v \in Workers : Carries(v, k, n)
  BY <1>2, <1>4, <1>5 DEF CarriedInv
<1>7. v # w
  BY <1>1, <1>2, <1>6 DEF Carries, Past
<1>8. Past(v, k, i)
  <2>1. step[v] \in Nat /\ step[v] > n
    BY <1>6 DEF Carries, Past, TypeOK
  <2>2. step[v] > i
    BY <1>2, <2>1
  <2> QED BY <1>6, <2>2 DEF Carries, Past
<1> QED BY <1>6, <1>7, <1>8 DEF Carries

LEMMA CarriesStay ==
    ASSUME NEW w \in Workers, OthersStay(w), NEW v \in Workers \ {w}, NEW k, NEW i
    PROVE  Carries(v, k, i)' <=> Carries(v, k, i)
BY DEF OthersStay, Carries, Past, At

\* One worker moves: what it has done it carries, and what it lets go others carry.
LEMMA CarriedKept ==
    ASSUME CarriedInv, NEW w \in Workers, OthersStay(w), Recorded \subseteq Recorded',
           \A k \in Numbers \ Recorded' : \A i \in DOMAIN Up(k) :
               Up(k)[i].clashes # {} /\ Given(k, i)' => Given(k, i) \/ Carries(w, k, i)',
           \A k \in Numbers \ Recorded' : \A i \in DOMAIN Up(k) :
               Carries(w, k, i) =>
                   Carries(w, k, i)' \/ \E v \in Workers \ {w} : Carries(v, k, i)
    PROVE  CarriedInv'
<1> SUFFICES ASSUME NEW k \in Numbers \ Recorded', NEW i \in DOMAIN Up(k),
                    Up(k)[i].clashes # {}, Given(k, i)'
             PROVE  \E v \in Workers : Carries(v, k, i)'
  BY DEF CarriedInv
<1>1. CASE Carries(w, k, i)'
  BY <1>1
<1>2. CASE ~Carries(w, k, i)'
  <2>1. Given(k, i)
    BY <1>2
  <2>2. \E v \in Workers : Carries(v, k, i)
    BY <2>1 DEF CarriedInv
  <2>3. PICK v \in Workers \ {w} : Carries(v, k, i)
    BY <1>2, <2>2
  <2> QED BY <2>3, CarriesStay
<1> QED BY <1>1, <1>2

LEMMA OriginKept ==
    ASSUME FormInv, OriginInv, NEW j \in Numbers, NEW n \in DOMAIN Up(j), db' = Apply(db, Up(j)[n])
    PROVE  OriginInv'
<1>1. /\ db = [t \in Tables |-> db[t]] /\ Given(j, n)'
      /\ \A k \in Numbers : \A i \in DOMAIN Up(k) : Given(k, i) => Given(k, i)'
  BY UpGrows DEF FormInv
<1> SUFFICES ASSUME NEW t \in Tables, NEW o \in db'[t]
             PROVE  \E k \in Numbers : \E i \in DOMAIN Up(k) :
                      Up(k)[i].table = t /\ o \in Up(k)[i].adds /\ Given(k, i)'
  BY DEF OriginInv
<1>2. CASE o \in db[t]
  BY <1>1, <1>2 DEF OriginInv
<1>3. CASE o \notin db[t]
  <2>1. t = Up(j)[n].table /\ o \in Up(j)[n].adds
    BY <1>1, <1>3, HasTable DEF Apply
  <2> QED BY <1>1, <2>1
<1> QED BY <1>2, <1>3

\* A worker that goes from one statement to the next stays past the others.
LEMMA PastGrows ==
    ASSUME TypeOK, NEW w \in Workers, todo' = todo, Running(w)',
           step'[w] = step[w] \/ step'[w] = step[w] + 1, ~open[w] => ~open'[w]
    PROVE  \A k \in Numbers : \A i \in DOMAIN Up(k) : Carries(w, k, i) => Carries(w, k, i)'
<1> SUFFICES ASSUME NEW k \in Numbers, NEW i \in DOMAIN Up(k), Carries(w, k, i)
             PROVE  Carries(w, k, i)'
  OBVIOUS
<1>1. step[w] \in Nat /\ i \in Nat /\ step[w] > i
  BY VersionsAssumption DEF TypeOK, Carries, Past
<1>2. step'[w] > i
  BY <1>1
<1> QED BY <1>2 DEF Carries, Past, At, Running

-----------------------------------------------------------------------------
(* What the operator finds *)

LEMMA UndoneFirst == ASSUME NEW k \in Numbers PROVE Undone(k, 1) = SchemaAt[k]
<1>1. \A h \in DOMAIN Down(k) : h \in Nat /\ ~(h < 1)
  BY VersionsAssumption
<1>2. SchemaAt[k] = [t \in Tables |-> SchemaAt[k][t]]
  BY SchemaIs
<1>3. \A t \in Tables : Undone(k, 1)[t] = SchemaAt[k][t]
  BY <1>1 DEF Undone
<1>4. Undone(k, 1) = [t \in Tables |-> Undone(k, 1)[t]]
  BY DEF Undone
<1> QED BY <1>2, <1>3, <1>4

\* What is in a table before the nth statement of down: what was there and what the
\* statements before have added, without what those after took.
LEMMA UndoneHas ==
    ASSUME NEW k \in Numbers, NEW n \in Nat, NEW t \in Tables, NEW o
    PROVE  o \in Undone(k, n)[t] <=>
             \/ /\ o \in SchemaAt[k][t]
                /\ \A h \in DOMAIN Down(k) : h < n => ~Goes(o, t, k, h)
             \/ \E g \in DOMAIN Down(k) :
                  /\ g < n /\ Down(k)[g].table = t /\ o \in Down(k)[g].adds
                  /\ \A h \in DOMAIN Down(k) : g < h /\ h < n => ~Goes(o, t, k, h)
<1>1. \A h \in DOMAIN Down(k) : 0 < h
  BY VersionsAssumption
<1> QED BY <1>1 DEF Undone

LEMMA UndoneNext ==
    ASSUME NEW k \in Numbers, NEW n \in DOMAIN Down(k)
    PROVE  Apply(Undone(k, n), Down(k)[n]) = Undone(k, n + 1)
<1>1. n \in Nat /\ n + 1 \in Nat /\ \A h \in DOMAIN Down(k) :
        /\ h \in Nat /\ (h < n + 1 <=> h < n \/ h = n) /\ ~(n < h /\ h < n + 1) /\ ~(n < n)
  BY VersionsAssumption
<1>2. /\ Undone(k, n) = [t \in Tables |-> Undone(k, n)[t]]
      /\ Undone(k, n + 1) = [t \in Tables |-> Undone(k, n + 1)[t]]
  BY DEF Undone
<1>3. ASSUME NEW t \in Tables, NEW o
      PROVE  o \in Undone(k, n + 1)[t] <=>
               \/ o \in Undone(k, n)[t] /\ ~Goes(o, t, k, n)
               \/ Down(k)[n].table = t /\ o \in Down(k)[n].adds
  <2>1. CASE Goes(o, t, k, n)
    BY <1>1, <2>1, UndoneHas
  <2>2. CASE ~Goes(o, t, k, n)
    BY <1>1, <2>2, UndoneHas
  <2> QED BY <2>1, <2>2
<1>4. ASSUME NEW t \in Tables
      PROVE  Apply(Undone(k, n), Down(k)[n])[t] = Undone(k, n + 1)[t]
  <2>1. CASE Down(k)[n].table = t
    <3>1. Apply(Undone(k, n), Down(k)[n])[t]
            = {o \in Undone(k, n)[t] : ~Dropped(o, Down(k)[n])} \union Down(k)[n].adds
      BY <1>2, <2>1 DEF Apply
    <3>2. \A o : Goes(o, t, k, n) <=> Dropped(o, Down(k)[n])
      BY <2>1 DEF Goes
    <3>3. \A o : o \in Undone(k, n + 1)[t] <=>
            (o \in Undone(k, n)[t] /\ ~Dropped(o, Down(k)[n])) \/ o \in Down(k)[n].adds
      BY <1>3, <2>1, <3>2
    <3> QED BY <3>1, <3>3
  <2>2. CASE Down(k)[n].table # t
    <3>1. Apply(Undone(k, n), Down(k)[n])[t] = Undone(k, n)[t]
      BY <1>2, <2>2 DEF Apply
    <3>2. \A o : o \in Undone(k, n + 1)[t] <=> o \in Undone(k, n)[t]
      BY <1>3, <2>2 DEF Goes
    <3> QED BY <3>1, <3>2
  <2> QED BY <2>1, <2>2
<1>5. Apply(Undone(k, n), Down(k)[n])
        = [t \in Tables |-> Apply(Undone(k, n), Down(k)[n])[t]]
  BY <1>2 DEF Apply
<1> QED BY <1>2, <1>4, <1>5

\* A down that drops no more than its own, and runs to its end, takes back its up.
LEMMA UndoneLast ==
    ASSUME NEW k \in Numbers \ (Lossy \union Refused), NEW n \in Nat, n # 0, n \notin DOMAIN Down(k)
    PROVE  Undone(k, n) = SchemaAt[k - 1]
<1>1. \A h \in DOMAIN Down(k) : h < n
  BY VersionsAssumption
<1>2. k - 1 \in {0} \union Numbers /\ 1..k = (1..(k - 1)) \union {k} /\ k \in {0} \union Numbers
  BY VersionsAssumption DEF Numbers
<1>3. /\ SchemaAt[k] = [t \in Tables |-> UNION {Brings(j, t) : j \in 1..k}]
      /\ SchemaAt[k - 1] = [t \in Tables |-> UNION {Brings(j, t) : j \in 1..(k - 1)}]
  BY <1>2, SchemaIs
<1>4. ASSUME NEW t \in Tables, NEW o
      PROVE  o \in Undone(k, n)[t] <=> o \in SchemaAt[k - 1][t]
  <2>1. o \in Undone(k, n)[t] <=>
          o \in SchemaAt[k][t] /\ \A h \in DOMAIN Down(k) : ~Goes(o, t, k, h)
    BY <1>1, UndoneHas, DownOnlyDrops
  <2>2. o \in SchemaAt[k][t] <=> o \in SchemaAt[k - 1][t] \/ o \in Brings(k, t)
    BY <1>2, <1>3
  <2>3. o \in SchemaAt[k - 1][t] => \A h \in DOMAIN Down(k) : ~Goes(o, t, k, h)
    BY DEF Lossy, Goes
  <2>4. o \in Brings(k, t) => \E h \in DOMAIN Down(k) : Goes(o, t, k, h)
    BY DownDropsAll DEF Brings
  <2> QED BY <2>1, <2>2, <2>3, <2>4
<1>5. Undone(k, n) = [t \in Tables |-> Undone(k, n)[t]]
  BY DEF Undone
<1>6. \A t \in Tables : Undone(k, n)[t] = SchemaAt[k - 1][t]
  BY <1>4
<1> QED BY <1>3, <1>5, <1>6

-----------------------------------------------------------------------------
(* Workers that race tear nothing *)

\* Nothing crashed, and no down left a trace.
RaceInv == faults = 0 /\ ~marred /\ undo = 0 => ExactInv

\* A down works on the schema of its migration, and has come through so far.
DownInv ==
    /\ db = Undone(undo, ustep)
    /\ \A h \in DOMAIN Down(undo) : h < ustep => Can(Undone(undo, h), Down(undo)[h])

UndoInv ==
    /\ reverts = 0 => undo = 0 /\ ~marred
    /\ undo # 0 /\ ~marred /\ ustep # 1 => undo \notin Lossy
    /\ faults = 0 /\ undo # 0 /\ (reverts = 1 \/ ~marred) => DownInv

LEMMA InitRaces == Init => RaceInv /\ UndoInv
<1> SUFFICES ASSUME Init PROVE ExactInv /\ UndoInv
  BY DEF RaceInv
<1>1. PICK v \in Starts : /\ db = SchemaAt[v]
                          /\ records = [k \in Numbers |-> IF k <= v THEN 1 ELSE 0]
  BY DEF Init
<1>2. v \in {0} \union Numbers
  BY MigrationsAssumption, VersionsAssumption DEF Numbers
<1>3. OwnInv /\ OriginInv /\ \A k \in Numbers : \A i \in DOMAIN Up(k) :
        Up(k)[i].clashes # {} /\ Given(k, i) => k \in 1..v
  BY <1>1, <1>2, SchemaIsExact
<1>4. \A k \in Numbers : k \in 1..v => k \in Recorded
  BY <1>1 DEF Recorded
<1>5. CarriedInv
  BY <1>3, <1>4 DEF CarriedInv
<1> QED BY <1>3, <1>5 DEF ExactInv, UndoInv, Init

LEMMA WorkerRaces ==
    ASSUME TypeOK, ApplyInv, LinesInv, RaceInv, UndoInv, NEW w \in Workers, Start(w)
    PROVE  RaceInv'
<1>1. UNCHANGED <<operatorVars, faults>>
  BY DEF Start, Load, CheckTable, Execute, Fail, Record, Finish
<1> SUFFICES ASSUME faults = 0, ~marred, undo = 0 PROVE ExactInv'
  BY <1>1 DEF RaceInv, operatorVars
<1>2. OwnInv /\ OriginInv /\ CarriedInv
  BY DEF RaceInv, ExactInv
<1>3. FormInv /\ AppliedInv /\ RunsInv
  BY DEF ApplyInv, SoundInv
<1>4. db' = db => OwnInv' /\ OriginInv' /\
        \A k \in Numbers : \A i \in DOMAIN Up(k) : Given(k, i)' => Given(k, i)
  BY <1>2 DEF OwnInv, OriginInv, Exists, Given
<1>5. Recorded \subseteq Recorded'
  <2>1. records' = records \/ \E ks : Save(ks)
    BY DEF Start, Load, CheckTable, Execute, Commit, Fail, Record, Finish
  <2> QED BY <2>1, SaveIsTyped DEF Recorded
<1>6. CASE Load(w)
  <2>1. OthersStay(w) /\ db' = db /\ pc[w] = "load"
    BY <1>6 DEF Load, TypeOK, OthersStay
  <2>2. \A k, i : ~Carries(w, k, i)
    BY <2>1 DEF Carries, Past
  <2>3. CarriedInv'
    BY <1>2, <1>4, <1>5, <2>1, <2>2, CarriedKept
  <2> QED BY <1>4, <2>1, <2>3 DEF ExactInv
<1>7. CASE CheckTable(w)
  <2>1. /\ OthersStay(w) /\ UNCHANGED <<db, todo, open>> /\ Running(w)'
        /\ (step'[w] = step[w] \/ step'[w] = step[w] + 1)
    BY <1>7 DEF CheckTable, TypeOK, OthersStay, Running
  <2>2. \A k \in Numbers : \A i \in DOMAIN Up(k) : Carries(w, k, i) => Carries(w, k, i)'
    BY <2>1, PastGrows
  <2>3. CarriedInv'
    BY <1>2, <1>4, <1>5, <2>1, <2>2, CarriedKept
  <2> QED BY <1>4, <2>1, <2>3 DEF ExactInv
<1>8. CASE Execute(w)
  <2>1. /\ Ready(w) /\ db' = Apply(db, Current(w)) /\ Commit(w) /\ todo' = todo
        /\ pc' = [pc EXCEPT ![w] = "run"] /\ step' = [step EXCEPT ![w] = @ + 1]
    BY <1>8 DEF Execute
  <2>2. /\ OthersStay(w) /\ Running(w)' /\ step'[w] = step[w] + 1
        /\ todo[w] # {} /\ step[w] \in DOMAIN Up(At(w))
    BY <2>1 DEF Commit, Ready, TypeOK, OthersStay, Running
  <2>3. PICK j, n : j = At(w) /\ n = step[w]
    OBVIOUS
  <2>4. j \in Numbers /\ n \in DOMAIN Up(j) /\ n \in Nat /\ Current(w) = Up(j)[n]
    BY <2>2, <2>3, AtIsPending, VersionsAssumption DEF Current
  <2>5. /\ OwnInv' /\ OriginInv'
        /\ \A k \in Numbers : \A i \in DOMAIN Up(k) :
             Up(k)[i].clashes # {} /\ Given(k, i)' => Given(k, i) \/ (k = j /\ i = n)
    BY <1>2, <1>3, <2>1, <2>4, OwnKept, OriginKept
  <2>6. (~open[w] => ~open'[w]) /\ (~Current(w).rows => ~open'[w])
    BY <2>1 DEF Commit, TypeOK
  <2>7. \A k \in Numbers : \A i \in DOMAIN Up(k) : Carries(w, k, i) => Carries(w, k, i)'
    BY <2>1, <2>2, <2>6, PastGrows
  <2>8. Up(j)[n].clashes # {} => Carries(w, j, n)'
    <3>1. ASSUME Up(j)[n].clashes # {} PROVE ~open'[w]
      BY <2>4, <2>6, <3>1, AddsClash
    <3>2. step'[w] > n /\ At(w)' = j
      BY <2>1, <2>2, <2>3, <2>4 DEF At
    <3>3. Past(w, j, n)'
      BY <2>1, <2>2, <3>2 DEF Past, Running
    <3> QED BY <3>1, <3>3 DEF Carries
  <2>9. CarriedInv'
    BY <1>2, <1>5, <2>2, <2>5, <2>7, <2>8, CarriedKept
  <2> QED BY <2>5, <2>9 DEF ExactInv
<1>9. CASE Fail(w)
  <2>1. Ready(w) /\ ~Can(db, Current(w)) /\ Restart(w) /\ db' = db
    BY <1>9 DEF Fail
  <2>2. OthersStay(w)
    BY <2>1 DEF Restart, TypeOK, OthersStay
  <2>3. \A k \in Numbers \ Recorded' : \A i \in DOMAIN Up(k) :
          Carries(w, k, i) => \E v \in Workers \ {w} : Carries(v, k, i)
    BY <1>2, <1>3, <1>5, <2>1, FailsOnOthers DEF Carries
  <2>4. CarriedInv'
    BY <1>2, <1>4, <1>5, <2>1, <2>2, <2>3, CarriedKept
  <2> QED BY <1>4, <2>1, <2>4 DEF ExactInv
<1>10. CASE Record(w)
  <2>1. db' = db /\ (open[w] \/ Save({At(w)}))
    BY <1>10 DEF Record
  <2>2. OthersStay(w)
    BY <1>10 DEF Record, TypeOK, OthersStay
  <2>3. ASSUME NEW k \in Numbers, NEW i \in DOMAIN Up(k), Carries(w, k, i)
        PROVE  k \in Recorded'
    <3>1. Save({k})
      BY <2>1, <2>3 DEF Carries, Past
    <3> QED BY <3>1, SaveIsTyped
  <2>4. CarriedInv'
    BY <1>2, <1>4, <1>5, <2>1, <2>2, <2>3, CarriedKept
  <2> QED BY <1>4, <2>1, <2>4 DEF ExactInv
<1>11. CASE Finish(w)
  <2>1. OthersStay(w) /\ db' = db /\ todo[w] = {}
    BY <1>11 DEF Finish, TypeOK, OthersStay
  <2>2. \A k, i : ~Carries(w, k, i)
    BY <2>1 DEF Carries, Past
  <2>3. CarriedInv'
    BY <1>2, <1>4, <1>5, <2>1, <2>2, CarriedKept
  <2> QED BY <1>4, <2>1, <2>3 DEF ExactInv
<1> QED BY <1>6, <1>7, <1>8, <1>9, <1>10, <1>11 DEF Start

LEMMA StartRaces ==
    ASSUME TypeOK, ApplyInv, LinesInv, RaceInv, UndoInv, NEW w \in Workers, Start(w) \/ Fault(w)
    PROVE  RaceInv' /\ UndoInv'
<1>1. CASE Start(w)
  <2>1. UNCHANGED <<operatorVars, faults>> /\ undo = 0
    BY <1>1 DEF Start, Load, CheckTable, Execute, Ready, Fail, Record, Between, Finish,
                ApplyInv, StoppedInv
  <2>2. UndoInv'
    BY <2>1 DEF UndoInv, operatorVars
  <2> QED BY <1>1, <2>2, WorkerRaces
<1>2. CASE Fault(w)
  <2>1. UNCHANGED operatorVars /\ faults' # 0
    BY <1>2 DEF Fault, TypeOK
  <2> QED BY <2>1 DEF RaceInv, UndoInv, operatorVars
<1> QED BY <1>1, <1>2

\* The migration being undone is the last of those recorded, which have no gap.
LEMMA UndoIsLast ==
    ASSUME TypeOK, StoppedInv, LinesInv, undo # 0
    PROVE  undo \in Numbers /\ Recorded = 1..undo
BY RecordedIsInitial DEF StoppedInv, LinesInv, Recorded

\* A down that has come to its end has taken back its up.
LEMMA UndoEnds ==
    ASSUME TypeOK, FormInv, DownInv, undo \in Numbers \ Lossy, ustep \notin DOMAIN Down(undo)
    PROVE  db = SchemaAt[undo - 1]
<1>1. \A h \in DOMAIN Down(undo) : h < ustep
  BY VersionsAssumption DEF TypeOK, FormInv
<1>2. undo \notin Refused
  BY <1>1 DEF Refused, DownInv
<1>3. ustep \in Nat /\ ustep # 0
  BY DEF TypeOK, FormInv
<1> QED BY <1>2, <1>3, UndoneLast DEF DownInv

LEMMA OperatorRaces ==
    ASSUME TypeOK, ApplyInv, LinesInv, RaceInv, UndoInv, Operate
    PROVE  RaceInv' /\ UndoInv'
<1>1. FormInv /\ StoppedInv /\ SoundInv /\ NoGaps /\ ustep \in Nat
  BY DEF ApplyInv, LinesInv, TypeOK
<1>2. CASE BeginRevert
  <2>1. /\ undo = 0 /\ Recorded # {} /\ undo' = Latest(Recorded) /\ ustep' = 1
        /\ reverts' = reverts + 1 /\ UNCHANGED <<db, marred, faults>>
        /\ \A w \in Workers : ~Running(w)
    BY <1>2 DEF BeginRevert, Running
  <2>2. PICK m : m = undo'
    OBVIOUS
  <2>3. m \in Numbers /\ Recorded = 1..m /\ m # 0
    <3>1. m \in Recorded /\ \A k \in Recorded : k <= m
      BY <2>1, <2>2, LatestIsLast DEF Recorded
    <3> QED BY <1>1, <3>1, RecordedIsInitial, VersionsAssumption DEF Numbers
  <2>4. ASSUME faults = 0, reverts' = 1 \/ ~marred PROVE DownInv'
    <3>1. ~marred
      BY <2>1, <2>4 DEF UndoInv, TypeOK
    <3>2. ExactInv /\ AppliedInv
      BY <1>1, <2>1, <2>4, <3>1 DEF RaceInv, SoundInv
    <3>3. db = SchemaAt[m]
      BY <1>1, <2>1, <2>3, <3>2, ExactIsSchema
    <3>4. db' = Undone(m, 1)
      BY <2>1, <2>3, <3>3, UndoneFirst
    <3>5. \A h \in DOMAIN Down(m) : ~(h < 1)
      BY <2>3, VersionsAssumption
    <3> QED BY <2>1, <2>2, <3>4, <3>5 DEF DownInv
  <2>5. reverts' # 0
    BY <2>1 DEF TypeOK
  <2> QED BY <2>1, <2>2, <2>3, <2>4, <2>5 DEF RaceInv, UndoInv
<1>3. CASE ExecuteDown
  <2>1. /\ undo # 0 /\ undo' = undo /\ ustep \in DOMAIN Down(undo) /\ ustep' = ustep + 1
        /\ Can(db, Down(undo)[ustep]) /\ db' = Apply(db, Down(undo)[ustep])
        /\ marred' = (marred \/ undo \in Lossy) /\ UNCHANGED <<reverts, faults>>
    BY <1>3 DEF ExecuteDown
  <2>2. PICK k, n : k = undo /\ n = ustep
    OBVIOUS
  <2>3. k \in Numbers /\ n \in DOMAIN Down(k) /\ n \in Nat
    BY <1>1, <2>1, <2>2, UndoIsLast
  <2>4. ASSUME DownInv PROVE DownInv'
    <3>1. db = Undone(k, n) /\ \A h \in DOMAIN Down(k) : h < n => Can(Undone(k, h), Down(k)[h])
      BY <2>2, <2>4 DEF DownInv
    <3>2. db' = Undone(k, n + 1)
      BY <2>1, <2>2, <2>3, <3>1, UndoneNext
    <3>3. \A h \in DOMAIN Down(k) : h < n + 1 => h < n \/ h = n
      BY <2>3, VersionsAssumption
    <3>4. \A h \in DOMAIN Down(k) : h < n + 1 => Can(Undone(k, h), Down(k)[h])
      BY <2>1, <2>2, <3>1, <3>3
    <3>5. undo' = k /\ ustep' = n + 1
      BY <2>1, <2>2
    <3> QED BY <3>2, <3>4, <3>5 DEF DownInv
  <2> QED BY <2>1, <2>4 DEF RaceInv, UndoInv
<1>4. CASE RefuseDown
  <2>1. /\ undo # 0 /\ undo' = 0 /\ marred' = (marred \/ ustep > 1)
        /\ UNCHANGED <<db, records, reverts, faults>>
    BY <1>4 DEF RefuseDown
  <2>2. UndoInv'
    BY <2>1 DEF UndoInv
  <2>3. ASSUME faults = 0, ~marred' PROVE ExactInv'
    <3>1. undo \in Numbers /\ Recorded = 1..undo /\ DownInv /\ ustep = 1
      <4>1. ~marred /\ ~(ustep > 1)
        BY <2>1, <2>3
      <4>2. ustep = 1
        BY <1>1, <4>1 DEF FormInv
      <4>3. DownInv
        BY <2>1, <2>3, <4>1 DEF UndoInv
      <4> QED BY <1>1, <2>1, <4>2, <4>3, UndoIsLast
    <3>2. db = SchemaAt[undo]
      BY <3>1, UndoneFirst DEF DownInv
    <3>3. OwnInv /\ OriginInv /\ \A k \in Numbers : \A i \in DOMAIN Up(k) :
            Up(k)[i].clashes # {} /\ Given(k, i) => k \in 1..undo
      BY <3>1, <3>2, SchemaIsExact
    <3>4. Recorded' = 1..undo
      BY <2>1, <3>1 DEF Recorded
    <3>5. CarriedInv'
      BY <2>1, <3>3, <3>4 DEF CarriedInv, Given
    <3>6. OwnInv' /\ OriginInv'
      BY <2>1, <3>3 DEF OwnInv, OriginInv, Given, Exists
    <3> QED BY <3>5, <3>6 DEF ExactInv
  <2> QED BY <2>1, <2>2, <2>3 DEF RaceInv
<1>5. CASE EndRevert
  <2>1. /\ undo # 0 /\ undo' = 0 /\ ustep \notin DOMAIN Down(undo)
        /\ records' = [records EXCEPT ![undo] = 0]
        /\ UNCHANGED <<db, marred, reverts, faults>>
    BY <1>5 DEF EndRevert
  <2>2. UndoInv'
    BY <2>1 DEF UndoInv
  <2>3. ASSUME faults = 0, ~marred PROVE ExactInv'
    <3>1. undo \in Numbers /\ Recorded = 1..undo /\ DownInv
      BY <1>1, <2>1, <2>3, UndoIsLast DEF UndoInv
    <3>2. undo \notin Lossy
      <4>1. CASE ustep # 1
        BY <2>1, <2>3, <4>1 DEF UndoInv
      <4>2. CASE ustep = 1
        <5>1. DOMAIN Down(undo) = {}
          BY <2>1, <3>1, <4>2, VersionsAssumption
        <5> QED BY <5>1 DEF Lossy
      <4> QED BY <4>1, <4>2
    <3>3. db = SchemaAt[undo - 1]
      BY <1>1, <2>1, <3>1, <3>2, UndoEnds
    <3>4. undo - 1 \in {0} \union Numbers
      BY <3>1, VersionsAssumption DEF Numbers
    <3>5. OwnInv /\ OriginInv /\ \A k \in Numbers : \A i \in DOMAIN Up(k) :
            Up(k)[i].clashes # {} /\ Given(k, i) => k \in 1..(undo - 1)
      BY <3>3, <3>4, SchemaIsExact
    <3>6. Recorded' = Recorded \ {undo}
      BY <2>1 DEF Recorded, TypeOK
    <3>7. \A k \in 1..(undo - 1) : k \in Recorded'
      BY <3>1, <3>6, VersionsAssumption DEF Numbers
    <3>8. CarriedInv'
      <4>1. \A k \in Numbers : \A i \in DOMAIN Up(k) : Given(k, i)' <=> Given(k, i)
        BY <2>1 DEF Given
      <4>2. \A k \in Numbers : \A i \in DOMAIN Up(k) :
              Up(k)[i].clashes # {} /\ Given(k, i)' => k \in Recorded'
        BY <3>5, <3>7, <4>1
      <4> QED BY <4>2 DEF CarriedInv
    <3>9. OwnInv' /\ OriginInv'
      <4>1. OwnInv'
        BY <2>1, <3>5 DEF OwnInv, Given, Exists
      <4>2. OriginInv'
        BY <2>1, <3>5 DEF OriginInv, Given
      <4> QED BY <4>1, <4>2
    <3> QED BY <3>8, <3>9 DEF ExactInv
  <2> QED BY <2>1, <2>2, <2>3 DEF RaceInv
<1> QED BY <1>2, <1>3, <1>4, <1>5 DEF Operate

LEMMA NextRaces ==
    TypeOK /\ ApplyInv /\ LinesInv /\ RaceInv /\ UndoInv /\ [Next]_vars => RaceInv' /\ UndoInv'
<1> SUFFICES ASSUME TypeOK, ApplyInv, LinesInv, RaceInv, UndoInv, [Next]_vars
             PROVE  RaceInv' /\ UndoInv'
  OBVIOUS
<1>1. CASE UNCHANGED vars
  <2>1. UNCHANGED <<db, records, pc, todo, step, open, undo, ustep, marred, faults, reverts>>
    BY <1>1 DEF vars, workerVars, operatorVars
  <2>2. RaceInv'
    BY <2>1 DEF RaceInv, ExactInv, OwnInv, OriginInv, CarriedInv, Carries, Past, At, Given,
                Exists, Recorded
  <2>3. UndoInv'
    BY <2>1 DEF UndoInv, DownInv
  <2> QED BY <2>2, <2>3
<1>2. CASE Next
  BY <1>2, StartRaces, OperatorRaces DEF Next
<1> QED BY <1>1, <1>2

\* While the last migration is undone, nothing later is there.
LEMMA NothingLater ==
    ASSUME TypeOK, FormInv, StoppedInv, LinesInv, UndoInv, faults = 0, ~marred, undo # 0
    PROVE  ~Torn
<1>1. undo \in Numbers /\ Recorded = 1..undo /\ DownInv
  BY UndoIsLast DEF UndoInv
<1>2. ASSUME NEW t \in Tables, NEW o \in db[t] PROVE o \in SchemaAt[undo][t]
  <2>1. CASE ustep = 1
    BY <1>1, <1>2, <2>1, UndoneFirst DEF DownInv
  <2>2. CASE ustep # 1
    <3>1. undo \in Numbers \ Lossy
      BY <1>1, <2>2 DEF UndoInv
    <3>2. \A g \in DOMAIN Down(undo) : Down(undo)[g].adds = {}
      BY <3>1, DownOnlyDrops
    <3>3. ustep \in Nat /\ o \in Undone(undo, ustep)[t]
      BY <1>1, <1>2 DEF DownInv, TypeOK
    <3> QED BY <1>1, <3>2, <3>3, UndoneHas
  <2> QED BY <2>1, <2>2
<1>3. ASSUME NEW k \in Numbers \ Recorded, NEW i \in DOMAIN Up(k), Exclusive(Up(k)[i]), Given(k, i)
      PROVE  FALSE
  <2>1. PICK p \in Up(k)[i].clashes : \E o \in db[p.table] :
          Matches(o, p) /\ p.table = Up(k)[i].table
    BY <1>3, GivenIsSeen DEF Exclusive
  <2>2. PICK o \in db[p.table] : Matches(o, p)
    BY <2>1
  <2>3. o \in SchemaAt[undo][p.table]
    BY <1>2, <2>1, HasTable
  <2> QED BY <1>1, <2>2, <2>3, ClashesLater
<1> QED BY <1>3 DEF Torn

\* Workers that start at once, of whatever number, and fail on each other's work
\* never leave a migration half done with nobody about to go on with it: whoever
\* fails does so on the work of one that is further, and the one that is last has
\* committed, and records it.
THEOREM RacesDoNotTear == Spec => []RacesTearNothing
<1>1. TypeOK /\ ApplyInv /\ LinesInv /\ RaceInv /\ UndoInv => RacesTearNothing
  <2> SUFFICES ASSUME TypeOK, ApplyInv, LinesInv, RaceInv, UndoInv, faults = 0, ~marred
               PROVE  ~Torn
    BY DEF RacesTearNothing
  <2>1. CASE undo # 0
    BY <2>1, NothingLater DEF ApplyInv
  <2>2. CASE undo = 0
    <3>1. CarriedInv
      BY <2>2 DEF RaceInv, ExactInv
    <3> QED BY <3>1 DEF Torn, CarriedInv, Carries, Exclusive
  <2> QED BY <2>1, <2>2
<1> QED BY <1>1, InitTypeOK, NextTypeOK, InitApplyInv, NextApplyInv, InitOrdered, NextOrdered,
           InitRaces, NextRaces, PTL DEF Spec

\* Wherever the workers were stopped, short of a crash, the operator finds the
\* schema of the last migration recorded: a down fails only if it fails there, and
\* if it comes through and drops no more than its own, the schema of the one before
\* is left.
THEOREM RevertsTakeBack == Spec => RevertsAreExact
<1> DEFINE Exact ==
      faults = 0 /\ (reverts = 1 \/ ~marred) =>
        /\ RefuseDown => undo \in Refused
        /\ EndRevert /\ undo \notin Lossy => db = SchemaAt[undo - 1]
<1>1. TypeOK /\ ApplyInv /\ LinesInv /\ UndoInv => Exact
  <2> SUFFICES ASSUME TypeOK, ApplyInv, LinesInv, UndoInv, faults = 0, reverts = 1 \/ ~marred
               PROVE  /\ RefuseDown => undo \in Refused
                      /\ EndRevert /\ undo \notin Lossy => db = SchemaAt[undo - 1]
    OBVIOUS
  <2>1. undo # 0 => undo \in Numbers /\ DownInv
    BY UndoIsLast DEF UndoInv, ApplyInv
  <2>2. RefuseDown => undo \in Refused
    BY <2>1 DEF RefuseDown, Refused, DownInv
  <2>3. EndRevert /\ undo \notin Lossy => db = SchemaAt[undo - 1]
    BY <2>1, UndoEnds DEF EndRevert, ApplyInv
  <2> QED BY <2>2, <2>3
<1>2. TypeOK /\ ApplyInv /\ LinesInv /\ UndoInv /\ [Next]_vars => [Exact]_vars
  BY <1>1
<1> QED BY <1>2, InitTypeOK, NextTypeOK, InitApplyInv, NextApplyInv, InitOrdered, NextOrdered,
           InitRaces, NextRaces, PTL DEF Spec, RevertsAreExact

-----------------------------------------------------------------------------
(* What the workers serve over *)

\* Nothing is there that no migration brings.
BroughtInv ==
    ~marred => \A t \in Tables : \A o \in db[t] : \E k \in Numbers : o \in Brings(k, t)

\* Who serves has seen all migrations recorded.
ServeInv == (\E w \in Workers : pc[w] = "serve") => Recorded = Numbers

LEMMA InitServes == Init => BroughtInv /\ ServeInv
<1> SUFFICES ASSUME Init PROVE BroughtInv
  BY DEF Init, ServeInv
<1>1. PICK v \in {0} \union Numbers : db = SchemaAt[v]
  BY MigrationsAssumption, VersionsAssumption DEF Init, Numbers
<1>2. 1..v \subseteq Numbers
  BY SchemaIs
<1> QED BY <1>1, <1>2, SchemaHas DEF BroughtInv

LEMMA NextServes ==
    TypeOK /\ ApplyInv /\ LinesInv /\ BroughtInv /\ ServeInv /\ [Next]_vars
        => BroughtInv' /\ ServeInv'
<1> SUFFICES ASSUME TypeOK, ApplyInv, LinesInv, BroughtInv, ServeInv, [Next]_vars
             PROVE  BroughtInv' /\ ServeInv'
  OBVIOUS
<1>1. FormInv /\ StoppedInv /\ \A k \in Recorded : k \in Numbers
  BY DEF ApplyInv, Recorded
<1>2. CASE UNCHANGED vars
  <2>1. UNCHANGED <<db, records, pc, marred>>
    BY <1>2 DEF vars, workerVars, operatorVars
  <2> QED BY <2>1 DEF BroughtInv, ServeInv, Recorded
<1>3. ASSUME NEW w \in Workers, Start(w) \/ Fault(w) PROVE BroughtInv' /\ ServeInv'
  <2>1. marred' = marred
    BY <1>3 DEF Start, Load, CheckTable, Execute, Fail, Record, Finish, Fault, operatorVars
  <2>2. Recorded \subseteq Recorded' /\ Recorded' \subseteq Numbers
    <3>1. records' = records \/ \E ks : Save(ks)
      BY <1>3 DEF Start, Load, CheckTable, Execute, Commit, Fail, Record, Finish, Fault
    <3> QED BY <3>1, SaveIsTyped DEF Recorded
  <2>3. BroughtInv'
    <3>1. CASE db' = db
      BY <2>1, <3>1 DEF BroughtInv
    <3>2. CASE Execute(w)
      <4>1. PICK k, n : k = At(w) /\ n = step[w]
        OBVIOUS
      <4>2. k \in Numbers /\ n \in DOMAIN Up(k) /\ db' = Apply(db, Up(k)[n])
        BY <3>2, <4>1, AtIsPending DEF Execute, Ready, Current
      <4>3. ASSUME NEW t \in Tables, NEW o \in db'[t], o \notin db[t] PROVE o \in Brings(k, t)
        <5>1. t = Up(k)[n].table /\ o \in Up(k)[n].adds
          BY <1>1, <4>2, <4>3, HasTable DEF FormInv, Apply
        <5> QED BY <4>2, <5>1 DEF Brings
      <4> QED BY <2>1, <4>2, <4>3 DEF BroughtInv
    <3> QED BY <1>3, <3>1, <3>2 DEF Start, Load, CheckTable, Fail, Record, Finish, Fault
  <2>4. ASSUME NEW v \in Workers, pc'[v] = "serve" PROVE Recorded' = Numbers
    <3>1. CASE pc[v] = "serve"
      BY <2>2, <3>1 DEF ServeInv
    <3>2. CASE pc[v] # "serve"
      <4>1. v = w /\ (Load(w) \/ Finish(w))
        BY <1>3, <2>4, <3>2 DEF Start, Load, CheckTable, Execute, Fail, Record, Finish, Fault,
                                Restart, TypeOK
      <4>2. CASE Load(w)
        <5>1. Pending = {}
          BY <2>4, <4>1, <4>2 DEF Load, TypeOK
        <5> QED BY <2>2, <5>1 DEF Pending
      <4>3. CASE Finish(w)
        <5>1. todo[w] = {} /\ Running(w) /\ Save(unsaved[w])
          BY <4>3 DEF Finish, Running
        <5>2. Recorded' = Recorded \union unsaved[w]
          BY <5>1, SaveIsTyped DEF TypeOK
        <5> QED BY <2>2, <5>1, <5>2 DEF LinesInv, LinedUp
      <4> QED BY <4>1, <4>2, <4>3
    <3> QED BY <3>1, <3>2
  <2> QED BY <2>3, <2>4 DEF ServeInv
<1>4. CASE Operate
  <2>1. \A w \in Workers : pc'[w] = "load"
    BY <1>1, <1>4 DEF Operate, BeginRevert, ExecuteDown, RefuseDown, EndRevert, workerVars,
                      StoppedInv
  <2>2. BroughtInv'
    <3>1. CASE db' = db /\ (marred => marred')
      BY <3>1 DEF BroughtInv
    <3>2. CASE ExecuteDown
      <4> SUFFICES ASSUME ~marred', NEW t \in Tables, NEW o \in db'[t]
                   PROVE  \E k \in Numbers : o \in Brings(k, t)
        BY DEF BroughtInv
      <4>1. /\ ~marred /\ undo \in Numbers \ Lossy /\ ustep \in DOMAIN Down(undo)
            /\ db' = Apply(db, Down(undo)[ustep])
        BY <3>2 DEF ExecuteDown, TypeOK
      <4>2. Down(undo)[ustep].adds = {}
        BY <4>1, DownOnlyDrops
      <4>3. o \in db[t]
        BY <1>1, <4>1, <4>2 DEF FormInv, Apply
      <4> QED BY <4>1, <4>3 DEF BroughtInv
    <3>3. CASE BeginRevert \/ EndRevert
      BY <3>1, <3>3 DEF BeginRevert, EndRevert
    <3>4. CASE RefuseDown
      <4>1. db' = db /\ marred' = (marred \/ ustep > 1)
        BY <3>4 DEF RefuseDown
      <4>2. marred => marred'
        BY <4>1
      <4> QED BY <3>1, <4>1, <4>2
    <3> QED BY <1>4, <3>2, <3>3, <3>4 DEF Operate
  <2> QED BY <2>1, <2>2 DEF ServeInv
<1> QED BY <1>2, <1>3, <1>4 DEF Next

\* Short of a down that was refused halfway or drops what is not its own, a worker
\* serves over the schema of the whole list of migrations, no more and no less,
\* whoever ran them, crashed or raced.
THEOREM ServesWhole ==
    Spec => [](~marred /\ (\E w \in Workers : pc[w] = "serve") => db = SchemaAt[Len(Versions)])
<1>1. TypeOK /\ ApplyInv /\ BroughtInv /\ ServeInv =>
        (~marred /\ (\E w \in Workers : pc[w] = "serve") => db = SchemaAt[Len(Versions)])
  <2> SUFFICES ASSUME TypeOK, ApplyInv, BroughtInv, ServeInv, ~marred,
                      NEW w \in Workers, pc[w] = "serve"
               PROVE  db = SchemaAt[Len(Versions)]
    OBVIOUS
  <2>1. Recorded = Numbers /\ undo = 0 /\ 0 \notin Numbers
    BY VersionsAssumption DEF ServeInv, ApplyInv, StoppedInv, Numbers
  <2>2. PICK m : m = Len(Versions)
    OBVIOUS
  <2>3. m \in {0} \union Numbers /\ Numbers = 1..m
    BY <2>2, VersionsAssumption DEF Numbers
  <2>4. \A k \in Numbers : All(k)
    BY <2>1 DEF ApplyInv, SoundInv, AppliedInv
  <2>5. ASSUME NEW t \in Tables PROVE db[t] = SchemaAt[m][t]
    <3>1. ASSUME NEW o \in db[t] PROVE o \in SchemaAt[m][t]
      BY <2>3, <3>1, SchemaHas DEF BroughtInv
    <3>2. ASSUME NEW o \in SchemaAt[m][t] PROVE o \in db[t]
      <4>1. PICK k \in Numbers : o \in Brings(k, t)
        BY <2>3, <3>2, SchemaHas
      <4>2. PICK i \in DOMAIN Up(k) : Up(k)[i].table = t /\ o \in Up(k)[i].adds
        BY <4>1 DEF Brings
      <4> QED BY <2>4, <4>2 DEF All, Given
    <3> QED BY <3>1, <3>2
  <2>6. SchemaAt[m] = [t \in Tables |-> SchemaAt[m][t]]
    BY <2>3, SchemaIs
  <2>7. db = [t \in Tables |-> db[t]]
    BY DEF ApplyInv, FormInv
  <2> QED BY <2>2, <2>5, <2>6, <2>7
<1> QED BY <1>1, InitTypeOK, NextTypeOK, InitApplyInv, NextApplyInv, InitOrdered, NextOrdered,
           InitServes, NextServes, PTL DEF Spec

\* The same for the entities: the schema a worker serves over has what they declare
\* and asks for no more, short of such a down.
THEOREM EntitiesFitUnmarred == Spec => [](~marred => EntitiesFit)
<1>1. (~marred /\ (\E w \in Workers : pc[w] = "serve") => db = SchemaAt[Len(Versions)])
        => (~marred => EntitiesFit)
  BY EntitiesFitVersions DEF EntitiesFit, Serving
<1> QED BY <1>1, ServesWhole, PTL

=============================================================================
