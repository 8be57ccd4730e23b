----------------------------- MODULE Migrations -----------------------------
(***************************************************************************)
(* The migrations of a data source, run by every worker of the cluster     *)
(* when it starts (migrationsRun): nothing keeps two workers from running  *)
(* the same one at once.  A worker that fails is started again and reads   *)
(* anew what has been recorded.  An operator may undo the last migration   *)
(* while the service is stopped.                                           *)
(*                                                                         *)
(* MySQL commits before each statement on the schema, whatever comes of    *)
(* it: a migration that is cut short leaves what it has done behind, and   *)
(* of the transaction TypeORM opens around them only the records made      *)
(* before the first such statement can be lost.                            *)
(***************************************************************************)
EXTENDS Ddl, Integers, FiniteSets

CONSTANTS
    Workers,
    Versions,     \* the migrations in order: [up |-> statements, down |-> statements]
    Starts,       \* how many of them the database may have seen before
    MaxFaults,    \* bound: crashes of a worker and failures of its connection
    MaxReverts,   \* bound: attempts to undo a migration
    MaxUpsets     \* bound: all of these

Numbers == 1..Len(Versions)
Up(k) == Versions[k].up
Down(k) == Versions[k].down

Tables == UNION {{Up(k)[i].table : i \in DOMAIN Up(k)} : k \in Numbers}

\* What migration k brings into a table.
Brings(k, t) == UNION {Up(k)[i].adds : i \in {h \in DOMAIN Up(k) : Up(k)[h].table = t}}

\* The database after the first v migrations.
SchemaAt ==
    [v \in {0} \union Numbers |->
        [t \in Tables |-> UNION {Brings(k, t) : k \in 1..v}]]

ASSUME MigrationsAssumption ==
    /\ Starts \subseteq 0..Len(Versions)
    /\ MaxFaults \in Nat /\ MaxReverts \in Nat /\ MaxUpsets \in Nat

ASSUME VersionsAssumption ==
    /\ Len(Versions) \in Nat
    /\ \A k \in Numbers :
        /\ DOMAIN Up(k) = 1..Len(Up(k)) /\ Len(Up(k)) \in Nat
        /\ DOMAIN Down(k) = 1..Len(Down(k)) /\ Len(Down(k)) \in Nat

\* up drops nothing; a statement clashes with what it adds, if with anything.
ASSUME UpOnlyAdds ==
    \A k \in Numbers : \A i \in DOMAIN Up(k) :
        /\ Up(k)[i].drops = {} /\ ~Up(k)[i].whole
        /\ \A p \in Up(k)[i].clashes :
            p.table = Up(k)[i].table /\ \E o \in Up(k)[i].adds : Matches(o, p)

\* What clashes with a statement is added by no other one.
ASSUME EachAddedOnce ==
    \A k, j \in Numbers : \A i \in DOMAIN Up(k), h \in DOMAIN Up(j) :
        \A p \in Up(k)[i].clashes : \A o \in Up(j)[h].adds :
            p.table = Up(j)[h].table /\ Matches(o, p) => k = j /\ i = h

\* What a statement needs, one before it adds.
ASSUME NeedsAreMet ==
    \A k \in Numbers : \A i \in DOMAIN Up(k) : \A p \in Up(k)[i].needs :
        \E j \in Numbers : \E h \in DOMAIN Up(j) :
            /\ j < k \/ (j = k /\ h < i)
            /\ Up(j)[h].table = p.table /\ \E o \in Up(j)[h].adds : Matches(o, p)

\* What adds something clashes with it; a statement on rows does not.
ASSUME AddsClash ==
    \A k \in Numbers : \A i \in DOMAIN Up(k) :
        /\ Up(k)[i].adds # {} => Up(k)[i].clashes # {}
        /\ Up(k)[i].rows => Up(k)[i].clashes = {}

VARIABLES
    db,        \* the schema
    records,   \* how many rows of the table of migrations name each one
    pc,        \* what each worker is doing
    todo,      \* the migrations it has yet to run, as it believes
    step,      \* the statement it is at
    open,      \* is its transaction open, no statement having committed it?
    unsaved,   \* the records it has made in that transaction
    undo, ustep,  \* the migration the operator is undoing, or 0, and the statement
    reverts,   \* attempts to undo a migration
    marred,    \* history: was a migration undone halfway, or with more than its own?
    faults

workerVars == <<pc, todo, step, open, unsaved>>
operatorVars == <<undo, ustep, reverts, marred>>
vars == <<db, records, workerVars, operatorVars, faults>>

TypeOK ==
    /\ records \in [Numbers -> Nat]
    /\ pc \in [Workers -> {"load", "run", "create", "serve"}]
    /\ todo \in [Workers -> SUBSET Numbers]
    /\ step \in [Workers -> Nat]
    /\ open \in [Workers -> BOOLEAN]
    /\ unsaved \in [Workers -> SUBSET Numbers]
    /\ undo \in Numbers \union {0} /\ ustep \in Nat
    /\ marred \in BOOLEAN
    /\ reverts \in Nat /\ faults \in Nat

Init ==
    /\ \E v \in Starts :
        /\ db = SchemaAt[v]
        /\ records = [k \in Numbers |-> IF k <= v THEN 1 ELSE 0]
    /\ pc = [w \in Workers |-> "load"]
    /\ todo = [w \in Workers |-> {}] /\ unsaved = [w \in Workers |-> {}]
    /\ step = [w \in Workers |-> 1]
    /\ open = [w \in Workers |-> FALSE]
    /\ undo = 0 /\ ustep = 1 /\ reverts = 0 /\ marred = FALSE
    /\ faults = 0

Recorded == {k \in Numbers : records[k] > 0}

\* Recorded rows gain those of ks.
Save(ks) == records' = [k \in Numbers |-> IF k \in ks THEN records[k] + 1 ELSE records[k]]

-----------------------------------------------------------------------------
(* A worker starts *)

\* Mutant: the one after as many as there are rows.
Pending_Next == {Cardinality(Recorded) + 1}

\* The migrations whose name is in no row of the table.
Pending == Numbers \ Recorded

\* Mutant: the worker serves at once (no migrationsRun).
Load_Serves(w) ==
    /\ pc[w] = "load" /\ undo = 0
    /\ pc' = [pc EXCEPT ![w] = "serve"]
    /\ UNCHANGED <<db, records, todo, step, open, unsaved, operatorVars, faults>>

\* The data source connects, and begins with the migrations that are pending.
Load(w) ==
    /\ pc[w] = "load" /\ undo = 0
    /\ pc' = [pc EXCEPT ![w] = IF Pending = {} THEN "serve" ELSE "run"]
    /\ todo' = [todo EXCEPT ![w] = Pending]
    /\ step' = [step EXCEPT ![w] = 1]
    /\ open' = [open EXCEPT ![w] = (Pending # {})]
    /\ unsaved' = [unsaved EXCEPT ![w] = {}]
    /\ UNCHANGED <<db, records, operatorVars, faults>>

\* Mutant: the last one comes first.
Earliest_Last(ks) == CHOOSE k \in ks : \A j \in ks : j <= k

\* They are run in order.
Earliest(ks) == CHOOSE k \in ks : \A j \in ks : k <= j
At(w) == Earliest(todo[w])

\* Mutant: a migration is over with its first statement.
Between_First(w) == pc[w] = "run" /\ todo[w] # {} /\ step[w] > 1

\* A migration is over with its last statement.
Between(w) == pc[w] = "run" /\ todo[w] # {} /\ step[w] \notin DOMAIN Up(At(w))
Current(w) == Up(At(w))[step[w]]

\* createTable with ifNotExist looks for the table and is done if it is there.
CheckTable(w) ==
    /\ pc[w] = "run" /\ todo[w] # {} /\ step[w] \in DOMAIN Up(At(w))
    /\ Current(w).checks
    /\ IF \E p \in Current(w).clashes : Exists(db, p)
         THEN step' = [step EXCEPT ![w] = @ + 1] /\ UNCHANGED pc
         ELSE pc' = [pc EXCEPT ![w] = "create"] /\ UNCHANGED step
    /\ UNCHANGED <<db, records, todo, open, unsaved, operatorVars, faults>>

Ready(w) ==
    /\ todo[w] # {} /\ step[w] \in DOMAIN Up(At(w))
    /\ pc[w] = IF Current(w).checks THEN "create" ELSE "run"

\* A statement on the schema ends the open transaction; one that reads and
\* updates rows has connections of its own.
Commit(w) ==
    IF Current(w).rows \/ ~open[w]
      THEN UNCHANGED <<records, open, unsaved>>
      ELSE /\ Save(unsaved[w])
           /\ open' = [open EXCEPT ![w] = FALSE]
           /\ unsaved' = [unsaved EXCEPT ![w] = {}]

Execute(w) ==
    /\ Ready(w) /\ Can(db, Current(w))
    /\ db' = Apply(db, Current(w))
    /\ Commit(w)
    /\ pc' = [pc EXCEPT ![w] = "run"]
    /\ step' = [step EXCEPT ![w] = @ + 1]
    /\ UNCHANGED <<todo, operatorVars, faults>>

\* Mutant: the cluster goes down with any of its workers.
Restart_All(w) ==
    /\ pc' = [v \in Workers |-> "load"]
    /\ todo' = [v \in Workers |-> {}]
    /\ step' = [v \in Workers |-> 1]
    /\ open' = [v \in Workers |-> FALSE]
    /\ unsaved' = [v \in Workers |-> {}]

\* What a worker knew goes with its data source.
Restart(w) ==
    /\ pc' = [pc EXCEPT ![w] = "load"]
    /\ todo' = [todo EXCEPT ![w] = {}]
    /\ step' = [step EXCEPT ![w] = 1]
    /\ open' = [open EXCEPT ![w] = FALSE]
    /\ unsaved' = [unsaved EXCEPT ![w] = {}]

\* The data source is destroyed; the module retries, or the worker dies and
\* another one is forked.
Fail(w) ==
    /\ Ready(w) /\ ~Can(db, Current(w))
    /\ IF Current(w).rows THEN UNCHANGED records ELSE Save(unsaved[w])
    /\ Restart(w)
    /\ UNCHANGED <<db, operatorVars, faults>>

\* All its statements have been run: a row records the migration.
Record(w) ==
    /\ Between(w)
    /\ IF open[w]
         THEN unsaved' = [unsaved EXCEPT ![w] = @ \union {At(w)}] /\ UNCHANGED records
         ELSE Save({At(w)}) /\ UNCHANGED unsaved
    /\ todo' = [todo EXCEPT ![w] = @ \ {At(w)}]
    /\ step' = [step EXCEPT ![w] = 1]
    /\ UNCHANGED <<db, pc, open, operatorVars, faults>>

\* No migration is left: what is open is committed and the worker serves.
Finish(w) ==
    /\ pc[w] = "run" /\ todo[w] = {}
    /\ Save(unsaved[w])
    /\ open' = [open EXCEPT ![w] = FALSE]
    /\ unsaved' = [unsaved EXCEPT ![w] = {}]
    /\ pc' = [pc EXCEPT ![w] = "serve"]
    /\ UNCHANGED <<db, todo, step, operatorVars, faults>>

\* A worker dies or loses its connection, wherever it is; its transaction is
\* rolled back.
Fault(w) ==
    /\ faults < MaxFaults /\ faults + reverts < MaxUpsets
    /\ faults' = faults + 1
    /\ Restart(w)
    /\ UNCHANGED <<db, records, operatorVars>>

-----------------------------------------------------------------------------
(* The operator undoes the last migration that is recorded *)

\* Mutant: the first one is undone.
Latest_First(ks) == CHOOSE k \in ks : \A j \in ks : k <= j

Latest(ks) == CHOOSE k \in ks : \A j \in ks : j <= k

\* The service is stopped for it.
BeginRevert ==
    /\ undo = 0 /\ Recorded # {}
    /\ \A w \in Workers : pc[w] \in {"load", "serve"}
    /\ reverts < MaxReverts /\ faults + reverts < MaxUpsets
    /\ reverts' = reverts + 1
    /\ undo' = Latest(Recorded) /\ ustep' = 1
    /\ pc' = [w \in Workers |-> "load"]
    /\ UNCHANGED <<db, records, todo, step, open, unsaved, marred, faults>>

\* The migrations whose down drops what was there before them.
Lossy ==
    {k \in Numbers : \E i \in DOMAIN Down(k) :
        \E o \in SchemaAt[k - 1][Down(k)[i].table] : Dropped(o, Down(k)[i])}

\* down adds nothing but what a lossy one renames, and of a table that is made
\* if it does not exist it drops all or nothing.
ASSUME DownOnlyDrops ==
    \A k \in Numbers \ Lossy : \A h \in DOMAIN Down(k) :
        /\ Down(k)[h].adds = {}
        /\ \A j \in Numbers : \A i \in DOMAIN Up(j) :
            Up(j)[i].checks /\ Down(k)[h].table = Up(j)[i].table =>
                Down(k)[h].whole \/ \A o \in Up(j)[i].adds : ~Dropped(o, Down(k)[h])

\* Does o of table t go with statement h of the down of k?
Goes(o, t, k, h) == Down(k)[h].table = t /\ Dropped(o, Down(k)[h])

\* What the nth statement of the down of k finds, when it is the last migration.
Undone(k, n) ==
    LET Since(g) == {h \in DOMAIN Down(k) : g < h /\ h < n} IN
    [t \in Tables |->
        {o \in SchemaAt[k][t] : \A h \in Since(0) : ~Goes(o, t, k, h)} \union
        UNION {{o \in Down(k)[g].adds : \A h \in Since(g) : ~Goes(o, t, k, h)} :
                 g \in {h \in Since(0) : Down(k)[h].table = t}}]

\* The migrations whose down the database refuses at some statement.
Refused == {k \in Numbers : \E h \in DOMAIN Down(k) : ~Can(Undone(k, h), Down(k)[h])}

\* The other downs drop all that their up has made.
ASSUME DownDropsAll ==
    \A k \in Numbers \ (Lossy \union Refused) : \A i \in DOMAIN Up(k) : \A o \in Up(k)[i].adds :
        \E h \in DOMAIN Down(k) : Goes(o, Up(k)[i].table, k, h)

ExecuteDown ==
    /\ undo # 0 /\ ustep \in DOMAIN Down(undo)
    /\ Can(db, Down(undo)[ustep])
    /\ db' = Apply(db, Down(undo)[ustep])
    /\ ustep' = ustep + 1
    /\ marred' = (marred \/ undo \in Lossy)
    /\ UNCHANGED <<records, workerVars, undo, reverts, faults>>

RefuseDown ==
    /\ undo # 0 /\ ustep \in DOMAIN Down(undo)
    /\ ~Can(db, Down(undo)[ustep])
    /\ undo' = 0 /\ ustep' = 1
    /\ marred' = (marred \/ ustep > 1)
    /\ UNCHANGED <<db, records, workerVars, reverts, faults>>

\* Its rows go, and the service starts again.
EndRevert ==
    /\ undo # 0 /\ ustep \notin DOMAIN Down(undo)
    /\ records' = [records EXCEPT ![undo] = 0]
    /\ undo' = 0 /\ ustep' = 1
    /\ UNCHANGED <<db, workerVars, reverts, marred, faults>>

-----------------------------------------------------------------------------
Start(w) == Load(w) \/ CheckTable(w) \/ Execute(w) \/ Fail(w) \/ Record(w) \/ Finish(w)
Operate == BeginRevert \/ ExecuteDown \/ RefuseDown \/ EndRevert

Next == (\E w \in Workers : Start(w) \/ Fault(w)) \/ Operate

Spec == Init /\ [][Next]_vars

-----------------------------------------------------------------------------
(* Properties *)

Given(k, i) == Up(k)[i].adds \subseteq db[Up(k)[i].table]

\* What is recorded as run is there, to its last statement, however many workers
\* ran it at once and wherever they failed: no later start will do it. A down
\* that was refused, or that drops what is not its own, may have taken it.
RecordedIsApplied ==
    ~marred => \A k \in Recorded \ {undo} : \A i \in DOMAIN Up(k) : Given(k, i)

NoGaps == \A k \in Numbers \ {1} : records[k] > 0 => records[k - 1] > 0

\* A migration that cannot be run twice.
Single(k) == \E i \in DOMAIN Up(k) : Exclusive(Up(k)[i])

RecordedOnce == \A k \in Numbers : Single(k) => records[k] <= 1

\* What the workers record between them is in order: no gap is left behind by one
\* that believed an earlier migration done, and of several that run one that
\* cannot be run twice, one gets to the end.
RecordsAreInOrder == NoGaps /\ RecordedOnce

\* A worker is past a statement of k that cannot be run again.
Past(w, k, i) ==
    /\ pc[w] \in {"run", "create"} /\ todo[w] # {} /\ At(w) = k /\ step[w] > i

\* A migration is half done and nobody is about to go on with it: every later
\* start will fail at the statement that cannot be run again.
Torn ==
    \E k \in Numbers \ Recorded : \E i \in DOMAIN Up(k) :
        /\ Exclusive(Up(k)[i]) /\ Given(k, i)
        /\ \A w \in Workers : ~Past(w, k, i)

\* Workers that race, and fail on what another one has done, never leave a
\* migration half done, whatever was undone before: only a crash, or a down that was
\* refused halfway or drops what is not its own, does so.
RacesTearNothing == faults = 0 /\ ~marred => ~Torn

\* Undoing a migration takes back what it made, all of it and nothing else: the
\* downs that are refused are those that the schema of their migration refuses,
\* wherever the workers were stopped, and the others, but for those that drop what
\* is not their own, leave the schema of the migration before.
RevertsAreExact ==
    [][faults = 0 /\ (reverts = 1 \/ ~marred) =>
        /\ RefuseDown => undo \in Refused
        /\ EndRevert /\ undo \notin Lossy => db = SchemaAt[undo - 1]]_vars

=============================================================================
