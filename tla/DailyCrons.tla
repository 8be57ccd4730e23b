----------------------------- MODULE DailyCrons ------------------------------
(***************************************************************************)
(* The daily notifications: CronsService, whose timers fire in every       *)
(* worker and add a Bull job each, and CustomersConsumer, whose handlers   *)
(* page through the customers with a token, or through the poor wallets,   *)
(* with LIMIT and OFFSET over tables that change between two pages.        *)
(*                                                                         *)
(* People are numbers in the order of their primary keys, in which the     *)
(* database scans them.  Contents and screens are left out.                *)
(***************************************************************************)
EXTENDS Naturals, FiniteSets

CONSTANTS
    Customers,
    Shoemakers,    \* those who have a wallet
    Crons,         \* the crons of the service that fire
    BatchSize,     \* people per page (300)
    Workers,
    Slots,         \* jobs run at once; Bull gives a worker one per handler
    NoSlot,
    WorkerOf,      \* the worker of a slot
    MaxStalled,    \* times a job may stall before Bull fails it
    Faults,        \* may a call of the database, of redis or of Firebase fail?
    MaxTicks,      \* bound: times a cron is due
    MaxChanges,    \* bound: people who come and go
    MaxStalls,     \* bound: stalls of jobs
    MaxCrashes     \* bound: crashes of a worker

People == Customers \union Shoemakers

ASSUME CronsAssumption ==
    /\ IsFiniteSet(People) /\ People \subseteq Nat /\ Customers \intersect Shoemakers = {}
    /\ Crons \subseteq {"daily", "twoDays", "threeDays", "shoemakers"}
    /\ BatchSize \in Nat \ {0}
    /\ NoSlot \notin Slots /\ WorkerOf \in [Slots -> Workers]
    /\ Faults \in BOOLEAN
    /\ {MaxStalled, MaxTicks, MaxChanges, MaxStalls, MaxCrashes} \subseteq Nat

VARIABLES
    signedIn,   \* the people with an fcmToken
    poor,       \* the shoemakers with less than 500,000 in their wallet
    due,        \* the cron each worker is about to add a job for
    job,        \* redis: the jobs of each tick, one per worker that fired
    run,        \* what each slot is doing
    ticks, changes, stalls, crashes

counters == <<ticks, changes, stalls, crashes>>
vars == <<signedIn, poor, due, job, run, counters>>

\* The name of the job that each cron adds.
Kind == [daily |-> "customers-daily", twoDays |-> "customers-daily",
         threeDays |-> "customers-each-three-days", shoemakers |-> "shoemakers-daily"]

JobIds == (1..MaxTicks) \X Workers
NoJob == [state |-> "none", kind |-> "none", by |-> NoSlot, stalled |-> 0]

Jobs == [state : {"waiting", "active", "completed", "failed"}, kind : {Kind[c] : c \in Crons},
         by : Slots \union {NoSlot}, stalled : Nat]

\* A person came or went, at the nth change.
Moves == People \X (0..MaxChanges)

\* served counts the inbox rows of this run for each person; joined and left
\* hold who came and went during it.
NoRun == [pc |-> "idle", id |-> <<>>, kind |-> "none", offset |-> 0, page |-> {}, tokens |-> {},
          served |-> [p \in People |-> 0], joined |-> {}, left |-> {}, failed |-> FALSE]

Runs == [pc : {"read", "save", "send", "done"}, id : JobIds, kind : {Kind[c] : c \in Crons},
         offset : Nat, page : SUBSET People, tokens : SUBSET People,
         served : [People -> Nat], joined : SUBSET Moves, left : SUBSET Moves, failed : BOOLEAN]

TypeOK ==
    /\ signedIn \subseteq People /\ poor \subseteq Shoemakers
    /\ due \in [Workers -> Crons \union {"none"}]
    /\ job \in [JobIds -> Jobs \union {NoJob}]
    /\ \A i \in JobIds : job[i].state = "active" <=> job[i].by # NoSlot
    /\ run \in [Slots -> Runs \union {NoRun}]
    /\ {ticks, changes, stalls, crashes} \subseteq Nat

Init ==
    /\ signedIn \in SUBSET People /\ poor \in SUBSET Shoemakers
    /\ due = [w \in Workers |-> "none"]
    /\ job = [i \in JobIds |-> NoJob]
    /\ run = [s \in Slots |-> NoRun]
    /\ ticks = 0 /\ changes = 0 /\ stalls = 0 /\ crashes = 0

-----------------------------------------------------------------------------
(* The timers *)

\* The time of a cron has come, in all workers at once.
Tick(c) ==
    /\ ticks < MaxTicks /\ \A w \in Workers : due[w] = "none"
    /\ ticks' = ticks + 1
    /\ due' = [w \in Workers |-> c]
    /\ UNCHANGED <<signedIn, poor, job, run, changes, stalls, crashes>>

\* cronsQueue.add
Enqueue(w) ==
    /\ due[w] # "none"
    /\ job' = [job EXCEPT ![<<ticks, w>>] =
                 [state |-> "waiting", kind |-> Kind[due[w]], by |-> NoSlot, stalled |-> 0]]
    /\ due' = [due EXCEPT ![w] = "none"]
    /\ UNCHANGED <<signedIn, poor, run, counters>>

\* What a worker was doing ends; a worker that is started again waits for the
\* next time.
Kill(w) ==
    /\ due' = [due EXCEPT ![w] = "none"]
    /\ run' = [s \in Slots |-> IF WorkerOf[s] = w THEN NoRun ELSE run[s]]

\* Nobody awaits the add: Node ends the worker for its rejection.
EnqueueError(w) ==
    /\ Faults /\ due[w] # "none"
    /\ Kill(w)
    /\ UNCHANGED <<signedIn, poor, job, counters>>

-----------------------------------------------------------------------------
(* The consumer *)

Start(s, i) ==
    /\ run[s].pc = "idle" /\ job[i].state = "waiting"
    /\ job' = [job EXCEPT ![i].state = "active", ![i].by = s]
    /\ run' = [run EXCEPT ![s] = [NoRun EXCEPT !.pc = "read", !.id = i, !.kind = job[i].kind]]
    /\ UNCHANGED <<signedIn, poor, due, counters>>

\* The rows a kind of job selects: customers with a token, shoemakers whose
\* wallet is poor.
ListedIn(kind, tokens, short) ==
    IF kind = "shoemakers-daily" THEN short ELSE tokens \intersect Customers
Listed(kind) == ListedIn(kind, signedIn, poor)

Before(S, p) == {q \in S : q < p}

\* take(batchSize).skip(offset)
Page(S, offset) ==
    {p \in S : Cardinality(Before(S, p)) \in offset..(offset + BatchSize - 1)}

\* An empty page ends the loop.
ReadPage(s) ==
    LET page == Page(Listed(run[s].kind), run[s].offset) IN
    /\ run[s].pc = "read"
    /\ run' = [run EXCEPT ![s].page = page, ![s].tokens = page \intersect signedIn,
                          ![s].pc = IF page = {} THEN "done" ELSE "save"]
    /\ UNCHANGED <<signedIn, poor, due, job, counters>>

\* Mutant: the next page starts one further.
NextOffset_Over(s) == run[s].offset + BatchSize + 1

NextOffset(s) == run[s].offset + BatchSize

\* A row more for each person of the page.
Told(s) ==
    [p \in People |-> IF p \in run[s].page THEN run[s].served[p] + 1 ELSE run[s].served[p]]

\* Mutant: a page without tokens is read again.
SavePage_Stays(s) ==
    /\ run[s].pc = "save"
    /\ run' = IF run[s].tokens = {} THEN [run EXCEPT ![s].pc = "read"]
              ELSE [run EXCEPT ![s].served = Told(s), ![s].pc = "send"]
    /\ UNCHANGED <<signedIn, poor, due, job, counters>>

\* The inbox rows of the page are saved, in one transaction; without a token
\* there is nothing to send.
SavePage(s) ==
    /\ run[s].pc = "save"
    /\ run' = [run EXCEPT ![s].served = Told(s),
                          ![s].pc = IF run[s].tokens = {} THEN "read" ELSE "send",
                          ![s].offset = IF run[s].tokens = {} THEN NextOffset(s) ELSE @]
    /\ UNCHANGED <<signedIn, poor, due, job, counters>>

\* The messages; that Firebase fails is swallowed.
SendPage(s) ==
    /\ run[s].pc = "send"
    /\ run' = [run EXCEPT ![s].pc = "read", ![s].offset = NextOffset(s)]
    /\ UNCHANGED <<signedIn, poor, due, job, counters>>

\* Mutant: after an error the loop goes on with the messages.
RunError_GoesOn(s) ==
    /\ Faults /\ run[s].pc \in {"read", "save"}
    /\ run' = [run EXCEPT ![s].pc = IF @ = "save" THEN "send" ELSE "done", ![s].failed = TRUE]
    /\ UNCHANGED <<signedIn, poor, due, job, counters>>

\* A read or a save that fails is logged, and the job is done.
RunError(s) ==
    /\ Faults /\ run[s].pc \in {"read", "save"}
    /\ run' = [run EXCEPT ![s].pc = "done", ![s].failed = TRUE]
    /\ UNCHANGED <<signedIn, poor, due, job, counters>>

\* The job is removed (removeOnComplete), unless the slot has lost its lock.
Complete(s) ==
    LET i == run[s].id IN
    /\ run[s].pc = "done"
    /\ job' = IF job[i].by = s THEN [job EXCEPT ![i].state = "completed", ![i].by = NoSlot] ELSE job
    /\ run' = [run EXCEPT ![s] = NoRun]
    /\ UNCHANGED <<signedIn, poor, due, counters>>

-----------------------------------------------------------------------------
(* People come and go, locks run out, workers die *)

\* The runs that are on note who enters and who leaves their list.
Change(tokens, short) ==
    /\ changes < MaxChanges
    /\ changes' = changes + 1
    /\ signedIn' = tokens /\ poor' = short
    /\ run' = [s \in Slots |->
                 LET was == Listed(run[s].kind)
                     is == ListedIn(run[s].kind, tokens, short)
                 IN IF run[s].pc = "idle" THEN run[s]
                    ELSE [run[s] EXCEPT !.joined = @ \union ((is \ was) \X {changes}),
                                        !.left = @ \union ((was \ is) \X {changes})]]
    /\ UNCHANGED <<due, job, ticks, stalls, crashes>>

SignIn(p) == p \notin signedIn /\ Change(signedIn \union {p}, poor)
SignOut(p) == p \in signedIn /\ Change(signedIn \ {p}, poor)
Spend(p) == p \in Shoemakers \ poor /\ Change(signedIn, poor \union {p})
TopUp(p) == p \in poor /\ Change(signedIn, poor \ {p})

\* The worker that ran a job is gone.
Abandoned(i) == job[i].state = "active" /\ run[job[i].by].id # i

\* Mutant: the slot keeps the lock.
Stall_Keeps(i) ==
    /\ job[i].state = "active"
    /\ stalls' = IF Abandoned(i) THEN stalls ELSE stalls + 1
    /\ stalls' <= MaxStalls
    /\ job' = [job EXCEPT ![i].state = IF job[i].stalled < MaxStalled THEN "waiting" ELSE "failed",
                          ![i].stalled = @ + 1]
    /\ UNCHANGED <<signedIn, poor, due, run, ticks, changes, crashes>>

\* The lock of a job runs out, because its worker is dead or too busy: it is run
\* again, from its first page, once.
Stall(i) ==
    /\ job[i].state = "active"
    /\ stalls' = IF Abandoned(i) THEN stalls ELSE stalls + 1
    /\ stalls' <= MaxStalls
    /\ job' = [job EXCEPT ![i].state = IF job[i].stalled < MaxStalled THEN "waiting" ELSE "failed",
                          ![i].by = NoSlot,
                          ![i].stalled = @ + 1]
    /\ UNCHANGED <<signedIn, poor, due, run, ticks, changes, crashes>>

Crash(w) ==
    /\ crashes < MaxCrashes
    /\ crashes' = crashes + 1
    /\ Kill(w)
    /\ UNCHANGED <<signedIn, poor, job, ticks, changes, stalls>>

-----------------------------------------------------------------------------
RunStep(s) == ReadPage(s) \/ SavePage(s) \/ SendPage(s) \/ Complete(s)

Next ==
    \/ \E c \in Crons : Tick(c)
    \/ \E w \in Workers : Enqueue(w) \/ EnqueueError(w) \/ Crash(w)
    \/ \E s \in Slots : RunStep(s) \/ RunError(s) \/ \E i \in JobIds : Start(s, i)
    \/ \E p \in People : SignIn(p) \/ SignOut(p) \/ Spend(p) \/ TopUp(p)
    \/ \E i \in JobIds : Stall(i)

Spec == Init /\ [][Next]_vars

-----------------------------------------------------------------------------
(* Properties *)

\* How often someone before p came, or went.
MovesBefore(moves, p) == Cardinality({m \in moves : m[1] < p})

\* Those who were on the list from first to last and were not told.
Missed(s) ==
    {p \in Listed(run[s].kind) :
        run[s].served[p] = 0 /\ \A m \in run[s].joined \union run[s].left : m[1] # p}

\* A run that pages to the end skips no more people than have left before the last
\* of them meanwhile: each one who leaves moves one of the others under the offset.
SkipsOnlyByLeaving ==
    \A s \in Slots : run[s].pc = "done" /\ ~run[s].failed =>
        \A p \in Missed(s) :
            Cardinality(Before(Missed(s), p)) < MovesBefore(run[s].left, p)

\* A run tells no one twice but for those who came before them meanwhile, each of
\* whom moves one of the others into the next page.
RepeatsOnlyByJoining ==
    \A s \in Slots, p \in People :
        run[s].served[p] <= 1 + MovesBefore(run[s].joined, p)

\* Through all pages of a run, who is told, and how often, is off by no more than
\* the list has moved meanwhile.
PagesFollowTheList == SkipsOnlyByLeaving /\ RepeatsOnlyByJoining

\* A message is sent only to one who has the row of it in the inbox, whichever
\* call failed before.
PushesAreKept ==
    \A s \in Slots : run[s].pc = "send" => \A p \in run[s].tokens : run[s].served[p] > 0

\* Workers take the jobs that wait and go on with them; Bull finds those that
\* nobody is at any more.
Fairness ==
    /\ \A w \in Workers : WF_vars(Enqueue(w))
    /\ \A s \in Slots : WF_vars(RunStep(s))
    /\ \A i \in JobIds : SF_vars(\E s \in Slots : Start(s, i)) /\ WF_vars(Abandoned(i) /\ Stall(i))

FairSpec == Spec /\ Fairness

\* Every job comes to its end: the loop, which has no bound of its own, whoever
\* comes and goes and whatever fails, and the job of a worker that died.
JobsEnd ==
    \A i \in JobIds : job[i].state = "waiting" ~> job[i].state \in {"completed", "failed"}

=============================================================================
