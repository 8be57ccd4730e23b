------------------------- MODULE SystemNotification -------------------------
(***************************************************************************)
(* The notifications an administrator writes for all customers or all      *)
(* shoemakers: NotificationService.create, update and delete, which change *)
(* a row of system_notifications and the Bull job that sends it, and       *)
(* NotificationConsumer.sendNotification, which the job runs.  Row and job *)
(* are two stores, written one after the other with awaits in between.     *)
(*                                                                         *)
(* An inbox row (table notifications) stands for what a recipient is told; *)
(* titles, texts and the time a job is scheduled for are left out: a job   *)
(* that waits may start at any moment.                                     *)
(***************************************************************************)
EXTENDS Integers, FiniteSets

CONSTANTS
    Notifs,        \* the ids of system notifications
    NoNotif,
    Receivers,     \* the receivers an administrator uses
    Customers,
    Shoemakers,
    BatchSize,     \* recipients per inbox write
    Handlers,      \* the admin requests in progress at once
    Consumers,     \* the job slots: Bull runs one job at a time per worker
    NoConsumer,
    Workers,
    WorkerOf,      \* the worker of a request or of a slot
    MaxStalled,    \* times a job may stall before Bull fails it
    Overlap,       \* may two requests work on a notification at once?
    Race,          \* may a job run while a request works on its notification?
    Lag,           \* may the replica be behind the master?
    Faults,        \* may a call of the database or of redis fail?
    MaxRequests,   \* bound: admin requests
    MaxStalls,     \* bound: stalls of jobs
    MaxCrashes     \* bound: crashes of a worker

ASSUME NotificationAssumption ==
    /\ NoNotif \notin Notifs /\ NoConsumer \notin Consumers
    /\ Handlers \intersect Consumers = {}
    /\ Receivers \subseteq {"USER", "SHOEMAKER", "ALL"}
    /\ IsFiniteSet(Customers) /\ IsFiniteSet(Shoemakers)
    /\ BatchSize \in Nat \ {0}
    /\ WorkerOf \in [Handlers \union Consumers -> Workers]
    /\ {Overlap, Race, Lag, Faults} \subseteq BOOLEAN
    /\ {MaxStalled, MaxRequests, MaxStalls, MaxCrashes} \subseteq Nat

VARIABLES
    row,       \* master: the row of a notification
    replica,   \* what a repository read returns
    inbox,     \* the recipients who have an inbox row of a notification
    job,       \* redis: the job of id SYSTEM-NOTIFICATION-<id>
    req,       \* what each admin request is doing
    run,       \* what each consumer slot is doing
    named,     \* history: the receivers a notification was saved with
    requests, stalls, crashes

vars == <<row, replica, inbox, job, req, run, named, requests, stalls, crashes>>
counters == <<requests, stalls, crashes>>

Recipients == Customers \union Shoemakers

Absent == [receiver |-> "none", sent |-> FALSE]
Rows == [receiver : Receivers, sent : BOOLEAN] \union {Absent}

\* A job waits (or is delayed), is run under the lock of a slot, or has failed.
NoJob == [state |-> "none", receiver |-> "none", by |-> NoConsumer, stalled |-> 0]
Jobs == [state : {"waiting", "active", "failed"}, receiver : Receivers,
         by : Consumers \union {NoConsumer}, stalled : Nat] \union {NoJob}

Kinds == {"create", "update", "delete"}
NoRequest == [pc |-> "idle", kind |-> "none", n |-> NoNotif, receiver |-> "none", now |-> FALSE]
Requests == [pc : {"read", "save", "find", "remove", "add", "erase"}, kind : Kinds,
             n : Notifs, receiver : Receivers, now : BOOLEAN] \union {NoRequest}

NoRun == [pc |-> "idle", n |-> NoNotif, receiver |-> "none", left |-> {}]
Runs == [pc : {"read", "batch", "done"}, n : Notifs, receiver : Receivers,
         left : SUBSET Recipients] \union {NoRun}

TypeOK ==
    /\ row \in [Notifs -> Rows] /\ replica \in [Notifs -> Rows]
    /\ inbox \in [Notifs -> SUBSET Recipients]
    /\ job \in [Notifs -> Jobs]
    /\ req \in [Handlers -> Requests]
    /\ run \in [Consumers -> Runs]
    /\ named \in [Notifs -> SUBSET Receivers]
    /\ {requests, stalls, crashes} \subseteq Nat

Init ==
    /\ row = [n \in Notifs |-> Absent] /\ replica = row
    /\ inbox = [n \in Notifs |-> {}]
    /\ job = [n \in Notifs |-> NoJob]
    /\ req = [h \in Handlers |-> NoRequest]
    /\ run = [c \in Consumers |-> NoRun]
    /\ named = [n \in Notifs |-> {}]
    /\ requests = 0 /\ stalls = 0 /\ crashes = 0

-----------------------------------------------------------------------------
(* Helpers *)

Requested(n) == \E h \in Handlers : req[h].n = n
Running(n) == \E c \in Consumers : run[c].n = n

\* A write of the master; the replica has it at once only without lag.
WriteRow(n, r) ==
    /\ row' = [row EXCEPT ![n] = r]
    /\ replica' = IF Lag THEN replica ELSE row'

Goto(h, stage) == req' = [req EXCEPT ![h].pc = stage]
End(h) == req' = [req EXCEPT ![h] = NoRequest]

-----------------------------------------------------------------------------
(* The requests of the administrators *)

Accept(h, kind, n, receiver, now, stage) ==
    /\ req[h].pc = "idle" /\ requests < MaxRequests
    /\ Overlap \/ ~Requested(n)
    /\ Race \/ ~Running(n)
    /\ requests' = requests + 1
    /\ req' = [req EXCEPT ![h] = [pc |-> stage, kind |-> kind, n |-> n,
                                  receiver |-> receiver, now |-> now]]
    /\ UNCHANGED <<row, replica, inbox, job, run, named, stalls, crashes>>

\* The id of a new row is a fresh UUID.
Create(h, n) ==
    /\ named[n] = {} /\ ~Requested(n)
    /\ \E receiver \in Receivers, now \in BOOLEAN : Accept(h, "create", n, receiver, now, "save")

\* The administrator picks a notification from a list: it existed at some time.
Update(h, n) ==
    /\ named[n] # {}
    /\ \E receiver \in Receivers, now \in BOOLEAN : Accept(h, "update", n, receiver, now, "read")

Delete(h, n) ==
    /\ named[n] # {}
    /\ \E receiver \in Receivers : Accept(h, "delete", n, receiver, FALSE, "read")

\* Mutant: isSent is not looked at.
CheckUnsent_Any(h) ==
    /\ req[h].pc = "read"
    /\ IF replica[req[h].n] = Absent
         THEN End(h)
         ELSE Goto(h, IF req[h].kind = "update" THEN "save" ELSE "find")
    /\ UNCHANGED <<row, replica, inbox, job, run, named, counters>>

\* What is missing or sent already is refused (400).
CheckUnsent(h) ==
    /\ req[h].pc = "read"
    /\ IF replica[req[h].n] = Absent \/ replica[req[h].n].sent
         THEN End(h)
         ELSE Goto(h, IF req[h].kind = "update" THEN "save" ELSE "find")
    /\ UNCHANGED <<row, replica, inbox, job, run, named, counters>>

\* repository.save: isSent is only ever set, and a row deleted since the check
\* is inserted again, under the same id.
Save(h) ==
    LET n == req[h].n IN
    /\ req[h].pc = "save"
    /\ WriteRow(n, [receiver |-> req[h].receiver, sent |-> row[n].sent \/ req[h].now])
    /\ named' = [named EXCEPT ![n] = @ \union {req[h].receiver}]
    /\ Goto(h, IF req[h].kind = "create" THEN "add" ELSE "find")
    /\ UNCHANGED <<inbox, job, run, counters>>

After(h) == IF req[h].kind = "delete" THEN "erase" ELSE "add"

\* queue.getJob.
FindJob(h) ==
    /\ req[h].pc = "find"
    /\ Goto(h, IF job[req[h].n] = NoJob THEN After(h) ELSE "remove")
    /\ UNCHANGED <<row, replica, inbox, job, run, named, counters>>

\* Mutant: the job is left where it is.
RemoveJob_Skipped(h) ==
    /\ req[h].pc = "remove"
    /\ Goto(h, After(h))
    /\ UNCHANGED <<row, replica, inbox, job, run, named, counters>>

\* queue.removeJobs leaves a job that is locked by a slot.
RemoveJob(h) ==
    LET n == req[h].n IN
    /\ req[h].pc = "remove"
    /\ job' = IF job[n].state = "active" THEN job ELSE [job EXCEPT ![n] = NoJob]
    /\ Goto(h, After(h))
    /\ UNCHANGED <<row, replica, inbox, run, named, counters>>

\* Mutant: the job has no id of its own, so that it replaces the one there is.
AddJob_NoId(h) ==
    /\ req[h].pc = "add"
    /\ job' = [job EXCEPT ![req[h].n] =
                 [state |-> "waiting", receiver |-> req[h].receiver, by |-> NoConsumer, stalled |-> 0]]
    /\ End(h)
    /\ UNCHANGED <<row, replica, inbox, run, named, counters>>

\* Mutant: only what is sent now is queued.
AddJob_NowOnly(h) ==
    LET n == req[h].n IN
    /\ req[h].pc = "add"
    /\ job' = IF job[n] # NoJob \/ ~req[h].now THEN job
              ELSE [job EXCEPT ![n] = [state |-> "waiting", receiver |-> req[h].receiver,
                                       by |-> NoConsumer, stalled |-> 0]]
    /\ End(h)
    /\ UNCHANGED <<row, replica, inbox, run, named, counters>>

\* queue.add does nothing when there is a job of this id.  Nobody awaits it:
\* the request has been answered by now, and ends here.
AddJob(h) ==
    LET n == req[h].n IN
    /\ req[h].pc = "add"
    /\ job' = IF job[n] # NoJob THEN job
              ELSE [job EXCEPT ![n] = [state |-> "waiting", receiver |-> req[h].receiver,
                                       by |-> NoConsumer, stalled |-> 0]]
    /\ End(h)
    /\ UNCHANGED <<row, replica, inbox, run, named, counters>>

\* repository.delete; the inbox rows stay.
Erase(h) ==
    /\ req[h].pc = "erase"
    /\ WriteRow(req[h].n, Absent)
    /\ End(h)
    /\ UNCHANGED <<inbox, job, run, named, counters>>

\* An error before the add: the request is answered 400.
RequestError(h) ==
    /\ Faults /\ req[h].pc \notin {"idle", "add"}
    /\ End(h)
    /\ UNCHANGED <<row, replica, inbox, job, run, named, counters>>

\* What a worker was doing ends, wherever it is.
Kill(w) ==
    LET dead == {x \in Handlers \union Consumers : WorkerOf[x] = w} IN
    /\ req' = [h \in Handlers |-> IF h \in dead THEN NoRequest ELSE req[h]]
    /\ run' = [c \in Consumers |-> IF c \in dead THEN NoRun ELSE run[c]]

\* The add fails after the answer: a rejection that nobody handles, for which
\* Node ends the worker.
AddError(h) ==
    /\ Faults /\ req[h].pc = "add"
    /\ Kill(WorkerOf[h])
    /\ UNCHANGED <<row, replica, inbox, job, named, counters>>

-----------------------------------------------------------------------------
(* The consumer *)

Start(c, n) ==
    /\ run[c].pc = "idle" /\ job[n].state = "waiting"
    /\ Race \/ ~Requested(n)
    /\ job' = [job EXCEPT ![n].state = "active", ![n].by = c]
    /\ run' = [run EXCEPT ![c] = [pc |-> "read", n |-> n, receiver |-> job[n].receiver, left |-> {}]]
    /\ UNCHANGED <<row, replica, inbox, req, named, counters>>

\* Mutant: the test of the receiver is the wrong way round.
Audience_Swapped(receiver) == IF receiver = "USER" THEN Shoemakers ELSE Customers

\* Whom the consumer sends to.
Audience(receiver) == IF receiver = "USER" THEN Customers ELSE Shoemakers

\* Mutant: a record that is marked as sent is not sent.
ReadRecord_Unsent(c) ==
    /\ run[c].pc = "read"
    /\ run' = IF replica[run[c].n] = Absent \/ replica[run[c].n].sent
                THEN [run EXCEPT ![c].pc = "done"]
                ELSE [run EXCEPT ![c].pc = "batch", ![c].left = Audience(run[c].receiver)]
    /\ UNCHANGED <<row, replica, inbox, job, req, named, counters>>

\* The record is read on the replica; without one nothing is sent.
ReadRecord(c) ==
    /\ run[c].pc = "read"
    /\ run' = IF replica[run[c].n] = Absent
                THEN [run EXCEPT ![c].pc = "done"]
                ELSE [run EXCEPT ![c].pc = "batch", ![c].left = Audience(run[c].receiver)]
    /\ UNCHANGED <<row, replica, inbox, job, req, named, counters>>

\* One batch, in any order; its insert fails, which is swallowed, when the row
\* it refers to is gone.
ProcessBatch(c) ==
    LET n == run[c].n IN
    /\ run[c].pc = "batch"
    /\ \E batch \in SUBSET run[c].left :
        /\ batch # {}
        /\ \/ Cardinality(batch) = BatchSize
           \/ Cardinality(batch) < BatchSize /\ batch = run[c].left
        /\ run' = [run EXCEPT ![c].left = @ \ batch]
        /\ \/ /\ row[n] # Absent
              /\ inbox' = [inbox EXCEPT ![n] = @ \union batch]
           \/ /\ row[n] = Absent \/ Faults
              /\ UNCHANGED inbox
    /\ UNCHANGED <<row, replica, job, req, named, counters>>

\* Mutant: the last save inserts the row that is gone.
MarkSent_Insert(c) ==
    /\ run[c].pc = "batch" /\ run[c].left = {}
    /\ WriteRow(run[c].n, [row[run[c].n] EXCEPT !.sent = TRUE])
    /\ run' = [run EXCEPT ![c].pc = "done"]
    /\ UNCHANGED <<inbox, job, req, named, counters>>

\* The last save; on a row that is gone it fails for want of a title.
MarkSent(c) ==
    LET n == run[c].n IN
    /\ run[c].pc = "batch" /\ run[c].left = {}
    /\ IF row[n] = Absent THEN UNCHANGED <<row, replica>>
                          ELSE WriteRow(n, [row[n] EXCEPT !.sent = TRUE])
    /\ run' = [run EXCEPT ![c].pc = "done"]
    /\ UNCHANGED <<inbox, job, req, named, counters>>

\* The handler has swallowed every error, so that the job completes and is
\* removed, unless the slot has lost its lock.
Complete(c) ==
    LET n == run[c].n IN
    /\ run[c].pc = "done"
    /\ job' = IF job[n].by = c THEN [job EXCEPT ![n] = NoJob] ELSE job
    /\ run' = [run EXCEPT ![c] = NoRun]
    /\ UNCHANGED <<row, replica, inbox, req, named, counters>>

RunError(c) ==
    /\ Faults /\ run[c].pc \in {"read", "batch"}
    /\ run' = [run EXCEPT ![c].pc = "done", ![c].left = {}]
    /\ UNCHANGED <<row, replica, inbox, job, req, named, counters>>

-----------------------------------------------------------------------------
(* The replica, the queue and the workers *)

Sync(n) ==
    /\ replica[n] # row[n]
    /\ replica' = [replica EXCEPT ![n] = row[n]]
    /\ UNCHANGED <<row, inbox, job, req, run, named, counters>>

\* The lock of a job runs out, because its worker is dead or too busy: it is
\* run again, once.
Stall(n) ==
    /\ job[n].state = "active"
    /\ stalls < MaxStalls
    /\ stalls' = stalls + 1
    /\ job' = [job EXCEPT ![n].state = IF job[n].stalled < MaxStalled THEN "waiting" ELSE "failed",
                          ![n].by = NoConsumer,
                          ![n].stalled = @ + 1]
    /\ UNCHANGED <<row, replica, inbox, req, run, named, requests, crashes>>

Crash(w) ==
    /\ crashes < MaxCrashes
    /\ crashes' = crashes + 1
    /\ Kill(w)
    /\ UNCHANGED <<row, replica, inbox, job, named, requests, stalls>>

-----------------------------------------------------------------------------
RequestStep(h) ==
    \/ CheckUnsent(h) \/ Save(h) \/ FindJob(h) \/ RemoveJob(h) \/ AddJob(h) \/ Erase(h)

RunStep(c) == ReadRecord(c) \/ ProcessBatch(c) \/ MarkSent(c) \/ Complete(c)

Next ==
    \/ \E h \in Handlers :
        \/ \E n \in Notifs : Create(h, n) \/ Update(h, n) \/ Delete(h, n)
        \/ RequestStep(h) \/ RequestError(h) \/ AddError(h)
    \/ \E c \in Consumers : RunStep(c) \/ RunError(c) \/ \E n \in Notifs : Start(c, n)
    \/ \E n \in Notifs : Sync(n) \/ Stall(n)
    \/ \E w \in Workers : Crash(w)

Spec == Init /\ [][Next]_vars

-----------------------------------------------------------------------------
(* Whatever requests and jobs overlap, fail, stall or crash *)

\* A job is run by one slot at a time, unless its lock has run out: an update
\* can neither remove the job that is running nor queue a second one, because
\* both are named after the notification.
RunsAreExclusive ==
    \A c, d \in Consumers :
        c # d /\ run[c].n = run[d].n /\ run[c].n # NoNotif => stalls > 0

\* The recipients a receiver stands for.
Intended(receiver) ==
    (IF receiver \in {"USER", "ALL"} THEN Customers ELSE {})
        \union (IF receiver \in {"SHOEMAKER", "ALL"} THEN Shoemakers ELSE {})

\* No one is told who was in no version of the notification: the job that
\* runs late, twice, or after a deletion still sends to a group it was saved for.
NobodyUnasked ==
    \A n \in Notifs : inbox[n] \subseteq UNION {Intended(r) : r \in named[n]}

-----------------------------------------------------------------------------
(* One request on a notification at a time, a fresh replica, no failure; jobs *)
(* run when they like                                                         *)

\* A notification that is not sent has a job that will send it: between the
\* two stores nothing is forgotten, though the job may run, complete or stall
\* in the middle of an update.
UnsentHasJob ==
    \A n \in Notifs :
        row[n] # Absent /\ ~row[n].sent /\ ~Requested(n) => job[n] # NoJob

\* A job that has not run yet sends to the receiver the row names: the last
\* update has replaced the job of the one before.
DelayedJobMatchesRow ==
    \A n \in Notifs :
        /\ job[n].state = "waiting" /\ job[n].stalled = 0
        /\ row[n] # Absent /\ ~Requested(n)
        => job[n].receiver = row[n].receiver

\* Between requests the queue holds what the table asks for.
QueueMatchesTable == UnsentHasJob /\ DelayedJobMatchesRow

-----------------------------------------------------------------------------
(* ... and jobs and requests keep out of each other's way as well *)

\* Once nothing is pending for a notification it is marked as sent and all it
\* was meant for have it, the last receiver chosen, whichever of create and
\* update queued the job, and although a stalled job is run twice.
QuietIsDelivered ==
    \A n \in Notifs :
        row[n] # Absent /\ job[n] = NoJob /\ ~Requested(n) =>
            row[n].sent /\ Intended(row[n].receiver) \subseteq inbox[n]

\* A notification that was sent is neither deleted nor changed ("Cant not
\* update"): recipients keep the record of what they were told.
SentIsKept ==
    [][\A n \in Notifs : row[n].sent => row'[n] = row[n]]_vars

\* Workers take the jobs that wait and finish what they began.
Fairness ==
    /\ \A h \in Handlers : WF_vars(RequestStep(h))
    /\ \A c \in Consumers : WF_vars(RunStep(c))
    /\ \A n \in Notifs : SF_vars(\E c \in Consumers : Start(c, n)) /\ WF_vars(Sync(n))

FairSpec == Spec /\ Fairness

\* Every notification that is created reaches its recipients, or is deleted.
CreatedIsDelivered ==
    \A n \in Notifs :
        row[n] # Absent ~>
            \/ row[n] = Absent
            \/ row[n].sent /\ Intended(row[n].receiver) \subseteq inbox[n]

=============================================================================
