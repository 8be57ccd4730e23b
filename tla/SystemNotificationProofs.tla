---------------------- MODULE SystemNotificationProofs ----------------------
(* Theorems about SystemNotification, for every value of its constants.     *)
EXTENDS SystemNotification, TLAPS

\* Requests, jobs and runs that are under way.
OpenRequests ==
    [pc : {"read", "save", "find", "remove", "add", "erase"}, kind : Kinds,
     n : Notifs, receiver : Receivers, now : BOOLEAN]
OpenJobs ==
    [state : {"waiting", "active", "failed"}, receiver : Receivers,
     by : Consumers \union {NoConsumer}, stalled : Nat]
OpenRuns ==
    [pc : {"read", "batch", "done"}, n : Notifs, receiver : Receivers, left : SUBSET Recipients]

-----------------------------------------------------------------------------
(* Type correctness *)

LEMMA InitTypeOK == Init => TypeOK
BY NotificationAssumption
DEF Init, TypeOK, Rows, Absent, Jobs, NoJob, Requests, NoRequest, Runs, NoRun

LEMMA OpenRequest ==
    ASSUME TypeOK, NEW h \in Handlers, req[h].pc # "idle"
    PROVE  req[h] \in OpenRequests
<1>1. req[h] \in Requests /\ req[h] # NoRequest
  BY DEF TypeOK, NoRequest
<1> QED BY <1>1 DEF Requests, OpenRequests

LEMMA OpenRun ==
    ASSUME TypeOK, NEW c \in Consumers, run[c].pc # "idle"
    PROVE  run[c] \in OpenRuns
<1>1. run[c] \in Runs /\ run[c] # NoRun
  BY DEF TypeOK, NoRun
<1> QED BY <1>1 DEF Runs, OpenRuns

LEMMA OpenJob ==
    ASSUME TypeOK, NEW n \in Notifs, job[n] # NoJob
    PROVE  job[n] \in OpenJobs
<1>1. job[n] \in Jobs
  BY DEF TypeOK
<1> QED BY <1>1 DEF Jobs, OpenJobs

LEMMA WriteRowType ==
    ASSUME TypeOK, NEW n \in Notifs, NEW r \in Rows, WriteRow(n, r)
    PROVE  row' \in [Notifs -> Rows] /\ replica' \in [Notifs -> Rows]
BY DEF TypeOK, WriteRow

\* Where a request may go.
LEMMA RequestMoves ==
    ASSUME TypeOK, NEW h \in Handlers
    PROVE  /\ End(h) => req' \in [Handlers -> Requests]
           /\ \A stage \in {"save", "find", "remove", "add", "erase"} :
                  req[h].pc # "idle" /\ Goto(h, stage) => req' \in [Handlers -> Requests]
<1>1. End(h) => req' \in [Handlers -> Requests]
  BY DEF TypeOK, End, Requests
<1>2. ASSUME NEW stage \in {"save", "find", "remove", "add", "erase"},
             req[h].pc # "idle", Goto(h, stage)
      PROVE  req' \in [Handlers -> Requests]
  <2>1. [req[h] EXCEPT !.pc = stage] \in OpenRequests
    BY <1>2, OpenRequest DEF OpenRequests
  <2>2. [req[h] EXCEPT !.pc = stage] \in Requests
    BY <2>1 DEF OpenRequests, Requests
  <2>3. req' = [req EXCEPT ![h] = [req[h] EXCEPT !.pc = stage]]
    BY <1>2 DEF Goto
  <2> QED BY <2>2, <2>3 DEF TypeOK
<1> QED BY <1>1, <1>2

\* Where a run may go.
LEMMA RunMoves ==
    ASSUME TypeOK, NEW c \in Consumers, run[c].pc # "idle",
           NEW stage \in {"batch", "done"}, NEW left \in SUBSET Recipients
    PROVE  /\ [run[c] EXCEPT !.pc = stage] \in Runs
           /\ [run[c] EXCEPT !.left = left] \in Runs
           /\ [run[c] EXCEPT !.pc = stage, !.left = left] \in Runs
<1>1. run[c] \in OpenRuns
  BY OpenRun
<1>2. /\ [run[c] EXCEPT !.pc = stage] \in OpenRuns
      /\ [run[c] EXCEPT !.left = left] \in OpenRuns
      /\ [run[c] EXCEPT !.pc = stage, !.left = left] \in OpenRuns
  BY <1>1 DEF OpenRuns
<1> QED BY <1>2 DEF OpenRuns, Runs

LEMMA KillType ==
    ASSUME TypeOK, NEW w, Kill(w)
    PROVE  req' \in [Handlers -> Requests] /\ run' \in [Consumers -> Runs]
BY DEF TypeOK, Kill, Requests, Runs

LEMMA AudienceType == ASSUME NEW r PROVE Audience(r) \subseteq Recipients
BY DEF Audience, Recipients

LEMMA WaitingJob ==
    ASSUME NEW r \in Receivers
    PROVE  [state |-> "waiting", receiver |-> r, by |-> NoConsumer, stalled |-> 0] \in Jobs
BY DEF Jobs

LEMMA RequestTypeOK ==
    ASSUME TypeOK, NEW h \in Handlers, RequestStep(h) \/ RequestError(h) \/ AddError(h)
    PROVE  TypeOK'
<1>1. CASE CheckUnsent(h)
  <2>1. req' \in [Handlers -> Requests]
    BY <1>1, RequestMoves DEF CheckUnsent
  <2> QED BY <1>1, <2>1 DEF CheckUnsent, TypeOK, counters
<1>2. CASE Save(h)
  <2>1. req[h] \in OpenRequests
    BY <1>2, OpenRequest DEF Save
  <2>2. req[h].n \in Notifs /\ req[h].receiver \in Receivers /\ req[h].now \in BOOLEAN
    BY <2>1 DEF OpenRequests
  <2>3. (row[req[h].n].sent \/ req[h].now) \in BOOLEAN
    OBVIOUS
  <2>4. [receiver |-> req[h].receiver, sent |-> row[req[h].n].sent \/ req[h].now] \in Rows
    BY <2>2, <2>3, Zenon DEF Rows
  <2>5. row' \in [Notifs -> Rows] /\ replica' \in [Notifs -> Rows]
    BY <1>2, <2>2, <2>4, WriteRowType DEF Save
  <2>6. req' \in [Handlers -> Requests]
    BY <1>2, RequestMoves DEF Save
  <2>7. named' \in [Notifs -> SUBSET Receivers]
    BY <1>2, <2>2 DEF Save, TypeOK
  <2> QED BY <1>2, <2>5, <2>6, <2>7 DEF Save, TypeOK, counters
<1>3. CASE FindJob(h)
  <2>1. req' \in [Handlers -> Requests]
    BY <1>3, RequestMoves DEF FindJob, After
  <2> QED BY <1>3, <2>1 DEF FindJob, TypeOK, counters
<1>4. CASE RemoveJob(h)
  <2>1. req' \in [Handlers -> Requests]
    BY <1>4, RequestMoves DEF RemoveJob, After
  <2>2. job' \in [Notifs -> Jobs]
    BY <1>4 DEF RemoveJob, TypeOK, Jobs
  <2> QED BY <1>4, <2>1, <2>2 DEF RemoveJob, TypeOK, counters
<1>5. CASE AddJob(h)
  <2>1. req' \in [Handlers -> Requests]
    BY <1>5, RequestMoves DEF AddJob
  <2>2. req[h].receiver \in Receivers
    BY <1>5, OpenRequest DEF AddJob, OpenRequests
  <2>3. job' \in [Notifs -> Jobs]
    BY <1>5, <2>2, WaitingJob DEF AddJob, TypeOK
  <2> QED BY <1>5, <2>1, <2>3 DEF AddJob, TypeOK, counters
<1>6. CASE Erase(h)
  <2>1. req[h].n \in Notifs
    BY <1>6, OpenRequest DEF Erase, OpenRequests
  <2>2. row' \in [Notifs -> Rows] /\ replica' \in [Notifs -> Rows]
    BY <1>6, <2>1, WriteRowType DEF Erase, Rows
  <2>3. req' \in [Handlers -> Requests]
    BY <1>6, RequestMoves DEF Erase
  <2> QED BY <1>6, <2>2, <2>3 DEF Erase, TypeOK, counters
<1>7. CASE RequestError(h)
  <2>1. req' \in [Handlers -> Requests]
    BY <1>7, RequestMoves DEF RequestError
  <2> QED BY <1>7, <2>1 DEF RequestError, TypeOK, counters
<1>8. CASE AddError(h)
  BY <1>8, KillType DEF AddError, TypeOK, counters
<1> QED BY <1>1, <1>2, <1>3, <1>4, <1>5, <1>6, <1>7, <1>8 DEF RequestStep

LEMMA RunTypeOK ==
    ASSUME TypeOK, NEW c \in Consumers, RunStep(c) \/ RunError(c)
    PROVE  TypeOK'
<1> DEFINE n == run[c].n
<1>0. run[c].pc # "idle" /\ n \in Notifs /\ run[c].left \subseteq Recipients
  <2>1. run[c].pc # "idle"
    BY DEF RunStep, RunError, ReadRecord, ProcessBatch, MarkSent, Complete
  <2> QED BY <2>1, OpenRun DEF OpenRuns
<1>1. CASE ReadRecord(c)
  <2>1. run' \in [Consumers -> Runs]
    <3>1. Audience(run[c].receiver) \in SUBSET Recipients
      BY AudienceType
    <3>2. \/ run' = [run EXCEPT ![c] = [run[c] EXCEPT !.pc = "done"]]
          \/ run' = [run EXCEPT ![c] = [run[c] EXCEPT !.pc = "batch",
                                                      !.left = Audience(run[c].receiver)]]
      BY <1>1 DEF ReadRecord, TypeOK
    <3>3. /\ [run[c] EXCEPT !.pc = "done"] \in Runs
          /\ [run[c] EXCEPT !.pc = "batch", !.left = Audience(run[c].receiver)] \in Runs
      BY <1>0, <3>1, RunMoves
    <3> QED BY <3>2, <3>3 DEF TypeOK
  <2> QED BY <1>1, <2>1 DEF ReadRecord, TypeOK, counters
<1>2. CASE ProcessBatch(c)
  <2>1. PICK batch \in SUBSET run[c].left :
           /\ run' = [run EXCEPT ![c].left = @ \ batch]
           /\ inbox' = [inbox EXCEPT ![n] = @ \union batch] \/ inbox' = inbox
    BY <1>2 DEF ProcessBatch
  <2>2. [run[c] EXCEPT !.left = run[c].left \ batch] \in Runs
    BY <1>0, RunMoves
  <2>3. run' \in [Consumers -> Runs]
    BY <2>1, <2>2 DEF TypeOK
  <2>4. inbox' \in [Notifs -> SUBSET Recipients]
    BY <1>0, <2>1 DEF TypeOK
  <2> QED BY <1>2, <2>3, <2>4 DEF ProcessBatch, TypeOK, counters
<1>3. CASE MarkSent(c)
  <2>1. [run[c] EXCEPT !.pc = "done"] \in Runs
    BY <1>0, RunMoves
  <2>2. run' \in [Consumers -> Runs]
    BY <1>3, <2>1 DEF MarkSent, TypeOK
  <2>3. row[n] # Absent => [row[n] EXCEPT !.sent = TRUE] \in Rows
    <3>1. row[n] \in Rows
      BY <1>0 DEF TypeOK
    <3> QED BY <3>1 DEF Rows
  <2>4. row' \in [Notifs -> Rows] /\ replica' \in [Notifs -> Rows]
    BY <1>0, <1>3, <2>3, WriteRowType DEF MarkSent, TypeOK
  <2> QED BY <1>3, <2>2, <2>4 DEF MarkSent, TypeOK, counters
<1>4. CASE Complete(c)
  <2>1. job' \in [Notifs -> Jobs] /\ run' \in [Consumers -> Runs]
    BY <1>4 DEF Complete, TypeOK, Jobs, Runs
  <2> QED BY <1>4, <2>1 DEF Complete, TypeOK, counters
<1>5. CASE RunError(c)
  <2>1. [run[c] EXCEPT !.pc = "done", !.left = {}] \in Runs
    BY <1>0, RunMoves
  <2>2. run' \in [Consumers -> Runs]
    BY <1>5, <2>1 DEF RunError, TypeOK
  <2> QED BY <1>5, <2>2 DEF RunError, TypeOK, counters
<1> QED BY <1>1, <1>2, <1>3, <1>4, <1>5 DEF RunStep

LEMMA NextTypeOK == TypeOK /\ [Next]_vars => TypeOK'
<1> SUFFICES ASSUME TypeOK, [Next]_vars PROVE TypeOK'
  OBVIOUS
<1>1. ASSUME NEW h \in Handlers, NEW n \in Notifs, Create(h, n) \/ Update(h, n) \/ Delete(h, n)
      PROVE  TypeOK'
  <2>1. PICK kind \in Kinds, receiver \in Receivers, now \in BOOLEAN, stage \in {"read", "save"} :
           Accept(h, kind, n, receiver, now, stage)
    BY <1>1 DEF Create, Update, Delete, Kinds
  <2>2. [pc |-> stage, kind |-> kind, n |-> n, receiver |-> receiver, now |-> now] \in Requests
    BY DEF Requests
  <2> QED BY <2>1, <2>2 DEF Accept, TypeOK
<1>2. ASSUME NEW c \in Consumers, NEW n \in Notifs, Start(c, n) PROVE TypeOK'
  <2>1. job[n] \in OpenJobs
    BY <1>2, OpenJob DEF Start, NoJob
  <2>2. [job[n] EXCEPT !.state = "active", !.by = c] \in OpenJobs
    BY <2>1 DEF OpenJobs
  <2>3. job' = [job EXCEPT ![n] = [job[n] EXCEPT !.state = "active", !.by = c]]
    BY <1>2 DEF Start, TypeOK
  <2>4. job' \in [Notifs -> Jobs]
    BY <2>2, <2>3 DEF TypeOK, Jobs, OpenJobs
  <2>5. [pc |-> "read", n |-> n, receiver |-> job[n].receiver, left |-> {}] \in Runs
    BY <2>1 DEF Runs, OpenJobs
  <2>6. run' \in [Consumers -> Runs]
    BY <1>2, <2>5 DEF Start, TypeOK
  <2> QED BY <1>2, <2>4, <2>6 DEF Start, TypeOK, counters
<1>3. ASSUME NEW n \in Notifs, Sync(n) PROVE TypeOK'
  BY <1>3 DEF Sync, TypeOK, counters
<1>4. ASSUME NEW n \in Notifs, Stall(n) PROVE TypeOK'
  <2>1. job[n] \in OpenJobs
    BY <1>4, OpenJob DEF Stall, NoJob
  <2>2. PICK state \in {"waiting", "failed"} :
           job' = [job EXCEPT ![n] = [job[n] EXCEPT !.state = state, !.by = NoConsumer,
                                                    !.stalled = job[n].stalled + 1]]
    BY <1>4 DEF Stall, TypeOK
  <2>3. [job[n] EXCEPT !.state = state, !.by = NoConsumer, !.stalled = job[n].stalled + 1]
            \in OpenJobs
    <3>1. job[n].stalled + 1 \in Nat
      BY <2>1 DEF OpenJobs
    <3> QED BY <2>1, <3>1, Zenon DEF OpenJobs
  <2>4. job' \in [Notifs -> Jobs]
    BY <2>2, <2>3 DEF TypeOK, Jobs, OpenJobs
  <2> QED BY <1>4, <2>4 DEF Stall, TypeOK
<1>5. ASSUME NEW w \in Workers, Crash(w) PROVE TypeOK'
  BY <1>5, KillType DEF Crash, TypeOK
<1>6. CASE UNCHANGED vars
  BY <1>6 DEF vars, TypeOK
<1> QED BY <1>1, <1>2, <1>3, <1>4, <1>5, <1>6, RequestTypeOK, RunTypeOK DEF Next

\* Every variable keeps its type: what a request, a job and a run hold is
\* always something one of them was given.
THEOREM TypeCorrect == Spec => []TypeOK
BY InitTypeOK, NextTypeOK, PTL DEF Spec

-----------------------------------------------------------------------------
(* One slot runs a job *)

\* Until a lock has run out, the slot that works on a notification holds its job.
HolderInv ==
    stalls = 0 =>
        \A c \in Consumers : run[c].n # NoNotif =>
            job[run[c].n].state = "active" /\ job[run[c].n].by = c

LEMMA HolderInit == Init => HolderInv
BY DEF Init, HolderInv, NoRun

\* A slot that is idle is on no notification.
LEMMA IdleRun ==
    ASSUME TypeOK, NEW c \in Consumers
    PROVE  (run[c].pc = "idle") <=> (run[c].n = NoNotif)
<1>1. run[c] \in Runs
  BY DEF TypeOK
<1> QED BY <1>1, NotificationAssumption DEF Runs, NoRun

\* The handler of a job stays on its notification, with the receiver it was given.
LEMMA StaysOnIt ==
    ASSUME TypeOK, NEW c \in Consumers, NEW d \in Consumers,
           ReadRecord(d) \/ ProcessBatch(d) \/ MarkSent(d) \/ RunError(d)
    PROVE  run'[c].n = run[c].n /\ run'[c].receiver = run[c].receiver
<1>1. run[d] \in OpenRuns
  <2>1. run[d].pc # "idle"
    BY DEF ReadRecord, ProcessBatch, MarkSent, RunError
  <2> QED BY <2>1, OpenRun
<1> DEFINE Follows(new) == new.n = run[d].n /\ new.receiver = run[d].receiver
<1>2. ASSUME NEW stage, NEW left
      PROVE  /\ Follows([run[d] EXCEPT !.pc = stage])
             /\ Follows([run[d] EXCEPT !.left = left])
             /\ Follows([run[d] EXCEPT !.pc = stage, !.left = left])
  BY <1>1 DEF OpenRuns
<1>3. \E new : run' = [run EXCEPT ![d] = new] /\ Follows(new)
  <2> HIDE DEF Follows
  <2>1. CASE ReadRecord(d)
    <3>1. \/ run' = [run EXCEPT ![d] = [run[d] EXCEPT !.pc = "done"]]
          \/ run' = [run EXCEPT ![d] = [run[d] EXCEPT !.pc = "batch",
                                                      !.left = Audience(run[d].receiver)]]
      BY <2>1 DEF ReadRecord, TypeOK
    <3> QED BY <1>2, <3>1
  <2>2. CASE ProcessBatch(d)
    <3>1. PICK batch : run' = [run EXCEPT ![d].left = @ \ batch]
      BY <2>2 DEF ProcessBatch
    <3>2. run' = [run EXCEPT ![d] = [run[d] EXCEPT !.left = run[d].left \ batch]]
      BY <3>1 DEF TypeOK
    <3> QED BY <1>2, <3>2
  <2>3. CASE MarkSent(d)
    <3>1. run' = [run EXCEPT ![d] = [run[d] EXCEPT !.pc = "done"]]
      BY <2>3 DEF MarkSent, TypeOK
    <3> QED BY <1>2, <3>1
  <2>4. CASE RunError(d)
    <3>1. run' = [run EXCEPT ![d] = [run[d] EXCEPT !.pc = "done", !.left = {}]]
      BY <2>4 DEF RunError, TypeOK
    <3> QED BY <1>2, <3>1
  <2> QED BY <2>1, <2>2, <2>3, <2>4
<1>4. CASE c = d
  BY <1>3, <1>4 DEF TypeOK
<1>5. CASE c # d
  BY <1>3, <1>5 DEF TypeOK
<1> QED BY <1>4, <1>5

LEMMA HolderNext == TypeOK /\ HolderInv /\ [Next]_vars => HolderInv'
<1> SUFFICES ASSUME TypeOK, HolderInv, [Next]_vars, stalls' = 0, NEW c \in Consumers,
                    run'[c].n # NoNotif
             PROVE  job'[run'[c].n].state = "active" /\ job'[run'[c].n].by = c
  BY DEF HolderInv
<1> USE DEF HolderInv, counters
\* A step that leaves the runs on what they were on, and the jobs that run alone.
<1>0. ASSUME stalls = 0, run'[c].n = run[c].n,
             \A n \in Notifs : job[n].state = "active" => job'[n] = job[n]
      PROVE  job'[run'[c].n].state = "active" /\ job'[run'[c].n].by = c
  <2>1. run[c].n \in Notifs
    BY <1>0, OpenRun, IdleRun DEF OpenRuns
  <2> QED BY <1>0, <2>1
<1>1. ASSUME NEW h \in Handlers, NEW n \in Notifs, Create(h, n) \/ Update(h, n) \/ Delete(h, n)
      PROVE  job' = job /\ run' = run /\ stalls' = stalls
  BY <1>1 DEF Create, Update, Delete, Accept
<1>2. ASSUME NEW h \in Handlers, RequestStep(h) \/ RequestError(h)
      PROVE  /\ run' = run /\ stalls' = stalls
             /\ \A n \in Notifs : job[n].state = "active" => job'[n] = job[n]
  <2>1. CASE CheckUnsent(h) \/ Save(h) \/ FindJob(h) \/ Erase(h) \/ RequestError(h)
    BY <2>1 DEF CheckUnsent, Save, FindJob, Erase, RequestError
  <2>2. CASE RemoveJob(h)
    BY <2>2 DEF RemoveJob, TypeOK
  <2>3. CASE AddJob(h)
    <3>1. NoJob.state # "active"
      BY DEF NoJob
    <3> QED BY <2>3, <3>1 DEF AddJob, TypeOK
  <2> QED BY <1>2, <2>1, <2>2, <2>3 DEF RequestStep
<1>3. ASSUME NEW w, Kill(w), job' = job, stalls' = stalls
      PROVE  job'[run'[c].n].state = "active" /\ job'[run'[c].n].by = c
  <2>1. run'[c] = run[c] \/ run'[c] = NoRun
    BY <1>3 DEF Kill
  <2>2. run'[c] = run[c]
    BY <2>1 DEF NoRun
  <2> QED BY <1>0, <1>3, <2>2
<1>4. ASSUME NEW d \in Consumers, RunStep(d) \/ RunError(d)
      PROVE  job'[run'[c].n].state = "active" /\ job'[run'[c].n].by = c
  <2>1. CASE ReadRecord(d) \/ ProcessBatch(d) \/ MarkSent(d) \/ RunError(d)
    <3>1. run'[c].n = run[c].n
      BY <2>1, StaysOnIt
    <3>2. job' = job /\ stalls' = stalls
      BY <2>1 DEF ReadRecord, ProcessBatch, MarkSent, RunError
    <3> QED BY <1>0, <3>1, <3>2
  <2>2. CASE Complete(d)
    <3>0. NoRun.n = NoNotif
      BY DEF NoRun
    <3>1. c # d /\ run'[c] = run[c] /\ stalls' = stalls
      BY <2>2, <3>0 DEF Complete, TypeOK
    <3>2. job[run[c].n].by = c /\ job[run[c].n].state = "active" /\ run[c].n \in Notifs
      BY <3>1, OpenRun, IdleRun DEF OpenRuns
    <3>3. job'[run[c].n] = job[run[c].n]
      BY <2>2, <3>1, <3>2 DEF Complete, TypeOK
    <3> QED BY <3>1, <3>2, <3>3
  <2> QED BY <1>4, <2>1, <2>2 DEF RunStep
<1>5. ASSUME NEW d \in Consumers, NEW n \in Notifs, Start(d, n)
      PROVE  job'[run'[c].n].state = "active" /\ job'[run'[c].n].by = c
  <2>1. stalls = 0 /\ run[d].pc = "idle" /\ job[n].state = "waiting"
    BY <1>5 DEF Start
  <2>2. job' = [job EXCEPT ![n] = [job[n] EXCEPT !.state = "active", !.by = d]]
    BY <1>5 DEF Start, TypeOK
  <2>3. run' = [run EXCEPT ![d] = [pc |-> "read", n |-> n, receiver |-> job[n].receiver, left |-> {}]]
    BY <1>5 DEF Start
  <2>4. CASE c = d
    <3>1. run'[c].n = n
      BY <2>3, <2>4 DEF TypeOK
    <3>2. job[n] \in OpenJobs
      BY <2>1, OpenJob DEF NoJob
    <3>3. job'[n] = [job[n] EXCEPT !.state = "active", !.by = d]
      BY <2>2 DEF TypeOK
    <3>4. job'[n].state = "active" /\ job'[n].by = d
      BY <3>2, <3>3 DEF OpenJobs
    <3> QED BY <2>4, <3>1, <3>4
  <2>5. CASE c # d
    <3>1. run'[c] = run[c]
      BY <2>3, <2>5 DEF TypeOK
    <3>2. \A m \in Notifs : job[m].state = "active" => job'[m] = job[m]
      BY <2>1, <2>2 DEF TypeOK
    <3> QED BY <1>0, <2>1, <3>1, <3>2
  <2> QED BY <2>4, <2>5
<1>6. ASSUME NEW n \in Notifs, Sync(n)
      PROVE  job' = job /\ run' = run /\ stalls' = stalls
  BY <1>6 DEF Sync
<1>7. ASSUME NEW n \in Notifs, Stall(n) PROVE FALSE
  BY <1>7 DEF Stall, TypeOK
<1>8. ASSUME NEW h \in Handlers, AddError(h)
      PROVE  job'[run'[c].n].state = "active" /\ job'[run'[c].n].by = c
  BY <1>3, <1>8 DEF AddError
<1>9. ASSUME NEW w \in Workers, Crash(w)
      PROVE  job'[run'[c].n].state = "active" /\ job'[run'[c].n].by = c
  BY <1>3, <1>9 DEF Crash
<1>10. CASE UNCHANGED vars
  BY <1>0, <1>10 DEF vars
<1>11. ASSUME stalls' = stalls, run' = run,
              \A n \in Notifs : job[n].state = "active" => job'[n] = job[n]
       PROVE  job'[run'[c].n].state = "active" /\ job'[run'[c].n].by = c
  BY <1>0, <1>11
<1> QED BY <1>1, <1>2, <1>4, <1>5, <1>6, <1>7, <1>8, <1>9, <1>10, <1>11 DEF Next

\* Two slots run one notification only after a lock has run out: neither a
\* request, nor a failed or completed job, nor a crash brings that about.
THEOREM RunsExclude == Spec => []RunsAreExclusive
<1>1. TypeOK /\ HolderInv => RunsAreExclusive
  <2> SUFFICES ASSUME TypeOK, HolderInv, NEW c \in Consumers, NEW d \in Consumers,
                      c # d, run[c].n = run[d].n, run[c].n # NoNotif, stalls = 0
               PROVE  FALSE
    BY DEF RunsAreExclusive, TypeOK
  <2> QED BY DEF HolderInv
<1> QED BY <1>1, InitTypeOK, NextTypeOK, HolderInit, HolderNext, PTL DEF Spec

-----------------------------------------------------------------------------
(* Who is told *)

\* A request past its save, a job and a run carry a receiver the notification was
\* saved with.
RequestAsked(r) ==
    /\ r.pc = "read" => r.kind # "create"
    /\ r.pc = "add" => r.kind # "delete"
    /\ r.pc \in {"find", "remove", "add"} /\ r.kind # "delete" => r.receiver \in named[r.n]
RunAsked(r) ==
    r.pc # "idle" => r.receiver \in named[r.n] /\ r.left \subseteq Audience(r.receiver)

AskedInv ==
    /\ \A h \in Handlers : RequestAsked(req[h])
    /\ \A n \in Notifs : job[n] # NoJob => job[n].receiver \in named[n]
    /\ \A c \in Consumers : RunAsked(run[c])
    /\ NobodyUnasked

\* The consumer never sends beyond the receiver it was given.
LEMMA AudienceIntended ==
    ASSUME NEW r \in Receivers
    PROVE  Audience(r) \subseteq Intended(r)
BY NotificationAssumption DEF Audience, Intended

LEMMA AskedInit == Init => AskedInv
BY DEF Init, AskedInv, RequestAsked, RunAsked, NobodyUnasked, NoRequest, NoRun

\* What was asked for stays asked for.
LEMMA NamedGrows ==
    ASSUME TypeOK, [Next]_vars, NEW n \in Notifs
    PROVE  named[n] \subseteq named'[n]
<1>1. ASSUME NEW h \in Handlers, Save(h) PROVE named[n] \subseteq named'[n]
  BY <1>1 DEF Save, TypeOK
<1>2. ASSUME NEW h \in Handlers, RequestStep(h) PROVE named[n] \subseteq named'[n]
  BY <1>1, <1>2 DEF RequestStep, CheckUnsent, FindJob, RemoveJob, AddJob, Erase
<1>3. ASSUME ~\E h \in Handlers : RequestStep(h) PROVE named' = named
  BY <1>3 DEF Next, vars, Create, Update, Delete, Accept, RequestError, AddError, RunStep,
              ReadRecord, ProcessBatch, MarkSent, Complete, RunError, Start, Sync, Stall, Crash
<1> QED BY <1>2, <1>3

\* The requests.
LEMMA RequestAskedNext ==
    ASSUME TypeOK, AskedInv, [Next]_vars, NEW h \in Handlers
    PROVE  RequestAsked(req[h])'
<1> USE DEF AskedInv
<1>1. ASSUME req'[h] = req[h] PROVE RequestAsked(req[h])'
  <2>1. CASE req[h].pc = "idle"
    BY <1>1, <2>1 DEF RequestAsked
  <2>2. CASE req[h].pc # "idle"
    <3>1. req[h].n \in Notifs
      BY <2>2, OpenRequest DEF OpenRequests
    <3> QED BY <1>1, <3>1, NamedGrows DEF RequestAsked
  <2> QED BY <2>1, <2>2
<1>2. ASSUME req'[h] = NoRequest PROVE RequestAsked(req[h])'
  BY <1>2 DEF RequestAsked, NoRequest
<1>3. ASSUME NEW g \in Handlers, NEW n \in Notifs, Create(g, n) \/ Update(g, n) \/ Delete(g, n)
      PROVE  RequestAsked(req[h])'
  <2>1. PICK kind, receiver, now, stage :
           /\ req' = [req EXCEPT ![g] = [pc |-> stage, kind |-> kind, n |-> n,
                                         receiver |-> receiver, now |-> now]]
           /\ stage = "save" \/ (stage = "read" /\ kind # "create")
    BY <1>3 DEF Create, Update, Delete, Accept
  <2>2. CASE g = h
    BY <2>1, <2>2 DEF RequestAsked, TypeOK
  <2>3. CASE g # h
    BY <1>1, <2>1, <2>3 DEF TypeOK
  <2> QED BY <2>2, <2>3
<1>4. ASSUME RequestStep(h) PROVE RequestAsked(req[h])'
  <2>1. req[h] \in OpenRequests
    <3>1. req[h].pc # "idle"
      BY <1>4 DEF RequestStep, CheckUnsent, Save, FindJob, RemoveJob, AddJob, Erase
    <3> QED BY <3>1, OpenRequest
  <2>2. ASSUME NEW stage, Goto(h, stage)
        PROVE  /\ req'[h].pc = stage /\ req'[h].kind = req[h].kind
               /\ req'[h].n = req[h].n /\ req'[h].receiver = req[h].receiver
    <3>1. req'[h] = [req[h] EXCEPT !.pc = stage]
      BY <2>2 DEF Goto, TypeOK
    <3> QED BY <2>1, <3>1 DEF OpenRequests
  <2>3. req[h].kind \in Kinds /\ req[h].n \in Notifs
    BY <2>1 DEF OpenRequests
  <2>4. CASE \E stage : Goto(h, stage)
    <3>1. CASE CheckUnsent(h)
      <4>1. PICK stage : Goto(h, stage)
        BY <2>4
      <4>2. req'[h].pc = "save" \/ (req'[h].pc = "find" /\ req[h].kind # "update") \/ req'[h] = NoRequest
        BY <3>1, <2>2 DEF CheckUnsent, End, TypeOK
      <4>3. req[h].kind # "create"
        BY <3>1 DEF CheckUnsent, RequestAsked
      <4> QED BY <1>2, <2>2, <2>3, <4>1, <4>2, <4>3 DEF RequestAsked, Kinds
    <3>2. CASE Save(h)
      <4>1. req[h].receiver \in named'[req[h].n]
        BY <2>3, <3>2 DEF Save, TypeOK
      <4>2. req'[h].pc = IF req[h].kind = "create" THEN "add" ELSE "find"
        BY <2>2, <3>2 DEF Save
      <4>3. /\ req'[h].kind = req[h].kind /\ req'[h].n = req[h].n
            /\ req'[h].receiver = req[h].receiver
        BY <2>2, <3>2 DEF Save
      <4> QED BY <4>1, <4>2, <4>3 DEF RequestAsked
    <3>3. CASE FindJob(h) \/ RemoveJob(h)
      <4>1. PICK stage \in {"remove", After(h)} : Goto(h, stage)
        BY <3>3 DEF FindJob, RemoveJob
      <4>2. req[h].pc \in {"find", "remove"}
        BY <3>3 DEF FindJob, RemoveJob
      <4>3. req[h].kind # "delete" => req[h].receiver \in named'[req[h].n]
        BY <2>3, <4>2, NamedGrows DEF RequestAsked
      <4>4. After(h) = (IF req[h].kind = "delete" THEN "erase" ELSE "add")
        BY DEF After
      <4> QED BY <2>2, <4>1, <4>3, <4>4 DEF RequestAsked
    <3>4. CASE AddJob(h) \/ Erase(h)
      BY <1>2, <3>4 DEF AddJob, Erase, End, TypeOK
    <3> QED BY <1>4, <3>1, <3>2, <3>3, <3>4 DEF RequestStep
  <2>5. CASE ~\E stage : Goto(h, stage)
    BY <1>2, <1>4, <2>5 DEF RequestStep, CheckUnsent, Save, FindJob, RemoveJob, AddJob, Erase, End, TypeOK
  <2> QED BY <2>4, <2>5
<1>5. ASSUME NEW g \in Handlers, g # h, RequestStep(g) \/ RequestError(g)
      PROVE  req'[h] = req[h]
  BY <1>5 DEF RequestStep, RequestError, CheckUnsent, Save, FindJob, RemoveJob, AddJob, Erase,
              Goto, End, TypeOK
<1>6. ASSUME RequestError(h) PROVE req'[h] = NoRequest
  BY <1>6 DEF RequestError, End, TypeOK
<1>7. ASSUME NEW w, Kill(w) PROVE req'[h] = NoRequest \/ req'[h] = req[h]
  BY <1>7 DEF Kill
<1>8. ASSUME NEW c \in Consumers,
             RunStep(c) \/ RunError(c) \/ \E n \in Notifs : Start(c, n)
      PROVE  req' = req
  BY <1>8 DEF RunStep, RunError, ReadRecord, ProcessBatch, MarkSent, Complete, Start
<1>9. ASSUME NEW n \in Notifs, Sync(n) \/ Stall(n) PROVE req' = req
  BY <1>9 DEF Sync, Stall
<1>10. CASE UNCHANGED vars
  BY <1>1, <1>10 DEF vars
<1>11. ASSUME NEW g \in Handlers, RequestStep(g) \/ RequestError(g)
       PROVE  RequestAsked(req[h])'
  BY <1>1, <1>2, <1>4, <1>5, <1>6, <1>11
<1>12. ASSUME (\E g \in Handlers : AddError(g)) \/ (\E w \in Workers : Crash(w))
       PROVE  RequestAsked(req[h])'
  BY <1>1, <1>2, <1>7, <1>12 DEF AddError, Crash
<1> QED BY <1>1, <1>3, <1>8, <1>9, <1>10, <1>11, <1>12 DEF Next

\* The jobs.
LEMMA JobAskedNext ==
    ASSUME TypeOK, AskedInv, [Next]_vars, NEW n \in Notifs
    PROVE  (job[n] # NoJob => job[n].receiver \in named[n])'
<1> USE DEF AskedInv
<1>1. named[n] \subseteq named'[n]
  BY NamedGrows
<1>2. ASSUME job'[n] = job[n] \/ job'[n] = NoJob
      PROVE  (job[n] # NoJob => job[n].receiver \in named[n])'
  BY <1>1, <1>2
<1>3. ASSUME job[n] # NoJob, job'[n].receiver = job[n].receiver
      PROVE  (job[n] # NoJob => job[n].receiver \in named[n])'
  BY <1>1, <1>3
<1>4. ASSUME NEW h \in Handlers, AddJob(h)
      PROVE  (job[n] # NoJob => job[n].receiver \in named[n])'
  <2>1. req[h] \in OpenRequests
    BY <1>4, OpenRequest DEF AddJob
  <2>2. req[h].n \in Notifs /\ req[h].receiver \in named[req[h].n]
    BY <1>4, <2>1 DEF AddJob, RequestAsked, OpenRequests
  <2>3. CASE req[h].n = n /\ job[n] = NoJob
    <3>1. job'[n] = [state |-> "waiting", receiver |-> req[h].receiver,
                     by |-> NoConsumer, stalled |-> 0]
      BY <1>4, <2>3 DEF AddJob, TypeOK
    <3> QED BY <1>1, <2>2, <2>3, <3>1
  <2>4. CASE req[h].n # n \/ job[n] # NoJob
    <3>1. job'[n] = job[n]
      BY <1>4, <2>2, <2>4 DEF AddJob, TypeOK
    <3> QED BY <1>2, <3>1
  <2> QED BY <2>3, <2>4
<1>5. ASSUME NEW h \in Handlers, RequestStep(h), ~AddJob(h)
      PROVE  job'[n] = job[n] \/ job'[n] = NoJob
  BY <1>5 DEF RequestStep, CheckUnsent, Save, FindJob, RemoveJob, Erase, TypeOK
<1>6. ASSUME NEW h \in Handlers,
             \/ \E m \in Notifs : Create(h, m) \/ Update(h, m) \/ Delete(h, m)
             \/ RequestError(h) \/ AddError(h)
      PROVE  job'[n] = job[n]
  BY <1>6 DEF Create, Update, Delete, Accept, RequestError, AddError
<1>7. ASSUME NEW c \in Consumers, RunStep(c) \/ RunError(c)
      PROVE  job'[n] = job[n] \/ job'[n] = NoJob
  BY <1>7 DEF RunStep, RunError, ReadRecord, ProcessBatch, MarkSent, Complete, TypeOK
<1>8. ASSUME NEW m \in Notifs, job[m].state \in {"waiting", "active"},
             NEW new, new.receiver = job[m].receiver, job' = [job EXCEPT ![m] = new]
      PROVE  (job[n] # NoJob => job[n].receiver \in named[n])'
  <2>1. CASE m = n
    <3>1. job[n] # NoJob
      BY <1>8, <2>1 DEF NoJob
    <3>2. job'[n].receiver = job[n].receiver
      BY <1>8, <2>1 DEF TypeOK
    <3> QED BY <1>3, <3>1, <3>2
  <2>2. CASE m # n
    BY <1>2, <1>8, <2>2 DEF TypeOK
  <2> QED BY <2>1, <2>2
<1>9. ASSUME NEW c \in Consumers, NEW m \in Notifs, Start(c, m)
      PROVE  (job[n] # NoJob => job[n].receiver \in named[n])'
  <2>1. job[m] # NoJob /\ job[m].state = "waiting"
    BY <1>9 DEF Start, NoJob
  <2>2. job[m] \in OpenJobs
    BY <2>1, OpenJob
  <2> DEFINE new == [job[m] EXCEPT !.state = "active", !.by = c]
  <2>3. new.receiver = job[m].receiver
    BY <2>2 DEF OpenJobs
  <2>4. job' = [job EXCEPT ![m] = new]
    BY <1>9, <2>2 DEF Start, TypeOK, OpenJobs
  <2> HIDE DEF new
  <2> QED BY <1>8, <2>1, <2>3, <2>4
<1>10. ASSUME NEW m \in Notifs, Stall(m)
       PROVE  (job[n] # NoJob => job[n].receiver \in named[n])'
  <2>1. job[m] # NoJob /\ job[m].state = "active"
    BY <1>10 DEF Stall, NoJob
  <2>2. job[m] \in OpenJobs
    BY <2>1, OpenJob
  <2> DEFINE new == [job[m] EXCEPT
                       !.state = IF job[m].stalled < MaxStalled THEN "waiting" ELSE "failed",
                       !.by = NoConsumer, !.stalled = @ + 1]
  <2>3. new.receiver = job[m].receiver
    BY <2>2 DEF OpenJobs
  <2>4. job' = [job EXCEPT ![m] = new]
    BY <1>10, <2>2 DEF Stall, TypeOK, OpenJobs
  <2> HIDE DEF new
  <2> QED BY <1>8, <2>1, <2>3, <2>4
<1>11. ASSUME (\E m \in Notifs : Sync(m)) \/ (\E w \in Workers : Crash(w)) \/ UNCHANGED vars
       PROVE  job'[n] = job[n]
  BY <1>11 DEF Sync, Crash, vars
<1> QED BY <1>2, <1>4, <1>5, <1>6, <1>7, <1>9, <1>10, <1>11 DEF Next

\* The runs.
LEMMA RunAskedNext ==
    ASSUME TypeOK, AskedInv, [Next]_vars, NEW c \in Consumers
    PROVE  RunAsked(run[c])'
<1> USE DEF AskedInv
<1>1. ASSUME run'[c] = run[c] PROVE RunAsked(run[c])'
  <2>1. CASE run[c].pc = "idle"
    BY <1>1, <2>1 DEF RunAsked
  <2>2. CASE run[c].pc # "idle"
    <3>1. run[c].n \in Notifs
      BY <2>2, OpenRun DEF OpenRuns
    <3> QED BY <1>1, <3>1, NamedGrows DEF RunAsked
  <2> QED BY <2>1, <2>2
<1>2. ASSUME run'[c] = NoRun PROVE RunAsked(run[c])'
  BY <1>2 DEF RunAsked, NoRun
<1>3. ASSUME NEW d \in Consumers, RunStep(d) \/ RunError(d) \/ \E n \in Notifs : Start(d, n), d # c
      PROVE  run'[c] = run[c]
  BY <1>3 DEF RunStep, RunError, ReadRecord, ProcessBatch, MarkSent, Complete, Start, TypeOK
<1>4. ASSUME ReadRecord(c) \/ ProcessBatch(c) \/ MarkSent(c) \/ RunError(c)
      PROVE  RunAsked(run[c])'
  <2>1. run[c].pc # "idle"
    BY <1>4 DEF ReadRecord, ProcessBatch, MarkSent, RunError
  <2>2. run[c] \in OpenRuns
    BY <2>1, OpenRun
  <2>3. run'[c].n = run[c].n /\ run'[c].receiver = run[c].receiver
    BY <1>4, StaysOnIt
  <2>4. run'[c].receiver \in named'[run'[c].n]
    BY <2>1, <2>2, <2>3, NamedGrows DEF RunAsked, OpenRuns
  <2>5. run[c].left \subseteq Audience(run[c].receiver)
    BY <2>1 DEF RunAsked
  <2>6. \/ run'[c].left = run[c].left
        \/ run'[c].left = Audience(run[c].receiver)
        \/ run'[c].left = {}
        \/ \E batch \in SUBSET run[c].left : run'[c].left = run[c].left \ batch
    <3>1. ASSUME NEW stage, NEW left
          PROVE  /\ [run[c] EXCEPT !.pc = stage].left = run[c].left
                 /\ [run[c] EXCEPT !.left = left].left = left
                 /\ [run[c] EXCEPT !.pc = stage, !.left = left].left = left
      BY <2>2 DEF OpenRuns
    <3>2. CASE ReadRecord(c)
      <4>1. \/ run'[c] = [run[c] EXCEPT !.pc = "done"]
            \/ run'[c] = [run[c] EXCEPT !.pc = "batch", !.left = Audience(run[c].receiver)]
        BY <3>2 DEF ReadRecord, TypeOK
      <4>2. [run[c] EXCEPT !.pc = "done"].left = run[c].left
        BY <3>1
      <4>3. [run[c] EXCEPT !.pc = "batch", !.left = Audience(run[c].receiver)].left
                = Audience(run[c].receiver)
        BY <3>1
      <4> QED BY <4>1, <4>2, <4>3
    <3>3. CASE ProcessBatch(c)
      <4>1. PICK batch \in SUBSET run[c].left :
                run'[c] = [run[c] EXCEPT !.left = run[c].left \ batch]
        BY <3>3 DEF ProcessBatch, TypeOK
      <4> QED BY <3>1, <4>1
    <3>4. CASE MarkSent(c)
      <4>1. run'[c] = [run[c] EXCEPT !.pc = "done"]
        BY <3>4 DEF MarkSent, TypeOK
      <4> QED BY <3>1, <4>1
    <3>5. CASE RunError(c)
      <4>1. run'[c] = [run[c] EXCEPT !.pc = "done", !.left = {}]
        BY <3>5 DEF RunError, TypeOK
      <4> QED BY <3>1, <4>1
    <3> QED BY <1>4, <3>2, <3>3, <3>4, <3>5
  <2>7. run'[c].left \subseteq Audience(run'[c].receiver)
    BY <2>3, <2>5, <2>6
  <2> QED BY <2>4, <2>7 DEF RunAsked, Audience
<1>5. ASSUME NEW n \in Notifs, Start(c, n) PROVE RunAsked(run[c])'
  <2>1. job[n] # NoJob
    BY <1>5 DEF Start, NoJob
  <2>2. run'[c] = [pc |-> "read", n |-> n, receiver |-> job[n].receiver, left |-> {}]
    BY <1>5 DEF Start, TypeOK
  <2>3. job[n].receiver \in named'[n]
    BY <2>1, NamedGrows
  <2> QED BY <2>2, <2>3 DEF RunAsked
<1>6. ASSUME Complete(c) PROVE run'[c] = NoRun
  BY <1>6 DEF Complete, TypeOK
<1>7. ASSUME NEW w, Kill(w) PROVE run'[c] = NoRun \/ run'[c] = run[c]
  BY <1>7 DEF Kill
<1>8. ASSUME (\E h \in Handlers : AddError(h)) \/ (\E w \in Workers : Crash(w))
      PROVE  RunAsked(run[c])'
  BY <1>1, <1>2, <1>7, <1>8 DEF AddError, Crash
<1>9. ASSUME NEW h \in Handlers,
             \/ \E m \in Notifs : Create(h, m) \/ Update(h, m) \/ Delete(h, m)
             \/ RequestStep(h) \/ RequestError(h)
      PROVE  run' = run
  BY <1>9 DEF Create, Update, Delete, Accept, RequestStep, RequestError, CheckUnsent, Save,
              FindJob, RemoveJob, AddJob, Erase
<1>10. ASSUME (\E m \in Notifs : Sync(m) \/ Stall(m)) \/ UNCHANGED vars PROVE run' = run
  BY <1>10 DEF Sync, Stall, vars
<1>11. ASSUME NEW d \in Consumers, RunStep(d) \/ RunError(d) \/ \E n \in Notifs : Start(d, n)
       PROVE  RunAsked(run[c])'
  BY <1>1, <1>2, <1>3, <1>4, <1>5, <1>6, <1>11 DEF RunStep
<1> QED BY <1>1, <1>8, <1>9, <1>10, <1>11 DEF Next

\* The inbox.
LEMMA InboxNext ==
    ASSUME TypeOK, AskedInv, [Next]_vars
    PROVE  NobodyUnasked'
<1> DEFINE Asked(n) == UNION {Intended(r) : r \in named[n]}
<1> SUFFICES ASSUME NEW n \in Notifs PROVE inbox'[n] \subseteq Asked(n)'
  BY DEF NobodyUnasked
<1>1. inbox[n] \subseteq Asked(n)
  BY DEF AskedInv, NobodyUnasked
<1>2. Asked(n) \subseteq Asked(n)'
  BY NamedGrows DEF Intended
<1>3. CASE inbox'[n] = inbox[n]
  BY <1>1, <1>2, <1>3
<1>4. ASSUME NEW c \in Consumers, ProcessBatch(c)
      PROVE  inbox'[n] \subseteq Asked(n)'
  <2>1. run[c].pc # "idle"
    BY <1>4 DEF ProcessBatch
  <2>2. run[c].left \subseteq Audience(run[c].receiver) /\ run[c].receiver \in named[run[c].n]
    BY <2>1 DEF AskedInv, RunAsked
  <2>3. PICK batch \in SUBSET run[c].left :
           \/ inbox' = [inbox EXCEPT ![run[c].n] = @ \union batch]
           \/ inbox' = inbox
    BY <1>4 DEF ProcessBatch
  <2>4. CASE run[c].n = n
    <3>1. run[c].receiver \in Receivers
      BY <2>1, OpenRun DEF OpenRuns
    <3>2. batch \subseteq Intended(run[c].receiver)
      BY <2>2, <3>1, AudienceIntended
    <3>3. batch \subseteq Asked(n)
      BY <2>2, <2>4, <3>2
    <3>4. inbox'[n] \subseteq inbox[n] \union batch
      BY <2>3, <2>4 DEF TypeOK
    <3> QED BY <1>1, <1>2, <3>3, <3>4
  <2>5. CASE run[c].n # n
    BY <1>3, <2>3, <2>5 DEF TypeOK
  <2> QED BY <2>4, <2>5
<1>5. ASSUME NEW h \in Handlers,
             \/ \E m \in Notifs : Create(h, m) \/ Update(h, m) \/ Delete(h, m)
             \/ RequestStep(h) \/ RequestError(h) \/ AddError(h)
      PROVE  inbox' = inbox
  BY <1>5 DEF Create, Update, Delete, Accept, RequestStep, CheckUnsent, Save, FindJob,
              RemoveJob, AddJob, Erase, RequestError, AddError
<1>6. ASSUME NEW c \in Consumers, RunStep(c) \/ RunError(c) \/ \E m \in Notifs : Start(c, m),
             ~ProcessBatch(c)
      PROVE  inbox' = inbox
  BY <1>6 DEF RunStep, ReadRecord, MarkSent, Complete, RunError, Start
<1>7. CASE (\E m \in Notifs : Sync(m) \/ Stall(m)) \/ (\E w \in Workers : Crash(w)) \/ UNCHANGED vars
  BY <1>3, <1>7 DEF Sync, Stall, Crash, vars
<1> QED BY <1>3, <1>4, <1>5, <1>6, <1>7 DEF Next

LEMMA AskedNext == TypeOK /\ AskedInv /\ [Next]_vars => AskedInv'
<1> SUFFICES ASSUME TypeOK, AskedInv, [Next]_vars PROVE AskedInv'
  OBVIOUS
<1>1. \A h \in Handlers : RequestAsked(req[h])'
  BY RequestAskedNext
<1>2. \A n \in Notifs : (job[n] # NoJob => job[n].receiver \in named[n])'
  BY JobAskedNext
<1>3. \A c \in Consumers : RunAsked(run[c])'
  BY RunAskedNext
<1>4. NobodyUnasked'
  BY InboxNext
<1> QED BY <1>1, <1>2, <1>3, <1>4 DEF AskedInv

\* No one is told who was in no version of the notification, whatever requests,
\* jobs, stalls and crashes overlap.
THEOREM NobodyIsUnasked == Spec => []NobodyUnasked
<1>1. AskedInv => NobodyUnasked
  BY DEF AskedInv
<1> QED BY <1>1, InitTypeOK, NextTypeOK, AskedInit, AskedNext, PTL DEF Spec

=============================================================================
