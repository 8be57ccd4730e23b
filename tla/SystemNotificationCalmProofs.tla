-------------------- MODULE SystemNotificationCalmProofs --------------------
(* Theorems about SystemNotification where one request works on a            *)
(* notification at a time, the replica is fresh and nothing fails: first      *)
(* while jobs run, complete and stall when they like, then where jobs and     *)
(* requests keep out of each other's way.                                     *)
EXTENDS SystemNotificationProofs

Calm == ~Overlap /\ ~Lag /\ ~Faults /\ MaxCrashes = 0

-----------------------------------------------------------------------------
(* The queue holds what the table asks for *)

On(h, n) == req[h].n = n

\* What QueueMatchesTable says of n, between requests.
Matches(n) ==
    /\ row[n] # Absent /\ ~row[n].sent => job[n] # NoJob
    /\ job[n].state = "waiting" /\ job[n].stalled = 0 /\ row[n] # Absent =>
           job[n].receiver = row[n].receiver

\* What a request knows of the row and the job it works on.
Knows(h, n) ==
    /\ req[h].pc = "read" => req[h].kind # "create"
    /\ req[h].pc = "save" =>
           \/ req[h].kind = "create" /\ named[n] = {}
           \/ req[h].kind = "update" /\ row[n] # Absent
    /\ req[h].pc \in {"find", "remove"} =>
           \/ req[h].kind = "delete"
           \/ req[h].kind = "update" /\ row[n] # Absent /\ row[n].receiver = req[h].receiver
    /\ req[h].pc = "add" =>
           /\ row[n] # Absent /\ row[n].receiver = req[h].receiver
           /\ ~(job[n].state = "waiting" /\ job[n].stalled = 0)

Told(n) == row[n] = Absent \/ row[n].sent

StoresInv(n) ==
    /\ replica[n] = row[n]
    /\ \A h, g \in Handlers : On(h, n) /\ On(g, n) => h = g
    /\ \A h \in Handlers : On(h, n) => Knows(h, n)
    /\ (\A h \in Handlers : On(h, n) => req[h].pc = "read") => Matches(n)
    /\ \A c \in Consumers : run[c].n = n /\ run[c].pc = "done" => Told(n)
    /\ named[n] = {} => row[n] = Absent /\ job[n] = NoJob /\ \A c \in Consumers : run[c].n # n

QueueInv == \A n \in Notifs : StoresInv(n)

\* What a step about n that no request takes may do: mark the row as sent, take
\* up, stall or complete its job, the last only once the row is sent or gone.
RowMoves(n) ==
    \/ row'[n] = row[n]
    \/ /\ row[n] # Absent /\ row'[n] # Absent
       /\ row'[n].sent /\ row'[n].receiver = row[n].receiver

JobMoves(n) ==
    \/ job'[n] = job[n]
    \/ /\ job[n] # NoJob /\ job'[n] # NoJob
       /\ ~(job'[n].state = "waiting" /\ job'[n].stalled = 0)
    \/ job'[n] = NoJob /\ Told(n)'

RunsMove(n) ==
    \A c \in Consumers : run'[c].n = n =>
        /\ run[c].n = n \/ job[n] # NoJob
        /\ run'[c].pc = "done" => (run[c].n = n /\ run[c].pc = "done") \/ Told(n)'

LEMMA InitQueue == Init => QueueInv
<1> SUFFICES ASSUME Init, NEW n \in Notifs PROVE StoresInv(n)
  BY DEF QueueInv
<1>1. row[n] = Absent /\ replica[n] = Absent /\ job[n] = NoJob /\ named[n] = {}
  BY DEF Init
<1>2. \A h \in Handlers : ~On(h, n)
  BY NotificationAssumption DEF Init, On, NoRequest
<1>3. \A c \in Consumers : run[c].n # n
  BY NotificationAssumption DEF Init, NoRun
<1> QED BY <1>1, <1>2, <1>3 DEF StoresInv, Matches, NoJob

LEMMA OthersKept ==
    ASSUME NEW n, StoresInv(n), RowMoves(n), JobMoves(n), RunsMove(n),
           replica'[n] = row'[n], named'[n] = named[n],
           \A h \in Handlers : req'[h] = req[h] \/ (~On(h, n) /\ ~On(h, n)')
    PROVE  StoresInv(n)'
<1>1. \A h \in Handlers : On(h, n)' <=> On(h, n)
  BY DEF On
<1>2. Told(n) => Told(n)'
  BY DEF Told, RowMoves
<1>3. \A h, g \in Handlers : On(h, n)' /\ On(g, n)' => h = g
  BY <1>1 DEF StoresInv
<1>4. ASSUME NEW h \in Handlers, On(h, n)' PROVE Knows(h, n)'
  <2>1. On(h, n) /\ req'[h] = req[h] /\ Knows(h, n)
    BY <1>1, <1>4 DEF StoresInv
  <2>2. row[n] # Absent => row'[n] # Absent /\ row'[n].receiver = row[n].receiver
    BY DEF RowMoves
  <2>3. ~(job[n].state = "waiting" /\ job[n].stalled = 0) =>
            ~(job'[n].state = "waiting" /\ job'[n].stalled = 0)
    BY DEF JobMoves, NoJob
  <2> QED BY <2>1, <2>2, <2>3 DEF Knows
<1>5. ASSUME Matches(n) PROVE Matches(n)'
  <2>1. ASSUME row'[n] # Absent, ~row'[n].sent PROVE job'[n] # NoJob
    BY <1>5, <2>1 DEF Matches, RowMoves, JobMoves, Told
  <2>2. ASSUME job'[n].state = "waiting", job'[n].stalled = 0, row'[n] # Absent
        PROVE  job'[n].receiver = row'[n].receiver
    BY <1>5, <2>2 DEF Matches, RowMoves, JobMoves, NoJob
  <2> QED BY <2>1, <2>2 DEF Matches
<1>6. (\A h \in Handlers : On(h, n)' => req'[h].pc = "read") => Matches(n)'
  <2>1. (\A h \in Handlers : On(h, n)' => req'[h].pc = "read") =>
            (\A h \in Handlers : On(h, n) => req[h].pc = "read")
    BY <1>1
  <2> QED BY <1>5, <2>1 DEF StoresInv
<1>7. \A c \in Consumers : run'[c].n = n /\ run'[c].pc = "done" => Told(n)'
  BY <1>2 DEF StoresInv, RunsMove
<1>8. named'[n] = {} => row'[n] = Absent /\ job'[n] = NoJob /\ \A c \in Consumers : run'[c].n # n
  BY DEF StoresInv, RowMoves, JobMoves, RunsMove
<1> QED BY <1>3, <1>4, <1>6, <1>7, <1>8 DEF StoresInv

\* A step of the request that works on n.
LEMMA OwnerMoved ==
    ASSUME NEW n, StoresInv(n), NEW h \in Handlers,
           \A g \in Handlers \ {h} : ~On(g, n) /\ req'[g] = req[g],
           replica'[n] = row'[n], run' = run,
           Told(n) => Told(n)' \/ \A c \in Consumers : run[c].n # n,
           named'[n] = {} => named[n] = {} /\ row'[n] = row[n] /\ job'[n] = job[n],
           On(h, n)' => Knows(h, n)',
           ~On(h, n)' \/ req'[h].pc = "read" => Matches(n)'
    PROVE  StoresInv(n)'
<1>1. \A g \in Handlers : On(g, n)' => g = h
  BY DEF On
<1>2. (\A g \in Handlers : On(g, n)' => req'[g].pc = "read") => Matches(n)'
  BY <1>1
<1>3. \A c \in Consumers : run'[c].n = n /\ run'[c].pc = "done" => Told(n)'
  BY DEF StoresInv
<1>4. named'[n] = {} => row'[n] = Absent /\ job'[n] = NoJob /\ \A c \in Consumers : run'[c].n # n
  BY DEF StoresInv
<1> QED BY <1>1, <1>2, <1>3, <1>4 DEF StoresInv

LEMMA GotoMoves ==
    ASSUME TypeOK, NEW h \in Handlers, req[h].pc # "idle", NEW stage, Goto(h, stage)
    PROVE  /\ req'[h].pc = stage /\ req'[h].kind = req[h].kind
           /\ req'[h].n = req[h].n /\ req'[h].receiver = req[h].receiver
           /\ \A g \in Handlers \ {h} : req'[g] = req[g]
<1>1. req[h] \in OpenRequests
  BY OpenRequest
<1>2. PICK r : r = [req[h] EXCEPT !.pc = stage]
  OBVIOUS
<1>3. r.pc = stage /\ r.kind = req[h].kind /\ r.n = req[h].n /\ r.receiver = req[h].receiver
  BY <1>1, <1>2 DEF OpenRequests
<1>4. req' = [req EXCEPT ![h] = r]
  BY <1>2 DEF Goto
<1> QED BY <1>3, <1>4 DEF TypeOK

LEMMA EndMoves ==
    ASSUME TypeOK, NEW h \in Handlers, End(h)
    PROVE  req'[h].n = NoNotif /\ \A g \in Handlers \ {h} : req'[g] = req[g]
<1>1. NoRequest.n = NoNotif
  BY DEF NoRequest
<1> QED BY <1>1 DEF TypeOK, End

\* What a request does to a notification it does not work on: nothing.
LEMMA Elsewhere ==
    ASSUME NEW h \in Handlers, NEW n, StoresInv(n), ~On(h, n), ~On(h, n)',
           \A g \in Handlers \ {h} : req'[g] = req[g],
           row'[n] = row[n], replica'[n] = replica[n], job'[n] = job[n],
           named'[n] = named[n], run' = run
    PROVE  StoresInv(n)'
<1>1. RowMoves(n) /\ JobMoves(n) /\ RunsMove(n)
  BY DEF RowMoves, JobMoves, RunsMove
<1>2. replica'[n] = row'[n]
  BY DEF StoresInv
<1>3. \A g \in Handlers : req'[g] = req[g] \/ (~On(g, n) /\ ~On(g, n)')
  OBVIOUS
<1> QED BY <1>1, <1>2, <1>3, OthersKept

\* An accepted request starts at its save or at its check.
LEMMA Accepted ==
    ASSUME NEW h \in Handlers, NEW n \in Notifs, Create(h, n) \/ Update(h, n) \/ Delete(h, n)
    PROVE  \E kind, receiver, now, stage :
               /\ Accept(h, kind, n, receiver, now, stage)
               /\ \/ stage = "save" /\ kind = "create" /\ named[n] = {}
                  \/ stage = "read" /\ kind # "create"
<1>1. CASE Create(h, n)
  <2>1. PICK receiver \in Receivers, now \in BOOLEAN :
            Accept(h, "create", n, receiver, now, "save")
    BY <1>1 DEF Create
  <2>2. named[n] = {}
    BY <1>1 DEF Create
  <2> QED BY <2>1, <2>2
<1>2. CASE Update(h, n)
  <2>1. PICK receiver \in Receivers, now \in BOOLEAN :
            Accept(h, "update", n, receiver, now, "read")
    BY <1>2 DEF Update
  <2> QED BY <2>1
<1>3. CASE Delete(h, n)
  <2>1. PICK receiver \in Receivers : Accept(h, "delete", n, receiver, FALSE, "read")
    BY <1>3 DEF Delete
  <2>2. PICK now : now = FALSE
    OBVIOUS
  <2>3. Accept(h, "delete", n, receiver, now, "read")
    BY <2>1, <2>2
  <2> QED BY <2>3
<1> QED BY <1>1, <1>2, <1>3

\* A request that is accepted finds the notification to itself.
LEMMA AcceptQueue ==
    ASSUME Calm, TypeOK, QueueInv, NEW h \in Handlers, NEW n \in Notifs,
           Create(h, n) \/ Update(h, n) \/ Delete(h, n)
    PROVE  QueueInv'
<1>1. PICK kind, receiver, now, stage :
         /\ Accept(h, kind, n, receiver, now, stage)
         /\ \/ stage = "save" /\ kind = "create" /\ named[n] = {}
            \/ stage = "read" /\ kind # "create"
  BY Accepted
<1>2. /\ row' = row /\ replica' = replica /\ job' = job /\ run' = run /\ named' = named
      /\ \A g \in Handlers : ~On(g, n)
  BY <1>1 DEF Accept, Calm, Requested, On
<1>3. /\ req'[h].n = n /\ req'[h].kind = kind /\ req'[h].pc = stage
      /\ \A g \in Handlers \ {h} : req'[g] = req[g]
  BY <1>1 DEF Accept, TypeOK
<1>4. req[h].n = NoNotif
  <2>1. req[h] \in Requests /\ req[h].pc = "idle"
    BY <1>1 DEF Accept, TypeOK
  <2> QED BY <2>1 DEF Requests, NoRequest
<1>5. StoresInv(n)'
  <2>1. StoresInv(n)
    BY DEF QueueInv
  <2>2. Matches(n) /\ Matches(n)'
    BY <1>2, <2>1 DEF StoresInv, Matches
  <2>3. Told(n) => Told(n)'
    BY <1>2 DEF Told
  <2>4. Knows(h, n)'
    BY <1>1, <1>2, <1>3 DEF Knows
  <2>5. \A g \in Handlers \ {h} : ~On(g, n) /\ req'[g] = req[g]
    BY <1>2, <1>3
  <2>6. replica'[n] = row'[n]
    BY <1>2, <2>1 DEF StoresInv
  <2> QED BY <1>2, <2>1, <2>2, <2>3, <2>4, <2>5, <2>6, OwnerMoved
<1>6. ASSUME NEW m \in Notifs, m # n PROVE StoresInv(m)'
  <2>1. ~On(h, m) /\ ~On(h, m)'
    BY <1>3, <1>4, <1>6, NotificationAssumption DEF On
  <2> QED BY <1>2, <1>3, <1>6, <2>1, Elsewhere DEF QueueInv
<1> QED BY <1>5, <1>6 DEF QueueInv

\* The notification a request works on, and what its step leaves alone.
LEMMA RequestFrame ==
    ASSUME Calm, TypeOK, QueueInv, NEW h \in Handlers, RequestStep(h)
    PROVE  \E n \in Notifs :
               /\ n = req[h].n /\ n # NoNotif /\ On(h, n)
               /\ req[h].pc # "idle" /\ req[h] \in OpenRequests
               /\ \A g \in Handlers \ {h} : ~On(g, n) /\ req'[g] = req[g]
               /\ \/ req'[h].n = NoNotif
                  \/ /\ req'[h].n = n
                     /\ req'[h].kind = req[h].kind /\ req'[h].receiver = req[h].receiver
               /\ \A m \in Notifs \ {n} :
                      /\ ~On(h, m) /\ ~On(h, m)'
                      /\ row'[m] = row[m] /\ replica'[m] = replica[m]
                      /\ job'[m] = job[m] /\ named'[m] = named[m]
               /\ run' = run /\ inbox' = inbox
<1>1. PICK n : n = req[h].n
  OBVIOUS
<1>2. req[h].pc # "idle" /\ req[h] \in OpenRequests
  <2>1. req[h].pc # "idle"
    BY DEF RequestStep, CheckUnsent, Save, FindJob, RemoveJob, AddJob, Erase
  <2> QED BY <2>1, OpenRequest
<1>3. n \in Notifs /\ n # NoNotif /\ On(h, n)
  BY <1>1, <1>2, NotificationAssumption DEF OpenRequests, On
<1>4. \A g \in Handlers \ {h} : ~On(g, n)
  BY <1>3 DEF QueueInv, StoresInv
<1>5. run' = run /\ inbox' = inbox
  BY DEF RequestStep, CheckUnsent, Save, FindJob, RemoveJob, AddJob, Erase
<1>6. /\ \A g \in Handlers \ {h} : req'[g] = req[g]
      /\ \/ req'[h].n = NoNotif
         \/ req'[h].n = n /\ req'[h].kind = req[h].kind /\ req'[h].receiver = req[h].receiver
  <2>1. End(h) \/ \E stage : Goto(h, stage)
    BY DEF RequestStep, CheckUnsent, Save, FindJob, RemoveJob, AddJob, Erase
  <2>2. CASE End(h)
    BY <2>2, EndMoves
  <2>3. CASE \E stage : Goto(h, stage)
    BY <1>1, <1>2, <2>3, GotoMoves
  <2> QED BY <2>1, <2>2, <2>3
<1>7. ASSUME NEW m \in Notifs, m # n
      PROVE  /\ ~On(h, m) /\ ~On(h, m)'
             /\ row'[m] = row[m] /\ replica'[m] = replica[m]
             /\ job'[m] = job[m] /\ named'[m] = named[m]
  <2>1. ~On(h, m) /\ ~On(h, m)'
    BY <1>1, <1>1, <1>6, <1>7, NotificationAssumption DEF On
  <2>2. row'[m] = row[m] /\ replica'[m] = replica[m] /\ job'[m] = job[m] /\ named'[m] = named[m]
    <3>1. CASE CheckUnsent(h) \/ FindJob(h)
      BY <3>1 DEF CheckUnsent, FindJob
    <3>2. CASE Save(h)
      <4>1. PICK r : row' = [row EXCEPT ![n] = r]
        BY <1>1, <3>2 DEF Save, WriteRow
      <4>2. replica' = row' /\ job' = job /\ named'[m] = named[m]
        BY <1>1, <1>7, <3>2 DEF Save, WriteRow, TypeOK, Calm
      <4>3. replica[m] = row[m]
        BY DEF QueueInv, StoresInv
      <4> QED BY <1>7, <4>1, <4>2, <4>3 DEF TypeOK
    <3>3. CASE RemoveJob(h)
      BY <1>1, <1>7, <3>3 DEF RemoveJob, TypeOK
    <3>4. CASE AddJob(h)
      BY <1>1, <1>7, <3>4 DEF AddJob, TypeOK
    <3>5. CASE Erase(h)
      <4>1. row' = [row EXCEPT ![n] = Absent] /\ replica' = row' /\ job' = job /\ named' = named
        BY <1>1, <3>5 DEF Erase, WriteRow, Calm
      <4>2. replica[m] = row[m]
        BY DEF QueueInv, StoresInv
      <4> QED BY <1>7, <4>1, <4>2 DEF TypeOK
    <3> QED BY <3>1, <3>2, <3>3, <3>4, <3>5 DEF RequestStep
  <2> QED BY <2>1, <2>2
<1> QED BY <1>1, <1>2, <1>3, <1>4, <1>5, <1>6, <1>7

\* The request takes its step on the notification it has to itself.
LEMMA RequestQueue ==
    ASSUME Calm, TypeOK, QueueInv, NEW h \in Handlers, RequestStep(h)
    PROVE  QueueInv'
<1>0. PICK n \in Notifs :
         /\ n = req[h].n /\ n # NoNotif /\ On(h, n)
         /\ req[h].pc # "idle" /\ req[h] \in OpenRequests
         /\ \A g \in Handlers \ {h} : ~On(g, n) /\ req'[g] = req[g]
         /\ \/ req'[h].n = NoNotif
            \/ req'[h].n = n /\ req'[h].kind = req[h].kind /\ req'[h].receiver = req[h].receiver
         /\ \A m \in Notifs \ {n} :
                /\ ~On(h, m) /\ ~On(h, m)'
                /\ row'[m] = row[m] /\ replica'[m] = replica[m]
                /\ job'[m] = job[m] /\ named'[m] = named[m]
         /\ run' = run /\ inbox' = inbox
  BY RequestFrame
<1>1. req[h].pc # "idle" /\ req[h] \in OpenRequests
  BY <1>0
<1>2. n \in Notifs /\ req[h].kind \in Kinds /\ req[h].receiver \in Receivers
  BY <1>0 DEF OpenRequests
<1>3. n # NoNotif /\ req[h].receiver # Absent.receiver
  BY <1>0, <1>2, NotificationAssumption DEF Absent
<1>4. StoresInv(n) /\ On(h, n)
  BY <1>0 DEF QueueInv
<1>5. Knows(h, n)
  BY <1>4 DEF StoresInv
<1>6. \A g \in Handlers \ {h} : ~On(g, n)
  BY <1>0
<1>7. run' = run
  BY <1>0
<1>8. /\ \A g \in Handlers \ {h} : req'[g] = req[g]
      /\ \/ req'[h].n = NoNotif
         \/ req'[h].n = n /\ req'[h].kind = req[h].kind /\ req'[h].receiver = req[h].receiver
  BY <1>0
\* Where it goes on.
<1>9. ASSUME NEW stage, Goto(h, stage) PROVE req'[h].pc = stage
  BY <1>1, <1>9, GotoMoves
<1>10. ASSUME End(h) PROVE ~On(h, n)'
  BY <1>3, <1>10, EndMoves DEF On
<1>11. ASSUME NEW m \in Notifs, m # n PROVE StoresInv(m)'
  BY <1>0, <1>11, Elsewhere DEF QueueInv
\* What is left to show of a step on n.
<1>12. ASSUME replica'[n] = row'[n],
              Told(n) => Told(n)' \/ \A c \in Consumers : run[c].n # n,
              named'[n] = {} => named[n] = {} /\ row'[n] = row[n] /\ job'[n] = job[n],
              On(h, n)' => Knows(h, n)',
              ~On(h, n)' \/ req'[h].pc = "read" => Matches(n)'
       PROVE  StoresInv(n)'
  BY <1>4, <1>6, <1>7, <1>8, <1>12, OwnerMoved
<1>13. StoresInv(n)'
  <2>1. CASE CheckUnsent(h)
    <3>1. req[h].pc = "read"
      BY <2>1 DEF CheckUnsent
    <3>2. row' = row /\ replica' = replica /\ job' = job /\ named' = named
      BY <2>1 DEF CheckUnsent
    <3>3. Matches(n)'
      <4>1. Matches(n)
        BY <1>4, <1>6, <3>1 DEF StoresInv
      <4> QED BY <3>2, <4>1 DEF Matches
    <3>4. On(h, n)' => Knows(h, n)'
      <4>1. CASE End(h)
        BY <1>10, <4>1
      <4>2. CASE ~End(h)
        <5>1. /\ row[n] # Absent
              /\ \/ req[h].kind = "update" /\ Goto(h, "save")
                 \/ req[h].kind # "update" /\ Goto(h, "find")
          BY <1>0, <1>4, <2>1, <4>2 DEF CheckUnsent, StoresInv
        <5>2. req[h].kind # "create"
          BY <1>5, <3>1 DEF Knows
        <5>3. CASE req[h].kind = "update" /\ Goto(h, "save")
          BY <1>8, <1>9, <3>2, <5>1, <5>3, <1>3 DEF Knows, On
        <5>4. CASE req[h].kind # "update" /\ Goto(h, "find")
          <6>1. req'[h].pc = "find"
            BY <1>9, <5>4
          <6>2. req[h].kind = "delete"
            BY <1>2, <5>2, <5>4 DEF Kinds
          <6>3. On(h, n)' => req'[h].kind = "delete"
            BY <1>3, <1>8, <6>2 DEF On
          <6> QED BY <6>1, <6>3 DEF Knows
        <5> QED BY <5>1, <5>3, <5>4
      <4> QED BY <4>1, <4>2
    <3>5. replica'[n] = row'[n] /\ (Told(n) => Told(n)')
      BY <1>4, <3>2 DEF StoresInv, Told
    <3> QED BY <1>12, <3>2, <3>3, <3>4, <3>5
  <2>2. CASE Save(h)
    <3>1. PICK r : r = [receiver |-> req[h].receiver, sent |-> row[n].sent \/ req[h].now]
      OBVIOUS
    <3>2. r.receiver = req[h].receiver /\ (row[n].sent => r.sent) /\ r # Absent
      <4>1. r.receiver = req[h].receiver
        BY <3>1
      <4>2. r.sent = (row[n].sent \/ req[h].now)
        BY <3>1, Zenon
      <4> QED BY <1>3, <4>1, <4>2
    <3>3. row'[n] = r /\ replica'[n] = row'[n] /\ job' = job
      BY <1>0, <1>2, <2>2, <3>1 DEF Save, WriteRow, TypeOK, Calm
    <3>4. named'[n] # {}
      BY <1>0, <1>2, <2>2 DEF Save, TypeOK
    <3>5. /\ req[h].pc = "save"
          /\ Goto(h, IF req[h].kind = "create" THEN "add" ELSE "find")
      BY <2>2 DEF Save
    <3>6. \/ req[h].kind = "create" /\ named[n] = {}
          \/ req[h].kind = "update" /\ row[n] # Absent
      BY <1>5, <3>5 DEF Knows
    <3>7. Told(n) => Told(n)' \/ \A c \in Consumers : run[c].n # n
      <4>1. CASE named[n] = {}
        BY <1>4, <4>1 DEF StoresInv
      <4>2. CASE named[n] # {}
        BY <3>2, <3>3, <3>6, <4>2 DEF Told
      <4> QED BY <4>1, <4>2
    <3>8. On(h, n)' => Knows(h, n)'
      <4>1. CASE req[h].kind = "create" /\ named[n] = {}
        <5>1. req'[h].pc = "add"
          BY <1>9, <3>5, <4>1
        <5>2. job'[n] = NoJob
          BY <1>4, <3>3, <4>1 DEF StoresInv
        <5>3. ~(job'[n].state = "waiting" /\ job'[n].stalled = 0)
          BY <5>2 DEF NoJob
        <5>4. On(h, n)' => req'[h].receiver = req[h].receiver
          BY <1>3, <1>8 DEF On
        <5> QED BY <3>2, <3>3, <5>1, <5>3, <5>4 DEF Knows
      <4>2. CASE req[h].kind = "update" /\ row[n] # Absent
        <5>1. req'[h].pc = "find"
          BY <1>9, <3>5, <4>2
        <5>2. On(h, n)' => req'[h].receiver = req[h].receiver /\ req'[h].kind = "update"
          BY <1>3, <1>8, <4>2 DEF On
        <5> QED BY <3>2, <3>3, <5>1, <5>2 DEF Knows
      <4> QED BY <3>6, <4>1, <4>2
    <3>9. On(h, n)' /\ req'[h].pc # "read"
      <4>1. req'[h].pc \in {"add", "find"}
        BY <1>9, <3>5
      <4>2. ~End(h)
        <5>1. End(h) => req'[h].pc = "idle"
          BY DEF End, TypeOK, NoRequest
        <5> QED BY <4>1, <5>1
      <4>3. req'[h].n = n
        BY <1>0, <1>1, <3>5, GotoMoves
      <4> QED BY <4>1, <4>3 DEF On
    <3> QED BY <1>12, <3>3, <3>4, <3>7, <3>8, <3>9
  <2>3. CASE FindJob(h)
    <3>1. req[h].pc = "find"
      BY <2>3 DEF FindJob
    <3>2. row' = row /\ replica' = replica /\ job' = job /\ named' = named
      BY <2>3 DEF FindJob
    <3>3. Goto(h, IF job[n] = NoJob THEN After(h) ELSE "remove")
      BY <1>0, <2>3 DEF FindJob
    <3>4. req'[h].n = n /\ req'[h].kind = req[h].kind /\ req'[h].receiver = req[h].receiver
      BY <1>0, <1>1, <3>3, GotoMoves
    <3>5. On(h, n)' => Knows(h, n)'
      <4>1. CASE job[n] = NoJob
        <5>1. req'[h].pc = After(h)
          BY <1>9, <3>3, <4>1
        <5>2. ~(job'[n].state = "waiting" /\ job'[n].stalled = 0)
          BY <3>2, <4>1 DEF NoJob
        <5> QED BY <1>5, <3>1, <3>2, <3>4, <5>1, <5>2 DEF Knows, After
      <4>2. CASE job[n] # NoJob
        <5>1. req'[h].pc = "remove"
          BY <1>9, <3>3, <4>2
        <5> QED BY <1>5, <3>1, <3>2, <3>4, <5>1 DEF Knows
      <4> QED BY <4>1, <4>2
    <3>6. On(h, n)' /\ req'[h].pc # "read"
      BY <1>9, <3>3, <3>4 DEF On, After
    <3>7. replica'[n] = row'[n] /\ (Told(n) => Told(n)')
      BY <1>4, <3>2 DEF StoresInv, Told
    <3> QED BY <1>12, <3>2, <3>5, <3>6, <3>7
  <2>4. CASE RemoveJob(h)
    <3>1. req[h].pc = "remove"
      BY <2>4 DEF RemoveJob
    <3>2. row' = row /\ replica' = replica /\ named' = named
      BY <2>4 DEF RemoveJob
    <3>3. Goto(h, After(h))
      BY <2>4 DEF RemoveJob
    <3>4. /\ req'[h].n = n /\ req'[h].kind = req[h].kind /\ req'[h].receiver = req[h].receiver
          /\ req'[h].pc = After(h)
      BY <1>0, <1>1, <3>3, GotoMoves
    <3>5. ~(job'[n].state = "waiting" /\ job'[n].stalled = 0)
      <4>1. job'[n] = IF job[n].state = "active" THEN job[n] ELSE NoJob
        BY <1>0, <1>2, <2>4 DEF RemoveJob, TypeOK
      <4> QED BY <4>1 DEF NoJob
    <3>6. On(h, n)' => Knows(h, n)'
      BY <1>5, <3>1, <3>2, <3>4, <3>5 DEF Knows, After
    <3>7. On(h, n)' /\ req'[h].pc # "read"
      BY <3>4 DEF On, After
    <3>8. replica'[n] = row'[n] /\ (Told(n) => Told(n)')
      BY <1>4, <3>2 DEF StoresInv, Told
    <3>9. named'[n] = {} => job'[n] = job[n]
      <4>1. named[n] = {} => job[n] = NoJob
        BY <1>4 DEF StoresInv
      <4>2. job[n] = NoJob => job'[n] = job[n]
        BY <1>0, <1>2, <2>4 DEF RemoveJob, TypeOK
      <4> QED BY <3>2, <4>1, <4>2
    <3> QED BY <1>12, <3>2, <3>6, <3>7, <3>8, <3>9
  <2>5. CASE AddJob(h)
    <3>1. req[h].pc = "add"
      BY <2>5 DEF AddJob
    <3>2. row' = row /\ replica' = replica /\ named' = named /\ End(h)
      BY <2>5 DEF AddJob
    <3>3. PICK j : j = [state |-> "waiting", receiver |-> req[h].receiver,
                        by |-> NoConsumer, stalled |-> 0]
      OBVIOUS
    <3>4. j.receiver = req[h].receiver /\ j # NoJob
      BY <3>3 DEF NoJob
    <3>5. job'[n] = IF job[n] # NoJob THEN job[n] ELSE j
      BY <1>0, <1>2, <2>5, <3>3 DEF AddJob, TypeOK
    <3>6. /\ row[n] # Absent /\ row[n].receiver = req[h].receiver
          /\ ~(job[n].state = "waiting" /\ job[n].stalled = 0)
      BY <1>5, <3>1 DEF Knows
    <3>7. Matches(n)'
      <4>1. job'[n] # NoJob
        BY <3>4, <3>5
      <4>2. job'[n].state = "waiting" /\ job'[n].stalled = 0 => job'[n].receiver = row'[n].receiver
        BY <3>2, <3>4, <3>5, <3>6
      <4> QED BY <4>1, <4>2 DEF Matches
    <3>8. named[n] # {}
      BY <1>4, <3>6 DEF StoresInv
    <3>9. replica'[n] = row'[n] /\ (Told(n) => Told(n)')
      BY <1>4, <3>2 DEF StoresInv, Told
    <3> QED BY <1>10, <1>12, <3>2, <3>7, <3>8, <3>9
  <2>6. CASE Erase(h)
    <3>1. row'[n] = Absent /\ replica'[n] = row'[n] /\ job' = job /\ named' = named /\ End(h)
      BY <1>0, <1>2, <2>6 DEF Erase, WriteRow, TypeOK, Calm
    <3>2. Matches(n)' /\ Told(n)'
      BY <3>1 DEF Matches, Told
    <3>3. named[n] = {} => row'[n] = row[n]
      BY <1>4, <3>1 DEF StoresInv
    <3> QED BY <1>10, <1>12, <3>1, <3>2, <3>3
  <2> QED BY <2>1, <2>2, <2>3, <2>4, <2>5, <2>6 DEF RequestStep
<1> QED BY <1>11, <1>13 DEF QueueInv

\* A run marks its notification as sent, or finds it gone, before it is done.
LEMMA RunQueue ==
    ASSUME Calm, TypeOK, QueueInv, NEW c \in Consumers, RunStep(c)
    PROVE  QueueInv'
<1>1. run[c] \in OpenRuns
  <2>1. run[c].pc # "idle"
    BY DEF RunStep, ReadRecord, ProcessBatch, MarkSent, Complete
  <2> QED BY <2>1, OpenRun
<1>2. PICK m \in Notifs : m = run[c].n
  BY <1>1 DEF OpenRuns
<1>3. named' = named /\ req' = req
  BY DEF RunStep, ReadRecord, ProcessBatch, MarkSent, Complete
<1>4. \A d \in Consumers \ {c} : run'[d] = run[d]
  BY DEF RunStep, ReadRecord, ProcessBatch, MarkSent, Complete, TypeOK
\* The fields of a run that goes on.
<1>5. ASSUME NEW stage, NEW left
      PROVE  /\ [run[c] EXCEPT !.pc = stage].pc = stage
             /\ [run[c] EXCEPT !.left = left].pc = run[c].pc
             /\ [run[c] EXCEPT !.pc = stage, !.left = left].pc = stage
  BY <1>1 DEF OpenRuns
<1>6. ASSUME NEW n \in Notifs, RowMoves(n), JobMoves(n), replica'[n] = row'[n],
             run'[c].n = run[c].n \/ run'[c].n = NoNotif,
             run'[c].n = n => (run'[c].pc = "done" => Told(n)')
      PROVE  StoresInv(n)'
  <2>1. RunsMove(n)
    <3> SUFFICES ASSUME NEW d \in Consumers, run'[d].n = n
                 PROVE  /\ run[d].n = n \/ job[n] # NoJob
                        /\ run'[d].pc = "done" => (run[d].n = n /\ run[d].pc = "done") \/ Told(n)'
      BY DEF RunsMove
    <3>1. CASE d = c
      BY <1>6, <3>1, NotificationAssumption
    <3>2. CASE d # c
      BY <1>4, <3>2
    <3> QED BY <3>1, <3>2
  <2> QED BY <1>3, <1>6, <2>1, OthersKept DEF QueueInv
<1>7. ASSUME NEW n \in Notifs PROVE replica[n] = row[n] /\ StoresInv(n)
  BY DEF QueueInv, StoresInv
<1>8. CASE ReadRecord(c)
  <2> SUFFICES ASSUME NEW n \in Notifs PROVE StoresInv(n)'
    BY DEF QueueInv
  <2>1. row' = row /\ replica' = replica /\ job' = job
    BY <1>8 DEF ReadRecord
  <2>2. run'[c].n = run[c].n
    BY <1>8, StaysOnIt
  <2>3. run'[c].pc = "done" => row[m] = Absent
    <3>1. CASE replica[run[c].n] = Absent
      BY <1>2, <1>7, <3>1
    <3>2. CASE replica[run[c].n] # Absent
      <4>1. run'[c] = [run[c] EXCEPT !.pc = "batch", !.left = Audience(run[c].receiver)]
        BY <1>8, <3>2 DEF ReadRecord, TypeOK
      <4>2. [run[c] EXCEPT !.pc = "batch", !.left = Audience(run[c].receiver)].pc = "batch"
        BY <1>5
      <4> QED BY <4>1, <4>2
    <3> QED BY <3>1, <3>2
  <2>4. run'[c].n = n => (run'[c].pc = "done" => Told(n)')
    BY <1>2, <2>1, <2>2, <2>3 DEF Told
  <2>5. RowMoves(n) /\ JobMoves(n) /\ replica'[n] = row'[n]
    BY <1>7, <2>1 DEF RowMoves, JobMoves
  <2> QED BY <1>6, <2>2, <2>4, <2>5
<1>9. CASE ProcessBatch(c)
  <2> SUFFICES ASSUME NEW n \in Notifs PROVE StoresInv(n)'
    BY DEF QueueInv
  <2>1. row' = row /\ replica' = replica /\ job' = job /\ run[c].pc = "batch"
    BY <1>9 DEF ProcessBatch
  <2>2. run'[c].n = run[c].n
    BY <1>9, StaysOnIt
  <2>3. run'[c].pc = "batch"
    <3>1. PICK batch : run'[c] = [run[c] EXCEPT !.left = run[c].left \ batch]
      BY <1>9 DEF ProcessBatch, TypeOK
    <3>2. [run[c] EXCEPT !.left = run[c].left \ batch].pc = run[c].pc
      BY <1>5
    <3> QED BY <2>1, <3>1, <3>2
  <2>4. RowMoves(n) /\ JobMoves(n) /\ replica'[n] = row'[n]
    BY <1>7, <2>1 DEF RowMoves, JobMoves
  <2> QED BY <1>6, <2>2, <2>3, <2>4
<1>10. CASE MarkSent(c)
  <2> SUFFICES ASSUME NEW n \in Notifs PROVE StoresInv(n)'
    BY DEF QueueInv
  <2>1. job' = job
    BY <1>10 DEF MarkSent
  <2>2. run'[c].n = run[c].n
    BY <1>10, StaysOnIt
  <2>3. \/ row[m] = Absent /\ row' = row /\ replica' = replica
        \/ /\ row[m] # Absent
           /\ row' = [row EXCEPT ![m] = [row[m] EXCEPT !.sent = TRUE]] /\ replica' = row'
    BY <1>2, <1>10 DEF MarkSent, WriteRow, Calm
  <2>4. CASE row[m] = Absent /\ row' = row /\ replica' = replica
    <3>1. RowMoves(n) /\ JobMoves(n) /\ replica'[n] = row'[n]
      BY <1>7, <2>1, <2>4 DEF RowMoves, JobMoves
    <3>2. run'[c].n = n => Told(n)'
      BY <1>2, <2>2, <2>4 DEF Told
    <3> QED BY <1>6, <2>2, <3>1, <3>2
  <2>5. CASE /\ row[m] # Absent
             /\ row' = [row EXCEPT ![m] = [row[m] EXCEPT !.sent = TRUE]] /\ replica' = row'
    <3>1. PICK r : r = [row[m] EXCEPT !.sent = TRUE]
      OBVIOUS
    <3>2. r.sent = TRUE /\ r.receiver = row[m].receiver
      <4>1. row[m] \in [receiver : Receivers, sent : BOOLEAN]
        BY <2>5 DEF TypeOK, Rows
      <4> QED BY <3>1, <4>1
    <3>3. row' = [row EXCEPT ![m] = r] /\ replica' = row'
      BY <2>5, <3>1
    <3>4. r # Absent
      BY <3>2 DEF Absent
    <3>5. RowMoves(n)
      <4>1. CASE n = m
        BY <2>5, <3>2, <3>3, <3>4, <4>1 DEF RowMoves, TypeOK
      <4>2. CASE n # m
        BY <3>3, <4>2 DEF RowMoves, TypeOK
      <4> QED BY <4>1, <4>2
    <3>6. JobMoves(n) /\ replica'[n] = row'[n]
      BY <2>1, <3>3 DEF JobMoves
    <3>7. run'[c].n = n => Told(n)'
      BY <1>2, <2>2, <3>2, <3>3 DEF Told, TypeOK
    <3> QED BY <1>6, <2>2, <3>5, <3>6, <3>7
  <2> QED BY <2>3, <2>4, <2>5
<1>11. CASE Complete(c)
  <2> SUFFICES ASSUME NEW n \in Notifs PROVE StoresInv(n)'
    BY DEF QueueInv
  <2>1. row' = row /\ replica' = replica /\ run[c].pc = "done"
    BY <1>11 DEF Complete
  <2>2. run'[c].n = NoNotif
    BY <1>11 DEF Complete, TypeOK, NoRun
  <2>3. Told(m)'
    BY <1>2, <1>7, <2>1 DEF StoresInv, Told
  <2>4. JobMoves(n)
    <3>1. CASE n = m
      BY <1>2, <1>11, <2>3, <3>1 DEF Complete, TypeOK, JobMoves
    <3>2. CASE n # m
      BY <1>2, <1>11, <3>2 DEF Complete, TypeOK, JobMoves
    <3> QED BY <3>1, <3>2
  <2>5. RowMoves(n) /\ replica'[n] = row'[n]
    BY <1>7, <2>1 DEF RowMoves
  <2> QED BY <1>6, <2>2, <2>4, <2>5, NotificationAssumption
<1> QED BY <1>8, <1>9, <1>10, <1>11 DEF RunStep

LEMMA StartQueue ==
    ASSUME Calm, TypeOK, QueueInv, NEW c \in Consumers, NEW m \in Notifs, Start(c, m)
    PROVE  QueueInv'
<1> SUFFICES ASSUME NEW n \in Notifs PROVE StoresInv(n)'
  BY DEF QueueInv
<1>1. StoresInv(n) /\ replica[n] = row[n]
  BY DEF QueueInv, StoresInv
<1>2. /\ row' = row /\ replica' = replica /\ req' = req /\ named' = named
      /\ job[m].state = "waiting"
  BY DEF Start
<1>3. job[m] # NoJob
  BY <1>2 DEF NoJob
<1>4. PICK j : j = [job[m] EXCEPT !.state = "active", !.by = c]
  OBVIOUS
<1>5. j.state = "active" /\ j # NoJob
  BY <1>3, <1>4, OpenJob DEF OpenJobs, NoJob
<1>6. job' = [job EXCEPT ![m] = j]
  BY <1>4 DEF Start, TypeOK
<1>7. JobMoves(n)
  <2>1. CASE n = m
    BY <1>3, <1>5, <1>6, <2>1 DEF JobMoves, TypeOK
  <2>2. CASE n # m
    BY <1>6, <2>2 DEF JobMoves, TypeOK
  <2> QED BY <2>1, <2>2
<1>8. PICK r : r = [pc |-> "read", n |-> m, receiver |-> job[m].receiver, left |-> {}]
  OBVIOUS
<1>9. r.pc = "read" /\ r.n = m
  BY <1>8
<1>10. run' = [run EXCEPT ![c] = r]
  BY <1>8 DEF Start
<1>11. RunsMove(n)
  BY <1>3, <1>9, <1>10 DEF RunsMove, TypeOK
<1>12. RowMoves(n) /\ replica'[n] = row'[n]
  BY <1>1, <1>2 DEF RowMoves
<1> QED BY <1>1, <1>2, <1>7, <1>11, <1>12, OthersKept

LEMMA StallQueue ==
    ASSUME Calm, TypeOK, QueueInv, NEW m \in Notifs, Stall(m)
    PROVE  QueueInv'
<1> SUFFICES ASSUME NEW n \in Notifs PROVE StoresInv(n)'
  BY DEF QueueInv
<1>1. StoresInv(n) /\ replica[n] = row[n]
  BY DEF QueueInv, StoresInv
<1>2. /\ row' = row /\ replica' = replica /\ req' = req /\ named' = named /\ run' = run
      /\ job[m].state = "active"
  BY DEF Stall
<1>3. job[m] # NoJob /\ job[m] \in OpenJobs
  BY <1>2, OpenJob DEF NoJob
<1>4. PICK state \in {"waiting", "failed"} :
         job' = [job EXCEPT ![m] = [job[m] EXCEPT !.state = state, !.by = NoConsumer,
                                                  !.stalled = job[m].stalled + 1]]
  BY DEF Stall, TypeOK
<1>5. PICK j : j = [job[m] EXCEPT !.state = state, !.by = NoConsumer,
                                  !.stalled = job[m].stalled + 1]
  OBVIOUS
<1>6. j.stalled = job[m].stalled + 1
  BY <1>3, <1>5 DEF OpenJobs
<1>7. j.stalled # 0
  BY <1>3, <1>6 DEF OpenJobs
<1>8. j # NoJob
  BY <1>7 DEF NoJob
<1>9. job' = [job EXCEPT ![m] = j]
  BY <1>4, <1>5
<1>10. JobMoves(n)
  <2>1. CASE n = m
    BY <1>3, <1>7, <1>8, <1>9, <2>1 DEF JobMoves, TypeOK
  <2>2. CASE n # m
    BY <1>9, <2>2 DEF JobMoves, TypeOK
  <2> QED BY <2>1, <2>2
<1>11. RowMoves(n) /\ RunsMove(n) /\ replica'[n] = row'[n]
  BY <1>1, <1>2 DEF RowMoves, RunsMove
<1> QED BY <1>1, <1>2, <1>10, <1>11, OthersKept

\* The steps there are when nothing fails and the replica is fresh.
LEMMA CalmSteps ==
    ASSUME Calm, TypeOK, QueueInv, Next
    PROVE  \/ \E h \in Handlers, n \in Notifs : Create(h, n) \/ Update(h, n) \/ Delete(h, n)
           \/ \E h \in Handlers : RequestStep(h)
           \/ \E c \in Consumers : RunStep(c)
           \/ \E c \in Consumers, n \in Notifs : Start(c, n)
           \/ \E n \in Notifs : Stall(n)
<1>1. ASSUME NEW h \in Handlers PROVE ~RequestError(h) /\ ~AddError(h)
  BY DEF Calm, RequestError, AddError
<1>2. ASSUME NEW c \in Consumers PROVE ~RunError(c)
  BY DEF Calm, RunError
<1>3. ASSUME NEW w \in Workers PROVE ~Crash(w)
  BY DEF Calm, Crash, TypeOK
<1>4. ASSUME NEW n \in Notifs PROVE ~Sync(n)
  BY DEF Sync, QueueInv, StoresInv
<1> QED BY <1>1, <1>2, <1>3, <1>4 DEF Next

LEMMA NextQueue ==
    ASSUME Calm, TypeOK, QueueInv, [Next]_vars
    PROVE  QueueInv'
<1>1. CASE Next
  BY <1>1, CalmSteps, AcceptQueue, RequestQueue, RunQueue, StartQueue, StallQueue
<1>2. CASE UNCHANGED vars
  BY <1>2 DEF vars, QueueInv, StoresInv, Knows, Matches, Told, On
<1> QED BY <1>1, <1>2

\* Between requests the queue holds what the table asks for: a notification not
\* sent yet has a job, and a job not run yet sends to the receiver of the row,
\* though jobs run, complete and stall in the middle of updates and removals.
THEOREM QueueStaysMatched ==
    ASSUME Calm
    PROVE  Spec => []QueueMatchesTable
<1>1. QueueInv => QueueMatchesTable
  <2> SUFFICES ASSUME QueueInv, NEW n \in Notifs, ~Requested(n)
               PROVE  Matches(n)
    BY DEF QueueMatchesTable, UnsentHasJob, DelayedJobMatchesRow, Matches
  <2>1. \A h \in Handlers : ~On(h, n)
    BY DEF Requested, On
  <2> QED BY <2>1 DEF QueueInv, StoresInv
<1>2. TypeOK /\ QueueInv /\ [Next]_vars => QueueInv'
  BY NextQueue
<1> QED BY <1>1, <1>2, InitTypeOK, NextTypeOK, InitQueue, PTL DEF Spec

-----------------------------------------------------------------------------
(* Jobs and requests apart as well: what is sent is delivered, and kept *)

Apart == Calm /\ ~Race /\ "ALL" \notin Receivers

Given(n) == row[n] = Absent \/ (row[n].sent /\ Audience(row[n].receiver) \subseteq inbox[n])

\* Between requests, either all is done or a job is there that will do it.
Settled(n) ==
    row[n] # Absent => IF job[n] = NoJob THEN Given(n) ELSE job[n].receiver = row[n].receiver

\* A run sends to the receiver of the row, and has sent to those not left.
Serves(c, n) ==
    /\ row[n] # Absent => run[c].receiver = row[n].receiver
    /\ run[c].pc = "batch" =>
           row[n] # Absent /\ Audience(row[n].receiver) \subseteq inbox[n] \union run[c].left
    /\ run[c].pc = "done" => Given(n)

\* No job runs beside a request, so that what it has read stays true.
Alone(h, n) ==
    /\ req[h].pc \in {"save", "erase"} => ~row[n].sent
    /\ req[h].pc \in {"find", "remove"} /\ req[h].kind = "delete" => ~row[n].sent
    /\ req[h].pc = "add" => job[n] = NoJob

ApartOf(n) ==
    /\ \A h \in Handlers, c \in Consumers : ~(On(h, n) /\ run[c].n = n)
    /\ job[n].state = "active" => job[n].by \in Consumers /\ run[job[n].by].n = n
    /\ \A c \in Consumers : run[c].n = n => Serves(c, n)
    /\ \A h \in Handlers : On(h, n) => Alone(h, n)
    /\ (\A h \in Handlers : On(h, n) => req[h].pc = "read") => Settled(n)

ApartInv == \A n \in Notifs : ApartOf(n)

LEMMA InitApart == Init => ApartInv
<1> SUFFICES ASSUME Init, NEW n \in Notifs PROVE ApartOf(n)
  BY DEF ApartInv
<1>1. row[n] = Absent /\ job[n] = NoJob
  BY DEF Init
<1>2. \A h \in Handlers : ~On(h, n)
  BY NotificationAssumption DEF Init, On, NoRequest
<1>3. \A c \in Consumers : run[c].n # n
  BY NotificationAssumption DEF Init, NoRun
<1> QED BY <1>1, <1>2, <1>3 DEF ApartOf, Settled, NoJob

LEMMA Untouched ==
    ASSUME NEW n \in Notifs, ApartOf(n),
           row'[n] = row[n], job'[n] = job[n], inbox'[n] = inbox[n],
           \A h \in Handlers : req'[h] = req[h] \/ (~On(h, n) /\ ~On(h, n)'),
           \A c \in Consumers : run'[c] = run[c] \/ (run[c].n # n /\ run'[c].n # n)
    PROVE  ApartOf(n)'
<1>1. \A h \in Handlers : On(h, n)' <=> On(h, n)
  BY DEF On
<1>2. \A c \in Consumers : run'[c].n = n => run'[c] = run[c] /\ Serves(c, n)
  BY DEF ApartOf
<1>3. \A h \in Handlers, c \in Consumers : ~(On(h, n)' /\ run'[c].n = n)
  BY <1>1, <1>2 DEF ApartOf
<1>4. job'[n].state = "active" => job'[n].by \in Consumers /\ run'[job'[n].by].n = n
  BY DEF ApartOf
<1>5. \A c \in Consumers : run'[c].n = n => Serves(c, n)'
  BY <1>2 DEF Serves, Given
<1>6. ASSUME NEW h \in Handlers, On(h, n)' PROVE Alone(h, n)' /\ req'[h] = req[h]
  BY <1>1, <1>6 DEF ApartOf, Alone
<1>7. (\A h \in Handlers : On(h, n)' => req'[h].pc = "read") => Settled(n)'
  <2>1. (\A h \in Handlers : On(h, n)' => req'[h].pc = "read") =>
            (\A h \in Handlers : On(h, n) => req[h].pc = "read")
    BY <1>1, <1>6
  <2>2. Settled(n) => Settled(n)'
    BY DEF Settled, Given
  <2> QED BY <2>1, <2>2 DEF ApartOf
<1> QED BY <1>3, <1>4, <1>5, <1>6, <1>7 DEF ApartOf

\* A step of the one request on n, or one that starts it.
LEMMA OwnerApart ==
    ASSUME NEW n \in Notifs, NEW h \in Handlers,
           \A c \in Consumers : run[c].n # n, run' = run,
           \A g \in Handlers \ {h} : ~On(g, n) /\ req'[g] = req[g],
           job'[n].state # "active",
           On(h, n)' => Alone(h, n)',
           ~On(h, n)' \/ req'[h].pc = "read" => Settled(n)'
    PROVE  ApartOf(n)'
<1>1. \A g \in Handlers : On(g, n)' => g = h
  BY DEF On
<1>2. (\A g \in Handlers : On(g, n)' => req'[g].pc = "read") => Settled(n)'
  BY <1>1
<1> QED BY <1>1, <1>2 DEF ApartOf

\* A job that nobody runs is not active.
LEMMA Inactive ==
    ASSUME NEW n \in Notifs, ApartOf(n), \A c \in Consumers : run[c].n # n
    PROVE  job[n].state # "active"
BY DEF ApartOf

LEMMA AcceptApart ==
    ASSUME Apart, TypeOK, ApartInv, NEW h \in Handlers, NEW n \in Notifs,
           Create(h, n) \/ Update(h, n) \/ Delete(h, n), QueueInv
    PROVE  ApartInv'
<1>1. PICK kind, receiver, now, stage :
         /\ Accept(h, kind, n, receiver, now, stage)
         /\ \/ stage = "save" /\ kind = "create" /\ named[n] = {}
            \/ stage = "read" /\ kind # "create"
  BY Accepted
<1>2. /\ row' = row /\ job' = job /\ run' = run /\ inbox' = inbox
      /\ \A g \in Handlers : ~On(g, n)
      /\ \A c \in Consumers : run[c].n # n
  BY <1>1 DEF Accept, Apart, Calm, Requested, Running, On
<1>3. req'[h].n = n /\ req'[h].pc = stage /\ \A g \in Handlers \ {h} : req'[g] = req[g]
  BY <1>1 DEF Accept, TypeOK
<1>4. req[h].n = NoNotif
  <2>1. req[h] \in Requests /\ req[h].pc = "idle"
    BY <1>1 DEF Accept, TypeOK
  <2> QED BY <2>1 DEF Requests, NoRequest
<1>5. ApartOf(n)'
  <2>1. ApartOf(n)
    BY DEF ApartInv
  <2>2. Settled(n) /\ Settled(n)'
    BY <1>2, <2>1 DEF ApartOf, Settled, Given
  <2>3. Alone(h, n)'
    <3>1. CASE stage = "read"
      BY <1>3, <3>1 DEF Alone
    <3>2. CASE stage = "save" /\ named[n] = {}
      <4>1. row[n] = Absent
        BY <3>2 DEF QueueInv, StoresInv
      <4> QED BY <1>2, <1>3, <3>2, <4>1 DEF Alone, Absent
    <3> QED BY <1>1, <3>1, <3>2
  <2>4. job'[n].state # "active"
    BY <1>2, <2>1, Inactive
  <2>5. \A g \in Handlers \ {h} : ~On(g, n) /\ req'[g] = req[g]
    BY <1>2, <1>3
  <2> QED BY <1>2, <2>2, <2>3, <2>4, <2>5, OwnerApart
<1>6. ASSUME NEW m \in Notifs, m # n PROVE ApartOf(m)'
  <2>1. \A g \in Handlers : req'[g] = req[g] \/ (~On(g, m) /\ ~On(g, m)')
    BY <1>3, <1>4, <1>6, NotificationAssumption DEF On
  <2> QED BY <1>2, <2>1, Untouched DEF ApartInv
<1> QED BY <1>5, <1>6 DEF ApartInv

LEMMA RequestApart ==
    ASSUME Apart, TypeOK, QueueInv, ApartInv, NEW h \in Handlers, RequestStep(h)
    PROVE  ApartInv'
<1>1. PICK n \in Notifs :
         /\ n = req[h].n /\ n # NoNotif /\ On(h, n)
         /\ req[h].pc # "idle" /\ req[h] \in OpenRequests
         /\ \A g \in Handlers \ {h} : ~On(g, n) /\ req'[g] = req[g]
         /\ \/ req'[h].n = NoNotif
            \/ req'[h].n = n /\ req'[h].kind = req[h].kind /\ req'[h].receiver = req[h].receiver
         /\ \A m \in Notifs \ {n} :
                /\ ~On(h, m) /\ ~On(h, m)'
                /\ row'[m] = row[m] /\ replica'[m] = replica[m]
                /\ job'[m] = job[m] /\ named'[m] = named[m]
         /\ run' = run /\ inbox' = inbox
  BY RequestFrame DEF Apart
<1>2. Knows(h, n) /\ replica[n] = row[n] /\ (named[n] = {} => job[n] = NoJob)
  BY <1>1 DEF QueueInv, StoresInv
<1>3. Alone(h, n) /\ \A c \in Consumers : run[c].n # n
  BY <1>1 DEF ApartInv, ApartOf
<1>4. job[n].state # "active"
  BY <1>3, Inactive DEF ApartInv
<1>5. ASSUME NEW stage, Goto(h, stage) PROVE req'[h].pc = stage /\ On(h, n)'
  BY <1>1, <1>5, GotoMoves DEF On
<1>6. ASSUME End(h) PROVE ~On(h, n)'
  BY <1>1, <1>6, EndMoves DEF On
<1>7. ASSUME NEW m \in Notifs, m # n PROVE ApartOf(m)'
  BY <1>1, <1>7, Untouched DEF ApartInv
<1>8. ASSUME job'[n].state # "active",
             On(h, n)' => Alone(h, n)',
             ~On(h, n)' \/ req'[h].pc = "read" => Settled(n)'
      PROVE  ApartOf(n)'
  BY <1>1, <1>3, <1>8, OwnerApart
<1>9. ApartOf(n)'
  <2>1. CASE CheckUnsent(h)
    <3>1. row' = row /\ job' = job /\ req[h].pc = "read"
      BY <2>1 DEF CheckUnsent
    <3>2. Settled(n)'
      <4>1. Settled(n)
        BY <1>1, <3>1 DEF ApartInv, ApartOf
      <4> QED BY <1>1, <3>1, <4>1 DEF Settled, Given
    <3>3. On(h, n)' => Alone(h, n)'
      <4>1. CASE End(h)
        BY <1>6, <4>1
      <4>2. CASE ~End(h)
        <5>1. PICK stage \in {"save", "find"} : Goto(h, stage)
          BY <2>1, <4>2 DEF CheckUnsent
        <5>2. ~row[n].sent
          BY <1>1, <1>2, <2>1, <4>2 DEF CheckUnsent
        <5> QED BY <1>5, <3>1, <5>1, <5>2 DEF Alone
      <4> QED BY <4>1, <4>2
    <3> QED BY <1>4, <1>8, <3>1, <3>2, <3>3
  <2>2. CASE Save(h)
    <3>1. job' = job /\ req[h].pc = "save"
      BY <2>2 DEF Save
    <3>2. Goto(h, IF req[h].kind = "create" THEN "add" ELSE "find")
      BY <2>2 DEF Save
    <3>3. On(h, n)' /\ req'[h].pc = IF req[h].kind = "create" THEN "add" ELSE "find"
      BY <1>5, <3>2
    <3>4. \/ req[h].kind = "create" /\ named[n] = {}
          \/ req[h].kind = "update"
      BY <1>2, <3>1 DEF Knows
    <3>5. req'[h].kind = req[h].kind
      BY <1>1, <3>3 DEF On
    <3>6. Alone(h, n)'
      BY <1>2, <3>1, <3>3, <3>4, <3>5 DEF Alone
    <3> QED BY <1>4, <1>8, <3>1, <3>3, <3>6
  <2>3. CASE FindJob(h)
    <3>1. row' = row /\ job' = job /\ req[h].pc = "find"
      BY <2>3 DEF FindJob
    <3>2. Goto(h, IF job[n] = NoJob THEN After(h) ELSE "remove")
      BY <1>1, <2>3 DEF FindJob
    <3>3. On(h, n)' /\ req'[h].pc = IF job[n] = NoJob THEN After(h) ELSE "remove"
      BY <1>5, <3>2
    <3>4. req'[h].kind = req[h].kind
      BY <1>1, <3>3 DEF On
    <3>5. Alone(h, n)'
      BY <1>3, <3>1, <3>3, <3>4 DEF Alone, After
    <3> QED BY <1>4, <1>8, <3>1, <3>3, <3>5 DEF After
  <2>4. CASE RemoveJob(h)
    <3>1. row' = row /\ req[h].pc = "remove"
      BY <2>4 DEF RemoveJob
    <3>2. Goto(h, After(h))
      BY <2>4 DEF RemoveJob
    <3>3. On(h, n)' /\ req'[h].pc = After(h)
      BY <1>5, <3>2
    <3>4. req'[h].kind = req[h].kind
      BY <1>1, <3>3 DEF On
    <3>5. job'[n] = NoJob
      BY <1>1, <1>4, <2>4 DEF RemoveJob, TypeOK
    <3>6. Alone(h, n)'
      BY <1>3, <3>1, <3>3, <3>4, <3>5 DEF Alone, After
    <3> QED BY <1>8, <3>3, <3>5, <3>6 DEF After, NoJob
  <2>5. CASE AddJob(h)
    <3>1. row' = row /\ req[h].pc = "add" /\ End(h)
      BY <2>5 DEF AddJob
    <3>2. job[n] = NoJob
      BY <1>3, <3>1 DEF Alone
    <3>3. PICK j : j = [state |-> "waiting", receiver |-> req[h].receiver,
                        by |-> NoConsumer, stalled |-> 0]
      OBVIOUS
    <3>4. j.state = "waiting" /\ j.receiver = req[h].receiver
      BY <3>3
    <3>5. job'[n] = j
      BY <1>1, <2>5, <3>2, <3>3 DEF AddJob, TypeOK
    <3>6. row[n].receiver = req[h].receiver
      BY <1>2, <3>1 DEF Knows
    <3>7. Settled(n)'
      BY <3>1, <3>4, <3>5, <3>6 DEF Settled, NoJob
    <3> QED BY <1>6, <1>8, <3>1, <3>4, <3>5, <3>7
  <2>6. CASE Erase(h)
    <3>1. row'[n] = Absent /\ job' = job /\ End(h)
      BY <1>1, <2>6 DEF Erase, WriteRow, TypeOK
    <3>2. Settled(n)'
      BY <3>1 DEF Settled
    <3> QED BY <1>4, <1>6, <1>8, <3>1, <3>2
  <2> QED BY <2>1, <2>2, <2>3, <2>4, <2>5, <2>6 DEF RequestStep
<1> QED BY <1>7, <1>9 DEF ApartInv

\* What a step of the run c on n has to show.
LEMMA ServerApart ==
    ASSUME NEW n \in Notifs, NEW c \in Consumers, ApartOf(n), run[c].n = n, req' = req,
           \A d \in Consumers \ {c} : run'[d] = run[d],
           job'[n].state = "active" => job'[n] = job[n] /\ (job[n].by # c \/ run'[c].n = n),
           row'[n].receiver = row[n].receiver, row'[n] = Absent <=> row[n] = Absent,
           Given(n) => Given(n)', inbox[n] \subseteq inbox'[n],
           run'[c].n = n => Serves(c, n)',
           Settled(n)'
    PROVE  ApartOf(n)'
<1>1. \A h \in Handlers : ~On(h, n) /\ ~On(h, n)'
  BY DEF ApartOf, On
<1>2. job'[n].state = "active" => job'[n].by \in Consumers /\ run'[job'[n].by].n = n
  BY DEF ApartOf
<1>3. ASSUME NEW d \in Consumers, d # c, run'[d].n = n PROVE Serves(d, n)'
  <2>1. Serves(d, n) /\ run'[d] = run[d]
    BY <1>3 DEF ApartOf
  <2> QED BY <2>1 DEF Serves
<1> QED BY <1>1, <1>2, <1>3 DEF ApartOf

LEMMA RunApart ==
    ASSUME Apart, TypeOK, QueueInv, ApartInv, NEW c \in Consumers, RunStep(c)
    PROVE  ApartInv'
<1>1. run[c] \in OpenRuns
  <2>1. run[c].pc # "idle"
    BY DEF RunStep, ReadRecord, ProcessBatch, MarkSent, Complete
  <2> QED BY <2>1, OpenRun
<1>2. PICK n \in Notifs : n = run[c].n
  BY <1>1 DEF OpenRuns
<1>3. req' = req /\ \A d \in Consumers \ {c} : run'[d] = run[d]
  BY DEF RunStep, ReadRecord, ProcessBatch, MarkSent, Complete, TypeOK
<1>4. ApartOf(n) /\ Serves(c, n) /\ replica[n] = row[n]
  BY <1>2 DEF ApartInv, ApartOf, QueueInv, StoresInv
<1>5. Settled(n)
  BY <1>2, <1>4 DEF ApartOf
\* The fields of a run that goes on.
<1>6. ASSUME NEW stage, NEW left
      PROVE  /\ [run[c] EXCEPT !.pc = stage].pc = stage
             /\ [run[c] EXCEPT !.left = left].pc = run[c].pc
             /\ [run[c] EXCEPT !.left = left].left = left
             /\ [run[c] EXCEPT !.pc = stage, !.left = left].pc = stage
             /\ [run[c] EXCEPT !.pc = stage, !.left = left].left = left
  BY <1>1 DEF OpenRuns
<1>7. ASSUME ReadRecord(c) \/ ProcessBatch(c) \/ MarkSent(c)
      PROVE  run'[c].n = n /\ run'[c].receiver = run[c].receiver /\ job' = job
  <2>1. run'[c].n = run[c].n /\ run'[c].receiver = run[c].receiver
    BY <1>7, StaysOnIt
  <2> QED BY <1>2, <1>7, <2>1 DEF ReadRecord, ProcessBatch, MarkSent
<1>8. run'[c].n = n \/ run'[c].n = NoNotif
  <2>1. CASE Complete(c)
    BY <2>1 DEF Complete, TypeOK, NoRun
  <2> QED BY <1>7, <2>1 DEF RunStep
<1>9. ASSUME NEW m \in Notifs, m # n PROVE ApartOf(m)'
  <2>1. row'[m] = row[m] /\ job'[m] = job[m] /\ inbox'[m] = inbox[m]
    <3>1. CASE ReadRecord(c)
      BY <3>1 DEF ReadRecord
    <3>2. CASE ProcessBatch(c)
      BY <1>2, <1>9, <3>2 DEF ProcessBatch, TypeOK
    <3>3. CASE MarkSent(c)
      BY <1>2, <1>9, <3>3 DEF MarkSent, WriteRow, TypeOK
    <3>4. CASE Complete(c)
      BY <1>2, <1>9, <3>4 DEF Complete, TypeOK
    <3> QED BY <3>1, <3>2, <3>3, <3>4 DEF RunStep
  <2>2. \A d \in Consumers : run'[d] = run[d] \/ (run[d].n # m /\ run'[d].n # m)
    BY <1>2, <1>3, <1>8, <1>9, NotificationAssumption
  <2> QED BY <1>3, <2>1, <2>2, Untouched DEF ApartInv
<1>10. CASE ReadRecord(c)
  <2>1. row' = row /\ inbox' = inbox
    BY <1>10 DEF ReadRecord
  <2>2. Serves(c, n)'
    <3>1. CASE row[n] = Absent
      <4>1. run'[c] = [run[c] EXCEPT !.pc = "done"]
        BY <1>2, <1>4, <1>10, <3>1 DEF ReadRecord, TypeOK
      <4>2. run'[c].pc = "done"
        BY <1>6, <4>1
      <4> QED BY <2>1, <3>1, <4>2 DEF Serves, Given
    <3>2. CASE row[n] # Absent
      <4>1. run'[c] = [run[c] EXCEPT !.pc = "batch", !.left = Audience(run[c].receiver)]
        BY <1>2, <1>4, <1>10, <3>2 DEF ReadRecord, TypeOK
      <4>2. run'[c].pc = "batch" /\ run'[c].left = Audience(run[c].receiver)
        BY <1>6, <4>1
      <4>3. run[c].receiver = row[n].receiver
        BY <1>4, <3>2 DEF Serves
      <4> QED BY <1>7, <1>10, <2>1, <3>2, <4>2, <4>3 DEF Serves
    <3> QED BY <3>1, <3>2
  <2>3. Settled(n)' /\ (Given(n) => Given(n)')
    BY <1>5, <1>7, <1>10, <2>1 DEF Settled, Given
  <2>4. ApartOf(n)'
    BY <1>2, <1>3, <1>4, <1>7, <1>10, <2>1, <2>2, <2>3, ServerApart
  <2> QED BY <1>9, <2>4 DEF ApartInv
<1>11. CASE ProcessBatch(c)
  <2>1. row' = row /\ run[c].pc = "batch"
    BY <1>11 DEF ProcessBatch
  <2>2. row[n] # Absent /\ Audience(row[n].receiver) \subseteq inbox[n] \union run[c].left
    BY <1>4, <2>1 DEF Serves
  <2>3. PICK batch \in SUBSET run[c].left :
           /\ run' = [run EXCEPT ![c].left = @ \ batch]
           /\ inbox' = [inbox EXCEPT ![n] = @ \union batch]
    BY <1>2, <1>11, <2>2 DEF ProcessBatch, Apart, Calm
  <2>4. inbox'[n] = inbox[n] \union batch
    BY <2>3 DEF TypeOK
  <2>5. run'[c].pc = "batch" /\ run'[c].left = run[c].left \ batch
    <3>1. run'[c] = [run[c] EXCEPT !.left = run[c].left \ batch]
      BY <2>3 DEF TypeOK
    <3> QED BY <1>6, <2>1, <3>1
  <2>6. Serves(c, n)'
    <3>1. run[c].receiver = row[n].receiver
      BY <1>4, <2>2 DEF Serves
    <3>2. Audience(row[n].receiver) \subseteq inbox'[n] \union run'[c].left
      BY <2>2, <2>4, <2>5
    <3> QED BY <1>7, <1>11, <2>1, <2>2, <2>5, <3>1, <3>2 DEF Serves
  <2>7. Settled(n)' /\ (Given(n) => Given(n)')
    BY <1>5, <1>7, <1>11, <2>1, <2>4 DEF Settled, Given
  <2>8. ApartOf(n)'
    BY <1>2, <1>3, <1>4, <1>7, <1>11, <2>1, <2>4, <2>6, <2>7, ServerApart
  <2> QED BY <1>9, <2>8 DEF ApartInv
<1>12. CASE MarkSent(c)
  <2>1. run[c].pc = "batch" /\ run[c].left = {} /\ inbox' = inbox
    BY <1>12 DEF MarkSent
  <2>2. row[n] # Absent /\ Audience(row[n].receiver) \subseteq inbox[n]
    BY <1>4, <2>1 DEF Serves
  <2>3. PICK r : r = [row[n] EXCEPT !.sent = TRUE]
    OBVIOUS
  <2>4. r.sent = TRUE /\ r.receiver = row[n].receiver
    <3>1. row[n] \in [receiver : Receivers, sent : BOOLEAN]
      BY <2>2 DEF TypeOK, Rows
    <3> QED BY <2>3, <3>1
  <2>5. row'[n] = r
    BY <1>2, <1>12, <2>2, <2>3 DEF MarkSent, WriteRow, TypeOK
  <2>6. row'[n] # Absent /\ row'[n].receiver = row[n].receiver /\ row'[n].sent
    BY <2>4, <2>5 DEF Absent
  <2>7. Given(n)'
    BY <2>1, <2>2, <2>6 DEF Given
  <2>8. run'[c].pc = "done"
    <3>1. run'[c] = [run[c] EXCEPT !.pc = "done"]
      BY <1>12 DEF MarkSent, TypeOK
    <3> QED BY <1>6, <3>1
  <2>9. Serves(c, n)'
    BY <1>4, <1>7, <1>12, <2>2, <2>6, <2>7, <2>8 DEF Serves
  <2>10. Settled(n)'
    BY <1>5, <1>7, <1>12, <2>2, <2>6, <2>7 DEF Settled
  <2>11. ApartOf(n)'
    BY <1>2, <1>3, <1>4, <1>7, <1>12, <2>1, <2>2, <2>6, <2>7, <2>9, <2>10, ServerApart
  <2> QED BY <1>9, <2>11 DEF ApartInv
<1>13. CASE Complete(c)
  <2>1. row' = row /\ inbox' = inbox /\ run[c].pc = "done"
    BY <1>13 DEF Complete
  <2>2. run'[c].n = NoNotif
    BY <1>13 DEF Complete, TypeOK, NoRun
  <2>3. Given(n) /\ Given(n)'
    BY <1>4, <2>1 DEF Serves, Given
  <2>4. job'[n] = IF job[n].by = c THEN NoJob ELSE job[n]
    BY <1>2, <1>13 DEF Complete, TypeOK
  <2>5. Settled(n)'
    BY <1>5, <2>1, <2>3, <2>4 DEF Settled
  <2>6. job'[n].state = "active" => job'[n] = job[n] /\ job[n].by # c
    BY <2>4 DEF NoJob
  <2>7. run'[c].n # n
    BY <2>2, NotificationAssumption
  <2>8. ApartOf(n)'
    BY <1>2, <1>3, <1>4, <2>1, <2>3, <2>5, <2>6, <2>7, ServerApart
  <2> QED BY <1>9, <2>8 DEF ApartInv
<1> QED BY <1>10, <1>11, <1>12, <1>13 DEF RunStep

LEMMA StartApart ==
    ASSUME Apart, TypeOK, ApartInv, NEW c \in Consumers, NEW n \in Notifs, Start(c, n)
    PROVE  ApartInv'
<1>1. /\ row' = row /\ inbox' = inbox /\ req' = req
      /\ run[c].pc = "idle" /\ job[n].state = "waiting"
      /\ \A h \in Handlers : ~On(h, n)
  BY DEF Start, Apart, Requested, On
<1>2. job[n] # NoJob /\ job[n] \in OpenJobs
  BY <1>1, OpenJob DEF NoJob
<1>3. run[c].n = NoNotif
  BY <1>1, IdleRun
<1>4. PICK j : j = [job[n] EXCEPT !.state = "active", !.by = c]
  OBVIOUS
<1>5. j.by = c /\ j.state = "active" /\ j.receiver = job[n].receiver
  BY <1>2, <1>4 DEF OpenJobs
<1>6. job' = [job EXCEPT ![n] = j]
  BY <1>4 DEF Start, TypeOK
<1>7. PICK r : r = [pc |-> "read", n |-> n, receiver |-> job[n].receiver, left |-> {}]
  OBVIOUS
<1>8. r.pc = "read" /\ r.n = n /\ r.receiver = job[n].receiver
  BY <1>7
<1>9. run' = [run EXCEPT ![c] = r]
  BY <1>7 DEF Start
<1>10. run'[c] = r /\ \A d \in Consumers \ {c} : run'[d] = run[d]
  BY <1>9 DEF TypeOK
<1>11. ASSUME NEW m \in Notifs, m # n PROVE ApartOf(m)'
  <2>1. job'[m] = job[m]
    BY <1>6, <1>11 DEF TypeOK
  <2>2. \A d \in Consumers : run'[d] = run[d] \/ (run[d].n # m /\ run'[d].n # m)
    BY <1>3, <1>8, <1>10, <1>11, NotificationAssumption
  <2> QED BY <1>1, <2>1, <2>2, Untouched DEF ApartInv
<1>12. ApartOf(n)'
  <2>1. ApartOf(n) /\ Settled(n)
    BY <1>1 DEF ApartInv, ApartOf
  <2>2. job'[n] = j
    BY <1>6 DEF TypeOK
  <2>3. j # NoJob
    BY <1>5 DEF NoJob
  <2>4. Settled(n)'
    BY <1>1, <1>2, <1>5, <2>1, <2>2, <2>3 DEF Settled
  <2>5. \A h \in Handlers : ~On(h, n)'
    BY <1>1 DEF On
  <2>6. ASSUME NEW d \in Consumers, run'[d].n = n PROVE Serves(d, n)'
    <3>1. CASE d = c
      BY <1>1, <1>2, <1>8, <1>10, <2>1, <3>1 DEF Serves, Settled
    <3>2. CASE d # c
      BY <1>1, <1>10, <2>1, <2>6, <3>2 DEF Serves, Given, ApartOf
    <3> QED BY <3>1, <3>2
  <2>7. job'[n].by \in Consumers /\ run'[job'[n].by].n = n
    BY <1>5, <1>8, <1>10, <2>2
  <2> QED BY <2>4, <2>5, <2>6, <2>7 DEF ApartOf
<1> QED BY <1>11, <1>12 DEF ApartInv

LEMMA StallApart ==
    ASSUME Apart, TypeOK, ApartInv, NEW n \in Notifs, Stall(n)
    PROVE  ApartInv'
<1>1. /\ row' = row /\ inbox' = inbox /\ req' = req /\ run' = run
      /\ job[n].state = "active"
  BY DEF Stall
<1>2. job[n] # NoJob /\ job[n] \in OpenJobs
  BY <1>1, OpenJob DEF NoJob
<1>3. PICK state \in {"waiting", "failed"} :
         job' = [job EXCEPT ![n] = [job[n] EXCEPT !.state = state, !.by = NoConsumer,
                                                  !.stalled = job[n].stalled + 1]]
  BY DEF Stall, TypeOK
<1>4. PICK j : j = [job[n] EXCEPT !.state = state, !.by = NoConsumer,
                                  !.stalled = job[n].stalled + 1]
  OBVIOUS
<1>5. j.state = state /\ j.receiver = job[n].receiver
  BY <1>2, <1>4 DEF OpenJobs
<1>6. job' = [job EXCEPT ![n] = j]
  BY <1>3, <1>4
<1>7. ASSUME NEW m \in Notifs, m # n PROVE ApartOf(m)'
  <2>1. job'[m] = job[m]
    BY <1>6, <1>7 DEF TypeOK
  <2> QED BY <1>1, <2>1, Untouched DEF ApartInv
<1>8. ApartOf(n)'
  <2>1. ApartOf(n) /\ \A h \in Handlers : ~On(h, n)
    BY <1>1 DEF ApartInv, ApartOf
  <2>2. job'[n] = j
    BY <1>6 DEF TypeOK
  <2>3. j # NoJob /\ j.state # "active"
    BY <1>5 DEF NoJob
  <2>4. Settled(n) /\ Settled(n)'
    BY <1>1, <1>2, <1>5, <2>1, <2>2, <2>3 DEF Settled, ApartOf
  <2>5. \A h \in Handlers : ~On(h, n)'
    BY <1>1, <2>1 DEF On
  <2>6. \A c \in Consumers : run'[c].n = n => Serves(c, n)'
    BY <1>1, <2>1 DEF ApartOf, Serves, Given
  <2> QED BY <2>2, <2>3, <2>4, <2>5, <2>6 DEF ApartOf
<1> QED BY <1>7, <1>8 DEF ApartInv

LEMMA NextApart ==
    ASSUME Apart, TypeOK, QueueInv, ApartInv, [Next]_vars
    PROVE  ApartInv'
<1>1. CASE Next
  <2>1. Calm
    BY DEF Apart
  <2> QED BY <1>1, <2>1, CalmSteps, AcceptApart, RequestApart, RunApart, StartApart, StallApart
<1>2. CASE UNCHANGED vars
  <2>1. ASSUME NEW n \in Notifs PROVE ApartOf(n)'
    BY <1>2, <2>1, Untouched DEF vars, ApartInv
  <2> QED BY <2>1 DEF ApartInv
<1> QED BY <1>1, <1>2

\* A notification that is sent keeps its row.
LEMMA SentKept ==
    ASSUME Apart, TypeOK, QueueInv, ApartInv, [Next]_vars
    PROVE  [\A n \in Notifs : row[n].sent => row'[n] = row[n]]_vars
<1> SUFFICES ASSUME NEW n \in Notifs, row[n].sent PROVE row'[n] = row[n]
  OBVIOUS
<1>1. ASSUME NEW h \in Handlers, RequestStep(h) PROVE row'[n] = row[n]
  <2>1. CASE CheckUnsent(h) \/ FindJob(h) \/ RemoveJob(h) \/ AddJob(h)
    BY <2>1 DEF CheckUnsent, FindJob, RemoveJob, AddJob
  <2>2. CASE Save(h) \/ Erase(h)
    <3>1. req[h].n # n
      <4>1. req[h].pc \in {"save", "erase"}
        BY <2>2 DEF Save, Erase
      <4> QED BY <4>1 DEF ApartInv, ApartOf, Alone, On
    <3> QED BY <2>2, <3>1 DEF Save, Erase, WriteRow, TypeOK
  <2> QED BY <1>1, <2>1, <2>2 DEF RequestStep
<1>2. ASSUME NEW c \in Consumers, RunStep(c) PROVE row'[n] = row[n]
  <2>1. CASE ReadRecord(c) \/ ProcessBatch(c) \/ Complete(c)
    BY <2>1 DEF ReadRecord, ProcessBatch, Complete
  <2>2. CASE MarkSent(c)
    <3>1. CASE run[c].n = n
      <4>1. row[n] \in [receiver : Receivers, sent : BOOLEAN]
        BY DEF TypeOK, Rows, Absent
      <4>2. [row[n] EXCEPT !.sent = TRUE] = row[n]
        BY <4>1
      <4> QED BY <2>2, <3>1, <4>2 DEF MarkSent, WriteRow, TypeOK
    <3>2. CASE run[c].n # n
      BY <2>2, <3>2 DEF MarkSent, WriteRow, TypeOK
    <3> QED BY <3>1, <3>2
  <2> QED BY <1>2, <2>1, <2>2 DEF RunStep
<1>3. ASSUME \/ \E h \in Handlers, m \in Notifs : Create(h, m) \/ Update(h, m) \/ Delete(h, m)
             \/ \E c \in Consumers, m \in Notifs : Start(c, m)
             \/ \E m \in Notifs : Stall(m)
      PROVE  row' = row
  BY <1>3 DEF Create, Update, Delete, Accept, Start, Stall
<1>4. CASE UNCHANGED vars
  BY <1>4 DEF vars
<1>5. Calm
  BY DEF Apart
<1> QED BY <1>1, <1>2, <1>3, <1>4, <1>5, CalmSteps

\* Once nothing is pending for a notification, it is marked as sent and all it
\* was meant for have it, though a stalled job is run twice and updates replace
\* the jobs of earlier ones.
THEOREM QuietAreDelivered ==
    ASSUME Apart
    PROVE  Spec => []QuietIsDelivered
<1>0. Calm
  BY DEF Apart
<1>1. TypeOK /\ ApartInv => QuietIsDelivered
  <2> SUFFICES ASSUME TypeOK, ApartInv, NEW n \in Notifs,
                      row[n] # Absent, job[n] = NoJob, ~Requested(n)
               PROVE  row[n].sent /\ Intended(row[n].receiver) \subseteq inbox[n]
    BY DEF QuietIsDelivered
  <2>1. Settled(n)
    BY DEF Requested, ApartInv, ApartOf, On
  <2>2. row[n].sent /\ Audience(row[n].receiver) \subseteq inbox[n]
    BY <2>1 DEF Settled, Given
  <2>3. row[n].receiver \in {"USER", "SHOEMAKER"}
    BY NotificationAssumption DEF TypeOK, Rows, Apart
  <2> QED BY <2>2, <2>3 DEF Audience, Intended
<1>2. TypeOK /\ QueueInv /\ [Next]_vars => QueueInv'
  BY <1>0, NextQueue
<1>3. TypeOK /\ QueueInv /\ ApartInv /\ [Next]_vars => ApartInv'
  BY NextApart
<1> QED BY <1>1, <1>2, <1>3, InitTypeOK, NextTypeOK, InitQueue, InitApart, PTL DEF Spec

\* A notification that was sent is neither deleted nor changed.
THEOREM SentStaysKept ==
    ASSUME Apart
    PROVE  Spec => SentIsKept
<1>0. Calm
  BY DEF Apart
<1>1. TypeOK /\ QueueInv /\ [Next]_vars => QueueInv'
  BY <1>0, NextQueue
<1>2. TypeOK /\ QueueInv /\ ApartInv /\ [Next]_vars => ApartInv'
  BY NextApart
<1>3. TypeOK /\ QueueInv /\ ApartInv /\ [Next]_vars =>
          [\A n \in Notifs : row[n].sent => row'[n] = row[n]]_vars
  BY SentKept
<1> QED BY <1>1, <1>2, <1>3, InitTypeOK, NextTypeOK, InitQueue, InitApart, PTL DEF Spec, SentIsKept

=============================================================================
