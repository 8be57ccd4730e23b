--------------------------- MODULE AccountsProofs ---------------------------
(* Theorems about Accounts, for every value of its constants.               *)
EXTENDS Accounts, TLAPS

\* Requests that are under way.
Open == Requests \ {Idle}

-----------------------------------------------------------------------------
(* Type correctness *)

LEMMA InitTypeOK == Init => TypeOK
<1> SUFFICES ASSUME Init PROVE TypeOK
  OBVIOUS
<1>1. row \in [Accounts -> Rows]
  BY DEF Init
<1>2. tokens \subseteq Tokens
  BY <1>1 DEF Init, Registered, Rows, Devices
<1>3. 0 \in Passwords /\ requests \in Passwords
  BY AccountsAssumption DEF Init, Passwords
<1>4. <<0>> \in Seq(Passwords)
  BY <1>3
<1> QED BY <1>1, <1>2, <1>3, <1>4 DEF Init, TypeOK, Devices, Requests

LEMMA OpenRequest ==
    ASSUME TypeOK, NEW h \in Handlers, req[h] # Idle
    PROVE  req[h] \in Open /\ req[h].a \in Accounts
BY DEF TypeOK, Open, Requests, Idle

\* A request at a stage is under way.
LEMMA AtIsOpen ==
    ASSUME TypeOK, NEW h \in Handlers, NEW stage, At(h, stage)
    PROVE  req[h] # Idle /\ req[h] \in Open /\ req[h].a \in Accounts /\ req[h].pc = stage
BY OpenRequest DEF At

\* A request is on with what it asks for, at a stage, and has seen a row.
Follows(new, q, stage, r) ==
    /\ new \in Open /\ new.a = q.a /\ new.op = q.op /\ new.password = q.password
    /\ new.active = q.active /\ new.pc = stage /\ new.seen = r

LEMMA Moves ==
    ASSUME NEW q \in Open, NEW stage \in {"srem", "write", "text", "push"}
    PROVE  Follows([q EXCEPT !.pc = stage], q, stage, q.seen)
BY DEF Follows, Open, Requests, Idle

LEMMA Sees ==
    ASSUME NEW q \in Open, NEW r \in Rows
    PROVE  Follows([q EXCEPT !.seen = r], q, q.pc, r)
BY DEF Follows, Open, Requests, Idle

LEMMA ChangedIsRow ==
    ASSUME NEW r \in Rows, NEW q \in Open
    PROVE  /\ Changed(r, q) \in Rows
           /\ Changed(r, q).password = IF q.password = 0 THEN r.password ELSE q.password
<1> DEFINE p == IF q.password = 0 THEN r.password ELSE q.password
           t == IF q.token = NoToken THEN r.token ELSE q.token
           x == IF q.op = "approve" THEN q.active ELSE r.active
<1>1. q.password \in Passwords /\ q.token \in Devices /\ q.active \in BOOLEAN
  BY DEF Open, Requests
<1>2. r.password \in Passwords /\ r.token \in Devices /\ r.active \in BOOLEAN
  BY DEF Rows
<1>3. p \in Passwords /\ t \in Devices /\ x \in BOOLEAN
  BY <1>1, <1>2
<1>4. Changed(r, q) = [r EXCEPT !.password = p, !.token = t, !.active = x]
  BY DEF Changed
<1> HIDE DEF p, t, x
<1>5. [r EXCEPT !.password = p, !.token = t, !.active = x] \in Rows
  BY <1>3, Zenon DEF Rows
<1>6. [r EXCEPT !.password = p, !.token = t, !.active = x].password = p
  BY DEF Rows
<1> QED BY <1>4, <1>5, <1>6 DEF p

LEMMA ReplaceRequest ==
    ASSUME TypeOK, NEW h \in Handlers, NEW new \in Requests, req' = [req EXCEPT ![h] = new]
    PROVE  req' \in [Handlers -> Requests]
BY DEF TypeOK

LEMMA IdleIsRequest == Idle \in Requests
BY DEF Requests

\* Where a request goes from its read, or from the removal of its token.
LEMMA Proceeds ==
    ASSUME TypeOK, NEW h \in Handlers, NEW q \in Open, Proceed(h, q)
    PROVE  /\ adding' \in [Handlers -> Devices]
           /\ \/ req' = [req EXCEPT ![h] = Idle]
              \/ req' = [req EXCEPT ![h] = [q EXCEPT !.pc = "write"]]
<1>1. q.token \in Devices
  BY DEF Open, Requests
<1> QED BY <1>1 DEF Proceed, End, TypeOK

\* What becomes of a request that is read or loses its token.
Advanced(h, new, r) ==
    /\ req' = [req EXCEPT ![h] = new]
    /\ \/ new = Idle
       \/ Follows(new, req[h], "srem", r)
       \/ Follows(new, req[h], "write", r)

LEMMA Advances ==
    ASSUME TypeOK, NEW h \in Handlers
    PROVE  /\ Read(h) \/ RemoveToken(h) => adding' \in [Handlers -> Devices]
           /\ Read(h) => \E new : Advanced(h, new, replica[req[h].a])
           /\ RemoveToken(h) => \E new : Advanced(h, new, req[h].seen)
<1>1. ASSUME Read(h)
      PROVE  adding' \in [Handlers -> Devices] /\ \E new : Advanced(h, new, replica[req[h].a])
  <2>1. req[h] \in Open /\ req[h].a \in Accounts
    BY <1>1, AtIsOpen DEF Read
  <2>2. replica[req[h].a] \in Rows
    BY <2>1 DEF TypeOK
  <2> DEFINE q == [req[h] EXCEPT !.seen = replica[req[h].a]]
  <2>3. Follows(q, req[h], req[h].pc, replica[req[h].a])
    BY <2>1, <2>2, Sees
  <2>4. \/ req' = [req EXCEPT ![h] = [q EXCEPT !.pc = "srem"]] /\ adding' = adding
        \/ Proceed(h, q)
    BY <1>1 DEF Read
  <2> HIDE DEF q
  <2>5. ASSUME NEW stage \in {"srem", "write"}, req' = [req EXCEPT ![h] = [q EXCEPT !.pc = stage]]
        PROVE  Advanced(h, [q EXCEPT !.pc = stage], replica[req[h].a])
    <3>0. q \in Open
      BY <2>3 DEF Follows
    <3>1. Follows([q EXCEPT !.pc = stage], q, stage, q.seen)
      BY <3>0, Moves
    <3> QED BY <2>3, <2>5, <3>1, Zenon DEF Follows, Advanced
  <2>6. CASE req' = [req EXCEPT ![h] = [q EXCEPT !.pc = "srem"]] /\ adding' = adding
    BY <2>5, <2>6 DEF TypeOK
  <2>7. CASE Proceed(h, q)
    <3>1. /\ adding' \in [Handlers -> Devices]
          /\ \/ req' = [req EXCEPT ![h] = Idle]
             \/ req' = [req EXCEPT ![h] = [q EXCEPT !.pc = "write"]]
      BY <2>3, <2>7, Proceeds DEF Follows
    <3>2. req' = [req EXCEPT ![h] = Idle] => Advanced(h, Idle, replica[req[h].a])
      BY DEF Advanced
    <3> QED BY <2>5, <3>1, <3>2
  <2> QED BY <2>4, <2>6, <2>7
<1>2. ASSUME RemoveToken(h)
      PROVE  adding' \in [Handlers -> Devices] /\ \E new : Advanced(h, new, req[h].seen)
  <2>1. req[h] \in Open
    BY <1>2, AtIsOpen DEF RemoveToken
  <2>2. /\ adding' \in [Handlers -> Devices]
        /\ \/ req' = [req EXCEPT ![h] = Idle]
           \/ req' = [req EXCEPT ![h] = [req[h] EXCEPT !.pc = "write"]]
    BY <1>2, <2>1, Proceeds DEF RemoveToken
  <2>3. req' = [req EXCEPT ![h] = Idle] => Advanced(h, Idle, req[h].seen)
    BY DEF Advanced
  <2>5. req' = [req EXCEPT ![h] = [req[h] EXCEPT !.pc = "write"]] =>
            Advanced(h, [req[h] EXCEPT !.pc = "write"], req[h].seen)
    BY <2>1, Moves DEF Advanced
  <2> QED BY <2>2, <2>3, <2>5
<1> QED BY <1>1, <1>2

\* What becomes of a request that writes the row.
LEMMA Writes ==
    ASSUME TypeOK, NEW h \in Handlers, Write(h)
    PROVE  /\ row' \in [Accounts -> Rows]
           /\ \/ After(req[h]) = "idle" /\ req' = [req EXCEPT ![h] = Idle]
              \/ /\ After(req[h]) \in {"text", "push"}
                 /\ req' = [req EXCEPT ![h] = [req[h] EXCEPT !.pc = After(req[h])]]
<1>1. req[h] \in Open /\ req[h].a \in Accounts
  BY AtIsOpen DEF Write
<1>2. Changed(row[req[h].a], req[h]) \in Rows
  BY <1>1, ChangedIsRow DEF TypeOK
<1>3. row' \in [Accounts -> Rows]
  BY <1>2 DEF Write, TypeOK
<1>4. After(req[h]) \in {"idle", "text", "push"}
  BY DEF After
<1> QED BY <1>3, <1>4 DEF Write, End, TypeOK

LEMMA Arrivals ==
    ASSUME NEW h \in Handlers, UpdateInfo(h) \/ ResetPassword(h) \/ SetStatus(h)
    PROVE  \E op \in {"info", "reset", "approve"}, a \in Accounts, t \in Devices, x \in BOOLEAN,
              p \in {0, requests + 1},
              old \in {0, requests + 1} \union {row[b].password : b \in Accounts} :
              Accept(h, op, a, t, x, p, old)
BY DEF UpdateInfo, ResetPassword, SetStatus, Devices

LEMMA NextTypeOK == TypeOK /\ [Next]_vars => TypeOK'
<1> SUFFICES ASSUME TypeOK, [Next]_vars PROVE TypeOK'
  OBVIOUS
<1>1. ASSUME NEW h \in Handlers, UpdateInfo(h) \/ ResetPassword(h) \/ SetStatus(h)
      PROVE  TypeOK'
  <2>1. requests < MaxRequests =>
            requests + 1 \in Passwords /\ 0 \in Passwords
    BY AccountsAssumption DEF TypeOK, Passwords
  <2>3. PICK op \in {"info", "reset", "approve"}, a \in Accounts, t \in Devices, x \in BOOLEAN,
           p \in {0, requests + 1}, old \in {0, requests + 1} \union {row[b].password : b \in Accounts} :
           Accept(h, op, a, t, x, p, old)
    BY <1>1, Arrivals
  <2>4. p \in Passwords /\ old \in Passwords
    BY <2>1, <2>3 DEF Accept, TypeOK, Rows
  <2>5. row[a] \in Rows
    BY DEF TypeOK
  <2>6. [pc |-> "read", op |-> op, a |-> a, token |-> t, active |-> x,
         password |-> p, old |-> old, seen |-> row[a]] \in Requests
    BY <2>4, <2>5 DEF Requests
  <2>7. req' \in [Handlers -> Requests]
    BY <2>3, <2>6, ReplaceRequest DEF Accept
  <2>8. met' \subseteq Accounts /\ requests' \in Passwords
    BY <2>1, <2>3 DEF Accept, TypeOK, Sharers
  <2> QED BY <2>3, <2>7, <2>8 DEF Accept, TypeOK
<1>2. ASSUME NEW h \in Handlers, Read(h) PROVE TypeOK'
  <2>1. adding' \in [Handlers -> Devices] /\ req' \in [Handlers -> Requests]
    BY <1>2, Advances, ReplaceRequest, IdleIsRequest DEF Advanced, Follows, Open
  <2>2. req[h].a \in Accounts
    BY <1>2, AtIsOpen DEF Read
  <2> QED BY <1>2, <2>1, <2>2 DEF Read, TypeOK
<1>3. ASSUME NEW h \in Handlers, RemoveToken(h) PROVE TypeOK'
  <2>1. adding' \in [Handlers -> Devices] /\ req' \in [Handlers -> Requests]
    BY <1>3, Advances, ReplaceRequest, IdleIsRequest DEF Advanced, Follows, Open
  <2>2. req[h].a \in Accounts
    BY <1>3, AtIsOpen DEF RemoveToken
  <2> QED BY <1>3, <2>1, <2>2 DEF RemoveToken, TypeOK, Sharers
<1>4. ASSUME NEW h \in Handlers, Write(h) PROVE TypeOK'
  <2>1. req[h] \in Open /\ req[h].a \in Accounts
    BY <1>4, AtIsOpen DEF Write
  <2>3. req' \in [Handlers -> Requests]
    <3>1. CASE req' = [req EXCEPT ![h] = Idle]
      BY <3>1, ReplaceRequest, IdleIsRequest
    <3>2. CASE /\ After(req[h]) \in {"text", "push"}
               /\ req' = [req EXCEPT ![h] = [req[h] EXCEPT !.pc = After(req[h])]]
      <4>1. [req[h] EXCEPT !.pc = After(req[h])] \in Open
        BY <2>1, <3>2, Moves DEF Follows
      <4> QED BY <3>2, <4>1, ReplaceRequest DEF Open
    <3> QED BY <1>4, <3>1, <3>2, Writes
  <2>4. row' \in [Accounts -> Rows]
    BY <1>4, Writes
  <2>5. untold' \in [Accounts -> Int]
    BY <1>4, <2>1 DEF Write, TypeOK
  <2> QED BY <1>4, <2>3, <2>4, <2>5 DEF Write, TypeOK
<1>5. ASSUME NEW h \in Handlers, SendText(h) PROVE TypeOK'
  <2>1. req[h] \in Open /\ req[h].a \in Accounts
    BY <1>5, AtIsOpen DEF SendText
  <2>2. req[h].password \in Passwords
    BY <2>1 DEF Open, Requests
  <2>3. texts[req[h].a] \in Seq(Passwords)
    BY <2>1 DEF TypeOK
  <2>4. Append(texts[req[h].a], req[h].password) \in Seq(Passwords)
    BY <2>2, <2>3
  <2>5. texts' \in [Accounts -> Seq(Passwords)]
    BY <1>5, <2>4 DEF SendText, TypeOK
  <2>6. req' \in [Handlers -> Requests]
    BY <1>5, ReplaceRequest, IdleIsRequest DEF SendText, End
  <2>7. astray' \subseteq Accounts
    BY <1>5, <2>1 DEF SendText, TypeOK
  <2> QED BY <1>5, <2>5, <2>6, <2>7 DEF SendText, TypeOK
<1>6. ASSUME NEW h \in Handlers, SendPush(h) PROVE TypeOK'
  <2>1. req' \in [Handlers -> Requests]
    BY <1>6, ReplaceRequest, IdleIsRequest DEF SendPush, End
  <2>2. untold' \in [Accounts -> Int]
    BY <1>6, AtIsOpen DEF SendPush, TypeOK
  <2> QED BY <1>6, <2>1, <2>2 DEF SendPush, TypeOK
<1>7. ASSUME NEW h \in Handlers, TokenAdded(h) PROVE TypeOK'
  BY <1>7, AccountsAssumption DEF TokenAdded, TypeOK, Devices
<1>8. ASSUME NEW h \in Handlers, Fail(h) PROVE TypeOK'
  <2>1. req[h].a \in Accounts
    BY <1>8, OpenRequest DEF Fail
  <2>2. req' \in [Handlers -> Requests]
    BY <1>8, ReplaceRequest, IdleIsRequest DEF Fail, End
  <2>3. astray' \subseteq Accounts
    BY <1>8, <2>1 DEF Fail, TypeOK
  <2> QED BY <1>8, <2>2, <2>3 DEF Fail, TypeOK
<1>9. ASSUME NEW h \in Handlers, AddFails(h) PROVE TypeOK'
  <2>1. req' \in [Handlers -> Requests]
    BY <1>9, ReplaceRequest, IdleIsRequest DEF AddFails, End
  <2> QED BY <1>9, <2>1 DEF AddFails, TypeOK, Devices
<1>10. ASSUME NEW a \in Accounts, Sync(a) PROVE TypeOK'
  BY <1>10 DEF Sync, TypeOK
<1>11. CASE UNCHANGED vars
  BY <1>11 DEF vars, TypeOK
<1> QED
  BY <1>1, <1>2, <1>3, <1>4, <1>5, <1>6, <1>7, <1>8, <1>9, <1>10, <1>11 DEF Next, Serve

\* Every variable keeps its type: passwords, tokens and states that were given
\* to a request, whatever it had to give up on.
THEOREM TypeCorrect == Spec => []TypeOK
BY InitTypeOK, NextTypeOK, PTL DEF Spec

-----------------------------------------------------------------------------
(* The owner of an account is sent its password *)

\* Without administrators, a reset carries a password, and only a reset has one
\* to send.
CarriesInv ==
    kind # "admin" =>
        \A h \in Handlers : req[h] # Idle =>
            /\ req[h].op \in {"reset", "approve"} /\ (req[h].op = "approve" => req[h].password = 0)
            /\ req[h].pc = "text" => req[h].op = "reset"
            /\ req[h].op = "reset" => req[h].password # 0

Sent(a, p) == \E i \in DOMAIN texts[a] : texts[a][i] = p
LastSent(a, p) == Len(texts[a]) > 0 /\ texts[a][Len(texts[a])] = p
Texting(h, a) == At(h, "text") /\ req[h].a = a

\* The password of an account was sent, or a request is about to send it; and if
\* no two requests met, one is at work at a time, and what it is about to send is
\* the password, as what was sent last is when it is not.
SentInv ==
    kind # "admin" =>
        \A a \in Accounts \ astray :
            /\ \/ Sent(a, row[a].password)
               \/ \E h \in Handlers : Texting(h, a) /\ req[h].password = row[a].password
            /\ a \notin met =>
                /\ \A g, h \in Handlers :
                       req[g] # Idle /\ req[h] # Idle /\ req[g].a = a /\ req[h].a = a => g = h
                /\ \A h \in Handlers : Texting(h, a) => req[h].password = row[a].password
                /\ LastSent(a, row[a].password) \/ \E h \in Handlers : Texting(h, a)

LEMMA SentInit == Init => CarriesInv /\ SentInv
<1> SUFFICES ASSUME Init PROVE CarriesInv /\ SentInv
  OBVIOUS
<1>1. CarriesInv
  BY DEF Init, CarriesInv
<1>2. \A a \in Accounts : Sent(a, row[a].password) /\ LastSent(a, row[a].password)
  <2>1. \A a \in Accounts : row[a].password = 0
    BY DEF Init
  <2>2. \A a \in Accounts : texts[a] = <<0>>
    BY DEF Init
  <2>3. ASSUME NEW a \in Accounts PROVE Sent(a, 0) /\ LastSent(a, 0)
    BY <2>2 DEF Sent, LastSent
  <2> QED BY <2>1, <2>3
<1>3. \A h \in Handlers : req[h] = Idle
  BY DEF Init
<1> QED BY <1>1, <1>2, <1>3 DEF SentInv, Texting, At

\* A request that goes on before it writes, or one that ends, does no harm, but
\* for one that ends with a password to send, whose account goes astray.
LEMMA QuietStep ==
    ASSUME TypeOK, CarriesInv, SentInv, NEW h \in Handlers, NEW new,
           req[h] # Idle, req' = [req EXCEPT ![h] = new],
           \/ new = Idle
           \/ \E stage \in {"srem", "write"} : \E r : Follows(new, req[h], stage, r),
           req[h].pc = "text" => req[h].a \in astray',
           kind' = kind, row' = row, texts' = texts, met \subseteq met', astray \subseteq astray'
    PROVE  CarriesInv' /\ SentInv'
<1>1. /\ req'[h] = new
      /\ \A g \in Handlers : g # h => req'[g] = req[g]
  BY DEF TypeOK
<1>2. new # Idle => /\ new.a = req[h].a /\ new.op = req[h].op /\ new.password = req[h].password
                    /\ new.pc # "text"
  BY DEF Follows
<1>3. CarriesInv'
  BY <1>1, <1>2 DEF CarriesInv
<1>4. \A g \in Handlers, a \in Accounts \ astray' : Texting(g, a)' <=> Texting(g, a)
  BY <1>1, <1>2 DEF Texting, At
<1>5. \A g \in Handlers, a \in Accounts \ astray' : Texting(g, a) => req'[g] = req[g]
  BY <1>1 DEF Texting, At
<1>6. \A g \in Handlers : req'[g] # Idle => req[g] # Idle /\ req'[g].a = req[g].a
  BY <1>1, <1>2
<1>7. \A a, p : (Sent(a, p)' <=> Sent(a, p)) /\ (LastSent(a, p)' <=> LastSent(a, p))
  BY DEF Sent, LastSent
<1> SUFFICES ASSUME kind # "admin", NEW a \in Accounts \ astray'
             PROVE  /\ \/ Sent(a, row[a].password)
                       \/ \E g \in Handlers : Texting(g, a)' /\ req'[g].password = row[a].password
                    /\ a \notin met' =>
                        /\ \A g, i \in Handlers :
                               req'[g] # Idle /\ req'[i] # Idle /\ req'[g].a = a /\ req'[i].a = a
                                   => g = i
                        /\ \A g \in Handlers : Texting(g, a)' => req'[g].password = row[a].password
                        /\ LastSent(a, row[a].password) \/ \E g \in Handlers : Texting(g, a)'
  BY <1>3, <1>7 DEF SentInv
<1>8. a \in Accounts \ astray
  OBVIOUS
<1> QED BY <1>4, <1>5, <1>6, <1>8 DEF SentInv

LEMMA SentNext == TypeOK /\ CarriesInv /\ SentInv /\ [Next]_vars => CarriesInv' /\ SentInv'
<1> SUFFICES ASSUME TypeOK, CarriesInv, SentInv, [Next]_vars PROVE CarriesInv' /\ SentInv'
  OBVIOUS
<1>1. ASSUME NEW h \in Handlers, UpdateInfo(h) \/ ResetPassword(h) \/ SetStatus(h)
      PROVE  CarriesInv' /\ SentInv'
  <2>0. CASE kind = "admin"
    BY <1>1, <2>0 DEF UpdateInfo, ResetPassword, SetStatus, Accept, CarriesInv, SentInv
  <2>1. CASE kind # "admin"
    <3>1. PICK op \in {"reset", "approve"}, a \in Accounts, x \in BOOLEAN, p \in {0, requests + 1} :
             /\ Accept(h, op, a, NoToken, x, p, 0)
             /\ IF op = "reset" THEN p = requests + 1 ELSE p = 0
      BY <1>1, <2>1 DEF UpdateInfo, ResetPassword, SetStatus
    <3> DEFINE new == [pc |-> "read", op |-> op, a |-> a, token |-> NoToken, active |-> x,
                       password |-> p, old |-> 0, seen |-> row[a]]
    <3>2. /\ req[h] = Idle /\ req'[h] = new
          /\ \A g \in Handlers : g # h => req'[g] = req[g]
          /\ kind' = kind /\ row' = row /\ texts' = texts /\ astray' = astray /\ met \subseteq met'
          /\ Busy(a) => a \in met'
      BY <3>1 DEF Accept, TypeOK
    <3>3. new.op = op /\ new.password = p /\ new.pc = "read" /\ new.a = a
      OBVIOUS
    <3>4. op = "reset" => p # 0
      BY <3>1, AccountsAssumption DEF TypeOK, Passwords
    <3> HIDE DEF new
    <3>5. CarriesInv'
      BY <3>1, <3>2, <3>3, <3>4 DEF CarriesInv
    <3>6. \A g \in Handlers, b \in Accounts : Texting(g, b)' <=> Texting(g, b)
      BY <3>2, <3>3 DEF Texting, At
    <3>7. \A g \in Handlers, b \in Accounts : Texting(g, b) => req'[g] = req[g]
      BY <3>2 DEF Texting, At
    <3>8. \A b, q : (Sent(b, q)' <=> Sent(b, q)) /\ (LastSent(b, q)' <=> LastSent(b, q))
      BY <3>2 DEF Sent, LastSent
    <3>9. ASSUME NEW b \in Accounts \ astray
          PROVE  /\ \/ Sent(b, row[b].password)
                    \/ \E g \in Handlers : Texting(g, b)' /\ req'[g].password = row[b].password
                 /\ b \notin met' =>
                     /\ \A g, i \in Handlers :
                            req'[g] # Idle /\ req'[i] # Idle /\ req'[g].a = b /\ req'[i].a = b
                                => g = i
                     /\ \A g \in Handlers : Texting(g, b)' => req'[g].password = row[b].password
                     /\ LastSent(b, row[b].password) \/ \E g \in Handlers : Texting(g, b)'
      <4>1. \/ Sent(b, row[b].password)
            \/ \E g \in Handlers : Texting(g, b)' /\ req'[g].password = row[b].password
        BY <2>1, <3>6, <3>7 DEF SentInv
      <4>2. ASSUME b \notin met', NEW g \in Handlers, NEW i \in Handlers,
                   req'[g] # Idle, req'[i] # Idle, req'[g].a = b, req'[i].a = b
            PROVE  g = i
        BY <2>1, <3>2, <3>3, <4>2 DEF SentInv, Busy
      <4>3. ASSUME b \notin met'
            PROVE  /\ \A g \in Handlers : Texting(g, b)' => req'[g].password = row[b].password
                   /\ LastSent(b, row[b].password) \/ \E g \in Handlers : Texting(g, b)'
        BY <2>1, <3>2, <3>6, <3>7, <4>3 DEF SentInv
      <4> QED BY <4>1, <4>2, <4>3
    <3> QED BY <3>2, <3>5, <3>8, <3>9 DEF SentInv
  <2> QED BY <2>0, <2>1
<1>2. ASSUME NEW h \in Handlers, Read(h) \/ RemoveToken(h) PROVE CarriesInv' /\ SentInv'
  <2>1. PICK new, r : Advanced(h, new, r)
    BY <1>2, Advances
  <2>2. req[h] # Idle /\ req[h].pc # "text"
    BY <1>2, AtIsOpen DEF Read, RemoveToken
  <2>3. /\ kind' = kind /\ row' = row /\ texts' = texts
        /\ met \subseteq met' /\ astray \subseteq astray'
    BY <1>2 DEF Read, RemoveToken
  <2> QED BY <2>1, <2>2, <2>3, QuietStep DEF Advanced
<1>3. ASSUME NEW h \in Handlers, Write(h) PROVE CarriesInv' /\ SentInv'
  <2> DEFINE q == req[h]
             a == q.a
  <2>1. q # Idle /\ q \in Open /\ a \in Accounts /\ q.pc = "write"
    BY <1>3, AtIsOpen DEF Write
  <2>2. /\ row' = [row EXCEPT ![a] = Changed(row[a], q)]
        /\ kind' = kind /\ texts' = texts /\ met' = met /\ astray' = astray
    BY <1>3 DEF Write
  <2>3. row'[a].password = IF q.password = 0 THEN row[a].password ELSE q.password
    <3>1. Changed(row[a], q).password = IF q.password = 0 THEN row[a].password ELSE q.password
      BY <2>1, ChangedIsRow DEF TypeOK
    <3> QED BY <2>1, <2>2, <3>1 DEF TypeOK
  <2>4. \A b \in Accounts : b # a => row'[b] = row[b]
    BY <2>2 DEF TypeOK
  <2>5. PICK new : /\ req' = [req EXCEPT ![h] = new]
                   /\ \/ new = Idle /\ After(q) = "idle"
                      \/ /\ After(q) \in {"text", "push"}
                         /\ Follows(new, q, After(q), q.seen)
    BY <1>3, <2>1, Writes, Moves
  <2>6. /\ req'[h] = new
        /\ \A g \in Handlers : g # h => req'[g] = req[g]
    BY <2>5 DEF TypeOK
  <2>7. After(q) = "text" <=> q.op = "reset"
    BY DEF After, IsApproval
  <2>8. new # Idle => /\ new.a = a /\ new.op = q.op /\ new.password = q.password
                      /\ new.pc = After(q)
    BY <2>5 DEF Follows
  <2>9. new = Idle => After(q) = "idle"
    BY <2>5 DEF Follows, Open
  <2> HIDE DEF q, a
  <2>10. CASE kind = "admin"
    BY <2>2, <2>10 DEF CarriesInv, SentInv
  <2>11. CASE kind # "admin"
    <3>1. /\ q.op \in {"reset", "approve"} /\ (q.op = "approve" => q.password = 0)
          /\ q.op = "reset" => q.password # 0
      BY <2>1, <2>11 DEF CarriesInv, q
    <3>2. CarriesInv'
      <4>1. ASSUME NEW g \in Handlers, req'[g] # Idle
            PROVE  /\ req'[g].op \in {"reset", "approve"}
                   /\ req'[g].op = "approve" => req'[g].password = 0
                   /\ req'[g].pc = "text" => req'[g].op = "reset"
                   /\ req'[g].op = "reset" => req'[g].password # 0
        <5>1. CASE g = h
          BY <2>6, <2>7, <2>8, <3>1, <4>1, <5>1
        <5>2. CASE g # h
          BY <2>6, <2>11, <4>1, <5>2 DEF CarriesInv
        <5> QED BY <5>1, <5>2
      <4> QED BY <2>2, <4>1 DEF CarriesInv
    <3>3. \A g \in Handlers, b \in Accounts :
              g # h => (Texting(g, b)' <=> Texting(g, b)) /\ (Texting(g, b) => req'[g] = req[g])
      BY <2>6 DEF Texting, At
    <3>4. \A b, p : (Sent(b, p)' <=> Sent(b, p)) /\ (LastSent(b, p)' <=> LastSent(b, p))
      BY <2>2 DEF Sent, LastSent
    <3>5. \A b \in Accounts : ~Texting(h, b)
      BY <2>1 DEF Texting, At, q
    <3>6. \A g \in Handlers : req'[g] # Idle => req[g] # Idle /\ req'[g].a = req[g].a
      BY <2>1, <2>6, <2>8 DEF q, a
    <3>7. ASSUME NEW b \in Accounts \ astray
          PROVE  /\ \/ Sent(b, row'[b].password)
                    \/ \E g \in Handlers : Texting(g, b)' /\ req'[g].password = row'[b].password
                 /\ b \notin met =>
                     /\ \A g, i \in Handlers :
                            req'[g] # Idle /\ req'[i] # Idle /\ req'[g].a = b /\ req'[i].a = b
                                => g = i
                     /\ \A g \in Handlers : Texting(g, b)' => req'[g].password = row'[b].password
                     /\ LastSent(b, row'[b].password) \/ \E g \in Handlers : Texting(g, b)'
      <4>1. b \notin met =>
                \A g, i \in Handlers :
                    req'[g] # Idle /\ req'[i] # Idle /\ req'[g].a = b /\ req'[i].a = b => g = i
        BY <2>11, <3>6 DEF SentInv
      <4>2. CASE b = a /\ q.op = "reset"
        <5>1. new # Idle /\ new.a = a /\ new.password = q.password /\ new.pc = "text"
          BY <2>7, <2>8, <2>9, <4>2
        <5>2. Texting(h, b)' /\ req'[h].password = q.password
          BY <2>6, <4>2, <5>1 DEF Texting, At
        <5>3. row'[b].password = q.password
          BY <2>3, <3>1, <4>2
        <5>4. b \notin met => \A g \in Handlers : Texting(g, b)' => g = h
          BY <4>1, <5>2 DEF Texting, At
        <5> QED BY <4>1, <5>2, <5>3, <5>4
      <4>3. CASE ~(b = a /\ q.op = "reset")
        <5>1. row'[b].password = row[b].password
          BY <2>3, <2>4, <3>1, <4>3
        <5>2. ~Texting(h, b)'
          <6>1. ASSUME Texting(h, b)' PROVE FALSE
            <7>1. new # Idle /\ new.pc = "text" /\ new.a = b
              BY <2>6, <6>1 DEF Texting, At
            <7> QED BY <2>7, <2>8, <4>3, <7>1
          <6> QED BY <6>1
        <5> QED BY <2>11, <3>3, <3>5, <4>1, <5>1, <5>2 DEF SentInv
      <4> QED BY <4>2, <4>3
    <3> QED BY <2>2, <3>2, <3>4, <3>7 DEF SentInv
  <2> QED BY <2>10, <2>11
<1>4. ASSUME NEW h \in Handlers, SendText(h) PROVE CarriesInv' /\ SentInv'
  <2>0. PICK a, p : a = req[h].a /\ p = req[h].password
    OBVIOUS
  <2>1. req[h] # Idle /\ req[h] \in Open /\ a \in Accounts /\ req[h].pc = "text" /\ Texting(h, a)
    BY <1>4, <2>0, AtIsOpen DEF SendText, Texting
  <2>2. req' = [req EXCEPT ![h] = Idle]
    BY <1>4 DEF SendText, End
  <2>3. CASE texts' = texts /\ astray' = astray \union {a}
    BY <1>4, <2>0, <2>1, <2>2, <2>3, QuietStep DEF SendText
  <2>4. CASE texts' = [texts EXCEPT ![a] = Append(@, p)] /\ astray' = astray
    <3>1. /\ kind' = kind /\ row' = row /\ met' = met
          /\ req'[h] = Idle /\ \A g \in Handlers : g # h => req'[g] = req[g]
      BY <1>4, <2>2 DEF SendText, TypeOK
    <3>2. CarriesInv'
      BY <3>1 DEF CarriesInv
    <3>3. LastSent(a, p)' /\ Sent(a, p)'
      <4>1. texts[a] \in Seq(Passwords) /\ p \in Passwords
        BY <2>0, <2>1 DEF TypeOK, Open, Requests
      <4>2. texts'[a] = Append(texts[a], p)
        BY <2>1, <2>4 DEF TypeOK
      <4>3. /\ Len(texts'[a]) = Len(texts[a]) + 1 /\ Len(texts[a]) \in Nat
            /\ DOMAIN texts'[a] = 1..Len(texts'[a])
            /\ texts'[a][Len(texts'[a])] = p
        BY <4>1, <4>2
      <4>4. LastSent(a, p)'
        <5>1. Len(texts'[a]) > 0 /\ texts'[a][Len(texts'[a])] = p
          BY <4>3
        <5> QED BY <5>1, Zenon DEF LastSent
      <4> QED BY <4>3, <4>4 DEF Sent
    <3>4. \A q : Sent(a, q) => Sent(a, q)'
      <4>1. texts[a] \in Seq(Passwords) /\ p \in Passwords
        BY <2>0, <2>1 DEF TypeOK, Open, Requests
      <4>2. texts'[a] = Append(texts[a], p)
        BY <2>1, <2>4 DEF TypeOK
      <4>3. /\ DOMAIN texts[a] \subseteq DOMAIN texts'[a]
            /\ \A i \in DOMAIN texts[a] : texts'[a][i] = texts[a][i]
        BY <4>1, <4>2
      <4> QED BY <4>3 DEF Sent
    <3>5. \A b \in Accounts \ {a} :
              texts'[b] = texts[b] /\ (\A g \in Handlers : Texting(g, b)' <=> Texting(g, b))
      BY <2>1, <2>4, <3>1 DEF TypeOK, Texting, At
    <3>6. \A g \in Handlers, b \in Accounts :
              g # h => (Texting(g, b)' <=> Texting(g, b)) /\ req'[g] = req[g]
      BY <3>1 DEF Texting, At
    <3>7. \A b \in Accounts : ~Texting(h, b)'
      BY <3>1 DEF Texting, At
    <3> SUFFICES ASSUME kind # "admin", NEW b \in Accounts \ astray
                 PROVE  /\ \/ Sent(b, row[b].password)'
                           \/ \E g \in Handlers : Texting(g, b)' /\ req'[g].password = row[b].password
                        /\ b \notin met =>
                            /\ \A g, i \in Handlers :
                                   req'[g] # Idle /\ req'[i] # Idle /\ req'[g].a = b /\ req'[i].a = b
                                       => g = i
                            /\ \A g \in Handlers : Texting(g, b)' => req'[g].password = row[b].password
                            /\ LastSent(b, row[b].password)' \/ \E g \in Handlers : Texting(g, b)'
      BY <2>4, <3>1, <3>2 DEF SentInv
    <3>8. b \notin met =>
              \A g, i \in Handlers :
                  req'[g] # Idle /\ req'[i] # Idle /\ req'[g].a = b /\ req'[i].a = b => g = i
      BY <3>1 DEF SentInv
    <3>9. CASE b # a
      <4>1. \A q : (Sent(b, q)' <=> Sent(b, q)) /\ (LastSent(b, q)' <=> LastSent(b, q))
        BY <3>5, <3>9 DEF Sent, LastSent
      <4>2. ~Texting(h, b)
        BY <2>0, <3>9 DEF Texting
      <4>3. row'[b] = row[b]
        BY <3>1
      <4> QED BY <3>6, <3>7, <3>8, <4>1, <4>2, <4>3 DEF SentInv
    <3>10. CASE b = a
      <4>1. \/ Sent(b, row[b].password)'
            \/ \E g \in Handlers : Texting(g, b)' /\ req'[g].password = row[b].password
        BY <2>0, <3>1, <3>3, <3>4, <3>6, <3>10 DEF SentInv
      <4>2. b \notin met => LastSent(b, row[b].password)'
        BY <2>0, <2>1, <3>1, <3>3, <3>10 DEF SentInv
      <4>3. b \notin met => \A g \in Handlers : Texting(g, b)' => req'[g].password = row[b].password
        BY <3>1, <3>6, <3>7 DEF SentInv
      <4> QED BY <3>8, <4>1, <4>2, <4>3
    <3> QED BY <3>9, <3>10
  <2> QED BY <1>4, <2>0, <2>3, <2>4 DEF SendText
<1>5. ASSUME NEW h \in Handlers, SendPush(h) PROVE CarriesInv' /\ SentInv'
  <2>1. req[h] # Idle /\ req[h].pc = "push"
    BY <1>5, AtIsOpen DEF SendPush
  <2> QED BY <1>5, <2>1, QuietStep DEF SendPush, End
<1>6. ASSUME NEW h \in Handlers, Fail(h) PROVE CarriesInv' /\ SentInv'
  <2>1. req[h].pc = "text" => req[h].a \in astray'
    BY <1>6 DEF Fail, Halfway
  <2> QED BY <1>6, <2>1, QuietStep DEF Fail, End
<1>7. ASSUME NEW h \in Handlers, AddFails(h) PROVE CarriesInv' /\ SentInv'
  <2>1. SentInv'
    BY <1>7 DEF AddFails, SentInv
  <2>2. CarriesInv'
    BY <1>7 DEF AddFails, End, CarriesInv, TypeOK
  <2> QED BY <2>1, <2>2
<1>8. ASSUME UNCHANGED <<kind, row, texts, req, met, astray>> PROVE CarriesInv' /\ SentInv'
  BY <1>8 DEF CarriesInv, SentInv, Sent, LastSent, Texting, At
<1>9. ASSUME NEW h \in Handlers, TokenAdded(h) PROVE CarriesInv' /\ SentInv'
  BY <1>8, <1>9 DEF TokenAdded
<1>10. ASSUME NEW a \in Accounts, Sync(a) PROVE CarriesInv' /\ SentInv'
  BY <1>8, <1>10 DEF Sync
<1>11. CASE UNCHANGED vars
  BY <1>8, <1>11 DEF vars
<1> QED
  BY <1>1, <1>2, <1>3, <1>4, <1>5, <1>6, <1>7, <1>9, <1>10, <1>11 DEF Next, Serve

LEMMA SentEnough == TypeOK /\ SentInv => PasswordIsSent
<1> SUFFICES ASSUME SentInv, kind # "admin", NEW a \in Settled \ astray
             PROVE  /\ \E i \in DOMAIN texts[a] : texts[a][i] = row[a].password
                    /\ a \notin met => texts[a][Len(texts[a])] = row[a].password
  BY DEF PasswordIsSent
<1>1. a \in Accounts \ astray /\ \A h \in Handlers : ~Texting(h, a)
  BY DEF Settled, Busy, Texting, At
<1> QED BY <1>1 DEF SentInv, Sent, LastSent

\* Whoever is left with a new password was sent it, and sent it last unless two
\* resets of it met: neither the order in which they write and send nor the
\* stale row they begin with makes any difference.
THEOREM PasswordsAreSent == Spec => []PasswordIsSent
<1>1. TypeOK /\ CarriesInv /\ SentInv /\ [Next]_vars => (TypeOK /\ CarriesInv /\ SentInv)'
  BY NextTypeOK, SentNext
<1> QED BY <1>1, InitTypeOK, SentInit, SentEnough, PTL DEF Spec
-----------------------------------------------------------------------------
(* A shoemaker is told of his approval *)

Pushing(h, a) == At(h, "push") /\ req[h].a = a

\* Of the accounts on which no two requests met and none has decided on a stale
\* copy: one request is at work at a time, it has seen the row it is about to
\* write, and while it is about to tell the shoemaker one approval is untold.
ToldInv ==
    \A a \in Accounts \ (met \union astray) :
        /\ \A g, h \in Handlers :
               req[g] # Idle /\ req[h] # Idle /\ req[g].a = a /\ req[h].a = a => g = h
        /\ \A h \in Handlers :
               req[h] # Idle /\ req[h].a = a /\ req[h].op # "reset" /\ req[h].pc \in {"srem", "write"}
                   => req[h].seen = row[a]
        /\ \A h \in Handlers : Pushing(h, a) => untold[a] = 1
        /\ (\A h \in Handlers : ~Pushing(h, a)) => untold[a] = 0

LEMMA ToldInit == Init => ToldInv
BY DEF Init, ToldInv, Pushing, At

\* A request that goes on before it writes, having seen the row, or that ends,
\* does no harm, but for one that ends with something to tell.
LEMMA UntellingStep ==
    ASSUME TypeOK, ToldInv, NEW h \in Handlers, NEW new,
           req[h] # Idle, req' = [req EXCEPT ![h] = new],
           \/ new = Idle
           \/ /\ new.a = req[h].a /\ new.pc # "push"
              /\ new.op # "reset" => new.seen = row[req[h].a] \/ req[h].a \in astray',
           req[h].pc = "push" => req[h].a \in astray',
           row' = row, untold' = untold, met \subseteq met', astray \subseteq astray'
    PROVE  ToldInv'
<1>1. /\ req'[h] = new
      /\ \A g \in Handlers : g # h => req'[g] = req[g]
  BY DEF TypeOK
<1> SUFFICES ASSUME NEW a \in Accounts \ (met' \union astray')
             PROVE  /\ \A g, i \in Handlers :
                           req'[g] # Idle /\ req'[i] # Idle /\ req'[g].a = a /\ req'[i].a = a => g = i
                    /\ \A g \in Handlers :
                           req'[g] # Idle /\ req'[g].a = a /\ req'[g].op # "reset"
                           /\ req'[g].pc \in {"srem", "write"}
                               => req'[g].seen = row[a]
                    /\ \A g \in Handlers : Pushing(g, a)' => untold[a] = 1
                    /\ (\A g \in Handlers : ~Pushing(g, a)') => untold[a] = 0
  BY DEF ToldInv
<1>2. a \in Accounts \ (met \union astray)
  OBVIOUS
<1>3. \A g \in Handlers : Pushing(g, a)' <=> Pushing(g, a)
  BY <1>1 DEF Pushing, At
<1>4. \A g, i \in Handlers :
          req'[g] # Idle /\ req'[i] # Idle /\ req'[g].a = a /\ req'[i].a = a => g = i
  BY <1>1, <1>2 DEF ToldInv
<1>5. ASSUME NEW g \in Handlers, req'[g] # Idle, req'[g].a = a, req'[g].op # "reset",
             req'[g].pc \in {"srem", "write"}
      PROVE  req'[g].seen = row[a]
  <2>1. CASE g = h
    BY <1>1, <1>5, <2>1
  <2>2. CASE g # h
    BY <1>1, <1>2, <1>5, <2>2 DEF ToldInv
  <2> QED BY <2>1, <2>2
<1>6. /\ \A g \in Handlers : Pushing(g, a) => untold[a] = 1
      /\ (\A g \in Handlers : ~Pushing(g, a)) => untold[a] = 0
  BY <1>2 DEF ToldInv
<1>7. /\ \A g \in Handlers : Pushing(g, a)' => untold[a] = 1
      /\ (\A g \in Handlers : ~Pushing(g, a)') => untold[a] = 0
  BY <1>3, <1>6
<1> QED BY <1>4, <1>5, <1>7

LEMMA ToldNext == TypeOK /\ ToldInv /\ [Next]_vars => ToldInv'
<1> SUFFICES ASSUME TypeOK, ToldInv, [Next]_vars PROVE ToldInv'
  OBVIOUS
<1>1. ASSUME NEW h \in Handlers, UpdateInfo(h) \/ ResetPassword(h) \/ SetStatus(h)
      PROVE  ToldInv'
  <2>1. PICK op \in {"info", "reset", "approve"}, a \in Accounts, t \in Devices, x \in BOOLEAN,
           p \in {0, requests + 1}, old \in {0, requests + 1} \union {row[b].password : b \in Accounts} :
           Accept(h, op, a, t, x, p, old)
    BY <1>1, Arrivals
  <2> DEFINE new == [pc |-> "read", op |-> op, a |-> a, token |-> t, active |-> x,
                     password |-> p, old |-> old, seen |-> row[a]]
  <2>2. /\ req[h] = Idle /\ req'[h] = new
        /\ \A g \in Handlers : g # h => req'[g] = req[g]
        /\ row' = row /\ untold' = untold /\ astray' = astray /\ met \subseteq met'
        /\ Busy(a) => a \in met'
    BY <2>1 DEF Accept, TypeOK
  <2>3. new.pc = "read" /\ new.a = a
    OBVIOUS
  <2> HIDE DEF new
  <2> SUFFICES ASSUME NEW b \in Accounts \ (met' \union astray')
               PROVE  /\ \A g, i \in Handlers :
                             req'[g] # Idle /\ req'[i] # Idle /\ req'[g].a = b /\ req'[i].a = b => g = i
                      /\ \A g \in Handlers :
                             req'[g] # Idle /\ req'[g].a = b /\ req'[g].op # "reset"
                             /\ req'[g].pc \in {"srem", "write"}
                                 => req'[g].seen = row[b]
                      /\ \A g \in Handlers : Pushing(g, b)' => untold[b] = 1
                      /\ (\A g \in Handlers : ~Pushing(g, b)') => untold[b] = 0
    BY <2>2 DEF ToldInv
  <2>4. b \in Accounts \ (met \union astray)
    BY <2>2
  <2>5. \A g \in Handlers : Pushing(g, b)' <=> Pushing(g, b)
    BY <2>2, <2>3 DEF Pushing, At
  <2>6. ASSUME NEW g \in Handlers, NEW i \in Handlers,
               req'[g] # Idle, req'[i] # Idle, req'[g].a = b, req'[i].a = b
        PROVE  g = i
    BY <2>2, <2>3, <2>4, <2>6 DEF ToldInv, Busy
  <2>7. ASSUME NEW g \in Handlers, req'[g] # Idle, req'[g].a = b, req'[g].op # "reset",
               req'[g].pc \in {"srem", "write"}
        PROVE  req'[g].seen = row[b]
    <3>1. g # h
      BY <2>2, <2>3, <2>7
    <3> QED BY <2>2, <2>4, <2>7, <3>1 DEF ToldInv
  <2>8. /\ \A g \in Handlers : Pushing(g, b) => untold[b] = 1
        /\ (\A g \in Handlers : ~Pushing(g, b)) => untold[b] = 0
    BY <2>4 DEF ToldInv
  <2>9. /\ \A g \in Handlers : Pushing(g, b)' => untold[b] = 1
        /\ (\A g \in Handlers : ~Pushing(g, b)') => untold[b] = 0
    BY <2>5, <2>8
  <2> QED BY <2>6, <2>7, <2>9
<1>2. ASSUME NEW h \in Handlers, Read(h) PROVE ToldInv'
  <2>1. PICK new : Advanced(h, new, replica[req[h].a])
    BY <1>2, Advances
  <2>2. req[h] # Idle /\ req[h].pc # "push"
    BY <1>2, AtIsOpen DEF Read
  <2>3. /\ row' = row /\ untold' = untold /\ met' = met /\ astray \subseteq astray'
        /\ req[h].op # "reset" /\ replica[req[h].a] # row[req[h].a] => req[h].a \in astray'
    BY <1>2 DEF Read
  <2>4. \/ new = Idle
        \/ /\ new.a = req[h].a /\ new.pc # "push"
           /\ new.op # "reset" => new.seen = row[req[h].a] \/ req[h].a \in astray'
    BY <2>1, <2>3 DEF Advanced, Follows
  <2> QED BY <2>1, <2>2, <2>3, <2>4, UntellingStep DEF Advanced
<1>3. ASSUME NEW h \in Handlers, RemoveToken(h) PROVE ToldInv'
  <2>1. PICK new : Advanced(h, new, req[h].seen)
    BY <1>3, Advances
  <2>2. req[h] # Idle /\ req[h].pc = "srem" /\ req[h].a \in Accounts
    BY <1>3, AtIsOpen DEF RemoveToken
  <2>3. row' = row /\ untold' = untold /\ met \subseteq met' /\ astray' = astray
    BY <1>3 DEF RemoveToken
  <2>4. CASE req[h].a \in met \union astray
    \* Nothing is claimed of its account.
    <3>1. /\ req'[h] = new
          /\ \A g \in Handlers : g # h => req'[g] = req[g]
      BY <2>1 DEF Advanced, TypeOK
    <3>2. new # Idle => new.a = req[h].a
      BY <2>1 DEF Advanced, Follows
    <3>3. \A a \in Accounts \ (met \union astray), g \in Handlers :
              /\ req[g] # Idle /\ req[g].a = a => g # h
              /\ req'[g] # Idle /\ req'[g].a = a => g # h
      BY <2>4, <3>1, <3>2
    <3>4. \A a \in Accounts \ (met \union astray), g \in Handlers :
              Pushing(g, a)' <=> Pushing(g, a)
      BY <3>1, <3>3 DEF Pushing, At
    <3> QED BY <2>3, <3>1, <3>3, <3>4 DEF ToldInv
  <2>5. CASE req[h].a \notin met \union astray
    <3>1. \/ new = Idle
          \/ /\ new.a = req[h].a /\ new.pc # "push"
             /\ new.op # "reset" => new.seen = row[req[h].a]
      BY <2>1, <2>2, <2>5 DEF Advanced, Follows, ToldInv
    <3> QED BY <2>1, <2>2, <2>3, <3>1, UntellingStep DEF Advanced
  <2> QED BY <2>4, <2>5
<1>4. ASSUME NEW h \in Handlers, Write(h) PROVE ToldInv'
  <2> DEFINE q == req[h]
  <2>0. PICK a : a = q.a
    OBVIOUS
  <2>1. q # Idle /\ q \in Open /\ a \in Accounts /\ q.pc = "write"
    BY <1>4, <2>0, AtIsOpen DEF Write
  <2>2. /\ row' = [row EXCEPT ![a] = Changed(row[a], q)]
        /\ untold' = IF IsApproval(row[a], q) THEN [untold EXCEPT ![a] = @ + 1] ELSE untold
        /\ met' = met /\ astray' = astray
    BY <1>4, <2>0 DEF Write
  <2>3. PICK new : /\ req' = [req EXCEPT ![h] = new]
                   /\ \/ new = Idle /\ After(q) = "idle"
                      \/ /\ After(q) \in {"text", "push"}
                         /\ Follows(new, q, After(q), q.seen)
    BY <1>4, <2>1, Writes, Moves
  <2>4. /\ req'[h] = new
        /\ \A g \in Handlers : g # h => req'[g] = req[g]
    BY <2>3 DEF TypeOK
  <2>5. new # Idle => new.a = a /\ new.pc = After(q) /\ new.pc \in {"text", "push"}
    BY <2>0, <2>3 DEF Follows
  <2>6. new = Idle => After(q) = "idle"
    BY <2>3 DEF Follows, Open
  <2>7. (After(q) = "push" <=> q.op # "reset" /\ IsApproval(q.seen, q))
        /\ (IsApproval(row[a], q) => q.op # "reset")
    BY DEF After, IsApproval
  <2>8. \A b \in Accounts \ {a} : row'[b] = row[b] /\ untold'[b] = untold[b]
    BY <2>1, <2>2 DEF TypeOK
  <2>9. untold'[a] = IF IsApproval(row[a], q) THEN untold[a] + 1 ELSE untold[a]
    BY <2>1, <2>2 DEF TypeOK
  <2>10. \A g \in Handlers, b \in Accounts :
             g # h \/ b # a => (Pushing(g, b)' <=> Pushing(g, b))
    BY <2>0, <2>4, <2>5 DEF Pushing, At
  <2>11. ~Pushing(h, a) /\ (Pushing(h, a)' <=> After(q) = "push")
    <3>1. ~Pushing(h, a)
      BY <2>1 DEF Pushing, At
    <3>2. Pushing(h, a)' <=> new # Idle /\ new.pc = "push" /\ new.a = a
      BY <2>4 DEF Pushing, At
    <3> QED BY <2>5, <2>6, <3>1, <3>2
  <2>12. \A g \in Handlers : req'[g] # Idle => req[g] # Idle /\ req'[g].a = req[g].a
    BY <2>0, <2>1, <2>4, <2>5
  <2> SUFFICES ASSUME NEW b \in Accounts \ (met \union astray)
               PROVE  /\ \A g, i \in Handlers :
                             req'[g] # Idle /\ req'[i] # Idle /\ req'[g].a = b /\ req'[i].a = b => g = i
                      /\ \A g \in Handlers :
                             req'[g] # Idle /\ req'[g].a = b /\ req'[g].op # "reset"
                             /\ req'[g].pc \in {"srem", "write"}
                                 => req'[g].seen = row'[b]
                      /\ \A g \in Handlers : Pushing(g, b)' => untold'[b] = 1
                      /\ (\A g \in Handlers : ~Pushing(g, b)') => untold'[b] = 0
    BY <2>2 DEF ToldInv
  <2>13. \A g, i \in Handlers :
             req'[g] # Idle /\ req'[i] # Idle /\ req'[g].a = b /\ req'[i].a = b => g = i
    BY <2>12 DEF ToldInv
  <2>14. CASE b # a
    <3>1. \A g \in Handlers : req'[g] # Idle /\ req'[g].a = b => req'[g] = req[g]
      BY <2>4, <2>5, <2>14
    <3>2. row'[b] = row[b] /\ untold'[b] = untold[b]
      BY <2>8, <2>14
    <3>3. \A g \in Handlers :
              req'[g] # Idle /\ req'[g].a = b /\ req'[g].op # "reset"
              /\ req'[g].pc \in {"srem", "write"}
                  => req'[g].seen = row'[b]
      BY <3>1, <3>2 DEF ToldInv
    <3>4. \A g \in Handlers : Pushing(g, b)' <=> Pushing(g, b)
      BY <2>10, <2>14
    <3>5. /\ \A g \in Handlers : Pushing(g, b) => untold[b] = 1
          /\ (\A g \in Handlers : ~Pushing(g, b)) => untold[b] = 0
      BY DEF ToldInv
    <3>6. /\ \A g \in Handlers : Pushing(g, b)' => untold'[b] = 1
          /\ (\A g \in Handlers : ~Pushing(g, b)') => untold'[b] = 0
      BY <3>2, <3>4, <3>5
    <3> QED BY <2>13, <3>3, <3>6
  <2>15. CASE b = a
    <3>1. \A g \in Handlers : g # h => ~(req'[g] # Idle /\ req'[g].a = a)
      BY <2>0, <2>1, <2>4, <2>15 DEF ToldInv
    <3>2. \A g \in Handlers :
              ~(req'[g] # Idle /\ req'[g].a = b /\ req'[g].pc \in {"srem", "write"})
      <4>1. ~(req'[h] # Idle /\ req'[h].pc \in {"srem", "write"})
        BY <2>4, <2>5
      <4> QED BY <2>15, <3>1, <4>1
    <3>3. \A g \in Handlers : ~Pushing(g, a)
      BY <2>0, <2>1, <2>11, <2>15 DEF ToldInv, Pushing, At
    <3>4. untold[a] = 0
      BY <2>15, <3>3 DEF ToldInv
    <3>5. q.op # "reset" => q.seen = row[a]
      BY <2>0, <2>1, <2>15 DEF ToldInv
    <3>6. IsApproval(row[a], q) <=> After(q) = "push"
      BY <2>7, <3>5
    <3>7. \A g \in Handlers : Pushing(g, a)' <=> g = h /\ After(q) = "push"
      BY <2>1, <2>10, <2>11, <3>3
    <3> QED BY <2>9, <2>13, <2>15, <3>2, <3>4, <3>6, <3>7
  <2> QED BY <2>14, <2>15
<1>5. ASSUME NEW h \in Handlers, SendText(h) PROVE ToldInv'
  <2>1. req[h] # Idle /\ req[h].pc = "text"
    BY <1>5, AtIsOpen DEF SendText
  <2>2. astray \subseteq astray'
    BY <1>5 DEF SendText
  <2> QED BY <1>5, <2>1, <2>2, UntellingStep DEF SendText, End
<1>6. ASSUME NEW h \in Handlers, SendPush(h) PROVE ToldInv'
  <2>0. PICK a : a = req[h].a
    OBVIOUS
  <2>1. req[h] # Idle /\ a \in Accounts /\ Pushing(h, a)
    BY <1>6, <2>0, AtIsOpen DEF SendPush, Pushing
  <2>2. /\ req'[h] = Idle /\ \A g \in Handlers : g # h => req'[g] = req[g]
        /\ untold'[a] = untold[a] - 1 /\ \A b \in Accounts \ {a} : untold'[b] = untold[b]
        /\ row' = row /\ met' = met /\ astray' = astray
    BY <1>6, <2>0, <2>1 DEF SendPush, End, TypeOK
  <2>3. \A g \in Handlers, b \in Accounts : b # a => (Pushing(g, b)' <=> Pushing(g, b))
    BY <2>0, <2>2 DEF Pushing, At
  <2>4. a \notin met \union astray => \A g \in Handlers : ~Pushing(g, a)'
    BY <2>0, <2>1, <2>2 DEF ToldInv, Pushing, At
  <2>5. a \notin met \union astray => untold'[a] = 0
    BY <2>1, <2>2 DEF ToldInv
  <2>6. \A g \in Handlers : req'[g] # Idle => req'[g] = req[g] /\ req[g] # Idle
    BY <2>2
  <2> QED BY <2>2, <2>3, <2>4, <2>5, <2>6 DEF ToldInv
<1>7. ASSUME NEW h \in Handlers, Fail(h) PROVE ToldInv'
  <2>1. req[h].pc = "push" => req[h].a \in astray'
    BY <1>7 DEF Fail, Halfway
  <2>2. astray \subseteq astray'
    BY <1>7 DEF Fail
  <2> QED BY <1>7, <2>1, <2>2, UntellingStep DEF Fail, End
<1>8. ASSUME NEW h \in Handlers, AddFails(h) PROVE ToldInv'
  BY <1>8 DEF AddFails, ToldInv
<1>9. ASSUME UNCHANGED <<row, untold, req, met, astray>> PROVE ToldInv'
  BY <1>9 DEF ToldInv, Pushing, At
<1>10. ASSUME NEW h \in Handlers, TokenAdded(h) PROVE ToldInv'
  BY <1>9, <1>10 DEF TokenAdded
<1>11. ASSUME NEW a \in Accounts, Sync(a) PROVE ToldInv'
  BY <1>9, <1>11 DEF Sync
<1>12. CASE UNCHANGED vars
  BY <1>9, <1>12 DEF vars
<1> QED
  BY <1>1, <1>2, <1>3, <1>4, <1>5, <1>6, <1>7, <1>8, <1>10, <1>11, <1>12 DEF Next, Serve

LEMMA ToldEnough == ToldInv => ApprovalIsTold
<1> SUFFICES ASSUME ToldInv, NEW a \in Settled \ (met \union astray) PROVE untold[a] = 0
  BY DEF ApprovalIsTold
<1>1. a \in Accounts /\ \A h \in Handlers : ~Pushing(h, a)
  BY DEF Settled, Busy, Pushing, At
<1> QED BY <1>1 DEF ToldInv

\* A shoemaker is told of each approval once, whatever else is done to other
\* accounts: the copy his row was read into is the row until the request that
\* read it has written.
THEOREM ApprovalsAreTold == Spec => []ApprovalIsTold
<1>1. TypeOK /\ ToldInv /\ [Next]_vars => (TypeOK /\ ToldInv)'
  BY NextTypeOK, ToldNext
<1> QED BY <1>1, InitTypeOK, ToldInit, ToldEnough, PTL DEF Spec

-----------------------------------------------------------------------------
(* The set of redis and the tokens of administrators *)

\* Who has a token, or is about to; and whether the set has it, or is to get it.
Claimed(a, t) ==
    row[a].token = t \/ \E h \in Handlers : req[h] # Idle /\ req[h].a = a /\ req[h].token = t
Kept(t) == t \in tokens \/ \E h \in Handlers : adding[h] = t
Writing(h, a) == At(h, "write") /\ req[h].a = a /\ req[h].token # NoToken

\* An account no two requests met on has its tokens to itself.
ShareInv ==
    \A a \in Accounts \ met :
        /\ \A b \in Accounts \ {a} : \A t \in Tokens : ~(Claimed(a, t) /\ Claimed(b, t))
        /\ \A g, h \in Handlers :
               req[g] # Idle /\ req[h] # Idle /\ req[g].a = a /\ req[h].a = a => g = h

InfoInv ==
    kind = "admin" => \A h \in Handlers : req[h] # Idle =>
        /\ req[h].op = "info" /\ req[h].pc \in {"read", "srem", "write"}
        /\ req[h].pc = "srem" => req[h].token # NoToken /\ req[h].seen.token # NoToken

\* Where the token of an account is while a request changes it.
Current(a) ==
    /\ \A h \in Handlers : req[h] # Idle /\ req[h].a = a /\ req[h].pc \in {"srem", "write"} =>
           /\ req[h].seen.token = row[a].token
           /\ req[h].pc = "srem" => ~Refused(req[h])
    /\ row[a].token = NoToken \/ Kept(row[a].token) \/ \E h \in Handlers : Writing(h, a)
    /\ \A h \in Handlers : Writing(h, a) => Kept(req[h].token)
CurrentInv == kind = "admin" => \A a \in Accounts \ (met \union astray) : Current(a)

\* If nothing has gone wrong, the set has no more than rows name or are about to;
\* and not what a row is about to lose.
Only ==
    /\ \A t \in Tokens : Kept(t) =>
           \/ \E a \in Accounts : row[a].token = t
           \/ \E h \in Handlers, a \in Accounts : Writing(h, a) /\ req[h].token = t
    /\ \A h \in Handlers, a \in Accounts :
           Writing(h, a) /\ row[a].token # NoToken /\ row[a].token # req[h].token =>
               ~Kept(row[a].token)
OnlyInv == kind = "admin" /\ met = {} /\ astray = {} => Only

TokenInv == kind = "admin" => ShareInv /\ InfoInv /\ CurrentInv /\ OnlyInv

LEMMA TokenInit == Init => TokenInv
<1> SUFFICES ASSUME Init PROVE TokenInv
  OBVIOUS
<1>1. \A h \in Handlers : req[h] = Idle /\ adding[h] = NoToken
  BY DEF Init
<1>2. ShareInv
  <2>1. \A a, b \in Accounts : a # b /\ row[a].token = row[b].token => row[a].token = NoToken
    BY DEF Init
  <2>2. \A a, t : Claimed(a, t) <=> row[a].token = t
    BY <1>1 DEF Claimed
  <2>3. \A t \in Tokens : t # NoToken
    BY AccountsAssumption
  <2> QED BY <1>1, <2>1, <2>2, <2>3 DEF ShareInv
<1>3. InfoInv
  BY <1>1 DEF InfoInv
<1>4. kind = "admin" => tokens = Registered
  BY DEF Init
<1>5. CurrentInv
  BY <1>1, <1>4 DEF CurrentInv, Current, Kept, Writing, At, Registered
<1>6. OnlyInv
  BY <1>1, <1>4, AccountsAssumption DEF OnlyInv, Only, Kept, Writing, At, Registered
<1> QED BY <1>2, <1>3, <1>5, <1>6 DEF TokenInv

LEMMA TokenEnough == TypeOK /\ TokenInv => TokensAreCurrent
<1> SUFFICES ASSUME TypeOK, TokenInv, kind = "admin", NothingSent
             PROVE  /\ \A a \in Settled \ (met \union astray) : row[a].token \in tokens \union {NoToken}
                    /\ Settled = Accounts /\ met \union astray = {} => tokens \subseteq Registered
  BY DEF TokensAreCurrent
<1>1. \A t \in Tokens : Kept(t) <=> t \in tokens
  BY AccountsAssumption DEF NothingSent, Kept
<1>2. \A a \in Accounts : row[a].token \in Tokens \union {NoToken}
  BY DEF TypeOK, Rows, Devices
<1>3. ASSUME NEW a \in Settled \ (met \union astray) PROVE row[a].token \in tokens \union {NoToken}
  <2>1. a \in Accounts /\ \A h \in Handlers : ~Writing(h, a)
    BY DEF Settled, Busy, Writing, At
  <2> QED BY <1>1, <1>2, <2>1 DEF TokenInv, CurrentInv, Current
<1>4. ASSUME Settled = Accounts, met = {}, astray = {}, NEW t \in tokens PROVE t \in Registered
  <2>1. \A h \in Handlers, a \in Accounts : ~Writing(h, a)
    BY <1>4 DEF Settled, Busy, Writing, At
  <2>2. t \in Tokens
    BY DEF TypeOK
  <2> QED BY <1>1, <1>4, <2>1, <2>2, AccountsAssumption DEF TokenInv, OnlyInv, Only, Registered
<1> QED BY <1>3, <1>4

\* A request is on with what it names.
Names(new, q) == new.a = q.a /\ new.op = q.op /\ new.token = q.token

\* The request, on at a stage with a row it has seen.
Seeing(q, r, stage) == [[q EXCEPT !.seen = r] EXCEPT !.pc = stage]

LEMMA Named ==
    ASSUME NEW q \in Open, NEW r \in Rows, NEW stage \in {"read", "srem", "write"}
    PROVE  /\ Names(Seeing(q, r, stage), q) /\ Seeing(q, r, stage) # Idle
           /\ Seeing(q, r, stage).pc = stage /\ Seeing(q, r, stage).seen = r
           /\ Refused(Seeing(q, r, stage)) =
                 (q.token # NoToken /\ q.password # 0 /\ q.old # r.password)
<1> DEFINE m == [q EXCEPT !.seen = r]
           new == [m EXCEPT !.pc = stage]
<1>1. /\ m.a = q.a /\ m.op = q.op /\ m.token = q.token /\ m.seen = r /\ m \in Open
      /\ m.password = q.password /\ m.old = q.old
  BY DEF Open, Requests, Idle
<1>2. Seeing(q, r, stage) = new
  BY DEF Seeing
<1> HIDE DEF m
<1>3. /\ new.a = m.a /\ new.op = m.op /\ new.token = m.token /\ new.seen = m.seen
      /\ new.password = m.password /\ new.old = m.old /\ new.pc = stage /\ new # Idle
  BY <1>1 DEF Open, Requests, Idle
<1> HIDE DEF new
<1> QED BY <1>1, <1>2, <1>3 DEF Names, Refused

\* What an administrator's request does at its read, at the removal of a token and
\* at the write of the row.
Sets(h, t) == adding' = IF t # NoToken THEN [adding EXCEPT ![h] = t] ELSE adding
Moved(h, new, stage, r) ==
    /\ req' = [req EXCEPT ![h] = new] /\ Names(new, req[h]) /\ new # Idle
    /\ new.pc = stage /\ new.seen = r

LEMMA InfoRead ==
    ASSUME TypeOK, InfoInv, kind = "admin", NEW h \in Handlers, NEW a, a = req[h].a, Read(h)
    PROVE  /\ req[h] # Idle /\ a \in Accounts /\ req[h].pc = "read"
           /\ UNCHANGED <<kind, row, tokens, met>> /\ astray \subseteq astray'
           /\ replica[a] # row[a] => a \in astray'
           /\ \/ /\ adding' = adding /\ req[h].token # NoToken /\ replica[a].token # NoToken
                 /\ \E new : /\ Moved(h, new, "srem", replica[a])
                             /\ Refused(new) => a \in astray'
              \/ /\ Sets(h, req[h].token) /\ (req[h].token # NoToken => adding[h] = NoToken)
                 /\ req[h].token = NoToken \/ replica[a].token = NoToken
                 /\ \/ /\ req' = [req EXCEPT ![h] = Idle]
                       /\ req[h].token # NoToken => a \in astray'
                    \/ \E new : Moved(h, new, "write", replica[a])
<1>1. req[h] # Idle /\ req[h] \in Open /\ a \in Accounts /\ req[h].pc = "read" /\ req[h].op = "info"
  BY AtIsOpen DEF Read, InfoInv
<1>2. replica[a] \in Rows
  BY <1>1 DEF TypeOK
<1> DEFINE q == [req[h] EXCEPT !.seen = replica[a]]
<1>3. ASSUME NEW stage \in {"read", "srem", "write"}
      PROVE  /\ Names([q EXCEPT !.pc = stage], req[h]) /\ [q EXCEPT !.pc = stage] # Idle
             /\ [q EXCEPT !.pc = stage].pc = stage /\ [q EXCEPT !.pc = stage].seen = replica[a]
             /\ Refused([q EXCEPT !.pc = stage]) =
                   (req[h].token # NoToken /\ req[h].password # 0
                                           /\ req[h].old # replica[a].password)
  <2>1. req[h] \in Open /\ replica[a] \in Rows
    BY <1>1, <1>2
  <2>2. [q EXCEPT !.pc = stage] = Seeing(req[h], replica[a], stage)
    BY DEF Seeing
  <2> DEFINE new == Seeing(req[h], replica[a], stage)
  <2>3. /\ Names(new, req[h]) /\ new # Idle /\ new.pc = stage /\ new.seen = replica[a]
        /\ Refused(new) = (req[h].token # NoToken /\ req[h].password # 0
                                                 /\ req[h].old # replica[a].password)
    BY <2>1, Named
  <2> HIDE DEF q, new
  <2>4. new = [q EXCEPT !.pc = stage]
    BY <2>2 DEF new
  <2> QED BY <2>3, <2>4, Zenon
<1>4. /\ q.a = req[h].a /\ q.op = req[h].op /\ q.token = req[h].token /\ q.seen = replica[a]
      /\ q.password = req[h].password /\ q.old = req[h].old
  BY <1>1, <1>2 DEF Open, Requests, Idle
<1>5. /\ UNCHANGED <<kind, row, tokens, met>>
      /\ astray' = astray \union
             (IF Refused(q) \/ (q.op # "reset" /\ replica[a] # row[a]) THEN {a} ELSE {})
      /\ IF q.token # NoToken /\ q.seen.token # NoToken
           THEN req' = [req EXCEPT ![h] = [q EXCEPT !.pc = "srem"]] /\ UNCHANGED adding
           ELSE Proceed(h, q)
  BY DEF Read
<1> HIDE DEF q
<1>6. Refused(q) = (req[h].token # NoToken /\ req[h].password # 0 /\ req[h].old # replica[a].password)
  BY <1>4 DEF Refused
<1>7. /\ astray \subseteq astray' /\ (replica[a] # row[a] => a \in astray')
      /\ Refused(q) => a \in astray'
  BY <1>1, <1>4, <1>5
<1>8. CASE q.token # NoToken /\ q.seen.token # NoToken
  <2>1. Moved(h, [q EXCEPT !.pc = "srem"], "srem", replica[a])
    BY <1>3, <1>5, <1>8 DEF Moved
  <2>2. Refused([q EXCEPT !.pc = "srem"]) => a \in astray'
    BY <1>3, <1>6, <1>7
  <2>3. \E new : Moved(h, new, "srem", replica[a]) /\ (Refused(new) => a \in astray')
    BY <2>1, <2>2
  <2> QED BY <1>1, <1>4, <1>5, <1>7, <1>8, <2>3
<1>9. CASE ~(q.token # NoToken /\ q.seen.token # NoToken)
  <2>1. Proceed(h, q)
    BY <1>5, <1>9
  <2>2. Sets(h, req[h].token) /\ (req[h].token # NoToken => adding[h] = NoToken)
    BY <1>4, <2>1 DEF Proceed, Sets
  <2>3. CASE q.password # 0 /\ q.op = "info" /\ q.old # q.seen.password
    <3>1. req' = [req EXCEPT ![h] = Idle] /\ (req[h].token # NoToken => a \in astray')
      BY <1>4, <1>6, <1>7, <2>1, <2>3 DEF Proceed, End
    <3> QED BY <1>1, <1>4, <1>5, <1>7, <1>9, <2>2, <3>1
  <2>4. CASE ~(q.password # 0 /\ q.op = "info" /\ q.old # q.seen.password)
    <3>1. req' = [req EXCEPT ![h] = [q EXCEPT !.pc = "write"]]
      BY <2>1, <2>4 DEF Proceed
    <3>2. Moved(h, [q EXCEPT !.pc = "write"], "write", replica[a])
      BY <1>3, <3>1 DEF Moved
    <3>3. \E new : Moved(h, new, "write", replica[a])
      BY <3>2
    <3> QED BY <1>1, <1>4, <1>5, <1>7, <1>9, <2>2, <3>3
  <2> QED BY <2>3, <2>4
<1> QED BY <1>8, <1>9

LEMMA InfoRemove ==
    ASSUME TypeOK, InfoInv, kind = "admin", NEW h \in Handlers, NEW a, a = req[h].a, RemoveToken(h)
    PROVE  /\ req[h] # Idle /\ a \in Accounts /\ req[h].pc = "srem"
           /\ req[h].token \in Tokens /\ req[h].seen.token \in Tokens
           /\ UNCHANGED <<kind, row, astray>> /\ met \subseteq met'
           /\ tokens' = tokens \ {req[h].seen.token} /\ adding[h] = NoToken
           /\ adding' = [adding EXCEPT ![h] = req[h].token]
           /\ \A b \in Accounts \ {a} : Claimed(b, req[h].seen.token) => b \in met'
           /\ (\E g \in Handlers : adding[g] = req[h].seen.token) => a \in met'
           /\ \/ req' = [req EXCEPT ![h] = Idle] /\ Refused(req[h])
              \/ \E new : Moved(h, new, "write", req[h].seen)
<1> DEFINE q == req[h]
<1>1. q # Idle /\ q \in Open /\ a \in Accounts /\ q.pc = "srem" /\ q.op = "info"
  BY AtIsOpen DEF RemoveToken, InfoInv
<1>2. q.token \in Tokens /\ q.seen.token \in Tokens /\ q.seen \in Rows
  BY <1>1 DEF InfoInv, Open, Requests, Rows, Devices
<1>3. q.token # NoToken /\ q.seen.token # NoToken
  BY <1>2, AccountsAssumption
<1>4. /\ UNCHANGED <<kind, row, astray>> /\ Proceed(h, q)
      /\ tokens' = tokens \ {q.seen.token} /\ adding[h] = NoToken
      /\ met' = met \union Sharers(a, q.seen.token)
                  \union (IF \E g \in Handlers : adding[g] = q.seen.token THEN {a} ELSE {})
  BY DEF RemoveToken
<1>5. \A b \in Accounts \ {a} : Claimed(b, q.seen.token) => b \in Sharers(a, q.seen.token)
  BY <1>3 DEF Claimed, Sharers
<1>6. adding' = [adding EXCEPT ![h] = q.token]
  BY <1>3, <1>4 DEF Proceed
<1>7. \/ req' = [req EXCEPT ![h] = Idle] /\ Refused(q)
      \/ \E new : Moved(h, new, "write", q.seen)
  <2>1. CASE q.password # 0 /\ q.op = "info" /\ q.old # q.seen.password
    BY <1>3, <1>4, <2>1 DEF Proceed, End, Refused
  <2>2. CASE ~(q.password # 0 /\ q.op = "info" /\ q.old # q.seen.password)
    <3>1. req' = [req EXCEPT ![h] = [q EXCEPT !.pc = "write"]]
      BY <1>4, <2>2 DEF Proceed
    <3>2. Names([q EXCEPT !.pc = "write"], q) /\ [q EXCEPT !.pc = "write"] # Idle
          /\ [q EXCEPT !.pc = "write"].pc = "write" /\ [q EXCEPT !.pc = "write"].seen = q.seen
      BY <1>1 DEF Names, Open, Requests, Idle
    <3> QED BY <3>1, <3>2 DEF Moved
  <2> QED BY <2>1, <2>2
<1> QED BY <1>1, <1>2, <1>4, <1>5, <1>6, <1>7

LEMMA InfoWrite ==
    ASSUME TypeOK, InfoInv, kind = "admin", NEW h \in Handlers, NEW a, a = req[h].a, Write(h)
    PROVE  /\ req[h] # Idle /\ a \in Accounts /\ req[h].pc = "write" /\ req[h].token \in Devices
           /\ UNCHANGED <<kind, tokens, adding, met, astray>>
           /\ req' = [req EXCEPT ![h] = Idle]
           /\ row'[a].token = IF req[h].token = NoToken THEN row[a].token ELSE req[h].token
           /\ \A b \in Accounts : b # a => row'[b] = row[b]
<1> DEFINE q == req[h]
<1>1. q # Idle /\ q \in Open /\ a \in Accounts /\ q.pc = "write" /\ q.op = "info"
  BY AtIsOpen DEF Write, InfoInv
<1>2. After(q) = "idle"
  BY <1>1 DEF After, IsApproval
<1>3. /\ UNCHANGED <<kind, tokens, adding, met, astray>> /\ req' = [req EXCEPT ![h] = Idle]
      /\ row' = [row EXCEPT ![a] = Changed(row[a], q)]
  BY <1>2 DEF Write, End
<1>4. row[a] \in Rows /\ q.token \in Devices
  BY <1>1 DEF TypeOK, Open, Requests
<1>5. Changed(row[a], q).token = IF q.token = NoToken THEN row[a].token ELSE q.token
  BY <1>4 DEF Changed, Rows
<1>6. row'[a] = Changed(row[a], q) /\ \A b \in Accounts : b # a => row'[b] = row[b]
  BY <1>1, <1>3 DEF TypeOK
<1> QED BY <1>1, <1>3, <1>4, <1>5, <1>6

LEMMA ShareKept ==
    ASSUME ShareInv, met \subseteq met',
           \A a \in Accounts, t \in Tokens : Claimed(a, t)' => Claimed(a, t),
           \A h \in Handlers : req'[h] # Idle => req[h] # Idle /\ req'[h].a = req[h].a
    PROVE  ShareInv'
<1> SUFFICES ASSUME NEW a \in Accounts \ met'
             PROVE  /\ \A b \in Accounts \ {a} : \A t \in Tokens :
                           ~(Claimed(a, t)' /\ Claimed(b, t)')
                    /\ \A g, h \in Handlers :
                           req'[g] # Idle /\ req'[h] # Idle /\ req'[g].a = a /\ req'[h].a = a => g = h
  BY DEF ShareInv
<1>1. a \in Accounts \ met
  OBVIOUS
<1> QED BY <1>1 DEF ShareInv

\* A request that goes on or ends leaves the rows as they are.
LEMMA ShareMoves ==
    ASSUME TypeOK, ShareInv, NEW h \in Handlers, NEW new, req[h] # Idle, row' = row, met \subseteq met',
           req' = [req EXCEPT ![h] = new], new = Idle \/ Names(new, req[h])
    PROVE  ShareInv'
<1>1. \A g \in Handlers : req'[g] = IF g = h THEN new ELSE req[g]
  BY DEF TypeOK
<1>2. \A g \in Handlers : req'[g] # Idle =>
          req[g] # Idle /\ req'[g].a = req[g].a /\ req'[g].token = req[g].token
  BY <1>1 DEF Names
<1>3. \A a \in Accounts, t \in Tokens : Claimed(a, t)' => Claimed(a, t)
  BY <1>2 DEF Claimed
<1> QED BY <1>2, <1>3, ShareKept

LEMMA ShareNext == TypeOK /\ TokenInv /\ kind = "admin" /\ Next => ShareInv'
<1> SUFFICES ASSUME TypeOK, ShareInv, InfoInv, kind = "admin", Next PROVE ShareInv'
  BY DEF TokenInv
<1>1. ASSUME NEW h \in Handlers, UpdateInfo(h) PROVE ShareInv'
  <2>0. PICK a \in Accounts, t \in Devices : \E p, old : Accept(h, "info", a, t, TRUE, p, old)
    BY <1>1 DEF UpdateInfo
  <2>1. PICK p, old : Accept(h, "info", a, t, TRUE, p, old)
    BY <2>0
  <2> DEFINE new == [pc |-> "read", op |-> "info", a |-> a, token |-> t, active |-> TRUE,
                     password |-> p, old |-> old, seen |-> row[a]]
  <2>2. req' = [req EXCEPT ![h] = new]
    BY <2>1 DEF Accept
  <2>3. new.a = a /\ new.token = t
    OBVIOUS
  <2> HIDE DEF new
  <2>4. /\ req[h] = Idle /\ row' = row
        /\ \A g \in Handlers : req'[g] = IF g = h THEN new ELSE req[g]
    BY <2>1, <2>2 DEF Accept, TypeOK
  <2>5. met \subseteq met' /\ (Busy(a) => a \in met') /\ Sharers(a, t) \subseteq met'
        /\ (Sharers(a, t) # {} => a \in met')
    BY <2>1 DEF Accept
  <2>6. \A b \in Accounts, x \in Tokens : Claimed(b, x)' => Claimed(b, x) \/ (b = a /\ x = t)
    BY <2>3, <2>4 DEF Claimed
  <2>7. \A b \in Accounts \ {a} : t # NoToken /\ Claimed(b, t) => b \in Sharers(a, t)
    BY DEF Claimed, Sharers
  <2>8. \A x \in Tokens : x # NoToken
    BY AccountsAssumption
  <2> SUFFICES ASSUME NEW b \in Accounts \ met'
               PROVE  /\ \A c \in Accounts \ {b} : \A x \in Tokens :
                             ~(Claimed(b, x)' /\ Claimed(c, x)')
                      /\ \A g, i \in Handlers :
                             req'[g] # Idle /\ req'[i] # Idle /\ req'[g].a = b /\ req'[i].a = b
                                 => g = i
    BY DEF ShareInv
  <2>9. b \in Accounts \ met
    BY <2>5
  <2>10. ASSUME NEW c \in Accounts \ {b}, NEW x \in Tokens, Claimed(b, x)', Claimed(c, x)'
         PROVE  FALSE
    <3>1. Claimed(b, x) /\ Claimed(c, x) => FALSE
      BY <2>9 DEF ShareInv
    <3>2. CASE b = a /\ x = t
      <4>1. Claimed(c, x)
        BY <2>6, <2>10, <3>2
      <4> QED BY <2>5, <2>7, <2>8, <3>2, <4>1
    <3>3. CASE c = a /\ x = t
      <4>1. Claimed(b, x)
        BY <2>6, <2>10, <3>3
      <4> QED BY <2>5, <2>7, <2>8, <3>3, <4>1
    <3> QED BY <2>6, <2>10, <3>1, <3>2, <3>3
  <2>11. ASSUME NEW g \in Handlers, NEW i \in Handlers, req'[g] # Idle, req'[i] # Idle,
                req'[g].a = b, req'[i].a = b
         PROVE  g = i
    <3>1. CASE g # h /\ i # h
      BY <2>4, <2>9, <2>11, <3>1 DEF ShareInv
    <3>2. CASE b = a
      <4>1. \A k \in Handlers : req[k] # Idle => req[k].a # a
        BY <2>5, <3>2 DEF Busy
      <4> QED BY <2>4, <2>11, <3>2, <4>1
    <3> QED BY <2>3, <2>4, <2>11, <3>1, <3>2
  <2> QED BY <2>10, <2>11
<1>2. ASSUME NEW h \in Handlers, ResetPassword(h) \/ SetStatus(h) PROVE ShareInv'
  BY <1>2 DEF ResetPassword, SetStatus
<1>3. ASSUME NEW h \in Handlers, Read(h) PROVE ShareInv'
  <2>1. PICK a : a = req[h].a
    OBVIOUS
  <2>2. req[h] # Idle /\ row' = row /\ met' = met
    BY <1>3, <2>1, InfoRead
  <2>3. \E new : req' = [req EXCEPT ![h] = new] /\ (new = Idle \/ Names(new, req[h]))
    BY <1>3, <2>1, InfoRead DEF Moved
  <2> QED BY <2>2, <2>3, ShareMoves
<1>4. ASSUME NEW h \in Handlers, RemoveToken(h) PROVE ShareInv'
  <2>1. PICK a : a = req[h].a
    OBVIOUS
  <2>2. req[h] # Idle /\ row' = row /\ met \subseteq met'
    BY <1>4, <2>1, InfoRemove
  <2>3. \E new : req' = [req EXCEPT ![h] = new] /\ (new = Idle \/ Names(new, req[h]))
    BY <1>4, <2>1, InfoRemove DEF Moved
  <2> QED BY <2>2, <2>3, ShareMoves
<1>5. ASSUME NEW h \in Handlers, Write(h) PROVE ShareInv'
  <2>1. PICK a : a = req[h].a
    OBVIOUS
  <2>2. /\ req[h] # Idle /\ a \in Accounts /\ met' = met /\ req' = [req EXCEPT ![h] = Idle]
        /\ row'[a].token = IF req[h].token = NoToken THEN row[a].token ELSE req[h].token
        /\ \A b \in Accounts : b # a => row'[b] = row[b]
    BY <1>5, <2>1, InfoWrite
  <2>3. \A g \in Handlers : req'[g] = IF g = h THEN Idle ELSE req[g]
    BY <2>2 DEF TypeOK
  <2>4. \A b \in Accounts, t \in Tokens : Claimed(b, t)' => Claimed(b, t)
    BY <2>1, <2>2, <2>3 DEF Claimed
  <2> QED BY <2>2, <2>3, <2>4, ShareKept
<1>6. ASSUME NEW h \in Handlers, SendText(h) \/ SendPush(h) PROVE ShareInv'
  BY <1>6, AtIsOpen DEF SendText, SendPush, InfoInv
<1>7. ASSUME NEW h \in Handlers, Fail(h) PROVE ShareInv'
  BY <1>7, ShareMoves DEF Fail, End
<1>8. ASSUME NEW h \in Handlers, AddFails(h) PROVE ShareInv'
  <2>1. row' = row /\ met' = met /\ \A g \in Handlers : req'[g] = IF g = h THEN Idle ELSE req[g]
    BY <1>8 DEF AddFails, End, TypeOK
  <2>2. \A b \in Accounts, t \in Tokens : Claimed(b, t)' => Claimed(b, t)
    BY <2>1 DEF Claimed
  <2> QED BY <2>1, <2>2, ShareKept
<1>9. ASSUME UNCHANGED <<row, req, met>> PROVE ShareInv'
  BY <1>9 DEF ShareInv, Claimed
<1>10. ASSUME NEW h \in Handlers, TokenAdded(h) PROVE ShareInv'
  BY <1>9, <1>10 DEF TokenAdded
<1>11. ASSUME NEW a \in Accounts, Sync(a) PROVE ShareInv'
  BY <1>9, <1>11 DEF Sync
<1> QED BY <1>1, <1>2, <1>3, <1>4, <1>5, <1>6, <1>7, <1>8, <1>10, <1>11 DEF Next, Serve

\* One handler changes its request.
LEMMA OneMoves ==
    ASSUME TypeOK, NEW h \in Handlers, NEW new, req' = [req EXCEPT ![h] = new]
    PROVE  req'[h] = new /\ \A g \in Handlers : g # h => req'[g] = req[g]
BY DEF TypeOK

LEMMA KindKept == [Next]_vars => kind' = kind
<1>1. ASSUME NEW h \in Handlers, UpdateInfo(h) PROVE kind' = kind
  BY <1>1 DEF UpdateInfo, Accept
<1>2. ASSUME NEW h \in Handlers, ResetPassword(h) \/ SetStatus(h) PROVE kind' = kind
  BY <1>2 DEF ResetPassword, SetStatus, Accept
<1>3. ASSUME NEW h \in Handlers, Read(h) PROVE kind' = kind
  BY <1>3 DEF Read
<1>4. ASSUME NEW h \in Handlers, RemoveToken(h) PROVE kind' = kind
  BY <1>4 DEF RemoveToken
<1>5. ASSUME NEW h \in Handlers, Write(h) PROVE kind' = kind
  BY <1>5 DEF Write
<1>6. ASSUME NEW h \in Handlers, SendText(h) \/ SendPush(h) PROVE kind' = kind
  BY <1>6 DEF SendText, SendPush
<1>7. ASSUME NEW h \in Handlers, TokenAdded(h) \/ Fail(h) \/ AddFails(h) PROVE kind' = kind
  BY <1>7 DEF TokenAdded, Fail, AddFails
<1>8. ASSUME NEW a \in Accounts, Sync(a) PROVE kind' = kind
  BY <1>8 DEF Sync
<1> QED BY <1>1, <1>2, <1>3, <1>4, <1>5, <1>6, <1>7, <1>8 DEF Next, Serve, vars

LEMMA InfoNext == TypeOK /\ InfoInv /\ [Next]_vars => InfoInv'
<1> SUFFICES ASSUME TypeOK, InfoInv, [Next]_vars, kind = "admin" PROVE InfoInv'
  BY KindKept DEF InfoInv
<1>0. ASSUME NEW h \in Handlers, NEW new, req' = [req EXCEPT ![h] = new],
             new = Idle \/ (/\ new.op = "info" /\ new.pc \in {"read", "srem", "write"}
                            /\ new.pc = "srem" => new.token # NoToken /\ new.seen.token # NoToken)
      PROVE  InfoInv'
  <2>1. req'[h] = new /\ \A g \in Handlers : g # h => req'[g] = req[g]
    BY <1>0, OneMoves
  <2> QED BY <1>0, <2>1 DEF InfoInv
<1>1. ASSUME NEW h \in Handlers, UpdateInfo(h) PROVE InfoInv'
  <2>1. PICK a, t, p, old : Accept(h, "info", a, t, TRUE, p, old)
    BY <1>1 DEF UpdateInfo
  <2> DEFINE new == [pc |-> "read", op |-> "info", a |-> a, token |-> t, active |-> TRUE,
                     password |-> p, old |-> old, seen |-> row[a]]
  <2>2. req' = [req EXCEPT ![h] = new] /\ new.op = "info" /\ new.pc = "read"
    BY <2>1 DEF Accept
  <2> HIDE DEF new
  <2> QED BY <1>0, <2>2
<1>2. ASSUME NEW h \in Handlers, ResetPassword(h) \/ SetStatus(h) PROVE InfoInv'
  BY <1>2 DEF ResetPassword, SetStatus
<1>3. ASSUME NEW h \in Handlers, Read(h) PROVE InfoInv'
  <2>1. PICK a : a = req[h].a
    OBVIOUS
  <2>2. req[h] # Idle
    BY <1>3, <2>1, InfoRead
  <2>3. \/ req' = [req EXCEPT ![h] = Idle]
        \/ \E new : Moved(h, new, "write", replica[a])
        \/ /\ req[h].token # NoToken /\ replica[a].token # NoToken
           /\ \E new : Moved(h, new, "srem", replica[a])
    BY <1>3, <2>1, InfoRead
  <2> QED BY <1>0, <2>2, <2>3 DEF Moved, Names, InfoInv
<1>4. ASSUME NEW h \in Handlers, RemoveToken(h) PROVE InfoInv'
  <2>1. PICK a : a = req[h].a
    OBVIOUS
  <2>2. /\ req[h] # Idle
        /\ req' = [req EXCEPT ![h] = Idle] \/ \E new : Moved(h, new, "write", req[h].seen)
    BY <1>4, <2>1, InfoRemove
  <2> QED BY <1>0, <2>2 DEF Moved, Names, InfoInv
<1>5. ASSUME NEW h \in Handlers, Write(h) PROVE InfoInv'
  <2>1. req' = [req EXCEPT ![h] = Idle]
    BY <1>5, InfoWrite
  <2> QED BY <1>0, <2>1
<1>6. ASSUME NEW h \in Handlers, End(h) PROVE InfoInv'
  BY <1>0, <1>6 DEF End
<1>7. ASSUME req' = req PROVE InfoInv'
  BY <1>7 DEF InfoInv
<1>8. ASSUME NEW h \in Handlers, SendText(h) \/ SendPush(h) \/ Fail(h) \/ AddFails(h) PROVE InfoInv'
  BY <1>6, <1>8 DEF SendText, SendPush, Fail, AddFails
<1>9. ASSUME NEW h \in Handlers, TokenAdded(h) PROVE InfoInv'
  BY <1>7, <1>9 DEF TokenAdded
<1>10. ASSUME NEW a \in Accounts, Sync(a) PROVE InfoInv'
  BY <1>7, <1>10 DEF Sync
<1>11. CASE UNCHANGED vars
  BY <1>7, <1>11 DEF vars
<1> QED BY <1>1, <1>2, <1>3, <1>4, <1>5, <1>8, <1>9, <1>10, <1>11 DEF Next, Serve

\* An account that the request is not about keeps what is known of it, as long as
\* its own tokens are left where they are.
LEMMA OtherCurrent ==
    ASSUME TypeOK, NEW b \in Accounts, Current(b), row'[b] = row[b],
           NEW h \in Handlers, NEW new, req' = [req EXCEPT ![h] = new],
           req[h] = Idle \/ req[h].a # b, new = Idle \/ new.a # b,
           \A t \in Tokens : Claimed(b, t) /\ Kept(t) => Kept(t)'
    PROVE  Current(b)'
<1>1. req'[h] = new /\ \A g \in Handlers : g # h => req'[g] = req[g]
  BY OneMoves
<1>2. \A g \in Handlers : (req'[g] # Idle /\ req'[g].a = b) => g # h /\ req'[g] = req[g]
  BY <1>1
<1>3. \A g \in Handlers : Writing(g, b)' <=> Writing(g, b)
  BY <1>1 DEF Writing, At
<1>4. \A g \in Handlers : Writing(g, b) => req'[g] = req[g] /\ req[g].token \in Tokens
  <2>1. ASSUME NEW g \in Handlers, Writing(g, b) PROVE req'[g] = req[g] /\ req[g].token \in Tokens
    <3>1. req[g] \in Open
      BY <2>1, OpenRequest DEF Writing, At
    <3>2. req[g].token \in Devices
      BY <3>1 DEF Open, Requests
    <3> QED BY <1>1, <2>1, <3>2 DEF Writing, At, Devices
  <2> QED BY <2>1
<1>5. row[b].token \in Tokens \union {NoToken}
  BY DEF TypeOK, Rows, Devices
<1>6. \A g \in Handlers : req'[g] # Idle /\ req'[g].a = b /\ req'[g].pc \in {"srem", "write"} =>
           /\ req'[g].seen.token = row'[b].token
           /\ req'[g].pc = "srem" => ~Refused(req'[g])
  BY <1>2 DEF Current
<1>7. row'[b].token = NoToken \/ Kept(row[b].token)' \/ \E g \in Handlers : Writing(g, b)'
  <2>1. Claimed(b, row[b].token)
    BY DEF Claimed
  <2>2. PICK t : t = row[b].token
    OBVIOUS
  <2>3. t \in Tokens /\ Kept(t) => Kept(t)'
    BY <2>1, <2>2
  <2>4. Kept(t)' => Kept(row[b].token)'
    BY <2>2 DEF Kept
  <2> QED BY <1>3, <1>5, <2>2, <2>3, <2>4 DEF Current
<1>8. ASSUME NEW g \in Handlers, Writing(g, b)' PROVE Kept(req[g].token)'
  <2>1. Writing(g, b) /\ req'[g] = req[g] /\ req[g].token \in Tokens
    BY <1>3, <1>4, <1>8
  <2>2. PICK t : t = req[g].token
    OBVIOUS
  <2>3. Claimed(b, t) /\ Kept(t)
    BY <2>1, <2>2 DEF Current, Claimed, Writing, At
  <2>4. Kept(t)'
    BY <2>1, <2>2, <2>3
  <2> QED BY <2>1, <2>2, <2>4 DEF Kept
<1> QED BY <1>6, <1>7, <1>8 DEF Current

\* What is known of the account that the request is about, once it has moved on.
LEMMA OwnCurrent ==
    ASSUME TypeOK, NEW a \in Accounts, NEW h \in Handlers, NEW new, req' = [req EXCEPT ![h] = new],
           \A g \in Handlers \ {h} : req[g] = Idle \/ req[g].a # a,
           NEW t, t = row'[a].token,
           new = Idle \/ new.pc # "write" \/ new.token = NoToken => t = NoToken \/ Kept(t)',
           new = Idle \/ new.pc # "write" \/ new.token = NoToken \/ Kept(new.token)',
           new = Idle \/ new.pc = "read" \/ new.seen.token = t,
           new = Idle \/ new.pc # "srem" \/ ~Refused(new),
           new = Idle \/ new.a = a
    PROVE  Current(a)'
<1>1. req'[h] = new /\ \A g \in Handlers : g # h => req'[g] = req[g]
  BY OneMoves
<1>2. ASSUME NEW g \in Handlers, req'[g] # Idle, req'[g].a = a PROVE g = h /\ req'[g] = new
  BY <1>1, <1>2
<1>3. ASSUME NEW g \in Handlers, Writing(g, a)'
      PROVE  new # Idle /\ new.pc = "write" /\ new.token # NoToken /\ req'[g] = new
  BY <1>2, <1>3 DEF Writing, At
<1>4. new # Idle /\ new.pc = "write" /\ new.token # NoToken => Writing(h, a)'
  BY <1>1 DEF Writing, At
<1>5. \A g \in Handlers : req'[g] # Idle /\ req'[g].a = a /\ req'[g].pc \in {"srem", "write"} =>
           /\ req'[g].seen.token = row'[a].token
           /\ req'[g].pc = "srem" => ~Refused(req'[g])
  BY <1>2
<1>6. row'[a].token = NoToken \/ Kept(row[a].token)' \/ \E g \in Handlers : Writing(g, a)'
  <2>1. Kept(t)' => Kept(row[a].token)'
    BY DEF Kept
  <2> QED BY <1>4, <2>1
<1>7. ASSUME NEW g \in Handlers, Writing(g, a)' PROVE Kept(req[g].token)'
  BY <1>3, <1>7 DEF Kept
<1> QED BY <1>5, <1>6, <1>7 DEF Current

\* Nothing is known of fewer tokens when nobody takes one away.
LEMMA SameCurrent ==
    ASSUME TypeOK, NEW a \in Accounts, Current(a), UNCHANGED <<row, req>>,
           \A t \in Tokens : Kept(t) => Kept(t)'
    PROVE  Current(a)'
<1>1. \A g \in Handlers : Writing(g, a)' <=> Writing(g, a)
  BY DEF Writing, At
<1>2. row[a].token \in Tokens \union {NoToken}
  BY DEF TypeOK, Rows, Devices
<1>3. \A g \in Handlers : Writing(g, a) => req[g].token \in Tokens
  <2>1. ASSUME NEW g \in Handlers, Writing(g, a) PROVE req[g].token \in Tokens
    <3>1. req[g] \in Open
      BY <2>1, OpenRequest DEF Writing, At
    <3> QED BY <2>1, <3>1 DEF Writing, At, Open, Requests, Devices
  <2> QED BY <2>1
<1>4. \A t : t \in Tokens /\ Kept(t) => Kept(t)'
  OBVIOUS
<1>5. row[a].token \in Tokens /\ Kept(row[a].token) => Kept(row[a].token)'
  <2>1. PICK t : t = row[a].token
    OBVIOUS
  <2>2. Kept(t) <=> Kept(row[a].token)
    BY <2>1
  <2>3. Kept(t)' <=> Kept(row[a].token)'
    BY <2>1 DEF Kept
  <2> QED BY <1>4, <2>1, <2>2, <2>3
<1>6. ASSUME NEW g \in Handlers, Writing(g, a)' PROVE Kept(req[g].token)'
  <2>1. PICK t : t = req[g].token
    OBVIOUS
  <2>2. t \in Tokens /\ Kept(t)
    BY <1>1, <1>3, <1>6, <2>1 DEF Current
  <2>3. Kept(t)' <=> Kept(req[g].token)'
    BY <2>1 DEF Kept
  <2> QED BY <2>2, <2>3
<1>7. row'[a].token = NoToken \/ Kept(row[a].token)' \/ \E g \in Handlers : Writing(g, a)'
  BY <1>1, <1>2, <1>5 DEF Current
<1>8. \A h \in Handlers : req'[h] # Idle /\ req'[h].a = a /\ req'[h].pc \in {"srem", "write"} =>
           /\ req'[h].seen.token = row'[a].token
           /\ req'[h].pc = "srem" => ~Refused(req'[h])
  BY DEF Current
<1> QED BY <1>6, <1>7, <1>8 DEF Current

\* Adds are kept until they arrive.
LEMMA AddsAreKept ==
    ASSUME TypeOK, NEW h \in Handlers, NEW t \in Devices, Sets(h, t),
           t # NoToken => adding[h] = NoToken, NEW x \in Tokens, Kept(x),
           x \in tokens => x \in tokens'
    PROVE  Kept(x)'
<1>1. x # NoToken
  BY AccountsAssumption
<1>2. \A g \in Handlers : adding[g] = x => adding'[g] = x
  BY <1>1 DEF Sets, TypeOK
<1> QED BY <1>2 DEF Kept

LEMMA CurrentNext ==
    TypeOK /\ ShareInv /\ InfoInv /\ CurrentInv /\ [Next]_vars => CurrentInv'
<1> SUFFICES ASSUME TypeOK, ShareInv, InfoInv, CurrentInv, [Next]_vars, kind = "admin",
                    NEW b \in Accounts \ (met' \union astray')
             PROVE  Current(b)'
  BY KindKept DEF CurrentInv
<1>0. b \notin met /\ b \notin astray => Current(b)
  BY DEF CurrentInv
<1>a. ASSUME b \notin met, NEW h \in Handlers, req[h] # Idle, req[h].a = b
      PROVE  \A g \in Handlers \ {h} : req[g] = Idle \/ req[g].a # b
  BY <1>a DEF ShareInv
<1>b. ASSUME Current(b), NEW h \in Handlers, req[h] # Idle, req[h].a = b, b \notin met, ~Writing(h, b)
      PROVE  row[b].token = NoToken \/ Kept(row[b].token)
  BY <1>a, <1>b DEF Current, Writing, At
<1>c. \A x \in Tokens : tokens' = tokens /\ adding' = adding /\ Kept(x) => Kept(x)'
  BY DEF Kept
<1>d. row[b].token \in Tokens \union {NoToken}
  BY DEF TypeOK, Rows, Devices
<1>1. ASSUME NEW h \in Handlers, UpdateInfo(h) PROVE Current(b)'
  <2>0. PICK a \in Accounts, t \in Devices : \E p, old : Accept(h, "info", a, t, TRUE, p, old)
    BY <1>1 DEF UpdateInfo
  <2>1. PICK p, old : Accept(h, "info", a, t, TRUE, p, old)
    BY <2>0
  <2> DEFINE new == [pc |-> "read", op |-> "info", a |-> a, token |-> t, active |-> TRUE,
                     password |-> p, old |-> old, seen |-> row[a]]
  <2>2. req' = [req EXCEPT ![h] = new] /\ new.a = a /\ new.pc = "read" /\ new.token = t
    BY <2>1 DEF Accept
  <2> HIDE DEF new
  <2>3. /\ req[h] = Idle /\ UNCHANGED <<row, tokens, adding, astray>>
        /\ met \subseteq met' /\ (Busy(a) => a \in met')
    BY <2>1 DEF Accept
  <2>4. Current(b)
    BY <1>0, <2>3
  <2>5. CASE b # a
    BY <1>c, <2>2, <2>3, <2>4, <2>5, OtherCurrent
  <2>6. CASE b = a
    <3>1. \A g \in Handlers : req[g] = Idle \/ req[g].a # b
      BY <2>3, <2>6 DEF Busy
    <3>2. row[b].token = NoToken \/ Kept(row[b].token)
      BY <2>4, <3>1 DEF Current, Writing, At
    <3>3. PICK x : x = row[b].token
      OBVIOUS
    <3>4. x = NoToken \/ Kept(x)'
      BY <1>c, <1>d, <2>3, <3>2, <3>3
    <3>5. x = row'[b].token
      BY <2>3, <3>3
    <3> QED BY <2>2, <2>6, <3>1, <3>4, <3>5, OwnCurrent
  <2> QED BY <2>5, <2>6
<1>2. ASSUME NEW h \in Handlers, ResetPassword(h) \/ SetStatus(h) PROVE Current(b)'
  BY <1>2 DEF ResetPassword, SetStatus
<1>3. ASSUME NEW h \in Handlers, Read(h) PROVE Current(b)'
  <2>1. PICK a : a = req[h].a
    OBVIOUS
  <2>2. /\ req[h] # Idle /\ a \in Accounts /\ req[h].pc = "read"
        /\ UNCHANGED <<kind, row, tokens, met>> /\ astray \subseteq astray'
        /\ replica[a] # row[a] => a \in astray'
    BY <1>3, <2>1, InfoRead
  <2>3. \/ /\ adding' = adding /\ req[h].token # NoToken /\ replica[a].token # NoToken
           /\ \E new : Moved(h, new, "srem", replica[a]) /\ (Refused(new) => a \in astray')
        \/ /\ Sets(h, req[h].token) /\ (req[h].token # NoToken => adding[h] = NoToken)
           /\ req[h].token = NoToken \/ replica[a].token = NoToken
           /\ \/ /\ req' = [req EXCEPT ![h] = Idle]
                 /\ req[h].token # NoToken => a \in astray'
              \/ \E new : Moved(h, new, "write", replica[a])
    BY <1>3, <2>1, InfoRead
  <2>4. req[h].token \in Devices
    BY <2>2, OpenRequest DEF Open, Requests
  <2>5. Current(b)
    BY <1>0, <2>2
  <2>6. \A x \in Tokens : Kept(x) => Kept(x)'
    <3>1. CASE adding' = adding
      BY <1>c, <2>2, <3>1
    <3>2. CASE Sets(h, req[h].token) /\ (req[h].token # NoToken => adding[h] = NoToken)
      BY <2>2, <2>4, <3>2, AddsAreKept
    <3> QED BY <2>3, <3>1, <3>2
  <2>7. CASE b # a
    <3>1. \E new : req' = [req EXCEPT ![h] = new] /\ (new = Idle \/ new.a = a)
      BY <2>1, <2>3 DEF Moved, Names
    <3> QED BY <2>1, <2>2, <2>5, <2>6, <2>7, <3>1, OtherCurrent
  <2>8. CASE b = a
    <3>1. \A g \in Handlers \ {h} : req[g] = Idle \/ req[g].a # b
      BY <1>a, <2>1, <2>2, <2>8
    <3>2. PICK x : x = row[b].token
      OBVIOUS
    <3>3. row[b].token = NoToken \/ Kept(row[b].token)
      BY <1>b, <2>1, <2>2, <2>5, <2>8 DEF Writing, At
    <3>4. (x = NoToken \/ Kept(x)') /\ x = row'[b].token
      BY <1>d, <2>2, <2>6, <3>2, <3>3
    <3>5. replica[a] = row[b]
      BY <2>2, <2>8
    <3>6. CASE \E new : Moved(h, new, "srem", replica[a]) /\ (Refused(new) => a \in astray')
      <4>1. PICK new : Moved(h, new, "srem", replica[a]) /\ (Refused(new) => a \in astray')
        BY <3>6
      <4>2. /\ req' = [req EXCEPT ![h] = new] /\ new.pc = "srem" /\ new.seen.token = x
            /\ ~Refused(new) /\ new.a = b
        BY <2>1, <2>8, <3>2, <3>5, <4>1 DEF Moved, Names
      <4> QED BY <3>1, <3>4, <4>2, OwnCurrent
    <3>7. CASE req' = [req EXCEPT ![h] = Idle]
      BY <3>1, <3>4, <3>7, OwnCurrent
    <3>8. CASE /\ \E new : Moved(h, new, "write", replica[a])
               /\ Sets(h, req[h].token)
      <4>1. PICK new : Moved(h, new, "write", replica[a])
        BY <3>8
      <4>2. /\ req' = [req EXCEPT ![h] = new] /\ new.pc = "write" /\ new.seen.token = x
            /\ new.token = req[h].token /\ new.a = b
        BY <2>1, <2>8, <3>2, <3>5, <4>1 DEF Moved, Names
      <4>3. PICK y : y = new.token
        OBVIOUS
      <4>4. y = NoToken \/ Kept(y)'
        BY <3>8, <4>2, <4>3 DEF Sets, Kept, TypeOK
      <4>5. new.token = NoToken \/ Kept(new.token)'
        BY <4>3, <4>4
      <4> QED BY <3>1, <3>4, <4>2, <4>5, OwnCurrent
    <3> QED BY <2>3, <3>6, <3>7, <3>8
  <2> QED BY <2>7, <2>8
<1>4. ASSUME NEW h \in Handlers, RemoveToken(h) PROVE Current(b)'
  <2>1. PICK a : a = req[h].a
    OBVIOUS
  <2>2. /\ req[h] # Idle /\ a \in Accounts /\ req[h].pc = "srem"
        /\ req[h].token \in Tokens /\ req[h].seen.token \in Tokens
        /\ UNCHANGED <<kind, row, astray>> /\ met \subseteq met'
        /\ tokens' = tokens \ {req[h].seen.token} /\ adding[h] = NoToken
        /\ adding' = [adding EXCEPT ![h] = req[h].token]
        /\ \A c \in Accounts \ {a} : Claimed(c, req[h].seen.token) => c \in met'
        /\ \/ req' = [req EXCEPT ![h] = Idle] /\ Refused(req[h])
           \/ \E new : Moved(h, new, "write", req[h].seen)
    BY <1>4, <2>1, InfoRemove
  <2>3. Current(b)
    BY <1>0, <2>2
  <2>4. CASE b # a
    <3>1. \E new : req' = [req EXCEPT ![h] = new] /\ (new = Idle \/ new.a = a)
      BY <2>1, <2>2 DEF Moved, Names
    <3>2. ASSUME NEW x \in Tokens, Claimed(b, x), Kept(x) PROVE Kept(x)'
      <4>1. x # req[h].seen.token
        BY <2>2, <2>4, <3>2
      <4>2. Sets(h, req[h].token) /\ req[h].token \in Devices
        BY <2>2, AccountsAssumption DEF Sets, Devices
      <4> QED BY <2>2, <3>2, <4>1, <4>2, AddsAreKept
    <3> QED BY <2>1, <2>2, <2>3, <2>4, <3>1, <3>2, OtherCurrent
  <2>5. CASE b = a
    <3>1. \A g \in Handlers \ {h} : req[g] = Idle \/ req[g].a # b
      BY <1>a, <2>1, <2>2, <2>5
    <3>2. req[h].seen.token = row[b].token /\ ~Refused(req[h])
      BY <2>1, <2>2, <2>3, <2>5 DEF Current
    <3>3. PICK new : Moved(h, new, "write", req[h].seen)
      BY <2>2, <3>2
    <3>4. PICK x : x = row'[b].token
      OBVIOUS
    <3>5. /\ req' = [req EXCEPT ![h] = new] /\ new.pc = "write" /\ new.seen.token = x
          /\ new.token = req[h].token /\ new.a = b /\ new # Idle
      BY <2>1, <2>2, <2>5, <3>2, <3>3, <3>4 DEF Moved, Names
    <3>6. PICK y : y = new.token
      OBVIOUS
    <3>7. Kept(y)'
      BY <2>2, <3>5, <3>6 DEF Kept, TypeOK
    <3>8. Kept(new.token)'
      BY <3>6, <3>7
    <3>9. new.token # NoToken
      BY <2>2, <3>5, AccountsAssumption
    <3> QED BY <3>1, <3>4, <3>5, <3>8, <3>9, OwnCurrent
  <2> QED BY <2>4, <2>5
<1>5. ASSUME NEW h \in Handlers, Write(h) PROVE Current(b)'
  <2>1. PICK a : a = req[h].a
    OBVIOUS
  <2>2. /\ req[h] # Idle /\ a \in Accounts /\ req[h].pc = "write" /\ req[h].token \in Devices
        /\ UNCHANGED <<kind, tokens, adding, met, astray>>
        /\ req' = [req EXCEPT ![h] = Idle]
        /\ row'[a].token = IF req[h].token = NoToken THEN row[a].token ELSE req[h].token
        /\ \A c \in Accounts : c # a => row'[c] = row[c]
    BY <1>5, <2>1, InfoWrite
  <2>3. Current(b)
    BY <1>0, <2>2
  <2>4. CASE b # a
    BY <1>c, <2>1, <2>2, <2>3, <2>4, OtherCurrent
  <2>5. CASE b = a
    <3>1. \A g \in Handlers \ {h} : req[g] = Idle \/ req[g].a # b
      BY <1>a, <2>1, <2>2, <2>5
    <3>2. PICK x : x = row'[b].token
      OBVIOUS
    <3>3. x = NoToken \/ Kept(x)
      <4>1. CASE req[h].token = NoToken
        <5>1. ~Writing(h, b)
          BY <4>1 DEF Writing
        <5> QED BY <1>b, <2>1, <2>2, <2>3, <2>5, <3>2, <4>1, <5>1
      <4>2. CASE req[h].token # NoToken
        <5>1. Writing(h, b)
          BY <2>1, <2>2, <2>5, <4>2 DEF Writing, At
        <5> QED BY <2>2, <2>3, <2>5, <3>2, <4>2, <5>1 DEF Current
      <4> QED BY <4>1, <4>2
    <3>4. x = NoToken \/ Kept(x)'
      BY <2>2, <3>3 DEF Kept
    <3> QED BY <2>2, <3>1, <3>2, <3>4, OwnCurrent
  <2> QED BY <2>4, <2>5
<1>6. ASSUME NEW h \in Handlers, SendText(h) \/ SendPush(h) PROVE Current(b)'
  BY <1>6, AtIsOpen DEF SendText, SendPush, InfoInv
<1>7. ASSUME NEW h \in Handlers, Fail(h) PROVE Current(b)'
  <2>1. PICK a : a = req[h].a
    OBVIOUS
  <2>2. /\ req[h] # Idle /\ a \in Accounts /\ UNCHANGED <<row, tokens, adding, met>>
        /\ req' = [req EXCEPT ![h] = Idle] /\ astray \subseteq astray'
        /\ Halfway(req[h]) => a \in astray'
    BY <1>7, <2>1, OpenRequest DEF Fail, End
  <2>3. Current(b)
    BY <1>0, <2>2
  <2>4. CASE b # a
    BY <1>c, <2>1, <2>2, <2>3, <2>4, OtherCurrent
  <2>5. CASE b = a
    <3>1. \A g \in Handlers \ {h} : req[g] = Idle \/ req[g].a # b
      BY <1>a, <2>1, <2>2, <2>5
    <3>2. ~Writing(h, b)
      BY <2>1, <2>2, <2>5 DEF Writing, At, Halfway
    <3>3. PICK x : x = row[b].token
      OBVIOUS
    <3>4. row[b].token = NoToken \/ Kept(row[b].token)
      BY <1>b, <2>1, <2>2, <2>3, <2>5, <3>2
    <3>5. (x = NoToken \/ Kept(x)') /\ x = row'[b].token
      BY <1>c, <1>d, <2>2, <3>3, <3>4
    <3> QED BY <2>2, <3>1, <3>5, OwnCurrent
  <2> QED BY <2>4, <2>5
<1>8. ASSUME NEW h \in Handlers, AddFails(h) PROVE Current(b)'
  BY <1>8 DEF AddFails
<1>9. ASSUME NEW h \in Handlers, TokenAdded(h) PROVE Current(b)'
  <2>1. /\ UNCHANGED <<row, req, met, astray>> /\ tokens' = tokens \union {adding[h]}
        /\ adding' = [adding EXCEPT ![h] = NoToken]
    BY <1>9 DEF TokenAdded
  <2>2. \A x \in Tokens : Kept(x) => Kept(x)'
    BY <2>1 DEF Kept, TypeOK
  <2> QED BY <1>0, <2>1, <2>2, SameCurrent
<1>10. ASSUME UNCHANGED <<row, req, met, astray, tokens, adding>> PROVE Current(b)'
  BY <1>0, <1>c, <1>10, SameCurrent
<1>11. ASSUME NEW a \in Accounts, Sync(a) PROVE Current(b)'
  BY <1>10, <1>11 DEF Sync
<1>12. CASE UNCHANGED vars
  BY <1>10, <1>12 DEF vars
<1> QED BY <1>1, <1>2, <1>3, <1>4, <1>5, <1>6, <1>7, <1>8, <1>9, <1>11, <1>12 DEF Next, Serve

\* Nothing more is kept, and the same is written.
LEMMA OnlySame ==
    ASSUME TypeOK, Only, \A b \in Accounts : row'[b].token = row[b].token,
           \A t \in Tokens : Kept(t)' => Kept(t),
           \A g \in Handlers, b \in Accounts : Writing(g, b)' <=> Writing(g, b),
           \A g \in Handlers, b \in Accounts : Writing(g, b) => req'[g].token = req[g].token
    PROVE  Only'
<1>1. ASSUME NEW t \in Tokens, Kept(t)'
      PROVE  \/ \E a \in Accounts : row'[a].token = t
             \/ \E h \in Handlers, a \in Accounts : Writing(h, a)' /\ req'[h].token = t
  BY <1>1 DEF Only
<1>2. ASSUME NEW h \in Handlers, NEW a \in Accounts, Writing(h, a)', row'[a].token # NoToken,
             row'[a].token # req'[h].token, Kept(row[a].token)'
      PROVE  FALSE
  <2>1. PICK t : t = row[a].token
    OBVIOUS
  <2>2. t \in Tokens
    BY <1>2, <2>1 DEF TypeOK, Rows, Devices
  <2>3. Kept(t)'
    BY <1>2, <2>1 DEF Kept
  <2>4. Kept(row[a].token)
    BY <2>1, <2>2, <2>3
  <2> QED BY <1>2, <2>4 DEF Only
<1> QED BY <1>1, <1>2 DEF Only

\* A request comes to its write with a token y, which was not kept for anybody
\* else: and nothing else is kept that was not.
LEMMA OnlyAdds ==
    ASSUME TypeOK, ShareInv, met = {}, Only, NEW h \in Handlers, NEW a \in Accounts, NEW new,
           req[h] # Idle, req[h].a = a, req[h].pc # "write",
           req' = [req EXCEPT ![h] = new], new # Idle, new.pc = "write", new.a = a,
           new.token = req[h].token, row' = row,
           NEW y \in Tokens, y = req[h].token,
           \A t \in Tokens : Kept(t)' => Kept(t) \/ t = y,
           row[a].token \in Tokens \ {y} => ~Kept(row[a].token)'
    PROVE  Only'
<1>1. req'[h] = new /\ \A g \in Handlers : g # h => req'[g] = req[g]
  BY OneMoves
<1>2. y # NoToken /\ Writing(h, a)' /\ req'[h].token = y
  BY <1>1, AccountsAssumption DEF Writing, At
<1>3. \A g \in Handlers, b \in Accounts :
          Writing(g, b) => g # h /\ Writing(g, b)' /\ req'[g].token = req[g].token
  BY <1>1 DEF Writing, At
<1>4. \A g \in Handlers, b \in Accounts : g # h /\ Writing(g, b)' =>
          Writing(g, b) /\ b # a /\ req'[g].token = req[g].token
  BY <1>1 DEF Writing, At, ShareInv
<1>5. Claimed(a, y)
  BY DEF Claimed
<1>6. ASSUME NEW t \in Tokens, Kept(t)'
      PROVE  \/ \E b \in Accounts : row'[b].token = t
             \/ \E g \in Handlers, b \in Accounts : Writing(g, b)' /\ req'[g].token = t
  <2>1. CASE t = y
    BY <1>2, <2>1
  <2>2. CASE t # y
    <3>1. Kept(t)
      BY <1>6, <2>2
    <3> QED BY <1>3, <3>1 DEF Only
  <2> QED BY <2>1, <2>2
<1>7. ASSUME NEW g \in Handlers, NEW b \in Accounts, Writing(g, b)', row'[b].token # NoToken,
             row'[b].token # req'[g].token, Kept(row[b].token)'
      PROVE  FALSE
  <2>1. PICK t : t = row[b].token
    OBVIOUS
  <2>2. t \in Tokens /\ Kept(t)'
    BY <1>7, <2>1 DEF TypeOK, Rows, Devices, Kept
  <2>3. CASE g = h
    <3>1. b = a
      BY <1>1, <1>7, <2>3 DEF Writing, At
    <3>2. row[a].token \in Tokens \ {y}
      BY <1>2, <1>7, <2>1, <2>2, <2>3, <3>1
    <3> QED BY <1>7, <3>1, <3>2
  <2>4. CASE g # h
    <3>1. Writing(g, b) /\ b # a /\ req'[g].token = req[g].token
      BY <1>4, <1>7, <2>4
    <3>2. ~Kept(row[b].token)
      BY <1>7, <3>1 DEF Only
    <3>3. t = y
      BY <2>1, <2>2, <3>2
    <3>4. Claimed(b, y)
      BY <2>1, <3>3 DEF Claimed
    <3> QED BY <1>5, <3>1, <3>4 DEF ShareInv
  <2> QED BY <2>3, <2>4
<1> QED BY <1>6, <1>7 DEF Only

LEMMA OnlyNext ==
    TypeOK /\ ShareInv /\ InfoInv /\ CurrentInv /\ OnlyInv /\ [Next]_vars => OnlyInv'
<1> SUFFICES ASSUME TypeOK, ShareInv, InfoInv, CurrentInv, OnlyInv, [Next]_vars, kind = "admin",
                    met' = {}, astray' = {}
             PROVE  Only'
  BY KindKept DEF OnlyInv
<1>a. met = {} /\ astray = {} => Only /\ \A a \in Accounts : Current(a)
  BY DEF OnlyInv, CurrentInv
<1>b. \A t \in Tokens : t # NoToken
  BY AccountsAssumption
<1>c. \A t : (tokens' = tokens /\ adding' = adding) => (Kept(t)' <=> Kept(t))
  BY DEF Kept
<1>d. ASSUME NEW h \in Handlers, NEW new, req' = [req EXCEPT ![h] = new],
             row' = row, met = {}, astray = {}, \A t \in Tokens : Kept(t)' => Kept(t),
             req[h] = Idle \/ req[h].pc # "write" \/ req[h].token = NoToken,
             new = Idle \/ new.pc # "write" \/ new.token = NoToken
      PROVE  Only'
  <2>1. req'[h] = new /\ \A g \in Handlers : g # h => req'[g] = req[g]
    BY <1>d, OneMoves
  <2>2. \A g \in Handlers, b \in Accounts : Writing(g, b) \/ Writing(g, b)' => g # h
    BY <1>d, <2>1 DEF Writing, At
  <2>3. \A g \in Handlers, b \in Accounts : Writing(g, b)' <=> Writing(g, b)
    BY <2>1, <2>2 DEF Writing, At
  <2>4. \A g \in Handlers, b \in Accounts : Writing(g, b) => req'[g].token = req[g].token
    BY <2>1, <2>2
  <2>5. \A b \in Accounts : row'[b].token = row[b].token
    BY <1>d
  <2> QED BY <1>a, <1>d, <2>3, <2>4, <2>5, OnlySame
<1>1. ASSUME NEW h \in Handlers, UpdateInfo(h) PROVE Only'
  <2>0. PICK a \in Accounts, t \in Devices : \E p, old : Accept(h, "info", a, t, TRUE, p, old)
    BY <1>1 DEF UpdateInfo
  <2>1. PICK p, old : Accept(h, "info", a, t, TRUE, p, old)
    BY <2>0
  <2> DEFINE new == [pc |-> "read", op |-> "info", a |-> a, token |-> t, active |-> TRUE,
                     password |-> p, old |-> old, seen |-> row[a]]
  <2>2. req' = [req EXCEPT ![h] = new] /\ new.pc = "read"
    BY <2>1 DEF Accept
  <2> HIDE DEF new
  <2>3. req[h] = Idle /\ UNCHANGED <<row, tokens, adding>> /\ astray = {} /\ met = {}
    BY <2>1 DEF Accept
  <2> QED BY <1>c, <1>d, <2>2, <2>3
<1>2. ASSUME NEW h \in Handlers, ResetPassword(h) \/ SetStatus(h) PROVE Only'
  BY <1>2 DEF ResetPassword, SetStatus
<1>3. ASSUME NEW h \in Handlers, Read(h) PROVE Only'
  <2>1. PICK a : a = req[h].a
    OBVIOUS
  <2>2. /\ req[h] # Idle /\ a \in Accounts /\ req[h].pc = "read"
        /\ UNCHANGED <<kind, row, tokens, met>> /\ astray \subseteq astray'
        /\ replica[a] # row[a] => a \in astray'
    BY <1>3, <2>1, InfoRead
  <2>3. \/ /\ adding' = adding
           /\ \E new : Moved(h, new, "srem", replica[a])
        \/ /\ Sets(h, req[h].token) /\ (req[h].token # NoToken => adding[h] = NoToken)
           /\ req[h].token = NoToken \/ replica[a].token = NoToken
           /\ \/ /\ req' = [req EXCEPT ![h] = Idle]
                 /\ req[h].token # NoToken => a \in astray'
              \/ \E new : Moved(h, new, "write", replica[a])
    BY <1>3, <2>1, InfoRead
  <2>4. met = {} /\ astray = {} /\ replica[a] = row[a]
    BY <2>2
  <2>5. CASE adding' = adding /\ \E new : Moved(h, new, "srem", replica[a])
    <3>1. PICK new : Moved(h, new, "srem", replica[a])
      BY <2>5
    <3>2. req' = [req EXCEPT ![h] = new] /\ new.pc = "srem"
      BY <3>1 DEF Moved
    <3> QED BY <1>c, <1>d, <2>2, <2>4, <2>5, <3>2
  <2>6. CASE Sets(h, req[h].token) /\ req' = [req EXCEPT ![h] = Idle] /\ req[h].token = NoToken
    BY <1>c, <1>d, <2>2, <2>4, <2>6 DEF Sets
  <2>7. CASE Sets(h, req[h].token) /\ req[h].token = NoToken /\ \E new : Moved(h, new, "write", replica[a])
    <3>1. PICK new : Moved(h, new, "write", replica[a])
      BY <2>7
    <3>2. req' = [req EXCEPT ![h] = new] /\ new.token = NoToken /\ adding' = adding
      BY <2>7, <3>1 DEF Moved, Names, Sets
    <3> QED BY <1>c, <1>d, <2>2, <2>4, <3>2
  <2>8. CASE /\ Sets(h, req[h].token) /\ req[h].token # NoToken /\ adding[h] = NoToken
             /\ replica[a].token = NoToken
             /\ \E new : Moved(h, new, "write", replica[a])
    <3>1. PICK new : Moved(h, new, "write", replica[a])
      BY <2>8
    <3>2. /\ req' = [req EXCEPT ![h] = new] /\ new # Idle /\ new.pc = "write" /\ new.a = a
          /\ new.token = req[h].token
      BY <2>1, <3>1 DEF Moved, Names
    <3>3. PICK y : y = req[h].token
      OBVIOUS
    <3>4. y \in Tokens
      BY <2>2, <2>8, <3>3, OpenRequest DEF Open, Requests, Devices
    <3>5. adding' = [adding EXCEPT ![h] = y]
      BY <2>8, <3>3 DEF Sets
    <3>6. \A t \in Tokens : Kept(t)' => Kept(t) \/ t = y
      BY <2>2, <3>5 DEF Kept, TypeOK
    <3>7. row[a].token \notin Tokens
      BY <1>b, <2>4, <2>8
    <3>8. Only
      BY <1>a, <2>4
    <3> QED BY <2>1, <2>2, <2>4, <3>2, <3>3, <3>4, <3>6, <3>7, <3>8, OnlyAdds
  <2> QED BY <2>2, <2>3, <2>5, <2>6, <2>7, <2>8
<1>4. ASSUME NEW h \in Handlers, RemoveToken(h) PROVE Only'
  <2>1. PICK a : a = req[h].a
    OBVIOUS
  <2>2. /\ req[h] # Idle /\ a \in Accounts /\ req[h].pc = "srem"
        /\ req[h].token \in Tokens /\ req[h].seen.token \in Tokens
        /\ UNCHANGED <<kind, row, astray>> /\ met \subseteq met'
        /\ tokens' = tokens \ {req[h].seen.token} /\ adding[h] = NoToken
        /\ adding' = [adding EXCEPT ![h] = req[h].token]
        /\ (\E g \in Handlers : adding[g] = req[h].seen.token) => a \in met'
        /\ \/ req' = [req EXCEPT ![h] = Idle] /\ Refused(req[h])
           \/ \E new : Moved(h, new, "write", req[h].seen)
    BY <1>4, <2>1, InfoRemove
  <2>3. met = {} /\ astray = {}
    BY <2>2
  <2>4. Only /\ Current(a)
    BY <1>a, <2>2, <2>3
  <2>5. req[h].seen.token = row[a].token /\ ~Refused(req[h])
    BY <2>1, <2>2, <2>4 DEF Current
  <2>6. PICK new : Moved(h, new, "write", req[h].seen)
    BY <2>2, <2>5
  <2>7. /\ req' = [req EXCEPT ![h] = new] /\ new # Idle /\ new.pc = "write" /\ new.a = a
        /\ new.token = req[h].token
    BY <2>1, <2>6 DEF Moved, Names
  <2>8. PICK y : y = req[h].token
    OBVIOUS
  <2>9. \A g \in Handlers : adding'[g] = IF g = h THEN y ELSE adding[g]
    BY <2>2, <2>8 DEF TypeOK
  <2>10. \A t \in Tokens : Kept(t)' => Kept(t) \/ t = y
    BY <2>2, <2>9 DEF Kept
  <2>11. row[a].token \in Tokens \ {y} => ~Kept(row[a].token)'
    <3>1. PICK x : x = row[a].token
      OBVIOUS
    <3>2. x # y => ~Kept(x)'
      BY <2>2, <2>5, <2>9, <3>1 DEF Kept
    <3>3. Kept(x)' <=> Kept(row[a].token)'
      BY <2>2, <3>1 DEF Kept
    <3> QED BY <3>1, <3>2, <3>3
  <2> QED BY <2>1, <2>2, <2>3, <2>4, <2>7, <2>8, <2>10, <2>11, OnlyAdds
<1>5. ASSUME NEW h \in Handlers, Write(h) PROVE Only'
  <2>1. PICK a : a = req[h].a
    OBVIOUS
  <2>2. /\ req[h] # Idle /\ a \in Accounts /\ req[h].pc = "write" /\ req[h].token \in Devices
        /\ UNCHANGED <<kind, tokens, adding, met, astray>>
        /\ req' = [req EXCEPT ![h] = Idle]
        /\ row'[a].token = IF req[h].token = NoToken THEN row[a].token ELSE req[h].token
        /\ \A c \in Accounts : c # a => row'[c] = row[c]
    BY <1>5, <2>1, InfoWrite
  <2>3. met = {} /\ astray = {} /\ Only
    BY <1>a, <2>2
  <2>4. \A g \in Handlers : req'[g] = IF g = h THEN Idle ELSE req[g]
    BY <2>2 DEF TypeOK
  <2>5. \A g \in Handlers, b \in Accounts :
            Writing(g, b)' <=> g # h /\ Writing(g, b)
    BY <2>4 DEF Writing, At
  <2>6. \A g \in Handlers, b \in Accounts : Writing(g, b)' => req'[g].token = req[g].token
    BY <2>4, <2>5
  <2>7. CASE req[h].token = NoToken
    <3>1. \A b \in Accounts : row'[b].token = row[b].token
      BY <2>2, <2>7
    <3>2. \A g \in Handlers, b \in Accounts : Writing(g, b) => g # h
      BY <2>7 DEF Writing
    <3>3. \A g \in Handlers, b \in Accounts : Writing(g, b)' <=> Writing(g, b)
      BY <2>5, <3>2
    <3> QED BY <1>c, <2>2, <2>3, <2>6, <3>1, <3>3, OnlySame
  <2>8. CASE req[h].token # NoToken
    <3>1. Writing(h, a)
      BY <2>1, <2>2, <2>8 DEF Writing, At
    <3>2. \A g \in Handlers, b \in Accounts : g # h /\ Writing(g, b) => b # a
      BY <2>1, <2>2, <2>3 DEF Writing, At, ShareInv
    <3>3. \A b \in Accounts : Writing(h, b) => b = a
      BY <2>1 DEF Writing
    <3>4. ASSUME NEW t \in Tokens, Kept(t)'
          PROVE  \/ \E b \in Accounts : row'[b].token = t
                 \/ \E g \in Handlers, b \in Accounts : Writing(g, b)' /\ req'[g].token = t
      <4>1. Kept(t)
        BY <1>c, <2>2, <3>4
      <4>2. ASSUME NEW b \in Accounts, row[b].token = t PROVE \E c \in Accounts : row'[c].token = t
        <5>1. CASE b # a
          BY <2>2, <4>2, <5>1
        <5>2. CASE b = a
          <6>1. t # req[h].token => ~Kept(row[a].token)
            BY <1>b, <2>2, <2>3, <3>1, <4>2, <5>2 DEF Only
          <6> QED BY <2>2, <2>8, <4>1, <4>2, <5>2, <6>1
        <5> QED BY <5>1, <5>2
      <4>3. ASSUME NEW g \in Handlers, NEW b \in Accounts, Writing(g, b), req[g].token = t
            PROVE  \/ row'[a].token = t
                   \/ Writing(g, b)' /\ req'[g].token = t
        BY <2>2, <2>5, <2>6, <2>8, <4>3
      <4> QED BY <2>2, <2>3, <4>1, <4>2, <4>3 DEF Only
    <3>5. ASSUME NEW g \in Handlers, NEW b \in Accounts, Writing(g, b)', row'[b].token # NoToken,
                 row'[b].token # req'[g].token, Kept(row[b].token)'
          PROVE  FALSE
      <4>1. g # h /\ Writing(g, b) /\ b # a /\ req'[g].token = req[g].token
        BY <2>5, <2>6, <3>2, <3>5
      <4>2. row'[b] = row[b]
        BY <2>2, <4>1
      <4>3. Kept(row[b].token)
        BY <2>2, <3>5, <4>2 DEF Kept
      <4> QED BY <2>3, <3>5, <4>1, <4>2, <4>3 DEF Only
    <3> QED BY <3>4, <3>5 DEF Only
  <2> QED BY <2>7, <2>8
<1>6. ASSUME NEW h \in Handlers, SendText(h) \/ SendPush(h) PROVE Only'
  BY <1>6, AtIsOpen DEF SendText, SendPush, InfoInv
<1>7. ASSUME NEW h \in Handlers, Fail(h) PROVE Only'
  <2>1. PICK a : a = req[h].a
    OBVIOUS
  <2>2. /\ req[h] # Idle /\ UNCHANGED <<row, tokens, adding, met>>
        /\ req' = [req EXCEPT ![h] = Idle] /\ astray \subseteq astray'
        /\ Halfway(req[h]) => a \in astray'
    BY <1>7, <2>1 DEF Fail, End
  <2>3. req[h].pc # "write" \/ req[h].token = NoToken
    BY <2>2 DEF Halfway
  <2> QED BY <1>c, <1>d, <2>2, <2>3
<1>8. ASSUME NEW h \in Handlers, AddFails(h) PROVE Only'
  <2>1. adding[h] # NoToken /\ met = {} /\ Accounts = {} /\ astray \subseteq Accounts
    BY <1>8 DEF AddFails, TypeOK
  <2>2. adding[h] \in Tokens /\ Kept(adding[h])
    BY <2>1 DEF TypeOK, Devices, Kept
  <2> QED BY <1>a, <2>1, <2>2 DEF Only
<1>9. ASSUME UNCHANGED <<row, req, met, astray>>, \A t \in Tokens : Kept(t)' => Kept(t) PROVE Only'
  <2>1. \A g \in Handlers, b \in Accounts : Writing(g, b)' <=> Writing(g, b)
    BY <1>9 DEF Writing, At
  <2> QED BY <1>a, <1>9, <2>1, OnlySame
<1>10. ASSUME NEW h \in Handlers, TokenAdded(h) PROVE Only'
  <2>1. \A t \in Tokens : Kept(t)' => Kept(t)
    BY <1>b, <1>10 DEF TokenAdded, Kept, TypeOK
  <2> QED BY <1>9, <1>10, <2>1 DEF TokenAdded
<1>11. ASSUME NEW a \in Accounts, Sync(a) PROVE Only'
  BY <1>9, <1>11, <1>c DEF Sync
<1>12. CASE UNCHANGED vars
  BY <1>9, <1>12, <1>c DEF vars
<1> QED BY <1>1, <1>2, <1>3, <1>4, <1>5, <1>6, <1>7, <1>8, <1>10, <1>11, <1>12 DEF Next, Serve

LEMMA TokenNext == TypeOK /\ TokenInv /\ [Next]_vars => TokenInv'
<1> SUFFICES ASSUME TypeOK, TokenInv, [Next]_vars, kind = "admin"
             PROVE  ShareInv' /\ InfoInv' /\ CurrentInv' /\ OnlyInv'
  BY KindKept DEF TokenInv
<1>1. ShareInv /\ InfoInv /\ CurrentInv /\ OnlyInv
  BY DEF TokenInv
<1>2. CASE UNCHANGED vars
  <2>1. ShareInv'
    BY <1>1, <1>2 DEF ShareInv, Claimed, vars
  <2> QED BY <1>1, <2>1, InfoNext, CurrentNext, OnlyNext
<1>3. CASE Next
  BY <1>1, <1>3, ShareNext, InfoNext, CurrentNext, OnlyNext
<1> QED BY <1>2, <1>3

\* The set of redis has the tokens of the administrators and no other, but for
\* those whose updates met, shared a device, were refused or left halfway.
THEOREM TokensStayCurrent == Spec => []TokensAreCurrent
<1>1. Init => TypeOK /\ TokenInv
  BY InitTypeOK, TokenInit
<1>2. TypeOK /\ TokenInv /\ [Next]_vars => (TypeOK /\ TokenInv)'
  BY NextTypeOK, TokenNext
<1>3. TypeOK /\ TokenInv => TokensAreCurrent
  BY TokenEnough
<1> QED BY <1>1, <1>2, <1>3, PTL DEF Spec

=============================================================================
