------------------------------- MODULE Accounts -------------------------------
(***************************************************************************)
(* What administrators do to accounts: their own messaging token, kept in  *)
(* the row and in a set of redis, and their own password                   *)
(* (AuthenticationService.updateInfo); the new password of a customer or a *)
(* shoemaker, sent to him by SMS (resetPassword); and the status of a      *)
(* shoemaker, who is told when he is approved (ShoemakersService.update).  *)
(* Each writes the row on the master and something else beside it, one     *)
(* after the other, and decides on a copy of the row from the replica.     *)
(*                                                                         *)
(* Hashes, signed tokens, the rest of the columns and the look for another *)
(* shoemaker of the same email, a query that may end the request, are left *)
(* out.  The owner of an account may change it in another back end.        *)
(***************************************************************************)
EXTENDS Integers, Sequences

CONSTANTS
    Accounts,
    Tokens,      \* the messaging tokens of devices
    NoToken,
    Handlers,    \* the requests at a time, each on a worker of its own
    MaxRequests  \* bound: requests

ASSUME AccountsAssumption == NoToken \notin Tokens /\ MaxRequests \in Nat

VARIABLES
    kind,      \* whose accounts these are
    row,       \* master: the rows
    replica,   \* what a repository read returns
    tokens,    \* redis: the set admins-fcm-token
    adding,    \* the sadd of a worker that has not reached redis
    texts,     \* the passwords the owner of an account was sent
    untold,    \* the approvals a shoemaker has yet to be told of, or, below 0,
               \* was told of for nothing
    req,       \* what each request is doing
    requests,
    met,       \* history: the accounts of which two requests met, or share a token
    astray     \* history: ... of which a request has decided on a stale copy, was
               \* refused late, or was left halfway

vars == <<kind, row, replica, tokens, adding, texts, untold, req, requests, met, astray>>

Passwords == 0..MaxRequests
Devices == Tokens \union {NoToken}
Rows == [password : Passwords, token : Devices, active : BOOLEAN]

Idle == [pc |-> "idle"]
Requests ==
    [pc : {"read", "srem", "write", "text", "push"}, op : {"info", "reset", "approve"},
     a : Accounts, token : Devices, active : BOOLEAN, password : Passwords, old : Passwords,
     seen : Rows] \union {Idle}

TypeOK ==
    /\ kind \in {"admin", "customer", "shoemaker"}
    /\ row \in [Accounts -> Rows] /\ replica \in [Accounts -> Rows]
    /\ tokens \subseteq Tokens
    /\ adding \in [Handlers -> Devices]
    /\ texts \in [Accounts -> Seq(Passwords)]
    /\ untold \in [Accounts -> Int]
    /\ req \in [Handlers -> Requests] /\ requests \in Passwords
    /\ met \subseteq Accounts /\ astray \subseteq Accounts

\* The tokens that rows name.
Registered == {row[a].token : a \in Accounts} \ {NoToken}

Init ==
    /\ kind \in {"admin", "customer", "shoemaker"}
    /\ row \in [Accounts -> {r \in Rows : /\ r.password = 0
                                          /\ kind # "shoemaker" => r.active
                                          /\ kind = "customer" => r.token = NoToken}]
    /\ \A a, b \in Accounts : a # b /\ row[a].token = row[b].token => row[a].token = NoToken
    /\ replica = row
    /\ tokens = IF kind = "admin" THEN Registered ELSE {}
    /\ adding = [h \in Handlers |-> NoToken]
    /\ texts = [a \in Accounts |-> <<0>>]
    /\ untold = [a \in Accounts |-> 0]
    /\ req = [h \in Handlers |-> Idle] /\ requests = 0
    /\ met = {} /\ astray = {}

-----------------------------------------------------------------------------
(* Helpers *)

At(h, stage) == req[h] # Idle /\ req[h].pc = stage
End(h) == req' = [req EXCEPT ![h] = Idle]

Busy(a) == \E h \in Handlers : req[h] # Idle /\ req[h].a = a

\* Another account has a token, or is about to.
Sharers(a, t) ==
    {b \in Accounts \ {a} : t # NoToken /\
        (row[b].token = t \/ \E h \in Handlers : req[h] # Idle /\ req[h].a = b /\ req[h].token = t)}

\* A request arrives; old is the password an administrator gives as his.
Accept(h, op, a, t, active, p, old) ==
    /\ req[h] = Idle /\ requests < MaxRequests
    /\ requests' = requests + 1
    /\ req' = [req EXCEPT ![h] = [pc |-> "read", op |-> op, a |-> a, token |-> t, active |-> active,
                                  password |-> p, old |-> old, seen |-> row[a]]]
    /\ met' = met \union (IF Busy(a) \/ Sharers(a, t) # {} THEN {a} ELSE {}) \union Sharers(a, t)
    /\ UNCHANGED <<kind, row, replica, tokens, adding, texts, untold, astray>>

-----------------------------------------------------------------------------
(* The requests *)

\* An update names a token, a new password, or both.
UpdateInfo(h) ==
    /\ kind = "admin"
    /\ \E a \in Accounts, t \in Devices, p \in {0, requests + 1} :
        /\ t # NoToken \/ p # 0
        /\ \E old \in IF p = 0 THEN {0} ELSE {row[a].password, p} :
            Accept(h, "info", a, t, TRUE, p, old)

ResetPassword(h) ==
    /\ kind \in {"customer", "shoemaker"}
    /\ \E a \in Accounts : Accept(h, "reset", a, NoToken, TRUE, requests + 1, 0)

\* A shoemaker is made ACTIVE, or PENDING or BLOCKED.
SetStatus(h) ==
    /\ kind = "shoemaker"
    /\ \E a \in Accounts, active \in BOOLEAN : Accept(h, "approve", a, NoToken, active, 0, 0)

\* The add of the token is sent, which nobody awaits, and then the old password
\* is looked at: the update that is refused for it has changed the set.
Proceed(h, q) ==
    /\ q.token # NoToken => adding[h] = NoToken
    /\ adding' = IF q.token # NoToken THEN [adding EXCEPT ![h] = q.token] ELSE adding
    /\ IF q.password # 0 /\ q.op = "info" /\ q.old # q.seen.password
         THEN End(h) ELSE req' = [req EXCEPT ![h] = [q EXCEPT !.pc = "write"]]

Refused(q) == q.token # NoToken /\ q.password # 0 /\ q.old # q.seen.password

Read(h) ==
    LET a == req[h].a
        q == [req[h] EXCEPT !.seen = replica[a]]
    IN
    /\ At(h, "read")
    /\ IF q.token # NoToken /\ q.seen.token # NoToken
         THEN req' = [req EXCEPT ![h] = [q EXCEPT !.pc = "srem"]] /\ UNCHANGED adding
         ELSE Proceed(h, q)
    /\ astray' = astray \union
           (IF Refused(q) \/ (q.op # "reset" /\ replica[a] # row[a]) THEN {a} ELSE {})
    /\ UNCHANGED <<kind, row, replica, tokens, texts, untold, requests, met>>

\* Mutant: the old token is left in the set.
RemoveToken_Stays(h) ==
    LET q == req[h] IN
    /\ At(h, "srem")
    /\ Proceed(h, q)
    /\ UNCHANGED <<kind, row, replica, tokens, texts, untold, requests, met, astray>>

\* The token of the copy is removed from the set, maybe before the add of it, by
\* another worker, arrives.
RemoveToken(h) ==
    LET q == req[h] IN
    /\ At(h, "srem")
    /\ adding[h] = NoToken
    /\ tokens' = tokens \ {q.seen.token}
    /\ Proceed(h, q)
    /\ met' = met \union Sharers(q.a, q.seen.token)
                  \union (IF \E g \in Handlers : adding[g] = q.seen.token THEN {q.a} ELSE {})
    /\ UNCHANGED <<kind, row, replica, texts, untold, requests, astray>>

\* The columns a request changes.
Changed(r, q) ==
    [r EXCEPT !.password = IF q.password = 0 THEN @ ELSE q.password,
              !.token = IF q.token = NoToken THEN @ ELSE q.token,
              !.active = IF q.op = "approve" THEN q.active ELSE @]

\* Mutant: nobody looks at what the status was.
After_Any(q) ==
    IF q.op = "reset" THEN "text"
    ELSE IF q.op = "approve" /\ q.active /\ q.seen.token # NoToken THEN "push" ELSE "idle"

\* A shoemaker is told when the copy of his row was not active yet.
IsApproval(r, q) ==
    q.op = "approve" /\ q.active /\ ~r.active /\ r.token # NoToken

After(q) == IF q.op = "reset" THEN "text" ELSE IF IsApproval(q.seen, q) THEN "push" ELSE "idle"

Write(h) ==
    LET q == req[h] IN
    /\ At(h, "write")
    /\ row' = [row EXCEPT ![q.a] = Changed(@, q)]
    /\ untold' = IF IsApproval(row[q.a], q) THEN [untold EXCEPT ![q.a] = @ + 1] ELSE untold
    /\ IF After(q) = "idle" THEN End(h) ELSE req' = [req EXCEPT ![h].pc = After(q)]
    /\ UNCHANGED <<kind, replica, tokens, adding, texts, requests, met, astray>>

\* Mutant: the password is kept where another request finds it.
SendText_Shared(h) ==
    LET q == req[h] IN
    /\ At(h, "text")
    /\ texts' = [texts EXCEPT ![q.a] = Append(@, requests)]
    /\ End(h)
    /\ UNCHANGED <<kind, row, replica, tokens, adding, untold, requests, met, astray>>

\* The SMS arrives, or its failure is swallowed.
SendText(h) ==
    LET q == req[h] IN
    /\ At(h, "text")
    /\ \/ texts' = [texts EXCEPT ![q.a] = Append(@, q.password)] /\ UNCHANGED astray
       \/ astray' = astray \union {q.a} /\ UNCHANGED texts
    /\ End(h)
    /\ UNCHANGED <<kind, row, replica, tokens, adding, untold, requests, met>>

SendPush(h) ==
    LET q == req[h] IN
    /\ At(h, "push")
    /\ untold' = [untold EXCEPT ![q.a] = @ - 1]
    /\ End(h)
    /\ UNCHANGED <<kind, row, replica, tokens, adding, texts, requests, met, astray>>

-----------------------------------------------------------------------------
(* Redis, the replica and failures *)

\* Mutant: an update without a token adds what it has, undefined.
TokenAdded_Undefined(h) ==
    /\ tokens' = tokens \union {adding[h]}
    /\ adding' = [adding EXCEPT ![h] = NoToken]
    /\ UNCHANGED <<kind, row, replica, texts, untold, req, requests, met, astray>>

TokenAdded(h) ==
    /\ adding[h] # NoToken
    /\ tokens' = tokens \union {adding[h]}
    /\ adding' = [adding EXCEPT ![h] = NoToken]
    /\ UNCHANGED <<kind, row, replica, texts, untold, req, requests, met, astray>>

\* The row is not what was done beside it says.
Halfway(q) == q.pc \in {"text", "push"} \/ (q.pc = "write" /\ q.token # NoToken)

\* A request ends where it is: a query or a push fails, which a reset swallows and
\* the others answer with 400, or the worker dies.
Fail(h) ==
    /\ req[h] # Idle
    /\ End(h)
    /\ astray' = astray \union (IF Halfway(req[h]) THEN {req[h].a} ELSE {})
    /\ UNCHANGED <<kind, row, replica, tokens, adding, texts, untold, requests, met>>

\* Redis refuses the add, for which the worker dies, whatever it is doing.
AddFails(h) ==
    /\ adding[h] # NoToken
    /\ adding' = [adding EXCEPT ![h] = NoToken]
    /\ End(h)
    /\ astray' = Accounts
    /\ UNCHANGED <<kind, row, replica, tokens, texts, untold, requests, met>>

Sync(a) ==
    /\ replica[a] # row[a]
    /\ replica' = [replica EXCEPT ![a] = row[a]]
    /\ UNCHANGED <<kind, row, tokens, adding, texts, untold, req, requests, met, astray>>

-----------------------------------------------------------------------------
Serve(h) ==
    \/ UpdateInfo(h) \/ ResetPassword(h) \/ SetStatus(h)
    \/ Read(h) \/ RemoveToken(h) \/ Write(h) \/ SendText(h) \/ SendPush(h)
    \/ TokenAdded(h) \/ Fail(h) \/ AddFails(h)

Next == (\E h \in Handlers : Serve(h)) \/ (\E a \in Accounts : Sync(a))

Spec == Init /\ [][Next]_vars

-----------------------------------------------------------------------------
(* Properties *)

\* The accounts that no request is at work on.
Settled == {a \in Accounts : ~Busy(a)}
NothingSent == \A h \in Handlers : adding[h] = NoToken

\* The set of redis has the token of each administrator, and no other: although
\* it changes before the row does, the same token may be named again, and the
\* add may arrive late.  Not of those who share a device, whose requests met,
\* or whose update was refused or left halfway.
TokensAreCurrent ==
    kind = "admin" /\ NothingSent =>
        /\ \A a \in Settled \ (met \union astray) : row[a].token \in tokens \union {NoToken}
        /\ Settled = Accounts /\ met \union astray = {} => tokens \subseteq Registered

\* The owner of an account has been sent the password it has, and as the last
\* one if no two resets met: unless the SMS or the worker has failed him.
PasswordIsSent ==
    kind # "admin" =>
        \A a \in Settled \ astray :
            /\ \E i \in DOMAIN texts[a] : texts[a][i] = row[a].password
            /\ a \notin met => texts[a][Len(texts[a])] = row[a].password

\* A shoemaker is told of each approval, once: unless two changes of his status
\* met, or one was decided on a stale copy, or the push failed.
ApprovalIsTold ==
    \A a \in Settled \ (met \union astray) : untold[a] = 0

=============================================================================
