------------------------------ MODULE Catalogue ------------------------------
(***************************************************************************)
(* The tables whose rows are found by a key that no unique index guards:   *)
(* blogs, blog categories and products for points by the slug of their     *)
(* name, services by their name, options by their key, bonus points by     *)
(* their owner; and the administrators, whose user name has an index.      *)
(* Every service looks on the replica first and writes on the master then, *)
(* with an await between any two of its queries.  But for the blogs that go *)
(* with their category, no operation touches two tables: the model is of   *)
(* one, of any kind.                                                       *)
(*                                                                         *)
(* Texts, pictures, prices and the points themselves are left out.  A      *)
(* request that dies with its worker ends as one whose query fails.        *)
(***************************************************************************)
EXTENDS Integers, FiniteSets

CONSTANTS
    Kinds,       \* the tables of this instance
    Ids,         \* the rows a table can have
    NoRow,
    Names,       \* names, keys, user names, or owners
    Folded,      \* what a name is reduced to: its slug; for points, the customer
                 \* of a request that names a customer and a shoemaker
    Preset,      \* OPTIONS.STRINGEE_NUMBER, or ADMIN_ACCOUNTS_USER_NAME
    Handlers,    \* the requests at a time
    Lag,         \* may the replica be behind the master?
    MaxRows,     \* bound: rows to begin with
    MaxRequests  \* bound: requests

ASSUME CatalogueAssumption ==
    /\ Kinds \subseteq {"blog", "category", "product", "service", "option", "points", "admin"}
    /\ IsFiniteSet(Ids) /\ NoRow \notin Ids
    /\ Folded \in [Names -> Names] /\ \A n \in Names : Folded[Folded[n]] = Folded[n]
    /\ Preset \in Names
    /\ Lag \in BOOLEAN
    /\ MaxRows \in Nat /\ MaxRequests \in Nat

VARIABLES
    kind,       \* which table this is
    table,      \* master: its rows
    replica,    \* what a repository read returns
    req,        \* what each request is doing
    requests,
    calm,       \* history: no request has met another one or a stale read
    reordered,  \* history: a row was removed, or got another order from an update
    born        \* history: the blogs created as promoted since promotions were cleared

vars == <<kind, table, replica, req, requests, calm, reordered, born>>

Slugged == kind \in {"blog", "category", "product"}
Ordered == kind \in {"blog", "category"}

\* The key of the row a name is written to, and of the row it is looked for.
Key(n) == IF Slugged THEN Folded[n] ELSE n
Sought(n) == IF Slugged \/ kind = "points" THEN Folded[n] ELSE n

Orders == 0..(Cardinality(Ids) + 1)
Rows == [name : Names, key : Names, order : Orders, promoted : BOOLEAN]
Absent == [order |-> -1]

Idle == [pc |-> "idle"]
Stages == {"lookup", "count", "insert", "amend", "read", "check", "peek", "clear", "find",
           "place", "refetch", "write", "delete"}
Requests ==
    [pc : Stages, op : {"create", "set", "seed", "update", "remove"}, id : Ids \union {NoRow},
     name : Names, order : Orders, promoted : {"yes", "no", "missing"}, seen : Orders]
    \union {Idle}

TypeOK ==
    /\ kind \in Kinds
    /\ table \in [Ids -> Rows \union {Absent}] /\ replica \in [Ids -> Rows \union {Absent}]
    /\ req \in [Handlers -> Requests]
    /\ requests \in Nat
    /\ {calm, reordered} \subseteq BOOLEAN
    /\ born \subseteq Ids

Live(t) == {i \in Ids : t[i] # Absent}

\* Rows as creations have left them.
Created(t) ==
    /\ \A i \in Live(t) : t[i].key = Key(t[i].name) /\ ~t[i].promoted
    /\ \A i, j \in Live(t) : i # j => t[i].key # t[j].key
    /\ IF Ordered THEN {t[i].order : i \in Live(t)} = 1..Cardinality(Live(t))
                  ELSE \A i \in Live(t) : t[i].order = 0

Init ==
    /\ kind \in Kinds
    /\ table \in {t \in [Ids -> Rows \union {Absent}] : Cardinality(Live(t)) <= MaxRows /\ Created(t)}
    /\ replica = table
    /\ req = [h \in Handlers |-> Idle] /\ requests = 0
    /\ calm = TRUE /\ reordered = FALSE /\ born = {}

-----------------------------------------------------------------------------
(* Helpers *)

Busy == \E h \in Handlers : req[h] # Idle

Goto(h, stage) == req' = [req EXCEPT ![h].pc = stage]
End(h) == req' = [req EXCEPT ![h] = Idle]

At(h, stage) == req[h] # Idle /\ req[h].pc = stage

\* A query of the replica.
Read == calm' = (calm /\ replica = table)

Store(t) ==
    /\ table' = t
    /\ replica' = IF Lag THEN replica ELSE t

Unwritten == UNCHANGED <<table, replica, reordered, born>>

\* The rows of the replica with a key.
Holders(k) == {i \in Live(replica) : replica[i].key = k}

Fresh == {i \in Ids : table[i] = Absent /\ replica[i] = Absent /\
                      \A h \in Handlers : req[h] # Idle => req[h].id # i}

\* A request arrives.
Accept(h, stage, op, i, n, o, p) ==
    /\ req[h] = Idle /\ requests < MaxRequests
    /\ requests' = requests + 1
    /\ calm' = (calm /\ ~Busy)
    /\ req' = [req EXCEPT ![h] = [pc |-> stage, op |-> op, id |-> i, name |-> n, order |-> o,
                                  promoted |-> p, seen |-> 0]]
    /\ UNCHANGED kind /\ Unwritten

-----------------------------------------------------------------------------
(* What is created: a look for the key, then the row *)

Create(h) ==
    \E n \in Names, p \in IF kind = "blog" THEN {"yes", "no"} ELSE {"no"} :
        Accept(h, "lookup", "create", NoRow, n, 0, p)

\* The number for calls: the row of its key, old or new.
SetOption(h) == kind = "option" /\ Accept(h, "lookup", "set", NoRow, Preset, 0, "no")

\* A worker starts, and looks for any administrator.
Seed(h) == kind = "admin" /\ Accept(h, "lookup", "seed", NoRow, Preset, 0, "no")

\* Mutant: the row is looked for by the name it is to have.
Found_ByName(h) == {i \in Live(replica) : replica[i].name = req[h].name}

\* What a creation looks for.
Found(h) ==
    IF req[h].op = "seed" THEN Live(replica) ELSE Holders(Sought(req[h].name))

\* A row that is found is the one to write to, or a duplicate.
Lookup(h) ==
    /\ At(h, "lookup")
    /\ \/ Found(h) = {} /\ Goto(h, IF Ordered THEN "count" ELSE "insert")
       \/ /\ kind = "points" \/ req[h].op = "set"
          /\ \E i \in Found(h) : req' = [req EXCEPT ![h].pc = "amend", ![h].id = i]
       \/ /\ kind # "points" /\ req[h].op # "set" /\ Found(h) # {}
          /\ End(h)
    /\ Read /\ Unwritten /\ UNCHANGED <<kind, requests>>

\* Mutant: the first row has the order 0, and so on.
NextOrder_FromZero == Cardinality(Live(replica))

\* Mutant: nobody awaits the count, and what is stored is no number.
NextOrder_NotAwaited == -2

\* The order of a new row.
NextOrder == Cardinality(Live(replica)) + 1

Count(h) ==
    /\ At(h, "count")
    /\ req' = [req EXCEPT ![h].pc = "insert", ![h].order = NextOrder]
    /\ Read /\ Unwritten /\ UNCHANGED <<kind, requests>>

InsertRow(h) ==
    /\ \E i \in Fresh :
        /\ Store([table EXCEPT ![i] =
               [name |-> req[h].name, key |-> Key(req[h].name),
                order |-> req[h].order, promoted |-> (req[h].promoted = "yes")]])
        /\ born' = born \union {j \in {i} : req[h].promoted = "yes"}
        /\ IF kind = "points" THEN req' = [req EXCEPT ![h].pc = "amend", ![h].id = i] ELSE End(h)
    /\ UNCHANGED <<kind, requests, calm, reordered>>

\* The row is inserted; the index refuses a second administrator of a name.
Insert(h) ==
    /\ At(h, "insert")
    /\ kind = "admin" => \A i \in Live(table) : table[i].key # Key(req[h].name)
    /\ InsertRow(h)

\* The row gets its points from a stored procedure, or its value.
Amend(h) ==
    /\ At(h, "amend")
    /\ End(h)
    /\ Unwritten /\ UNCHANGED <<kind, requests, calm>>

-----------------------------------------------------------------------------
(* What is updated or removed *)

\* An update that leaves the name out is refused before anything else.
Update(h) ==
    \E i \in Ids, n \in Names, o \in IF Ordered THEN 0..Cardinality(Ids) ELSE {0},
       p \in IF kind = "blog" THEN {"yes", "no", "missing"} ELSE {"missing"} :
        /\ kind \in {"blog", "category", "product", "service"}
        /\ i \in Live(table) \union Live(replica)
        /\ Accept(h, "read", "update", i, n, o, p)

Remove(h) ==
    \E i \in Live(table) \union Live(replica) :
        /\ kind \in {"blog", "category", "product", "service"}
        /\ Accept(h, "read", "remove", i, Preset, 0, "missing")

\* A category is removed, and the database removes its blogs.
RemoveCategory ==
    /\ kind = "blog" /\ requests < MaxRequests
    /\ \E gone \in SUBSET Live(table) :
        /\ Store([i \in Ids |-> IF i \in gone THEN Absent ELSE table[i]])
        /\ reordered' = (reordered \/ gone # {})
        /\ born' = born \ gone
    /\ requests' = requests + 1
    /\ calm' = (calm /\ ~Busy)
    /\ UNCHANGED <<kind, req>>

\* Where an update goes on once its name is settled, and its promotion.
AfterPromotion(q) == IF ~Ordered \/ q.order = q.seen THEN "refetch" ELSE "find"
AfterName(q) == IF q.promoted = "yes" THEN "peek" ELSE AfterPromotion(q)

\* The row is read; if it is missing the request ends.
ReadRow(h) ==
    /\ At(h, "read")
    /\ LET row == replica[req[h].id]
           q == [req[h] EXCEPT !.seen = row.order]
       IN  IF row = Absent THEN End(h)
           ELSE req' = [req EXCEPT ![h] =
               [q EXCEPT !.pc =
                   IF q.op = "remove" \/ kind = "service" THEN "refetch"
                   ELSE IF row.name # q.name THEN "check"
                   ELSE AfterName(q)]]
    /\ Read /\ Unwritten /\ UNCHANGED <<kind, requests>>

\* Another row has the slug of the new name: refused.
CheckSlug(h) ==
    /\ At(h, "check")
    /\ IF Holders(Key(req[h].name)) \ {req[h].id} # {}
         THEN End(h)
         ELSE Goto(h, AfterName(req[h]))
    /\ Read /\ Unwritten /\ UNCHANGED <<kind, requests>>

\* findOneAndUpdate({}, ...): is there a row at all?
Peek(h) ==
    /\ At(h, "peek")
    /\ Goto(h, IF Live(replica) = {} THEN AfterPromotion(req[h]) ELSE "clear")
    /\ Read /\ Unwritten /\ UNCHANGED <<kind, requests>>

\* Mutant: one row loses its promotion.
Cleared_One(t) ==
    IF Live(t) = {} THEN t
    ELSE LET i == CHOOSE i \in Live(t) : TRUE IN [t EXCEPT ![i].promoted = FALSE]

Cleared(t) == [i \in Ids |-> IF t[i] = Absent THEN Absent ELSE [t[i] EXCEPT !.promoted = FALSE]]

Clear(h) ==
    /\ At(h, "clear")
    /\ Store(Cleared(table)) /\ born' = {}
    /\ Goto(h, AfterPromotion(req[h]))
    /\ UNCHANGED <<kind, requests, calm, reordered>>

\* findOneAndUpdate({ order }, ...): is there a row of that order?  For an update
\* without an order the query asks for NaN, and fails.
FindPlace(h) ==
    /\ At(h, "find")
    /\ IF req[h].order = 0 THEN End(h)
       ELSE Goto(h, IF \E i \in Live(replica) : replica[i].order = req[h].order
                      THEN "place" ELSE "refetch")
    /\ Read /\ Unwritten /\ UNCHANGED <<kind, requests>>

\* The rows of that order are given that order.
Place(h) ==
    /\ At(h, "place")
    /\ Store([i \in Ids |-> IF table[i].order = req[h].order
                              THEN [table[i] EXCEPT !.order = req[h].order] ELSE table[i]])
    /\ Goto(h, "refetch")
    /\ UNCHANGED <<kind, requests, calm, reordered, born>>

\* findByIdAndUpdate and permanentlyDelete read the row once more.
Refetch(h) ==
    /\ At(h, "refetch")
    /\ IF replica[req[h].id] = Absent THEN End(h)
       ELSE Goto(h, IF req[h].op = "remove" THEN "delete" ELSE "write")
    /\ Read /\ Unwritten /\ UNCHANGED <<kind, requests>>

\* The columns the request names; only a product gets its slug with its name.
Updated(row, q) ==
    [row EXCEPT !.name = q.name,
                !.key = IF kind \in {"product", "service"} THEN Key(q.name) ELSE @,
                !.order = IF Ordered THEN q.order ELSE @,
                !.promoted = IF q.promoted = "missing" THEN @ ELSE q.promoted = "yes"]

Write(h) ==
    /\ At(h, "write")
    /\ LET i == req[h].id IN
        /\ Store(IF table[i] = Absent THEN table ELSE [table EXCEPT ![i] = Updated(@, req[h])])
        /\ reordered' = (reordered \/ (table[i] # Absent /\ Ordered /\ table[i].order # req[h].order))
    /\ End(h)
    /\ UNCHANGED <<kind, requests, calm, born>>

Delete(h) ==
    /\ At(h, "delete")
    /\ Store([table EXCEPT ![req[h].id] = Absent])
    /\ reordered' = (reordered \/ table[req[h].id] # Absent)
    /\ born' = born \ {req[h].id}
    /\ End(h)
    /\ UNCHANGED <<kind, requests, calm>>

-----------------------------------------------------------------------------
(* Failures and replication *)

\* A query fails: the request is answered 400, and what it wrote stays.
RequestError(h) ==
    /\ req[h] # Idle
    /\ End(h)
    /\ Unwritten /\ UNCHANGED <<kind, requests, calm>>

Sync ==
    /\ replica # table
    /\ replica' = table
    /\ UNCHANGED <<kind, table, req, requests, calm, reordered, born>>

-----------------------------------------------------------------------------
Serve(h) ==
    \/ Create(h) \/ SetOption(h) \/ Seed(h) \/ Lookup(h) \/ Count(h) \/ Insert(h) \/ Amend(h)
    \/ Update(h) \/ Remove(h) \/ ReadRow(h) \/ CheckSlug(h) \/ Peek(h) \/ Clear(h)
    \/ FindPlace(h) \/ Place(h) \/ Refetch(h) \/ Write(h) \/ Delete(h) \/ RequestError(h)

Next == (\E h \in Handlers : Serve(h)) \/ RemoveCategory \/ Sync

Spec == Init /\ [][Next]_vars

-----------------------------------------------------------------------------
(* Properties *)

\* No two rows have one key: of administrators ever, and of the others as long
\* as no request met another one or a stale read.  Not so for services, which
\* an update renames without a look, nor for the points of a request that names
\* two owners: their row is never found again.
OneRowPerKey ==
    (calm /\ kind # "service") \/ kind = "admin" =>
        \A i, j \in Live(table) :
            i # j /\ table[i].key = table[j].key =>
                kind = "points" /\ Folded[table[i].key] # table[i].key

\* Orders are 1, 2, ... as long as nothing was removed or moved by an update,
\* which takes a place and leaves its holder there.
OrdersAreRanks ==
    calm /\ ~reordered /\ Ordered =>
        {table[i].order : i \in Live(table)} = 1..Cardinality(Live(table))

\* Of the blogs that were not created as promoted, one is promoted at most; and
\* a promotion leaves no other.
OnePromoted ==
    calm => Cardinality({i \in Live(table) \ born : table[i].promoted}) <= 1

=============================================================================
