-------------------------- MODULE CatalogueProofs --------------------------
(* Theorems about Catalogue, for every value of its constants.              *)
EXTENDS Catalogue, FiniteSetTheorems, TLAPS

\* Requests that are under way, and what a table may be.
Open == Requests \ {Idle}
Tables == [Ids -> Rows \union {Absent}]

-----------------------------------------------------------------------------
(* Type correctness *)

LEMMA CountType ==
    ASSUME NEW t
    PROVE  /\ IsFiniteSet(Live(t)) /\ Cardinality(Live(t)) \in 0..Cardinality(Ids)
           /\ Cardinality(Live(t)) + 1 \in Orders /\ 0 \in Orders
<1>1. Live(t) \in SUBSET Ids /\ IsFiniteSet(Ids)
  BY CatalogueAssumption DEF Live
<1>2. IsFiniteSet(Live(t)) /\ Cardinality(Live(t)) <= Cardinality(Ids)
  BY <1>1, FS_Subset
<1>3. Cardinality(Live(t)) \in Nat /\ Cardinality(Ids) \in Nat
  BY <1>1, <1>2, FS_CardinalityType
<1> QED BY <1>2, <1>3 DEF Orders

LEMMA AbsentIsNoRow == Absent \notin Rows /\ \A r \in Rows : r # Absent
<1>1. \A r \in Rows : r.order # -1
  <2>1. -1 \notin Orders
    BY DEF Orders
  <2> QED BY <2>1 DEF Rows
<1>2. Absent.order = -1
  BY DEF Absent
<1> QED BY <1>1, <1>2

LEMMA InitTypeOK == Init => TypeOK
<1> SUFFICES ASSUME Init PROVE TypeOK
  OBVIOUS
<1>1. kind \in Kinds
  BY DEF Init
<1>2. table \in Tables /\ replica \in Tables
  BY DEF Init, Tables
<1>3. req \in [Handlers -> Requests] /\ requests \in Nat
  BY DEF Init, Requests
<1>4. {calm, reordered} \subseteq BOOLEAN /\ born \subseteq Ids
  BY DEF Init
<1> QED BY <1>1, <1>2, <1>3, <1>4 DEF TypeOK, Tables

\* What updates and removals do is done to a row, and what they do not is the rest.
Creating == {"lookup", "count", "insert", "amend"}
TargetInv ==
    \A h \in Handlers : req[h] # Idle =>
        IF req[h].pc \in Creating
          THEN req[h].op \in {"create", "set", "seed"}
          ELSE req[h].op \in {"update", "remove"} /\ req[h].id \in Ids

TypeInv == TypeOK /\ TargetInv

LEMMA OpenRequest ==
    ASSUME TypeOK, NEW h \in Handlers, req[h] # Idle
    PROVE  req[h] \in Open
BY DEF TypeOK, Open

\* A request at a stage is under way.
LEMMA AtIsOpen ==
    ASSUME TypeOK, NEW h \in Handlers, NEW stage, At(h, stage)
    PROVE  req[h] # Idle /\ req[h] \in Open /\ req[h].pc = stage
BY OpenRequest DEF At

\* A request is on with what it asks for, at a stage.
Follows(new, q, stage) ==
    /\ new \in Open /\ new.pc = stage /\ new.op = q.op /\ new.name = q.name
    /\ new.promoted = q.promoted

LEMMA Moves ==
    ASSUME NEW q \in Open, NEW stage \in Stages
    PROVE  /\ Follows([q EXCEPT !.pc = stage], q, stage)
           /\ [q EXCEPT !.pc = stage].id = q.id /\ [q EXCEPT !.pc = stage].order = q.order
           /\ [q EXCEPT !.pc = stage].seen = q.seen
BY DEF Follows, Open, Requests, Idle

LEMMA Sees ==
    ASSUME NEW q \in Open, NEW o \in Orders
    PROVE  /\ Follows([q EXCEPT !.seen = o], q, q.pc)
           /\ [q EXCEPT !.seen = o].id = q.id /\ [q EXCEPT !.seen = o].order = q.order
BY DEF Follows, Open, Requests, Idle

LEMMA Aims ==
    ASSUME NEW q \in Open, NEW stage \in Stages, NEW i \in Ids
    PROVE  /\ Follows([q EXCEPT !.pc = stage, !.id = i], q, stage)
           /\ [q EXCEPT !.pc = stage, !.id = i].id = i
BY DEF Follows, Open, Requests, Idle, Stages

LEMMA Ranks ==
    ASSUME NEW q \in Open, NEW stage \in Stages, NEW o \in Orders
    PROVE  /\ Follows([q EXCEPT !.pc = stage, !.order = o], q, stage)
           /\ [q EXCEPT !.pc = stage, !.order = o].order = o
BY DEF Follows, Open, Requests, Idle, Stages

LEMMA KeyType == ASSUME NEW n \in Names PROVE Key(n) \in Names /\ Sought(n) \in Names
BY CatalogueAssumption DEF Key, Sought

LEMMA StoreType ==
    ASSUME TypeOK, NEW t \in Tables, Store(t)
    PROVE  table' \in Tables /\ replica' \in Tables
BY DEF TypeOK, Tables, Store

\* What becomes of a request: it ends, or goes on.
Ends(h) == req' = [req EXCEPT ![h] = Idle]
GoesOn(h, new, stage) == req' = [req EXCEPT ![h] = new] /\ Follows(new, req[h], stage)

LEMMA GotoGoesOn ==
    ASSUME TypeOK, NEW h \in Handlers, NEW stage \in Stages, req[h] \in Open, Goto(h, stage)
    PROVE  \E new : GoesOn(h, new, stage) /\ new.id = req[h].id /\ new.order = req[h].order
<1>1. req' = [req EXCEPT ![h] = [req[h] EXCEPT !.pc = stage]]
  BY DEF Goto, TypeOK
<1> DEFINE new == [req[h] EXCEPT !.pc = stage]
<1>2. Follows(new, req[h], stage) /\ new.id = req[h].id /\ new.order = req[h].order
  BY Moves, Zenon
<1>3. req' = [req EXCEPT ![h] = new]
  BY <1>1
<1> HIDE DEF new
<1> QED BY <1>2, <1>3 DEF GoesOn

LEMMA RequestType ==
    ASSUME TypeOK, NEW h \in Handlers, Ends(h) \/ \E new, stage : GoesOn(h, new, stage)
    PROVE  req' \in [Handlers -> Requests]
BY DEF TypeOK, Ends, GoesOn, Follows, Open, Requests

\* A query of the replica leaves the table as it is, and calm tells a stale one.
Reads == table' = table /\ calm' = (calm /\ replica = table)
Keeps == UNCHANGED <<kind, requests>> /\ Unwritten

LEMMA LookupStep ==
    ASSUME TypeOK, NEW h \in Handlers, Lookup(h)
    PROVE  /\ req[h] # Idle /\ req[h] \in Open /\ Reads /\ Keeps
           /\ \/ Ends(h) /\ kind # "points" /\ req[h].op # "set"
              \/ \E new : GoesOn(h, new, "amend") /\ (kind = "points" \/ req[h].op = "set")
              \/ \E new : /\ GoesOn(h, new, IF Ordered THEN "count" ELSE "insert")
                          /\ Found(h) = {}
<1>1. req[h] # Idle /\ req[h] \in Open
  BY AtIsOpen DEF Lookup
<1>2. Reads /\ Keeps
  BY DEF Lookup, Read, Unwritten, Reads, Keeps
<1>3. CASE Found(h) = {} /\ Goto(h, IF Ordered THEN "count" ELSE "insert")
  BY <1>1, <1>2, <1>3, GotoGoesOn DEF Stages
<1>4. CASE /\ kind = "points" \/ req[h].op = "set"
           /\ \E i \in Found(h) : req' = [req EXCEPT ![h].pc = "amend", ![h].id = i]
  <2>1. PICK i \in Found(h) : req' = [req EXCEPT ![h].pc = "amend", ![h].id = i]
    BY <1>4
  <2>2. i \in Ids
    BY DEF Found, Live, Holders
  <2>3. req' = [req EXCEPT ![h] = [req[h] EXCEPT !.pc = "amend", !.id = i]]
    BY <2>1 DEF TypeOK
  <2>4. "amend" \in Stages
    BY DEF Stages
  <2>5. GoesOn(h, [req[h] EXCEPT !.pc = "amend", !.id = i], "amend")
    BY <1>1, <2>2, <2>3, <2>4, Aims, Zenon DEF GoesOn
  <2> QED BY <1>1, <1>2, <1>4, <2>5
<1>5. CASE kind # "points" /\ req[h].op # "set" /\ End(h)
  BY <1>1, <1>2, <1>5 DEF End, Ends
<1> QED BY <1>3, <1>4, <1>5 DEF Lookup

LEMMA CountStep ==
    ASSUME TypeOK, NEW h \in Handlers, Count(h)
    PROVE  /\ req[h] # Idle /\ req[h] \in Open /\ req[h].pc = "count" /\ Reads /\ Keeps
           /\ \E new : GoesOn(h, new, "insert") /\ new.order = Cardinality(Live(replica)) + 1
<1>1. req[h] # Idle /\ req[h] \in Open /\ req[h].pc = "count"
  BY AtIsOpen DEF Count
<1>2. Reads /\ Keeps
  BY DEF Count, Read, Unwritten, Reads, Keeps
<1>3. PICK o : o = Cardinality(Live(replica)) + 1
  OBVIOUS
<1>4. o \in Orders /\ "insert" \in Stages
  BY <1>3, CountType DEF Stages
<1>5. req' = [req EXCEPT ![h] = [req[h] EXCEPT !.pc = "insert", !.order = o]]
  BY <1>3 DEF Count, TypeOK, NextOrder
<1>6. /\ Follows([req[h] EXCEPT !.pc = "insert", !.order = o], req[h], "insert")
      /\ [req[h] EXCEPT !.pc = "insert", !.order = o].order = o
  <2>1. req[h] \in Open /\ o \in Orders /\ "insert" \in Stages
    BY <1>1, <1>4
  <2> QED BY <2>1, Ranks
<1>7. GoesOn(h, [req[h] EXCEPT !.pc = "insert", !.order = o], "insert")
  BY <1>5, <1>6, Zenon DEF GoesOn
<1> QED BY <1>1, <1>2, <1>3, <1>6, <1>7

\* The row a creation inserts.
NewRow(q) ==
    [name |-> q.name, key |-> Key(q.name), order |-> q.order, promoted |-> (q.promoted = "yes")]

LEMMA InsertStep ==
    ASSUME TypeOK, NEW h \in Handlers, Insert(h)
    PROVE  /\ req[h] # Idle /\ req[h] \in Open /\ req[h].pc = "insert" /\ NewRow(req[h]) \in Rows
           /\ kind = "admin" => \A i \in Live(table) : table[i].key # Key(req[h].name)
           /\ UNCHANGED <<kind, requests, calm, reordered>>
           /\ \E i \in Ids :
                 /\ table[i] = Absent /\ Store([table EXCEPT ![i] = NewRow(req[h])])
                 /\ born \subseteq born' /\ born' \subseteq Ids
                 /\ req[h].promoted = "yes" => i \in born'
           /\ \/ Ends(h)
              \/ kind = "points" /\ \E new : GoesOn(h, new, "amend")
<1>1. req[h] # Idle /\ req[h] \in Open /\ req[h].pc = "insert"
  BY AtIsOpen DEF Insert
<1>2. req[h].name \in Names /\ req[h].order \in Orders
  BY <1>1 DEF Open, Requests
<1>3. NewRow(req[h]) \in Rows
  <2>1. Key(req[h].name) \in Names /\ (req[h].promoted = "yes") \in BOOLEAN
    BY <1>2, KeyType
  <2> QED BY <1>2, <2>1 DEF NewRow, Rows
<1>4. /\ kind = "admin" => \A i \in Live(table) : table[i].key # Key(req[h].name)
      /\ UNCHANGED <<kind, requests, calm, reordered>>
  BY DEF Insert, InsertRow
<1>5. PICK i \in Fresh :
         /\ Store([table EXCEPT ![i] = NewRow(req[h])])
         /\ born' = born \union {j \in {i} : req[h].promoted = "yes"}
         /\ IF kind = "points" THEN req' = [req EXCEPT ![h].pc = "amend", ![h].id = i] ELSE End(h)
  BY DEF Insert, InsertRow, NewRow
<1>6. i \in Ids /\ table[i] = Absent
  BY DEF Fresh
<1>7. born \subseteq born' /\ born' \subseteq Ids /\ (req[h].promoted = "yes" => i \in born')
  BY <1>5, <1>6 DEF TypeOK
<1>8. \/ Ends(h)
      \/ kind = "points" /\ \E new : GoesOn(h, new, "amend")
  <2>1. CASE kind = "points"
    <3>1. req' = [req EXCEPT ![h] = [req[h] EXCEPT !.pc = "amend", !.id = i]]
      BY <1>5, <2>1 DEF TypeOK
    <3>2. "amend" \in Stages
      BY DEF Stages
    <3>3. GoesOn(h, [req[h] EXCEPT !.pc = "amend", !.id = i], "amend")
      BY <1>1, <1>6, <3>1, <3>2, Aims, Zenon DEF GoesOn
    <3> QED BY <2>1, <3>3
  <2>2. CASE kind # "points"
    BY <1>5, <2>2 DEF End, Ends
  <2> QED BY <2>1, <2>2
<1> QED BY <1>1, <1>3, <1>4, <1>5, <1>6, <1>7, <1>8

LEMMA AfterNameType ==
    ASSUME NEW q
    PROVE  /\ AfterPromotion(q) \in {"refetch", "find"}
           /\ AfterName(q) = IF q.promoted = "yes" THEN "peek" ELSE AfterPromotion(q)
           /\ {"refetch", "find", "peek", "check", "clear", "place", "write", "delete"} \subseteq Stages
BY DEF AfterPromotion, AfterName, Stages

LEMMA ReadRowStep ==
    ASSUME TypeInv, NEW h \in Handlers, ReadRow(h)
    PROVE  /\ req[h] # Idle /\ req[h] \in Open /\ req[h].pc = "read" /\ req[h].id \in Ids
           /\ Reads /\ Keeps
           /\ \/ Ends(h)
              \/ /\ replica[req[h].id] # Absent
                 /\ \E new : \E stage \in {"refetch", "check", "peek", "find"} :
                     /\ GoesOn(h, new, stage) /\ new.id = req[h].id
                     /\ stage = "peek" => req[h].promoted = "yes"
                     /\ stage # "check" /\ req[h].op # "remove" /\ kind # "service" =>
                           /\ replica[req[h].id].name = req[h].name
                           /\ req[h].promoted = "yes" => stage = "peek"
<1> DEFINE row == replica[req[h].id]
           q == [req[h] EXCEPT !.seen = row.order]
           stage == IF q.op = "remove" \/ kind = "service" THEN "refetch"
                    ELSE IF row.name # q.name THEN "check"
                    ELSE AfterName(q)
<1>1. req[h] # Idle /\ req[h] \in Open /\ req[h].pc = "read" /\ req[h].id \in Ids
  BY AtIsOpen DEF ReadRow, TypeInv, TargetInv, Creating
<1>2. Reads /\ Keeps
  BY DEF ReadRow, Read, Unwritten, Reads, Keeps
<1>3. CASE row = Absent
  BY <1>1, <1>2, <1>3 DEF ReadRow, End, Ends
<1>4. CASE row # Absent
  <2>1. row \in Rows
    BY <1>1, <1>4 DEF TypeInv, TypeOK
  <2>2. row.order \in Orders
    BY <2>1 DEF Rows
  <2>3. Follows(q, req[h], "read") /\ q.id = req[h].id
    BY <1>1, <2>2, Sees
  <2>4. req' = [req EXCEPT ![h] = [q EXCEPT !.pc = stage]]
    BY <1>4 DEF ReadRow
  <2>5. /\ q.op = req[h].op /\ q.name = req[h].name /\ q.promoted = req[h].promoted /\ q \in Open
    BY <2>3 DEF Follows
  <2> HIDE DEF q, row
  <2>6. /\ stage \in {"refetch", "check", "peek", "find"} /\ stage \in Stages
        /\ stage = "peek" => req[h].promoted = "yes"
        /\ stage # "check" /\ req[h].op # "remove" /\ kind # "service" =>
               /\ row.name = req[h].name
               /\ req[h].promoted = "yes" => stage = "peek"
    BY <2>5, AfterNameType
  <2> HIDE DEF stage
  <2>7. /\ Follows([q EXCEPT !.pc = stage], q, stage) /\ [q EXCEPT !.pc = stage].id = q.id
    BY <2>5, <2>6, Moves
  <2>8. GoesOn(h, [q EXCEPT !.pc = stage], stage)
    BY <2>4, <2>5, <2>7, Zenon DEF GoesOn, Follows
  <2>9. PICK new : GoesOn(h, new, stage) /\ new.id = req[h].id
    BY <2>3, <2>7, <2>8
  <2>10. row # Absent /\ row = replica[req[h].id]
    BY <1>4 DEF row
  <2> QED BY <1>1, <1>2, <2>6, <2>9, <2>10
<1> QED BY <1>3, <1>4

\* What the other steps of an update or a removal do to the request.
Stays(h, stages) ==
    \E new : \E stage \in stages : GoesOn(h, new, stage) /\ new.id = req[h].id

LEMMA GotoStays ==
    ASSUME TypeOK, NEW h \in Handlers, req[h] \in Open, NEW stages \in SUBSET Stages,
           NEW stage \in stages, Goto(h, stage)
    PROVE  Stays(h, stages)
BY GotoGoesOn DEF Stays

LEMMA CheckSlugStep ==
    ASSUME TypeInv, NEW h \in Handlers, CheckSlug(h)
    PROVE  /\ req[h] # Idle /\ req[h] \in Open /\ req[h].pc = "check" /\ req[h].id \in Ids
           /\ Reads /\ Keeps
           /\ \/ Ends(h)
              \/ /\ Holders(Key(req[h].name)) \ {req[h].id} = {}
                 /\ IF req[h].promoted = "yes" THEN Stays(h, {"peek"})
                                                ELSE Stays(h, {"refetch", "find"})
<1>1. req[h] # Idle /\ req[h] \in Open /\ req[h].pc = "check" /\ req[h].id \in Ids
  BY AtIsOpen DEF CheckSlug, TypeInv, TargetInv, Creating
<1>2. Reads /\ Keeps
  BY DEF CheckSlug, Read, Unwritten, Reads, Keeps
<1>3. CASE Holders(Key(req[h].name)) \ {req[h].id} # {}
  BY <1>1, <1>2, <1>3 DEF CheckSlug, End, Ends
<1>4. CASE Holders(Key(req[h].name)) \ {req[h].id} = {}
  <2>1. Goto(h, AfterName(req[h]))
    BY <1>4 DEF CheckSlug
  <2>2. CASE req[h].promoted = "yes"
    <3>1. Goto(h, "peek") /\ {"peek"} \subseteq Stages
      BY <2>1, <2>2, AfterNameType
    <3>2. Stays(h, {"peek"})
      BY <1>1, <3>1, GotoStays DEF TypeInv
    <3> QED BY <1>1, <1>2, <1>4, <2>2, <3>2
  <2>3. CASE req[h].promoted # "yes"
    <3>1. Goto(h, AfterPromotion(req[h])) /\ {"refetch", "find"} \subseteq Stages
      BY <2>1, <2>3, AfterNameType
    <3>2. Stays(h, {"refetch", "find"})
      BY <1>1, <3>1, AfterNameType, GotoStays DEF TypeInv
    <3> QED BY <1>1, <1>2, <1>4, <2>3, <3>2
  <2> QED BY <2>2, <2>3
<1> QED BY <1>3, <1>4

LEMMA PeekStep ==
    ASSUME TypeInv, NEW h \in Handlers, Peek(h)
    PROVE  /\ req[h] # Idle /\ req[h] \in Open /\ req[h].pc = "peek" /\ req[h].id \in Ids
           /\ Reads /\ Keeps
           /\ \/ Stays(h, {"clear"})
              \/ Live(replica) = {} /\ Stays(h, {"refetch", "find"})
<1>1. req[h] # Idle /\ req[h] \in Open /\ req[h].pc = "peek" /\ req[h].id \in Ids
  BY AtIsOpen DEF Peek, TypeInv, TargetInv, Creating
<1>2. Reads /\ Keeps
  BY DEF Peek, Read, Unwritten, Reads, Keeps
<1>3. CASE Live(replica) = {}
  <2>1. Goto(h, AfterPromotion(req[h])) /\ {"refetch", "find"} \subseteq Stages
    BY <1>3, AfterNameType DEF Peek
  <2>2. Stays(h, {"refetch", "find"})
    BY <1>1, <2>1, AfterNameType, GotoStays DEF TypeInv
  <2> QED BY <1>1, <1>2, <1>3, <2>2
<1>4. CASE Live(replica) # {}
  <2>1. Goto(h, "clear") /\ {"clear"} \subseteq Stages
    BY <1>4, AfterNameType DEF Peek
  <2>2. Stays(h, {"clear"})
    BY <1>1, <2>1, GotoStays DEF TypeInv
  <2> QED BY <1>1, <1>2, <2>2
<1> QED BY <1>3, <1>4

LEMMA FindPlaceStep ==
    ASSUME TypeInv, NEW h \in Handlers, FindPlace(h)
    PROVE  /\ req[h] # Idle /\ req[h] \in Open /\ req[h].pc = "find" /\ req[h].id \in Ids
           /\ Reads /\ Keeps
           /\ Ends(h) \/ Stays(h, {"place", "refetch"})
<1>1. req[h] # Idle /\ req[h] \in Open /\ req[h].pc = "find" /\ req[h].id \in Ids
  BY AtIsOpen DEF FindPlace, TypeInv, TargetInv, Creating
<1>2. Reads /\ Keeps
  BY DEF FindPlace, Read, Unwritten, Reads, Keeps
<1>3. CASE req[h].order = 0
  BY <1>1, <1>2, <1>3 DEF FindPlace, End, Ends
<1>4. CASE req[h].order # 0
  <2>1. PICK stage \in {"place", "refetch"} : Goto(h, stage)
    BY <1>4 DEF FindPlace
  <2>2. {"place", "refetch"} \subseteq Stages
    BY AfterNameType
  <2>3. Stays(h, {"place", "refetch"})
    BY <1>1, <2>1, <2>2, GotoStays DEF TypeInv
  <2> QED BY <1>1, <1>2, <2>3
<1> QED BY <1>3, <1>4

LEMMA RefetchStep ==
    ASSUME TypeInv, NEW h \in Handlers, Refetch(h)
    PROVE  /\ req[h] # Idle /\ req[h] \in Open /\ req[h].pc = "refetch" /\ req[h].id \in Ids
           /\ Reads /\ Keeps
           /\ \/ Ends(h)
              \/ replica[req[h].id] # Absent /\ req[h].op = "remove" /\ Stays(h, {"delete"})
              \/ replica[req[h].id] # Absent /\ req[h].op # "remove" /\ Stays(h, {"write"})
<1>1. req[h] # Idle /\ req[h] \in Open /\ req[h].pc = "refetch" /\ req[h].id \in Ids
  BY AtIsOpen DEF Refetch, TypeInv, TargetInv, Creating
<1>2. Reads /\ Keeps
  BY DEF Refetch, Read, Unwritten, Reads, Keeps
<1>3. CASE replica[req[h].id] = Absent
  BY <1>1, <1>2, <1>3 DEF Refetch, End, Ends
<1>4. CASE replica[req[h].id] # Absent /\ req[h].op = "remove"
  <2>1. Goto(h, "delete") /\ {"delete"} \subseteq Stages
    BY <1>4, AfterNameType DEF Refetch
  <2>2. Stays(h, {"delete"})
    BY <1>1, <2>1, GotoStays DEF TypeInv
  <2> QED BY <1>1, <1>2, <1>4, <2>2
<1>5. CASE replica[req[h].id] # Absent /\ req[h].op # "remove"
  <2>1. Goto(h, "write") /\ {"write"} \subseteq Stages
    BY <1>5, AfterNameType DEF Refetch
  <2>2. Stays(h, {"write"})
    BY <1>1, <2>1, GotoStays DEF TypeInv
  <2> QED BY <1>1, <1>2, <1>5, <2>2
<1> QED BY <1>3, <1>4, <1>5

LEMMA ClearStep ==
    ASSUME TypeInv, NEW h \in Handlers, Clear(h)
    PROVE  /\ req[h] # Idle /\ req[h] \in Open /\ req[h].pc = "clear" /\ req[h].id \in Ids
           /\ UNCHANGED <<kind, requests, calm, reordered>> /\ born' = {}
           /\ Store(Cleared(table)) /\ Stays(h, {"refetch", "find"})
<1>1. req[h] # Idle /\ req[h] \in Open /\ req[h].pc = "clear" /\ req[h].id \in Ids
  BY AtIsOpen DEF Clear, TypeInv, TargetInv, Creating
<1>2. Goto(h, AfterPromotion(req[h])) /\ {"refetch", "find"} \subseteq Stages
  BY AfterNameType DEF Clear
<1>3. Stays(h, {"refetch", "find"})
  BY <1>1, <1>2, AfterNameType, GotoStays DEF TypeInv
<1> QED BY <1>1, <1>3 DEF Clear

LEMMA ClearedType ==
    ASSUME TypeOK
    PROVE  /\ Cleared(table) \in Tables /\ Live(Cleared(table)) = Live(table)
           /\ \A i \in Live(table) :
                 /\ Cleared(table)[i].name = table[i].name /\ Cleared(table)[i].key = table[i].key
                 /\ Cleared(table)[i].order = table[i].order /\ Cleared(table)[i].promoted = FALSE
<1>1. ASSUME NEW r \in Rows
      PROVE  /\ [r EXCEPT !.promoted = FALSE] \in Rows
             /\ [r EXCEPT !.promoted = FALSE].name = r.name
             /\ [r EXCEPT !.promoted = FALSE].key = r.key
             /\ [r EXCEPT !.promoted = FALSE].order = r.order
             /\ [r EXCEPT !.promoted = FALSE].promoted = FALSE
  BY DEF Rows
<1>2. \A i \in Ids : table[i] = Absent \/ table[i] \in Rows
  BY DEF TypeOK
<1>3. \A i \in Ids : Cleared(table)[i] =
          IF table[i] = Absent THEN Absent ELSE [table[i] EXCEPT !.promoted = FALSE]
  BY DEF Cleared
<1>4. Cleared(table) \in Tables
  BY <1>1, <1>2 DEF Cleared, Tables
<1>5. ASSUME NEW i \in Ids PROVE Cleared(table)[i] = Absent <=> table[i] = Absent
  <2>1. CASE table[i] = Absent
    BY <1>3, <2>1
  <2>2. CASE table[i] # Absent
    <3>1. Cleared(table)[i] \in Rows
      BY <1>1, <1>2, <1>3, <2>2
    <3> QED BY <2>2, <3>1, AbsentIsNoRow
  <2> QED BY <2>1, <2>2
<1>6. Live(Cleared(table)) = Live(table)
  BY <1>5 DEF Live
<1>7. \A i \in Live(table) : i \in Ids /\ table[i] \in Rows
  BY <1>2 DEF Live
<1>8. ASSUME NEW i \in Live(table)
      PROVE  /\ Cleared(table)[i].name = table[i].name /\ Cleared(table)[i].key = table[i].key
             /\ Cleared(table)[i].order = table[i].order /\ Cleared(table)[i].promoted = FALSE
  <2>1. Cleared(table)[i] = [table[i] EXCEPT !.promoted = FALSE]
    BY <1>3, <1>7 DEF Live
  <2> QED BY <1>1, <1>7, <2>1
<1> QED BY <1>4, <1>6, <1>8

Placed(o) ==
    [i \in Ids |-> IF table[i].order = o THEN [table[i] EXCEPT !.order = o] ELSE table[i]]

LEMMA PlacedType ==
    ASSUME TypeOK, NEW o \in Orders
    PROVE  Placed(o) = table
<1>1. ASSUME NEW i \in Ids, table[i].order = o
      PROVE  [table[i] EXCEPT !.order = o] = table[i]
  <2>1. table[i] \in Rows
    <3>1. -1 \notin Orders
      BY DEF Orders
    <3> QED BY <1>1, <3>1 DEF TypeOK, Absent
  <2> QED BY <1>1, <2>1 DEF Rows
<1> QED BY <1>1 DEF Placed, TypeOK

LEMMA PlaceStep ==
    ASSUME TypeInv, NEW h \in Handlers, Place(h)
    PROVE  /\ req[h] # Idle /\ req[h] \in Open /\ req[h].pc = "place" /\ req[h].id \in Ids
           /\ UNCHANGED <<kind, requests, calm, reordered, born>>
           /\ Store(table) /\ Stays(h, {"refetch"})
<1>1. req[h] # Idle /\ req[h] \in Open /\ req[h].pc = "place" /\ req[h].id \in Ids
  BY AtIsOpen DEF Place, TypeInv, TargetInv, Creating
<1>2. Goto(h, "refetch") /\ {"refetch"} \subseteq Stages
  BY AfterNameType DEF Place
<1>3. Stays(h, {"refetch"})
  BY <1>1, <1>2, GotoStays DEF TypeInv
<1>4. Store(Placed(req[h].order)) /\ req[h].order \in Orders
  BY <1>1 DEF Place, Placed, Open, Requests
<1>5. Store(table)
  <2>1. Placed(req[h].order) = table
    BY <1>4, PlacedType DEF TypeInv
  <2> QED BY <1>4, <2>1
<1> QED BY <1>1, <1>3, <1>5 DEF Place

LEMMA UpdatedIsRow ==
    ASSUME NEW r \in Rows, NEW q \in Open
    PROVE  /\ Updated(r, q) \in Rows /\ Updated(r, q).name = q.name
           /\ Updated(r, q).key =
                  IF kind \in {"product", "service"} THEN Key(q.name) ELSE r.key
           /\ Updated(r, q).order = IF Ordered THEN q.order ELSE r.order
           /\ Updated(r, q).promoted =
                  IF q.promoted = "missing" THEN r.promoted ELSE (q.promoted = "yes")
<1>0. q.name \in Names /\ Key(q.name) \in Names /\ q.order \in Orders
  BY KeyType DEF Open, Requests
<1>1. r.name \in Names /\ r.key \in Names /\ r.order \in Orders /\ r.promoted \in BOOLEAN
  BY DEF Rows
<1> DEFINE k == IF kind \in {"product", "service"} THEN Key(q.name) ELSE r.key
           o == IF Ordered THEN q.order ELSE r.order
           p == IF q.promoted = "missing" THEN r.promoted ELSE (q.promoted = "yes")
<1>2. k \in Names /\ o \in Orders
  BY <1>0, <1>1
<1>3. p \in BOOLEAN
  BY <1>1
<1> DEFINE New(n, l, m, b) == [r EXCEPT !.name = n, !.key = l, !.order = m, !.promoted = b]
<1>4. Updated(r, q) = New(q.name, k, o, p)
  BY DEF Updated
<1> HIDE DEF k, o, p
<1>5. ASSUME NEW n \in Names, NEW l \in Names, NEW m \in Orders, NEW b \in BOOLEAN
      PROVE  /\ New(n, l, m, b) \in Rows /\ New(n, l, m, b).name = n /\ New(n, l, m, b).key = l
             /\ New(n, l, m, b).order = m /\ New(n, l, m, b).promoted = b
  BY Zenon DEF Rows
<1> HIDE DEF New
<1>6. /\ Updated(r, q) \in Rows /\ Updated(r, q).name = q.name /\ Updated(r, q).key = k
      /\ Updated(r, q).order = o /\ Updated(r, q).promoted = p
  BY <1>0, <1>2, <1>3, <1>4, <1>5
<1> QED BY <1>6, Zenon DEF k, o, p

LEMMA WriteStep ==
    ASSUME TypeInv, NEW h \in Handlers, Write(h)
    PROVE  /\ req[h] # Idle /\ req[h] \in Open /\ req[h].pc = "write" /\ req[h].id \in Ids
           /\ UNCHANGED <<kind, requests, calm, born>> /\ Ends(h)
           /\ \/ table[req[h].id] = Absent /\ Store(table) /\ reordered' = reordered
              \/ /\ table[req[h].id] # Absent /\ table[req[h].id] \in Rows
                 /\ Store([table EXCEPT ![req[h].id] = Updated(table[req[h].id], req[h])])
                 /\ reordered' = (reordered \/ (Ordered /\ table[req[h].id].order # req[h].order))
<1>1. req[h] # Idle /\ req[h] \in Open /\ req[h].pc = "write" /\ req[h].id \in Ids
  BY AtIsOpen DEF Write, TypeInv, TargetInv, Creating
<1>2. UNCHANGED <<kind, requests, calm, born>> /\ Ends(h)
  BY DEF Write, End, Ends
<1>3. CASE table[req[h].id] = Absent
  <2>1. Store(table) /\ reordered' = (reordered \/ FALSE)
    BY <1>3 DEF Write
  <2>2. reordered \in BOOLEAN
    BY DEF TypeInv, TypeOK
  <2> QED BY <1>1, <1>2, <1>3, <2>1, <2>2
<1>4. CASE table[req[h].id] # Absent
  <2>1. table[req[h].id] \in Rows
    BY <1>1, <1>4 DEF TypeInv, TypeOK
  <2>2. Store([table EXCEPT ![req[h].id] = Updated(table[req[h].id], req[h])])
    BY <1>4 DEF Write
  <2>3. reordered' = (reordered \/ (Ordered /\ table[req[h].id].order # req[h].order))
    BY <1>4 DEF Write
  <2> QED BY <1>1, <1>2, <1>4, <2>1, <2>2, <2>3
<1> QED BY <1>3, <1>4

LEMMA DeleteStep ==
    ASSUME TypeInv, NEW h \in Handlers, Delete(h)
    PROVE  /\ req[h] # Idle /\ req[h] \in Open /\ req[h].pc = "delete" /\ req[h].id \in Ids
           /\ UNCHANGED <<kind, requests, calm>> /\ Ends(h)
           /\ Store([table EXCEPT ![req[h].id] = Absent])
           /\ reordered' = (reordered \/ table[req[h].id] # Absent)
           /\ born' = born \ {req[h].id}
<1>1. req[h] # Idle /\ req[h] \in Open /\ req[h].pc = "delete" /\ req[h].id \in Ids
  BY AtIsOpen DEF Delete, TypeInv, TargetInv, Creating
<1> QED BY <1>1 DEF Delete, End, Ends

\* A request that arrives.
Arrival(op, i, n, o, p, stage) ==
    [pc |-> stage, op |-> op, id |-> i, name |-> n, order |-> o, promoted |-> p, seen |-> 0]

LEMMA ArriveStep ==
    ASSUME TypeInv, NEW h \in Handlers,
           Create(h) \/ SetOption(h) \/ Seed(h) \/ Update(h) \/ Remove(h)
    PROVE  /\ req[h] = Idle /\ requests' = requests + 1 /\ calm' = (calm /\ ~Busy)
           /\ UNCHANGED kind /\ Unwritten
           /\ \E new \in Open :
                 /\ req' = [req EXCEPT ![h] = new]
                 /\ \/ new.pc = "lookup" /\ new.op \in {"create", "set", "seed"}
                    \/ /\ new.pc = "read" /\ new.op \in {"update", "remove"} /\ new.id \in Ids
                       /\ kind \in {"blog", "category", "product", "service"}
                 /\ new.op = "set" => kind = "option"
                 /\ new.op = "seed" => kind = "admin"
                 /\ new.promoted = "yes" => kind = "blog" /\ new.op # "remove"
<1>1. PICK op \in {"create", "set", "seed", "update", "remove"}, i \in Ids \union {NoRow},
           n \in Names, o \in 0..Cardinality(Ids), p \in {"yes", "no", "missing"},
           stage \in {"lookup", "read"} :
         /\ Accept(h, stage, op, i, n, o, p)
         /\ IF stage = "lookup"
              THEN op \in {"create", "set", "seed"}
              ELSE /\ op \in {"update", "remove"} /\ i \in Ids
                   /\ kind \in {"blog", "category", "product", "service"}
         /\ op = "set" => kind = "option"
         /\ op = "seed" => kind = "admin"
         /\ p = "yes" => kind = "blog" /\ op # "remove"
  <2>0. 0 \in 0..Cardinality(Ids) /\ Preset \in Names
    BY CatalogueAssumption, FS_CardinalityType
  <2>1. CASE Create(h)
    BY <2>0, <2>1 DEF Create
  <2>2. CASE SetOption(h)
    BY <2>0, <2>2 DEF SetOption
  <2>3. CASE Seed(h)
    BY <2>0, <2>3 DEF Seed
  <2>4. CASE Update(h)
    BY <2>0, <2>4 DEF Update, Live
  <2>5. CASE Remove(h)
    BY <2>0, <2>5 DEF Remove, Live
  <2> QED BY <2>1, <2>2, <2>3, <2>4, <2>5
<1>2. o \in Orders /\ 0 \in Orders /\ {"lookup", "read"} \subseteq Stages
  BY CatalogueAssumption, FS_CardinalityType DEF Orders, Stages
<1>3. Arrival(op, i, n, o, p, stage) \in Open
  BY <1>2 DEF Arrival, Open, Requests, Idle
<1> QED BY <1>1, <1>3 DEF Accept, Arrival

LEMMA TypeKept ==
    ASSUME TypeOK, kind' = kind, table' \in Tables, replica' \in Tables,
           req' \in [Handlers -> Requests], requests' \in Nat, calm' \in BOOLEAN,
           reordered' \in BOOLEAN, born' \subseteq Ids
    PROVE  TypeOK'
BY Zenon DEF TypeOK, Tables

LEMMA TargetKept ==
    ASSUME TypeInv, NEW h \in Handlers,
           \/ Ends(h)
           \/ \E new, stage :
                 /\ GoesOn(h, new, stage)
                 /\ IF stage \in Creating THEN req[h].op \in {"create", "set", "seed"}
                    ELSE req[h].op \in {"update", "remove"} /\ new.id \in Ids
    PROVE  TargetInv' /\ req' \in [Handlers -> Requests]
<1>1. req' \in [Handlers -> Requests]
  BY RequestType DEF TypeInv
<1>2. CASE Ends(h)
  BY <1>1, <1>2 DEF Ends, TypeInv, TypeOK, TargetInv
<1>3. CASE ~Ends(h)
  <2>1. PICK new, stage :
          /\ GoesOn(h, new, stage)
          /\ IF stage \in Creating THEN req[h].op \in {"create", "set", "seed"}
             ELSE req[h].op \in {"update", "remove"} /\ new.id \in Ids
    BY <1>3
  <2>2. /\ req' = [req EXCEPT ![h] = new] /\ new.pc = stage /\ new.op = req[h].op
    BY <2>1 DEF GoesOn, Follows
  <2>3. ASSUME NEW g \in Handlers, req'[g] # Idle
        PROVE  IF req'[g].pc \in Creating THEN req'[g].op \in {"create", "set", "seed"}
               ELSE req'[g].op \in {"update", "remove"} /\ req'[g].id \in Ids
    <3>1. CASE g = h
      <4>1. req'[g] = new
        BY <2>2, <3>1 DEF TypeInv, TypeOK
      <4> QED BY <2>1, <2>2, <4>1
    <3>2. CASE g # h
      <4>1. req'[g] = req[g]
        BY <2>2, <3>2 DEF TypeInv, TypeOK
      <4> QED BY <2>3, <4>1 DEF TypeInv, TargetInv
    <3> QED BY <3>1, <3>2
  <2> QED BY <1>1, <2>3 DEF TargetInv
<1> QED BY <1>2, <1>3

\* A step that only reads leaves well-typed what it leaves alone.
LEMMA ReadsKept ==
    ASSUME TypeInv, Reads, Keeps, TargetInv', req' \in [Handlers -> Requests]
    PROVE  TypeInv'
<1>1. table' \in Tables /\ replica' \in Tables /\ kind' = kind
  BY DEF TypeInv, TypeOK, Tables, Keeps, Unwritten
<1>2. requests' \in Nat /\ calm' \in BOOLEAN /\ reordered' \in BOOLEAN /\ born' \subseteq Ids
  BY DEF TypeInv, TypeOK, Keeps, Unwritten, Reads
<1>3. TypeOK'
  BY <1>1, <1>2, TypeKept DEF TypeInv
<1> QED BY <1>3 DEF TypeInv

LEMMA StaysKept ==
    ASSUME TypeInv, NEW h \in Handlers, req[h] # Idle, req[h].pc \notin Creating, NEW stages,
           stages \cap Creating = {}, Ends(h) \/ Stays(h, stages)
    PROVE  TargetInv' /\ req' \in [Handlers -> Requests]
<1>1. req[h].op \in {"update", "remove"} /\ req[h].id \in Ids
  BY DEF TypeInv, TargetInv
<1>2. ASSUME NEW new, NEW stage \in stages, GoesOn(h, new, stage), new.id = req[h].id
      PROVE  TargetInv' /\ req' \in [Handlers -> Requests]
  BY <1>1, <1>2, TargetKept
<1>3. CASE Ends(h)
  BY <1>3, TargetKept
<1> QED BY <1>2, <1>3 DEF Stays

LEMMA TypeInvInit == Init => TypeInv
BY InitTypeOK DEF TypeInv, TargetInv, Init

\* What a worker does keeps the types.
LEMMA TypeInvCreates ==
    ASSUME TypeInv, NEW h \in Handlers, Lookup(h) \/ Count(h) \/ Insert(h)
    PROVE  TypeInv'
<1>0. TypeOK /\ TargetInv /\ requests \in Nat /\ calm \in BOOLEAN /\ reordered \in BOOLEAN
  BY DEF TypeInv, TypeOK
<1>1. req[h] # Idle /\ req[h].pc \in Creating /\ req[h].op \in {"create", "set", "seed"}
  <2>1. req[h] # Idle /\ req[h].pc \in Creating
    BY <1>0, AtIsOpen DEF Lookup, Count, Insert, Creating
  <2> QED BY <1>0, <2>1 DEF TargetInv
<1>2. ASSUME Ends(h) \/ \E new : \E stage \in Creating : GoesOn(h, new, stage)
      PROVE  TargetInv' /\ req' \in [Handlers -> Requests]
  BY <1>1, <1>2, TargetKept
<1>3. CASE Lookup(h)
  <2>1. Ends(h) \/ \E new : \E stage \in Creating : GoesOn(h, new, stage)
    BY <1>0, <1>3, LookupStep DEF Creating
  <2>2. Reads /\ Keeps
    BY <1>0, <1>3, LookupStep
  <2> QED BY <1>2, <2>1, <2>2, ReadsKept
<1>4. CASE Count(h)
  <2>1. Ends(h) \/ \E new : \E stage \in Creating : GoesOn(h, new, stage)
    BY <1>0, <1>4, CountStep DEF Creating
  <2>2. Reads /\ Keeps
    BY <1>0, <1>4, CountStep
  <2> QED BY <1>2, <2>1, <2>2, ReadsKept
<1>5. CASE Insert(h)
  <2>1. Ends(h) \/ \E new : \E stage \in Creating : GoesOn(h, new, stage)
    BY <1>0, <1>5, InsertStep DEF Creating
  <2>2. /\ NewRow(req[h]) \in Rows /\ UNCHANGED <<kind, requests, calm, reordered>>
        /\ \E i \in Ids : Store([table EXCEPT ![i] = NewRow(req[h])]) /\ born' \subseteq Ids
    BY <1>0, <1>5, InsertStep
  <2>3. table' \in Tables /\ replica' \in Tables /\ born' \subseteq Ids
    <3>1. PICK i \in Ids : Store([table EXCEPT ![i] = NewRow(req[h])]) /\ born' \subseteq Ids
      BY <2>2
    <3>2. [table EXCEPT ![i] = NewRow(req[h])] \in Tables
      BY <1>0, <2>2 DEF TypeOK, Tables
    <3> QED BY <1>0, <3>1, <3>2, StoreType
  <2>4. TypeOK'
    BY <1>0, <1>2, <2>1, <2>2, <2>3, TypeKept
  <2> QED BY <1>2, <2>1, <2>4 DEF TypeInv
<1> QED BY <1>3, <1>4, <1>5

LEMMA TypeInvUpdates ==
    ASSUME TypeInv, NEW h \in Handlers,
           ReadRow(h) \/ CheckSlug(h) \/ Peek(h) \/ FindPlace(h) \/ Refetch(h)
    PROVE  TypeInv'
<1>1. req[h] # Idle /\ req[h].pc \notin Creating /\ Reads /\ Keeps
  BY ReadRowStep, CheckSlugStep, PeekStep, FindPlaceStep, RefetchStep DEF Creating
<1>2. \E stages : stages \cap Creating = {} /\ (Ends(h) \/ Stays(h, stages))
  <2>1. CASE ReadRow(h)
    <3>1. Ends(h) \/ Stays(h, {"refetch", "check", "peek", "find"})
      BY <2>1, ReadRowStep DEF Stays
    <3> QED BY <3>1 DEF Creating
  <2>2. CASE CheckSlug(h)
    <3>1. \/ Ends(h) \/ Stays(h, {"peek"})
          \/ Stays(h, {"refetch", "find"})
      BY <2>2, CheckSlugStep
    <3> QED BY <3>1 DEF Creating
  <2>3. CASE Peek(h)
    <3>1. Stays(h, {"clear"}) \/ Stays(h, {"refetch", "find"})
      BY <2>3, PeekStep
    <3> QED BY <3>1 DEF Creating
  <2>4. CASE FindPlace(h)
    <3>1. Ends(h) \/ Stays(h, {"place", "refetch"})
      BY <2>4, FindPlaceStep
    <3> QED BY <3>1 DEF Creating
  <2>5. CASE Refetch(h)
    <3>1. Ends(h) \/ Stays(h, {"delete"}) \/ Stays(h, {"write"})
      BY <2>5, RefetchStep
    <3> QED BY <3>1 DEF Creating
  <2> QED BY <2>1, <2>2, <2>3, <2>4, <2>5
<1>3. TargetInv' /\ req' \in [Handlers -> Requests]
  BY <1>1, <1>2, StaysKept
<1> QED BY <1>1, <1>3, ReadsKept

LEMMA TypeInvWrites ==
    ASSUME TypeInv, NEW h \in Handlers, Clear(h) \/ Place(h) \/ Write(h) \/ Delete(h)
    PROVE  TypeInv'
<1>0. TypeOK /\ table \in Tables /\ Absent \in Rows \union {Absent}
  BY DEF TypeInv, TypeOK, Tables
<1>1. req[h] # Idle /\ req[h].pc \notin Creating /\ UNCHANGED <<kind, requests, calm>>
  BY ClearStep, PlaceStep, WriteStep, DeleteStep DEF Creating
<1>2. \E stages : stages \cap Creating = {} /\ (Ends(h) \/ Stays(h, stages))
  <2>1. Ends(h) \/ Stays(h, {"refetch", "find"}) \/ Stays(h, {"refetch"})
    BY ClearStep, PlaceStep, WriteStep, DeleteStep
  <2> QED BY <2>1 DEF Creating
<1>3. TargetInv' /\ req' \in [Handlers -> Requests]
  BY <1>1, <1>2, StaysKept
<1>4. \E t \in Tables : Store(t)
  <2>1. CASE Clear(h)
    BY <1>0, <2>1, ClearStep, ClearedType
  <2>2. CASE Place(h)
    BY <1>0, <2>2, PlaceStep
  <2>3. CASE Write(h)
    <3>1. CASE table[req[h].id] = Absent
      BY <1>0, <2>3, <3>1, WriteStep
    <3>2. CASE table[req[h].id] # Absent
      <4>1. /\ table[req[h].id] \in Rows /\ req[h] \in Open
            /\ Store([table EXCEPT ![req[h].id] = Updated(table[req[h].id], req[h])])
        BY <2>3, <3>2, WriteStep
      <4>2. Updated(table[req[h].id], req[h]) \in Rows
        BY <4>1, UpdatedIsRow
      <4>3. [table EXCEPT ![req[h].id] = Updated(table[req[h].id], req[h])] \in Tables
        BY <1>0, <4>2 DEF Tables
      <4> QED BY <4>1, <4>3
    <3> QED BY <3>1, <3>2
  <2>4. CASE Delete(h)
    <3>1. Store([table EXCEPT ![req[h].id] = Absent])
      BY <2>4, DeleteStep
    <3>2. [table EXCEPT ![req[h].id] = Absent] \in Tables
      BY <1>0 DEF Tables
    <3> QED BY <3>1, <3>2
  <2> QED BY <2>1, <2>2, <2>3, <2>4
<1>5. table' \in Tables /\ replica' \in Tables
  BY <1>0, <1>4, StoreType
<1>6. reordered' \in BOOLEAN /\ born' \subseteq Ids
  <2>1. reordered \in BOOLEAN /\ born \subseteq Ids
    BY <1>0 DEF TypeOK
  <2>2. CASE Clear(h)
    BY <2>1, <2>2, ClearStep
  <2>3. CASE Place(h)
    BY <2>1, <2>3, PlaceStep
  <2>4. CASE Write(h)
    BY <2>1, <2>4, WriteStep
  <2>5. CASE Delete(h)
    BY <2>1, <2>5, DeleteStep
  <2> QED BY <2>2, <2>3, <2>4, <2>5
<1>7. requests' \in Nat /\ calm' \in BOOLEAN
  BY <1>0, <1>1 DEF TypeOK
<1>8. TypeOK'
  BY <1>0, <1>1, <1>3, <1>5, <1>6, <1>7, TypeKept
<1> QED BY <1>3, <1>8 DEF TypeInv

LEMMA TypeInvArrives ==
    ASSUME TypeInv, NEW h \in Handlers,
           Create(h) \/ SetOption(h) \/ Seed(h) \/ Update(h) \/ Remove(h)
    PROVE  TypeInv'
<1>0. TypeOK
  BY DEF TypeInv
<1>1. /\ req[h] = Idle /\ requests' = requests + 1 /\ calm' = (calm /\ ~Busy)
      /\ UNCHANGED kind /\ Unwritten
  BY ArriveStep
<1>2. PICK new \in Open :
        /\ req' = [req EXCEPT ![h] = new]
        /\ \/ new.pc = "lookup" /\ new.op \in {"create", "set", "seed"}
           \/ new.pc = "read" /\ new.op \in {"update", "remove"} /\ new.id \in Ids
  BY ArriveStep
<1>3. req' \in [Handlers -> Requests]
  BY <1>0, <1>2 DEF TypeOK, Open
<1>4. TargetInv'
  BY <1>0, <1>2 DEF TypeOK, TypeInv, TargetInv, Creating
<1>5. table' \in Tables /\ replica' \in Tables /\ reordered' \in BOOLEAN /\ born' \subseteq Ids
  BY <1>0, <1>1 DEF TypeOK, Tables, Unwritten
<1>6. requests' \in Nat /\ calm' \in BOOLEAN
  BY <1>0, <1>1 DEF TypeOK
<1>7. TypeOK'
  BY <1>0, <1>1, <1>3, <1>5, <1>6, TypeKept
<1> QED BY <1>4, <1>7 DEF TypeInv

LEMMA EndStep ==
    ASSUME TypeInv, NEW h \in Handlers, Amend(h) \/ RequestError(h)
    PROVE  Ends(h) /\ req[h] # Idle /\ Unwritten /\ UNCHANGED <<kind, requests, calm>>
BY AtIsOpen DEF Amend, RequestError, End, Ends, TypeInv

LEMMA TypeInvEnds ==
    ASSUME TypeInv, NEW h \in Handlers, Amend(h) \/ RequestError(h)
    PROVE  TypeInv'
<1>1. Ends(h) /\ Unwritten /\ UNCHANGED <<kind, requests, calm>>
  BY EndStep
<1>2. TargetInv' /\ req' \in [Handlers -> Requests]
  BY <1>1, TargetKept
<1>3. /\ table' \in Tables /\ replica' \in Tables /\ reordered' \in BOOLEAN /\ born' \subseteq Ids
      /\ requests' \in Nat /\ calm' \in BOOLEAN
  BY <1>1 DEF TypeInv, TypeOK, Tables, Unwritten
<1>4. TypeOK'
  BY <1>1, <1>2, <1>3, TypeKept DEF TypeInv
<1> QED BY <1>2, <1>4 DEF TypeInv

\* The table without some of its rows.
Without(gone) == [i \in Ids |-> IF i \in gone THEN Absent ELSE table[i]]

LEMMA TypeInvNext == TypeInv /\ [Next]_vars => TypeInv'
<1> SUFFICES ASSUME TypeInv, [Next]_vars PROVE TypeInv'
  OBVIOUS
<1>1. ASSUME NEW h \in Handlers, Serve(h) PROVE TypeInv'
  BY <1>1, TypeInvCreates, TypeInvUpdates, TypeInvWrites, TypeInvArrives, TypeInvEnds DEF Serve
<1>2. CASE RemoveCategory
  <2>1. PICK gone \in SUBSET Live(table) :
          Store(Without(gone)) /\ reordered' = (reordered \/ gone # {}) /\ born' = born \ gone
    BY <1>2 DEF RemoveCategory, Without
  <2>2. Without(gone) \in Tables
    BY DEF TypeInv, TypeOK, Tables, Without
  <2>3. table' \in Tables /\ replica' \in Tables
    BY <2>1, <2>2, StoreType DEF TypeInv
  <2>4. UNCHANGED <<kind, req>> /\ requests' = requests + 1 /\ calm' = (calm /\ ~Busy)
    BY <1>2 DEF RemoveCategory
  <2>5. TargetInv' /\ req' \in [Handlers -> Requests]
    BY <2>4 DEF TypeInv, TypeOK, TargetInv
  <2>6. requests' \in Nat /\ calm' \in BOOLEAN /\ reordered' \in BOOLEAN /\ born' \subseteq Ids
    BY <2>1, <2>4 DEF TypeInv, TypeOK
  <2>7. TypeOK'
    BY <2>3, <2>4, <2>5, <2>6, TypeKept DEF TypeInv
  <2> QED BY <2>5, <2>7 DEF TypeInv
<1>3. CASE Sync
  BY <1>3 DEF Sync, TypeInv, TypeOK, TargetInv
<1>4. CASE UNCHANGED vars
  BY <1>4 DEF vars, TypeInv, TypeOK, TargetInv
<1> QED BY <1>1, <1>2, <1>3, <1>4 DEF Next

\* The variables keep their types: an update writes to a row, an order is a
\* number that a row can have, and what a query gave up on stays as it is.
THEOREM TypeCorrect == Spec => []TypeOK
<1>1. Spec => []TypeInv
  BY TypeInvInit, TypeInvNext, PTL DEF Spec
<1> QED BY <1>1, PTL DEF TypeInv

-----------------------------------------------------------------------------
(* One row per key *)

\* As long as no request met another one there is one at a time; only the rows
\* of some tables are updated; and promotions are asked for by blogs.
Listed == kind \in {"blog", "category", "product", "service"}
AskInv ==
    /\ calm => \A g, h \in Handlers : req[g] # Idle /\ req[h] # Idle => g = h
    /\ \A h \in Handlers : req[h] # Idle =>
          /\ req[h].pc \in Creating \/ Listed
          /\ req[h].promoted = "yes" => kind = "blog" /\ req[h].op # "remove"

\* What a request that is under way does with itself.
Proceeds(h) ==
    /\ req[h] # Idle /\ kind' = kind /\ (calm' => calm)
    /\ \/ Ends(h)
       \/ \E new : \E stage \in Stages :
             GoesOn(h, new, stage) /\ (req[h].pc \in Creating => stage \in Creating)

LEMMA ProceedsStep ==
    ASSUME TypeInv, NEW h \in Handlers, Serve(h)
    PROVE  \/ Create(h) \/ SetOption(h) \/ Seed(h) \/ Update(h) \/ Remove(h)
           \/ Proceeds(h)
<1>0. TypeOK
  BY DEF TypeInv
<1>1. ASSUME req[h] # Idle, req[h].pc \notin Creating, kind' = kind, calm' => calm,
             NEW stages \in SUBSET Stages, Ends(h) \/ Stays(h, stages)
      PROVE  Proceeds(h)
  BY <1>1 DEF Proceeds, Stays
<1>2. CASE Lookup(h)
  BY <1>0, <1>2, LookupStep DEF Proceeds, Reads, Keeps, Creating, Stages
<1>3. CASE Count(h)
  BY <1>0, <1>3, CountStep DEF Proceeds, Reads, Keeps, Creating, Stages
<1>4. CASE Insert(h)
  BY <1>0, <1>4, InsertStep DEF Proceeds, Creating, Stages
<1>5. CASE Amend(h) \/ RequestError(h)
  BY <1>5, EndStep DEF Proceeds
<1>6. CASE ReadRow(h) \/ CheckSlug(h) \/ Peek(h) \/ FindPlace(h) \/ Refetch(h)
  <2>1. req[h] # Idle /\ req[h].pc \notin Creating /\ Reads /\ Keeps
    BY <1>6, ReadRowStep, CheckSlugStep, PeekStep, FindPlaceStep, RefetchStep DEF Creating
  <2>2. kind' = kind /\ (calm' => calm)
    BY <2>1 DEF Reads, Keeps
  <2>3. Ends(h) \/ \E stages \in SUBSET Stages : Stays(h, stages)
    <3>1. CASE ReadRow(h)
      <4>1. Ends(h) \/ Stays(h, {"refetch", "check", "peek", "find"})
        BY <3>1, ReadRowStep DEF Stays
      <4> QED BY <4>1 DEF Stages
    <3>2. CASE CheckSlug(h)
      <4>1. Ends(h) \/ Stays(h, {"peek"}) \/ Stays(h, {"refetch", "find"})
        BY <3>2, CheckSlugStep
      <4> QED BY <4>1 DEF Stages
    <3>3. CASE Peek(h)
      <4>1. Stays(h, {"clear"}) \/ Stays(h, {"refetch", "find"})
        BY <3>3, PeekStep
      <4> QED BY <4>1 DEF Stages
    <3>4. CASE FindPlace(h)
      <4>1. Ends(h) \/ Stays(h, {"place", "refetch"})
        BY <3>4, FindPlaceStep
      <4> QED BY <4>1 DEF Stages
    <3>5. CASE Refetch(h)
      <4>1. Ends(h) \/ Stays(h, {"delete"}) \/ Stays(h, {"write"})
        BY <3>5, RefetchStep
      <4> QED BY <4>1 DEF Stages
    <3> QED BY <1>6, <3>1, <3>2, <3>3, <3>4, <3>5
  <2> QED BY <1>1, <2>1, <2>2, <2>3
<1>7. CASE Clear(h) \/ Place(h) \/ Write(h) \/ Delete(h)
  <2>1. req[h] # Idle /\ req[h].pc \notin Creating /\ UNCHANGED <<kind, calm>>
    BY <1>7, ClearStep, PlaceStep, WriteStep, DeleteStep DEF Creating
  <2>2. Ends(h) \/ Stays(h, {"refetch", "find"}) \/ Stays(h, {"refetch"})
    BY <1>7, ClearStep, PlaceStep, WriteStep, DeleteStep
  <2>3. {"refetch", "find"} \in SUBSET Stages /\ {"refetch"} \in SUBSET Stages
    BY DEF Stages
  <2> QED BY <1>1, <2>1, <2>2, <2>3
<1> QED BY <1>2, <1>3, <1>4, <1>5, <1>6, <1>7 DEF Serve

LEMMA AskInvNext == TypeInv /\ AskInv /\ [Next]_vars => AskInv'
<1> SUFFICES ASSUME TypeInv, AskInv, [Next]_vars PROVE AskInv'
  OBVIOUS
<1>0. TypeOK
  BY DEF TypeInv
<1>1. ASSUME NEW h \in Handlers, Create(h) \/ SetOption(h) \/ Seed(h) \/ Update(h) \/ Remove(h)
      PROVE  AskInv'
  <2>1. calm' = (calm /\ ~Busy) /\ kind' = kind
    BY <1>1, ArriveStep
  <2>2. PICK new \in Open :
          /\ req' = [req EXCEPT ![h] = new]
          /\ new.pc \in Creating \/ Listed
          /\ new.promoted = "yes" => kind = "blog" /\ new.op # "remove"
    BY <1>1, ArriveStep DEF Creating, Listed
  <2>3. \A g \in Handlers : req'[g] = IF g = h THEN new ELSE req[g]
    BY <1>0, <2>2 DEF TypeOK
  <2> QED BY <2>1, <2>2, <2>3 DEF AskInv, Busy, Listed
<1>2. ASSUME NEW h \in Handlers, Proceeds(h) PROVE AskInv'
  <2>0. kind' = kind /\ (calm' => calm) /\ req[h] # Idle
    BY <1>2 DEF Proceeds
  <2>1. CASE Ends(h)
    <3>1. \A g \in Handlers : req'[g] = IF g = h THEN Idle ELSE req[g]
      BY <1>0, <2>1 DEF TypeOK, Ends
    <3> QED BY <2>0, <3>1 DEF AskInv, Listed
  <2>2. CASE ~Ends(h)
    <3>1. PICK new, stage : GoesOn(h, new, stage) /\ (req[h].pc \in Creating => stage \in Creating)
      BY <1>2, <2>2 DEF Proceeds
    <3>2. /\ req' = [req EXCEPT ![h] = new] /\ new.pc = stage
          /\ new.promoted = req[h].promoted /\ new.op = req[h].op
      BY <3>1 DEF GoesOn, Follows
    <3>3. \A g \in Handlers : req'[g] = IF g = h THEN new ELSE req[g]
      BY <1>0, <3>2 DEF TypeOK
    <3> QED BY <2>0, <3>1, <3>2, <3>3 DEF AskInv, Listed
  <2> QED BY <2>1, <2>2
<1>3. CASE RemoveCategory
  <2>1. kind' = kind /\ req' = req /\ (calm' => calm)
    BY <1>3 DEF RemoveCategory
  <2> QED BY <2>1 DEF AskInv, Listed
<1>4. CASE Sync
  BY <1>4 DEF Sync, AskInv, Listed
<1>5. CASE UNCHANGED vars
  BY <1>5 DEF vars, AskInv, Listed
<1> QED BY <1>1, <1>2, <1>3, <1>4, <1>5, ProceedsStep DEF Next

\* Once the key of a request is settled: no row has the key it inserts, and none
\* but the one it updates the key that this one gets.
Settled == {"peek", "clear", "find", "place", "refetch", "write"}
Sure(q) ==
    /\ q.pc \in {"count", "insert"} => \A i \in Live(table) : table[i].key # Sought(q.name)
    /\ kind = "product" /\ q.pc \in Settled /\ (q.op # "remove" \/ q.pc = "write") =>
          \A i \in Live(table) \ {q.id} : table[i].key # Key(q.name)

KeyInv ==
    /\ OneRowPerKey
    /\ calm /\ kind = "product" => \A i \in Live(table) : table[i].key = Key(table[i].name)
    /\ calm => \A h \in Handlers : req[h] # Idle => Sure(req[h])

LEMMA KeyInvInit == Init => KeyInv
BY DEF Init, Created, KeyInv, OneRowPerKey

\* The rows there are were there with their names and keys.
KeysWithin ==
    \A i \in Ids : table'[i] # Absent =>
        table[i] # Absent /\ table'[i].name = table[i].name /\ table'[i].key = table[i].key

LEMMA KeysKept ==
    ASSUME KeyInv, KeysWithin, kind' = kind, calm' => calm
    PROVE  /\ OneRowPerKey'
           /\ (calm /\ kind = "product" => \A i \in Live(table) : table[i].key = Key(table[i].name))'
           /\ \A q : Sure(q) => Sure(q)'
<1>1. \A i \in Live(table') : i \in Live(table) /\ table'[i].name = table[i].name
                                              /\ table'[i].key = table[i].key
  BY DEF KeysWithin, Live
<1>2. OneRowPerKey'
  BY <1>1 DEF KeyInv, OneRowPerKey
<1>3. (calm /\ kind = "product" => \A i \in Live(table) : table[i].key = Key(table[i].name))'
  BY <1>1 DEF KeyInv, Key, Slugged
<1>4. ASSUME NEW q, Sure(q) PROVE Sure(q)'
  BY <1>1, <1>4 DEF Sure, Key, Sought, Slugged
<1> QED BY <1>2, <1>3, <1>4

\* As long as no request met another one, all there is to know is what becomes
\* of the one request there is.
LEMMA KeyKept ==
    ASSUME TypeInv, AskInv, KeyInv, NEW h \in Handlers, req[h] # Idle, KeysWithin, kind' = kind,
           calm' => calm,
           Ends(h) \/ \E new, stage : GoesOn(h, new, stage) /\ (calm' => Sure(new))
    PROVE  KeyInv'
<1>1. SUFFICES ASSUME calm', NEW g \in Handlers, req'[g] # Idle
               PROVE  Sure(req[g])'
  BY KeysKept DEF KeyInv
<1>2. calm /\ TypeOK
  BY <1>1 DEF TypeInv
<1>3. \A k \in Handlers : k # h => req[k] = Idle
  BY <1>2 DEF AskInv
<1>4. ~Ends(h) /\ g = h
  <2>1. req' = [req EXCEPT ![h] = Idle] \/ \E new : req' = [req EXCEPT ![h] = new]
    BY DEF Ends, GoesOn
  <2>2. g = h
    BY <1>1, <1>2, <1>3, <2>1 DEF TypeOK
  <2> QED BY <1>1, <1>2, <2>2 DEF Ends, TypeOK
<1>5. PICK new, stage : GoesOn(h, new, stage) /\ Sure(new)
  BY <1>1, <1>4
<1>6. req'[g] = new
  BY <1>2, <1>4, <1>5 DEF GoesOn, TypeOK
<1>7. Sure(new)'
  BY <1>5, KeysKept
<1> QED BY <1>6, <1>7 DEF Sure, Key, Sought, Slugged

LEMMA KeyInvReads ==
    ASSUME TypeInv, AskInv, KeyInv, NEW h \in Handlers,
           \/ Lookup(h) \/ Count(h) \/ ReadRow(h) \/ CheckSlug(h)
           \/ Peek(h) \/ FindPlace(h) \/ Refetch(h)
    PROVE  KeyInv'
<1>0. TypeOK
  BY DEF TypeInv
<1>1. req[h] # Idle /\ req[h] \in Open /\ Reads /\ Keeps
  BY <1>0, LookupStep, CountStep, ReadRowStep, CheckSlugStep, PeekStep, FindPlaceStep, RefetchStep
<1>2. KeysWithin /\ kind' = kind /\ (calm' => calm /\ replica = table)
  BY <1>1 DEF KeysWithin, Reads, Keeps
<1>3. calm => Sure(req[h])
  BY <1>1 DEF KeyInv
<1>4. ASSUME NEW stages, Ends(h) \/ Stays(h, stages), req[h].pc \in Settled,
             stages \subseteq Settled \union {"delete"},
             "write" \in stages => req[h].op # "remove"
      PROVE  KeyInv'
  <2>1. SUFFICES ASSUME NEW new, NEW stage \in stages, GoesOn(h, new, stage), new.id = req[h].id,
                        calm'
                 PROVE  Sure(new)
    BY <1>1, <1>2, <1>4, KeyKept, Zenon DEF Stays
  <2>2. new.pc = stage /\ new.op = req[h].op /\ new.name = req[h].name
    BY <2>1 DEF GoesOn, Follows
  <2>3. stage \notin {"count", "insert"} /\ (stage \in Settled \/ stage = "delete")
    BY <1>4, <2>1 DEF Settled
  <2> QED BY <1>2, <1>3, <1>4, <2>1, <2>2, <2>3 DEF Sure, Settled
<1>5. CASE Lookup(h)
  <2>1. ASSUME NEW new, GoesOn(h, new, "amend") PROVE Sure(new)
    BY <2>1 DEF GoesOn, Follows, Sure, Settled
  <2>2. ASSUME NEW new, GoesOn(h, new, IF Ordered THEN "count" ELSE "insert"), Found(h) = {}, calm'
        PROVE  Sure(new)
    <3>1. new.pc \in {"count", "insert"} /\ new.name = req[h].name
      BY <2>2 DEF GoesOn, Follows
    <3>2. \A i \in Live(table) : table[i].key # Sought(req[h].name)
      BY <1>2, <2>2 DEF Found, Holders
    <3> QED BY <3>1, <3>2 DEF Sure, Settled
  <2>3. \/ Ends(h)
        \/ \E new : GoesOn(h, new, "amend")
        \/ \E new : GoesOn(h, new, IF Ordered THEN "count" ELSE "insert") /\ Found(h) = {}
    BY <1>0, <1>5, LookupStep
  <2>4. Ends(h) \/ \E new, stage : GoesOn(h, new, stage) /\ (calm' => Sure(new))
    BY <2>1, <2>2, <2>3
  <2> QED BY <1>1, <1>2, <2>4, KeyKept
<1>6. CASE Count(h)
  <2>1. PICK new : GoesOn(h, new, "insert")
    BY <1>0, <1>6, CountStep
  <2>2. new.pc = "insert" /\ new.name = req[h].name /\ req[h].pc = "count"
    BY <1>0, <1>6, <2>1, CountStep DEF GoesOn, Follows
  <2>3. calm' => Sure(new)
    BY <1>2, <1>3, <2>2 DEF Sure, Settled
  <2> QED BY <1>1, <1>2, <2>1, <2>3, KeyKept
<1>7. CASE ReadRow(h)
  <2>1. CASE Ends(h)
    BY <1>1, <1>2, <2>1, KeyKept
  <2>2. CASE ~Ends(h)
    <3>1. PICK new, stage :
            /\ stage \in {"refetch", "check", "peek", "find"}
            /\ replica[req[h].id] # Absent /\ GoesOn(h, new, stage) /\ new.id = req[h].id
            /\ stage # "check" /\ req[h].op # "remove" /\ kind # "service" =>
                  replica[req[h].id].name = req[h].name
      BY <1>7, <2>2, ReadRowStep
    <3>2. new.pc = stage /\ new.name = req[h].name /\ new.op = req[h].op /\ req[h].id \in Ids
      BY <1>7, <3>1, ReadRowStep DEF GoesOn, Follows
    <3>3. ASSUME calm', kind = "product", stage # "check", req[h].op # "remove"
          PROVE  \A i \in Live(table) \ {req[h].id} : table[i].key # Key(req[h].name)
      <4>1. req[h].id \in Live(table) /\ table[req[h].id].name = req[h].name /\ calm
        BY <1>2, <3>1, <3>2, <3>3 DEF Live
      <4>2. table[req[h].id].key = Key(req[h].name)
        BY <3>3, <4>1 DEF KeyInv
      <4> QED BY <3>3, <4>1, <4>2 DEF KeyInv, OneRowPerKey
    <3>4. calm' => Sure(new)
      BY <3>1, <3>2, <3>3 DEF Sure, Settled
    <3> QED BY <1>1, <1>2, <3>1, <3>4, KeyKept
  <2> QED BY <2>1, <2>2
<1>8. CASE CheckSlug(h)
  <2>1. CASE Ends(h)
    BY <1>1, <1>2, <2>1, KeyKept
  <2>2. CASE ~Ends(h)
    <3>1. Holders(Key(req[h].name)) \ {req[h].id} = {}
      BY <1>8, <2>2, CheckSlugStep
    <3>2. PICK new, stage : GoesOn(h, new, stage) /\ new.id = req[h].id
                            /\ stage \in {"peek", "refetch", "find"}
      <4>1. Stays(h, {"peek"}) \/ Stays(h, {"refetch", "find"})
        BY <1>8, <2>2, CheckSlugStep
      <4> QED BY <4>1 DEF Stays
    <3>3. new.name = req[h].name /\ new.pc = stage
      BY <3>2 DEF GoesOn, Follows
    <3>4. calm' => Sure(new)
      BY <1>2, <3>1, <3>2, <3>3 DEF Sure, Holders
    <3> QED BY <1>1, <1>2, <3>2, <3>4, KeyKept
  <2> QED BY <2>1, <2>2
<1>9. CASE Peek(h)
  <2>1. Stays(h, {"clear"}) \/ Stays(h, {"refetch", "find"})
    BY <1>9, PeekStep
  <2> QED BY <1>4, <1>9, <2>1, PeekStep DEF Settled
<1>10. CASE FindPlace(h)
  <2>1. Ends(h) \/ Stays(h, {"place", "refetch"})
    BY <1>10, FindPlaceStep
  <2> QED BY <1>4, <1>10, <2>1, FindPlaceStep DEF Settled
<1>11. CASE Refetch(h)
  <2>1. \/ Ends(h) \/ Stays(h, {"delete"})
        \/ req[h].op # "remove" /\ Stays(h, {"write"})
    BY <1>11, RefetchStep
  <2>2. req[h].pc \in Settled
    BY <1>11, RefetchStep DEF Settled
  <2>3. CASE Ends(h) \/ Stays(h, {"delete"})
    BY <1>4, <2>2, <2>3
  <2>4. CASE req[h].op # "remove" /\ Stays(h, {"write"})
    BY <1>4, <2>2, <2>4 DEF Settled
  <2> QED BY <2>1, <2>3, <2>4
<1> QED BY <1>5, <1>6, <1>7, <1>8, <1>9, <1>10, <1>11

LEMMA KeyInvInserts ==
    ASSUME TypeInv, AskInv, KeyInv, NEW h \in Handlers, Insert(h)
    PROVE  KeyInv'
<1>0. TypeOK /\ kind' = kind /\ calm' = calm
  BY InsertStep DEF TypeInv
<1> DEFINE q == req[h]
<1>1. /\ q # Idle /\ q \in Open /\ q.pc = "insert" /\ NewRow(q) \in Rows
      /\ kind = "admin" => \A i \in Live(table) : table[i].key # Key(q.name)
      /\ Ends(h) \/ \E new : GoesOn(h, new, "amend")
  BY <1>0, InsertStep
<1>2. PICK i \in Ids : table[i] = Absent /\ Store([table EXCEPT ![i] = NewRow(q)])
  BY <1>0, InsertStep
<1>3. calm => \A j \in Live(table) : table[j].key # Sought(q.name)
  BY <1>1 DEF KeyInv, Sure
<1>4. NewRow(q).name = q.name /\ NewRow(q).key = Key(q.name)
  BY DEF NewRow
<1> HIDE DEF q
<1>5. \A j \in Live(table') : \/ j \in Live(table) /\ table'[j] = table[j]
                              \/ j = i /\ table'[j] = NewRow(q)
  BY <1>0, <1>2 DEF Live, Store, TypeOK
<1>6. \A j \in Live(table) : kind = "admin" \/ (calm /\ kind # "service") =>
        \/ table[j].key # Key(q.name)
        \/ kind = "points" /\ Folded[Key(q.name)] # Key(q.name)
  BY <1>1, <1>3 DEF Key, Sought, Slugged
<1>7. OneRowPerKey'
  <2> SUFFICES ASSUME (calm /\ kind # "service") \/ kind = "admin",
                      NEW j \in Live(table'), NEW k \in Live(table'), j # k,
                      table'[j].key = table'[k].key
               PROVE  kind = "points" /\ Folded[table'[j].key] # table'[j].key
    BY <1>0 DEF OneRowPerKey
  <2>1. CASE j # i /\ k # i
    BY <1>5, <2>1 DEF KeyInv, OneRowPerKey
  <2>2. CASE j = i
    BY <1>2, <1>4, <1>5, <1>6, <2>2 DEF Live
  <2>3. CASE k = i
    BY <1>2, <1>4, <1>5, <1>6, <2>3 DEF Live
  <2> QED BY <2>1, <2>2, <2>3
<1>8. (calm /\ kind = "product" => \A j \in Live(table) : table[j].key = Key(table[j].name))'
  BY <1>0, <1>4, <1>5 DEF KeyInv, Key, Slugged
<1>9. ASSUME calm', NEW g \in Handlers, req'[g] # Idle
      PROVE  Sure(req[g])'
  <2>1. \A k \in Handlers : k # h => req[k] = Idle
    BY <1>0, <1>1, <1>9 DEF AskInv, q
  <2>2. req'[g].pc = "amend"
    BY <1>0, <1>1, <1>9, <2>1 DEF TypeOK, Ends, GoesOn, Follows
  <2> QED BY <2>2 DEF Sure, Settled
<1> QED BY <1>7, <1>8, <1>9 DEF KeyInv

LEMMA KeyInvWrite ==
    ASSUME TypeInv, AskInv, KeyInv, NEW h \in Handlers, Write(h)
    PROVE  KeyInv'
<1>0. TypeOK /\ kind' = kind /\ calm' = calm /\ Ends(h)
  BY WriteStep DEF TypeInv
<1> DEFINE q == req[h]
           i == req[h].id
<1>1. q # Idle /\ q \in Open /\ q.pc = "write" /\ i \in Ids
  BY WriteStep
<1>2. CASE table[i] = Absent
  <2>1. KeysWithin
    BY <1>2, WriteStep DEF Store, KeysWithin
  <2> QED BY <1>0, <1>1, <2>1, KeyKept
<1>3. CASE table[i] # Absent
  <2>1. /\ table[i] \in Rows /\ Store([table EXCEPT ![i] = Updated(table[i], q)])
    BY <1>3, WriteStep
  <2>2. /\ Updated(table[i], q).name = q.name
        /\ Updated(table[i], q).key =
               IF kind \in {"product", "service"} THEN Key(q.name) ELSE table[i].key
    BY <1>1, <2>1, UpdatedIsRow
  <2>3. calm /\ kind = "product" => \A j \in Live(table) \ {i} : table[j].key # Key(q.name)
    BY <1>1 DEF KeyInv, Sure, Settled
  <2>4. kind \in {"blog", "category", "product", "service"}
    BY <1>1 DEF AskInv, Listed, Creating
  <2>5. i \in Live(table)
    BY <1>1, <1>3 DEF Live
  <2> HIDE DEF q, i
  <2>6. \A j \in Live(table') : /\ j \in Live(table)
                                /\ j # i => table'[j] = table[j]
                                /\ j = i => table'[j] = Updated(table[i], q)
    BY <1>0, <1>1, <2>1, <2>5 DEF Live, Store, TypeOK
  <2>7. OneRowPerKey'
    <3> SUFFICES ASSUME calm, kind # "service",
                        NEW j \in Live(table'), NEW k \in Live(table'), j # k,
                        table'[j].key = table'[k].key
                 PROVE  FALSE
      BY <1>0, <2>4 DEF OneRowPerKey
    <3>1. kind = "product" \/ kind \in {"blog", "category"}
      BY <2>4
    <3>2. \A a, b \in Live(table) : a # b => table[a].key # table[b].key
      BY <2>4 DEF KeyInv, OneRowPerKey
    <3>3. CASE kind \in {"blog", "category"}
      <4>1. \A a \in Live(table') : table'[a].key = table[a].key
        BY <2>2, <2>6, <3>3
      <4> QED BY <2>6, <3>2, <4>1
    <3>4. CASE kind = "product"
      <4>1. CASE j # i /\ k # i
        BY <2>6, <3>2, <4>1
      <4>2. CASE j = i
        BY <2>2, <2>3, <2>6, <3>4, <4>2
      <4>3. CASE k = i
        BY <2>2, <2>3, <2>6, <3>4, <4>3
      <4> QED BY <4>1, <4>2, <4>3
    <3> QED BY <3>1, <3>3, <3>4
  <2>8. (calm /\ kind = "product" => \A j \in Live(table) : table[j].key = Key(table[j].name))'
    <3> SUFFICES ASSUME calm, kind = "product", NEW j \in Live(table')
                 PROVE  table'[j].key = Key(table'[j].name)
      BY <1>0 DEF Key, Slugged
    <3>1. CASE j = i
      BY <2>2, <2>6, <3>1
    <3>2. CASE j # i
      BY <2>6, <3>2 DEF KeyInv
    <3> QED BY <3>1, <3>2
  <2>9. ASSUME calm', NEW g \in Handlers PROVE req'[g] = Idle
    BY <1>0, <1>1, <2>9 DEF AskInv, q, Ends, TypeOK
  <2> QED BY <2>7, <2>8, <2>9 DEF KeyInv
<1> QED BY <1>2, <1>3

LEMMA KeyInvServes ==
    ASSUME TypeInv, AskInv, KeyInv, NEW h \in Handlers,
           Amend(h) \/ RequestError(h) \/ Clear(h) \/ Place(h) \/ Delete(h)
    PROVE  KeyInv'
<1>0. TypeOK
  BY DEF TypeInv
<1>1. req[h] # Idle /\ kind' = kind /\ calm' = calm
  BY EndStep, ClearStep, PlaceStep, DeleteStep
<1>2. KeysWithin
  <2>1. CASE Amend(h) \/ RequestError(h)
    BY <2>1, EndStep DEF KeysWithin, Unwritten
  <2>2. CASE Clear(h)
    <3>1. Store(Cleared(table))
      BY <2>2, ClearStep
    <3> QED BY <1>0, <3>1, ClearedType DEF KeysWithin, Store, Live
  <2>3. CASE Place(h)
    BY <2>3, PlaceStep DEF KeysWithin, Store
  <2>4. CASE Delete(h)
    <3>1. table' = [table EXCEPT ![req[h].id] = Absent]
      BY <2>4, DeleteStep DEF Store
    <3> QED BY <1>0, <3>1 DEF KeysWithin, TypeOK
  <2> QED BY <2>1, <2>2, <2>3, <2>4
<1>3. ASSUME NEW stages, Stays(h, stages), req[h].pc \in Settled,
             stages \subseteq Settled \ {"write"}
      PROVE  KeyInv'
  <2>1. SUFFICES ASSUME NEW new, NEW stage \in stages, GoesOn(h, new, stage), new.id = req[h].id,
                        calm'
                 PROVE  Sure(new)
    BY <1>1, <1>2, <1>3, KeyKept, Zenon DEF Stays
  <2>2. new.pc = stage /\ new.op = req[h].op /\ new.name = req[h].name
    BY <2>1 DEF GoesOn, Follows
  <2>3. stage \notin {"count", "insert", "write"}
    BY <1>3, <2>1 DEF Settled
  <2>4. Sure(req[h])
    BY <1>1, <2>1 DEF KeyInv
  <2> QED BY <1>3, <2>1, <2>2, <2>3, <2>4 DEF Sure
<1>4. CASE Amend(h) \/ RequestError(h) \/ Delete(h)
  <2>1. Ends(h)
    BY <1>4, EndStep, DeleteStep
  <2> QED BY <1>1, <1>2, <2>1, KeyKept
<1>5. CASE Clear(h)
  BY <1>3, <1>5, ClearStep DEF Settled
<1>6. CASE Place(h)
  BY <1>3, <1>6, PlaceStep DEF Settled
<1> QED BY <1>4, <1>5, <1>6

LEMMA KeyInvNext == TypeInv /\ AskInv /\ KeyInv /\ [Next]_vars => KeyInv'
<1> SUFFICES ASSUME TypeInv, AskInv, KeyInv, [Next]_vars PROVE KeyInv'
  OBVIOUS
<1>0. TypeOK
  BY DEF TypeInv
<1>1. ASSUME NEW h \in Handlers, Create(h) \/ SetOption(h) \/ Seed(h) \/ Update(h) \/ Remove(h)
      PROVE  KeyInv'
  <2>1. calm' = (calm /\ ~Busy) /\ kind' = kind /\ table' = table
    BY <1>1, ArriveStep DEF Unwritten
  <2>2. PICK new \in Open : req' = [req EXCEPT ![h] = new] /\ new.pc \in {"lookup", "read"}
    BY <1>1, ArriveStep
  <2>3. KeysWithin
    BY <2>1 DEF KeysWithin
  <2>4. ASSUME calm', NEW g \in Handlers, req'[g] # Idle PROVE Sure(req[g])'
    <3>1. req'[g] = new
      BY <1>0, <2>1, <2>2, <2>4 DEF Busy, TypeOK
    <3> QED BY <2>2, <3>1 DEF Sure, Settled
  <2> QED BY <2>1, <2>3, <2>4, KeysKept DEF KeyInv
<1>2. CASE RemoveCategory
  <2>1. PICK gone \in SUBSET Live(table) : Store(Without(gone))
    BY <1>2 DEF RemoveCategory, Without
  <2>2. kind' = kind /\ req' = req /\ calm' = (calm /\ ~Busy)
    BY <1>2 DEF RemoveCategory
  <2>3. KeysWithin
    BY <2>1 DEF Store, Without, KeysWithin
  <2>4. ASSUME calm', NEW g \in Handlers PROVE req'[g] = Idle
    BY <2>2, <2>4 DEF Busy
  <2> QED BY <2>2, <2>3, <2>4, KeysKept DEF KeyInv
<1>3. CASE Sync \/ UNCHANGED vars
  <2>1. kind' = kind /\ req' = req /\ calm' = calm /\ table' = table
    BY <1>3 DEF Sync, vars
  <2>2. KeysWithin
    BY <2>1 DEF KeysWithin
  <2>3. ASSUME calm', NEW g \in Handlers, req'[g] # Idle PROVE Sure(req[g])'
    <3>1. Sure(req[g])
      BY <2>1, <2>3 DEF KeyInv
    <3>2. Sure(req[g])' = Sure(req[g])
      BY <2>1 DEF Sure, Key, Sought, Slugged
    <3> QED BY <3>1, <3>2
  <2> QED BY <2>1, <2>2, <2>3, KeysKept DEF KeyInv
<1> QED BY <1>1, <1>2, <1>3, KeyInvReads, KeyInvInserts, KeyInvWrite, KeyInvServes DEF Next, Serve

\* Rows keep their keys apart: the administrators always, by their index, and
\* the rows of the other tables as long as the look before a write is not
\* overtaken by another request or by the lag of the replica.
THEOREM KeysAreApart == Spec => []OneRowPerKey
<1>1. Init => AskInv
  BY DEF Init, AskInv
<1>2. Spec => [](TypeInv /\ AskInv /\ KeyInv)
  BY <1>1, TypeInvInit, KeyInvInit, TypeInvNext, AskInvNext, KeyInvNext, PTL DEF Spec
<1> QED BY <1>2, PTL DEF KeyInv

-----------------------------------------------------------------------------
(* Orders *)

Settles == calm /\ ~reordered /\ Ordered
RankInv ==
    /\ OrdersAreRanks
    /\ Settles => \A h \in Handlers : req[h] # Idle /\ req[h].pc = "insert" =>
          req[h].order = Cardinality(Live(table)) + 1

LEMMA RankInvInit == Init => RankInv
BY DEF Init, Created, RankInv, OrdersAreRanks, Settles

\* The same rows with the same orders.
SameOrders == Live(table') = Live(table) /\ \A i \in Live(table) : table'[i].order = table[i].order

LEMMA RanksKept ==
    ASSUME RankInv, SameOrders, Settles' => Settles
    PROVE  OrdersAreRanks'
<1> SUFFICES ASSUME Settles'
             PROVE  {table'[i].order : i \in Live(table')} = 1..Cardinality(Live(table'))
  BY DEF OrdersAreRanks, Settles
<1>1. {table[i].order : i \in Live(table)} = 1..Cardinality(Live(table))
  BY DEF RankInv, OrdersAreRanks, Settles
<1>2. {table'[i].order : i \in Live(table')} = {table[i].order : i \in Live(table)}
  BY DEF SameOrders
<1> QED BY <1>1, <1>2 DEF SameOrders

LEMMA RankKept ==
    ASSUME TypeInv, AskInv, RankInv, NEW h \in Handlers, req[h] # Idle, SameOrders,
           Settles' => Settles,
           \/ Ends(h)
           \/ \E new, stage : GoesOn(h, new, stage) /\
                 (Settles' /\ stage = "insert" => new.order = Cardinality(Live(table)) + 1)
    PROVE  RankInv'
<1>1. SUFFICES ASSUME Settles', NEW g \in Handlers, req'[g] # Idle, req'[g].pc = "insert"
               PROVE  req'[g].order = Cardinality(Live(table')) + 1
  BY RanksKept DEF RankInv
<1>2. Settles /\ calm /\ TypeOK
  BY <1>1 DEF TypeInv, Settles
<1>3. \A k \in Handlers : k # h => req[k] = Idle
  BY <1>2 DEF AskInv
<1>4. ~Ends(h) /\ g = h
  <2>1. req' = [req EXCEPT ![h] = Idle] \/ \E new : req' = [req EXCEPT ![h] = new]
    BY DEF Ends, GoesOn
  <2>2. g = h
    BY <1>1, <1>2, <1>3, <2>1 DEF TypeOK
  <2> QED BY <1>1, <1>2, <2>2 DEF Ends, TypeOK
<1>5. PICK new, stage : GoesOn(h, new, stage) /\
                 (stage = "insert" => new.order = Cardinality(Live(table)) + 1)
  BY <1>1, <1>4
<1>6. req'[g] = new /\ new.pc = stage
  BY <1>2, <1>4, <1>5 DEF GoesOn, Follows, TypeOK
<1> QED BY <1>1, <1>5, <1>6 DEF SameOrders

LEMMA RankInvInserts ==
    ASSUME TypeInv, AskInv, RankInv, NEW h \in Handlers, Insert(h)
    PROVE  RankInv'
<1>0. TypeOK /\ UNCHANGED <<kind, calm, reordered>>
  BY InsertStep DEF TypeInv
<1> DEFINE q == req[h]
           n == Cardinality(Live(table))
<1>1. q # Idle /\ q \in Open /\ q.pc = "insert" /\ NewRow(q) \in Rows
  BY <1>0, InsertStep
<1>2. SUFFICES ASSUME Settles PROVE RankInv'
  BY <1>0 DEF RankInv, OrdersAreRanks, Settles, Ordered
<1>3. PICK i \in Ids : table[i] = Absent /\ Store([table EXCEPT ![i] = NewRow(q)])
  BY <1>0, InsertStep
<1>4. q.order = n + 1 /\ n \in Nat /\ {table[j].order : j \in Live(table)} = 1..n
  <2>1. n \in 0..Cardinality(Ids) /\ Cardinality(Ids) \in Nat
    BY CountType, CatalogueAssumption, FS_CardinalityType
  <2> QED BY <1>1, <1>2, <2>1 DEF RankInv, OrdersAreRanks, Settles
<1>5. NewRow(q).order = q.order /\ NewRow(q) # Absent
  BY <1>1, AbsentIsNoRow DEF NewRow
<1> HIDE DEF q
<1>6. /\ table'[i] = NewRow(q) /\ i \notin Live(table)
      /\ \A j \in Ids : j # i => table'[j] = table[j]
  BY <1>0, <1>3 DEF Live, Store, TypeOK
<1>7. Live(table') = Live(table) \union {i}
  BY <1>3, <1>5, <1>6 DEF Live
<1>8. Cardinality(Live(table')) = n + 1
  BY <1>6, <1>7, CountType, FS_AddElement
<1>9. {table'[j].order : j \in Live(table')} = (1..n) \union {n + 1}
  <2>1. \A j \in Live(table) : table'[j] = table[j]
    BY <1>6 DEF Live
  <2>2. {table'[j].order : j \in Live(table')}
           = {table'[j].order : j \in Live(table)} \union {table'[i].order}
    BY <1>7
  <2>3. {table'[j].order : j \in Live(table)} = {table[j].order : j \in Live(table)}
    BY <2>1
  <2> QED BY <1>4, <1>5, <1>6, <2>2, <2>3
<1> HIDE DEF n
<1>10. OrdersAreRanks'
  <2>1. (1..n) \union {n + 1} = 1..(n + 1)
    BY <1>4
  <2> QED BY <1>8, <1>9, <2>1 DEF OrdersAreRanks
<1>11. ASSUME NEW g \in Handlers, req'[g] # Idle PROVE req'[g].pc # "insert"
  <2>1. \A k \in Handlers : k # h => req[k] = Idle
    BY <1>1, <1>2 DEF AskInv, Settles, q
  <2>2. Ends(h) \/ \E new : GoesOn(h, new, "amend")
    BY <1>0, InsertStep
  <2> QED BY <1>0, <1>11, <2>1, <2>2 DEF Ends, GoesOn, Follows, TypeOK
<1> QED BY <1>10, <1>11 DEF RankInv

LEMMA RankInvServes ==
    ASSUME TypeInv, AskInv, RankInv, NEW h \in Handlers, Serve(h), Proceeds(h), ~Insert(h)
    PROVE  RankInv'
<1>0. TypeOK
  BY DEF TypeInv
<1>1. req[h] # Idle /\ kind' = kind /\ (calm' => calm)
  BY DEF Proceeds
<1>2. ASSUME SameOrders, reordered' = reordered,
             \/ Ends(h)
             \/ \E stages : "insert" \notin stages /\ Stays(h, stages)
      PROVE  RankInv'
  <2>1. Settles' => Settles
    BY <1>1, <1>2 DEF Settles, Ordered
  <2>2. Ends(h) \/ \E new, stage : GoesOn(h, new, stage) /\ stage # "insert"
    BY <1>2 DEF Stays
  <2> QED BY <1>1, <1>2, <2>1, <2>2, RankKept
<1>3. table' = table => SameOrders
  BY DEF SameOrders
<1>4. CASE Lookup(h)
  <2>1. table' = table /\ reordered' = reordered
    BY <1>0, <1>4, LookupStep DEF Reads, Keeps, Unwritten
  <2>2. Settles' => Settles
    BY <1>1, <2>1 DEF Settles, Ordered
  <2>3. \/ Ends(h)
        \/ \E new : \E stage \in {"amend", IF Ordered THEN "count" ELSE "insert"} :
              GoesOn(h, new, stage)
    BY <1>0, <1>4, LookupStep
  <2>4. \/ Ends(h)
        \/ \E new, stage : GoesOn(h, new, stage) /\ ~(Settles' /\ stage = "insert")
    BY <2>2, <2>3 DEF Settles
  <2> QED BY <1>1, <1>3, <2>1, <2>2, <2>4, RankKept
<1>5. CASE Count(h)
  <2>1. table' = table /\ reordered' = reordered /\ calm' = (calm /\ replica = table)
    BY <1>0, <1>5, CountStep DEF Reads, Keeps, Unwritten
  <2>2. Settles' => Settles /\ replica = table
    BY <1>1, <2>1 DEF Settles, Ordered
  <2>3. \E new : GoesOn(h, new, "insert") /\ new.order = Cardinality(Live(replica)) + 1
    BY <1>0, <1>5, CountStep
  <2> QED BY <1>1, <1>3, <2>1, <2>2, <2>3, RankKept
<1>6. CASE Amend(h) \/ RequestError(h)
  BY <1>2, <1>3, <1>6, EndStep DEF Unwritten
<1>7. CASE ReadRow(h)
  <2>1. Ends(h) \/ Stays(h, {"refetch", "check", "peek", "find"})
    BY <1>7, ReadRowStep DEF Stays
  <2>2. Reads /\ Keeps
    BY <1>7, ReadRowStep
  <2> QED BY <1>2, <1>3, <2>1, <2>2 DEF Reads, Keeps, Unwritten
<1>8. CASE CheckSlug(h)
  <2>1. Ends(h) \/ Stays(h, {"peek"}) \/ Stays(h, {"refetch", "find"})
    BY <1>8, CheckSlugStep
  <2>2. Reads /\ Keeps
    BY <1>8, CheckSlugStep
  <2> QED BY <1>2, <1>3, <2>1, <2>2 DEF Reads, Keeps, Unwritten
<1>9. CASE Peek(h)
  <2>1. Stays(h, {"clear"}) \/ Stays(h, {"refetch", "find"})
    BY <1>9, PeekStep
  <2>2. Reads /\ Keeps
    BY <1>9, PeekStep
  <2> QED BY <1>2, <1>3, <2>1, <2>2 DEF Reads, Keeps, Unwritten
<1>10. CASE FindPlace(h)
  <2>1. Ends(h) \/ Stays(h, {"place", "refetch"})
    BY <1>10, FindPlaceStep
  <2>2. Reads /\ Keeps
    BY <1>10, FindPlaceStep
  <2> QED BY <1>2, <1>3, <2>1, <2>2 DEF Reads, Keeps, Unwritten
<1>11. CASE Refetch(h)
  <2>1. Ends(h) \/ Stays(h, {"delete"}) \/ Stays(h, {"write"})
    BY <1>11, RefetchStep
  <2>2. Reads /\ Keeps
    BY <1>11, RefetchStep
  <2> QED BY <1>2, <1>3, <2>1, <2>2 DEF Reads, Keeps, Unwritten
<1>12. CASE Clear(h)
  <2>1. Store(Cleared(table)) /\ reordered' = reordered /\ Stays(h, {"refetch", "find"})
    BY <1>12, ClearStep
  <2>2. SameOrders
    BY <1>0, <2>1, ClearedType DEF Store, SameOrders
  <2> QED BY <1>2, <2>1, <2>2
<1>13. CASE Place(h)
  <2>1. Store(table) /\ reordered' = reordered /\ Stays(h, {"refetch"})
    BY <1>13, PlaceStep
  <2> QED BY <1>2, <1>3, <2>1 DEF Store
<1>14. CASE Write(h)
  <2> DEFINE i == req[h].id
  <2>1. Ends(h) /\ i \in Ids /\ req[h] \in Open
    BY <1>14, WriteStep
  <2>2. CASE table[i] = Absent
    <3>1. Store(table) /\ reordered' = reordered
      BY <1>14, <2>2, WriteStep
    <3> QED BY <1>2, <1>3, <2>1, <3>1 DEF Store
  <2>3. CASE table[i] # Absent
    <3>1. /\ table[i] \in Rows
          /\ table' = [table EXCEPT ![i] = Updated(table[i], req[h])]
          /\ reordered' = (reordered \/ (Ordered /\ table[i].order # req[h].order))
      BY <1>14, <2>3, WriteStep DEF Store
    <3>2. SUFFICES ASSUME Ordered, ~reordered' PROVE RankInv'
      BY <1>1 DEF RankInv, OrdersAreRanks, Settles, Ordered
    <3>3. reordered' = reordered /\ table[i].order = req[h].order
      BY <1>0, <3>1, <3>2 DEF TypeOK
    <3>4. Updated(table[i], req[h]) \in Rows /\ Updated(table[i], req[h]).order = req[h].order
      BY <2>1, <3>1, <3>2, UpdatedIsRow
    <3>5. Updated(table[i], req[h]) # Absent
      BY <3>4, AbsentIsNoRow
    <3> HIDE DEF i
    <3>6. Live(table') = Live(table)
      BY <1>0, <2>1, <2>3, <3>1, <3>5 DEF Live, TypeOK
    <3>7. \A j \in Live(table) : table'[j].order = table[j].order
      BY <1>0, <2>1, <3>1, <3>3, <3>4 DEF Live, TypeOK
    <3> QED BY <1>2, <2>1, <3>3, <3>6, <3>7 DEF SameOrders
  <2> QED BY <2>2, <2>3
<1>15. CASE Delete(h)
  <2>1. /\ Ends(h) /\ table' = [table EXCEPT ![req[h].id] = Absent] /\ req[h].id \in Ids
        /\ reordered' = (reordered \/ table[req[h].id] # Absent)
    BY <1>15, DeleteStep DEF Store
  <2>2. CASE reordered'
    BY <2>2 DEF RankInv, OrdersAreRanks, Settles
  <2>3. CASE ~reordered'
    <3>1. table' = table /\ reordered' = reordered
      BY <1>0, <2>1, <2>3 DEF TypeOK
    <3> QED BY <1>2, <1>3, <2>1, <3>1
  <2> QED BY <2>2, <2>3
<1>16. CASE Create(h) \/ SetOption(h) \/ Seed(h) \/ Update(h) \/ Remove(h)
  BY <1>1, <1>16, ArriveStep
<1> QED BY <1>4, <1>5, <1>6, <1>7, <1>8, <1>9, <1>10, <1>11, <1>12, <1>13, <1>14, <1>15, <1>16
        DEF Serve

LEMMA RankInvNext == TypeInv /\ AskInv /\ RankInv /\ [Next]_vars => RankInv'
<1> SUFFICES ASSUME TypeInv, AskInv, RankInv, [Next]_vars PROVE RankInv'
  OBVIOUS
<1>0. TypeOK
  BY DEF TypeInv
<1>1. ASSUME NEW h \in Handlers, Create(h) \/ SetOption(h) \/ Seed(h) \/ Update(h) \/ Remove(h)
      PROVE  RankInv'
  <2>1. calm' = (calm /\ ~Busy) /\ kind' = kind /\ table' = table /\ reordered' = reordered
    BY <1>1, ArriveStep DEF Unwritten
  <2>2. PICK new \in Open : req' = [req EXCEPT ![h] = new] /\ new.pc \in {"lookup", "read"}
    BY <1>1, ArriveStep
  <2>3. SameOrders /\ (Settles' => Settles /\ ~Busy)
    BY <2>1 DEF SameOrders, Settles, Ordered
  <2>4. ASSUME Settles', NEW g \in Handlers, req'[g] # Idle PROVE req'[g].pc # "insert"
    <3>1. req'[g] = new
      BY <1>0, <2>2, <2>3, <2>4 DEF Busy, TypeOK
    <3> QED BY <2>2, <3>1
  <2> QED BY <2>3, <2>4, RanksKept DEF RankInv
<1>2. CASE RemoveCategory
  <2>1. PICK gone \in SUBSET Live(table) :
          Store(Without(gone)) /\ reordered' = (reordered \/ gone # {})
    BY <1>2 DEF RemoveCategory, Without
  <2>2. kind' = kind /\ req' = req /\ calm' = (calm /\ ~Busy)
    BY <1>2 DEF RemoveCategory
  <2>3. CASE gone # {}
    BY <2>1, <2>3 DEF RankInv, OrdersAreRanks, Settles
  <2>4. CASE gone = {}
    <3>1. table' = table
      BY <1>0, <2>1, <2>4 DEF Store, Without, TypeOK
    <3>2. SameOrders /\ (Settles' => Settles /\ ~Busy)
      BY <1>0, <2>1, <2>2, <2>4, <3>1 DEF SameOrders, Settles, Ordered, TypeOK
    <3>3. ASSUME Settles', NEW g \in Handlers PROVE req'[g] = Idle
      BY <2>2, <3>2, <3>3 DEF Busy
    <3> QED BY <3>2, <3>3, RanksKept DEF RankInv
  <2> QED BY <2>3, <2>4
<1>3. CASE Sync \/ UNCHANGED vars
  BY <1>3 DEF Sync, vars, RankInv, OrdersAreRanks, Settles, Ordered
<1> QED BY <1>1, <1>2, <1>3, RankInvInserts, RankInvServes, ProceedsStep DEF Next

\* The orders of blogs and categories are 1, 2, ... as long as nothing was
\* removed or moved: a creation then counts the rows there are.
THEOREM OrdersAreTheRanks == Spec => []OrdersAreRanks
<1>1. Init => AskInv
  BY DEF Init, AskInv
<1>2. Spec => [](TypeInv /\ AskInv /\ RankInv)
  BY <1>1, TypeInvInit, RankInvInit, TypeInvNext, AskInvNext, RankInvNext, PTL DEF Spec
<1> QED BY <1>2, PTL DEF RankInv

-----------------------------------------------------------------------------
(* Promotions *)

\* Blogs that are promoted, and not since they were created.
Promoted == {i \in Live(table) \ born : table[i].promoted}

\* Where an update is that has cleared the other promotions.
Cleaned == {"find", "place", "refetch", "write"}
PromotedInv ==
    calm => /\ \A i, j \in Promoted : i = j
            /\ \A h \in Handlers : req[h] # Idle /\ req[h].pc \in Cleaned /\ req[h].promoted = "yes" =>
                  Promoted = {}

LEMMA PromotedInvInit == Init => PromotedInv
BY DEF Init, Created, PromotedInv, Promoted

LEMMA PromotedIsOne == PromotedInv => OnePromoted
<1> SUFFICES ASSUME calm, \A i, j \in Promoted : i = j PROVE Cardinality(Promoted) <= 1
  BY DEF PromotedInv, OnePromoted, Promoted
<1>1. CASE Promoted = {}
  BY <1>1, FS_EmptySet
<1>2. CASE Promoted # {}
  <2>1. PICK i : Promoted = {i}
    BY <1>2
  <2> QED BY <2>1, FS_Singleton
<1> QED BY <1>1, <1>2

LEMMA PromotedKept ==
    ASSUME TypeInv, AskInv, PromotedInv, NEW h \in Handlers, req[h] # Idle, calm' => calm,
           Promoted' \subseteq Promoted,
           \/ Ends(h)
           \/ \E new, stage : GoesOn(h, new, stage) /\
                 (calm' /\ stage \in Cleaned /\ req[h].promoted = "yes" => Promoted' = {})
    PROVE  PromotedInv'
<1>1. SUFFICES ASSUME calm', NEW g \in Handlers, req'[g] # Idle, req'[g].pc \in Cleaned,
                      req'[g].promoted = "yes"
               PROVE  Promoted' = {}
  BY DEF PromotedInv
<1>2. calm /\ TypeOK
  BY <1>1 DEF TypeInv
<1>3. \A k \in Handlers : k # h => req[k] = Idle
  BY <1>2 DEF AskInv
<1>4. ~Ends(h) /\ g = h
  <2>1. req' = [req EXCEPT ![h] = Idle] \/ \E new : req' = [req EXCEPT ![h] = new]
    BY DEF Ends, GoesOn
  <2>2. g = h
    BY <1>1, <1>2, <1>3, <2>1 DEF TypeOK
  <2> QED BY <1>1, <1>2, <2>2 DEF Ends, TypeOK
<1>5. PICK new, stage : GoesOn(h, new, stage) /\
                 (stage \in Cleaned /\ req[h].promoted = "yes" => Promoted' = {})
  BY <1>1, <1>4
<1>6. req'[g] = new /\ new.pc = stage /\ new.promoted = req[h].promoted
  BY <1>2, <1>4, <1>5 DEF GoesOn, Follows, TypeOK
<1> QED BY <1>1, <1>5, <1>6

LEMMA PromotedInvReads ==
    ASSUME TypeInv, AskInv, PromotedInv, NEW h \in Handlers,
           \/ Lookup(h) \/ Count(h) \/ ReadRow(h) \/ CheckSlug(h)
           \/ Peek(h) \/ FindPlace(h) \/ Refetch(h)
    PROVE  PromotedInv'
<1>0. TypeOK
  BY DEF TypeInv
<1>1. req[h] # Idle /\ Reads /\ Keeps
  BY <1>0, LookupStep, CountStep, ReadRowStep, CheckSlugStep, PeekStep, FindPlaceStep, RefetchStep
<1>2. Promoted' = Promoted /\ (calm' => calm /\ replica = table)
  BY <1>1 DEF Promoted, Reads, Keeps, Unwritten, Live
<1>3. ASSUME \/ Ends(h)
             \/ \E new, stage : GoesOn(h, new, stage) /\
                   (calm' /\ stage \in Cleaned /\ req[h].promoted = "yes" => Promoted = {})
      PROVE  PromotedInv'
  BY <1>1, <1>2, <1>3, PromotedKept
<1>4. req[h].pc \in Cleaned /\ req[h].promoted = "yes" /\ calm' => Promoted = {}
  BY <1>1, <1>2 DEF PromotedInv
<1>5. CASE Lookup(h)
  <2>1. \/ Ends(h)
        \/ \E new : \E stage \in {"amend", "count", "insert"} : GoesOn(h, new, stage)
    BY <1>0, <1>5, LookupStep
  <2> QED BY <1>3, <2>1 DEF Cleaned
<1>6. CASE Count(h)
  BY <1>0, <1>3, <1>6, CountStep DEF Cleaned
<1>7. CASE ReadRow(h)
  <2>1. CASE Ends(h)
    BY <1>3, <2>1
  <2>2. CASE ~Ends(h)
    <3>1. PICK new, stage :
            /\ stage \in {"refetch", "check", "peek", "find"} /\ GoesOn(h, new, stage)
            /\ stage # "check" /\ req[h].op # "remove" /\ kind # "service" =>
                  (req[h].promoted = "yes" => stage = "peek")
      BY <1>7, <2>2, ReadRowStep
    <3>2. req[h].promoted = "yes" => req[h].op # "remove" /\ kind = "blog"
      BY <1>1 DEF AskInv
    <3>3. ~(stage \in Cleaned /\ req[h].promoted = "yes")
      BY <3>1, <3>2 DEF Cleaned
    <3> QED BY <1>3, <3>1, <3>3
  <2> QED BY <2>1, <2>2
<1>8. CASE CheckSlug(h)
  <2>1. CASE Ends(h) \/ req[h].promoted # "yes"
    <3>1. Ends(h) \/ Stays(h, {"refetch", "find"})
      BY <1>8, <2>1, CheckSlugStep
    <3> QED BY <1>3, <2>1, <3>1 DEF Stays
  <2>2. CASE ~Ends(h) /\ req[h].promoted = "yes"
    <3>1. Stays(h, {"peek"})
      BY <1>8, <2>2, CheckSlugStep
    <3> QED BY <1>3, <3>1 DEF Stays, Cleaned
  <2> QED BY <2>1, <2>2
<1>9. CASE Peek(h)
  <2>1. CASE Stays(h, {"clear"})
    BY <1>3, <2>1 DEF Stays, Cleaned
  <2>2. CASE ~Stays(h, {"clear"})
    <3>1. Live(replica) = {} /\ Stays(h, {"refetch", "find"})
      BY <1>9, <2>2, PeekStep
    <3>2. calm' => Promoted = {}
      BY <1>2, <3>1 DEF Promoted
    <3> QED BY <1>3, <3>1, <3>2 DEF Stays
  <2> QED BY <2>1, <2>2
<1>10. CASE FindPlace(h)
  <2>1. req[h].pc \in Cleaned /\ (Ends(h) \/ Stays(h, {"place", "refetch"}))
    BY <1>10, FindPlaceStep DEF Cleaned
  <2> QED BY <1>3, <1>4, <2>1 DEF Stays
<1>11. CASE Refetch(h)
  <2>1. req[h].pc \in Cleaned /\ (Ends(h) \/ Stays(h, {"delete"}) \/ Stays(h, {"write"}))
    BY <1>11, RefetchStep DEF Cleaned
  <2> QED BY <1>3, <1>4, <2>1 DEF Stays
<1> QED BY <1>5, <1>6, <1>7, <1>8, <1>9, <1>10, <1>11

LEMMA PromotedInvWrites ==
    ASSUME TypeInv, AskInv, PromotedInv, NEW h \in Handlers,
           Insert(h) \/ Clear(h) \/ Place(h) \/ Write(h) \/ Delete(h)
    PROVE  PromotedInv'
<1>0. TypeOK
  BY DEF TypeInv
<1>1. req[h] # Idle /\ req[h] \in Open /\ calm' = calm /\ (~Insert(h) => req[h].id \in Ids)
  BY <1>0, InsertStep, ClearStep, PlaceStep, WriteStep, DeleteStep
<1>2. CASE Insert(h)
  <2>1. PICK i \in Ids :
          /\ table[i] = Absent /\ Store([table EXCEPT ![i] = NewRow(req[h])])
          /\ born \subseteq born' /\ (req[h].promoted = "yes" => i \in born')
    BY <1>0, <1>2, InsertStep
  <2>2. /\ table'[i] = NewRow(req[h]) /\ NewRow(req[h]).promoted = (req[h].promoted = "yes")
        /\ \A j \in Ids : j # i => table'[j] = table[j]
    BY <1>0, <2>1 DEF Store, TypeOK, NewRow
  <2>3. Promoted' \subseteq Promoted
    BY <2>1, <2>2 DEF Promoted, Live
  <2>4. Ends(h) \/ \E new : GoesOn(h, new, "amend")
    BY <1>0, <1>2, InsertStep
  <2> QED BY <1>1, <2>3, <2>4, PromotedKept DEF Cleaned
<1>3. CASE Clear(h)
  <2>1. Store(Cleared(table)) /\ Stays(h, {"refetch", "find"})
    BY <1>3, ClearStep
  <2>2. Promoted' = {}
    BY <1>0, <2>1, ClearedType DEF Promoted, Store
  <2> QED BY <1>1, <2>1, <2>2, PromotedKept DEF Stays
<1>4. CASE Place(h)
  <2>1. table' = table /\ born' = born /\ Stays(h, {"refetch"}) /\ req[h].pc \in Cleaned
    BY <1>4, PlaceStep DEF Store, Cleaned
  <2>2. Promoted' = Promoted
    BY <2>1 DEF Promoted, Live
  <2>3. calm' /\ req[h].promoted = "yes" => Promoted' = {}
    BY <1>1, <2>1, <2>2 DEF PromotedInv
  <2> QED BY <1>1, <2>1, <2>2, <2>3, PromotedKept DEF Stays
<1>5. CASE Write(h)
  <2> DEFINE i == req[h].id
             q == req[h]
  <2>1. Ends(h) /\ born' = born /\ q.pc \in Cleaned
    BY <1>5, WriteStep DEF Cleaned
  <2>2. CASE table[i] = Absent
    <3>1. table' = table
      BY <1>5, <2>2, WriteStep DEF Store
    <3> QED BY <1>1, <2>1, <3>1, PromotedKept DEF Promoted, Live
  <2>3. CASE table[i] # Absent
    <3>1. table[i] \in Rows /\ table' = [table EXCEPT ![i] = Updated(table[i], q)] /\ i \in Ids
      BY <1>5, <2>3, WriteStep DEF Store
    <3>2. Updated(table[i], q).promoted =
              IF q.promoted = "missing" THEN table[i].promoted ELSE (q.promoted = "yes")
      BY <1>1, <3>1, UpdatedIsRow
    <3>3. calm /\ q.promoted = "yes" => Promoted = {}
      BY <1>1, <2>1 DEF PromotedInv
    <3> HIDE DEF i, q
    <3>4. \A j \in Ids : table'[j] = IF j = i THEN Updated(table[i], q) ELSE table[j]
      BY <1>0, <3>1 DEF TypeOK
    <3>5. CASE q.promoted # "yes"
      <4>1. Promoted' \subseteq Promoted
        BY <2>1, <2>3, <3>1, <3>2, <3>4, <3>5 DEF Promoted, Live
      <4> QED BY <1>1, <2>1, <4>1, PromotedKept
    <3>6. CASE q.promoted = "yes" /\ calm
      <4>1. Promoted' \subseteq {i}
        BY <2>1, <3>3, <3>4, <3>6 DEF Promoted, Live
      <4>2. \A g \in Handlers : req'[g] = Idle
        BY <1>0, <1>1, <2>1, <3>6 DEF AskInv, Ends, TypeOK
      <4> QED BY <4>1, <4>2 DEF PromotedInv
    <3>7. CASE ~calm
      BY <1>1, <3>7 DEF PromotedInv
    <3> QED BY <3>5, <3>6, <3>7
  <2> QED BY <2>2, <2>3
<1>6. CASE Delete(h)
  <2>1. Ends(h) /\ table' = [table EXCEPT ![req[h].id] = Absent] /\ born' = born \ {req[h].id}
    BY <1>6, DeleteStep DEF Store
  <2>2. Promoted' \subseteq Promoted
    BY <1>0, <2>1 DEF Promoted, Live, TypeOK
  <2> QED BY <1>1, <2>1, <2>2, PromotedKept
<1> QED BY <1>2, <1>3, <1>4, <1>5, <1>6

LEMMA PromotedInvNext == TypeInv /\ AskInv /\ PromotedInv /\ [Next]_vars => PromotedInv'
<1> SUFFICES ASSUME TypeInv, AskInv, PromotedInv, [Next]_vars PROVE PromotedInv'
  OBVIOUS
<1>0. TypeOK
  BY DEF TypeInv
<1>1. ASSUME NEW h \in Handlers, Create(h) \/ SetOption(h) \/ Seed(h) \/ Update(h) \/ Remove(h)
      PROVE  PromotedInv'
  <2>1. calm' = (calm /\ ~Busy) /\ table' = table /\ born' = born
    BY <1>1, ArriveStep DEF Unwritten
  <2>2. PICK new \in Open : req' = [req EXCEPT ![h] = new] /\ new.pc \in {"lookup", "read"}
    BY <1>1, ArriveStep
  <2>3. Promoted' = Promoted
    BY <2>1 DEF Promoted, Live
  <2>4. ASSUME calm', NEW g \in Handlers, req'[g] # Idle PROVE req'[g].pc \notin Cleaned
    <3>1. req'[g] = new
      BY <1>0, <2>1, <2>2, <2>4 DEF Busy, TypeOK
    <3> QED BY <2>2, <3>1 DEF Cleaned
  <2> QED BY <2>1, <2>3, <2>4 DEF PromotedInv
<1>2. ASSUME NEW h \in Handlers, Amend(h) \/ RequestError(h) PROVE PromotedInv'
  <2>1. Ends(h) /\ req[h] # Idle /\ table' = table /\ born' = born /\ calm' = calm
    BY <1>2, EndStep DEF Unwritten
  <2>2. Promoted' = Promoted
    BY <2>1 DEF Promoted, Live
  <2> QED BY <2>1, <2>2, PromotedKept
<1>3. CASE RemoveCategory
  <2>1. PICK gone \in SUBSET Live(table) : Store(Without(gone)) /\ born' = born \ gone
    BY <1>3 DEF RemoveCategory, Without
  <2>2. req' = req /\ calm' = (calm /\ ~Busy)
    BY <1>3 DEF RemoveCategory
  <2>3. Promoted' \subseteq Promoted
    BY <2>1 DEF Promoted, Live, Store, Without
  <2>4. ASSUME calm', NEW g \in Handlers PROVE req'[g] = Idle
    BY <2>2, <2>4 DEF Busy
  <2> QED BY <2>2, <2>3, <2>4 DEF PromotedInv
<1>4. CASE Sync \/ UNCHANGED vars
  BY <1>4 DEF Sync, vars, PromotedInv, Promoted, Live
<1> QED BY <1>1, <1>2, <1>3, <1>4, PromotedInvReads, PromotedInvWrites DEF Next, Serve

\* A promotion leaves no other: of the blogs that were not created as promoted
\* since, no two are.
THEOREM OneIsPromoted == Spec => []OnePromoted
<1>1. Init => AskInv
  BY DEF Init, AskInv
<1>2. Spec => [](TypeInv /\ AskInv /\ PromotedInv)
  BY <1>1, TypeInvInit, PromotedInvInit, TypeInvNext, AskInvNext, PromotedInvNext, PTL DEF Spec
<1> QED BY <1>2, PromotedIsOne, PTL

=============================================================================
