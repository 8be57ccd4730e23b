-------------------------- MODULE DailyCronsProofs ---------------------------
(* Theorems about DailyCrons, for any people, crons, workers and bounds.      *)
EXTENDS DailyCrons, FiniteSetTheorems, WellFoundedInduction, TLAPS

-----------------------------------------------------------------------------
(* Ranks: how many of a list come before a place *)

Rank(S, x) == Cardinality(Before(S, x))

LEMMA Ranks ==
    ASSUME NEW S \in SUBSET People, NEW x
    PROVE  /\ IsFiniteSet(S) /\ IsFiniteSet(Before(S, x))
           /\ Before(S, x) \subseteq S /\ S \subseteq Nat
           /\ Rank(S, x) \in Nat
<1>1. IsFiniteSet(S) /\ S \subseteq Nat
  BY CronsAssumption, FS_Subset
<1>2. Before(S, x) \subseteq S
  BY DEF Before
<1> QED BY <1>1, <1>2, FS_Subset, FS_CardinalityType DEF Rank

LEMMA RankGrows ==
    ASSUME NEW T \in SUBSET People, NEW S \in SUBSET T, NEW y \in Nat, NEW x \in Nat, x <= y
    PROVE  Rank(S, x) <= Rank(T, y)
<1>1. Before(S, x) \subseteq Before(T, y)
  <2> SUFFICES ASSUME NEW q \in S, q < x PROVE q < y
    BY DEF Before
  <2> QED BY CronsAssumption
<1> QED BY <1>1, Ranks, FS_Subset DEF Rank

\* From one place to a later one.
LEMMA RankAdds ==
    ASSUME NEW S \in SUBSET People, NEW x \in Nat, NEW p \in Nat, p <= x
    PROVE  Rank(S, x) = Rank(S, p) + Cardinality({q \in S : p <= q /\ q < x})
<1> DEFINE A == Before(S, p)
           B == {q \in S : p <= q /\ q < x}
<1>1. IsFiniteSet(A) /\ IsFiniteSet(B)
  BY Ranks, FS_Subset
<1>0. \A q \in S : q \in Nat
  BY Ranks
<1>2. A \intersect B = {}
  BY <1>0 DEF Before
<1>3. Before(S, x) = A \union B
  BY <1>0 DEF Before
<1>4. Cardinality(A \intersect B) = 0
  BY <1>2, FS_EmptySet
<1>5. Cardinality(A) \in Nat /\ Cardinality(B) \in Nat
  BY <1>1, FS_CardinalityType
<1>6. Cardinality(A \union B) = Cardinality(A) + Cardinality(B) - Cardinality(A \intersect B)
  BY <1>1, FS_Union
<1> QED BY <1>3, <1>4, <1>5, <1>6 DEF Rank

\* What is left of a list and what has come to it.
LEMMA RankSplits ==
    ASSUME NEW S \in SUBSET People, NEW T \in SUBSET People, NEW x
    PROVE  Rank(S, x) <= Rank(T, x) + Rank(S \ T, x)
<1> DEFINE A == Before(T, x)
           B == Before(S \ T, x)
<1>1. S \ T \in SUBSET People
  OBVIOUS
<1>2. /\ IsFiniteSet(A) /\ Cardinality(A) \in Nat
      /\ IsFiniteSet(B) /\ Cardinality(B) \in Nat
  BY <1>1, Ranks, FS_CardinalityType
<1>3. Before(S, x) \subseteq A \union B
  BY DEF Before
<1>4. A \intersect B = {}
  BY DEF Before
<1>5. Cardinality(A) = Rank(T, x) /\ Cardinality(B) = Rank(S \ T, x)
  BY DEF Rank
<1> HIDE DEF A, B
<1>6. IsFiniteSet(A \union B) /\ Cardinality(A \union B) = Cardinality(A) + Cardinality(B) - 0
  <2>1. Cardinality(A \intersect B) = 0
    BY <1>4, FS_EmptySet
  <2> QED BY <1>2, <2>1, FS_Union
<1>7. Cardinality(Before(S, x)) <= Cardinality(A \union B)
  BY <1>3, <1>6, FS_Subset
<1> QED BY <1>2, <1>5, <1>6, <1>7 DEF Rank

\* One of the list comes after those before it.
LEMMA RankOfMember ==
    ASSUME NEW S \in SUBSET People, NEW p \in S, NEW x \in Nat, p < x
    PROVE  Rank(S, p) < Rank(S, x)
<1>1. p \in Nat /\ p + 1 \in Nat /\ p + 1 <= x
  BY CronsAssumption
<1>4. \A q \in S : q \in Nat
  BY Ranks
<1>2. {q \in S : p <= q /\ q < p + 1} = {p}
  <2>1. \A q \in S : p <= q /\ q < p + 1 <=> q = p
    BY <1>1, <1>4
  <2> QED BY <2>1
<1>3. Rank(S, p + 1) = Rank(S, p) + 1
  <2>1. Rank(S, p + 1) = Rank(S, p) + Cardinality({q \in S : p <= q /\ q < p + 1})
    BY <1>1, RankAdds
  <2> QED BY <1>2, <2>1, FS_Singleton
<1> QED BY <1>1, <1>3, Ranks, RankGrows

Less == {p \in Nat \X Nat : p[1] < p[2]}

LEMMA HasLeast ==
    ASSUME NEW S, S \subseteq Nat, S # {}
    PROVE  \E m \in S : \A n \in S : m <= n
<1>1. IsWellFoundedOn(Less, Nat)
  BY NatLessThanWellFounded DEF OpToRel, Less
<1>2. PICK x \in S : \A y \in S : ~(<<y, x>> \in Less)
  BY <1>1, WFMin
<1>3. ASSUME NEW y \in S, y < x PROVE FALSE
  <2>1. <<y, x>> \in Nat \X Nat /\ <<y, x>>[1] = y /\ <<y, x>>[2] = x
    OBVIOUS
  <2> QED BY <1>2, <1>3, <2>1 DEF Less
<1> QED BY <1>2, <1>3

\* A list of more than n has one whom n precede.
LEMMA HasRank ==
    ASSUME NEW S \in SUBSET People, NEW x \in Nat, NEW n \in Nat, n < Rank(S, x)
    PROVE  \E p \in S : p < x /\ Rank(S, p) = n
<1> DEFINE Y == {y \in Nat : n < Rank(S, y)}
<1>1. PICK y \in Y : \A z \in Y : y <= z
  <2> HIDE DEF Y
  <2>1. x \in Y /\ Y \subseteq Nat
    BY DEF Y
  <2> QED BY <2>1, HasLeast
<1>2. y # 0
  <2>1. \A q \in S : q \in Nat
    BY Ranks
  <2>2. Before(S, 0) = {}
    BY <2>1 DEF Before
  <2> QED BY <1>1, <2>2, FS_EmptySet DEF Rank
<1>3. PICK p : p = y - 1
  OBVIOUS
<1>4. p \in Nat /\ y = p + 1 /\ p <= y /\ y <= x
  BY <1>1, <1>2, <1>3
<1>5. Rank(S, p) <= n
  BY <1>1, <1>4, Ranks
<1>6. Rank(S, y) = Rank(S, p) + Cardinality({q \in S : p <= q /\ q < y})
  BY <1>4, RankAdds
<1>7. {q \in S : p <= q /\ q < y} = IF p \in S THEN {p} ELSE {}
  BY <1>4, Ranks
<1>8. p \in S
  <2> SUFFICES ASSUME p \notin S PROVE FALSE
    OBVIOUS
  <2>1. Rank(S, y) = Rank(S, p) + 0
    BY <1>6, <1>7, FS_EmptySet
  <2> QED BY <1>1, <1>5, <2>1, Ranks
<1>9. Rank(S, y) = Rank(S, p) + 1
  BY <1>6, <1>7, <1>8, FS_Singleton
<1> QED BY <1>1, <1>4, <1>5, <1>8, <1>9, Ranks

-----------------------------------------------------------------------------
(* Pages *)

LEMMA PageIs ==
    ASSUME NEW S \in SUBSET People, NEW o \in Nat, NEW p
    PROVE  p \in Page(S, o) <=>
             p \in S /\ o <= Rank(S, p) /\ Rank(S, p) < o + BatchSize
<1>1. BatchSize \in Nat /\ Rank(S, p) \in Nat
  BY CronsAssumption, Ranks
<1>2. Rank(S, p) \in o..(o + BatchSize - 1) <=> o <= Rank(S, p) /\ Rank(S, p) < o + BatchSize
  BY <1>1
<1> QED BY <1>2 DEF Page, Rank

\* The people who came or went before a place.
LEMMA MovesAre ==
    ASSUME NEW E \in SUBSET Moves, NEW x
    PROVE  IsFiniteSet({m \in E : m[1] < x}) /\ MovesBefore(E, x) \in Nat
<1>1. IsFiniteSet(People) /\ IsFiniteSet(0..MaxChanges)
  BY CronsAssumption, FS_Interval
<1>2. IsFiniteSet(Moves)
  BY <1>1, FS_Product DEF Moves
<1>3. {m \in E : m[1] < x} \subseteq Moves
  OBVIOUS
<1> QED BY <1>2, <1>3, FS_Subset, FS_CardinalityType DEF MovesBefore

LEMMA MovesGrow ==
    ASSUME NEW F \in SUBSET Moves, NEW E \in SUBSET F, NEW y \in Nat, NEW x \in Nat, x <= y
    PROVE  MovesBefore(E, x) <= MovesBefore(F, y)
<1>1. {m \in E : m[1] < x} \subseteq {m \in F : m[1] < y}
  <2> SUFFICES ASSUME NEW m \in E, m[1] < x PROVE m[1] < y
    OBVIOUS
  <2>1. m[1] \in Nat
    BY CronsAssumption DEF Moves
  <2> QED BY <2>1
<1> QED BY <1>1, MovesAre, FS_Subset DEF MovesBefore

\* Those of D come or go at the nth change.
LEMMA MovesAdd ==
    ASSUME NEW E \in SUBSET Moves, NEW D \in SUBSET People, NEW n \in 0..MaxChanges,
           \A m \in E : m[2] # n, NEW x
    PROVE  /\ E \union (D \X {n}) \in SUBSET Moves
           /\ MovesBefore(E \union (D \X {n}), x) = MovesBefore(E, x) + Rank(D, x)
<1> DEFINE A == {m \in E : m[1] < x}
           B == {m \in D \X {n} : m[1] < x}
           f == [q \in Before(D, x) |-> <<q, n>>]
<1>1. E \union (D \X {n}) \in SUBSET Moves
  BY DEF Moves
<1>2. {m \in E \union (D \X {n}) : m[1] < x} = A \union B
  OBVIOUS
<1>3. A \intersect B = {}
  OBVIOUS
<1>4. f \in Bijection(Before(D, x), B)
  <2>1. \A q \in Before(D, x) : f[q] \in B
    BY DEF Before
  <2>2. \A q, r \in Before(D, x) : f[q] = f[r] => q = r
    OBVIOUS
  <2>3. ASSUME NEW m \in B PROVE \E q \in Before(D, x) : f[q] = m
    <3>1. m = <<m[1], n>> /\ m[1] \in Before(D, x)
      BY <2>3 DEF Before
    <3> QED BY <3>1
  <2>4. DOMAIN f = Before(D, x)
    OBVIOUS
  <2>5. f \in [Before(D, x) -> B]
    BY <2>1
  <2> HIDE DEF f, B
  <2> QED BY <2>2, <2>3, <2>4, <2>5 DEF Bijection, Injection, Surjection, IsInjective
<1>5. IsFiniteSet(Before(D, x)) /\ IsFiniteSet(A) /\ Cardinality(A) \in Nat
  <2>1. IsFiniteSet(A)
    BY MovesAre
  <2> QED BY <2>1, Ranks, FS_CardinalityType
<1>6. IsFiniteSet(B) /\ Cardinality(B) = Rank(D, x) /\ Rank(D, x) \in Nat
  <2>1. ExistsBijection(Before(D, x), B)
    BY <1>4 DEF ExistsBijection
  <2> HIDE DEF B
  <2> QED BY <1>5, <2>1, Ranks, FS_Bijection DEF Rank
<1>7. MovesBefore(E, x) = Cardinality(A)
      /\ MovesBefore(E \union (D \X {n}), x) = Cardinality(A \union B)
  BY <1>2 DEF MovesBefore
<1> HIDE DEF A, B
<1>8. Cardinality(A \union B) = Cardinality(A) + Cardinality(B) - 0
  BY <1>3, <1>5, <1>6, FS_Union, FS_EmptySet
<1> QED BY <1>1, <1>5, <1>6, <1>7, <1>8

\* Of those of M on the list S, no more come before x than moves did, or than would
\* have come into the first n places of the list but for these moves.
Spared(M, S, E, n) ==
    \A x \in Nat : \/ Rank(M, x) <= MovesBefore(E, x)
                   \/ Rank(M, x) + n <= MovesBefore(E, x) + Rank(S, x)

\* A page that is taken from M leaves as few behind; an empty one, no more than moved.
LEMMA PageSpares ==
    ASSUME NEW S \in SUBSET People, NEW M \in SUBSET S, NEW E \in SUBSET Moves, NEW o \in Nat,
           Spared(M, S, E, o), NEW x \in Nat
    PROVE  /\ Page(S, o) = {} => Rank(M, x) <= MovesBefore(E, x)
           /\ \/ Rank(M \ Page(S, o), x) <= MovesBefore(E, x)
              \/ Rank(M \ Page(S, o), x) + (o + BatchSize) <= MovesBefore(E, x) + Rank(S, x)
<1>1. PICK N : N = M \ Page(S, o)
  OBVIOUS
<1>2. N \in SUBSET M /\ N \in SUBSET People /\ M \in SUBSET People
  BY <1>1
<1>3. BatchSize \in Nat /\ BatchSize > 0
  BY CronsAssumption
<1>6. \A y \in Nat : /\ Rank(S, y) \in Nat /\ Rank(M, y) \in Nat /\ Rank(N, y) \in Nat
                     /\ MovesBefore(E, y) \in Nat
  BY <1>2, Ranks, MovesAre
<1>4. CASE Rank(S, x) <= o
  <2>1. Rank(M, x) <= MovesBefore(E, x)
    BY <1>4, <1>6 DEF Spared
  <2>2. Rank(N, x) <= Rank(M, x)
    BY <1>2, RankGrows
  <2>3. Rank(N, x) <= MovesBefore(E, x)
    BY <1>6, <2>1, <2>2
  <2> QED BY <1>1, <2>1, <2>3
<1>5. CASE o < Rank(S, x)
  <2>1. PICK z \in S : z < x /\ Rank(S, z) = o
    BY <1>5, HasRank
  <2>2. z \in Nat /\ z <= x
    BY <2>1, CronsAssumption
  <2>3. z \in Page(S, o)
    BY <1>3, <2>1, PageIs
  <2>4. Rank(N, z) <= MovesBefore(E, x)
    <3>1. Rank(M, z) <= MovesBefore(E, z)
      BY <1>6, <2>1, <2>2 DEF Spared
    <3>2. Rank(N, z) <= Rank(M, z) /\ MovesBefore(E, z) <= MovesBefore(E, x)
      BY <1>2, <2>2, RankGrows, MovesGrow
    <3> QED BY <1>6, <2>2, <3>1, <3>2
  <2> DEFINE R == {q \in N : z <= q /\ q < x}
  <2>5. Rank(N, x) = Rank(N, z) + Cardinality(R)
    BY <1>2, <2>2, RankAdds
  <2>6. ASSUME NEW q \in R PROVE q \in S /\ q \in Nat /\ q < x /\ o + BatchSize <= Rank(S, q)
    <3>1. q \in S /\ q \notin Page(S, o) /\ q \in Nat /\ z <= q /\ q < x
      BY <1>1, <1>2, <2>6, CronsAssumption
    <3>2. o <= Rank(S, q)
      BY <2>1, <2>2, <3>1, RankGrows
    <3>3. ~(Rank(S, q) < o + BatchSize)
      BY <3>1, <3>2, PageIs
    <3> QED BY <1>3, <1>6, <3>1, <3>3
  <2>7. IsFiniteSet(R) /\ Cardinality(R) \in Nat
    <3>1. R \subseteq N
      OBVIOUS
    <3> QED BY <1>2, <3>1, Ranks, FS_Subset, FS_CardinalityType
  <2>8. CASE Rank(S, x) <= o + BatchSize
    <3>1. ASSUME NEW q \in R PROVE FALSE
      <4>1. Rank(S, q) < Rank(S, x)
        BY <2>6, <3>1, RankOfMember
      <4> QED BY <1>3, <2>6, <2>8, <3>1, <4>1, Ranks
    <3>2. R = {}
      BY <3>1
    <3> HIDE DEF R
    <3> QED BY <1>1, <1>2, <2>3, <2>4, <2>5, <3>2, FS_EmptySet, Ranks
  <2>9. CASE o + BatchSize < Rank(S, x)
    <3>1. PICK y \in S : y < x /\ Rank(S, y) = o + BatchSize
      BY <1>3, <2>9, HasRank
    <3>2. y \in Nat /\ y <= x
      BY <3>1, CronsAssumption
    <3> DEFINE Q == {q \in S : y <= q /\ q < x}
    <3>3. R \subseteq Q
      <4> SUFFICES ASSUME NEW q \in R PROVE q \in Q
        OBVIOUS
      <4>1. q < y => Rank(S, q) < Rank(S, y)
        BY <2>6, <3>2, RankOfMember
      <4>2. ~(q < y)
        BY <1>3, <2>6, <3>1, <4>1, Ranks
      <4> HIDE DEF R
      <4> QED BY <2>6, <3>2, <4>2
    <3>4. Rank(S, x) = Rank(S, y) + Cardinality(Q)
      BY <3>2, RankAdds
    <3>5. Q \subseteq S
      OBVIOUS
    <3> HIDE DEF R, Q
    <3>6. Cardinality(R) <= Cardinality(Q) /\ Cardinality(Q) \in Nat
      BY <3>3, <3>5, Ranks, FS_Subset, FS_CardinalityType
    <3>7. Rank(N, x) + (o + BatchSize) <= MovesBefore(E, x) + Rank(S, x)
      BY <1>3, <1>6, <2>2, <2>4, <2>5, <2>7, <3>1, <3>4, <3>6
    <3> QED BY <1>1, <2>3, <3>7
  <2> QED BY <1>3, <1>6, <2>8, <2>9
<1> QED BY <1>4, <1>5, <1>6

-----------------------------------------------------------------------------
(* Type correctness *)

Paging == {"read", "save", "send"}

LEMMA RunType ==
    ASSUME TypeOK, NEW s \in Slots
    PROVE  /\ run[s].pc \in Paging \union {"done", "idle"}
           /\ run[s].pc # "idle" => run[s] \in Runs
           /\ run[s].pc = "idle" <=> run[s] = NoRun
           /\ run[s].served \in [People -> Nat] /\ run[s].page \in SUBSET People
           /\ run[s].joined \in SUBSET Moves /\ run[s].left \in SUBSET Moves
           /\ run[s].offset \in Nat
<1>1. CASE run[s] = NoRun
  BY <1>1 DEF NoRun, Paging
<1>2. CASE run[s] \in Runs
  <2>1. run[s].pc # NoRun.pc
    BY <1>2 DEF Runs, NoRun
  <2> QED BY <1>2, <2>1 DEF Runs, NoRun, Paging
<1> QED BY <1>1, <1>2 DEF TypeOK

LEMMA ListType ==
    ASSUME TypeOK, NEW kind
    PROVE  Listed(kind) \in SUBSET People
BY DEF TypeOK, Listed, ListedIn, People

LEMMA InitTypeOK == Init => TypeOK
<1> SUFFICES ASSUME Init PROVE TypeOK
  OBVIOUS
<1>1. job \in [JobIds -> Jobs \union {NoJob}] /\ \A i \in JobIds : job[i] = NoJob
  BY DEF Init
<1>2. NoJob.state = "none" /\ NoJob.by = NoSlot
  BY DEF NoJob
<1> QED BY <1>1, <1>2, CronsAssumption DEF Init, TypeOK

LEMMA ChangeTypeOK ==
    ASSUME TypeOK, NEW tokens \in SUBSET People, NEW short \in SUBSET Shoemakers,
           Change(tokens, short)
    PROVE  TypeOK'
<1>1. changes \in Nat /\ changes < MaxChanges /\ changes \in 0..MaxChanges
  <2>1. changes \in Nat /\ MaxChanges \in Nat
    BY CronsAssumption DEF TypeOK
  <2>2. changes < MaxChanges
    BY DEF Change
  <2> QED BY <2>1, <2>2
<1>2. ASSUME NEW s \in Slots PROVE run'[s] \in Runs \union {NoRun}
  <2>1. CASE run[s].pc = "idle"
    <3>1. run'[s] = run[s]
      BY <2>1 DEF Change
    <3> QED BY <2>1, <3>1, RunType
  <2>2. CASE run[s].pc # "idle"
    <3>1. PICK was : was = Listed(run[s].kind)
      OBVIOUS
    <3>2. PICK is : is = ListedIn(run[s].kind, tokens, short)
      OBVIOUS
    <3>3. PICK come : come = run[s].joined \union ((is \ was) \X {changes})
      OBVIOUS
    <3>4. PICK gone : gone = run[s].left \union ((was \ is) \X {changes})
      OBVIOUS
    <3>5. run'[s] = [run[s] EXCEPT !.joined = come, !.left = gone]
      BY <2>2, <3>1, <3>2, <3>3, <3>4 DEF Change
    <3>6. was \in SUBSET People /\ is \in SUBSET People
      BY <3>1, <3>2, ListType DEF ListedIn, People
    <3>7. come \in SUBSET Moves /\ gone \in SUBSET Moves
      BY <1>1, <3>3, <3>4, <3>6, RunType DEF Moves
    <3> QED BY <2>2, <3>5, <3>7, RunType DEF Runs
  <2> QED BY <2>1, <2>2
<1>3. run' = [s \in Slots |-> run'[s]]
  BY DEF Change
<1>4. run' \in [Slots -> Runs \union {NoRun}]
  BY <1>2, <1>3
<1>5. /\ signedIn' = tokens /\ poor' = short /\ changes' = changes + 1
      /\ UNCHANGED <<due, job, ticks, stalls, crashes>>
  BY DEF Change
<1> QED BY <1>1, <1>4, <1>5 DEF TypeOK

LEMMA KillTypeOK ==
    ASSUME TypeOK, NEW w \in Workers, Kill(w)
    PROVE  /\ due' \in [Workers -> Crons \union {"none"}]
           /\ run' \in [Slots -> Runs \union {NoRun}]
BY DEF TypeOK, Kill

\* A step of a slot sets the fields of its run.
LEMMA StepTypeOK ==
    ASSUME TypeOK, NEW s \in Slots, NEW r \in Runs \union {NoRun}, run' = [run EXCEPT ![s] = r],
           UNCHANGED <<signedIn, poor, due, job, counters>>
    PROVE  TypeOK'
BY DEF TypeOK, counters

LEMMA ReadTypeOK ==
    ASSUME TypeOK, NEW s \in Slots, ReadPage(s)
    PROVE  TypeOK'
<1>1. PICK page : page = Page(Listed(run[s].kind), run[s].offset)
  OBVIOUS
<1>2. PICK told : told = page \intersect signedIn
  OBVIOUS
<1>3. PICK next : next = IF page = {} THEN "done" ELSE "save"
  OBVIOUS
<1>4. page \in SUBSET People /\ told \in SUBSET People /\ next \in {"done", "save"}
  BY <1>1, <1>2, <1>3, ListType DEF Page
<1>5. PICK r : r = [run[s] EXCEPT !.page = page, !.tokens = told, !.pc = next]
  OBVIOUS
<1>6. run[s] \in Runs
  BY RunType DEF ReadPage
<1>7. r \in Runs
  BY <1>4, <1>5, <1>6 DEF Runs
<1>8. run' = [run EXCEPT ![s] = r] /\ UNCHANGED <<signedIn, poor, due, job, counters>>
  BY <1>1, <1>2, <1>3, <1>5 DEF ReadPage
<1> QED BY <1>7, <1>8, StepTypeOK

LEMMA SaveTypeOK ==
    ASSUME TypeOK, NEW s \in Slots, SavePage(s)
    PROVE  TypeOK'
<1>1. PICK told : told = Told(s)
  OBVIOUS
<1>2. PICK next : next = IF run[s].tokens = {} THEN "read" ELSE "send"
  OBVIOUS
<1>3. PICK o : o = IF run[s].tokens = {} THEN NextOffset(s) ELSE run[s].offset
  OBVIOUS
<1>4. run[s] \in Runs
  BY RunType DEF SavePage
<1>5. told \in [People -> Nat] /\ next \in {"read", "send"} /\ o \in Nat
  BY <1>1, <1>2, <1>3, RunType, CronsAssumption DEF Told, NextOffset
<1>6. PICK r : r = [run[s] EXCEPT !.served = told, !.pc = next, !.offset = o]
  OBVIOUS
<1>7. r \in Runs
  BY <1>4, <1>5, <1>6 DEF Runs
<1>8. run' = [run EXCEPT ![s] = r] /\ UNCHANGED <<signedIn, poor, due, job, counters>>
  BY <1>1, <1>2, <1>3, <1>6 DEF SavePage
<1> QED BY <1>7, <1>8, StepTypeOK

LEMMA SendTypeOK ==
    ASSUME TypeOK, NEW s \in Slots, SendPage(s)
    PROVE  TypeOK'
<1>1. PICK o : o = NextOffset(s)
  OBVIOUS
<1>2. PICK r : r = [run[s] EXCEPT !.pc = "read", !.offset = o]
  OBVIOUS
<1>3. run[s] \in Runs /\ o \in Nat
  BY <1>1, RunType, CronsAssumption DEF SendPage, NextOffset
<1>4. r \in Runs
  BY <1>2, <1>3 DEF Runs
<1>5. run' = [run EXCEPT ![s] = r] /\ UNCHANGED <<signedIn, poor, due, job, counters>>
  BY <1>1, <1>2 DEF SendPage
<1> QED BY <1>4, <1>5, StepTypeOK

LEMMA ErrorTypeOK ==
    ASSUME TypeOK, NEW s \in Slots, RunError(s)
    PROVE  TypeOK'
<1>1. PICK r : r = [run[s] EXCEPT !.pc = "done", !.failed = TRUE]
  OBVIOUS
<1>2. run[s] \in Runs
  BY RunType DEF RunError
<1>3. r \in Runs
  BY <1>1, <1>2 DEF Runs
<1>4. run' = [run EXCEPT ![s] = r] /\ UNCHANGED <<signedIn, poor, due, job, counters>>
  BY <1>1 DEF RunError
<1> QED BY <1>3, <1>4, StepTypeOK

\* What becomes of a job.
LEMMA JobTypeOK ==
    ASSUME TypeOK, NEW i \in JobIds, NEW j \in Jobs, j.state = "active" <=> j.by # NoSlot,
           job' = [job EXCEPT ![i] = j]
    PROVE  /\ job' \in [JobIds -> Jobs \union {NoJob}]
           /\ \A h \in JobIds : job'[h].state = "active" <=> job'[h].by # NoSlot
BY DEF TypeOK

LEMMA JobIs ==
    ASSUME TypeOK, NEW i \in JobIds, job[i].state # "none"
    PROVE  job[i] \in Jobs
BY DEF TypeOK, NoJob

LEMMA EnqueueTypeOK ==
    ASSUME TypeOK, NEW w \in Workers, Enqueue(w)
    PROVE  TypeOK'
<1>1. PICK i : i = <<ticks, w>>
  OBVIOUS
<1>2. PICK j : j = [state |-> "waiting", kind |-> Kind[due[w]], by |-> NoSlot, stalled |-> 0]
  OBVIOUS
<1>3. job' = [job EXCEPT ![i] = j]
  BY <1>1, <1>2 DEF Enqueue
<1>4. due[w] \in Crons
  BY DEF Enqueue, TypeOK
<1>5. j \in Jobs /\ j.state = "waiting" /\ j.by = NoSlot
  BY <1>2, <1>4 DEF Jobs
<1>6. /\ job' \in [JobIds -> Jobs \union {NoJob}]
      /\ \A h \in JobIds : job'[h].state = "active" <=> job'[h].by # NoSlot
  <2>1. CASE i \in JobIds
    BY <1>3, <1>5, <2>1, JobTypeOK
  <2>2. CASE i \notin JobIds
    <3>1. job' = job
      BY <1>3, <2>2 DEF TypeOK
    <3> QED BY <3>1 DEF TypeOK
  <2> QED BY <2>1, <2>2
<1> QED BY <1>6 DEF TypeOK, Enqueue, counters

LEMMA StartTypeOK ==
    ASSUME TypeOK, NEW s \in Slots, NEW i \in JobIds, Start(s, i)
    PROVE  TypeOK'
<1>1. job[i] \in Jobs
  BY JobIs DEF Start
<1>2. PICK j : j = [job[i] EXCEPT !.state = "active", !.by = s]
  OBVIOUS
<1>3. j \in Jobs /\ j.state = "active" /\ j.by = s /\ s # NoSlot
  BY <1>1, <1>2, CronsAssumption DEF Jobs
<1>4. job' = [job EXCEPT ![i] = j]
  BY <1>2 DEF Start
<1>5. /\ job' \in [JobIds -> Jobs \union {NoJob}]
      /\ \A h \in JobIds : job'[h].state = "active" <=> job'[h].by # NoSlot
  BY <1>3, <1>4, JobTypeOK
<1>6. PICK r : r = [NoRun EXCEPT !.pc = "read", !.id = i, !.kind = job[i].kind]
  OBVIOUS
<1>7. r \in Runs
  BY <1>1, <1>6 DEF Runs, NoRun, Jobs
<1>8. run' = [run EXCEPT ![s] = r] /\ UNCHANGED <<signedIn, poor, due, counters>>
  BY <1>6 DEF Start
<1> QED BY <1>5, <1>7, <1>8 DEF TypeOK, counters

LEMMA CompleteTypeOK ==
    ASSUME TypeOK, NEW s \in Slots, Complete(s)
    PROVE  TypeOK'
<1>1. PICK i : i = run[s].id
  OBVIOUS
<1>2. i \in JobIds
  BY <1>1, RunType DEF Complete, Runs
<1>3. /\ job' \in [JobIds -> Jobs \union {NoJob}]
      /\ \A h \in JobIds : job'[h].state = "active" <=> job'[h].by # NoSlot
  <2>1. CASE job[i].by = s
    <3>1. job[i] \in Jobs
      BY <1>2, <2>1, JobIs, CronsAssumption DEF TypeOK
    <3>2. PICK j : j = [job[i] EXCEPT !.state = "completed", !.by = NoSlot]
      OBVIOUS
    <3>3. j \in Jobs /\ j.state = "completed" /\ j.by = NoSlot
      BY <3>1, <3>2 DEF Jobs
    <3>4. job' = [job EXCEPT ![i] = j]
      BY <1>1, <2>1, <3>2 DEF Complete
    <3> QED BY <1>2, <3>3, <3>4, JobTypeOK
  <2>2. CASE job[i].by # s
    <3>1. job' = job
      BY <1>1, <2>2 DEF Complete
    <3> QED BY <3>1 DEF TypeOK
  <2> QED BY <2>1, <2>2
<1>4. run' = [run EXCEPT ![s] = NoRun] /\ UNCHANGED <<signedIn, poor, due, counters>>
  BY DEF Complete
<1> QED BY <1>3, <1>4 DEF TypeOK, counters

LEMMA StallTypeOK ==
    ASSUME TypeOK, NEW i \in JobIds, Stall(i)
    PROVE  TypeOK'
<1>1. job[i] \in Jobs
  BY JobIs DEF Stall
<1>2. PICK next : next = IF job[i].stalled < MaxStalled THEN "waiting" ELSE "failed"
  OBVIOUS
<1>3. PICK j : j = [job[i] EXCEPT !.state = next, !.by = NoSlot, !.stalled = job[i].stalled + 1]
  OBVIOUS
<1>4. next \in {"waiting", "failed"}
  BY <1>2
<1>8. PICK n : n = job[i].stalled + 1
  OBVIOUS
<1>9. n \in Nat
  BY <1>1, <1>8 DEF Jobs
<1>5. j \in Jobs /\ j.state = next /\ j.by = NoSlot
  BY <1>1, <1>3, <1>4, <1>8, <1>9 DEF Jobs
<1>6. job' = [job EXCEPT ![i] = j]
  BY <1>2, <1>3 DEF Stall
<1>7. /\ job' \in [JobIds -> Jobs \union {NoJob}]
      /\ \A h \in JobIds : job'[h].state = "active" <=> job'[h].by # NoSlot
  BY <1>4, <1>5, <1>6, JobTypeOK
<1>10. stalls' \in Nat /\ UNCHANGED <<signedIn, poor, due, run, ticks, changes, crashes>>
  BY DEF Stall, TypeOK
<1> QED BY <1>7, <1>10 DEF TypeOK

LEMMA NextTypeOK == TypeOK /\ [Next]_vars => TypeOK'
<1> SUFFICES ASSUME TypeOK, [Next]_vars PROVE TypeOK'
  OBVIOUS
<1>1. ASSUME NEW c \in Crons, Tick(c) PROVE TypeOK'
  BY <1>1 DEF Tick, TypeOK
<1>2. ASSUME NEW w \in Workers, EnqueueError(w) PROVE TypeOK'
  BY <1>2, KillTypeOK DEF EnqueueError, TypeOK, counters
<1>3. ASSUME NEW w \in Workers, Crash(w) PROVE TypeOK'
  BY <1>3, KillTypeOK DEF Crash, TypeOK
<1>4. ASSUME NEW p \in People, SignIn(p) \/ SignOut(p) PROVE TypeOK'
  BY <1>4, ChangeTypeOK DEF SignIn, SignOut, TypeOK
<1>5. ASSUME NEW p \in People, Spend(p) \/ TopUp(p) PROVE TypeOK'
  BY <1>5, ChangeTypeOK DEF Spend, TopUp, TypeOK, People
<1>6. CASE UNCHANGED vars
  BY <1>6 DEF vars, counters, TypeOK
<1> QED BY <1>1, <1>2, <1>3, <1>4, <1>5, <1>6, EnqueueTypeOK, StartTypeOK, CompleteTypeOK,
           ReadTypeOK, SaveTypeOK, SendTypeOK, ErrorTypeOK, StallTypeOK DEF Next, RunStep

\* Every variable keeps its type, for any people who come and go, any jobs and any
\* workers: the loop of a handler goes from page to page and its job from hand to hand.
THEOREM TypeCorrect == Spec => []TypeOK
BY InitTypeOK, NextTypeOK, PTL DEF Spec

-----------------------------------------------------------------------------
(* A run r over a list L, when n changes have been made *)

\* How often p is told by the pages read so far.
Due(r, p) == IF r.pc = "save" /\ p \in r.page THEN r.served[p] + 1 ELSE r.served[p]

\* The places of the list that these pages have taken.
Reached(r) == IF r.pc = "read" THEN r.offset ELSE r.offset + BatchSize

\* Those who were on the list all the time and are on none of these pages.
Waiting(r, L) == {p \in L : Due(r, p) = 0 /\ \A m \in r.joined \union r.left : m[1] # p}

StampInv(r, n) == \A m \in r.joined \union r.left : m[2] < n

KeptInv(r) ==
    /\ r.pc \in {"save", "send"} => r.tokens \subseteq r.page
    /\ r.pc = "send" => \A p \in r.page : r.served[p] > 0

SkipInv(r, L) ==
    /\ r.pc \in Paging => Spared(Waiting(r, L), L, r.left, Reached(r))
    /\ r.pc = "done" /\ ~r.failed =>
         \A x \in Nat : Rank(Waiting(r, L), x) <= MovesBefore(r.left, x)

AgainInv(r, L) ==
    \A p \in People :
        /\ Due(r, p) <= 1 + MovesBefore(r.joined, p)
        /\ r.pc \in Paging /\ Due(r, p) > 0 =>
             Rank(L, p) + Due(r, p) <= Reached(r) + MovesBefore(r.joined, p)

SlotInv(r, L, n) == StampInv(r, n) /\ KeptInv(r) /\ SkipInv(r, L) /\ AgainInv(r, L)

PagesInv == \A s \in Slots : SlotInv(run[s], Listed(run[s].kind), changes)

LEMMA FreshRun ==
    ASSUME NEW r, r.pc \in {"idle", "read"}, r.offset = 0, r.served = [p \in People |-> 0],
           r.joined = {}, r.left = {}, NEW L \in SUBSET People, NEW n \in Nat
    PROVE  SlotInv(r, L, n)
<1>1. Waiting(r, L) \in SUBSET L /\ Waiting(r, L) \in SUBSET People /\ {} \in SUBSET Moves
  BY DEF Waiting
<1>2. \A x \in Nat : MovesBefore({}, x) \in Nat
  BY <1>1, MovesAre
<1>3. Spared(Waiting(r, L), L, r.left, 0)
  <2> SUFFICES ASSUME NEW x \in Nat
               PROVE  Rank(Waiting(r, L), x) + 0 <= MovesBefore({}, x) + Rank(L, x)
    BY DEF Spared
  <2>1. Rank(Waiting(r, L), x) \in Nat /\ Rank(L, x) \in Nat
    BY <1>1, Ranks
  <2>2. Rank(Waiting(r, L), x) <= Rank(L, x)
    BY <1>1, RankGrows
  <2> QED BY <1>2, <2>1, <2>2
<1>4. SkipInv(r, L)
  BY <1>3 DEF SkipInv, Reached, Paging
<1>5. AgainInv(r, L)
  <2> SUFFICES ASSUME NEW p \in People PROVE Due(r, p) = 0 /\ MovesBefore(r.joined, p) \in Nat
    BY DEF AgainInv
  <2>1. p \in Nat
    BY CronsAssumption
  <2> QED BY <1>2, <2>1 DEF Due
<1> QED BY <1>4, <1>5 DEF SlotInv, StampInv, KeptInv

LEMMA RunFields ==
    ASSUME NEW r \in Runs
    PROVE  /\ r.joined \in SUBSET Moves /\ r.left \in SUBSET Moves /\ r.offset \in Nat
           /\ \A p \in People : r.served[p] \in Nat /\ Due(r, p) \in Nat
           /\ Reached(r) \in Nat /\ BatchSize \in Nat /\ BatchSize > 0
           /\ \A p \in People : p \in Nat /\ MovesBefore(r.joined, p) \in Nat
<1>1. /\ r.joined \in SUBSET Moves /\ r.left \in SUBSET Moves /\ r.offset \in Nat
      /\ r.served \in [People -> Nat]
  BY DEF Runs
<1>2. BatchSize \in Nat /\ BatchSize > 0 /\ \A p \in People : p \in Nat
  BY CronsAssumption
<1>3. \A p \in People : r.served[p] \in Nat /\ Due(r, p) \in Nat
  BY <1>1 DEF Due
<1>4. Reached(r) \in Nat
  BY <1>1, <1>2 DEF Reached
<1>5. \A p \in People : MovesBefore(r.joined, p) \in Nat
  BY <1>1, MovesAre
<1> QED BY <1>1, <1>2, <1>3, <1>4, <1>5

LEMMA ReadSlot ==
    ASSUME NEW r \in Runs, NEW L \in SUBSET People, NEW n \in Nat, SlotInv(r, L, n),
           r.pc = "read", NEW q, q.page = Page(L, r.offset), q.tokens \subseteq q.page,
           q.pc = IF q.page = {} THEN "done" ELSE "save",
           q.served = r.served, q.joined = r.joined, q.left = r.left, q.offset = r.offset
    PROVE  SlotInv(q, L, n)
<1>1. Waiting(r, L) \in SUBSET L
  BY DEF Waiting
<1>2. Spared(Waiting(r, L), L, r.left, r.offset)
  BY DEF SlotInv, SkipInv, Paging, Reached
<1>3. CASE q.page = {}
  <2>1. q.pc = "done" /\ \A p \in People : Due(q, p) = Due(r, p)
    BY <1>3 DEF Due
  <2>2. Waiting(q, L) = Waiting(r, L)
    BY <2>1 DEF Waiting
  <2>3. \A x \in Nat : Rank(Waiting(r, L), x) <= MovesBefore(r.left, x)
    BY <1>1, <1>2, <1>3, RunFields, PageSpares
  <2>4. SkipInv(q, L)
    BY <2>1, <2>2, <2>3 DEF SkipInv, Paging
  <2>5. AgainInv(q, L)
    BY <2>1 DEF SlotInv, AgainInv, Paging
  <2> QED BY <2>1, <2>4, <2>5 DEF SlotInv, StampInv, KeptInv
<1>4. CASE q.page # {}
  <2>1. q.pc = "save" /\ Reached(q) = r.offset + BatchSize /\ Reached(r) = r.offset
    BY <1>4 DEF Reached
  <2>2. \A p \in L : Due(q, p) = 0 <=> Due(r, p) = 0 /\ p \notin q.page
    BY <2>1, RunFields DEF Due
  <2>3. Waiting(q, L) = Waiting(r, L) \ Page(L, r.offset)
    BY <2>2 DEF Waiting
  <2>4. Spared(Waiting(q, L), L, r.left, r.offset + BatchSize)
    BY <1>1, <1>2, <2>3, RunFields, PageSpares DEF Spared
  <2>5. SkipInv(q, L)
    BY <2>1, <2>4 DEF SkipInv
  <2>6. AgainInv(q, L)
    <3> SUFFICES ASSUME NEW p \in People
                 PROVE  /\ Due(q, p) <= 1 + MovesBefore(r.joined, p)
                        /\ Due(q, p) > 0 =>
                             Rank(L, p) + Due(q, p) <= r.offset + BatchSize + MovesBefore(r.joined, p)
      BY <2>1 DEF AgainInv
    <3>1. /\ Due(r, p) <= 1 + MovesBefore(r.joined, p)
          /\ Due(r, p) > 0 => Rank(L, p) + Due(r, p) <= r.offset + MovesBefore(r.joined, p)
          /\ Due(r, p) = r.served[p]
      BY <2>1 DEF SlotInv, AgainInv, Paging, Due
    <3>2. /\ r.offset \in Nat /\ r.served[p] \in Nat /\ BatchSize \in Nat
          /\ MovesBefore(r.joined, p) \in Nat /\ Rank(L, p) \in Nat
      BY RunFields, Ranks
    <3>3. CASE p \in q.page
      <4>1. r.offset <= Rank(L, p) /\ Rank(L, p) < r.offset + BatchSize
        BY <3>2, <3>3, PageIs
      <4>2. Due(q, p) = r.served[p] + 1
        BY <2>1, <3>3 DEF Due
      <4> QED BY <3>1, <3>2, <4>1, <4>2
    <3>4. CASE p \notin q.page
      <4>1. Due(q, p) = r.served[p]
        BY <3>4 DEF Due
      <4> QED BY <3>1, <3>2, <4>1
    <3> QED BY <3>3, <3>4
  <2>7. StampInv(q, n) /\ KeptInv(q)
    BY <2>1 DEF SlotInv, StampInv, KeptInv
  <2> QED BY <2>5, <2>6, <2>7 DEF SlotInv
<1> QED BY <1>3, <1>4

\* A step that leaves what the pages so far have told and taken.
LEMMA SameSlot ==
    ASSUME NEW r \in Runs, NEW L \in SUBSET People, NEW n \in Nat, SlotInv(r, L, n),
           r.pc \in Paging, NEW q, q.pc \in Paging, KeptInv(q),
           q.joined = r.joined, q.left = r.left, Reached(q) = Reached(r),
           \A p \in People : Due(q, p) = Due(r, p)
    PROVE  SlotInv(q, L, n)
<1>1. Waiting(q, L) = Waiting(r, L)
  BY DEF Waiting
<1>2. SkipInv(q, L)
  BY <1>1 DEF SlotInv, SkipInv, Paging
<1>3. AgainInv(q, L)
  BY DEF SlotInv, AgainInv
<1> QED BY <1>2, <1>3 DEF SlotInv, StampInv

LEMMA SaveSlot ==
    ASSUME NEW r \in Runs, NEW L \in SUBSET People, NEW n \in Nat, SlotInv(r, L, n),
           r.pc = "save", NEW q, q.page = r.page, q.tokens = r.tokens,
           q.served = [p \in People |-> IF p \in r.page THEN r.served[p] + 1 ELSE r.served[p]],
           q.pc = IF r.tokens = {} THEN "read" ELSE "send",
           q.offset = IF r.tokens = {} THEN r.offset + BatchSize ELSE r.offset,
           q.joined = r.joined, q.left = r.left
    PROVE  SlotInv(q, L, n)
<1>1. Reached(q) = Reached(r)
  BY DEF Reached
<1>2. q.pc \in Paging /\ q.pc # "save" /\ \A p \in People : Due(q, p) = Due(r, p)
  BY DEF Due, Paging
<1>3. r.page \in SUBSET People /\ r.tokens \subseteq r.page
  BY DEF Runs, SlotInv, KeptInv
<1>4. \A p \in r.page : q.served[p] > 0
  BY <1>3, RunFields
<1>5. KeptInv(q)
  BY <1>2, <1>3, <1>4 DEF KeptInv
<1>6. r.pc \in Paging
  BY DEF Paging
<1> QED BY <1>1, <1>2, <1>5, <1>6, SameSlot

LEMMA SendSlot ==
    ASSUME NEW r \in Runs, NEW L \in SUBSET People, NEW n \in Nat, SlotInv(r, L, n),
           r.pc = "send", NEW q, q.served = r.served, q.pc = "read",
           q.offset = r.offset + BatchSize, q.joined = r.joined, q.left = r.left
    PROVE  SlotInv(q, L, n)
<1>1. Reached(q) = Reached(r) /\ r.pc \in Paging /\ q.pc \in Paging /\ KeptInv(q)
  BY DEF Reached, Paging, KeptInv
<1>2. \A p \in People : Due(q, p) = Due(r, p)
  BY DEF Due
<1> QED BY <1>1, <1>2, SameSlot

LEMMA ErrorSlot ==
    ASSUME NEW r \in Runs, NEW L \in SUBSET People, NEW n \in Nat, SlotInv(r, L, n),
           NEW q, q.served = r.served, q.pc = "done", q.failed = TRUE,
           q.joined = r.joined, q.left = r.left
    PROVE  SlotInv(q, L, n)
<1>1. AgainInv(q, L)
  <2> SUFFICES ASSUME NEW p \in People PROVE Due(q, p) <= 1 + MovesBefore(r.joined, p)
    BY DEF AgainInv, Paging
  <2>1. Due(r, p) <= 1 + MovesBefore(r.joined, p)
    BY DEF SlotInv, AgainInv
  <2>2. /\ Due(r, p) \in Nat /\ r.served[p] \in Nat /\ MovesBefore(r.joined, p) \in Nat
        /\ r.served[p] <= Due(r, p)
    BY RunFields DEF Due
  <2> QED BY <2>1, <2>2 DEF Due
<1> QED BY <1>1 DEF SlotInv, StampInv, KeptInv, SkipInv, Paging

\* The list of r becomes M, and r notes who came and who went.
LEMMA ChangeSlot ==
    ASSUME NEW r \in Runs, NEW L \in SUBSET People, NEW M \in SUBSET People,
           NEW n \in 0..MaxChanges, SlotInv(r, L, n),
           NEW q, q.pc = r.pc, q.page = r.page, q.tokens = r.tokens, q.served = r.served,
           q.offset = r.offset, q.failed = r.failed,
           q.joined = r.joined \union ((M \ L) \X {n}), q.left = r.left \union ((L \ M) \X {n})
    PROVE  SlotInv(q, M, n + 1)
<1>1. n \in Nat /\ \A m \in r.joined \union r.left : m[2] \in Nat /\ m[2] < n /\ m[2] # n
  <2>1. \A m \in r.joined \union r.left : m[2] \in Nat /\ m[2] < n
    BY RunFields DEF SlotInv, StampInv, Moves
  <2> QED BY <2>1
<1>2. StampInv(q, n + 1)
  <2> SUFFICES ASSUME NEW m \in q.joined \union q.left PROVE m[2] < n + 1
    BY DEF StampInv
  <2>1. m[2] = n \/ m \in r.joined \union r.left
    OBVIOUS
  <2> QED BY <1>1, <2>1
<1>3. Reached(q) = Reached(r) /\ \A p \in People : Due(q, p) = Due(r, p)
  BY DEF Reached, Due
<1>4. Waiting(q, M) \in SUBSET Waiting(r, L)
  <2> SUFFICES ASSUME NEW p \in Waiting(q, M) PROVE p \in Waiting(r, L)
    OBVIOUS
  <2>1. /\ p \in M /\ Due(r, p) = 0
        /\ \A m \in q.joined \union q.left : m[1] # p
    BY <1>3 DEF Waiting
  <2>2. p \in L
    <3> SUFFICES ASSUME p \notin L PROVE FALSE
      OBVIOUS
    <3>1. <<p, n>> \in q.joined
      BY <2>1
    <3> QED BY <2>1, <3>1
  <2> QED BY <2>1, <2>2 DEF Waiting
<1>5. Waiting(r, L) \in SUBSET L
  BY DEF Waiting
<1>6. PICK o : o = Reached(r)
  OBVIOUS
<1>7. ASSUME NEW x \in Nat
      PROVE  /\ Rank(Waiting(r, L), x) <= MovesBefore(r.left, x)
                  => Rank(Waiting(q, M), x) <= MovesBefore(q.left, x)
             /\ Rank(Waiting(r, L), x) + o <= MovesBefore(r.left, x) + Rank(L, x)
                  => Rank(Waiting(q, M), x) + o <= MovesBefore(q.left, x) + Rank(M, x)
  <2>1. Waiting(r, L) \in SUBSET People /\ Waiting(q, M) \in SUBSET People
        /\ L \ M \in SUBSET People
    BY <1>4, <1>5
  <2>2. MovesBefore(q.left, x) = MovesBefore(r.left, x) + Rank(L \ M, x)
    BY <1>1, <2>1, RunFields, MovesAdd
  <2>3. Rank(Waiting(q, M), x) <= Rank(Waiting(r, L), x)
    BY <1>4, <2>1, RankGrows
  <2>4. Rank(L, x) <= Rank(M, x) + Rank(L \ M, x)
    BY RankSplits
  <2>5. /\ Rank(Waiting(r, L), x) \in Nat /\ Rank(Waiting(q, M), x) \in Nat
        /\ Rank(L, x) \in Nat /\ Rank(M, x) \in Nat /\ Rank(L \ M, x) \in Nat
    BY <2>1, Ranks
  <2>6. MovesBefore(r.left, x) \in Nat /\ o \in Nat
    BY <1>6, RunFields, MovesAre
  <2> QED BY <2>2, <2>3, <2>4, <2>5, <2>6
<1>10. SkipInv(q, M)
  <2>1. ASSUME r.pc \in Paging PROVE Spared(Waiting(q, M), M, q.left, o)
    <3>1. Spared(Waiting(r, L), L, r.left, o)
      BY <1>6, <2>1 DEF SlotInv, SkipInv
    <3> QED BY <1>7, <3>1 DEF Spared
  <2>2. ASSUME r.pc = "done", ~r.failed, NEW x \in Nat
        PROVE  Rank(Waiting(q, M), x) <= MovesBefore(q.left, x)
    <3>1. Rank(Waiting(r, L), x) <= MovesBefore(r.left, x)
      BY <2>2 DEF SlotInv, SkipInv
    <3> QED BY <1>7, <3>1
  <2> QED BY <1>3, <1>6, <2>1, <2>2 DEF SkipInv
<1>8. AgainInv(q, M)
  <2> SUFFICES ASSUME NEW p \in People
               PROVE  /\ Due(r, p) <= 1 + MovesBefore(q.joined, p)
                      /\ r.pc \in Paging /\ Due(r, p) > 0 =>
                           Rank(M, p) + Due(r, p) <= Reached(r) + MovesBefore(q.joined, p)
    BY <1>3 DEF AgainInv
  <2>1. /\ Due(r, p) <= 1 + MovesBefore(r.joined, p)
        /\ r.pc \in Paging /\ Due(r, p) > 0 =>
             Rank(L, p) + Due(r, p) <= Reached(r) + MovesBefore(r.joined, p)
    BY DEF SlotInv, AgainInv
  <2>2. MovesBefore(q.joined, p) = MovesBefore(r.joined, p) + Rank(M \ L, p)
    <3>1. M \ L \in SUBSET People
      OBVIOUS
    <3> QED BY <1>1, <3>1, RunFields, MovesAdd
  <2>3. Rank(M, p) <= Rank(L, p) + Rank(M \ L, p)
    BY RankSplits
  <2>4. Rank(M, p) \in Nat /\ Rank(L, p) \in Nat /\ Rank(M \ L, p) \in Nat
    BY Ranks
  <2>5. Due(r, p) \in Nat /\ Reached(r) \in Nat /\ MovesBefore(r.joined, p) \in Nat
    BY RunFields
  <2> QED BY <2>1, <2>2, <2>3, <2>4, <2>5
<1>9. KeptInv(q)
  BY DEF SlotInv, KeptInv
<1> QED BY <1>2, <1>8, <1>9, <1>10 DEF SlotInv

-----------------------------------------------------------------------------
(* All runs *)

LEMMA InitPages == Init => PagesInv
<1> SUFFICES ASSUME Init, NEW s \in Slots PROVE SlotInv(run[s], Listed(run[s].kind), changes)
  BY DEF PagesInv
<1>1. run[s] = NoRun /\ changes = 0 /\ TypeOK
  BY InitTypeOK DEF Init
<1> QED BY <1>1, ListType, FreshRun DEF NoRun

\* A step of one slot over a list that stays.
LEMMA SlotMoves ==
    ASSUME TypeOK, PagesInv, NEW s \in Slots, NEW r, run' = [run EXCEPT ![s] = r],
           UNCHANGED <<signedIn, poor, changes>>, SlotInv(r, Listed(r.kind), changes)
    PROVE  PagesInv'
<1>1. \A kind : Listed(kind)' = Listed(kind)
  BY DEF Listed
<1>2. ASSUME NEW v \in Slots PROVE SlotInv(run[v], Listed(run[v].kind), changes)'
  <2>1. CASE v = s
    BY <1>1, <2>1 DEF TypeOK
  <2>2. CASE v # s
    BY <1>1, <2>2 DEF PagesInv, TypeOK
  <2> QED BY <2>1, <2>2
<1> QED BY <1>2 DEF PagesInv

LEMMA StepPages ==
    ASSUME TypeOK, PagesInv, NEW s \in Slots,
           ReadPage(s) \/ SavePage(s) \/ SendPage(s) \/ RunError(s)
    PROVE  PagesInv'
<1>1. PICK r : r = run[s]
  OBVIOUS
<1>2. PICK L : L = Listed(r.kind)
  OBVIOUS
<1>3. r \in Runs /\ L \in SUBSET People /\ changes \in Nat /\ SlotInv(r, L, changes)
  <2>1. r \in Runs
    BY <1>1, RunType DEF ReadPage, SavePage, SendPage, RunError
  <2> QED BY <1>1, <1>2, <2>1, ListType DEF PagesInv, TypeOK
<1>4. PICK q : q = run'[s]
  OBVIOUS
<1>5. UNCHANGED <<signedIn, poor, changes>>
  BY DEF ReadPage, SavePage, SendPage, RunError, counters
<1>6. CASE ReadPage(s)
  <2>1. PICK page : page = Page(L, r.offset)
    OBVIOUS
  <2>2. run' = [run EXCEPT ![s] = [r EXCEPT !.page = page, !.tokens = page \intersect signedIn,
                                            !.pc = IF page = {} THEN "done" ELSE "save"]]
    BY <1>1, <1>2, <1>6, <2>1 DEF ReadPage
  <2>3. q = [r EXCEPT !.page = page, !.tokens = page \intersect signedIn,
                      !.pc = IF page = {} THEN "done" ELSE "save"]
    BY <1>4, <2>2 DEF TypeOK
  <2>4. /\ q.page = page /\ q.tokens \subseteq page
        /\ q.pc = IF page = {} THEN "done" ELSE "save"
        /\ q.served = r.served /\ q.joined = r.joined /\ q.left = r.left
        /\ q.offset = r.offset /\ q.kind = r.kind
    BY <1>3, <2>3 DEF Runs
  <2>5. r.pc = "read"
    BY <1>1, <1>6 DEF ReadPage
  <2>6. SlotInv(q, L, changes)
    BY <1>3, <2>1, <2>4, <2>5, ReadSlot
  <2> QED BY <1>2, <1>5, <2>2, <2>3, <2>4, <2>6, SlotMoves
<1>7. CASE SavePage(s)
  <2>1. PICK told : told = [p \in People |-> IF p \in r.page THEN r.served[p] + 1 ELSE r.served[p]]
    OBVIOUS
  <2>2. PICK next : next = IF r.tokens = {} THEN "read" ELSE "send"
    OBVIOUS
  <2>3. PICK o : o = IF r.tokens = {} THEN r.offset + BatchSize ELSE r.offset
    OBVIOUS
  <2>4. run' = [run EXCEPT ![s] = [r EXCEPT !.served = told, !.pc = next, !.offset = o]]
    BY <1>1, <1>7, <2>1, <2>2, <2>3 DEF SavePage, Told, NextOffset
  <2>5. q = [r EXCEPT !.served = told, !.pc = next, !.offset = o]
    BY <1>4, <2>4 DEF TypeOK
  <2>6. /\ q.page = r.page /\ q.tokens = r.tokens /\ q.pc = next /\ q.served = told
        /\ q.joined = r.joined /\ q.left = r.left /\ q.offset = o /\ q.kind = r.kind
    BY <1>3, <2>5 DEF Runs
  <2>7. r.pc = "save"
    BY <1>1, <1>7 DEF SavePage
  <2>8. SlotInv(q, L, changes)
    BY <1>3, <2>1, <2>2, <2>3, <2>6, <2>7, SaveSlot
  <2> QED BY <1>2, <1>5, <2>4, <2>5, <2>6, <2>8, SlotMoves
<1>8. CASE SendPage(s)
  <2>1. PICK o : o = r.offset + BatchSize
    OBVIOUS
  <2>2. run' = [run EXCEPT ![s] = [r EXCEPT !.pc = "read", !.offset = o]]
    BY <1>1, <1>8, <2>1 DEF SendPage, NextOffset
  <2>3. q = [r EXCEPT !.pc = "read", !.offset = o]
    BY <1>4, <2>2 DEF TypeOK
  <2>4. /\ q.pc = "read" /\ q.served = r.served /\ q.joined = r.joined /\ q.left = r.left
        /\ q.offset = o /\ q.kind = r.kind
    BY <1>3, <2>3 DEF Runs
  <2>5. r.pc = "send"
    BY <1>1, <1>8 DEF SendPage
  <2>6. SlotInv(q, L, changes)
    BY <1>3, <2>1, <2>4, <2>5, SendSlot
  <2> QED BY <1>2, <1>5, <2>2, <2>3, <2>4, <2>6, SlotMoves
<1>9. CASE RunError(s)
  <2>1. run' = [run EXCEPT ![s] = [r EXCEPT !.pc = "done", !.failed = TRUE]]
    BY <1>1, <1>9 DEF RunError
  <2>2. q = [r EXCEPT !.pc = "done", !.failed = TRUE]
    BY <1>4, <2>1 DEF TypeOK
  <2>3. /\ q.pc = "done" /\ q.failed = TRUE /\ q.served = r.served /\ q.joined = r.joined
        /\ q.left = r.left /\ q.kind = r.kind
    BY <1>3, <2>2 DEF Runs
  <2>4. SlotInv(q, L, changes)
    BY <1>3, <2>3, ErrorSlot
  <2> QED BY <1>2, <1>5, <2>1, <2>2, <2>3, <2>4, SlotMoves
<1> QED BY <1>6, <1>7, <1>8, <1>9

LEMMA IdlePages ==
    ASSUME NEW kind, TypeOK
    PROVE  SlotInv(NoRun, Listed(kind), changes)
<1>1. changes \in Nat /\ Listed(kind) \in SUBSET People
  BY ListType DEF TypeOK
<1> QED BY <1>1, FreshRun DEF NoRun

LEMMA StartPages ==
    ASSUME TypeOK, PagesInv, NEW s \in Slots, NEW i \in JobIds, Start(s, i)
    PROVE  PagesInv'
<1>1. PICK r : r = [NoRun EXCEPT !.pc = "read", !.id = i, !.kind = job[i].kind]
  OBVIOUS
<1>2. /\ r.pc = "read" /\ r.offset = 0 /\ r.served = [p \in People |-> 0]
      /\ r.joined = {} /\ r.left = {}
  BY <1>1 DEF NoRun
<1>3. SlotInv(r, Listed(r.kind), changes)
  BY <1>2, ListType, FreshRun DEF TypeOK
<1>4. run' = [run EXCEPT ![s] = r] /\ UNCHANGED <<signedIn, poor, changes>>
  BY <1>1 DEF Start, counters
<1> QED BY <1>3, <1>4, SlotMoves

LEMMA CompletePages ==
    ASSUME TypeOK, PagesInv, NEW s \in Slots, Complete(s)
    PROVE  PagesInv'
<1>1. run' = [run EXCEPT ![s] = NoRun] /\ UNCHANGED <<signedIn, poor, changes>>
  BY DEF Complete, counters
<1> QED BY <1>1, IdlePages, SlotMoves

LEMMA KillPages ==
    ASSUME TypeOK, PagesInv, NEW w \in Workers, Kill(w), UNCHANGED <<signedIn, poor, changes>>
    PROVE  PagesInv'
<1>1. \A kind : Listed(kind)' = Listed(kind)
  BY DEF Listed
<1>2. ASSUME NEW v \in Slots PROVE SlotInv(run[v], Listed(run[v].kind), changes)'
  <2>1. run'[v] = NoRun \/ run'[v] = run[v]
    BY DEF Kill
  <2> QED BY <1>1, <2>1, IdlePages DEF PagesInv
<1> QED BY <1>2 DEF PagesInv

LEMMA ChangePages ==
    ASSUME TypeOK, PagesInv, NEW tokens \in SUBSET People, NEW short \in SUBSET Shoemakers,
           Change(tokens, short)
    PROVE  PagesInv'
<1>1. /\ changes \in Nat /\ changes \in 0..MaxChanges /\ changes' = changes + 1
      /\ signedIn' = tokens /\ poor' = short /\ TypeOK'
  <2>1. changes \in Nat /\ MaxChanges \in Nat
    BY CronsAssumption DEF TypeOK
  <2>2. changes < MaxChanges /\ changes' = changes + 1 /\ signedIn' = tokens /\ poor' = short
    BY DEF Change
  <2> QED BY <2>1, <2>2, ChangeTypeOK
<1>2. \A kind : Listed(kind)' = ListedIn(kind, tokens, short)
  BY <1>1 DEF Listed
<1>3. ASSUME NEW s \in Slots PROVE SlotInv(run[s], Listed(run[s].kind), changes)'
  <2>1. PICK r : r = run[s]
    OBVIOUS
  <2>2. PICK q : q = run'[s]
    OBVIOUS
  <2>3. PICK L : L = Listed(r.kind)
    OBVIOUS
  <2>4. PICK M : M = ListedIn(r.kind, tokens, short)
    OBVIOUS
  <2>5. L \in SUBSET People /\ M \in SUBSET People
    BY <2>3, <2>4, ListType DEF ListedIn, People
  <2>6. CASE r.pc = "idle"
    <3>1. q = NoRun
      BY <2>1, <2>2, <2>6, RunType DEF Change
    <3>2. changes' \in Nat /\ M \in SUBSET People
      BY <1>1, <2>5
    <3>3. r = NoRun
      BY <2>1, <2>6, RunType
    <3>4. SlotInv(NoRun, M, changes')
      BY <3>2, FreshRun DEF NoRun
    <3> QED BY <1>2, <2>2, <2>4, <3>1, <3>3, <3>4
  <2>7. CASE r.pc # "idle"
    <3>1. PICK come : come = r.joined \union ((M \ L) \X {changes})
      OBVIOUS
    <3>2. PICK gone : gone = r.left \union ((L \ M) \X {changes})
      OBVIOUS
    <3>3. q = [r EXCEPT !.joined = come, !.left = gone]
      BY <2>1, <2>2, <2>3, <2>4, <2>7, <3>1, <3>2 DEF Change
    <3>4. r \in Runs
      BY <2>1, <2>7, RunType
    <3>5. /\ q.pc = r.pc /\ q.page = r.page /\ q.tokens = r.tokens /\ q.served = r.served
          /\ q.offset = r.offset /\ q.failed = r.failed /\ q.kind = r.kind
          /\ q.joined = come /\ q.left = gone
      BY <3>3, <3>4 DEF Runs
    <3>6. SlotInv(r, L, changes)
      BY <2>1, <2>3 DEF PagesInv
    <3>7. SlotInv(q, M, changes + 1)
      BY <1>1, <2>5, <3>1, <3>2, <3>4, <3>5, <3>6, ChangeSlot
    <3> QED BY <1>1, <1>2, <2>2, <2>4, <3>5, <3>7
  <2> QED BY <2>6, <2>7
<1> QED BY <1>3 DEF PagesInv

LEMMA NextPages == TypeOK /\ PagesInv /\ [Next]_vars => PagesInv'
<1> SUFFICES ASSUME TypeOK, PagesInv, [Next]_vars PROVE PagesInv'
  OBVIOUS
<1>1. ASSUME UNCHANGED <<signedIn, poor, run, changes>> PROVE PagesInv'
  BY <1>1 DEF PagesInv, Listed
<1>2. ASSUME NEW c \in Crons, Tick(c) PROVE PagesInv'
  BY <1>1, <1>2 DEF Tick
<1>3. ASSUME NEW w \in Workers, Enqueue(w) PROVE PagesInv'
  BY <1>1, <1>3 DEF Enqueue, counters
<1>4. ASSUME NEW w \in Workers, EnqueueError(w) \/ Crash(w) PROVE PagesInv'
  BY <1>4, KillPages DEF EnqueueError, Crash, counters
<1>5. ASSUME NEW p \in People, SignIn(p) \/ SignOut(p) PROVE PagesInv'
  BY <1>5, ChangePages DEF SignIn, SignOut, TypeOK
<1>6. ASSUME NEW p \in People, Spend(p) \/ TopUp(p) PROVE PagesInv'
  BY <1>6, ChangePages DEF Spend, TopUp, TypeOK, People
<1>7. ASSUME NEW i \in JobIds, Stall(i) PROVE PagesInv'
  BY <1>1, <1>7 DEF Stall
<1>8. CASE UNCHANGED vars
  BY <1>1, <1>8 DEF vars, counters
<1> QED BY <1>2, <1>3, <1>4, <1>5, <1>6, <1>7, <1>8, StepPages, StartPages, CompletePages
        DEF Next, RunStep

\* Nobody is sent a message whose row is not in the inbox, whichever call failed, lost
\* its lock or died before.
THEOREM PushesStayKept == Spec => []PushesAreKept
<1>1. TypeOK /\ PagesInv => PushesAreKept
  BY DEF PagesInv, SlotInv, KeptInv, PushesAreKept
<1> QED BY <1>1, InitTypeOK, NextTypeOK, InitPages, NextPages, PTL DEF Spec

\* Whoever comes and goes, in whatever order and between whichever steps: a run that
\* pages to the end skips, up to any place of the list, no more people than left before
\* it, and tells nobody more often than people came before them, and once.
THEOREM PagesFollow == Spec => []PagesFollowTheList
<1>1. ASSUME TypeOK, PagesInv PROVE SkipsOnlyByLeaving
  <2> SUFFICES ASSUME NEW s \in Slots, run[s].pc = "done", ~run[s].failed, NEW p \in Missed(s)
               PROVE  Rank(Missed(s), p) < MovesBefore(run[s].left, p)
    BY DEF SkipsOnlyByLeaving, Rank
  <2>1. Missed(s) = Waiting(run[s], Listed(run[s].kind))
    BY DEF Missed, Waiting, Due
  <2>2. \A x \in Nat : Rank(Missed(s), x) <= MovesBefore(run[s].left, x)
    BY <1>1, <2>1 DEF PagesInv, SlotInv, SkipInv
  <2>3. Missed(s) \in SUBSET People /\ p \in Nat /\ p + 1 \in Nat
    <3>1. p \in Listed(run[s].kind) /\ Missed(s) \subseteq Listed(run[s].kind)
      BY DEF Missed
    <3>2. p \in People /\ Missed(s) \in SUBSET People
      BY <1>1, <3>1, ListType
    <3> QED BY <3>2, CronsAssumption
  <2>4. Rank(Missed(s), p) < Rank(Missed(s), p + 1)
    BY <2>3, RankOfMember
  <2>5. MovesBefore(run[s].left, p + 1) = MovesBefore(run[s].left, p)
    <3>1. \A m \in run[s].left : m[1] \in Nat /\ m[1] # p
      BY <1>1, RunType, CronsAssumption DEF Missed, Moves
    <3>2. {m \in run[s].left : m[1] < p + 1} = {m \in run[s].left : m[1] < p}
      BY <2>3, <3>1
    <3> QED BY <3>2 DEF MovesBefore
  <2>6. /\ Rank(Missed(s), p) \in Nat /\ Rank(Missed(s), p + 1) \in Nat
        /\ MovesBefore(run[s].left, p) \in Nat
    BY <1>1, <2>3, Ranks, RunType, MovesAre
  <2> QED BY <2>2, <2>3, <2>4, <2>5, <2>6
<1>2. ASSUME TypeOK, PagesInv PROVE RepeatsOnlyByJoining
  <2> SUFFICES ASSUME NEW s \in Slots, NEW p \in People
               PROVE  run[s].served[p] <= 1 + MovesBefore(run[s].joined, p)
    BY DEF RepeatsOnlyByJoining
  <2>1. Due(run[s], p) <= 1 + MovesBefore(run[s].joined, p)
    BY <1>2 DEF PagesInv, SlotInv, AgainInv
  <2>2. run[s].served[p] \in Nat /\ MovesBefore(run[s].joined, p) \in Nat
    BY <1>2, RunType, MovesAre
  <2> QED BY <2>1, <2>2 DEF Due
<1> QED BY <1>1, <1>2, InitTypeOK, NextTypeOK, InitPages, NextPages, PTL
        DEF Spec, PagesFollowTheList

\* In particular, a run that pages to the end while nobody comes or goes tells all
\* those on its list, each of them once.
THEOREM QuietRunsTellAll ==
    Spec => [](\A s \in Slots :
                 run[s].pc = "done" /\ ~run[s].failed /\ run[s].joined = {} /\ run[s].left = {} =>
                   \A p \in Listed(run[s].kind) : run[s].served[p] = 1)
<1>1. ASSUME TypeOK, PagesFollowTheList, NEW s \in Slots, run[s].pc = "done", ~run[s].failed,
             run[s].joined = {}, run[s].left = {}, NEW p \in Listed(run[s].kind)
      PROVE  run[s].served[p] = 1
  <2>1. p \in People /\ run[s].served[p] \in Nat
    BY <1>1, ListType, RunType
  <2>2. MovesBefore({}, p) = 0
    <3>1. {m \in {} : m[1] < p} = {}
      OBVIOUS
    <3> QED BY <3>1, FS_EmptySet DEF MovesBefore
  <2>3. run[s].served[p] <= 1
    <3>1. run[s].served[p] <= 1 + MovesBefore({}, p)
      BY <1>1, <2>1 DEF PagesFollowTheList, RepeatsOnlyByJoining
    <3> QED BY <2>2, <3>1
  <2>4. p \notin Missed(s)
    <3> SUFFICES ASSUME p \in Missed(s) PROVE FALSE
      OBVIOUS
    <3>1. Rank(Missed(s), p) < MovesBefore({}, p)
      BY <1>1 DEF PagesFollowTheList, SkipsOnlyByLeaving, Rank
    <3>2. Missed(s) \in SUBSET People
      BY <1>1, ListType DEF Missed
    <3>3. Rank(Missed(s), p) \in Nat
      BY <3>2, Ranks
    <3> QED BY <2>2, <3>1, <3>3
  <2>5. run[s].served[p] # 0
    BY <1>1, <2>4 DEF Missed
  <2> QED BY <2>1, <2>3, <2>5
<1>2. TypeOK /\ PagesFollowTheList =>
        \A s \in Slots :
          run[s].pc = "done" /\ ~run[s].failed /\ run[s].joined = {} /\ run[s].left = {} =>
            \A p \in Listed(run[s].kind) : run[s].served[p] = 1
  BY <1>1
<1> QED BY <1>2, TypeCorrect, PagesFollow, PTL

=============================================================================
