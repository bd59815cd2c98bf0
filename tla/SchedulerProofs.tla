--------------------------- MODULE SchedulerProofs ---------------------------
(***************************************************************************)
(* For every finite set of tasks, every priority of each and every length of *)
(* a frame: the links of the task lists survive whatever is added and        *)
(* removed, and a stale link is followed only behind a task that has gone.   *)
(*                                                                         *)
(* The model walks the links by a recursive function. What the walk finds is *)
(* shown once (WalkFinds): an order of the tasks that the links follow is    *)
(* what the walk returns. Every step then only has to name the new order.    *)
(***************************************************************************)
EXTENDS Scheduler, TLAPS, FiniteSetTheorems, FunctionTheorems, WellFoundedInduction, Sequences

\* The bound of a walk
Size == Cardinality(Tasks)

Lists ==
    [ head : [Priorities -> Tasks \cup {None}],
      next : [Tasks -> Tasks \cup {None}],
      state : [Tasks -> {"new", "active", "suspended", "error"}],
      dead : SUBSET Tasks ]

Active(l, p) == {t \in Tasks : Priority[t] = p /\ l.state[t] = "active"}

\* The links of priority p go through s, in this order, and end.
Links(l, p, s) ==
    /\ s \in Seq(Tasks)
    /\ \A i, j \in 1 .. Len(s) : s[i] = s[j] => i = j
    /\ l.head[p] = IF s = <<>> THEN None ELSE s[1]
    /\ \A i \in 1 .. Len(s) : l.next[s[i]] = IF i < Len(s) THEN s[i + 1] ELSE None

Members(s) == {s[i] : i \in 1 .. Len(s)}

Ordered(l, p) == \E s : Links(l, p, s) /\ Members(s) = Active(l, p)

\* The inductive invariant
IInv == TypeOK /\ \A p \in Priorities : Ordered(list, p)

-----------------------------------------------------------------------------
(* The walk along the links *)

LEMMA SizeType == Size \in Nat
BY TasksAssumption, FS_CardinalityType DEF Size

LEMMA Smallest == ASSUME NEW T \in SUBSET Nat, T # {} PROVE \E i \in T : \A j \in T : i <= j
<1> DEFINE R == OpToRel(<, Nat)
<1>1. \A x \in T, y \in T : <<y, x>> \in R <=> y < x
  BY DEF OpToRel
<1>2. IsWellFoundedOn(R, Nat)
  BY NatLessThanWellFounded
<1> HIDE DEF R
<1>3. \E x \in T : \A y \in T : ~(<<y, x>> \in R)
  BY <1>2, WFMin
<1>4. \E x \in T : \A y \in T : ~(y < x)
  BY <1>1, <1>3
<1>. QED  BY <1>4

IsWalk(f, l, p) ==
    f = [n \in 0 .. Size |->
            IF n = 0 THEN l.head[p]
            ELSE LET e == f[n - 1] IN IF e = None THEN None ELSE l.next[e]]

\* There is one walk at most,
LEMMA OneWalk ==
    ASSUME NEW l, NEW p, NEW f, NEW g, IsWalk(f, l, p), IsWalk(g, l, p)
    PROVE  f = g
<1> DEFINE T == {n \in 0 .. Size : f[n] # g[n]}
<1>1. DOMAIN f = 0 .. Size /\ DOMAIN g = 0 .. Size
  BY DEF IsWalk
<1>2. f = [n \in 0 .. Size |-> f[n]] /\ g = [n \in 0 .. Size |-> g[n]]
  BY DEF IsWalk
<1>3. SUFFICES ASSUME T # {} PROVE FALSE
  BY <1>1, <1>2
<1>4. T \in SUBSET Nat
  BY SizeType
<1>5. PICK i \in T : \A j \in T : i <= j
  BY <1>3, <1>4, Smallest
<1>6. \A n \in 0 .. Size :
         /\ f[n] = IF n = 0 THEN l.head[p]
                   ELSE IF f[n - 1] = None THEN None ELSE l.next[f[n - 1]]
         /\ g[n] = IF n = 0 THEN l.head[p]
                   ELSE IF g[n - 1] = None THEN None ELSE l.next[g[n - 1]]
  BY DEF IsWalk
<1>7. i # 0
  BY <1>6
<1>8. i - 1 \in 0 .. Size /\ ~(i <= i - 1)
  BY <1>7, SizeType
<1>9. f[i - 1] = g[i - 1]
  BY <1>5, <1>8
<1>. QED  BY <1>6, <1>9

\* so that Nth is any walk there is.
LEMMA NthIsWalk ==
    ASSUME NEW l, NEW p, NEW f, IsWalk(f, l, p)
    PROVE  Nth(l, p) = f
<1>1. \A g : IsWalk(g, l, p) => g = f
  BY OneWalk
<1>2. Nth(l, p) = CHOOSE g : IsWalk(g, l, p)
  BY DEF Nth, IsWalk, Size
<1>. QED  BY <1>1, <1>2

Walk(s) == [n \in 0 .. Size |-> IF n < Len(s) THEN s[n + 1] ELSE None]

LEMMA LengthBound ==
    ASSUME NEW s \in Seq(Tasks), \A i, j \in 1 .. Len(s) : s[i] = s[j] => i = j
    PROVE  /\ Len(s) <= Size
           /\ Cardinality(Members(s)) = Len(s)
<1> DEFINE D == 1 .. Len(s)
<1>1. IsFiniteSet(D) /\ Cardinality(D) = Len(s)
  <2>1. Len(s) \in Nat
    OBVIOUS
  <2>2. /\ IsFiniteSet(1 .. Len(s))
        /\ Cardinality(1 .. Len(s)) = IF 1 > Len(s) THEN 0 ELSE Len(s) - 1 + 1
    BY <2>1, FS_Interval
  <2>. QED  BY <2>1, <2>2
<1>2. s \in Injection(D, Tasks)
  BY DEF Injection, IsInjective
<1>3. Len(s) <= Size
  BY <1>1, <1>2, TasksAssumption, FS_Injection DEF Size
<1>4. s \in Surjection(D, Members(s))
  BY DEF Surjection, Members
<1>5. s \in Injection(D, Members(s))
  BY <1>4 DEF Injection, IsInjective, Surjection
<1>6. Cardinality(Members(s)) = Cardinality(D)
  BY <1>1, <1>4, <1>5, FS_Surjection
<1>. QED  BY <1>1, <1>3, <1>6

\* What the walk finds: the tasks of the order, its last one, and the end.
LEMMA WalkFinds ==
    ASSUME NEW l \in Lists, NEW p \in Priorities, NEW s, Links(l, p, s)
    PROVE  /\ Nth(l, p) = Walk(s)
           /\ Listed(l, p) = Members(s)
           /\ Nth(l, p)[Cardinality(Members(s))] = None
           /\ s # <<>> => Last(l, p) = s[Len(s)]
<1>1. s \in Seq(Tasks) /\ Len(s) \in Nat /\ Len(s) <= Size /\ Cardinality(Members(s)) = Len(s)
  BY LengthBound DEF Links
<1>2. IsWalk(Walk(s), l, p)
  <2>1. \A n \in 0 .. Size :
            Walk(s)[n] = IF n = 0 THEN l.head[p]
                         ELSE IF Walk(s)[n - 1] = None THEN None ELSE l.next[Walk(s)[n - 1]]
    <3>1. TAKE n \in 0 .. Size
    <3>2. CASE n = 0
      BY <1>1, <3>2, SizeType DEF Walk, Links
    <3>3. CASE n # 0 /\ n < Len(s)
      <4>1. n - 1 \in 0 .. Size /\ n - 1 < Len(s) /\ n \in 1 .. Len(s)
        BY <1>1, <3>3, SizeType
      <4>2. Walk(s)[n - 1] = s[n] /\ s[n] \in Tasks /\ s[n] # None
        BY <1>1, <4>1, NoneAssumption DEF Walk
      <4>3. l.next[s[n]] = s[n + 1] /\ Walk(s)[n] = s[n + 1]
        BY <3>3, <4>1 DEF Walk, Links
      <4>. QED  BY <3>3, <4>2, <4>3
    <3>4. CASE n # 0 /\ n = Len(s)
      <4>1. n - 1 \in 0 .. Size /\ n - 1 < Len(s) /\ n \in 1 .. Len(s)
        BY <1>1, <3>4, SizeType
      <4>2. Walk(s)[n - 1] = s[n] /\ s[n] \in Tasks /\ s[n] # None
        BY <1>1, <4>1, NoneAssumption DEF Walk
      <4>3. l.next[s[n]] = None /\ Walk(s)[n] = None
        BY <3>4, <4>1 DEF Walk, Links
      <4>. QED  BY <3>4, <4>2, <4>3
    <3>5. CASE n # 0 /\ n > Len(s)
      <4>1. n - 1 \in 0 .. Size /\ ~(n - 1 < Len(s)) /\ ~(n < Len(s))
        BY <1>1, <3>5, SizeType
      <4>2. Walk(s)[n - 1] = None /\ Walk(s)[n] = None
        BY <4>1 DEF Walk
      <4>. QED  BY <3>5, <4>2
    <3>. QED  BY <1>1, <3>2, <3>3, <3>4, <3>5, SizeType
  <2>. QED  BY <2>1 DEF IsWalk, Walk
<1>3. Nth(l, p) = Walk(s)
  BY <1>2, NthIsWalk
<1>4. Listed(l, p) = Members(s)
  <2>1. ASSUME NEW e \in Listed(l, p) PROVE e \in Members(s)
    <3>1. PICK n \in 0 .. Size : e = Walk(s)[n] /\ e # None
      BY <1>3 DEF Listed, Size
    <3>2. n + 1 \in 1 .. Len(s) /\ e = s[n + 1]
      BY <1>1, <3>1, SizeType DEF Walk
    <3>. QED  BY <3>2 DEF Members
  <2>2. ASSUME NEW e \in Members(s) PROVE e \in Listed(l, p)
    <3>1. PICK i \in 1 .. Len(s) : e = s[i]
      BY DEF Members
    <3>2. i - 1 \in 0 .. Size /\ i - 1 < Len(s) /\ s[i] \in Tasks
      BY <1>1, <3>1, SizeType
    <3>3. Walk(s)[i - 1] = e /\ e # None
      BY <3>1, <3>2, NoneAssumption DEF Walk
    <3>. QED  BY <1>3, <3>2, <3>3 DEF Listed, Size
  <2>. QED  BY <2>1, <2>2
<1>5. Nth(l, p)[Len(s)] = None
  BY <1>1, <1>3, SizeType DEF Walk
<1>6. s # <<>> => Last(l, p) = s[Len(s)]
  <2>1. SUFFICES ASSUME s # <<>> PROVE Last(l, p) = s[Len(s)]
    OBVIOUS
  <2>2. Len(s) - 1 \in 0 .. Size /\ Len(s) - 1 < Len(s)
    BY <1>1, <2>1, SizeType
  <2>. QED  BY <1>1, <1>3, <1>4, <2>2 DEF Last, Walk
<1>. QED  BY <1>1, <1>3, <1>4, <1>5, <1>6

-----------------------------------------------------------------------------
(* Task.lua *)

\* A list is as it was when its head, its tasks and their links are.
LEMMA OthersKeep ==
    ASSUME NEW l \in Lists, NEW m \in Lists, NEW p \in Priorities, Ordered(l, p),
           m.head[p] = l.head[p], Active(m, p) = Active(l, p),
           \A e \in Active(l, p) : m.next[e] = l.next[e]
    PROVE  Ordered(m, p)
<1>1. PICK s : Links(l, p, s) /\ Members(s) = Active(l, p)
  BY DEF Ordered
<1>2. Links(m, p, s)
  <2>1. \A i \in 1 .. Len(s) : s[i] \in Active(l, p)
    BY <1>1 DEF Members
  <2>. QED  BY <1>1, <2>1 DEF Links
<1>. QED  BY <1>1, <1>2 DEF Ordered

\* What one update of a list leaves alone
LEMMA Updates ==
    ASSUME NEW l \in Lists, NEW v \in Tasks \cup {None}
    PROVE  /\ \A p \in Priorities :
                 LET n == [l EXCEPT !.head[p] = v]
                 IN  /\ n \in Lists /\ n.next = l.next /\ n.state = l.state /\ n.dead = l.dead
                     /\ \A q \in Priorities : n.head[q] = IF q = p THEN v ELSE l.head[q]
           /\ \A t \in Tasks :
                 LET n == [l EXCEPT !.next[t] = v]
                 IN  /\ n \in Lists /\ n.head = l.head /\ n.state = l.state /\ n.dead = l.dead
                     /\ \A e \in Tasks : n.next[e] = IF e = t THEN v ELSE l.next[e]
           /\ \A f \in [Tasks -> Tasks \cup {None}] :
                 LET n == [l EXCEPT !.next = f]
                 IN  /\ n \in Lists /\ n.head = l.head /\ n.state = l.state /\ n.dead = l.dead
                     /\ n.next = f
BY DEF Lists

LEMMA AddKeeps ==
    ASSUME NEW l \in Lists, \A p \in Priorities : Ordered(l, p), NEW t \in Tasks
    PROVE  /\ AddTask(l, t) \in Lists
           /\ \A p \in Priorities : Ordered(AddTask(l, t), p)
<1> DEFINE p == Priority[t]
           m == [l EXCEPT !.state[t] = "active", !.next[t] = None]
           n == AddTask(l, t)
<1>1. CASE l.state[t] \in {"error", "active"}
  BY <1>1 DEF AddTask
<1>2. CASE l.state[t] \notin {"error", "active"}
  <2>1. p \in Priorities
    BY PriorityAssumption
  <2>2. PICK s : Links(l, p, s) /\ Members(s) = Active(l, p)
    BY <2>1 DEF Ordered
  <2>3. s \in Seq(Tasks) /\ Len(s) \in Nat
    BY <2>2 DEF Links
  <2>4. t \notin Members(s)
    BY <1>2, <2>2 DEF Active
  <2>5. /\ m \in Lists
        /\ m.head = l.head
        /\ \A e \in Tasks : m.next[e] = IF e = t THEN None ELSE l.next[e]
        /\ \A e \in Tasks : m.state[e] = IF e = t THEN "active" ELSE l.state[e]
    BY DEF Lists
  <2>6. Links(m, p, s)
    <3>1. \A i \in 1 .. Len(s) : s[i] \in Tasks /\ s[i] # t
      BY <2>3, <2>4 DEF Members
    <3>. QED  BY <2>2, <2>5, <3>1 DEF Links
  <2>7. CASE s = <<>>
    <3>1. l.head[p] = None
      BY <2>2, <2>7 DEF Links
    <3>2. n = [m EXCEPT !.head[p] = t]
      BY <1>2, <3>1 DEF AddTask
    <3>3. /\ n \in Lists /\ n.next = m.next /\ n.state = m.state
          /\ \A q \in Priorities : n.head[q] = IF q = p THEN t ELSE l.head[q]
      <4> HIDE DEF m, n, p
      <4>. QED  BY <2>1, <2>5, <3>2, Updates
    <3>4. Links(n, p, <<t>>)
      BY <2>1, <2>5, <3>3 DEF Links
    <3>5. Members(<<t>>) = Active(n, p)
      <4>1. Active(n, p) = {t}
        BY <2>2, <2>5, <2>7, <3>3 DEF Active, Members
      <4>. QED  BY <4>1 DEF Members
    <3>6. ASSUME NEW q \in Priorities, q # p PROVE Ordered(n, q)
      <4>1. n.head[q] = l.head[q] /\ Active(n, q) = Active(l, q)
        BY <2>5, <3>3, <3>6 DEF Active
      <4>2. \A e \in Active(l, q) : n.next[e] = l.next[e]
        BY <2>5, <3>3, <3>6 DEF Active
      <4>. QED  BY <3>3, <4>1, <4>2, OthersKeep
    <3>. QED  BY <3>3, <3>4, <3>5, <3>6 DEF Ordered
  <2>8. CASE s # <<>>
    <3> DEFINE z == s[Len(s)]
               r == Append(s, t)
    <3>1. z \in Members(s) /\ z \in Tasks /\ z # t /\ Len(s) \in 1 .. Len(s)
      <4>1. Len(s) \in 1 .. Len(s)
        BY <2>3, <2>8
      <4>. QED  BY <2>3, <2>4, <4>1 DEF Members
    <3>2. l.head[p] = s[1] /\ l.head[p] # None
      BY <2>2, <2>3, <2>8, NoneAssumption DEF Links
    <3>3. Last(m, p) = z
      BY <2>1, <2>5, <2>6, <2>8, WalkFinds
    <3>4. n = [m EXCEPT !.next[z] = t]
      BY <1>2, <3>2, <3>3 DEF AddTask
    <3>5. /\ n \in Lists /\ n.head = l.head /\ n.state = m.state
          /\ \A e \in Tasks : n.next[e] = IF e = z THEN t ELSE m.next[e]
      <4> HIDE DEF m, n, p
      <4>. QED  BY <2>5, <3>1, <3>4, Updates
    <3>6. /\ r \in Seq(Tasks) /\ Len(r) = Len(s) + 1 /\ r # <<>>
          /\ \A i \in 1 .. Len(s) : r[i] = s[i]
          /\ r[Len(s) + 1] = t
      BY <2>3
    <3>7. Links(n, p, r)
      <4>1. \A i, j \in 1 .. Len(r) : r[i] = r[j] => i = j
        <5>1. \A i \in 1 .. Len(s) : r[i] # t
          BY <2>4, <3>6 DEF Members
        <5>2. \A i \in 1 .. Len(r) : i \in 1 .. Len(s) \/ i = Len(s) + 1
          BY <2>3, <3>6
        <5>. QED  BY <2>2, <3>6, <5>1, <5>2 DEF Links
      <4>2. n.head[p] = r[1]
        BY <2>3, <2>8, <3>2, <3>5, <3>6
      <4>3. ASSUME NEW i \in 1 .. Len(r)
            PROVE  n.next[r[i]] = IF i < Len(r) THEN r[i + 1] ELSE None
        <5>1. CASE i < Len(s)
          <6>1. i \in 1 .. Len(s) /\ i + 1 \in 1 .. Len(s) /\ i # Len(s) /\ i < Len(r)
            BY <2>3, <3>6, <5>1
          <6>2. s[i] # z /\ s[i] \in Tasks /\ m.next[s[i]] = s[i + 1]
            BY <2>3, <2>6, <3>1, <5>1, <6>1 DEF Links
          <6>. QED  BY <3>5, <3>6, <6>1, <6>2
        <5>2. CASE i = Len(s)
          <6>1. i < Len(r) /\ r[i] = z /\ r[i + 1] = t
            BY <2>3, <3>1, <3>6, <5>2
          <6>. QED  BY <3>1, <3>5, <6>1
        <5>3. CASE i = Len(s) + 1
          <6>1. ~(i < Len(r)) /\ r[i] = t
            BY <2>3, <3>6, <5>3
          <6>. QED  BY <2>5, <3>1, <3>5, <6>1
        <5>. QED  BY <2>3, <3>6, <5>1, <5>2, <5>3
      <4>. QED  BY <3>6, <4>1, <4>2, <4>3 DEF Links
    <3>8. Members(r) = Active(n, p)
      <4>1. Members(r) = Members(s) \cup {t}
        BY <2>3, <3>6 DEF Members
      <4>2. Active(n, p) = Active(l, p) \cup {t}
        BY <2>5, <3>5 DEF Active
      <4>. QED  BY <2>2, <4>1, <4>2
    <3>9. ASSUME NEW q \in Priorities, q # p PROVE Ordered(n, q)
      <4>1. n.head[q] = l.head[q] /\ Active(n, q) = Active(l, q)
        BY <2>5, <3>5, <3>9 DEF Active
      <4>2. Priority[z] = p
        BY <2>2, <3>1 DEF Active
      <4>3. \A e \in Active(l, q) : n.next[e] = l.next[e]
        BY <2>5, <3>5, <3>9, <4>2 DEF Active
      <4>. QED  BY <3>5, <4>1, <4>3, OthersKeep
    <3>. QED  BY <3>5, <3>7, <3>8, <3>9 DEF Ordered
  <2>. QED  BY <2>7, <2>8
<1>. QED  BY <1>1, <1>2

\* The order without its k-th task
Without(s, k) == [i \in 1 .. Len(s) - 1 |-> IF i < k THEN s[i] ELSE s[i + 1]]

LEMMA WithoutFacts ==
    ASSUME NEW s \in Seq(Tasks), NEW k \in 1 .. Len(s),
           \A i, j \in 1 .. Len(s) : s[i] = s[j] => i = j
    PROVE  LET r == Without(s, k)
           IN  /\ r \in Seq(Tasks) /\ Len(r) = Len(s) - 1
               /\ \A i, j \in 1 .. Len(r) : r[i] = r[j] => i = j
               /\ Members(r) = Members(s) \ {s[k]}
<1> DEFINE r == Without(s, k)
<1>1. Len(s) \in Nat /\ Len(s) - 1 \in Nat
  OBVIOUS
<1>2. \A i \in 1 .. Len(s) - 1 : i \in 1 .. Len(s) /\ i + 1 \in 1 .. Len(s)
  BY <1>1
<1>3. r \in [1 .. Len(s) - 1 -> Tasks]
  BY <1>2 DEF Without
<1>4. r \in Seq(Tasks) /\ Len(r) = Len(s) - 1
  BY <1>1, <1>3
<1>5. \A i \in 1 .. Len(s) - 1 : r[i] = IF i < k THEN s[i] ELSE s[i + 1]
  BY DEF Without
<1>6. \A i, j \in 1 .. Len(r) : r[i] = r[j] => i = j
  <2>1. TAKE i, j \in 1 .. Len(r)
  <2>2. HAVE r[i] = r[j]
  <2>3. i \in 1 .. Len(s) - 1 /\ j \in 1 .. Len(s) - 1
    BY <1>4
  <2>. QED  BY <1>1, <1>2, <1>5, <2>2, <2>3
<1>7. Members(r) = Members(s) \ {s[k]}
  <2>1. ASSUME NEW e \in Members(r) PROVE e \in Members(s) \ {s[k]}
    <3>1. PICK i \in 1 .. Len(s) - 1 : e = r[i]
      BY <1>4 DEF Members
    <3>2. CASE i < k
      BY <1>1, <1>2, <1>5, <3>1, <3>2 DEF Members
    <3>3. CASE ~(i < k)
      <4>1. i + 1 # k /\ i + 1 \in 1 .. Len(s)
        BY <1>1, <3>3
      <4>. QED  BY <1>5, <3>1, <3>3, <4>1 DEF Members
    <3>. QED  BY <3>2, <3>3
  <2>2. ASSUME NEW e \in Members(s) \ {s[k]} PROVE e \in Members(r)
    <3>1. PICK i \in 1 .. Len(s) : e = s[i]
      BY DEF Members
    <3>2. CASE i < k
      <4>1. i \in 1 .. Len(s) - 1 /\ r[i] = e
        BY <1>1, <1>5, <3>1, <3>2
      <4>. QED  BY <1>4, <4>1 DEF Members
    <3>3. CASE i > k
      <4>1. i - 1 \in 1 .. Len(s) - 1 /\ ~(i - 1 < k) /\ (i - 1) + 1 = i
        BY <1>1, <3>3
      <4>2. r[i - 1] = e
        BY <1>5, <3>1, <4>1
      <4>. QED  BY <1>4, <4>1, <4>2 DEF Members
    <3>4. i # k
      BY <3>1
    <3>. QED  BY <1>1, <3>2, <3>3, <3>4
  <2>. QED  BY <2>1, <2>2
<1>. QED  BY <1>4, <1>6, <1>7

LEMMA RemoveKeeps ==
    ASSUME NEW l \in Lists, \A p \in Priorities : Ordered(l, p), NEW t \in Tasks
    PROVE  /\ RemoveTask(l, t) \in Lists
           /\ RemoveTask(l, t).state = [l.state EXCEPT ![t] = "suspended"]
           /\ RemoveTask(l, t).dead = l.dead
           /\ \A p \in Priorities : Ordered(RemoveTask(l, t), p)
<1> DEFINE p == Priority[t]
           m == [l EXCEPT !.state[t] = "suspended"]
           n == RemoveTask(l, t)
<1>1. p \in Priorities
  BY PriorityAssumption
<1>2. PICK s : Links(l, p, s) /\ Members(s) = Active(l, p)
  BY <1>1 DEF Ordered
<1>3. s \in Seq(Tasks) /\ Len(s) \in Nat /\ \A i, j \in 1 .. Len(s) : s[i] = s[j] => i = j
  BY <1>2 DEF Links
<1>4. /\ m \in Lists /\ m.head = l.head /\ m.next = l.next /\ m.dead = l.dead
      /\ m.state = [l.state EXCEPT ![t] = "suspended"]
      /\ \A e \in Tasks : m.state[e] = IF e = t THEN "suspended" ELSE l.state[e]
  BY DEF Lists
<1>5. CASE l.head[p] = t
  <2>1. n = [m EXCEPT !.head[p] = l.next[t]]
    BY <1>5 DEF RemoveTask
  <2>2. l.next[t] \in Tasks \cup {None}
    BY DEF Lists
  <2>3. /\ n \in Lists /\ n.state = m.state /\ n.next = l.next /\ n.dead = l.dead
        /\ \A q \in Priorities : n.head[q] = IF q = p THEN l.next[t] ELSE l.head[q]
    <3> DEFINE v == l.next[t]
               k == [m EXCEPT !.head[p] = v]
    <3>1. v \in Tasks \cup {None} /\ n = k
      BY <2>1, <2>2
    <3>2. /\ k \in Lists /\ k.next = m.next /\ k.state = m.state /\ k.dead = m.dead
          /\ \A q \in Priorities : k.head[q] = IF q = p THEN v ELSE m.head[q]
      <4> HIDE DEF m, n, p, v
      <4>. QED  BY <1>1, <1>4, <3>1, Updates
    <3> HIDE DEF m, n, k
    <3>. QED  BY <1>4, <3>1, <3>2
  <2>4. s # <<>> /\ s[1] = t /\ 1 \in 1 .. Len(s)
    BY <1>2, <1>3, <1>5, NoneAssumption DEF Links
  <2> DEFINE r == Without(s, 1)
  <2>5. /\ r \in Seq(Tasks) /\ Len(r) = Len(s) - 1
        /\ \A i, j \in 1 .. Len(r) : r[i] = r[j] => i = j
        /\ Members(r) = Members(s) \ {t}
    <3> HIDE DEF m, n
    <3>. QED  BY <1>3, <2>4, WithoutFacts
  <2>6. \A i \in 1 .. Len(r) : r[i] = s[i + 1] /\ i + 1 \in 1 .. Len(s)
    <3>1. \A i \in 1 .. Len(s) - 1 : r[i] = s[i + 1]
      <4>1. \A i \in 1 .. Len(s) - 1 : ~(i < 1)
        BY <1>3
      <4>. QED  BY <4>1 DEF Without
    <3>2. 1 .. Len(r) = 1 .. Len(s) - 1 /\ \A i \in 1 .. Len(s) - 1 : i + 1 \in 1 .. Len(s)
      BY <1>3, <2>5
    <3> HIDE DEF r
    <3>. QED  BY <3>1, <3>2
  <2>7. Links(n, p, r)
    <3>1. n.head[p] = IF r = <<>> THEN None ELSE r[1]
      <4>1. n.head[p] = IF 1 < Len(s) THEN s[2] ELSE None
        BY <1>1, <1>2, <2>3, <2>4 DEF Links
      <4>2. CASE r = <<>>
        BY <1>3, <2>5, <4>1, <4>2
      <4>3. CASE r # <<>>
        <5>1. 1 \in 1 .. Len(r) /\ 1 < Len(s)
          BY <1>3, <2>5, <4>3
        <5>. QED  BY <2>6, <4>1, <4>3, <5>1
      <4>. QED  BY <4>2, <4>3
    <3>2. \A i \in 1 .. Len(r) : n.next[r[i]] = IF i < Len(r) THEN r[i + 1] ELSE None
      <4>1. TAKE i \in 1 .. Len(r)
      <4>2. n.next[r[i]] = IF i + 1 < Len(s) THEN s[(i + 1) + 1] ELSE None
        BY <1>2, <2>3, <2>6 DEF Links
      <4>3. CASE i < Len(r)
        <5>1. i + 1 \in 1 .. Len(r) /\ i + 1 < Len(s)
          BY <1>3, <2>5, <4>3
        <5>. QED  BY <2>6, <4>2, <4>3, <5>1
      <4>4. CASE ~(i < Len(r))
        BY <1>3, <2>5, <4>2, <4>4
      <4>. QED  BY <4>3, <4>4
    <3>. QED  BY <2>5, <3>1, <3>2 DEF Links
  <2>8. Active(n, p) = Active(l, p) \ {t}
    BY <1>4, <2>3 DEF Active
  <2>9. ASSUME NEW q \in Priorities, q # p PROVE Ordered(n, q)
    <3>1. n.head[q] = l.head[q] /\ Active(n, q) = Active(l, q)
      BY <1>4, <2>3, <2>9 DEF Active
    <3>. QED  BY <2>3, <3>1, OthersKeep
  <2>. QED  BY <1>2, <1>4, <2>3, <2>5, <2>7, <2>8, <2>9 DEF Ordered
<1>6. CASE l.head[p] # t
  <2>1. Listed(l, p) = Members(s)
    BY <1>1, <1>2, WalkFinds
  <2>2. n = [m EXCEPT !.next = [e \in Tasks |->
                 IF l.next[e] = t /\ e \in Members(s) THEN l.next[t] ELSE l.next[e]]]
    BY <1>6, <2>1 DEF RemoveTask
  <2> DEFINE f == [e \in Tasks |->
                 IF l.next[e] = t /\ e \in Members(s) THEN l.next[t] ELSE l.next[e]]
  <2>3. /\ n \in Lists /\ n.state = m.state /\ n.head = l.head /\ n.dead = l.dead
        /\ \A e \in Tasks :
              n.next[e] = IF l.next[e] = t /\ e \in Members(s) THEN l.next[t] ELSE l.next[e]
    <3>1. f \in [Tasks -> Tasks \cup {None}]
      BY DEF Lists
    <3>2. n = [m EXCEPT !.next = f]
      BY <2>2
    <3>3. n \in Lists /\ n.state = m.state /\ n.head = m.head /\ n.dead = m.dead /\ n.next = f
      <4> HIDE DEF m, n, f
      <4>. QED  BY <1>4, <3>1, <3>2, Updates
    <3> HIDE DEF m, n
    <3>. QED  BY <1>4, <3>3
  <2>4. ASSUME NEW q \in Priorities, q # p PROVE Ordered(n, q)
    <3>1. n.head[q] = l.head[q] /\ Active(n, q) = Active(l, q)
      BY <1>4, <2>3, <2>4 DEF Active
    <3>2. \A e \in Active(l, q) : n.next[e] = l.next[e]
      BY <1>2, <2>3, <2>4 DEF Active
    <3>. QED  BY <2>3, <3>1, <3>2, OthersKeep
  <2>5. CASE t \notin Members(s)
    <3>1. \A e \in Members(s) : e \in Tasks /\ n.next[e] = l.next[e]
      <4>1. TAKE e \in Members(s)
      <4>2. PICK i \in 1 .. Len(s) : e = s[i]
        BY DEF Members
      <4>3. l.next[e] # t
        <5>1. l.next[e] = IF i < Len(s) THEN s[i + 1] ELSE None
          BY <1>2, <4>2 DEF Links
        <5>2. i < Len(s) => s[i + 1] \in Members(s)
          BY <1>3 DEF Members
        <5>. QED  BY <2>5, <5>1, <5>2, NoneAssumption
      <4>. QED  BY <1>3, <2>3, <4>2, <4>3
    <3>2. Active(n, p) = Active(l, p)
      BY <1>2, <1>4, <2>3, <2>5 DEF Active
    <3>3. Ordered(n, p)
      BY <1>1, <1>2, <2>3, <3>1, <3>2, OthersKeep
    <3>. QED  BY <1>4, <2>3, <2>4, <3>3
  <2>6. CASE t \in Members(s)
    <3>1. PICK k \in 1 .. Len(s) : s[k] = t
      BY <2>6 DEF Members
    <3>2. k # 1 /\ s # <<>>
      BY <1>2, <1>3, <1>6, <3>1 DEF Links
    <3> DEFINE r == Without(s, k)
    <3>3. /\ r \in Seq(Tasks) /\ Len(r) = Len(s) - 1
          /\ \A i, j \in 1 .. Len(r) : r[i] = r[j] => i = j
          /\ Members(r) = Members(s) \ {t}
      BY <1>3, <3>1, WithoutFacts
    <3>4. \A i \in 1 .. Len(r) :
             /\ r[i] = IF i < k THEN s[i] ELSE s[i + 1]
             /\ i \in 1 .. Len(s) /\ i + 1 \in 1 .. Len(s)
      BY <1>3, <3>3 DEF Without
    <3>5. \A i \in 1 .. Len(s) :
             /\ s[i] \in Tasks /\ s[i] \in Members(s)
             /\ l.next[s[i]] = IF i < Len(s) THEN s[i + 1] ELSE None
      BY <1>2, <1>3 DEF Links, Members
    <3>6. \A i \in 1 .. Len(s) :
             n.next[s[i]] = IF i + 1 = k THEN l.next[t] ELSE l.next[s[i]]
      <4>1. TAKE i \in 1 .. Len(s)
      <4>2. l.next[s[i]] = t <=> i + 1 = k
        <5>1. CASE i < Len(s)
          <6>1. i + 1 \in 1 .. Len(s) /\ l.next[s[i]] = s[i + 1]
            BY <1>3, <3>5, <5>1
          <6>. QED  BY <1>3, <3>1, <6>1
        <5>2. CASE ~(i < Len(s))
          BY <1>3, <3>1, <3>5, <5>2, NoneAssumption
        <5>. QED  BY <5>1, <5>2
      <4>. QED  BY <2>3, <3>5, <4>2
    <3>7. Links(n, p, r)
      <4>1. Len(s) > 1 /\ Len(r) \in Nat /\ 1 \in 1 .. Len(r) /\ r # <<>>
        BY <1>3, <3>1, <3>2, <3>3
      <4>2. n.head[p] = r[1]
        <5>1. r[1] = s[1]
          BY <3>1, <3>2, <3>4, <4>1
        <5>. QED  BY <1>2, <2>3, <3>2, <5>1 DEF Links
      <4>3. \A i \in 1 .. Len(r) : n.next[r[i]] = IF i < Len(r) THEN r[i + 1] ELSE None
        <5>1. TAKE i \in 1 .. Len(r)
        <5>2. i \in 1 .. Len(s) /\ i + 1 \in 1 .. Len(s)
          BY <3>4
        <5>3. CASE i + 1 < k
          <6>1. i + 1 \in 1 .. Len(r) /\ i < Len(r) /\ i < k
            BY <1>3, <3>1, <3>3, <5>2, <5>3
          <6>2. r[i] = s[i] /\ r[i + 1] = s[i + 1]
            BY <3>4, <5>2, <5>3, <6>1
          <6>3. n.next[s[i]] = l.next[s[i]] /\ i < Len(s)
            BY <1>3, <3>3, <3>6, <5>2, <5>3, <6>1
          <6>. QED  BY <3>5, <5>2, <6>1, <6>2, <6>3
        <5>4. CASE i + 1 = k
          <6>1. r[i] = s[i]
            BY <3>4, <5>2, <5>4
          <6>2. n.next[s[i]] = IF k < Len(s) THEN s[k + 1] ELSE None
            BY <3>1, <3>5, <3>6, <5>2, <5>4
          <6>3. k < Len(s) <=> i < Len(r)
            BY <1>3, <3>3, <5>2, <5>4
          <6>4. i < Len(r) => r[i + 1] = s[k + 1]
            BY <1>3, <3>3, <3>4, <5>2, <5>4
          <6>. QED  BY <6>1, <6>2, <6>3, <6>4
        <5>5. CASE i + 1 > k
          <6>1. r[i] = s[i + 1] /\ (i + 1) + 1 # k
            BY <3>1, <3>4, <5>2, <5>5
          <6>2. n.next[s[i + 1]] = IF i + 1 < Len(s) THEN s[(i + 1) + 1] ELSE None
            BY <3>5, <3>6, <5>2, <6>1
          <6>3. i + 1 < Len(s) <=> i < Len(r)
            BY <1>3, <3>3, <5>2
          <6>4. i < Len(r) => r[i + 1] = s[(i + 1) + 1]
            BY <1>3, <3>1, <3>3, <3>4, <5>2, <5>5
          <6>. QED  BY <6>1, <6>2, <6>3, <6>4
        <5>. QED  BY <3>1, <5>2, <5>3, <5>4, <5>5
      <4>. QED  BY <3>3, <4>1, <4>2, <4>3 DEF Links
    <3>8. Active(n, p) = Active(l, p) \ {t}
      BY <1>4, <2>3 DEF Active
    <3>9. Ordered(n, p)
      BY <1>2, <3>3, <3>7, <3>8 DEF Ordered
    <3>. QED  BY <1>4, <2>3, <2>4, <3>9
  <2>. QED  BY <2>5, <2>6
<1>. QED  BY <1>5, <1>6

-----------------------------------------------------------------------------
(* The invariant *)

LEMMA OrderedIsIntact ==
    ASSUME NEW l \in Lists, NEW p \in Priorities, Ordered(l, p)
    PROVE  Listed(l, p) = Active(l, p) /\ Nth(l, p)[Cardinality(Active(l, p))] = None
BY WalkFinds DEF Ordered

\* In a list that is intact, what follows an active task is active,
LEMMA NextIsActive ==
    ASSUME NEW l \in Lists, \A p \in Priorities : Ordered(l, p),
           NEW t \in Tasks, l.state[t] = "active", l.next[t] # None
    PROVE  l.state[l.next[t]] = "active"
<1>1. Priority[t] \in Priorities
  BY PriorityAssumption
<1>2. PICK s : Links(l, Priority[t], s) /\ Members(s) = Active(l, Priority[t])
  BY <1>1 DEF Ordered
<1>3. PICK i \in 1 .. Len(s) : s[i] = t
  BY <1>2 DEF Active, Members
<1>4. s \in Seq(Tasks) /\ i < Len(s) /\ l.next[t] = s[i + 1]
  BY <1>2, <1>3 DEF Links
<1>5. i + 1 \in 1 .. Len(s)
  BY <1>4
<1>. QED  BY <1>2, <1>4, <1>5 DEF Active, Members

\* and so is the first task of a list.
LEMMA FirstIsActive ==
    ASSUME NEW l \in Lists, \A p \in Priorities : Ordered(l, p), NEW p \in Nat, p # 0
    PROVE  \/ First(l, p) = None
           \/ /\ First(l, p) \in Tasks
              /\ l.state[First(l, p)] = "active"
<1> DEFINE ps == {q \in p .. 3 : l.head[q] # None}
<1>1. CASE ps = {}
  BY <1>1 DEF First
<1>2. CASE ps # {}
  <2>1. ps \subseteq Priorities /\ ps \in SUBSET Nat
    BY DEF Priorities
  <2>2. \E q \in ps : \A r \in ps : q <= r
    BY <1>2, <2>1, Smallest
  <2>3. Min(ps) \in ps
    BY <2>2 DEF Min
  <2>4. PICK q \in Priorities : First(l, p) = l.head[q] /\ l.head[q] # None
    BY <1>2, <2>1, <2>3 DEF First
  <2>5. PICK s : Links(l, q, s) /\ Members(s) = Active(l, q)
    BY DEF Ordered
  <2>6. s \in Seq(Tasks) /\ s # <<>> /\ First(l, p) = s[1]
    BY <2>4, <2>5 DEF Links
  <2>7. 1 \in 1 .. Len(s)
    BY <2>6
  <2>. QED  BY <2>5, <2>6, <2>7 DEF Members, Active
<1>. QED  BY <1>1, <1>2

LEMMA AfterType ==
    ASSUME NEW l \in Lists, \A p \in Priorities : Ordered(l, p), NEW t \in Tasks
    PROVE  /\ After(l, t) \in Tasks \cup {None}
           /\ l.state[t] = "active" => After(l, t) = None \/ l.state[After(l, t)] = "active"
<1>1. Priority[t] + 1 \in Nat /\ Priority[t] + 1 # 0
  BY PriorityAssumption DEF Priorities
<1>2. l.next[t] \in Tasks \cup {None}
  BY DEF Lists
<1>. QED  BY <1>1, <1>2, NextIsActive, FirstIsActive DEF After

\* The lists a turn can leave behind
Sound(l) == l \in Lists /\ \A p \in Priorities : Ordered(l, p)

LEMMA FinishSound ==
    ASSUME NEW l, Sound(l), NEW t \in Tasks
    PROVE  Sound(Suspend(l, t)) /\ Sound(Finish(l, t)) /\ Sound(Err(l, t)) /\ t \in Err(l, t).dead
<1> DEFINE r == RemoveTask(l, t)
           f == Finish(l, t)
           e == Err(l, t)
<1>1. Sound(r) /\ r.state[t] = "suspended"
  <2>1. l \in Lists /\ \A p \in Priorities : Ordered(l, p)
    BY DEF Sound
  <2>2. r \in Lists /\ r.state = [l.state EXCEPT ![t] = "suspended"] /\ \A p \in Priorities : Ordered(r, p)
    BY <2>1, RemoveKeeps
  <2>3. l.state \in [Tasks -> {"new", "active", "suspended", "error"}]
    BY <2>1 DEF Lists
  <2>. QED  BY <2>2, <2>3 DEF Sound
<1>2. f = [r EXCEPT !.dead = @ \cup {t}] /\ e = [f EXCEPT !.state[t] = "error"]
  BY DEF Finish, Err
<1> HIDE DEF r, f, e
<1>3. f \in Lists /\ f.head = r.head /\ f.next = r.next /\ f.state = r.state /\ t \in f.dead
  BY <1>1, <1>2 DEF Sound, Lists
<1>4. /\ e \in Lists /\ e.head = r.head /\ e.next = r.next /\ t \in e.dead
      /\ e.state = [r.state EXCEPT ![t] = "error"]
  BY <1>2, <1>3 DEF Lists
<1>5. \A p \in Priorities : Active(f, p) = Active(r, p) /\ Active(e, p) = Active(r, p)
  BY <1>1, <1>3, <1>4 DEF Sound, Lists, Active
<1>6. Sound(f)
  BY <1>1, <1>3, <1>5, OthersKeep DEF Sound
<1>7. Sound(e)
  BY <1>1, <1>4, <1>5, OthersKeep DEF Sound
<1>. QED  BY <1>1, <1>4, <1>6, <1>7 DEF r, f, e, Suspend

LEMMA InvIsSound == IInv => Sound(list)
BY DEF IInv, TypeOK, Sound, Lists

\* A turn ends, whatever list it leaves behind.
LEMMA EndTurnKeeps ==
    ASSUME IInv, at # None, NEW l, Sound(l), EndTurn(l)
    PROVE  IInv'
<1>1. at \in Tasks /\ elapsed \in 0 .. FrameTurns
  BY DEF IInv, TypeOK
<1>2. list' = l /\ raised' = FALSE
  BY DEF EndTurn
<1>3. at' \in Tasks \cup {None}
  BY <1>1, AfterType DEF EndTurn, Sound
<1>4. elapsed' \in 0 .. FrameTurns
  <2> DEFINE T == {elapsed + 1, FrameTurns}
  <2>1. T \in SUBSET Nat /\ T # {}
    BY <1>1, FrameAssumption
  <2>2. \E x \in T : \A y \in T : x <= y
    BY <2>1, Smallest
  <2>3. Min(T) \in T /\ Min(T) <= FrameTurns
    BY <2>2 DEF Min
  <2>4. Min(T) \in Nat
    BY <2>1, <2>3
  <2>5. elapsed' = Min(T)
    BY DEF EndTurn
  <2>. QED  BY <2>3, <2>4, <2>5, FrameAssumption
<1>. QED  BY <1>2, <1>3, <1>4 DEF IInv, TypeOK, Sound, Lists

LEMMA InitHolds == Init => IInv
<1>1. SUFFICES ASSUME Init PROVE IInv
  OBVIOUS
<1>2. list \in Lists
  BY <1>1 DEF Init, Lists
<1>3. ASSUME NEW p \in Priorities PROVE Ordered(list, p)
  <2>1. Links(list, p, <<>>)
    BY <1>1 DEF Init, Links
  <2>2. Members(<<>>) = {} /\ Active(list, p) = {}
    BY <1>1 DEF Init, Active, Members
  <2>. QED  BY <2>1, <2>2 DEF Ordered
<1>4. at \in Tasks \cup {None} /\ raised = FALSE /\ elapsed \in 0 .. FrameTurns
  BY <1>1, FrameAssumption DEF Init
<1>. QED  BY <1>2, <1>3, <1>4 DEF IInv, TypeOK, Lists

LEMMA StepKeeps == IInv /\ [Next]_vars => IInv'
<1>1. SUFFICES ASSUME IInv, [Next]_vars PROVE IInv'
  OBVIOUS
<1>2. Sound(list)
  BY <1>1, InvIsSound
<1>3. ASSUME NEW t \in Tasks, CallAdd(t) PROVE IInv'
  <2>1. Sound(list') /\ list'.dead = list.dead
    BY <1>2, <1>3, AddKeeps DEF CallAdd, Sound, AddTask, Lists
  <2>. QED  BY <1>1, <1>3, <2>1 DEF CallAdd, IInv, TypeOK, Sound, Lists
<1>4. ASSUME NEW t \in Tasks, CallRemove(t) PROVE IInv'
  <2>1. Sound(list') /\ list'.dead = list.dead
    BY <1>2, <1>4, RemoveKeeps DEF CallRemove, Sound
  <2>. QED  BY <1>1, <1>4, <2>1 DEF CallRemove, IInv, TypeOK, Sound, Lists
<1>5. CASE StartPass
  <2>1. at' \in Tasks \cup {None} /\ list' = list
    BY <1>2, <1>5, FirstIsActive DEF StartPass, Sound
  <2>2. elapsed' \in 0 .. FrameTurns
    BY <1>1, <1>5, FrameAssumption DEF IInv, TypeOK, StartPass, Drawn
  <2>3. raised' = FALSE
    BY <1>1, <1>5, NoneAssumption DEF IInv, TypeOK, StartPass
  <2>. QED  BY <1>1, <1>2, <2>1, <2>2, <2>3 DEF IInv, TypeOK, Sound, Lists
<1>6. CASE Return
  <2>1. PICK l \in {list, Suspend(list, at), Finish(list, at)} : EndTurn(l)
    BY <1>6 DEF Return
  <2>2. at # None /\ at \in Tasks
    BY <1>1, <1>6 DEF Return, IInv, TypeOK
  <2>3. Sound(l)
    BY <1>2, <2>1, <2>2, FinishSound
  <2>. QED  BY <1>1, <2>1, <2>2, <2>3, EndTurnKeeps
<1>7. CASE Raise
  <2>1. at \in Tasks
    BY <1>1, <1>7 DEF Raise, IInv, TypeOK
  <2>2. Sound(list') /\ at \in list'.dead
    BY <1>2, <1>7, <2>1, FinishSound DEF Raise
  <2>. QED  BY <1>1, <1>7, <2>1, <2>2 DEF Raise, IInv, TypeOK, Sound, Lists
<1>8. CASE Handled
  <2>1. at # None
    BY <1>1, <1>8, NoneAssumption DEF Handled, IInv, TypeOK
  <2>. QED  BY <1>1, <1>2, <1>8, <2>1, EndTurnKeeps DEF Handled
<1>9. CASE UNCHANGED vars
  <2>1. Sound(list')
    BY <1>2, <1>9 DEF vars
  <2>. QED  BY <1>1, <1>9, <2>1 DEF vars, IInv, TypeOK, Sound, Lists
<1>. QED  BY <1>1, <1>3, <1>4, <1>5, <1>6, <1>7, <1>8, <1>9 DEF Next

LEMMA Inductive == Spec => []IInv
<1>. QED  BY InitHolds, StepKeeps, PTL DEF Spec

-----------------------------------------------------------------------------
(* The theorems *)

\* The list of each priority holds the active tasks of that priority, each once, and
\* ends, whatever the tasks and those outside add and remove (Task.lua, addTask and
\* removeTask).
THEOREM ListCorrect == Spec => []ListIntact
<1>1. IInv => ListIntact
  <2>1. SUFFICES ASSUME IInv PROVE ListIntact
    OBVIOUS
  <2>2. Sound(list)
    BY <2>1, InvIsSound
  <2>3. \A p \in Priorities :
           /\ Listed(list, p) = Active(list, p)
           /\ Nth(list, p)[Cardinality(Active(list, p))] = None
    BY <2>2, OrderedIsIntact DEF Sound
  <2>. QED  BY <2>1, <2>3 DEF IInv, ListIntact, Active
<1>. QED  BY <1>1, Inductive, PTL

\* A pass goes to a task that is not in the list only from one that is not either: a
\* link is stale only behind a task that was removed (Task.lua, iterator).
THEOREM StaleCorrect == Spec => StaleOnlyBehindRemoved
<1>1. ASSUME IInv, IInv', [Next]_vars
      PROVE  [at' # at /\ at' # None /\ at # None =>
                 list'.state[at'] = "active" \/ list'.state[at] # "active"]_vars
  <2>1. SUFFICES ASSUME at' # at, at' # None, at # None, Next
                 PROVE  list'.state[at'] = "active" \/ list'.state[at] # "active"
    BY <1>1 DEF vars
  <2>2. PICK l : EndTurn(l)
    BY <2>1 DEF Next, CallAdd, CallRemove, StartPass, Return, Raise, Handled
  <2>3. at' = After(list', at) /\ at \in Tasks
    BY <1>1, <2>1, <2>2 DEF EndTurn, IInv, TypeOK
  <2>4. Sound(list')
    BY <1>1 DEF IInv, TypeOK, Sound, Lists, Ordered, Links, Active
  <2>. QED  BY <2>1, <2>3, <2>4, AfterType DEF Sound
<1>. QED  BY <1>1, Inductive, PTL DEF Spec, StaleOnlyBehindRemoved
=============================================================================
