---------------------------- MODULE ScreenProofs ----------------------------
(***************************************************************************)
(* For any tree of widgets, any bounds and any number of calls: Screen       *)
(* implements Repaint, and nothing wrong stays on the screen.                *)
(***************************************************************************)
EXTENDS Screen, TLAPS, FiniteSetTheorems, WellFoundedInduction

-----------------------------------------------------------------------------
(* Recursive functions *)

\* A set of natural numbers has a smallest element.
LEMMA Smallest == ASSUME NEW T \in SUBSET Nat, T # {} PROVE \E i \in T : \A j \in T : i <= j
<1> DEFINE R == OpToRel(<, Nat)
<1>1. \A x \in T, y \in T : <<y, x>> \in R <=> y < x
  BY DEF OpToRel
<1>2. IsWellFoundedOn(R, Nat)
  BY NatLessThanWellFounded
<1> HIDE DEF R
<1>3. \E x \in T : \A y \in T : ~(<<y, x>> \in R)
  BY <1>2, WFMin
<1>4. \E x \in T : \A y \in T : ~(y < x)
  BY <1>1, <1>3
<1>. QED  BY <1>4

\* Induction, over a set.
LEMMA Induct ==
    ASSUME NEW T, 0 \in T, \A n \in Nat : n \in T => n + 1 \in T
    PROVE  \A n \in Nat : n \in T
<1> DEFINE U == {n \in Nat : n \notin T}
<1>1. SUFFICES ASSUME U # {} PROVE FALSE
  OBVIOUS
<1>2. U \in SUBSET Nat
  OBVIOUS
<1>3. PICK i \in U : \A j \in U : i <= j
  BY <1>1, <1>2, Smallest
<1>4. i \in Nat /\ i \notin T /\ i # 0
  BY <1>3
<1>5. i - 1 \in Nat /\ ~(i <= i - 1) /\ (i - 1) + 1 = i
  BY <1>4
<1>6. i - 1 \notin U
  BY <1>3, <1>5
<1>. QED  BY <1>4, <1>5, <1>6

\* A value for each number up to n, each made from the one before
Steps(V, a, G, n, f) ==
    f \in [0 .. n -> V] /\ f[0] = a /\ \A i \in Nat : i < n => f[i + 1] = G[<<i + 1, f[i]>>]

LEMMA StepsExist ==
    ASSUME NEW V, NEW a \in V, NEW L \in Nat, NEW G \in [(1 .. L) \X V -> V]
    PROVE  \E f : Steps(V, a, G, L, f)
<1> DEFINE T == {n \in Nat : n <= L => \E f : Steps(V, a, G, n, f)}
<1>1. 0 \in T
  <2> DEFINE f == [i \in 0 .. 0 |-> a]
  <2>1. f \in [0 .. 0 -> V] /\ f[0] = a
    OBVIOUS
  <2>2. \A i \in Nat : ~(i < 0)
    OBVIOUS
  <2>. QED  BY <2>1, <2>2 DEF Steps
<1>2. \A n \in Nat : n \in T => n + 1 \in T
  <2> SUFFICES ASSUME NEW n \in Nat, n \in T, n + 1 <= L PROVE \E g : Steps(V, a, G, n + 1, g)
    OBVIOUS
  <2>1. PICK f : Steps(V, a, G, n, f)
    <3>1. n <= L
      OBVIOUS
    <3>. QED  BY <3>1
  <2> DEFINE g == [i \in 0 .. n + 1 |-> IF i = n + 1 THEN G[<<n + 1, f[n]>>] ELSE f[i]]
  <2>2. f \in [0 .. n -> V] /\ f[0] = a /\ n \in 0 .. n
    BY <2>1 DEF Steps
  <2>3. f[n] \in V /\ <<n + 1, f[n]>> \in (1 .. L) \X V
    BY <2>2
  <2>4. G[<<n + 1, f[n]>>] \in V
    BY <2>3
  <2>5. \A i \in 0 .. n + 1 : g[i] \in V
    BY <2>2, <2>4
  <2>6. g \in [0 .. n + 1 -> V] /\ g[0] = a
    BY <2>2, <2>5
  <2>7. ASSUME NEW i \in Nat, i < n + 1 PROVE g[i + 1] = G[<<i + 1, g[i]>>]
    <3>1. CASE i = n
      <4>1. n + 1 \in 0 .. n + 1 /\ n \in 0 .. n + 1 /\ n # n + 1
        OBVIOUS
      <4>2. g[n + 1] = G[<<n + 1, f[n]>>] /\ g[n] = f[n]
        BY <4>1
      <4>. QED  BY <3>1, <4>2
    <3>2. CASE i # n
      <4>1. i < n /\ i + 1 \in 0 .. n + 1 /\ i \in 0 .. n + 1 /\ i + 1 # n + 1 /\ i # n + 1
        BY <2>7, <3>2
      <4>2. f[i + 1] = G[<<i + 1, f[i]>>]
        BY <2>1, <4>1 DEF Steps
      <4>. QED  BY <4>1, <4>2
    <3>. QED  BY <3>1, <3>2
  <2> HIDE DEF g
  <2>8. Steps(V, a, G, n + 1, g)
    BY <2>6, <2>7 DEF Steps
  <2>. QED  BY <2>8
<1>3. \A n \in Nat : n \in T
  <2> HIDE DEF T
  <2>. QED  BY <1>1, <1>2, Induct
<1>4. L <= L
  OBVIOUS
<1>. QED  BY <1>3, <1>4

\* In such steps from a nothing leaves V.
Goes(V, a, G, L, f) == f[0] = a /\ \A n \in 1 .. L : f[n - 1] \in V => f[n] = G[<<n, f[n - 1]>>]

LEMMA StaysIn ==
    ASSUME NEW V, NEW a \in V, NEW L \in Nat, NEW G \in [(1 .. L) \X V -> V], NEW f, Goes(V, a, G, L, f)
    PROVE  \A n \in 0 .. L : f[n] \in V
<1> DEFINE T == {n \in Nat : n <= L => f[n] \in V}
<1>1. 0 \in T
  BY DEF Goes
<1>2. \A n \in Nat : n \in T => n + 1 \in T
  <2> SUFFICES ASSUME NEW n \in Nat, n \in T, n + 1 <= L PROVE f[n + 1] \in V
    OBVIOUS
  <2>1. n + 1 \in 1 .. L /\ (n + 1) - 1 = n /\ n <= L
    OBVIOUS
  <2>2. f[n] \in V
    BY <2>1
  <2>3. f[n + 1] = G[<<n + 1, f[n]>>]
    BY <2>1, <2>2 DEF Goes
  <2>. QED  BY <2>1, <2>2, <2>3
<1>3. \A n \in Nat : n \in T
  <2> HIDE DEF T
  <2>. QED  BY <1>1, <1>2, Induct
<1>. QED  BY <1>3

\* The steps solve the equation of the recursive function.
LEMMA StepsSolve ==
    ASSUME NEW V, NEW a \in V, NEW L \in Nat, NEW G, NEW f, Steps(V, a, G, L, f)
    PROVE  /\ f = [n \in 0 .. L |-> IF n = 0 THEN a ELSE G[<<n, f[n - 1]>>]]
           /\ \A n \in 1 .. L : f[n - 1] \in V
<1>1. f \in [0 .. L -> V] /\ f[0] = a
  BY DEF Steps
<1>2. ASSUME NEW n \in 1 .. L PROVE f[n] = G[<<n, f[n - 1]>>] /\ f[n - 1] \in V
  <2>1. n - 1 \in Nat /\ n - 1 < L /\ (n - 1) + 1 = n /\ n - 1 \in 0 .. L
    OBVIOUS
  <2>. QED  BY <1>1, <2>1 DEF Steps
<1>3. \A n \in 0 .. L : f[n] = IF n = 0 THEN a ELSE G[<<n, f[n - 1]>>]
  <2>1. TAKE n \in 0 .. L
  <2>2. n # 0 => n \in 1 .. L
    OBVIOUS
  <2>. QED  BY <1>1, <1>2, <2>2
<1>. QED  BY <1>1, <1>2, <1>3

\* A sequence of the elements of a finite set
LEMMA SeqOfSet ==
    ASSUME NEW T, IsFiniteSet(T)
    PROVE  /\ Len(SetToSeq(T)) \in Nat
           /\ \A n \in 1 .. Len(SetToSeq(T)) : SetToSeq(T)[n] \in T
<1>1. Cardinality(T) \in Nat /\ ExistsBijection(1 .. Cardinality(T), T)
  BY FS_CardinalityType
<1>2. \E f \in [1 .. Cardinality(T) -> T] : IsInjective(f)
  BY <1>1 DEF ExistsBijection, Bijection, Injection
<1>3. SetToSeq(T) \in [1 .. Cardinality(T) -> T]
  BY <1>2 DEF SetToSeq
<1>4. SetToSeq(T) \in Seq(T) /\ Len(SetToSeq(T)) = Cardinality(T)
  BY <1>1, <1>3
<1>. QED  BY <1>1, <1>3, <1>4

-----------------------------------------------------------------------------
(* Regions *)

\* Every cell of r is in d.
Covers(d, r) == \A c \in Cells : In(c, r) => In(c, d)

LEMMA UnionCovers ==
    ASSUME NEW a \in Rects, NEW b \in Rects
    PROVE  Union(a, b) \in Rects /\ Covers(Union(a, b), a) /\ Covers(Union(a, b), b)
BY WidthAssumption DEF Rects, Union, In, Cells, Covers

\* jive_redraw loses nothing of the dirty region.
LEMMA RedrawGrows ==
    ASSUME NEW d \in Rects, NEW r \in Rects
    PROVE  Redraw(d, r) \in Rects /\ Covers(Redraw(d, r), d) /\ Covers(Redraw(d, r), r)
<1>1. CASE d.w # 0
  BY <1>1, UnionCovers DEF Redraw
<1>2. CASE d.w = 0
  BY <1>2 DEF Redraw, In, Rects, Cells, Covers
<1>. QED  BY <1>1, <1>2

LEMMA CoversTrans ==
    ASSUME NEW a, NEW b, NEW c, Covers(b, a), Covers(c, b) PROVE Covers(c, a)
BY DEF Covers

LEMMA ScreenIsRect == Screen \in Rects /\ Screen.w # 0 /\ \A c \in Cells : In(c, Screen)
BY WidthAssumption DEF Screen, Rects, In, Cells

LEMMA NoneIsRect == None \in Rects /\ \A c \in Cells : ~In(c, None)
BY WidthAssumption DEF None, Rects, In, Cells

\* What covers the screen is the screen.
LEMMA OnlyScreenCovers == ASSUME NEW d \in Rects, Covers(d, Screen) PROVE d = Screen
<1>1. 0 \in Cells /\ Width - 1 \in Cells
  BY WidthAssumption DEF Cells
<1>2. In(0, d) /\ In(Width - 1, d)
  BY <1>1, ScreenIsRect DEF Covers
<1>3. d \in [x : 0 .. Width, w : 0 .. Width] /\ d.x + d.w <= Width
  BY DEF Rects
<1>4. d.x = 0 /\ d.w = Width
  BY <1>2, <1>3, WidthAssumption DEF In
<1>5. d = [x |-> d.x, w |-> d.w]
  BY <1>3
<1>. QED  BY <1>4, <1>5 DEF Screen

-----------------------------------------------------------------------------
(* Layouts *)

Peer == [made : BOOLEAN, skin : BOOLEAN, layout : BOOLEAN, child : BOOLEAN, at : Rects]

LEMMA LayoutFacts ==
    \A s \in Layouts : s.peer \in [Widgets -> Peer] /\ s.dirty \in Rects
BY DEF Layouts, Peer

\* A widget of t is where it was in s, or where it may be placed; where it was, and is
\* now, is in the dirty region of t if it can be seen.
MovedIn(s, t, w) ==
    /\ s.peer[w].made => t.peer[w].made
    /\ t.peer[w].at # s.peer[w].at =>
          /\ t.peer[w].made /\ t.peer[w].at \in Place[w]
          /\ IsVisible(w) => Covers(t.dirty, s.peer[w].at) /\ Covers(t.dirty, t.peer[w].at)

\* s may become t in a layout.
Later(s, t) == t \in Layouts /\ Covers(t.dirty, s.dirty) /\ \A w \in Widgets : MovedIn(s, t, w)

LEMMA LaterSame == ASSUME NEW s \in Layouts PROVE Later(s, s)
BY DEF Later, MovedIn, Covers

LEMMA LaterTrans == ASSUME NEW s, NEW t, NEW u, Later(s, t), Later(t, u) PROVE Later(s, u)
<1>1. u \in Layouts /\ Covers(u.dirty, s.dirty)
  BY CoversTrans DEF Later
<1>2. ASSUME NEW w \in Widgets PROVE MovedIn(s, u, w)
  <2>1. MovedIn(s, t, w) /\ MovedIn(t, u, w) /\ Covers(u.dirty, t.dirty)
    BY DEF Later
  <2>2. CASE u.peer[w].at = t.peer[w].at
    <3>1. IsVisible(w) /\ t.peer[w].at # s.peer[w].at =>
            Covers(u.dirty, s.peer[w].at) /\ Covers(u.dirty, u.peer[w].at)
      BY <2>1, <2>2, CoversTrans DEF MovedIn
    <3>. QED  BY <2>1, <2>2, <3>1 DEF MovedIn
  <2>3. CASE u.peer[w].at # t.peer[w].at
    <3>1. CASE t.peer[w].at = s.peer[w].at
      BY <2>1, <2>3, <3>1 DEF MovedIn
    <3>2. CASE t.peer[w].at # s.peer[w].at
      <4>1. IsVisible(w) => Covers(u.dirty, s.peer[w].at)
        BY <2>1, <3>2, CoversTrans DEF MovedIn
      <4>. QED  BY <2>1, <2>3, <4>1 DEF MovedIn
    <3>. QED  BY <3>1, <3>2
  <2>. QED  BY <2>2, <2>3
<1>. QED  BY <1>1, <1>2 DEF Later

\* A change of flags alone
Flags(s, t) ==
    /\ t \in Layouts /\ t.dirty = s.dirty
    /\ \A w \in Widgets : t.peer[w].at = s.peer[w].at /\ (s.peer[w].made => t.peer[w].made)

LEMMA FlagsLater == ASSUME NEW s, NEW t, Flags(s, t) PROVE Later(s, t)
BY DEF Flags, Later, MovedIn, Covers

\* Only the peer of w changes.
WithPeer(s, w, p) == [s EXCEPT !.peer = [s.peer EXCEPT ![w] = p]]

LEMMA WithPeerIs ==
    ASSUME NEW s \in Layouts, NEW w \in Widgets, NEW p \in Peer
    PROVE  /\ WithPeer(s, w, p) \in Layouts /\ WithPeer(s, w, p).dirty = s.dirty
           /\ WithPeer(s, w, p).peer[w] = p
           /\ \A v \in Widgets : v # w => WithPeer(s, w, p).peer[v] = s.peer[v]
<1>1. s.peer \in [Widgets -> Peer] /\ s.dirty \in Rects
  BY LayoutFacts
<1> DEFINE t == WithPeer(s, w, p)
<1>2. t.peer = [s.peer EXCEPT ![w] = p] /\ t.dirty = s.dirty /\ t = [peer |-> t.peer, dirty |-> t.dirty]
  BY DEF WithPeer, Layouts
<1>3. t.peer \in [Widgets -> Peer]
  BY <1>1, <1>2
<1>4. t.peer[w] = p /\ \A v \in Widgets : v # w => t.peer[v] = s.peer[v]
  BY <1>1, <1>2
<1> HIDE DEF t
<1>5. t \in Layouts
  BY <1>1, <1>2, <1>3 DEF Layouts, Peer
<1>. QED  BY <1>2, <1>4, <1>5 DEF t

LEMMA CheckSkinFlags ==
    ASSUME NEW s \in Layouts, NEW w \in Widgets
    PROVE  Flags(s, CheckSkin(s, w)) /\ CheckSkin(s, w).peer[w].made
<1> DEFINE p == [s.peer[w] EXCEPT !.made = TRUE, !.skin = TRUE]
<1>1. s.peer[w] \in Peer
  BY LayoutFacts
<1>2. p \in Peer /\ p.at = s.peer[w].at /\ p.made
  BY <1>1 DEF Peer
<1>3. CheckSkin(s, w) = WithPeer(s, w, p)
  BY DEF CheckSkin, WithPeer
<1> HIDE DEF p
<1>. QED  BY <1>2, <1>3, WithPeerIs DEF Flags

LEMMA RedrawWidgetIs ==
    ASSUME NEW s \in Layouts, NEW w \in Widgets
    PROVE  /\ Later(s, RedrawWidget(s, w)) /\ RedrawWidget(s, w).peer = s.peer
           /\ IsVisible(w) /\ s.peer[w].made => Covers(RedrawWidget(s, w).dirty, s.peer[w].at)
<1>1. CASE ~(IsVisible(w) /\ s.peer[w].made)
  BY <1>1, LaterSame DEF RedrawWidget
<1>2. CASE IsVisible(w) /\ s.peer[w].made
  <2> DEFINE t == RedrawWidget(s, w)
             d == Redraw(s.dirty, s.peer[w].at)
  <2>1. s.dirty \in Rects /\ s.peer[w].at \in Rects
    BY LayoutFacts DEF Peer
  <2>2. d \in Rects /\ Covers(d, s.dirty) /\ Covers(d, s.peer[w].at)
    BY <2>1, RedrawGrows
  <2>3. t = [s EXCEPT !.dirty = d]
    BY <1>2 DEF RedrawWidget
  <2> HIDE DEF d
  <2>4. t.peer = s.peer /\ t.dirty = d /\ t \in Layouts
    BY <2>2, <2>3 DEF Layouts
  <2> HIDE DEF t
  <2>5. Later(s, t)
    BY <2>2, <2>4 DEF Later, MovedIn
  <2>. QED  BY <2>2, <2>4, <2>5 DEF t
<1>. QED  BY <1>1, <1>2

LEMMA ReLayoutFlags ==
    ASSUME NEW s \in Layouts, NEW w \in Widgets
    PROVE  Flags(s, ReLayout(s, w))
<1> DEFINE P(v) == IF v \in Line(w) /\ s.peer[v].made
                   THEN [s.peer[v] EXCEPT !.child = FALSE, !.layout = @ /\ RootBelow(s, w, v)] ELSE s.peer[v]
           f == [v \in Widgets |-> P(v)]
<1>1. \A v \in Widgets : s.peer[v] \in Peer
  BY LayoutFacts
<1>2. ASSUME NEW v \in Widgets PROVE P(v) \in Peer /\ P(v).at = s.peer[v].at /\ P(v).made = s.peer[v].made
  <2> DEFINE b == s.peer[v].layout /\ RootBelow(s, w, v)
             p == [s.peer[v] EXCEPT !.child = FALSE, !.layout = b]
  <2>1. b \in BOOLEAN
    BY <1>1 DEF Peer, RootBelow
  <2>2. P(v) = IF v \in Line(w) /\ s.peer[v].made THEN p ELSE s.peer[v]
    OBVIOUS
  <2> HIDE DEF b
  <2>3. p \in Peer /\ p.at = s.peer[v].at /\ p.made = s.peer[v].made
    BY <1>1, <2>1 DEF Peer
  <2> HIDE DEF p
  <2> HIDE DEF P
  <2>. QED  BY <1>1, <2>2, <2>3
<1>3. ReLayout(s, w) = [s EXCEPT !.peer = f]
  BY DEF ReLayout
<1> HIDE DEF P
<1>4. f \in [Widgets -> Peer] /\ \A v \in Widgets : f[v].at = s.peer[v].at /\ f[v].made = s.peer[v].made
  BY <1>2
<1> HIDE DEF f
<1>5. ReLayout(s, w).peer = f /\ ReLayout(s, w).dirty = s.dirty /\ ReLayout(s, w) \in Layouts
  BY <1>3, <1>4 DEF Layouts, Peer
<1>. QED  BY <1>4, <1>5 DEF Flags

\* A widget that is given bounds where it may be placed
LEMMA SetBoundsLater ==
    ASSUME NEW s \in Layouts, NEW w \in Widgets, NEW r \in Rects, r \in Place[w]
    PROVE  /\ Later(s, SetBounds(s, w, r)) /\ SetBounds(s, w, r).peer[w].at = r
           /\ IsVisible(w) => Covers(SetBounds(s, w, r).dirty, r)
<1> DEFINE k == CheckSkin(s, w)
           t == RedrawWidget(k, w)
           p == [t.peer[w] EXCEPT !.at = r]
           u == [t EXCEPT !.peer[w].at = r]
           v == ReLayout(u, w)
           x == RedrawWidget(v, w)
<1>1. Flags(s, k) /\ k.peer[w].made /\ k \in Layouts
  BY CheckSkinFlags DEF Flags
<1>2. /\ Later(k, t) /\ t.peer = k.peer
      /\ IsVisible(w) => Covers(t.dirty, t.peer[w].at)
  BY <1>1, RedrawWidgetIs
<1>3. Later(s, k)
  BY <1>1, FlagsLater
<1>4. Later(s, t)
  BY <1>2, <1>3, LaterTrans
<1>5. SetBounds(s, w, r) = IF t.peer[w].at = r THEN t ELSE x
  BY DEF SetBounds
<1>6. CASE t.peer[w].at = r
  BY <1>2, <1>4, <1>5, <1>6
<1>7. CASE t.peer[w].at # r
  <2>1. t \in Layouts /\ t.peer[w] \in Peer
    BY <1>4, LayoutFacts DEF Later
  <2>2. p \in Peer /\ p.at = r /\ p.made
    BY <1>1, <1>2, <2>1 DEF Peer
  <2>3. u = WithPeer(t, w, p)
    BY DEF WithPeer
  <2> HIDE DEF p, t, k, u
  <2>4. /\ u \in Layouts /\ u.dirty = t.dirty /\ u.peer[w] = p
        /\ \A y \in Widgets : y # w => u.peer[y] = t.peer[y]
    BY <2>1, <2>2, <2>3, WithPeerIs
  <2>5. Flags(u, v)
    BY <2>4, ReLayoutFlags
  <2> HIDE DEF v
  <2>6. v \in Layouts /\ v.dirty = t.dirty /\ v.peer[w].made /\ v.peer[w].at = r
        /\ \A y \in Widgets : y # w => v.peer[y].at = t.peer[y].at /\ (t.peer[y].made => v.peer[y].made)
    BY <2>2, <2>4, <2>5 DEF Flags
  <2>7. Later(v, x) /\ x.peer = v.peer /\ (IsVisible(w) => Covers(x.dirty, r))
    BY <2>6, RedrawWidgetIs
  <2> HIDE DEF x
  <2>8. Covers(x.dirty, t.dirty) /\ x \in Layouts
    BY <2>6, <2>7 DEF Later
  <2>9. ASSUME NEW y \in Widgets PROVE MovedIn(t, x, y)
    <3>1. CASE y # w
      BY <2>6, <2>7, <3>1 DEF MovedIn
    <3>2. CASE y = w
      <4>1. IsVisible(w) => Covers(x.dirty, t.peer[w].at) /\ Covers(x.dirty, x.peer[w].at)
        BY <1>2, <2>6, <2>7, <2>8, CoversTrans
      <4>. QED  BY <2>6, <2>7, <3>2, <4>1 DEF MovedIn
    <3>. QED  BY <3>1, <3>2
  <2>10. Later(t, x)
    BY <2>8, <2>9 DEF Later
  <2>11. Later(s, x)
    BY <1>4, <2>10, LaterTrans
  <2>. QED  BY <1>5, <1>7, <2>6, <2>7, <2>11
<1>. QED  BY <1>6, <1>7

\* What the parents want is where a widget may be placed.
Wanted == \A w \in Widgets : want[w] \in Place[w]

LEMMA WantedIsRect == ASSUME Wanted, NEW w \in Widgets PROVE want[w] \in Rects /\ want[w] \in Place[w]
BY PlaceAssumption DEF Wanted

LEMMA ChildrenFinite == ASSUME NEW w \in Widgets PROVE IsFiniteSet(Children(w)) /\ Children(w) \subseteq Widgets
<1>1. Children(w) \subseteq Widgets
  BY DEF Children, Widgets
<1>. QED  BY <1>1, TreeAssumption, FS_Subset

\* The layout of a widget: one child after the other
LEMMA LayoutLater ==
    ASSUME Wanted, NEW s \in Layouts, NEW w \in Widgets
    PROVE  /\ Later(s, Layout(s, w))
           /\ w \in Windows /\ IsVisible(w) => Covers(Layout(s, w).dirty, want[w])
<1> DEFINE q == SetToSeq(Children(w))
           L == Len(q)
           V == {t \in Layouts : Later(s, t)}
           Op(t, n) == SetBounds(t, q[n], want[q[n]])
           G == [x \in (1 .. L) \X V |-> Op(x[2], x[1])]
           f == CHOOSE f : f = [n \in 0 .. L |-> IF n = 0 THEN s ELSE Op(f[n - 1], n)]
<1>1. L \in Nat /\ \A n \in 1 .. L : q[n] \in Widgets
  BY ChildrenFinite, SeqOfSet
<1>2. s \in V
  BY LaterSame
<1>3. ASSUME NEW n \in 1 .. L, NEW t \in V PROVE Op(t, n) \in V
  <2>1. Later(t, Op(t, n))
    BY <1>1, SetBoundsLater, WantedIsRect
  <2>2. Op(t, n) \in Layouts /\ Later(s, Op(t, n))
    BY <2>1, LaterTrans DEF Later
  <2>. QED  BY <2>2
<1>4. Layout(s, w) = IF w \in Windows THEN SetBounds(f[L], w, want[w]) ELSE f[L]
  BY DEF Layout, Each
<1> HIDE DEF q, L, V, Op
<1>5. G \in [(1 .. L) \X V -> V]
  BY <1>3
<1>6. \A n \in 1 .. L : \A t \in V : G[<<n, t>>] = Op(t, n)
  OBVIOUS
<1> HIDE DEF G
<1>7. PICK g : Steps(V, s, G, L, g)
  BY <1>1, <1>2, <1>5, StepsExist
<1>8. /\ g = [n \in 0 .. L |-> IF n = 0 THEN s ELSE G[<<n, g[n - 1]>>]]
      /\ \A n \in 1 .. L : g[n - 1] \in V
  BY <1>1, <1>2, <1>7, StepsSolve
<1>9. g = [n \in 0 .. L |-> IF n = 0 THEN s ELSE Op(g[n - 1], n)]
  <2>1. \A n \in 0 .. L : n # 0 => n \in 1 .. L
    BY <1>1
  <2>. QED  BY <1>6, <1>8, <2>1
<1>10. f = [n \in 0 .. L |-> IF n = 0 THEN s ELSE Op(f[n - 1], n)]
  BY <1>9
<1> HIDE DEF f
<1>11. Goes(V, s, G, L, f)
  <2>1. f[0] = s
    BY <1>1, <1>10
  <2>2. \A n \in 1 .. L : n \in 0 .. L /\ n # 0
    BY <1>1
  <2>3. \A n \in 1 .. L : f[n] = Op(f[n - 1], n)
    BY <1>10, <2>2
  <2>. QED  BY <1>6, <2>1, <2>3 DEF Goes
<1>12. f[L] \in V
  <2>1. L \in 0 .. L
    BY <1>1
  <2>. QED  BY <1>1, <1>2, <1>5, <1>11, <2>1, StaysIn
<1>13. f[L] \in Layouts /\ Later(s, f[L])
  BY <1>12 DEF V
<1>14. CASE w \in Windows
  <2>1. /\ Later(f[L], SetBounds(f[L], w, want[w]))
        /\ IsVisible(w) => Covers(SetBounds(f[L], w, want[w]).dirty, want[w])
    BY <1>13, SetBoundsLater, WantedIsRect
  <2>. QED  BY <1>4, <1>13, <1>14, <2>1, LaterTrans
<1>15. CASE w \notin Windows
  BY <1>4, <1>13, <1>15
<1>. QED  BY <1>14, <1>15

\* A widget that needs it is skinned and laid out.
LEMMA LaidLater ==
    ASSUME Wanted, NEW s \in Layouts, NEW w \in Widgets
    PROVE  /\ Later(s, LayoutIfMarked(s, w))
           /\ w \in Windows /\ IsVisible(w) /\ ~s.peer[w].layout => Covers(LayoutIfMarked(s, w).dirty, want[w])
<1> DEFINE k == CheckSkin(s, w)
           p == [k.peer[w] EXCEPT !.layout = TRUE]
           u == [k EXCEPT !.peer[w].layout = TRUE]
<1>1. LayoutIfMarked(s, w) = IF s.peer[w].made /\ s.peer[w].layout THEN s ELSE Layout(u, w)
  BY DEF LayoutIfMarked
<1>2. Flags(s, k) /\ k \in Layouts
  BY CheckSkinFlags DEF Flags
<1>3. p \in Peer /\ p.at = k.peer[w].at /\ p.made = k.peer[w].made
  <2> HIDE DEF k
  <2>1. k.peer[w] \in Peer
    BY <1>2, LayoutFacts
  <2>. QED  BY <2>1 DEF Peer
<1>4. u = WithPeer(k, w, p)
  BY DEF WithPeer
<1> HIDE DEF u, p, k
<1>5. Flags(k, u)
  BY <1>2, <1>3, <1>4, WithPeerIs DEF Flags
<1>6. u \in Layouts /\ Later(s, u)
  BY <1>2, <1>5, FlagsLater, LaterTrans DEF Flags
<1>7. Later(u, Layout(u, w)) /\ (w \in Windows /\ IsVisible(w) => Covers(Layout(u, w).dirty, want[w]))
  BY <1>6, LayoutLater
<1>8. Later(s, Layout(u, w))
  BY <1>6, <1>7, LaterTrans
<1>. QED  BY <1>1, <1>7, <1>8, LaterSame

\* The layout of any child of any widget
Checks == {h \in [Widgets -> [Layouts -> Layouts]] : \A c \in Widgets : \A t \in Layouts : Later(t, h[c][t])}

LEMMA CheckWithLater ==
    ASSUME Wanted, NEW s \in Layouts, NEW w \in Widgets, NEW h \in Checks
    PROVE  /\ Later(s, CheckLayoutWith(h, s, w))
           /\ w \in Windows /\ IsVisible(w) /\ ~s.peer[w].layout
                 => Covers(CheckLayoutWith(h, s, w).dirty, want[w])
<1> DEFINE laid == LayoutIfMarked(s, w)
           q == SetToSeq(Children(w))
           L == Len(q)
           p == [laid.peer[w] EXCEPT !.child = TRUE]
           u == [laid EXCEPT !.peer[w].child = TRUE]
           V == {t \in Layouts : Later(u, t)}
           Op(t, n) == h[q[n]][t]
           G == [x \in (1 .. L) \X V |-> Op(x[2], x[1])]
           f == CHOOSE f : f = [n \in 0 .. L |-> IF n = 0 THEN u ELSE Op(f[n - 1], n)]
<1>1. L \in Nat /\ \A n \in 1 .. L : q[n] \in Widgets
  BY ChildrenFinite, SeqOfSet
<1>2. Later(s, laid) /\ laid \in Layouts
      /\ (w \in Windows /\ IsVisible(w) /\ ~s.peer[w].layout => Covers(laid.dirty, want[w]))
  BY LaidLater DEF Later
<1>3. CheckLayoutWith(h, s, w) = IF laid.peer[w].child THEN laid ELSE f[L]
  BY DEF CheckLayoutWith, CheckChildren, Each
<1>4. u = WithPeer(laid, w, p)
  BY DEF WithPeer
<1> HIDE DEF laid
<1>5. p \in Peer /\ p.at = laid.peer[w].at /\ p.made = laid.peer[w].made
  <2>1. laid.peer[w] \in Peer
    BY <1>2, LayoutFacts
  <2>. QED  BY <2>1 DEF Peer
<1> HIDE DEF u, p, q, L
<1>6. Flags(laid, u)
  BY <1>2, <1>4, <1>5, WithPeerIs DEF Flags
<1>7. Later(s, u) /\ u \in Layouts /\ Covers(u.dirty, laid.dirty)
  BY <1>2, <1>6, FlagsLater, LaterTrans DEF Flags, Covers
<1>8. u \in V
  BY <1>7, LaterSame
<1>9. ASSUME NEW n \in 1 .. L, NEW t \in V PROVE Op(t, n) \in V
  <2>1. q[n] \in Widgets /\ t \in Layouts /\ Later(u, t)
    BY <1>1
  <2>2. Later(t, h[q[n]][t])
    BY <2>1 DEF Checks
  <2>3. Later(u, h[q[n]][t]) /\ h[q[n]][t] \in Layouts
    BY <2>1, <2>2, LaterTrans DEF Later
  <2>. QED  BY <2>3
<1> HIDE DEF V, Op
<1>10. G \in [(1 .. L) \X V -> V]
  BY <1>9
<1>11. \A n \in 1 .. L : \A t \in V : G[<<n, t>>] = Op(t, n)
  OBVIOUS
<1> HIDE DEF G
<1>12. PICK g : Steps(V, u, G, L, g)
  BY <1>1, <1>8, <1>10, StepsExist
<1>13. /\ g = [n \in 0 .. L |-> IF n = 0 THEN u ELSE G[<<n, g[n - 1]>>]]
       /\ \A n \in 1 .. L : g[n - 1] \in V
  BY <1>1, <1>8, <1>12, StepsSolve
<1>14. \A n \in 0 .. L : n # 0 => n \in 1 .. L
  BY <1>1
<1>15. g = [n \in 0 .. L |-> IF n = 0 THEN u ELSE Op(g[n - 1], n)]
  BY <1>11, <1>13, <1>14
<1>16. f = [n \in 0 .. L |-> IF n = 0 THEN u ELSE Op(f[n - 1], n)]
  BY <1>15
<1> HIDE DEF f
<1>17. Goes(V, u, G, L, f)
  <2>1. f[0] = u
    BY <1>1, <1>16
  <2>2. \A n \in 1 .. L : n \in 0 .. L /\ n # 0
    BY <1>1
  <2>3. \A n \in 1 .. L : f[n] = Op(f[n - 1], n)
    BY <1>16, <2>2
  <2>. QED  BY <1>11, <2>1, <2>3 DEF Goes
<1>18. f[L] \in V
  <2>1. L \in 0 .. L
    BY <1>1
  <2>. QED  BY <1>1, <1>8, <1>10, <1>17, <2>1, StaysIn
<1>19. Later(u, f[L])
  BY <1>18 DEF V
<1>20. Later(s, f[L]) /\ Covers(f[L].dirty, laid.dirty)
  BY <1>7, <1>19, LaterTrans, CoversTrans DEF Later
<1>. QED  BY <1>2, <1>3, <1>20, CoversTrans

LEMMA CheckLayoutLater ==
    ASSUME Wanted, NEW s \in Layouts, NEW w \in Widgets
    PROVE  /\ Later(s, CheckLayout(s, w))
           /\ w \in Windows /\ IsVisible(w) /\ ~s.peer[w].layout => Covers(CheckLayout(s, w).dirty, want[w])
<1> DEFINE N == Cardinality(Widgets)
           same == [v \in Widgets |-> [t \in Layouts |-> t]]
           Next_(h) == [v \in Widgets |-> [t \in Layouts |-> CheckLayoutWith(h, t, v)]]
           G == [x \in (1 .. N) \X Checks |-> Next_(x[2])]
           f == CHOOSE f : f = [n \in 0 .. N |-> [v \in Widgets |-> [t \in Layouts |->
                                   IF n = 0 THEN t ELSE CheckLayoutWith(f[n - 1], t, v)]]]
<1>1. N \in Nat /\ N # 0
  <2>1. Widgets # {}
    BY TreeAssumption DEF Widgets
  <2>. QED  BY <2>1, TreeAssumption, FS_CardinalityType, FS_EmptySet
<1>2. same \in Checks
  BY LaterSame DEF Checks
<1>3. ASSUME NEW h \in Checks PROVE Next_(h) \in Checks
  <2>1. \A v \in Widgets : \A t \in Layouts : Later(t, CheckLayoutWith(h, t, v))
    BY CheckWithLater
  <2>2. \A v \in Widgets : \A t \in Layouts : CheckLayoutWith(h, t, v) \in Layouts
    BY <2>1 DEF Later
  <2>3. Next_(h) \in [Widgets -> [Layouts -> Layouts]]
    BY <2>2
  <2>. QED  BY <2>1, <2>3 DEF Checks
<1>4. CheckLayout(s, w) = f[N][w][s]
  BY DEF CheckLayout
<1> HIDE DEF N
<1>5. G \in [(1 .. N) \X Checks -> Checks] /\ \A n \in 1 .. N : \A h \in Checks : G[<<n, h>>] = Next_(h)
  <2> HIDE DEF Next_
  <2>. QED  BY <1>3
<1> HIDE DEF G
<1>6. PICK g : Steps(Checks, same, G, N, g)
  BY <1>1, <1>2, <1>5, StepsExist
<1>7. /\ g = [n \in 0 .. N |-> IF n = 0 THEN same ELSE G[<<n, g[n - 1]>>]]
      /\ \A n \in 1 .. N : g[n - 1] \in Checks
  BY <1>1, <1>2, <1>6, StepsSolve
<1>8. \A n \in 0 .. N : n # 0 => n \in 1 .. N
  BY <1>1
<1>9. \A n \in 0 .. N : g[n] = [v \in Widgets |-> [t \in Layouts |->
                                   IF n = 0 THEN t ELSE CheckLayoutWith(g[n - 1], t, v)]]
  <2>1. TAKE n \in 0 .. N
  <2>2. CASE n = 0
    BY <1>7, <2>2
  <2>3. CASE n # 0
    <3>1. g[n] = Next_(g[n - 1])
      <4> HIDE DEF Next_
      <4>. QED  BY <1>5, <1>7, <1>8, <2>3
    <3>. QED  BY <2>3, <3>1
  <2>. QED  BY <2>2, <2>3
<1>10. g = [n \in 0 .. N |-> [v \in Widgets |-> [t \in Layouts |->
               IF n = 0 THEN t ELSE CheckLayoutWith(g[n - 1], t, v)]]]
  BY <1>7, <1>9
<1>11. f = [n \in 0 .. N |-> [v \in Widgets |-> [t \in Layouts |->
               IF n = 0 THEN t ELSE CheckLayoutWith(f[n - 1], t, v)]]]
  BY <1>10
<1> HIDE DEF f
<1>12. f[0] = same
  BY <1>1, <1>11
<1>13. ASSUME NEW n \in 1 .. N PROVE f[n] = Next_(f[n - 1])
  <2>1. n \in 0 .. N /\ n # 0
    BY <1>1
  <2>2. f[n] = [v \in Widgets |-> [t \in Layouts |-> IF n = 0 THEN t ELSE CheckLayoutWith(f[n - 1], t, v)]]
    BY <1>11, <2>1
  <2> DEFINE h == f[n - 1]
  <2> HIDE DEF h
  <2>3. f[n] = [v \in Widgets |-> [t \in Layouts |-> CheckLayoutWith(h, t, v)]]
    BY <2>1, <2>2 DEF h
  <2>. QED  BY <2>3 DEF h
<1> HIDE DEF same, Next_
<1>14. Goes(Checks, same, G, N, f)
  BY <1>5, <1>12, <1>13 DEF Goes
<1>15. N - 1 \in 0 .. N /\ N \in 1 .. N
  BY <1>1
<1>16. f[N - 1] \in Checks
  BY <1>1, <1>2, <1>5, <1>14, <1>15, StaysIn
<1>17. f[N][w][s] = CheckLayoutWith(f[N - 1], s, w)
  <2>1. f[N] = Next_(f[N - 1])
    BY <1>13, <1>15
  <2> DEFINE h == f[N - 1]
  <2> HIDE DEF h
  <2>2. f[N] = [v \in Widgets |-> [t \in Layouts |-> CheckLayoutWith(h, t, v)]]
    BY <2>1 DEF Next_, h
  <2>3. f[N][w][s] = CheckLayoutWith(h, s, w)
    BY <2>2
  <2>. QED  BY <2>3 DEF h
<1>. QED  BY <1>4, <1>16, <1>17, CheckWithLater

\* One round of a window, which begins with the window itself
LEMMA RoundLater ==
    ASSUME Wanted, NEW s \in Layouts, NEW w \in Windows
    PROVE  /\ Later(s, Round(s, w))
           /\ IsVisible(w) /\ ~s.peer[w].layout /\ ~s.peer[w].child => Covers(Round(s, w).dirty, want[w])
<1> DEFINE q == SetToSeq(Globals)
           L == Len(q)
           u == CheckLayout(s, w)
           V == {t \in Layouts : Later(u, t)}
           Op(t, n) == CheckLayout(t, q[n])
           G == [x \in (1 .. L) \X V |-> Op(x[2], x[1])]
           f == CHOOSE f : f = [n \in 0 .. L |-> IF n = 0 THEN u ELSE Op(f[n - 1], n)]
<1>1. L \in Nat /\ \A n \in 1 .. L : q[n] \in Widgets
  <2>1. IsFiniteSet(Globals) /\ Globals \subseteq Widgets
    BY TreeAssumption, FS_Subset DEF Widgets
  <2>. QED  BY <2>1, SeqOfSet
<1>2. Later(s, u) /\ u \in Layouts
      /\ (IsVisible(w) /\ ~s.peer[w].layout => Covers(u.dirty, want[w]))
  <2>1. w \in Widgets
    BY DEF Widgets
  <2>. QED  BY <2>1, CheckLayoutLater DEF Later
<1>3. Round(s, w) = IF s.peer[w].child THEN s ELSE f[L]
  BY DEF Round, Each
<1> HIDE DEF u, q, L
<1>8. u \in V
  BY <1>2, LaterSame
<1>9. ASSUME NEW n \in 1 .. L, NEW t \in V PROVE Op(t, n) \in V
  <2>1. q[n] \in Widgets /\ t \in Layouts /\ Later(u, t)
    BY <1>1
  <2>2. Later(t, Op(t, n))
    BY <2>1, CheckLayoutLater
  <2>3. Later(u, Op(t, n)) /\ Op(t, n) \in Layouts
    BY <2>1, <2>2, LaterTrans DEF Later
  <2>. QED  BY <2>3
<1> HIDE DEF V, Op
<1>10. G \in [(1 .. L) \X V -> V]
  BY <1>9
<1>11. \A n \in 1 .. L : \A t \in V : G[<<n, t>>] = Op(t, n)
  OBVIOUS
<1> HIDE DEF G
<1>12. PICK g : Steps(V, u, G, L, g)
  BY <1>1, <1>8, <1>10, StepsExist
<1>13. /\ g = [n \in 0 .. L |-> IF n = 0 THEN u ELSE G[<<n, g[n - 1]>>]]
       /\ \A n \in 1 .. L : g[n - 1] \in V
  BY <1>1, <1>8, <1>12, StepsSolve
<1>14. \A n \in 0 .. L : n # 0 => n \in 1 .. L
  BY <1>1
<1>15. g = [n \in 0 .. L |-> IF n = 0 THEN u ELSE Op(g[n - 1], n)]
  BY <1>11, <1>13, <1>14
<1>16. f = [n \in 0 .. L |-> IF n = 0 THEN u ELSE Op(f[n - 1], n)]
  BY <1>15
<1> HIDE DEF f
<1>17. Goes(V, u, G, L, f)
  <2>1. f[0] = u
    BY <1>1, <1>16
  <2>2. \A n \in 1 .. L : n \in 0 .. L /\ n # 0
    BY <1>1
  <2>3. \A n \in 1 .. L : f[n] = Op(f[n - 1], n)
    BY <1>16, <2>2
  <2>. QED  BY <1>11, <2>1, <2>3 DEF Goes
<1>18. f[L] \in V
  <2>1. L \in 0 .. L
    BY <1>1
  <2>. QED  BY <1>1, <1>8, <1>10, <1>17, <2>1, StaysIn
<1>19. Later(u, f[L])
  BY <1>18 DEF V
<1>20. Later(s, f[L]) /\ Covers(f[L].dirty, u.dirty)
  BY <1>2, <1>19, LaterTrans DEF Later
<1>. QED  BY <1>2, <1>3, <1>20, LaterSame, CoversTrans

\* All rounds of a window: the first one lays it out if nothing of it is.
LEMMA CheckWindowLater ==
    ASSUME Wanted, NEW s \in Layouts, NEW w \in Windows
    PROVE  /\ Later(s, CheckWindow(s, w))
           /\ IsVisible(w) /\ ~s.peer[w].layout /\ ~s.peer[w].child => Covers(CheckWindow(s, w).dirty, want[w])
<1> DEFINE p == [s.peer[w] EXCEPT !.made = TRUE]
           u == [s EXCEPT !.peer[w].made = TRUE]
           a == Round(u, w)
           b == Round(a, w)
           c == Round(b, w)
           d == Round(c, w)
<1>1. w \in Widgets
  BY DEF Widgets
<1>2. p \in Peer /\ p.at = s.peer[w].at /\ p.made /\ p.layout = s.peer[w].layout /\ p.child = s.peer[w].child
  <2>1. s.peer[w] \in Peer
    BY <1>1, LayoutFacts
  <2>. QED  BY <2>1 DEF Peer
<1>3. u = WithPeer(s, w, p)
  BY DEF WithPeer
<1>4. CheckWindow(s, w) = d
  BY DEF CheckWindow
<1> HIDE DEF p, u
<1>5. Flags(s, u) /\ u \in Layouts /\ u.peer[w].layout = s.peer[w].layout /\ u.peer[w].child = s.peer[w].child
  BY <1>1, <1>2, <1>3, WithPeerIs DEF Flags
<1>6. Later(s, u)
  BY <1>5, FlagsLater
<1>7. Later(u, a) /\ a \in Layouts /\ (IsVisible(w) /\ ~u.peer[w].layout /\ ~u.peer[w].child => Covers(a.dirty, want[w]))
  BY <1>5, RoundLater DEF Later
<1> HIDE DEF a
<1>8. Later(a, b) /\ b \in Layouts
  BY <1>7, RoundLater DEF Later
<1> HIDE DEF b
<1>9. Later(b, c) /\ c \in Layouts
  BY <1>8, RoundLater DEF Later
<1> HIDE DEF c
<1>10. Later(c, d) /\ d \in Layouts
  BY <1>9, RoundLater DEF Later
<1> HIDE DEF d
<1>11. Later(b, d)
  BY <1>9, <1>10, LaterTrans
<1>12. Later(a, d)
  BY <1>8, <1>11, LaterTrans
<1>13. Later(u, d)
  BY <1>7, <1>12, LaterTrans
<1>14. Later(s, d)
  BY <1>6, <1>13, LaterTrans
<1>15. Covers(d.dirty, a.dirty)
  BY <1>12 DEF Later
<1>. QED  BY <1>4, <1>5, <1>7, <1>14, <1>15, CoversTrans

-----------------------------------------------------------------------------
(* The stack of windows *)

\* Every window is in it once at most, and the one at the bottom is opaque, and no
\* context menu.
Stack(st) ==
    /\ st \in Seq(Windows)
    /\ \A i, j \in 1 .. Len(st) : st[i] = st[j] => i = j
    /\ st # <<>> => st[Len(st)] \notin Transparent \cup ContextMenus

LEMMA CoverIs ==
    ASSUME NEW st, Stack(st), st # <<>>
    PROVE  /\ Cover(st) \in 1 .. Len(st) /\ st[Cover(st)] \in Windows \ Transparent
           /\ \A j \in 1 .. Cover(st) - 1 : st[j] \in Transparent
           /\ st[Cover(st)] \in Drawn(st)
<1> DEFINE T == {i \in Nat : i \in 1 .. Len(st) /\ st[i] \notin Transparent}
<1>1. Len(st) \in Nat /\ Len(st) # 0 /\ DOMAIN st = 1 .. Len(st) /\ \A i \in 1 .. Len(st) : st[i] \in Windows
  BY DEF Stack
<1>2. Len(st) \in T
  BY <1>1 DEF Stack
<1>3. PICK n \in T : \A m \in T : n <= m
  <2>1. T # {} /\ T \in SUBSET Nat
    BY <1>2
  <2> HIDE DEF T
  <2>. QED  BY <2>1, Smallest
<1>4. \A j \in 1 .. n - 1 : st[j] \in Transparent
  <2>1. TAKE j \in 1 .. n - 1
  <2>2. j \in 1 .. Len(st) /\ ~(n <= j) /\ j \in Nat
    BY <1>1, <2>1
  <2>3. j \notin T
    BY <1>3, <2>2
  <2>. QED  BY <2>2, <2>3
<1>5. n \in DOMAIN st /\ st[n] \notin Transparent
  BY <1>1, <1>3
<1>6. /\ Cover(st) \in DOMAIN st /\ st[Cover(st)] \notin Transparent
      /\ \A j \in 1 .. Cover(st) - 1 : st[j] \in Transparent
  BY <1>4, <1>5 DEF Cover
<1>7. st[Cover(st)] \in Drawn(st)
  BY <1>6 DEF Drawn
<1>. QED  BY <1>1, <1>6, <1>7

LEMMA WindowOfWindow == ASSUME NEW w \in Windows PROVE WindowOf(w) = w /\ w \in Widgets
BY DEF WindowOf, Line, Widgets

\* The windows that are drawn, from the one that covers the screen to the one on top
LEMMA CheckWindowsLater ==
    ASSUME Wanted, Stack(stack), stack # <<>>, NEW s \in Layouts
    PROVE  /\ Later(s, CheckWindows(s))
           /\ LET c == stack[Cover(stack)]
              IN  IsVisible(c) /\ ~s.peer[c].layout /\ ~s.peer[c].child
                    => Covers(CheckWindows(s).dirty, want[c])
<1> DEFINE L == Cover(stack)
           c == stack[L]
           q == [i \in 1 .. L |-> stack[L + 1 - i]]
           V == {t \in Layouts : Later(s, t)}
           Op(t, n) == CheckWindow(t, q[n])
           G == [x \in (1 .. L) \X V |-> Op(x[2], x[1])]
           f == CHOOSE f : f = [n \in 0 .. Len(q) |-> IF n = 0 THEN s ELSE Op(f[n - 1], n)]
<1>1. L \in Nat /\ L \in 1 .. L /\ c \in Windows
  BY CoverIs DEF Stack
<1>2. Len(q) = L /\ q[1] = c /\ \A n \in 1 .. L : q[n] \in Windows
  <2>1. L <= Len(stack) /\ Len(stack) \in Nat /\ \A i \in 1 .. Len(stack) : stack[i] \in Windows
    BY CoverIs DEF Stack
  <2>2. \A n \in 1 .. L : L + 1 - n \in 1 .. Len(stack) /\ q[n] = stack[L + 1 - n]
    BY <1>1, <2>1
  <2>3. \A n \in 1 .. L : q[n] \in Windows
    BY <2>1, <2>2
  <2>4. 1 \in 1 .. L /\ L + 1 - 1 = L
    BY <1>1
  <2>5. q[1] = stack[L]
    BY <2>2, <2>4
  <2>. QED  BY <1>1, <2>3, <2>5
<1>3. s \in V
  BY LaterSame
<1>4. ASSUME NEW n \in 1 .. L, NEW t \in Layouts PROVE Later(t, Op(t, n)) /\ Op(t, n) \in Layouts
  <2>1. q[n] \in Windows
    BY <1>2
  <2> HIDE DEF q
  <2>. QED  BY <2>1, CheckWindowLater DEF Later
<1>5. ASSUME NEW n \in 1 .. L, NEW t \in V PROVE Op(t, n) \in V
  <2>1. t \in Layouts /\ Later(s, t)
    OBVIOUS
  <2> HIDE DEF Op
  <2>2. Later(t, Op(t, n)) /\ Op(t, n) \in Layouts
    BY <1>4, <2>1
  <2>3. Later(s, Op(t, n))
    BY <2>1, <2>2, LaterTrans
  <2>. QED  BY <2>2, <2>3
<1>6. CheckWindows(s) = f[Len(q)]
  BY DEF CheckWindows, Each
<1>7. Op(s, 1) = CheckWindow(s, c)
  BY <1>2
<1> HIDE DEF q, V, Op, c, L
<1>8. G \in [(1 .. L) \X V -> V] /\ \A n \in 1 .. L : \A t \in V : G[<<n, t>>] = Op(t, n)
  BY <1>5
<1> HIDE DEF G
<1>9. PICK g : Steps(V, s, G, L, g)
  BY <1>1, <1>3, <1>8, StepsExist
<1>10. /\ g = [n \in 0 .. L |-> IF n = 0 THEN s ELSE G[<<n, g[n - 1]>>]]
       /\ \A n \in 1 .. L : g[n - 1] \in V
  BY <1>1, <1>3, <1>9, StepsSolve
<1>11. \A n \in 0 .. L : n # 0 => n \in 1 .. L
  BY <1>1
<1>12. g = [n \in 0 .. L |-> IF n = 0 THEN s ELSE Op(g[n - 1], n)]
  BY <1>8, <1>10, <1>11
<1>13. f = [n \in 0 .. L |-> IF n = 0 THEN s ELSE Op(f[n - 1], n)]
  BY <1>2, <1>12
<1> HIDE DEF f
<1>14. f[0] = s /\ \A n \in 1 .. L : f[n] = Op(f[n - 1], n)
  <2>1. 0 \in 0 .. L /\ \A n \in 1 .. L : n \in 0 .. L /\ n # 0
    BY <1>1
  <2>. QED  BY <1>13, <2>1
<1>15. Goes(V, s, G, L, f)
  BY <1>8, <1>14 DEF Goes
<1>16. \A n \in 0 .. L : f[n] \in V
  BY <1>1, <1>3, <1>8, <1>15, StaysIn
<1>17. Later(s, f[L])
  BY <1>1, <1>16 DEF V
<1> DEFINE T == {n \in Nat : n + 1 <= L => Later(f[1], f[n + 1])}
<1>18. 0 \in T
  <2>1. f[1] \in Layouts
    BY <1>1, <1>16 DEF V
  <2>. QED  BY <2>1, LaterSame
<1>19. \A n \in Nat : n \in T => n + 1 \in T
  <2> SUFFICES ASSUME NEW n \in Nat, n \in T, n + 1 + 1 <= L PROVE Later(f[1], f[n + 1 + 1])
    OBVIOUS
  <2>1. n + 1 <= L /\ n + 1 + 1 \in 1 .. L /\ n + 1 + 1 - 1 = n + 1 /\ n + 1 \in 0 .. L
    BY <1>1
  <2>2. Later(f[1], f[n + 1])
    BY <2>1
  <2>3. f[n + 1] \in Layouts
    BY <1>16, <2>1 DEF V
  <2>4. f[n + 1 + 1] = Op(f[n + 1], n + 1 + 1)
    BY <1>14, <2>1
  <2>5. Later(f[n + 1], f[n + 1 + 1])
    BY <1>4, <2>1, <2>3, <2>4
  <2>. QED  BY <2>2, <2>5, LaterTrans
<1>20. \A n \in Nat : n \in T
  <2> HIDE DEF T
  <2>. QED  BY <1>18, <1>19, Induct
<1>21. Later(f[1], f[L])
  <2>1. L - 1 \in T /\ L - 1 + 1 = L /\ L <= L
    <3> HIDE DEF T
    <3>. QED  BY <1>1, <1>20
  <2>. QED  BY <2>1
<1>22. f[1] = CheckWindow(s, c)
  BY <1>1, <1>7, <1>14
<1>23. Covers(f[L].dirty, CheckWindow(s, c).dirty)
  BY <1>21, <1>22 DEF Later
<1>24. IsVisible(c) /\ ~s.peer[c].layout /\ ~s.peer[c].child => Covers(f[L].dirty, want[c])
  BY <1>1, <1>23, CheckWindowLater, CoversTrans
<1>25. CheckWindows(s) = f[L]
  BY <1>2, <1>6
<1>. QED  BY <1>17, <1>24, <1>25 DEF c, L

-----------------------------------------------------------------------------
(* Windows that come and go *)

LEMMA Removed ==
    ASSUME NEW W, NEW st \in Seq(W), NEW i \in 1 .. Len(st)
    PROVE  /\ RemoveAt(st, i) \in Seq(W) /\ Len(RemoveAt(st, i)) = Len(st) - 1
           /\ \A j \in 1 .. Len(st) - 1 : RemoveAt(st, i)[j] = IF j < i THEN st[j] ELSE st[j + 1]
<1> DEFINE a == SubSeq(st, 1, i - 1)
           b == SubSeq(st, i + 1, Len(st))
<1>1. Len(st) \in Nat /\ i \in Nat /\ i >= 1 /\ i <= Len(st)
  OBVIOUS
<1>2. a \in Seq(W) /\ Len(a) = i - 1 /\ \A j \in 1 .. i - 1 : a[j] = st[j]
  <2>1. \A j \in 1 .. i - 1 : st[j] \in W
    BY <1>1
  <2>. QED  BY <1>1, <2>1
<1>3. b \in Seq(W) /\ Len(b) = Len(st) - i /\ \A j \in 1 .. Len(st) - i : b[j] = st[i + j]
  <2>1. \A j \in i + 1 .. Len(st) : st[j] \in W
    BY <1>1
  <2>. QED  BY <1>1, <2>1
<1>4. RemoveAt(st, i) = a \o b
  BY DEF RemoveAt
<1> HIDE DEF a, b
<1>5. a \o b \in Seq(W) /\ Len(a \o b) = Len(st) - 1
  <2>1. a \o b \in Seq(W) /\ Len(a \o b) = Len(a) + Len(b)
    <3>1. a \in Seq(W) /\ b \in Seq(W)
      BY <1>2, <1>3
    <3>2. a \o b \in Seq(W)
      BY <3>1
    <3>. QED  BY <3>1, <3>2
  <2>2. Len(a) + Len(b) = (i - 1) + (Len(st) - i)
    BY <1>2, <1>3
  <2>. QED  BY <1>1, <2>1, <2>2
<1>6. ASSUME NEW j \in 1 .. Len(st) - 1 PROVE (a \o b)[j] = IF j < i THEN st[j] ELSE st[j + 1]
  <2>1. CASE j < i
    <3>1. j \in 1 .. Len(a) /\ j \in 1 .. i - 1
      BY <1>1, <1>2, <2>1
    <3>2. (a \o b)[j] = a[j]
      BY <1>2, <1>3, <3>1
    <3>. QED  BY <1>2, <2>1, <3>1, <3>2
  <2>2. CASE ~(j < i)
    <3>1. j - Len(a) \in 1 .. Len(st) - i /\ j - Len(a) = j - (i - 1) /\ ~(j <= Len(a)) /\ j \in 1 .. Len(a) + Len(b)
      BY <1>1, <1>2, <1>3, <2>2
    <3>2. (a \o b)[j] = b[j - Len(a)]
      BY <1>2, <1>3, <3>1
    <3>3. i + (j - Len(a)) = j + 1
      BY <1>1, <1>2
    <3>. QED  BY <1>3, <2>2, <3>1, <3>2, <3>3
  <2>. QED  BY <2>1, <2>2
<1>. QED  BY <1>4, <1>5, <1>6


LEMMA DrawnIs ==
    ASSUME NEW st, Stack(st), NEW v
    PROVE  v \in Drawn(st) <=> \E j \in 1 .. Len(st) : v = st[j] /\ \A k \in 1 .. j - 1 : st[k] \in Transparent
BY DEF Drawn, Stack

\* Window w is taken out of st, but not from the bottom.
Without(st, w, r) ==
    /\ Stack(r) /\ (r = <<>> <=> st = <<>>) /\ (st # <<>> => r[Len(r)] = st[Len(st)])
    /\ \A j \in 1 .. Len(r) : r[j] # w
    /\ w \in Transparent \/ w \notin Drawn(st) => Drawn(r) \subseteq Drawn(st)
    /\ w \notin Drawn(st) => Drawn(st) \subseteq Drawn(r)

LEMMA DeleteIs ==
    ASSUME NEW st, Stack(st), NEW w \in Windows, st # <<>> => st[Len(st)] # w
    PROVE  Without(st, w, Delete(st, w))
<1>1. st \in Seq(Windows) /\ Len(st) \in Nat /\ DOMAIN st = 1 .. Len(st)
  BY DEF Stack
<1>2. CASE ~\E i \in DOMAIN st : st[i] = w
  BY <1>1, <1>2 DEF Delete, Without
<1>3. CASE \E i \in DOMAIN st : st[i] = w
  <2> DEFINE i == CHOOSE i \in DOMAIN st : st[i] = w
             r == RemoveAt(st, i)
             n == Len(st)
  <2>1. i \in 1 .. n /\ st[i] = w
    BY <1>1, <1>3
  <2>2. Delete(st, w) = r
    BY <1>3 DEF Delete
  <2> HIDE DEF i
  <2>3. i < n /\ st[n] \notin Transparent \cup ContextMenus /\ st # <<>>
    BY <1>1, <2>1 DEF Stack
  <2>4. /\ r \in Seq(Windows) /\ Len(r) = n - 1
        /\ \A j \in 1 .. n - 1 : r[j] = IF j < i THEN st[j] ELSE st[j + 1]
    BY <1>1, <2>1, Removed
  <2> HIDE DEF r
  <2>5. \A j, k \in 1 .. n : st[j] = st[k] => j = k
    BY DEF Stack
  <2>6. \A j \in 1 .. n - 1 : j \in 1 .. n /\ j + 1 \in 1 .. n
    BY <1>1
  <2>7. \A j \in 1 .. Len(r) : r[j] # w
    <3>1. TAKE j \in 1 .. Len(r)
    <3>2. r[j] = IF j < i THEN st[j] ELSE st[j + 1]
      BY <2>4
    <3>3. j \in 1 .. n /\ j + 1 \in 1 .. n
      BY <2>4, <2>6
    <3>4. CASE j < i
      BY <2>1, <2>5, <3>2, <3>3, <3>4
    <3>5. CASE ~(j < i)
      BY <2>1, <2>5, <3>2, <3>3, <3>5
    <3>. QED  BY <3>4, <3>5
  <2>8. Stack(r) /\ r # <<>> /\ r[Len(r)] = st[n]
    <3>1. \A j, k \in 1 .. n - 1 : r[j] = r[k] => j = k
      <4>1. TAKE j, k \in 1 .. n - 1
      <4> DEFINE a == IF j < i THEN j ELSE j + 1
                 b == IF k < i THEN k ELSE k + 1
      <4>2. a \in 1 .. n /\ b \in 1 .. n /\ r[j] = st[a] /\ r[k] = st[b]
        BY <2>4, <2>6
      <4>3. r[j] = r[k] => a = b
        BY <2>5, <4>2
      <4>4. a = b => j = k
        BY <2>1
      <4>. QED  BY <4>3, <4>4
    <3>2. n - 1 \in 1 .. n - 1 /\ ~(n - 1 < i) /\ n - 1 + 1 = n
      BY <1>1, <2>1, <2>3
    <3>3. r[n - 1] = st[n]
      BY <2>4, <3>2
    <3>4. r # <<>>
      BY <2>4, <3>2
    <3>. QED  BY <2>3, <2>4, <3>1, <3>3, <3>4 DEF Stack
  <2>9. ASSUME w \in Transparent \/ w \notin Drawn(st), NEW v \in Drawn(r) PROVE v \in Drawn(st)
    <3>1. PICK j \in 1 .. n - 1 : v = r[j] /\ \A k \in 1 .. j - 1 : r[k] \in Transparent
      BY <2>4, <2>8, DrawnIs
    <3>2. CASE j < i
      <4>1. j \in 1 .. n /\ v = st[j]
        BY <2>4, <2>6, <3>1, <3>2
      <4>2. \A k \in 1 .. j - 1 : k \in 1 .. n - 1 /\ k < i
        BY <1>1, <2>1, <3>2
      <4>3. \A k \in 1 .. j - 1 : st[k] \in Transparent
        BY <2>4, <3>1, <4>2
      <4>. QED  BY <4>1, <4>3, DrawnIs
    <3>3. CASE ~(j < i)
      <4>1. j + 1 \in 1 .. n /\ v = st[j + 1]
        BY <2>4, <2>6, <3>1, <3>3
      <4>2. \A k \in 1 .. i - 1 : k \in 1 .. j - 1 /\ k \in 1 .. n - 1 /\ k < i
        BY <2>1, <3>3
      <4>3. \A k \in 1 .. i - 1 : st[k] \in Transparent
        BY <2>4, <3>1, <4>2
      <4>4. w \in Transparent
        BY <2>1, <2>9, <4>3, DrawnIs
      <4>5. \A k \in i + 1 .. j : k - 1 \in 1 .. j - 1 /\ k - 1 \in 1 .. n - 1 /\ ~(k - 1 < i) /\ k - 1 + 1 = k
        BY <2>1
      <4>6. \A k \in i + 1 .. j : st[k] \in Transparent
        BY <2>4, <3>1, <4>5
      <4>7. \A k \in 1 .. (j + 1) - 1 : k \in 1 .. i - 1 \/ k = i \/ k \in i + 1 .. j
        BY <2>1
      <4>8. \A k \in 1 .. (j + 1) - 1 : st[k] \in Transparent
        BY <2>1, <4>3, <4>4, <4>6, <4>7
      <4>. QED  BY <4>1, <4>8, DrawnIs
    <3>. QED  BY <3>2, <3>3
  <2>10. ASSUME w \notin Drawn(st), NEW v \in Drawn(st) PROVE v \in Drawn(r)
    <3>1. PICK j \in 1 .. n : v = st[j] /\ \A k \in 1 .. j - 1 : st[k] \in Transparent
      BY DrawnIs
    <3>2. PICK m \in 1 .. i - 1 : st[m] \notin Transparent
      BY <2>1, <2>10, DrawnIs
    <3>3. j < i
      <4>1. ~(m \in 1 .. j - 1)
        BY <3>1, <3>2
      <4>. QED  BY <2>1, <4>1
    <3>4. j \in 1 .. n - 1 /\ \A k \in 1 .. j - 1 : k \in 1 .. n - 1 /\ k < i
      BY <2>1, <3>3
    <3>5. r[j] = v /\ \A k \in 1 .. j - 1 : r[k] = st[k]
      BY <2>4, <3>1, <3>3, <3>4
    <3>. QED  BY <2>4, <2>8, <3>1, <3>4, <3>5, DrawnIs
  <2>. QED  BY <2>2, <2>3, <2>7, <2>8, <2>9, <2>10 DEF Without
<1>. QED  BY <1>2, <1>3

\* A window on top of the others
LEMMA OnTop ==
    ASSUME NEW st, Stack(st), NEW w \in Windows, \A j \in 1 .. Len(st) : st[j] # w,
           st = <<>> => w \notin Transparent \cup ContextMenus
    PROVE  /\ Stack(<<w>> \o st)
           /\ Drawn(<<w>> \o st) \subseteq {w} \cup (IF w \in Transparent THEN Drawn(st) ELSE {})
<1> DEFINE r == <<w>> \o st
           n == Len(st)
<1>1. st \in Seq(Windows) /\ n \in Nat /\ \A j \in 1 .. n : st[j] \in Windows
  BY DEF Stack
<1>2. r \in Seq(Windows) /\ Len(r) = n + 1 /\ r[1] = w /\ \A j \in 1 .. n : r[j + 1] = st[j]
  BY <1>1
<1> HIDE DEF r
<1>3. \A j \in 1 .. n + 1 : j = 1 \/ (j - 1 \in 1 .. n /\ r[j] = st[j - 1])
  <2>1. TAKE j \in 1 .. n + 1
  <2>2. j = 1 \/ (j - 1 \in 1 .. n /\ (j - 1) + 1 = j)
    BY <1>1
  <2>. QED  BY <1>2, <2>2
<1>4. Stack(r)
  <2>1. ASSUME NEW j \in 1 .. n + 1, NEW k \in 1 .. n + 1, r[j] = r[k] PROVE j = k
    <3>1. CASE j = 1
      BY <1>2, <1>3, <2>1, <3>1
    <3>2. CASE k = 1
      BY <1>2, <1>3, <2>1, <3>2
    <3>3. CASE j # 1 /\ k # 1
      <4>1. j - 1 \in 1 .. n /\ k - 1 \in 1 .. n /\ st[j - 1] = st[k - 1]
        BY <1>3, <2>1, <3>3
      <4>2. j - 1 = k - 1
        BY <4>1 DEF Stack
      <4>. QED  BY <4>2
    <3>. QED  BY <3>1, <3>2, <3>3
  <2>2. r[n + 1] \notin Transparent \cup ContextMenus
    <3>1. CASE n = 0
      <4>1. st = <<>>
        BY <1>1, <3>1
      <4>. QED  BY <1>2, <3>1, <4>1
    <3>2. CASE n # 0
      <4>1. n \in 1 .. n /\ st # <<>>
        BY <1>1, <3>2
      <4>. QED  BY <1>2, <4>1 DEF Stack
    <3>. QED  BY <3>1, <3>2
  <2>. QED  BY <1>2, <2>1, <2>2 DEF Stack
<1>5. ASSUME NEW v \in Drawn(r), v # w PROVE w \in Transparent /\ v \in Drawn(st)
  <2>1. PICK j \in 1 .. n + 1 : v = r[j] /\ \A k \in 1 .. j - 1 : r[k] \in Transparent
    BY <1>2, <1>4, DrawnIs
  <2>2. j # 1 /\ j - 1 \in 1 .. n /\ v = st[j - 1]
    BY <1>2, <1>3, <1>5, <2>1
  <2>3. 1 \in 1 .. j - 1 /\ \A k \in 1 .. (j - 1) - 1 : k + 1 \in 1 .. j - 1 /\ k \in 1 .. n
    BY <1>1, <2>2
  <2>4. w \in Transparent /\ \A k \in 1 .. (j - 1) - 1 : st[k] \in Transparent
    BY <1>2, <2>1, <2>3
  <2>. QED  BY <2>2, <2>4, DrawnIs
<1>. QED  BY <1>4, <1>5 DEF r

-----------------------------------------------------------------------------
(* The invariant *)

\* Every widget is where it may be placed, or nowhere yet.
Peers(s) ==
    /\ s \in Layouts
    /\ \A w \in Widgets : s.peer[w].at \in Place[w] \cup {None} /\ (~s.peer[w].made => s.peer[w].at = None)

\* Every window that is drawn was told that it is visible.
WindowsInv ==
    /\ Stack(stack) /\ owner \in Windows
    /\ visible \in SUBSET Windows /\ Drawn(stack) \subseteq visible

Pictures == SUBSET ((Widgets \X {0, 1}) \cup {<<i>> : i \in 0 .. 4})

Looks == look \in [Widgets -> {0, 1}] /\ background \in {0, 1}

Frames ==
    /\ front \in [Cells -> Pictures] /\ back \in [Cells -> Pictures]
    /\ last \in Rects /\ torn \in BOOLEAN /\ double \in BOOLEAN

\* What is wrong on the screen will be drawn over, whatever is marked.
Coming ==
    torn /\ ~exposed => transition \/ dirty = Screen \/ stack = <<>> \/ (pending /\ Filled(stack))

Wishes == want \in [Widgets -> Rects] /\ Wanted

Flagged == pending \in BOOLEAN /\ transition \in BOOLEAN /\ exposed \in BOOLEAN

ScreenInv == Peers(S) /\ Wishes /\ WindowsInv /\ Looks /\ Frames /\ Flagged /\ Coming

LEMMA PeersLater == ASSUME NEW s, NEW t, Peers(s), Later(s, t) PROVE Peers(t)
<1>1. t \in Layouts
  BY DEF Later
<1>2. ASSUME NEW w \in Widgets
      PROVE  t.peer[w].at \in Place[w] \cup {None} /\ (~t.peer[w].made => t.peer[w].at = None)
  <2>1. MovedIn(s, t, w)
    BY DEF Later
  <2>2. s.peer[w].at \in Place[w] \cup {None} /\ (~s.peer[w].made => s.peer[w].at = None)
    BY DEF Peers
  <2>. QED  BY <2>1, <2>2 DEF MovedIn
<1>. QED  BY <1>1, <1>2 DEF Peers

-----------------------------------------------------------------------------
(* The layout of a frame *)

LEMMA ForgottenIs ==
    ASSUME NEW s \in Layouts
    PROVE  /\ Flags(s, Forgotten(s))
           /\ \A w \in Widgets : ~Forgotten(s).peer[w].layout /\ ~Forgotten(s).peer[w].child
<1> DEFINE P(w) == [s.peer[w] EXCEPT !.skin = FALSE, !.layout = FALSE, !.child = FALSE]
           f == [w \in Widgets |-> P(w)]
<1>1. \A w \in Widgets : s.peer[w] \in Peer
  BY LayoutFacts
<1>2. \A w \in Widgets : /\ P(w) \in Peer /\ P(w).at = s.peer[w].at /\ P(w).made = s.peer[w].made
                         /\ ~P(w).layout /\ ~P(w).child
  BY <1>1 DEF Peer
<1>3. Forgotten(s) = [s EXCEPT !.peer = f]
  BY DEF Forgotten
<1> HIDE DEF P
<1>4. /\ f \in [Widgets -> Peer]
      /\ \A w \in Widgets : /\ f[w].at = s.peer[w].at /\ f[w].made = s.peer[w].made
                            /\ ~f[w].layout /\ ~f[w].child
  BY <1>2
<1> HIDE DEF f
<1>5. Forgotten(s).peer = f /\ Forgotten(s).dirty = s.dirty /\ Forgotten(s) \in Layouts
  BY <1>3, <1>4 DEF Layouts, Peer
<1>. QED  BY <1>4, <1>5 DEF Flags

\* After a change of style the layout of a frame marks the whole screen, if what is
\* drawn fills it.
LEMMA LaidOutLater ==
    ASSUME ScreenInv, stack # <<>>
    PROVE  /\ Later(S, LaidOut) /\ LaidOut \in Layouts
           /\ (pending /\ Filled(stack)) \/ dirty = Screen => LaidOut.dirty = Screen
<1> DEFINE c == stack[Cover(stack)]
           t == Forgotten(S)
<1>1. S \in Layouts /\ Wanted /\ Stack(stack) /\ pending \in BOOLEAN /\ S.dirty = dirty
  BY DEF ScreenInv, Peers, Wishes, WindowsInv, Flagged, S
<1>2. c \in Windows /\ c \in Windows \ Transparent /\ c \in Drawn(stack)
  BY <1>1, CoverIs
<1>3. (Filled(stack) => want[c] = Screen) /\ IsVisible(c) /\ c \in Widgets
  <2>1. c \in Widgets /\ WindowOf(c) = c
    BY <1>2, WindowOfWindow
  <2>2. want[c] \in Place[c] /\ (Filled(stack) => Place[c] = {Screen})
    BY <1>1, <1>2, <2>1 DEF Wanted, Filled
  <2>3. c \in visible
    BY <1>2 DEF ScreenInv, WindowsInv
  <2>. QED  BY <2>1, <2>2, <2>3 DEF IsVisible
<1>4. Flags(S, t) /\ t \in Layouts /\ ~t.peer[c].layout /\ ~t.peer[c].child
  BY <1>1, <1>3, ForgottenIs DEF Flags
<1>5. LaidOut = CheckWindows(IF pending THEN t ELSE S)
  BY DEF LaidOut
<1> HIDE DEF t
<1>6. Later(t, CheckWindows(t)) /\ (IsVisible(c) /\ ~t.peer[c].layout /\ ~t.peer[c].child => Covers(CheckWindows(t).dirty, want[c]))
  BY <1>1, <1>4, CheckWindowsLater
<1>7. Later(S, CheckWindows(S))
  BY <1>1, CheckWindowsLater
<1>8. Later(S, CheckWindows(t))
  BY <1>4, <1>6, FlagsLater, LaterTrans
<1>9. Later(S, LaidOut)
  BY <1>1, <1>5, <1>7, <1>8
<1>10. LaidOut \in Layouts /\ LaidOut.dirty \in Rects /\ Covers(LaidOut.dirty, dirty)
  BY <1>1, <1>9, LayoutFacts DEF Later
<1>11. pending /\ Filled(stack) => Covers(LaidOut.dirty, Screen)
  BY <1>3, <1>4, <1>5, <1>6
<1>. QED  BY <1>9, <1>10, <1>11, OnlyScreenCovers

-----------------------------------------------------------------------------
(* The picture *)

\* Is w drawn at c?
Shows(w, c) == In(c, peer[w].at) /\ Appears(w, stack)

LEMMA PictureIs ==
    /\ Looks => now \in [Cells -> Pictures]
    /\ Looks' => now' \in [Cells -> Pictures]
<1>1. ASSUME NEW st, NEW lk \in [Widgets -> {0, 1}], NEW bg \in {0, 1}, NEW W \in SUBSET Widgets
      PROVE  {Background(st, bg)} \cup {<<w, lk[w]>> : w \in W} \in Pictures
  <2>1. Background(st, bg) \in {<<i>> : i \in 0 .. 4}
    BY DEF Background
  <2>2. \A w \in W : <<w, lk[w]>> \in Widgets \X {0, 1}
    OBVIOUS
  <2>. QED  BY <2>1, <2>2 DEF Pictures
<1>2. Looks => now \in [Cells -> Pictures]
  BY <1>1 DEF now, PictureOf, Looks
<1>3. Looks' => now' \in [Cells -> Pictures]
  BY <1>1 DEF now, PictureOf, Looks
<1>. QED  BY <1>2, <1>3

LEMMA NowIs ==
    ASSUME NEW c \in Cells
    PROVE  /\ now[c] = {Background(stack, background)}
                          \cup {<<w, look[w]>> : w \in {w \in Widgets : Shows(w, c)}}
           /\ now'[c] = {Background(stack, background)'}
                          \cup {<<w, look'[w]>> : w \in {w \in Widgets : Shows(w, c)'}}
BY DEF now, PictureOf, Shows

\* A cell shows what it did if the same widgets are drawn on it, and look the same.
LEMMA SameCell ==
    ASSUME NEW c \in Cells, Background(stack, background)' = Background(stack, background),
           \A w \in Widgets : (Shows(w, c)' <=> Shows(w, c)) /\ (Shows(w, c) => look'[w] = look[w])
    PROVE  now'[c] = now[c]
<1> DEFINE T == {w \in Widgets : Shows(w, c)}
           U == {w \in Widgets : Shows(w, c)'}
<1>1. /\ now[c] = {Background(stack, background)} \cup {<<w, look[w]>> : w \in T}
      /\ now'[c] = {Background(stack, background)'} \cup {<<w, look'[w]>> : w \in U}
  BY NowIs
<1>2. U = T /\ \A w \in T : look'[w] = look[w]
  OBVIOUS
<1> HIDE DEF T, U
<1>3. {<<w, look'[w]>> : w \in T} = {<<w, look[w]>> : w \in T}
  BY <1>2
<1>. QED  BY <1>1, <1>2, <1>3

\* Only global widgets change windows.
LEMMA SameWindow == ASSUME NEW w, w \notin Globals PROVE WindowOf(w)' = WindowOf(w)
BY DEF WindowOf, Line

\* The same windows show the same widgets, over the same background.
LEMMA SameWindows ==
    ASSUME Drawn(stack)' = Drawn(stack)
    PROVE  /\ \A w : Appears(w, stack)' <=> Appears(w, stack)
           /\ background' = background => Background(stack, background)' = Background(stack, background)
<1>1. ASSUME NEW w PROVE Appears(w, stack)' <=> Appears(w, stack)
  BY SameWindow DEF Appears
<1>2. background' = background => Background(stack, background)' = Background(stack, background)
  BY DEF Background, Snapped
<1>. QED  BY <1>1, <1>2

\* A widget that is drawn is visible.
LEMMA DrawnIsVisible == ASSUME WindowsInv, NEW w, NEW c, Shows(w, c) PROVE IsVisible(w)
BY DEF Shows, Appears, IsVisible, WindowsInv

\* A layout that begins at S changes nothing outside of its dirty region.
LEMMA LayoutMarks ==
    ASSUME ScreenInv, NEW t, Later(S, t), peer' = t.peer, UNCHANGED <<stack, look, background>>,
           NEW c \in Cells, ~In(c, t.dirty)
    PROVE  now'[c] = now[c] /\ ~In(c, dirty)
<1>1. WindowsInv /\ S.peer = peer /\ S.dirty = dirty
  BY DEF ScreenInv, S
<1>2. Drawn(stack)' = Drawn(stack)
  BY DEF Drawn
<1>3. ASSUME NEW w \in Widgets PROVE Shows(w, c)' <=> Shows(w, c)
  <2>1. MovedIn(S, t, w)
    BY DEF Later
  <2>2. Appears(w, stack)' <=> Appears(w, stack)
    BY <1>2, SameWindows
  <2>3. CASE t.peer[w].at = peer[w].at
    BY <2>2, <2>3 DEF Shows
  <2>4. CASE t.peer[w].at # peer[w].at
    <3>1. IsVisible(w) => ~In(c, peer[w].at) /\ ~In(c, t.peer[w].at)
      BY <1>1, <2>1, <2>4 DEF MovedIn, Covers
    <3>2. Appears(w, stack) => IsVisible(w)
      BY <1>1 DEF Appears, IsVisible, WindowsInv
    <3>. QED  BY <2>2, <3>1, <3>2 DEF Shows
  <2>. QED  BY <2>3, <2>4
<1>4. now'[c] = now[c]
  BY <1>2, <1>3, SameWindows, SameCell
<1>. QED  BY <1>1, <1>4 DEF Later, Covers

-----------------------------------------------------------------------------
(* What Repaint allows *)

LEMMA BuffersAre ==
    /\ Buffers!Cells = Cells /\ Buffers!Rects = Rects /\ Buffers!Screen = Screen
    /\ \A c, r : Buffers!In(c, r) <=> In(c, r)
    /\ \A a, b : Buffers!Union(a, b) = Union(a, b)
BY DEF Buffers!Cells, Buffers!Rects, Buffers!Screen, Buffers!In, Buffers!Union, Cells, Rects, Screen, In, Union

\* All that changes, and all that was marked, is in d.
Marked(d) == now' \in [Cells -> Pictures] /\ \A c \in Cells : ~In(c, d) => now'[c] = now[c] /\ ~In(c, dirty)

LEMMA DamagedIs == ASSUME NEW d, Marked(d) PROVE Buffers!Damaged(d)
BY BuffersAre DEF Buffers!Damaged, Marked, Pictures

LEMMA ChangeIs ==
    ASSUME NEW d \in Rects, Marked(d), dirty' = d, UNCHANGED <<front, back, last, torn, double>>
    PROVE  Buffers!Next
<1>1. Buffers!Damaged(d) /\ d \in Buffers!Rects
  BY DamagedIs, BuffersAre
<1>2. Buffers!Change
  BY <1>1 DEF Buffers!Change
<1>. QED  BY <1>2 DEF Buffers!Next

LEMMA TearIs ==
    ASSUME now' \in [Cells -> Pictures], dirty' \in Rects, front' \in [Cells -> Pictures],
           back' \in [Cells -> Pictures], torn' = TRUE, UNCHANGED <<last, double>>
    PROVE  Buffers!Next
<1>1. Buffers!Tear
  BY BuffersAre DEF Buffers!Tear, Pictures
<1>. QED  BY <1>1 DEF Buffers!Next

\* What the layout of a frame changes is in the dirty region.
LEMMA LaidOutMarks ==
    ASSUME ScreenInv, Looks', stack # <<>>, peer' = LaidOut.peer, UNCHANGED <<stack, look, background>>
    PROVE  Marked(LaidOut.dirty)
<1>1. Later(S, LaidOut)
  BY LaidOutLater
<1>2. now' \in [Cells -> Pictures]
  BY PictureIs
<1>3. \A c \in Cells : ~In(c, LaidOut.dirty) => now'[c] = now[c] /\ ~In(c, dirty)
  BY <1>1, LayoutMarks
<1>. QED  BY <1>2, <1>3 DEF Marked

\* A call from Lua that loses nothing of the dirty region
LEMMA CallKeeps ==
    ASSUME ScreenInv, NEW s, Later(S, s), Call(s), Looks'
    PROVE  /\ Peers(S)' /\ Frames' /\ Buffers!Next
           /\ (dirty = Screen => dirty' = Screen) /\ (~Unmarked => torn' = torn)
           /\ S' = s
<1>1. s \in Layouts /\ s.dirty \in Rects /\ Covers(s.dirty, dirty) /\ peer' = s.peer /\ dirty' = s.dirty
  BY LayoutFacts DEF Later, S, Call, Commit
<1>2. S' = s
  BY <1>1 DEF S, Layouts
<1>3. Peers(S)'
  <2>1. Peers(s)
    BY PeersLater DEF ScreenInv
  <2>. QED  BY <1>2, <2>1 DEF Peers
<1>4. UNCHANGED <<front, back, last, double>> /\ torn' = (torn \/ Unmarked)
  BY DEF Call
<1>5. Frames
  BY DEF ScreenInv
<1>6. ~Unmarked => torn' = torn
  BY <1>4, <1>5 DEF Frames
<1>7. torn' \in BOOLEAN
  BY <1>4, <1>5 DEF Frames, Unmarked
<1>8. Frames'
  BY <1>4, <1>5, <1>7 DEF Frames
<1>9. dirty = Screen => dirty' = Screen
  BY <1>1, OnlyScreenCovers
<1>10. now' \in [Cells -> Pictures] /\ dirty' \in Rects
  BY <1>1, PictureIs
<1>11. CASE Unmarked
  <2>1. torn' = TRUE
    BY <1>4, <1>11
  <2>. QED  BY <1>2, <1>3, <1>4, <1>5, <1>8, <1>9, <1>10, <1>11, <2>1, TearIs DEF Frames
<1>12. CASE ~Unmarked
  <2>1. \A c \in Cells : ~In(c, dirty') => now'[c] = now[c] /\ ~In(c, dirty)
    BY <1>1, <1>12 DEF Unmarked, Covers
  <2>2. Marked(dirty')
    BY <1>10, <2>1 DEF Marked
  <2>3. Buffers!Next
    BY <1>4, <1>6, <1>10, <1>12, <2>2, ChangeIs
  <2>. QED  BY <1>2, <1>3, <1>6, <1>8, <1>9, <2>3
<1>. QED  BY <1>11, <1>12

\* More is marked for redrawing.
LEMMA RedrawLater ==
    ASSUME ScreenInv, NEW r \in Rects
    PROVE  /\ Later(S, [S EXCEPT !.dirty = Redraw(dirty, r)])
           /\ Covers(Redraw(dirty, r), r) /\ Redraw(dirty, r) \in Rects
<1> DEFINE d == Redraw(dirty, r)
           t == [S EXCEPT !.dirty = d]
<1>1. S \in Layouts /\ dirty \in Rects
  BY LayoutFacts DEF ScreenInv, Peers, S
<1>2. d \in Rects /\ Covers(d, dirty) /\ Covers(d, r)
  BY <1>1, RedrawGrows
<1> HIDE DEF d
<1>3. t \in Layouts /\ t.peer = S.peer /\ t.dirty = d /\ S.dirty = dirty
  BY <1>1, <1>2 DEF Layouts, S
<1> HIDE DEF t
<1>4. Later(S, t)
  BY <1>2, <1>3 DEF Later, MovedIn
<1>. QED  BY <1>2, <1>4 DEF t, d

-----------------------------------------------------------------------------
(* Calls from Lua *)

LEMMA WindowsSame == ASSUME WindowsInv, UNCHANGED windowVars PROVE WindowsInv'
BY DEF WindowsInv, windowVars, Stack, Drawn

LEMMA WishesSame == ASSUME Wishes, want' = want PROVE Wishes'
BY DEF Wishes, Wanted

\* A call that changes nothing but the layout
LEMMA LayoutMarked ==
    ASSUME ScreenInv, NEW s, Later(S, s), Commit(s), UNCHANGED <<stack, look, background>>
    PROVE  ~Unmarked
BY LayoutMarks DEF Unmarked, Commit

\* A call that marks all it changes
LEMMA MarkedCall ==
    ASSUME ScreenInv, NEW s, Later(S, s), Call(s), Looks', Wishes', ~Unmarked,
           UNCHANGED <<windowVars, exposed>>, pending' \in BOOLEAN,
           pending /\ Filled(stack) => pending' \/ dirty' = Screen
    PROVE  ScreenInv' /\ Buffers!Next
<1>1. /\ Peers(S)' /\ Frames' /\ Buffers!Next /\ (dirty = Screen => dirty' = Screen) /\ torn' = torn
  BY CallKeeps
<1>2. WindowsInv'
  BY WindowsSame DEF ScreenInv
<1>3. Flagged'
  BY DEF ScreenInv, Flagged, windowVars
<1>4. Coming'
  BY <1>1 DEF ScreenInv, Coming, Filled, Drawn, windowVars
<1>. QED  BY <1>1, <1>2, <1>3, <1>4 DEF ScreenInv

LEMMA InvLayout == ASSUME ScreenInv PROVE S \in Layouts /\ S.peer = peer /\ S.dirty = dirty /\ Wanted /\ dirty \in Rects
BY LayoutFacts DEF ScreenInv, Peers, Wishes, S

LEMMA TouchStep == ASSUME ScreenInv, NEW w \in Widgets, Touch(w) PROVE ScreenInv' /\ Buffers!Next
<1> DEFINE s == RedrawWidget(S, w)
<1>1. Later(S, s) /\ s.peer = S.peer /\ (IsVisible(w) /\ S.peer[w].made => Covers(s.dirty, S.peer[w].at))
  BY InvLayout, RedrawWidgetIs
<1>2. look' = [look EXCEPT ![w] = 1 - @] /\ UNCHANGED <<windowVars, want, background, pending, update, exposed>> /\ Call(s)
  BY DEF Touch
<1> HIDE DEF s
<1>3. Looks' /\ \A v \in Widgets : v # w => look'[v] = look[v]
  BY <1>2 DEF ScreenInv, Looks
<1>4. Wishes' /\ pending \in BOOLEAN
  BY <1>2, WishesSame DEF ScreenInv, Flagged
<1>5. ASSUME NEW c \in Cells, ~In(c, dirty') PROVE now'[c] = now[c]
  <2>1. peer' = peer /\ dirty' = s.dirty /\ stack' = stack /\ background' = background
    BY <1>1, <1>2, InvLayout DEF Call, Commit, windowVars
  <2>2. /\ \A v \in Widgets : Shows(v, c)' <=> Shows(v, c)
        /\ Background(stack, background)' = Background(stack, background)
    <3>1. Drawn(stack)' = Drawn(stack)
      BY <2>1 DEF Drawn
    <3>. QED  BY <2>1, <3>1, SameWindows DEF Shows
  <2>3. ~Shows(w, c)
    <3>1. Shows(w, c) => IsVisible(w) /\ In(c, peer[w].at)
      BY DrawnIsVisible DEF ScreenInv, Shows
    <3>2. ~peer[w].made => peer[w].at = None
      BY InvLayout DEF ScreenInv, Peers
    <3>3. ~In(c, None)
      BY NoneIsRect
    <3>. QED  BY <1>1, <1>5, <2>1, <3>1, <3>2, <3>3, InvLayout DEF Covers
  <2>4. \A v \in Widgets : Shows(v, c) => look'[v] = look[v]
    BY <1>3, <2>3
  <2>. QED  BY <2>1, <2>2, <2>4, SameCell
<1>6. ~Unmarked
  BY <1>5 DEF Unmarked
<1>. QED  BY <1>1, <1>2, <1>3, <1>4, <1>6, MarkedCall

LEMMA ResizeStep ==
    ASSUME ScreenInv, NEW w \in Widgets, NEW r \in Place[w], Resize(w, r) PROVE ScreenInv' /\ Buffers!Next
<1> DEFINE s == ReLayout(S, w)
<1>1. Later(S, s)
  BY InvLayout, ReLayoutFlags, FlagsLater
<1>2. want' = [want EXCEPT ![w] = r] /\ UNCHANGED <<windowVars, look, background, pending, update, exposed>> /\ Call(s)
  BY DEF Resize
<1> HIDE DEF s
<1>3. Looks' /\ pending \in BOOLEAN
  BY <1>2 DEF ScreenInv, Looks, Flagged
<1>4. Wishes'
  <2>1. want \in [Widgets -> Rects] /\ r \in Rects /\ \A v \in Widgets : want[v] \in Place[v]
    BY PlaceAssumption DEF ScreenInv, Wishes, Wanted
  <2>. QED  BY <1>2, <2>1 DEF Wishes, Wanted
<1>5. ~Unmarked
  BY <1>1, <1>2, LayoutMarked DEF Call, windowVars
<1>. QED  BY <1>1, <1>2, <1>3, <1>4, <1>5, MarkedCall

LEMMA MoveStep ==
    ASSUME ScreenInv, NEW w \in Widgets, NEW r \in Place[w], Move(w, r) PROVE ScreenInv' /\ Buffers!Next
<1> DEFINE s == SetBounds(S, w, r)
<1>1. Later(S, s)
  <2>1. r \in Rects
    BY PlaceAssumption
  <2>. QED  BY <2>1, InvLayout, SetBoundsLater
<1>2. UNCHANGED <<windowVars, want, look, background, pending, update, exposed>> /\ Call(s)
  BY DEF Move
<1> HIDE DEF s
<1>3. Looks' /\ pending \in BOOLEAN /\ Wishes'
  BY <1>2, WishesSame DEF ScreenInv, Looks, Flagged
<1>4. ~Unmarked
  BY <1>1, <1>2, LayoutMarked DEF Call, windowVars
<1>. QED  BY <1>1, <1>2, <1>3, <1>4, MarkedCall

LEMMA StyleChangedStep == ASSUME ScreenInv, StyleChanged PROVE ScreenInv' /\ Buffers!Next
<1> DEFINE s == [S EXCEPT !.dirty = Redraw(dirty, Screen)]
<1>1. Later(S, s)
  BY ScreenIsRect, RedrawLater
<1>2. pending' = TRUE /\ UNCHANGED <<windowVars, want, look, background, update, exposed>> /\ Call(s)
  BY DEF StyleChanged
<1> HIDE DEF s
<1>3. Looks' /\ Wishes'
  BY <1>2, WishesSame DEF ScreenInv, Looks
<1>4. ~Unmarked
  BY <1>1, <1>2, LayoutMarked DEF Call, windowVars
<1>. QED  BY <1>1, <1>2, <1>3, <1>4, MarkedCall

LEMMA SuspendStep == ASSUME ScreenInv, SuspendUpdates PROVE ScreenInv' /\ Buffers!Next
<1>1. Later(S, S)
  BY InvLayout, LaterSame
<1>2. UNCHANGED <<windowVars, want, look, background, pending, exposed>> /\ Call(S)
  BY DEF SuspendUpdates
<1>3. Looks' /\ Wishes' /\ pending \in BOOLEAN
  BY <1>2, WishesSame DEF ScreenInv, Looks, Flagged
<1>4. ~Unmarked
  BY <1>1, <1>2, LayoutMarked DEF Call, windowVars
<1>. QED  BY <1>1, <1>2, <1>3, <1>4, MarkedCall

LEMMA SnapshotStep == ASSUME ScreenInv, Snapshot PROVE ScreenInv' /\ Buffers!Next
<1> DEFINE s == LaidOut
<1>1. stack # <<>> /\ pending' = FALSE /\ UNCHANGED <<windowVars, want, look, background, update, exposed>> /\ Call(s)
  BY DEF Snapshot
<1>2. Later(S, s) /\ (pending /\ Filled(stack) => s.dirty = Screen)
  BY <1>1, LaidOutLater
<1> HIDE DEF s
<1>3. Looks' /\ Wishes'
  BY <1>1, WishesSame DEF ScreenInv, Looks
<1>4. ~Unmarked
  BY <1>1, <1>2, LayoutMarked DEF Call, windowVars
<1>5. pending /\ Filled(stack) => dirty' = Screen
  BY <1>1, <1>2 DEF Call, Commit
<1>. QED  BY <1>1, <1>2, <1>3, <1>4, <1>5, MarkedCall

\* Calls after which a layout of everything, or a frame of a transition, is to come
LEMMA ComingCall ==
    ASSUME ScreenInv, NEW s, Later(S, s), Call(s), Looks', Wishes', WindowsInv', Flagged',
           transition' \/ dirty' = Screen \/ exposed' \/ (pending' /\ Filled(stack)')
    PROVE  ScreenInv' /\ Buffers!Next
<1>1. Peers(S)' /\ Frames' /\ Buffers!Next
  BY CallKeeps
<1>2. Coming'
  BY DEF Coming
<1>. QED  BY <1>1, <1>2 DEF ScreenInv

LEMMA SetBackgroundStep == ASSUME ScreenInv, SetBackground PROVE ScreenInv' /\ Buffers!Next
<1>1. Later(S, S)
  BY InvLayout, LaterSame
<1>2. /\ background' = 1 - background /\ pending' = TRUE
      /\ exposed' = (exposed \/ (Exposed /\ ~Snapped(stack)))
      /\ UNCHANGED <<windowVars, want, look, update>> /\ Call(S)
  BY DEF SetBackground
<1>3. Looks' /\ Wishes'
  BY <1>2, WishesSame DEF ScreenInv, Looks
<1>4. exposed \in BOOLEAN /\ transition \in BOOLEAN /\ pending \in BOOLEAN
  BY DEF ScreenInv, Flagged
<1>5. WindowsInv' /\ Flagged'
  BY <1>2, <1>4, WindowsSame DEF ScreenInv, Flagged, Exposed, windowVars
<1>6. Drawn(stack)' = Drawn(stack) /\ (dirty = Screen => dirty' = Screen)
  BY <1>1, <1>2, <1>3, CallKeeps DEF windowVars, Drawn
<1>7. CASE Filled(stack) \/ transition \/ dirty = Screen \/ ~Snapped(stack)
  <2>1. transition' \/ dirty' = Screen \/ exposed' \/ (pending' /\ Filled(stack)')
    BY <1>2, <1>6, <1>7 DEF Filled, Exposed, windowVars
  <2>. QED  BY <1>1, <1>2, <1>3, <1>5, <2>1, ComingCall
<1>8. CASE ~Filled(stack) /\ Snapped(stack)
  <2>1. peer' = peer /\ look' = look
    BY <1>2, InvLayout DEF Call, Commit
  <2>2. Background(stack, background)' = Background(stack, background)
    BY <1>6, <1>8 DEF Background, Snapped
  <2>3. ASSUME NEW c \in Cells PROVE now'[c] = now[c]
    <3>1. \A w \in Widgets : Shows(w, c)' <=> Shows(w, c)
      BY <1>6, <2>1, SameWindows DEF Shows
    <3>. QED  BY <2>1, <2>2, <3>1, SameCell
  <2>4. ~Unmarked /\ exposed' = exposed
    BY <1>2, <1>4, <1>8, <2>3 DEF Unmarked
  <2>. QED  BY <1>1, <1>2, <1>3, <2>4, MarkedCall
<1>. QED  BY <1>7, <1>8

LEMMA BumpStep == ASSUME ScreenInv, Bump PROVE ScreenInv' /\ Buffers!Next
<1>1. Later(S, S)
  BY InvLayout, LaterSame
<1>2. /\ transition' = TRUE
      /\ UNCHANGED <<stack, visible, owner, want, look, background, pending, update, exposed>> /\ Call(S)
  BY DEF Bump
<1>3. Looks' /\ Wishes'
  BY <1>2, WishesSame DEF ScreenInv, Looks
<1>4. WindowsInv' /\ Flagged'
  BY <1>2 DEF ScreenInv, Flagged, WindowsInv, Stack, Drawn
<1>. QED  BY <1>1, <1>2, <1>3, <1>4, ComingCall

LEMMA SetVideoModeStep == ASSUME ScreenInv, SetVideoMode PROVE ScreenInv' /\ Buffers!Next
<1>1. /\ pending' = TRUE /\ front' = [c \in Cells |-> {}] /\ back' = front' /\ torn' = TRUE
      /\ exposed' = (exposed \/ Exposed)
      /\ UNCHANGED <<windowVars, peer, want, look, background, update, dirty, last, double>>
  BY DEF SetVideoMode
<1>2. front' \in [Cells -> Pictures] /\ back' \in [Cells -> Pictures]
  <2>1. {} \in Pictures
    BY DEF Pictures
  <2>. QED  BY <1>1, <2>1
<1>3. Looks' /\ Wishes' /\ WindowsInv' /\ Flagged' /\ Frames'
  BY <1>1, <1>2, WishesSame, WindowsSame DEF ScreenInv, Looks, Flagged, Frames, Exposed, windowVars
<1>4. Peers(S)'
  BY <1>1 DEF ScreenInv, Peers, S
<1>5. Coming'
  <2>1. Filled(stack)' <=> Filled(stack)
    BY <1>1 DEF Filled, Drawn, windowVars
  <2>. QED  BY <1>1, <2>1 DEF Coming, Exposed, windowVars
<1>6. now' \in [Cells -> Pictures] /\ dirty' \in Rects
  BY <1>1, <1>3, PictureIs, InvLayout
<1>7. Buffers!Next
  BY <1>1, <1>2, <1>6, TearIs
<1>. QED  BY <1>3, <1>4, <1>5, <1>7 DEF ScreenInv

\* Dismissing context menus leaves a stack with the same window at the bottom.
LEMMA DismissedIs ==
    ASSUME ScreenInv, NEW w \in Windows, NEW below, below = Each(Delete, stack, SetToSeq(Dismissed(w)))
    PROVE  /\ Stack(below) /\ (below = <<>> <=> stack = <<>>)
           /\ stack # <<>> => below[Len(below)] = stack[Len(stack)]
<1> DEFINE q == SetToSeq(Dismissed(w))
           L == Len(q)
           V == {t \in Seq(Windows) :
                    /\ Stack(t) /\ (t = <<>> <=> stack = <<>>)
                    /\ stack # <<>> => t[Len(t)] = stack[Len(stack)]}
           Op(t, n) == Delete(t, q[n])
           G == [x \in (1 .. L) \X V |-> Op(x[2], x[1])]
           f == CHOOSE f : f = [n \in 0 .. L |-> IF n = 0 THEN stack ELSE Op(f[n - 1], n)]
<1>1. Stack(stack) /\ stack \in V
  BY DEF ScreenInv, WindowsInv, Stack
<1>2. Dismissed(w) \subseteq ContextMenus /\ Dismissed(w) \subseteq Windows
  BY <1>1 DEF Dismissed, Stack
<1>3. IsFiniteSet(Dismissed(w))
  BY <1>2, TreeAssumption, FS_Subset DEF Widgets
<1>4. L \in Nat /\ \A n \in 1 .. L : q[n] \in Dismissed(w)
  BY <1>3, SeqOfSet
<1>5. ASSUME NEW n \in 1 .. L, NEW t \in V PROVE Op(t, n) \in V
  <2>1. q[n] \in Windows /\ q[n] \in ContextMenus
    BY <1>2, <1>4
  <2>2. t # <<>> => t[Len(t)] # q[n]
    BY <2>1 DEF Stack
  <2> HIDE DEF q
  <2>3. Without(t, q[n], Delete(t, q[n]))
    BY <2>1, <2>2, DeleteIs
  <2>. QED  BY <2>3 DEF Without, Stack
<1>6. below = f[L]
  BY DEF Each
<1> HIDE DEF q, L, V, Op
<1>7. G \in [(1 .. L) \X V -> V] /\ \A n \in 1 .. L : \A t \in V : G[<<n, t>>] = Op(t, n)
  BY <1>5
<1> HIDE DEF G
<1>8. PICK g : Steps(V, stack, G, L, g)
  BY <1>1, <1>4, <1>7, StepsExist
<1>9. /\ g = [n \in 0 .. L |-> IF n = 0 THEN stack ELSE G[<<n, g[n - 1]>>]]
      /\ \A n \in 1 .. L : g[n - 1] \in V
  BY <1>1, <1>4, <1>8, StepsSolve
<1>10. \A n \in 0 .. L : n # 0 => n \in 1 .. L
  BY <1>4
<1>11. g = [n \in 0 .. L |-> IF n = 0 THEN stack ELSE Op(g[n - 1], n)]
  BY <1>7, <1>9, <1>10
<1>12. f = [n \in 0 .. L |-> IF n = 0 THEN stack ELSE Op(f[n - 1], n)]
  BY <1>11
<1> HIDE DEF f
<1>13. f[0] = stack /\ \A n \in 1 .. L : f[n] = Op(f[n - 1], n)
  <2>1. 0 \in 0 .. L /\ \A n \in 1 .. L : n \in 0 .. L /\ n # 0
    BY <1>4
  <2>. QED  BY <1>12, <2>1
<1>14. Goes(V, stack, G, L, f)
  BY <1>7, <1>13 DEF Goes
<1>15. f[L] \in V
  <2>1. L \in 0 .. L
    BY <1>4
  <2>. QED  BY <1>1, <1>4, <1>7, <1>14, <2>1, StaysIn
<1>. QED  BY <1>6, <1>15 DEF V

LEMMA ShowStep ==
    ASSUME ScreenInv, NEW w \in Windows, NEW animated \in BOOLEAN, Show(w, animated)
    PROVE  ScreenInv' /\ Buffers!Next
<1> DEFINE below == Each(Delete, stack, SetToSeq(Dismissed(w)))
           rest == Delete(below, w)
           s == [S EXCEPT !.dirty = Redraw(dirty, Screen)]
<1>1. /\ stack = <<>> => w \notin Transparent \cup ContextMenus
      /\ stack # <<>> => Last(stack) # w
      /\ stack' = <<w>> \o rest
      /\ visible' = (((visible \ Dismissed(w)) \cup Drawn(below)) \ Covered(w, rest)) \cup {w}
      /\ owner' = w
      /\ transition' = (animated /\ rest # <<>>)
      /\ UNCHANGED <<want, look, background, pending, update, exposed>>
      /\ Call(s)
  BY DEF Show
<1>2. Stack(below) /\ (below = <<>> <=> stack = <<>>) /\ Without(below, w, rest)
  <2> DEFINE b == below
  <2>1. /\ Stack(b) /\ (b = <<>> <=> stack = <<>>)
        /\ stack # <<>> => b[Len(b)] = stack[Len(stack)]
    BY DismissedIs
  <2> HIDE DEF b
  <2>2. Without(b, w, Delete(b, w))
    BY <1>1, <2>1, DeleteIs DEF Last
  <2>. QED  BY <2>1, <2>2 DEF b
<1>3. Later(S, s) /\ Covers(Redraw(dirty, Screen), Screen) /\ Redraw(dirty, Screen) \in Rects
  BY ScreenIsRect, RedrawLater
<1>4. s.dirty = Screen
  <2>1. s.dirty = Redraw(dirty, Screen)
    BY InvLayout DEF Layouts
  <2>. QED  BY <1>3, <2>1, OnlyScreenCovers
<1> HIDE DEF s, rest, below
<1>5. Looks' /\ Wishes' /\ Flagged' /\ dirty' = Screen
  BY <1>1, <1>4, WishesSame DEF ScreenInv, Looks, Flagged, Call, Commit
<1>6. Stack(<<w>> \o rest) /\ Drawn(<<w>> \o rest) \subseteq {w} \cup (IF w \in Transparent THEN Drawn(rest) ELSE {})
  BY <1>1, <1>2, OnTop DEF Without
<1>7. Drawn(<<w>> \o rest) \subseteq visible' /\ visible' \in SUBSET Windows
  <2>1. visible \in SUBSET Windows /\ Drawn(below) \subseteq Windows
    BY <1>2 DEF ScreenInv, WindowsInv, Drawn, Stack
  <2>2. w \in Transparent => Drawn(rest) \subseteq Drawn(below) /\ Covered(w, rest) = {}
    BY <1>2 DEF Without, Covered
  <2>. QED  BY <1>1, <1>6, <2>1, <2>2
<1>8. WindowsInv'
  <2>1. Stack(stack') /\ Drawn(stack') \subseteq visible'
    BY <1>1, <1>6, <1>7
  <2>. QED  BY <1>1, <1>7, <2>1 DEF WindowsInv, Stack, Drawn
<1>. QED  BY <1>1, <1>3, <1>5, <1>8, ComingCall

\* The window that is hidden is not the one at the bottom.
LEMMA HidesNotLast ==
    ASSUME ScreenInv, NEW w \in {stack[i] : i \in 1 .. Len(stack) - 1}
    PROVE  w \in Windows /\ stack # <<>> /\ stack[Len(stack)] # w
<1>1. Len(stack) \in Nat /\ (\A i \in 1 .. Len(stack) : stack[i] \in Windows)
      /\ \A i, j \in 1 .. Len(stack) : stack[i] = stack[j] => i = j
  BY DEF ScreenInv, WindowsInv, Stack
<1>2. PICK i \in 1 .. Len(stack) - 1 : w = stack[i]
  OBVIOUS
<1>3. i \in 1 .. Len(stack) /\ Len(stack) \in 1 .. Len(stack) /\ i # Len(stack)
  BY <1>1
<1>. QED  BY <1>1, <1>2, <1>3

\* A visible window is hidden.
LEMMA HideVisible ==
    ASSUME ScreenInv, NEW w \in visible, NEW animated \in BOOLEAN, Hide(w, animated)
    PROVE  ScreenInv' /\ Buffers!Next
<1> DEFINE rest == Delete(stack, w)
           top == Head(rest)
           s == [S EXCEPT !.dirty = IF peer[top].made THEN Redraw(@, peer[top].at) ELSE @]
<1>1. /\ stack # <<>> /\ w \in {stack[i] : i \in 1 .. Len(stack) - 1}
      /\ stack' = rest
      /\ UNCHANGED <<want, look, background, pending, update>>
      /\ visible' = (visible \cup Drawn(rest)) \ {w}
      /\ owner' = rest[Cover(rest)]
      /\ transition' = animated
      /\ Call(s)
      /\ exposed' = (exposed \/ (~animated /\ (transition \/ dirty' # Screen)))
  BY DEF Hide
<1>2. Without(stack, w, rest)
  BY <1>1, HidesNotLast, DeleteIs DEF ScreenInv, WindowsInv
<1>3. rest # <<>> /\ Stack(rest) /\ \A j \in 1 .. Len(rest) : rest[j] # w
  BY <1>1, <1>2 DEF Without
<1> HIDE DEF rest
<1>4. Later(S, s)
  <2>1. top \in Windows /\ top \in Widgets
    BY <1>3 DEF Stack, Widgets
  <2>2. peer[top].at \in Rects
    BY <2>1, InvLayout, LayoutFacts DEF Peer
  <2>3. S.dirty = dirty
    BY InvLayout
  <2>4. CASE peer[top].made
    <3>1. s = [S EXCEPT !.dirty = Redraw(dirty, peer[top].at)]
      BY <2>3, <2>4
    <3>. QED  BY <2>2, <3>1, RedrawLater
  <2>5. CASE ~peer[top].made
    <3>1. s = S
      BY <2>5, InvLayout DEF Layouts
    <3>. QED  BY <3>1, InvLayout, LaterSame
  <2>. QED  BY <2>4, <2>5
<1> HIDE DEF s
<1>5. Looks' /\ Wishes' /\ Flagged'
  BY <1>1, WishesSame DEF ScreenInv, Looks, Flagged
<1>6. WindowsInv'
  <2>1. rest[Cover(rest)] \in Windows
    BY <1>3, CoverIs
  <2>2. \A v \in Drawn(rest) : v \in Windows /\ v # w
    BY <1>3, DrawnIs DEF Stack
  <2>3. Stack(stack') /\ Drawn(stack') \subseteq visible' /\ visible' \in SUBSET Windows
    BY <1>1, <1>3, <2>2 DEF ScreenInv, WindowsInv
  <2>. QED  BY <1>1, <2>1, <2>3 DEF WindowsInv, Stack, Drawn
<1>7. transition' \/ dirty' = Screen \/ exposed'
  BY <1>1
<1>. QED  BY <1>1, <1>4, <1>5, <1>6, <1>7, ComingCall

\* A window that was not visible leaves nothing behind.
LEMMA HideHidden ==
    ASSUME ScreenInv, NEW w, w \notin visible, NEW animated, Hide(w, animated)
    PROVE  ScreenInv' /\ Buffers!Next
<1> DEFINE rest == Delete(stack, w)
<1>1. /\ stack # <<>> /\ w \in {stack[i] : i \in 1 .. Len(stack) - 1}
      /\ stack' = rest
      /\ UNCHANGED <<visible, owner, transition, want, look, background, pending, update, exposed>>
      /\ Call(S)
  BY DEF Hide
<1>2. Without(stack, w, rest)
  BY <1>1, HidesNotLast, DeleteIs DEF ScreenInv, WindowsInv
<1>3. rest # <<>> /\ Stack(rest)
  BY <1>1, <1>2 DEF Without
<1>4. Drawn(rest) = Drawn(stack)
  <2>1. w \notin Drawn(stack)
    BY DEF ScreenInv, WindowsInv
  <2>. QED  BY <1>2, <2>1 DEF Without
<1> HIDE DEF rest
<1>5. Looks' /\ Wishes' /\ Flagged' /\ Later(S, S)
  BY <1>1, WishesSame, InvLayout, LaterSame DEF ScreenInv, Looks, Flagged
<1>6. Drawn(stack)' = Drawn(stack)
  BY <1>1, <1>4 DEF Drawn
<1>7. WindowsInv'
  <2>1. Stack(stack)'
    BY <1>1, <1>3 DEF Stack
  <2>. QED  BY <1>1, <1>6, <2>1 DEF ScreenInv, WindowsInv
<1>8. ASSUME NEW c \in Cells PROVE now'[c] = now[c]
  <2>1. peer' = peer
    BY <1>1, InvLayout DEF Call, Commit
  <2>2. \A v \in Widgets : Shows(v, c)' <=> Shows(v, c)
    BY <1>6, <2>1, SameWindows DEF Shows
  <2>. QED  BY <1>1, <1>6, <2>2, SameWindows, SameCell
<1>9. ~Unmarked
  BY <1>8 DEF Unmarked
<1>10. Peers(S)' /\ Frames' /\ Buffers!Next /\ (dirty = Screen => dirty' = Screen) /\ torn' = torn
  BY <1>1, <1>5, <1>9, CallKeeps
<1>11. Coming'
  <2>1. Filled(stack)' <=> Filled(stack)
    BY <1>6 DEF Filled
  <2>. QED  BY <1>1, <1>10, <2>1 DEF ScreenInv, Coming
<1>. QED  BY <1>5, <1>7, <1>10, <1>11 DEF ScreenInv

-----------------------------------------------------------------------------
(* Frames *)

LEMMA FlipType ==
    ASSUME Frames, NEW drawn \in [Cells -> Pictures], Buffers!Flip(drawn)
    PROVE  front' \in [Cells -> Pictures] /\ back' \in [Cells -> Pictures]
BY DEF Frames, Buffers!Flip

\* Other marks leave the peers where they are.
LEMMA PeersDirty ==
    ASSUME NEW s, Peers(s), peer' = s.peer, dirty' \in Rects
    PROVE  Peers(S)'
<1>1. S' = [peer |-> s.peer, dirty |-> dirty'] /\ S' \in Layouts
  BY DEF S, Peers, Layouts
<1>2. S'.peer = s.peer
  BY <1>1
<1>. QED  BY <1>1, <1>2 DEF Peers

\* What a frame finds: the widgets laid out, and all that has changed marked.
Frame(s) ==
    /\ Peers(s) /\ s.dirty \in Rects /\ Marked(s.dirty)
    /\ (pending /\ Filled(stack)) \/ dirty = Screen => s.dirty = Screen

LEMMA FrameIs ==
    ASSUME ScreenInv, stack # <<>>, Looks', peer' = LaidOut.peer, UNCHANGED <<stack, look, background>>
    PROVE  Frame(LaidOut)
<1>1. Later(S, LaidOut) /\ LaidOut \in Layouts /\ ((pending /\ Filled(stack)) \/ dirty = Screen => LaidOut.dirty = Screen)
  BY LaidOutLater
<1>2. Peers(LaidOut)
  BY <1>1, PeersLater DEF ScreenInv
<1>3. LaidOut.dirty \in Rects
  BY <1>1, LayoutFacts
<1>. QED  BY <1>1, <1>2, <1>3, LaidOutMarks DEF Frame

LEMMA DrawDirtyStep ==
    ASSUME ScreenInv, Looks', NEW s, Frame(s), s.dirty.w # 0, DrawDirty(s), double' = double
    PROVE  /\ Buffers!Next /\ Frames' /\ Peers(S)'
           /\ torn' = (torn /\ s.dirty # Screen)
<1> DEFINE drawn == [c \in Cells |-> IF In(c, Union(s.dirty, last)) THEN now'[c] ELSE back[c]]
           d == s.dirty
<1>1. /\ Commit([s EXCEPT !.dirty.w = 0]) /\ Buffers!Flip(drawn) /\ last' = d
      /\ torn' = (torn /\ d # Screen)
  BY DEF DrawDirty
<1>2. s \in Layouts /\ d \in Rects /\ Marked(d) /\ now' \in [Cells -> Pictures] /\ Frames
  BY DEF Frame, Peers, Marked, ScreenInv
<1>3. peer' = s.peer /\ dirty' = [d EXCEPT !.w = 0]
  BY <1>1, <1>2 DEF Commit, Layouts
<1>4. dirty' \in Rects
  BY <1>2, <1>3, WidthAssumption DEF Rects
<1>5. drawn \in [Cells -> Pictures]
  BY <1>2 DEF Frames
<1>6. Frames'
  <2>1. front' \in [Cells -> Pictures] /\ back' \in [Cells -> Pictures]
    BY <1>1, <1>2, <1>5, FlipType
  <2>. QED  BY <1>1, <1>2, <2>1 DEF Frames
<1>7. Peers(S)'
  BY <1>3, <1>4, PeersDirty DEF Frame
<1>8. Buffers!Draw
  <2>1. Buffers!Damaged(d) /\ d \in Buffers!Rects /\ Buffers!Screen = Screen
    BY <1>2, DamagedIs, BuffersAre
  <2>2. drawn = [c \in Buffers!Cells |-> IF Buffers!In(c, Buffers!Union(d, last)) THEN now'[c] ELSE back[c]]
    BY BuffersAre
  <2> HIDE DEF drawn, d
  <2>3. torn' = (torn /\ last' # Buffers!Screen)
    BY <1>1, <2>1
  <2>4. d.w # 0
    BY DEF d
  <2>. QED  BY <1>1, <1>3, <2>1, <2>2, <2>3, <2>4 DEF Buffers!Draw
<1>. QED  BY <1>1, <1>6, <1>7, <1>8 DEF Buffers!Next

LEMMA DrawNothingStep ==
    ASSUME ScreenInv, Looks', NEW s, Frame(s), DrawNothing(s), double' = double
    PROVE  Buffers!Next /\ Frames' /\ Peers(S)' /\ torn' = torn
<1>1. peer' = s.peer /\ dirty' = s.dirty /\ UNCHANGED <<front, back, last, torn>>
  BY DEF DrawNothing, Commit
<1>2. Frames'
  BY <1>1 DEF ScreenInv, Frames
<1>3. Peers(S)'
  BY <1>1, PeersDirty DEF Frame
<1>4. Buffers!Next
  BY <1>1, ChangeIs DEF Frame
<1>. QED  BY <1>1, <1>2, <1>3, <1>4

LEMMA DrawTransitionStep ==
    ASSUME ScreenInv, Looks', NEW s, Frame(s), DrawTransition(s), double' = double
    PROVE  /\ Buffers!Next /\ Frames' /\ Peers(S)'
           /\ transition' \in BOOLEAN /\ (transition' \/ dirty' = Screen)
<1> DEFINE d == IF transition' THEN s.dirty ELSE Screen
           drawn == [c \in Cells |-> Animated]
<1>1. /\ transition' \in BOOLEAN
      /\ Commit(IF transition' THEN s ELSE [s EXCEPT !.dirty = Screen])
      /\ Buffers!Flip(drawn) /\ torn' = TRUE /\ last' = last
  BY DEF DrawTransition
<1>2. s \in Layouts /\ s.dirty \in Rects /\ Marked(s.dirty) /\ Frames
  BY DEF Frame, Peers, ScreenInv
<1>3. peer' = s.peer /\ dirty' = d /\ d \in Rects
  BY <1>1, <1>2, ScreenIsRect DEF Commit, Layouts
<1>4. Marked(d)
  <2>1. Marked(Screen)
    BY <1>2, ScreenIsRect DEF Marked
  <2>. QED  BY <1>2, <2>1
<1>5. drawn \in [Cells -> Pictures]
  <2>1. Animated \in Pictures
    <3>1. <<2>> \in {<<i>> : i \in 0 .. 4}
      OBVIOUS
    <3>. QED  BY <3>1 DEF Pictures, Animated
  <2>. QED  BY <2>1
<1>6. front' \in [Cells -> Pictures] /\ back' \in [Cells -> Pictures] /\ front' = drawn
  BY <1>1, <1>2, <1>5, FlipType DEF Buffers!Flip
<1>7. Frames'
  BY <1>1, <1>2, <1>6 DEF Frames
<1>8. Peers(S)'
  BY <1>3, PeersDirty DEF Frame
<1>9. Buffers!Transition
  <2>1. Buffers!Damaged(d) /\ d \in Buffers!Rects
    BY <1>3, <1>4, DamagedIs, BuffersAre
  <2>2. front' \in [Buffers!Cells -> SUBSET ((Widgets \X {0, 1}) \cup {<<i>> : i \in 0 .. 4})]
    BY <1>6, BuffersAre DEF Pictures
  <2>3. Buffers!Flip(front')
    BY <1>1, <1>6
  <2> HIDE DEF drawn, d
  <2>. QED  BY <1>1, <1>3, <2>1, <2>2, <2>3 DEF Buffers!Transition
<1>. QED  BY <1>1, <1>3, <1>7, <1>8, <1>9 DEF Buffers!Next

LEMMA UpdateScreenStep == ASSUME ScreenInv, UpdateScreen PROVE ScreenInv' /\ Buffers!Next
<1> DEFINE s == LaidOut
<1>1. /\ stack # <<>> /\ pending' = FALSE /\ exposed' = (exposed /\ torn')
      /\ UNCHANGED <<stack, visible, owner, want, look, background, update, double, changes>>
      /\ \/ transition /\ DrawTransition(s)
         \/ ~transition /\ DrawMarked(s) /\ UNCHANGED transition
  BY DEF UpdateScreen
<1>2. Looks' /\ Wishes' /\ WindowsInv' /\ pending' \in BOOLEAN /\ exposed' \in BOOLEAN
  BY <1>1, WishesSame DEF ScreenInv, Looks, Flagged, WindowsInv, Stack, Drawn
<1>3. Frame(s)
  <2>1. peer' = s.peer
    <3>1. \A t \in Layouts : [t EXCEPT !.dirty = Screen].peer = t.peer /\ [t EXCEPT !.dirty.w = 0].peer = t.peer
      BY DEF Layouts
    <3>2. s \in Layouts
      BY <1>1, LaidOutLater
    <3> HIDE DEF s
    <3>. QED  BY <1>1, <3>1, <3>2 DEF DrawTransition, DrawMarked, DrawDirty, DrawNothing, Commit
  <2>. QED  BY <1>1, <1>2, <2>1, FrameIs
<1> HIDE DEF s
<1>4. torn \in BOOLEAN /\ transition \in BOOLEAN /\ exposed \in BOOLEAN
  BY DEF ScreenInv, Frames, Flagged
<1>5. CASE transition /\ DrawTransition(s)
  <2>1. Buffers!Next /\ Frames' /\ Peers(S)' /\ transition' \in BOOLEAN /\ (transition' \/ dirty' = Screen)
    BY <1>1, <1>2, <1>3, <1>5, DrawTransitionStep
  <2>2. Coming' /\ Flagged'
    BY <1>2, <2>1 DEF Coming, Flagged
  <2>. QED  BY <1>2, <2>1, <2>2 DEF ScreenInv
<1>6. CASE ~transition /\ s.dirty.w # 0 /\ DrawDirty(s) /\ UNCHANGED transition
  <2>1. Buffers!Next /\ Frames' /\ Peers(S)' /\ torn' = (torn /\ s.dirty # Screen)
    BY <1>1, <1>2, <1>3, <1>6, DrawDirtyStep
  <2>2. torn /\ ~exposed => s.dirty = Screen
    BY <1>1, <1>3, <1>6 DEF ScreenInv, Coming, Frame
  <2>3. Coming' /\ Flagged'
    BY <1>1, <1>2, <1>4, <1>6, <2>1, <2>2 DEF Coming, Flagged
  <2>. QED  BY <1>2, <2>1, <2>3 DEF ScreenInv
<1>7. CASE ~transition /\ s.dirty.w = 0 /\ DrawNothing(s) /\ UNCHANGED transition
  <2>1. Buffers!Next /\ Frames' /\ Peers(S)' /\ torn' = torn
    BY <1>1, <1>2, <1>3, <1>7, DrawNothingStep
  <2>2. torn /\ ~exposed => s.dirty = Screen
    BY <1>1, <1>3, <1>7 DEF ScreenInv, Coming, Frame
  <2>3. s.dirty # Screen
    BY <1>7, ScreenIsRect
  <2>4. Coming' /\ Flagged'
    BY <1>1, <1>2, <1>4, <1>7, <2>1, <2>2, <2>3 DEF Coming, Flagged
  <2>. QED  BY <1>2, <2>1, <2>4 DEF ScreenInv
<1>. QED  BY <1>1, <1>5, <1>6, <1>7 DEF DrawMarked

LEMMA ResumeStep == ASSUME ScreenInv, ResumeUpdates PROVE ScreenInv' /\ Buffers!Next
<1> DEFINE s == LaidOut
<1>1. /\ stack # <<>> /\ pending' = FALSE /\ transition' = FALSE
      /\ exposed' = (torn' /\ (exposed \/ transition))
      /\ UNCHANGED <<stack, visible, owner, want, look, background, double, changes>>
      /\ IF s.dirty.w # 0 THEN DrawDirty(s) ELSE DrawNothing(s)
  BY DEF ResumeUpdates, DrawMarked
<1>2. Looks' /\ Wishes' /\ WindowsInv' /\ Flagged'
  <2>1. torn' \in BOOLEAN
    BY <1>1 DEF ScreenInv, Frames, DrawDirty, DrawNothing
  <2>. QED  BY <1>1, <2>1, WishesSame DEF ScreenInv, Looks, Flagged, WindowsInv, Stack, Drawn
<1>3. Frame(s)
  <2>1. peer' = s.peer
    <3>1. \A t \in Layouts : [t EXCEPT !.dirty.w = 0].peer = t.peer
      BY DEF Layouts
    <3>2. s \in Layouts
      BY <1>1, LaidOutLater
    <3> HIDE DEF s
    <3>. QED  BY <1>1, <3>1, <3>2 DEF DrawMarked, DrawDirty, DrawNothing, Commit
  <2>. QED  BY <1>1, <1>2, <2>1, FrameIs
<1> HIDE DEF s
<1>4. torn \in BOOLEAN /\ transition \in BOOLEAN /\ exposed \in BOOLEAN
  BY DEF ScreenInv, Frames, Flagged
<1>5. torn /\ ~exposed /\ ~transition => s.dirty = Screen
  BY <1>1, <1>3 DEF ScreenInv, Coming, Frame
<1>6. CASE s.dirty.w # 0
  <2>1. Buffers!Next /\ Frames' /\ Peers(S)' /\ torn' = (torn /\ s.dirty # Screen)
    BY <1>1, <1>2, <1>3, <1>6, DrawDirtyStep
  <2>2. Coming'
    BY <1>1, <1>4, <1>5, <2>1 DEF Coming
  <2>. QED  BY <1>2, <2>1, <2>2 DEF ScreenInv
<1>7. CASE s.dirty.w = 0
  <2>1. Buffers!Next /\ Frames' /\ Peers(S)' /\ torn' = torn
    BY <1>1, <1>2, <1>3, <1>7, DrawNothingStep
  <2>2. s.dirty # Screen
    BY <1>7, ScreenIsRect
  <2>3. Coming'
    BY <1>1, <1>4, <1>5, <2>1, <2>2 DEF Coming
  <2>. QED  BY <1>2, <2>1, <2>3 DEF ScreenInv
<1>. QED  BY <1>6, <1>7

LEMMA DrawFailsStep == ASSUME ScreenInv, DrawFails PROVE ScreenInv' /\ Buffers!Next
<1> DEFINE s == LaidOut
<1>1. /\ stack # <<>> /\ ~transition /\ s.dirty.w # 0 /\ Commit(s) /\ pending' = FALSE
      /\ back' = [c \in Cells |-> IF In(c, Union(s.dirty, last)) THEN Partial ELSE back[c]]
      /\ UNCHANGED <<windowVars, want, look, background, update, front, last, torn, double, exposed>>
  BY DEF DrawFails, DrawPartly
<1>2. peer' = s.peer /\ dirty' = s.dirty /\ UNCHANGED <<stack, look, background>>
  BY <1>1 DEF Commit, windowVars
<1>3. Looks' /\ Wishes' /\ WindowsInv' /\ Flagged'
  BY <1>1, WishesSame, WindowsSame DEF ScreenInv, Looks, Flagged, windowVars
<1>4. Frame(s)
  BY <1>1, <1>2, <1>3, FrameIs
<1> HIDE DEF s
<1>5. back' \in [Cells -> Pictures] /\ Frames
  <2>1. Partial \in Pictures
    <3>1. <<3>> \in {<<i>> : i \in 0 .. 4}
      OBVIOUS
    <3>. QED  BY <3>1 DEF Pictures, Partial
  <2>2. back \in [Cells -> Pictures] /\ Frames
    BY DEF ScreenInv, Frames
  <2>. QED  BY <1>1, <2>1, <2>2
<1>6. Frames' /\ Peers(S)'
  <2>1. Frames'
    BY <1>1, <1>5 DEF Frames
  <2>2. Peers(S)'
    BY <1>2, <1>4, PeersDirty DEF Frame
  <2>. QED  BY <2>1, <2>2
<1>7. Coming'
  BY <1>1, <1>2, <1>4 DEF ScreenInv, Coming, Frame, windowVars
<1>8. Buffers!Fail
  <2> DEFINE d == s.dirty
  <2>1. Buffers!Damaged(d) /\ d \in Buffers!Rects /\ d.w # 0 /\ dirty' = d
    BY <1>1, <1>2, <1>4, DamagedIs, BuffersAre DEF Frame
  <2>2. back' \in [Buffers!Cells -> SUBSET ((Widgets \X {0, 1}) \cup {<<i>> : i \in 0 .. 4})]
    BY <1>5, BuffersAre DEF Pictures
  <2>3. \A c \in Buffers!Cells : ~Buffers!In(c, Buffers!Union(d, last)) => back'[c] = back[c]
    BY <1>1, BuffersAre
  <2> HIDE DEF d
  <2>. QED  BY <1>1, <2>1, <2>2, <2>3 DEF Buffers!Fail
<1>. QED  BY <1>3, <1>6, <1>7, <1>8 DEF ScreenInv, Buffers!Next

-----------------------------------------------------------------------------
(* All steps *)

LEMMA InitStep == ASSUME Init PROVE ScreenInv /\ Buffers!Init
<1>1. None \in Rects
  BY NoneIsRect
<1>2. Peers(S) /\ dirty = None
  <2>1. S \in Layouts
    BY <1>1 DEF Init, S, Layouts
  <2>. QED  BY <2>1 DEF Init, Peers, S
<1>3. Wishes
  <2>1. \A w \in Widgets : want[w] \in Place[w] /\ Place[w] \in SUBSET Rects /\ want[w] \in Rects
    BY PlaceAssumption DEF Init
  <2>2. want \in [Widgets -> Rects]
    BY <2>1 DEF Init
  <2>. QED  BY <2>1, <2>2 DEF Wishes, Wanted
<1>4. WindowsInv
  <2>1. Drawn(stack) = {}
    BY DEF Init, Drawn
  <2>2. owner \in Windows
    BY TreeAssumption DEF Init
  <2>3. Stack(stack)
    BY DEF Init, Stack
  <2>. QED  BY <2>1, <2>2, <2>3 DEF WindowsInv, Init
<1>5. Looks /\ Flagged /\ Coming
  BY DEF Init, Looks, Flagged, Coming
<1>6. Frames
  <2>1. {} \in Pictures
    BY DEF Pictures
  <2>. QED  BY <1>1, <2>1 DEF Init, Frames
<1>7. now \in [Cells -> Pictures]
  BY <1>5, PictureIs
<1>8. Buffers!Init
  BY <1>6, <1>7, BuffersAre DEF Init, Buffers!Init, Frames, Pictures, None
<1>. QED  BY <1>2, <1>3, <1>4, <1>5, <1>6, <1>8 DEF ScreenInv

LEMMA NextStep == ASSUME ScreenInv, Next PROVE ScreenInv' /\ Buffers!Next
<1>1. CASE UpdateScreen
  BY <1>1, UpdateScreenStep
<1>2. CASE DrawFails
  BY <1>2, DrawFailsStep
<1>3. CASE Lua
  <2>1. CASE \E w \in Widgets : Touch(w)
    BY <2>1, TouchStep
  <2>2. ASSUME NEW w \in Widgets, NEW r \in Place[w], Resize(w, r) \/ Move(w, r)
        PROVE  ScreenInv' /\ Buffers!Next
    BY <2>2, ResizeStep, MoveStep
  <2>3. CASE StyleChanged \/ SetBackground \/ SetVideoMode \/ Snapshot \/ SuspendUpdates \/ ResumeUpdates
    BY <2>3, StyleChangedStep, SetBackgroundStep, SetVideoModeStep, SnapshotStep, SuspendStep, ResumeStep
  <2>4. ASSUME NEW w \in Windows, NEW animated \in BOOLEAN, Show(w, animated) \/ Hide(w, animated)
        PROVE  ScreenInv' /\ Buffers!Next
    BY <2>4, ShowStep, HideVisible, HideHidden
  <2>5. CASE Bump
    BY <2>5, BumpStep
  <2>. QED  BY <1>3, <2>1, <2>2, <2>3, <2>4, <2>5 DEF Lua
<1>. QED  BY <1>1, <1>2, <1>3 DEF Next

LEMMA StutterStep == ASSUME ScreenInv, UNCHANGED vars PROVE ScreenInv' /\ UNCHANGED Buffers!vars
<1>1. UNCHANGED windowVars /\ UNCHANGED <<peer, want, look, background, pending, front, back, dirty, last, torn, double, exposed>>
  BY DEF vars
<1>2. Wishes' /\ WindowsInv' /\ Looks' /\ Frames' /\ Flagged' /\ Coming'
  BY <1>1, WishesSame, WindowsSame DEF ScreenInv, Looks, Frames, Flagged, Coming, Filled, Drawn, windowVars
<1>3. Peers(S)'
  BY <1>1 DEF ScreenInv, Peers, S
<1>4. now' = now
  BY <1>1 DEF now, PictureOf, Appears, Background, Snapped, WindowOf, Line, Drawn, windowVars
<1>. QED  BY <1>1, <1>2, <1>3, <1>4 DEF ScreenInv, Buffers!vars

THEOREM ScreenInvariant == Spec => []ScreenInv
<1>1. Init => ScreenInv
  BY InitStep
<1>2. ScreenInv /\ [Next]_vars => ScreenInv'
  BY NextStep, StutterStep
<1>. QED  BY <1>1, <1>2, PTL DEF Spec

\* Every window on the stack is a window, every widget is where its parent may put
\* it, or has no peer yet, and the dirty regions are on the screen.
THEOREM ScreenTypes == Spec => []TypeOK
<1>1. ScreenInv => TypeOK
  BY InvLayout DEF ScreenInv, TypeOK, WindowsInv, Stack, Frames, Peers
<1>. QED  BY <1>1, ScreenInvariant, PTL

\* For any tree, stack and bounds, every layout, move, call and frame of Screen is a
\* step of Repaint: what it changes it has marked, or the screen counts as torn.
THEOREM ScreenRepaints == Spec => RefinesRepaint
<1>1. Init => Buffers!Init
  BY InitStep
<1>2. ScreenInv /\ [Next]_vars => [Buffers!Next]_Buffers!vars
  BY NextStep, StutterStep
<1>3. Spec => Buffers!Init /\ [][Buffers!Next]_Buffers!vars
  BY <1>1, <1>2, ScreenInvariant, PTL DEF Spec
<1>. QED  BY <1>3 DEF RefinesRepaint, Buffers!Spec

\* With no frame to come the screen shows what it should, for windows of any bounds,
\* but for windows that are hidden at once, transitions that are cut, and changes
\* beside an opaque window that does not fill the screen (see Healed).
THEOREM ScreenHeals == Spec => []Healed
<1>1. ScreenInv /\ TypeOK => Healed
  BY ScreenIsRect DEF ScreenInv, Coming, Healed
<1>. QED  BY <1>1, ScreenInvariant, ScreenTypes, PTL

Shown == INSTANCE RepaintProofs WITH Picture <- SUBSET ((Widgets \X {0, 1}) \cup {<<i>> : i \in 0 .. 4})

\* Unless it is torn, the visible buffer shows every widget as it is, and where it is,
\* outside of the dirty region.
THEOREM ShownIsUpToDate == Spec => []Buffers!UpToDate
<1>1. Buffers!Init => Shown!Init
  BY DEF Buffers!Init, Shown!Init, Buffers!Cells, Shown!Cells
<1>2. [Buffers!Next]_Buffers!vars => [Shown!Next]_Shown!vars
  BY DEF Buffers!Next, Shown!Next, Buffers!vars, Shown!vars, Buffers!Change, Shown!Change,
         Buffers!Tear, Shown!Tear, Buffers!Draw, Shown!Draw, Buffers!Fail, Shown!Fail,
         Buffers!Transition, Shown!Transition, Buffers!Damaged, Shown!Damaged,
         Buffers!Flip, Shown!Flip, Buffers!Cells, Shown!Cells, Buffers!Rects, Shown!Rects,
         Buffers!In, Shown!In, Buffers!Union, Shown!Union, Buffers!Screen, Shown!Screen
<1>3. Shown!UpToDate => Buffers!UpToDate
  BY DEF Shown!UpToDate, Buffers!UpToDate, Buffers!Cells, Shown!Cells, Buffers!In, Shown!In
<1>4. Shown!Init /\ [][Shown!Next]_Shown!vars => []Shown!UpToDate
  BY WidthAssumption, Shown!ScreenUpToDate DEF Shown!Spec
<1>5. Spec => Buffers!Init /\ [][Buffers!Next]_Buffers!vars
  BY ScreenRepaints DEF RefinesRepaint, Buffers!Spec
<1>. QED  BY <1>1, <1>2, <1>3, <1>4, <1>5, PTL
=============================================================================
