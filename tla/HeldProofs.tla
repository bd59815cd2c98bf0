----------------------------- MODULE HeldProofs ------------------------------
(***************************************************************************)
(* What is held is there, for any number of fonts, images, widgets and       *)
(* blocks of memory; widgets look as they are styled; and the file of the    *)
(* settings is whole, for any number of calls of atomicWrite, interrupted    *)
(* anywhere any number of times: an inductive invariant for each part.       *)
(***************************************************************************)
EXTENDS Held, Files, SequenceTheorems, FiniteSetTheorems, WellFoundedInduction, NaturalsInduction, TLAPS

-----------------------------------------------------------------------------
(* Fonts *)

AllFonts == Fonts \cup Missing

Entries == [font : AllFonts, refcount : Nat]

\* The inductive invariant: the property and the types it speaks of
FontInv == fonts \in Seq(Entries) /\ uses \in [AllFonts -> Nat] /\ F!HeldIsOpen

\* No font is open at first.
LEMMA FontInit == F!Init => FontInv
  BY DEF F!Init, FontInv, F!HeldIsOpen, F!Listed, AllFonts

\* A list without its i-th entry
LEMMA RemoveAtFacts ==
    ASSUME NEW s \in Seq(Entries), NEW i \in DOMAIN s
    PROVE  LET r == F!RemoveAt(s, i)
           IN  /\ r \in Seq(Entries)
               /\ DOMAIN r = 1 .. Len(s) - 1
               /\ \A j \in DOMAIN r : r[j] = IF j < i THEN s[j] ELSE s[j + 1]
<1> DEFINE a == SubSeq(s, 1, i - 1)
           b == SubSeq(s, i + 1, Len(s))
<1>1. Len(s) \in Nat /\ i \in 1 .. Len(s)
  OBVIOUS
<1>2. a \in Seq(Entries) /\ Len(a) = i - 1 /\ \A j \in 1 .. i - 1 : a[j] = s[j]
  BY <1>1
<1>3. b \in Seq(Entries) /\ Len(b) = Len(s) - i /\ \A j \in 1 .. Len(s) - i : b[j] = s[i + j]
  BY <1>1
<1> HIDE DEF a, b
<1> DEFINE r == a \o b
<1>4. r \in Seq(Entries) /\ Len(r) = Len(s) - 1 /\ DOMAIN r = 1 .. Len(s) - 1
  BY <1>1, <1>2, <1>3
<1>5. \A j \in 1 .. Len(s) - 1 : r[j] = IF j < i THEN s[j] ELSE s[j + 1]
  <2>1. TAKE j \in 1 .. Len(s) - 1
  <2>2. CASE j < i
    BY <1>1, <1>2, <1>3, <2>2
  <2>3. CASE ~(j < i)
    <3>1. r[j] = b[j - (i - 1)]
      <4>1. j \in 1 .. Len(a) + Len(b) /\ ~(j <= Len(a))
        BY <1>1, <1>2, <1>3, <2>3
      <4>2. r[j] = b[j - Len(a)]
        BY <1>2, <1>3, <4>1, ConcatProperties
      <4>. QED  BY <1>2, <4>2
    <3>2. j - (i - 1) \in 1 .. Len(s) - i /\ i + (j - (i - 1)) = j + 1
      BY <1>1, <2>3
    <3>. QED  BY <1>3, <2>3, <3>1, <3>2
  <2>. QED  BY <2>2, <2>3
<1>. QED  BY <1>4, <1>5 DEF F!RemoveAt, a, b

\* A font that is loaded or referenced once more
LEMMA CountedOnce ==
    ASSUME FontInv, NEW f \in AllFonts, f \in F!Listed,
           fonts' = F!Counted(f, 1), uses' = [uses EXCEPT ![f] = @ + 1], UNCHANGED ttf
    PROVE  FontInv'
<1>1. fonts \in Seq(Entries) /\ DOMAIN fonts = 1 .. Len(fonts) /\ Len(fonts) \in Nat
  BY DEF FontInv
<1>2. \A i \in DOMAIN fonts : fonts[i] \in Entries
  BY <1>1
<1>3. DOMAIN fonts' = DOMAIN fonts
  BY DEF F!Counted
<1>4. \A i \in DOMAIN fonts :
         /\ fonts'[i] \in Entries /\ fonts'[i].font = fonts[i].font
         /\ fonts'[i].refcount = fonts[i].refcount + (IF fonts[i].font = f THEN 1 ELSE 0)
  BY <1>2 DEF F!Counted, Entries
<1>5. fonts' \in Seq(Entries)
  <2>1. fonts' \in [1 .. Len(fonts) -> Entries]
    BY <1>1, <1>3, <1>4 DEF F!Counted
  <2>. QED  BY <1>1, <2>1
<1>6. uses' \in [AllFonts -> Nat] /\ \A g \in AllFonts : uses'[g] = uses[g] + (IF g = f THEN 1 ELSE 0)
  BY DEF FontInv
<1>7. F!Listed' = F!Listed
  BY <1>3, <1>4 DEF F!Listed
<1>8. fonts # <<>> /\ ttf
  BY <1>1 DEF F!Listed, FontInv, F!HeldIsOpen
<1>9. \A g \in AllFonts : uses[g] \in Nat /\ (uses[g] > 0 <=> g \in F!Listed)
  BY DEF FontInv, F!HeldIsOpen, AllFonts
<1>10. \A g \in AllFonts : uses'[g] > 0 <=> g \in F!Listed'
  BY <1>6, <1>7, <1>9
<1>11. \A i, j \in DOMAIN fonts' : fonts'[i].font = fonts'[j].font => i = j
  BY <1>3, <1>4 DEF FontInv, F!HeldIsOpen
<1>12. \A i \in DOMAIN fonts' : fonts'[i].refcount = uses'[fonts'[i].font]
  <2>1. TAKE i \in DOMAIN fonts'
  <2>2. fonts[i].refcount = uses[fonts[i].font] /\ fonts[i].font \in AllFonts
    BY <1>2, <1>3 DEF FontInv, F!HeldIsOpen, Entries
  <2>. QED  BY <1>3, <1>4, <1>6, <2>2
<1>. QED  BY <1>5, <1>6, <1>8, <1>10, <1>11, <1>12 DEF FontInv, F!HeldIsOpen, AllFonts

\* A font that is opened comes to the front of the list.
LEMMA Opened ==
    ASSUME FontInv, NEW f \in AllFonts, f \notin F!Listed,
           fonts' = <<[font |-> f, refcount |-> 1]>> \o fonts, uses' = [uses EXCEPT ![f] = @ + 1], ttf'
    PROVE  FontInv'
<1>1. fonts \in Seq(Entries) /\ DOMAIN fonts = 1 .. Len(fonts) /\ Len(fonts) \in Nat
  BY DEF FontInv
<1>2. \A i \in DOMAIN fonts : fonts[i] \in Entries
  BY <1>1
<1>3. uses[f] = 0 /\ \A g \in AllFonts : uses[g] \in Nat /\ (uses[g] > 0 <=> g \in F!Listed)
  BY DEF FontInv, F!HeldIsOpen, AllFonts
<1>4. uses' \in [AllFonts -> Nat] /\ \A g \in AllFonts : uses'[g] = IF g = f THEN 1 ELSE uses[g]
  BY <1>3 DEF FontInv
<1> DEFINE e == [font |-> f, refcount |-> 1]
<1>5. e \in Entries /\ e.font = f /\ e.refcount = 1
  BY DEF Entries
<1> HIDE DEF e
<1>6. fonts' = <<e>> \o fonts
  BY DEF e
<1>7. fonts' \in Seq(Entries) /\ DOMAIN fonts' = 1 .. Len(fonts) + 1
  BY <1>1, <1>5, <1>6
<1>8. fonts'[1] = e /\ \A i \in DOMAIN fonts' : i # 1 => i - 1 \in DOMAIN fonts /\ fonts'[i] = fonts[i - 1]
  BY <1>1, <1>5, <1>6
<1>9. \A i \in DOMAIN fonts : i + 1 \in DOMAIN fonts' /\ fonts'[i + 1] = fonts[i]
  BY <1>1, <1>5, <1>6
<1>10. F!Listed' = F!Listed \cup {f}
  <2>1. 1 \in DOMAIN fonts' /\ fonts'[1].font = f
    BY <1>1, <1>5, <1>7, <1>8
  <2>2. \A i \in DOMAIN fonts' : i = 1 \/ \E k \in DOMAIN fonts : fonts'[i] = fonts[k]
    BY <1>8
  <2>3. \A k \in DOMAIN fonts : \E i \in DOMAIN fonts' : fonts'[i] = fonts[k]
    BY <1>9
  <2>4. ASSUME NEW g \in F!Listed' PROVE g \in F!Listed \cup {f}
    <3>1. PICK i \in DOMAIN fonts' : g = fonts'[i].font
      BY DEF F!Listed
    <3>. QED  BY <2>1, <2>2, <3>1 DEF F!Listed
  <2>5. ASSUME NEW g \in F!Listed PROVE g \in F!Listed'
    <3>1. PICK k \in DOMAIN fonts : g = fonts[k].font
      BY DEF F!Listed
    <3>2. PICK i \in DOMAIN fonts' : fonts'[i] = fonts[k]
      BY <2>3
    <3>. QED  BY <3>1, <3>2, Zenon DEF F!Listed
  <2>6. f \in F!Listed'
    BY <2>1, Zenon DEF F!Listed
  <2>. QED  BY <2>4, <2>5, <2>6
<1>11. \A g \in AllFonts : uses'[g] > 0 <=> g \in F!Listed'
  BY <1>3, <1>4, <1>10
<1>12. \A i, j \in DOMAIN fonts' : fonts'[i].font = fonts'[j].font => i = j
  <2>1. TAKE i, j \in DOMAIN fonts'
  <2>2. HAVE fonts'[i].font = fonts'[j].font
  <2>3. \A k \in DOMAIN fonts : fonts[k].font # f
    BY DEF F!Listed
  <2>4. CASE i = 1 \/ j = 1
    BY <1>5, <1>8, <2>2, <2>3, <2>4
  <2>5. CASE i # 1 /\ j # 1
    <3>1. i - 1 = j - 1
      BY <1>8, <2>2, <2>5 DEF FontInv, F!HeldIsOpen
    <3>. QED  BY <1>7, <3>1
  <2>. QED  BY <2>4, <2>5
<1>13. \A i \in DOMAIN fonts' : fonts'[i].refcount = uses'[fonts'[i].font]
  <2>1. TAKE i \in DOMAIN fonts'
  <2>2. CASE i = 1
    BY <1>4, <1>5, <1>8, <2>2
  <2>3. CASE i # 1
    <3>1. i - 1 \in DOMAIN fonts /\ fonts'[i] = fonts[i - 1]
      BY <1>8, <2>3
    <3>2. fonts[i - 1].font \in AllFonts /\ fonts[i - 1].font # f
      BY <1>2, <3>1 DEF Entries, F!Listed
    <3>3. fonts[i - 1].refcount = uses[fonts[i - 1].font]
      BY <3>1 DEF FontInv, F!HeldIsOpen
    <3>. QED  BY <1>4, <3>1, <3>2, <3>3
  <2>. QED  BY <2>2, <2>3
<1>. QED  BY <1>4, <1>7, <1>11, <1>12, <1>13 DEF FontInv, F!HeldIsOpen, AllFonts

\* A font of which somebody else has a reference stays, and the last reference takes it
\* out of the list.
LEMMA Closed == ASSUME FontInv, NEW f \in AllFonts, F!FontFree(f) PROVE FontInv'
<1>1. fonts \in Seq(Entries) /\ DOMAIN fonts = 1 .. Len(fonts) /\ Len(fonts) \in Nat
  BY DEF FontInv
<1>2. \A i \in DOMAIN fonts : fonts[i] \in Entries
  BY <1>1
<1>3. \A g \in AllFonts : uses[g] \in Nat /\ (uses[g] > 0 <=> g \in F!Listed)
  BY DEF FontInv, F!HeldIsOpen, AllFonts
<1>4. uses' \in [AllFonts -> Nat] /\ \A g \in AllFonts : uses'[g] = IF g = f THEN uses[g] - 1 ELSE uses[g]
  BY <1>3 DEF FontInv, F!FontFree
<1>5. PICK i \in DOMAIN fonts :
        /\ fonts[i].font = f
        /\ fonts' = IF fonts[i].refcount > 1 THEN [fonts EXCEPT ![i].refcount = @ - 1] ELSE F!RemoveAt(fonts, i)
  BY DEF F!FontFree
<1>6. fonts[i].refcount = uses[f] /\ uses[f] > 0
  BY <1>5 DEF F!FontFree, FontInv, F!HeldIsOpen
<1>7. \A j \in DOMAIN fonts : j # i => fonts[j].font # f
  BY <1>5 DEF FontInv, F!HeldIsOpen
<1>8. fonts # <<>> => ttf
  BY DEF FontInv, F!HeldIsOpen
<1>9. fonts' # <<>> => ttf'
  <2>1. fonts # <<>>
    BY <1>1, <1>5
  <2>. QED  BY <1>8, <2>1, Zenon DEF F!FontFree
<1>10. \A j, k \in DOMAIN fonts : fonts[j].font = fonts[k].font => j = k
  BY DEF FontInv, F!HeldIsOpen
<1>11. \A j \in DOMAIN fonts : fonts[j].refcount = uses[fonts[j].font]
  BY DEF FontInv, F!HeldIsOpen
<1>12. CASE uses[f] > 1
  <2>1. fonts' = [fonts EXCEPT ![i].refcount = @ - 1]
    BY <1>5, <1>6, <1>12
  <2>2. DOMAIN fonts' = DOMAIN fonts
    BY <2>1
  <2>3. \A j \in DOMAIN fonts :
           /\ fonts'[j].font = fonts[j].font
           /\ fonts'[j].refcount = IF j = i THEN uses[f] - 1 ELSE fonts[j].refcount
    BY <1>2, <1>6, <2>1 DEF Entries
  <2>4. fonts' \in Seq(Entries)
    <3>1. [fonts[i] EXCEPT !.refcount = @ - 1] \in Entries
      BY <1>2, <1>3, <1>6, <1>12 DEF Entries
    <3>2. fonts' \in [1 .. Len(fonts) -> Entries]
      BY <1>1, <1>2, <2>1, <3>1
    <3>. QED  BY <1>1, <3>2
  <2>5. F!Listed' = F!Listed
    BY <2>2, <2>3 DEF F!Listed
  <2>6. \A g \in AllFonts : uses'[g] > 0 <=> g \in F!Listed'
    BY <1>3, <1>4, <1>12, <2>5
  <2>7. \A j \in DOMAIN fonts' : fonts'[j].refcount = uses'[fonts'[j].font]
    <3>1. \A j \in DOMAIN fonts : fonts[j].font \in AllFonts
      BY <1>2 DEF Entries
    <3>. QED  BY <1>4, <1>5, <1>7, <1>11, <2>2, <2>3, <3>1
  <2>. QED  BY <1>4, <1>9, <1>10, <2>2, <2>3, <2>4, <2>6, <2>7 DEF FontInv, F!HeldIsOpen, AllFonts
<1>13. CASE uses[f] = 1
  <2>1. fonts' = F!RemoveAt(fonts, i)
    BY <1>5, <1>6, <1>13
  <2>2. /\ fonts' \in Seq(Entries) /\ DOMAIN fonts' = 1 .. Len(fonts) - 1
        /\ \A j \in DOMAIN fonts' : fonts'[j] = IF j < i THEN fonts[j] ELSE fonts[j + 1]
    BY <1>1, <2>1, RemoveAtFacts
  <2>3. \A j \in DOMAIN fonts' : j \in DOMAIN fonts /\ j + 1 \in DOMAIN fonts /\ j \in Int
    BY <1>1, <2>2
  <2>4. i \in Int
    BY <1>1
  <2>5. \A j, k \in DOMAIN fonts' : fonts'[j].font = fonts'[k].font => j = k
    <3>1. TAKE j, k \in DOMAIN fonts'
    <3>2. HAVE fonts'[j].font = fonts'[k].font
    <3>3. CASE j < i /\ k < i
      BY <1>10, <2>2, <2>3, <3>2, <3>3
    <3>4. CASE ~(j < i) /\ ~(k < i)
      <4>1. j + 1 = k + 1
        BY <1>10, <2>2, <2>3, <3>2, <3>4
      <4>. QED  BY <2>3, <4>1
    <3>5. CASE j < i /\ ~(k < i)
      <4>1. j = k + 1
        BY <1>10, <2>2, <2>3, <3>2, <3>5
      <4>. QED  BY <2>3, <2>4, <3>5, <4>1
    <3>6. CASE ~(j < i) /\ k < i
      <4>1. j + 1 = k
        BY <1>10, <2>2, <2>3, <3>2, <3>6
      <4>. QED  BY <2>3, <2>4, <3>6, <4>1
    <3>. QED  BY <3>3, <3>4, <3>5, <3>6
  <2>6. \A j \in DOMAIN fonts' : \E k \in DOMAIN fonts : k # i /\ fonts'[j] = fonts[k]
    BY <2>2, <2>3, <2>4
  <2>7. \A k \in DOMAIN fonts : k # i => \E j \in DOMAIN fonts' : fonts'[j] = fonts[k]
    <3>1. TAKE k \in DOMAIN fonts
    <3>2. HAVE k # i
    <3>3. CASE k < i
      <4>1. k \in DOMAIN fonts'
        BY <1>1, <2>2, <3>3
      <4>. QED  BY <2>2, <3>3, <4>1
    <3>4. CASE ~(k < i)
      <4>1. k - 1 \in DOMAIN fonts' /\ ~(k - 1 < i) /\ (k - 1) + 1 = k
        BY <1>1, <2>2, <3>2, <3>4
      <4>. QED  BY <2>2, <4>1
    <3>. QED  BY <3>3, <3>4
  <2>8. F!Listed' = F!Listed \ {f}
    <3>1. ASSUME NEW g \in F!Listed' PROVE g \in F!Listed \ {f}
      <4>1. PICK j \in DOMAIN fonts' : g = fonts'[j].font
        BY DEF F!Listed
      <4>2. PICK k \in DOMAIN fonts : k # i /\ fonts'[j] = fonts[k]
        BY <2>6
      <4>. QED  BY <1>7, <4>1, <4>2 DEF F!Listed
    <3>2. ASSUME NEW g \in F!Listed \ {f} PROVE g \in F!Listed'
      <4>1. PICK k \in DOMAIN fonts : g = fonts[k].font
        BY DEF F!Listed
      <4>2. PICK j \in DOMAIN fonts' : fonts'[j] = fonts[k]
        BY <1>5, <2>7, <4>1
      <4>. QED  BY <4>1, <4>2, Zenon DEF F!Listed
    <3>. QED  BY <3>1, <3>2
  <2>9. \A g \in AllFonts : uses'[g] > 0 <=> g \in F!Listed'
    BY <1>3, <1>4, <1>13, <2>8
  <2>10. \A j \in DOMAIN fonts' : fonts'[j].refcount = uses'[fonts'[j].font]
    <3>1. TAKE j \in DOMAIN fonts'
    <3>2. PICK k \in DOMAIN fonts : k # i /\ fonts'[j] = fonts[k]
      BY <2>6
    <3>3. fonts[k].font \in AllFonts /\ fonts[k].font # f
      BY <1>2, <1>7, <3>2 DEF Entries
    <3>. QED  BY <1>4, <1>11, <3>2, <3>3
  <2>. QED  BY <1>4, <1>9, <2>2, <2>5, <2>9, <2>10 DEF FontInv, F!HeldIsOpen, AllFonts
<1>. QED  BY <1>3, <1>6, <1>12, <1>13

\* For any number of fonts, the ones that are held are open, once each and with all of
\* their references counted, and the others are closed (jive_font_load, jive_font_free).
THEOREM HeldFontsOpen == F!Spec => []F!HeldIsOpen
<1>1. FontInv /\ [F!Next]_(F!vars) => FontInv'
  <2> SUFFICES ASSUME FontInv, [F!Next]_(F!vars) PROVE FontInv'
    OBVIOUS
  <2>1. ASSUME NEW f \in AllFonts, F!FontLoad(f) PROVE FontInv'
    <3>1. CASE f \in F!Listed
      BY <2>1, <3>1, CountedOnce DEF F!FontLoad
    <3>2. CASE f \notin F!Listed /\ f \in Missing
      BY <2>1, <3>2 DEF F!FontLoad, FontInv, F!HeldIsOpen, F!Listed
    <3>3. CASE f \notin F!Listed /\ f \notin Missing
      BY <2>1, <3>3, Opened DEF F!FontLoad
    <3>. QED  BY <3>1, <3>2, <3>3
  <2>2. ASSUME NEW f \in AllFonts, F!FontRef(f) PROVE FontInv'
    <3>1. f \in F!Listed
      BY <2>2, HeldAssumption DEF F!FontRef, FontInv, F!HeldIsOpen, AllFonts
    <3>. QED  BY <2>2, <3>1, CountedOnce DEF F!FontRef
  <2>3. CASE UNCHANGED F!vars
    BY <2>3 DEF F!vars, FontInv, F!HeldIsOpen, F!Listed
  <2>. QED  BY <2>1, <2>2, <2>3, Closed DEF F!Next, AllFonts
<1>2. FontInv => F!HeldIsOpen
  BY DEF FontInv
<1>. QED  BY <1>1, <1>2, FontInit, PTL DEF F!Spec

-----------------------------------------------------------------------------
(* The peers of widgets *)

FieldNames == {"font", "tile", "image", "value"}

KindNames == {"group", "window", "slider", "icon", "label", "menu", "textarea", "textinput"}

Resources == P!Resources

\* What every kind of peer does with its fields: only menus, textareas and textinputs
\* forget their font, and only icons leave something to nobody when they are collected.
LEMMA KindFacts ==
    ASSUME NEW k \in KindNames
    PROVE  /\ DOMAIN P!Fields(k) \subseteq FieldNames
           /\ \A f \in DOMAIN P!Fields(k) : P!Fields(k)[f] \in {"swap", "first", "over"}
           /\ \A f \in DOMAIN P!Fields(k) :
                 P!Fields(k)[f] = "over" => f = "font" /\ k \in {"menu", "textarea", "textinput"}
           /\ P!Collected(k) \subseteq DOMAIN P!Fields(k)
           /\ \A f \in DOMAIN P!Fields(k) : f \notin P!Collected(k) => f = "tile" /\ k = "icon"
           /\ "value" \in DOMAIN P!Fields(k) <=> k = "icon"
           /\ "value" \in DOMAIN P!Fields(k) => "image" \in DOMAIN P!Fields(k)
<1> USE DEF FieldNames, KindNames, P!Fields, P!Collected
<1>1. CASE k = "group"
  BY <1>1 DEF P!GroupSkin, P!GroupGc
<1>2. CASE k = "window"
  BY <1>2 DEF P!WindowSkin, P!WindowGc
<1>3. CASE k = "slider"
  BY <1>3 DEF P!SliderSkin, P!SliderGc
<1>4. CASE k = "icon"
  BY <1>4 DEF P!IconSkin, P!IconGc
<1>5. CASE k = "label"
  BY <1>5 DEF P!LabelSkin, P!LabelGc
<1>6. CASE k = "menu"
  BY <1>6 DEF P!MenuSkin, P!MenuGc
<1>7. CASE k = "textarea"
  BY <1>7 DEF P!TextareaSkin, P!TextareaGc
<1>8. CASE k = "textinput"
  BY <1>8 DEF P!TextinputSkin, P!TextinputGc
<1>. QED  BY <1>1, <1>2, <1>3, <1>4, <1>5, <1>6, <1>7, <1>8

\* What one peer may hold: fonts in the field of the font, tiles and surfaces in the others
Look(k, look) ==
    /\ DOMAIN look = DOMAIN P!Fields(k)
    /\ \A f \in DOMAIN look : look[f] \in (IF f = "font" THEN Fonts ELSE Images) \cup {None}

\* Every peer has the fields of its kind, and counts are integers.
PeerTypes ==
    /\ kind \in Kinds
    /\ count \in [Resources -> Int] /\ script \in [Resources -> {0, 1}] /\ lost \in [Resources -> Nat]
    /\ DOMAIN held = Widgets
    /\ \A w \in Widgets : Look(kind[w], held[w])

\* The fields of a peer that hold r
Own(look, r) == {f \in DOMAIN look : look[f] = r}

\* The fields of all the peers that hold r
Holding(h, r) == {p \in Widgets \X FieldNames : p[2] \in DOMAIN h[p[1]] /\ h[p[1]][p[2]] = r}

\* P!HeldIsCounted, with the sets that the lemmas below are about
AllCounted ==
    \A r \in Resources :
        /\ count[r] = script[r] + lost[r] + Cardinality(Holding(held, r))
        /\ lost[r] > 0 => \E w \in Widgets :
              IF r \in Fonts THEN kind[w] \in {"menu", "textarea", "textinput"} ELSE kind[w] = "icon"

\* The inductive invariant
PeerInv == PeerTypes /\ AllCounted

\* There are four fields, so that what a peer holds can be counted.
LEMMA FieldsFinite ==
    /\ IsFiniteSet(FieldNames)
    /\ \A look, r : DOMAIN look \subseteq FieldNames =>
          IsFiniteSet(Own(look, r)) /\ Cardinality(Own(look, r)) \in Nat
<1>1. IsFiniteSet(FieldNames)
  <2>1. IsFiniteSet({"font"} \cup {"tile"}) /\ IsFiniteSet({"image"} \cup {"value"})
    BY FS_Singleton, FS_Union
  <2>2. FieldNames = ({"font"} \cup {"tile"}) \cup ({"image"} \cup {"value"})
    BY DEF FieldNames
  <2>. QED  BY <2>1, <2>2, FS_Union
<1>2. ASSUME NEW look, NEW r, DOMAIN look \subseteq FieldNames
      PROVE  IsFiniteSet(Own(look, r)) /\ Cardinality(Own(look, r)) \in Nat
  <2>1. Own(look, r) \in SUBSET FieldNames
    BY <1>2 DEF Own
  <2>. QED  BY <1>1, <2>1, FS_Subset, FS_CardinalityType
<1>. QED  BY <1>1, <1>2

\* Those that hold r are the fields of one peer and the fields of the others.
LEMMA HoldingSplit ==
    ASSUME NEW h, NEW w \in Widgets, NEW r, DOMAIN h[w] \subseteq FieldNames
    PROVE  LET others == {p \in Holding(h, r) : p[1] # w}
           IN  /\ Cardinality(others) \in Nat
               /\ Cardinality(Holding(h, r)) = Cardinality(others) + Cardinality(Own(h[w], r))
<1> DEFINE others == {p \in Holding(h, r) : p[1] # w}
           ours == {p \in Holding(h, r) : p[1] = w}
           pair == [f \in Own(h[w], r) |-> <<w, f>>]
<1>1. IsFiniteSet(Widgets \X FieldNames)
  BY HeldAssumption, FieldsFinite, FS_Product
<1>2. others \in SUBSET (Widgets \X FieldNames) /\ ours \in SUBSET (Widgets \X FieldNames)
  BY DEF Holding
<1>3. IsFiniteSet(others) /\ IsFiniteSet(ours) /\ Cardinality(others) \in Nat /\ Cardinality(ours) \in Nat
  <2> HIDE DEF others, ours
  <2>. QED  BY <1>1, <1>2, FS_Subset, FS_CardinalityType
<1>4. Holding(h, r) = others \cup ours /\ others \cap ours = {}
  OBVIOUS
<1>5. Cardinality(Holding(h, r)) = Cardinality(others) + Cardinality(ours)
  <2> HIDE DEF others, ours
  <2>. QED  BY SMTT(60), <1>3, <1>4, FS_Union, FS_EmptySet
<1>6. Cardinality(ours) = Cardinality(Own(h[w], r))
  <2>1. \A f \in Own(h[w], r) : <<w, f>> \in ours
    BY DEF Own, Holding
  <2>2. \A p \in ours : p[2] \in Own(h[w], r) /\ p = <<w, p[2]>>
    BY DEF Own, Holding
  <2>3. pair \in Bijection(Own(h[w], r), ours)
    <3> HIDE DEF ours
    <3>1. pair \in [Own(h[w], r) -> ours]
      BY <2>1
    <3>2. \A f, g \in Own(h[w], r) : pair[f] = pair[g] => f = g
      OBVIOUS
    <3>3. \A p \in ours : \E f \in Own(h[w], r) : pair[f] = p
      BY <2>2
    <3> HIDE DEF pair
    <3>4. pair \in Injection(Own(h[w], r), ours)
      BY <3>1, <3>2 DEF Injection, IsInjective
    <3>5. pair \in Surjection(Own(h[w], r), ours)
      BY <3>1, <3>3 DEF Surjection
    <3>. QED  BY <3>4, <3>5 DEF Bijection
  <2>4. ExistsBijection(Own(h[w], r), ours)
    <3> HIDE DEF pair, ours
    <3>. QED  BY <2>3 DEF ExistsBijection
  <2> HIDE DEF ours
  <2>. QED  BY <2>4, FieldsFinite, FS_Bijection
<1>. QED  BY <1>3, <1>5, <1>6

\* The peers of all widgets but one are the same.
OthersSame(h, g, w) == \A v \in Widgets \ {w} : g[v] = h[v]

\* When one peer changes, those that hold r change by as many as its own fields.
LEMMA HoldingMoved ==
    ASSUME NEW h, NEW g, NEW w \in Widgets, NEW r,
           DOMAIN h[w] \subseteq FieldNames, DOMAIN g[w] \subseteq FieldNames, OthersSame(h, g, w)
    PROVE  Cardinality(Holding(g, r)) =
              Cardinality(Holding(h, r)) - Cardinality(Own(h[w], r)) + Cardinality(Own(g[w], r))
<1> DEFINE others(x) == {p \in Holding(x, r) : p[1] # w}
<1>1. others(g) = others(h)
  BY DEF Holding, OthersSame
<1>2. /\ Cardinality(others(h)) \in Nat
      /\ Cardinality(Holding(h, r)) = Cardinality(others(h)) + Cardinality(Own(h[w], r))
      /\ Cardinality(Holding(g, r)) = Cardinality(others(g)) + Cardinality(Own(g[w], r))
  BY HoldingSplit
<1>3. Cardinality(Own(h[w], r)) \in Nat /\ Cardinality(Own(g[w], r)) \in Nat
  BY FieldsFinite
<1> HIDE DEF others
<1>. QED  BY <1>1, <1>2, <1>3

\* Every peer has its own fields, and the invariant speaks of them only.
LEMMA OwnFields ==
    ASSUME PeerTypes, NEW w \in Widgets
    PROVE  kind[w] \in KindNames /\ DOMAIN held[w] = DOMAIN P!Fields(kind[w]) /\ DOMAIN held[w] \subseteq FieldNames
<1>1. kind[w] \in KindNames
  BY HeldAssumption DEF PeerTypes, KindNames
<1>2. DOMAIN P!Fields(kind[w]) \subseteq FieldNames
  BY <1>1, KindFacts
<1>. QED  BY <1>1, <1>2 DEF PeerTypes, Look

\* The instance has a Cardinality of its own.
LEMMA SameCardinality == \A U : P!Cardinality(U) = Cardinality(U)
  BY DEF P!Cardinality, Cardinality

\* What the invariant counts is what Peers.tla counts.
LEMMA CountsHolding == P!HeldIsCounted <=> AllCounted
<1>1. \A r : P!Cardinality(P!Holders(r)) = Cardinality(Holding(held, r))
  <2>1. \A r : P!Holders(r) = Holding(held, r)
    BY DEF P!Holders, Holding, FieldNames
  <2>. QED  BY <2>1, SameCardinality
<1>. QED  BY <1>1 DEF P!HeldIsCounted, AllCounted, Resources

\* Widgets are finitely many, and so are the fields that hold r.
LEMMA HoldingFinite ==
    ASSUME NEW r
    PROVE  Cardinality(Holding(held, r)) \in Nat
<1>1. Holding(held, r) \in SUBSET (Widgets \X FieldNames)
  BY DEF Holding
<1>2. IsFiniteSet(Widgets \X FieldNames)
  BY HeldAssumption, FieldsFinite, FS_Product
<1>. QED  BY <1>1, <1>2, FS_Subset, FS_CardinalityType

\* HoldingMoved of the peers before and after a step
LEMMA HeldMoved ==
    ASSUME NEW w \in Widgets, NEW r,
           DOMAIN held[w] \subseteq FieldNames, DOMAIN held'[w] \subseteq FieldNames,
           OthersSame(held, held', w)
    PROVE  Cardinality(Holding(held', r)) =
              Cardinality(Holding(held, r)) - Cardinality(Own(held[w], r)) + Cardinality(Own(held'[w], r))
  BY HoldingMoved

\* A step of one peer that counts what it takes and frees, and loses what only some kinds do.
LEMMA PeerStep ==
    ASSUME PeerInv, NEW w \in Widgets, NEW look, Look(kind[w], look),
           held' = [held EXCEPT ![w] = look], UNCHANGED <<kind, script>>,
           count' \in [Resources -> Int], lost' \in [Resources -> Nat],
           \A r \in Resources : count'[r] - count[r] - (lost'[r] - lost[r])
                                   = Cardinality(Own(look, r)) - Cardinality(Own(held[w], r)),
           \A r \in Resources : lost'[r] # lost[r] =>
              IF r \in Fonts THEN kind[w] \in {"menu", "textarea", "textinput"} ELSE kind[w] = "icon"
    PROVE  PeerInv'
<1>1. PeerTypes /\ DOMAIN held = Widgets
  BY DEF PeerInv, PeerTypes
<1>2. held'[w] = look /\ (\A v \in Widgets \ {w} : held'[v] = held[v]) /\ DOMAIN held' = Widgets
  BY <1>1
<1>3. PeerTypes'
  BY <1>1, <1>2 DEF PeerTypes
<1>4. DOMAIN held[w] \subseteq FieldNames /\ DOMAIN look \subseteq FieldNames
  BY <1>1, OwnFields DEF Look
<1>5. ASSUME NEW r \in Resources
      PROVE  count'[r] = script'[r] + lost'[r] + Cardinality(Holding(held', r))
  <2>1. count[r] = script[r] + lost[r] + Cardinality(Holding(held, r))
    BY DEF PeerInv, AllCounted
  <2>2. Cardinality(Holding(held', r)) =
           Cardinality(Holding(held, r)) - Cardinality(Own(held[w], r)) + Cardinality(Own(look, r))
    <3>1. DOMAIN held'[w] \subseteq FieldNames
      BY <1>2, <1>4
    <3>2. OthersSame(held, held', w)
      BY <1>2 DEF OthersSame
    <3>3. Cardinality(Holding(held', r)) =
             Cardinality(Holding(held, r)) - Cardinality(Own(held[w], r)) + Cardinality(Own(held'[w], r))
      BY <1>4, <3>1, <3>2, HeldMoved, Zenon
    <3>. QED  BY <1>2, <3>3
  <2>3. Cardinality(Own(held[w], r)) \in Nat /\ Cardinality(Own(look, r)) \in Nat /\ Cardinality(Holding(held, r)) \in Nat
    <3>1. Cardinality(Holding(held, r)) \in Nat
      BY HoldingFinite
    <3>. QED  BY <1>4, <3>1, FieldsFinite
  <2>4. count[r] \in Int /\ count'[r] \in Int /\ script[r] \in Int /\ lost[r] \in Int /\ lost'[r] \in Int
    BY <1>1 DEF PeerTypes
  <2>5. count'[r] - count[r] - (lost'[r] - lost[r]) = Cardinality(Own(look, r)) - Cardinality(Own(held[w], r))
    OBVIOUS
  <2>. QED  BY <2>1, <2>2, <2>3, <2>4, <2>5
<1>6. ASSUME NEW r \in Resources, lost'[r] > 0
      PROVE  \E v \in Widgets :
                IF r \in Fonts THEN kind'[v] \in {"menu", "textarea", "textinput"} ELSE kind'[v] = "icon"
  <2>1. CASE lost'[r] = lost[r]
    BY <1>6, <2>1 DEF PeerInv, AllCounted
  <2>2. CASE lost'[r] # lost[r]
    BY <2>2
  <2>. QED  BY <2>1, <2>2
<1>7. AllCounted'
  BY <1>5, <1>6 DEF AllCounted, Resources, P!Resources
<1>. QED  BY <1>3, <1>7 DEF PeerInv

\* Disjoint sets of fields add up.
LEMMA TwoParts ==
    ASSUME NEW A \in SUBSET FieldNames, NEW B \in SUBSET FieldNames, A \cap B = {}
    PROVE  /\ Cardinality(A) \in Nat /\ Cardinality(B) \in Nat
           /\ Cardinality(A \cup B) = Cardinality(A) + Cardinality(B)
<1>1. IsFiniteSet(A) /\ IsFiniteSet(B)
  BY FieldsFinite, FS_Subset
<1>2. Cardinality(A) \in Nat /\ Cardinality(B) \in Nat
  BY <1>1, FS_CardinalityType
<1>3. Cardinality(A \cup B) = Cardinality(A) + Cardinality(B) - Cardinality(A \cap B)
  BY <1>1, FS_Union
<1>4. Cardinality(A \cap B) = 0
  BY FS_EmptySet
<1>. QED  BY <1>2, <1>3, <1>4

\* A peer that is skinned holds what it took and what it kept; it held what it kept, what
\* it freed, and what it forgot.
LEMMA SkinStep == ASSUME PeerInv, NEW w \in Widgets, P!Skin(w) PROVE PeerInv'
<1>1. PICK look \in [DOMAIN P!Fields(kind[w]) -> P!Resources \cup {None}] :
        /\ \A f \in DOMAIN look : look[f] \in P!Looks(w, f, look)
        /\ held' = [held EXCEPT ![w] = look]
        /\ count' = [r \in P!Resources |->
              count[r] + P!Cardinality(P!Taken(w, look, r)) - P!Cardinality(P!Freed(w, look, r))]
        /\ lost' = [r \in P!Resources |-> lost[r] + P!Cardinality(P!Replaced(w, look, r))]
        /\ UNCHANGED <<kind, script>>
  BY DEF P!Skin
<1>2. PeerTypes
  BY DEF PeerInv
<1> DEFINE k == kind[w]
           mode == P!Fields(k)
           old == held[w]
<1>3. /\ k \in KindNames /\ DOMAIN old = DOMAIN mode /\ DOMAIN look = DOMAIN mode /\ DOMAIN mode \subseteq FieldNames
      /\ Look(k, old)
  BY <1>1, <1>2, OwnFields DEF PeerTypes
<1>4. /\ \A f \in DOMAIN mode : mode[f] \in {"swap", "first", "over"}
      /\ \A f \in DOMAIN mode : mode[f] = "over" => f = "font" /\ k \in {"menu", "textarea", "textinput"}
      /\ "value" \in DOMAIN mode => "image" \in DOMAIN mode
  BY <1>3, KindFacts
<1>5. Look(k, look)
  <2>1. ASSUME NEW f \in DOMAIN look, f # "value"
        PROVE  look[f] \in (IF f = "font" THEN Fonts ELSE Images) \cup {None}
    BY <1>1, <1>3, <2>1 DEF P!Looks, FieldNames
  <2>2. ASSUME "value" \in DOMAIN look PROVE look["value"] \in Images \cup {None}
    <3>1. look["value"] = look["image"] \/ look["value"] = old["value"]
      BY <1>1, <2>2 DEF P!Looks
    <3>2. look["image"] \in Images \cup {None}
      BY <1>3, <1>4, <2>1, <2>2
    <3>3. old["value"] \in Images \cup {None}
      BY <1>3, <2>2 DEF Look
    <3>. QED  BY <3>1, <3>2, <3>3
  <2>. QED  BY <1>3, <2>1, <2>2 DEF Look
<1>6. ASSUME NEW r \in Resources
      PROVE  /\ Cardinality(P!Taken(w, look, r)) \in Nat /\ Cardinality(P!Freed(w, look, r)) \in Nat
             /\ Cardinality(P!Replaced(w, look, r)) \in Nat
             /\ Cardinality(P!Taken(w, look, r)) - Cardinality(P!Freed(w, look, r)) - Cardinality(P!Replaced(w, look, r))
                   = Cardinality(Own(look, r)) - Cardinality(Own(old, r))
             /\ Cardinality(P!Replaced(w, look, r)) # 0 => r \in Fonts /\ k \in {"menu", "textarea", "textinput"}
  <2> DEFINE taken == P!Taken(w, look, r)
             freed == P!Freed(w, look, r)
             forgot == P!Replaced(w, look, r)
             kept == {f \in DOMAIN look : look[f] = r /\ old[f] = r /\ mode[f] = "swap"}
             left == freed \cup forgot
  <2>1. /\ taken \in SUBSET FieldNames /\ freed \in SUBSET FieldNames
        /\ forgot \in SUBSET FieldNames /\ kept \in SUBSET FieldNames
    BY <1>3 DEF P!Taken, P!Freed, P!Replaced
  <2>2. Own(look, r) = taken \cup kept /\ taken \cap kept = {}
    BY <1>3 DEF Own, P!Taken
  <2>3. Own(old, r) = left \cup kept
    BY <1>3, <1>4 DEF Own, P!Freed, P!Replaced
  <2>4. freed \cap forgot = {} /\ left \cap kept = {}
    BY <1>3 DEF P!Freed, P!Replaced
  <2>5. \A f \in forgot : f = "font" /\ old[f] = r /\ k \in {"menu", "textarea", "textinput"}
    BY <1>3, <1>4 DEF P!Replaced
  <2> HIDE DEF taken, freed, forgot, kept, left, mode, old, k
  <2>6. /\ Cardinality(taken) \in Nat /\ Cardinality(kept) \in Nat
        /\ Cardinality(Own(look, r)) = Cardinality(taken) + Cardinality(kept)
    BY <2>1, <2>2, TwoParts
  <2>7. /\ Cardinality(freed) \in Nat /\ Cardinality(forgot) \in Nat
        /\ Cardinality(left) = Cardinality(freed) + Cardinality(forgot)
    BY <2>1, <2>4, TwoParts DEF left
  <2>8. Cardinality(Own(old, r)) = Cardinality(left) + Cardinality(kept)
    <3>1. left \in SUBSET FieldNames
      BY <2>1 DEF left
    <3>. QED  BY <2>1, <2>3, <2>4, <3>1, TwoParts
  <2>9. ASSUME Cardinality(forgot) # 0 PROVE r \in Fonts /\ k \in {"menu", "textarea", "textinput"}
    <3>1. PICK f : f \in forgot
      BY <2>9, FS_EmptySet
    <3>2. f = "font" /\ old[f] = r /\ k \in {"menu", "textarea", "textinput"}
      BY <2>5, <3>1
    <3>3. f \in DOMAIN old
      BY <1>3, <3>1 DEF forgot, P!Replaced, mode, old
    <3>4. r \in Fonts \cup {None}
      BY <1>3, <3>2, <3>3 DEF Look
    <3>. QED  BY <3>2, <3>4, HeldAssumption DEF Resources, P!Resources
  <2>10. Cardinality(taken) - Cardinality(freed) - Cardinality(forgot) = Cardinality(Own(look, r)) - Cardinality(Own(old, r))
    BY <2>6, <2>7, <2>8
  <2>. QED  BY <2>6, <2>7, <2>9, <2>10 DEF taken, freed, forgot
<1>7. ASSUME NEW r \in Resources
      PROVE  /\ count'[r] = count[r] + Cardinality(P!Taken(w, look, r)) - Cardinality(P!Freed(w, look, r))
             /\ lost'[r] = lost[r] + Cardinality(P!Replaced(w, look, r))
             /\ count[r] \in Int /\ lost[r] \in Nat
  BY <1>1, <1>2, SameCardinality DEF Resources, PeerTypes
<1>8. count' \in [Resources -> Int] /\ lost' \in [Resources -> Nat]
  <2>1. \A r \in Resources : count'[r] \in Int /\ lost'[r] \in Nat
    <3>1. TAKE r \in Resources
    <3>2. /\ Cardinality(P!Taken(w, look, r)) \in Nat /\ Cardinality(P!Freed(w, look, r)) \in Nat
          /\ Cardinality(P!Replaced(w, look, r)) \in Nat
      BY <1>6
    <3>. QED  BY <1>7, <3>2
  <2>. QED  BY <1>1, <2>1 DEF Resources
<1>9. ASSUME NEW r \in Resources
      PROVE  /\ count'[r] - count[r] - (lost'[r] - lost[r]) = Cardinality(Own(look, r)) - Cardinality(Own(held[w], r))
             /\ lost'[r] # lost[r] => r \in Fonts /\ kind[w] \in {"menu", "textarea", "textinput"}
  <2>1. /\ Cardinality(P!Taken(w, look, r)) \in Nat /\ Cardinality(P!Freed(w, look, r)) \in Nat
        /\ Cardinality(P!Replaced(w, look, r)) \in Nat
    BY <1>6
  <2>2. Cardinality(P!Taken(w, look, r)) - Cardinality(P!Freed(w, look, r)) - Cardinality(P!Replaced(w, look, r))
           = Cardinality(Own(look, r)) - Cardinality(Own(old, r))
    BY <1>6
  <2>3. Cardinality(P!Replaced(w, look, r)) # 0 => r \in Fonts /\ k \in {"menu", "textarea", "textinput"}
    BY <1>6
  <2> DEFINE x == Cardinality(Own(look, r)) - Cardinality(Own(old, r))
  <2>4. Cardinality(P!Taken(w, look, r)) - Cardinality(P!Freed(w, look, r)) - Cardinality(P!Replaced(w, look, r)) = x
    BY <2>2
  <2> HIDE DEF x
  <2>5. count'[r] - count[r] - (lost'[r] - lost[r]) = x
    BY <1>7, <2>1, <2>4
  <2>6. lost'[r] # lost[r] => r \in Fonts /\ k \in {"menu", "textarea", "textinput"}
    BY <1>7, <2>1, <2>3
  <2>. QED  BY <2>5, <2>6 DEF x
<1>. QED  BY <1>1, <1>5, <1>8, <1>9, PeerStep

\* A peer that is collected gives back what its gc function names and leaves the rest.
LEMMA CollectStep == ASSUME PeerInv, NEW w \in Widgets, P!Collect(w) PROVE PeerInv'
<1> DEFINE k == kind[w]
           old == held[w]
           look == P!Nothing(w)
           back(r) == {f \in P!Collected(k) : old[f] = r}
           left(r) == {f \in DOMAIN old \ P!Collected(k) : old[f] = r}
<1>1. /\ held' = [held EXCEPT ![w] = look]
      /\ count' = [r \in P!Resources |-> count[r] - P!Cardinality(back(r))]
      /\ lost' = [r \in P!Resources |-> lost[r] + P!Cardinality(left(r))]
      /\ UNCHANGED <<kind, script>>
  BY DEF P!Collect
<1>2. PeerTypes
  BY DEF PeerInv
<1>3. k \in KindNames /\ DOMAIN old = DOMAIN P!Fields(k) /\ DOMAIN old \subseteq FieldNames /\ Look(k, old)
  BY <1>2, OwnFields DEF PeerTypes
<1>4. /\ P!Collected(k) \subseteq DOMAIN old
      /\ \A f \in DOMAIN old : f \notin P!Collected(k) => f = "tile" /\ k = "icon"
  BY <1>3, KindFacts
<1>5. Look(k, look) /\ \A r \in Resources : Own(look, r) = {}
  BY HeldAssumption DEF Look, Own, P!Nothing, Resources, P!Resources
<1>6. ASSUME NEW r \in Resources
      PROVE  /\ Cardinality(back(r)) \in Nat /\ Cardinality(left(r)) \in Nat
             /\ Cardinality(Own(old, r)) = Cardinality(back(r)) + Cardinality(left(r))
             /\ Cardinality(left(r)) # 0 => r \notin Fonts /\ k = "icon"
  <2>1. /\ back(r) \in SUBSET FieldNames /\ left(r) \in SUBSET FieldNames
        /\ back(r) \cap left(r) = {} /\ Own(old, r) = back(r) \cup left(r)
    BY <1>3, <1>4 DEF Own
  <2>2. \A f \in left(r) : f = "tile" /\ k = "icon" /\ f \in DOMAIN old /\ old[f] = r
    BY <1>4
  <2> HIDE DEF back, left, k, old
  <2>3. ASSUME Cardinality(left(r)) # 0 PROVE r \notin Fonts /\ k = "icon"
    <3>1. PICK f : f \in left(r)
      BY <2>3, FS_EmptySet
    <3>2. f = "tile" /\ k = "icon" /\ f \in DOMAIN old /\ old[f] = r
      BY <2>2, <3>1
    <3>3. r \in Images \cup {None}
      BY <1>3, <3>2 DEF Look
    <3>. QED  BY <3>2, <3>3, HeldAssumption
  <2>. QED  BY <2>1, <2>3, TwoParts
<1> HIDE DEF back, left, look
<1>7. ASSUME NEW r \in Resources
      PROVE  /\ count'[r] = count[r] - Cardinality(back(r)) /\ lost'[r] = lost[r] + Cardinality(left(r))
             /\ count[r] \in Int /\ lost[r] \in Nat
  BY <1>1, <1>2, SameCardinality DEF Resources, PeerTypes
<1>8. count' \in [Resources -> Int] /\ lost' \in [Resources -> Nat]
  <2>1. \A r \in Resources : count'[r] \in Int /\ lost'[r] \in Nat
    BY <1>6, <1>7
  <2>. QED  BY <1>1, <2>1 DEF Resources
<1>9. ASSUME NEW r \in Resources
      PROVE  /\ count'[r] - count[r] - (lost'[r] - lost[r]) = Cardinality(Own(look, r)) - Cardinality(Own(held[w], r))
             /\ lost'[r] # lost[r] => r \notin Fonts /\ kind[w] = "icon"
  <2>1. Cardinality(Own(look, r)) = 0
    BY <1>5, FS_EmptySet
  <2>. QED  BY <1>6, <1>7, <2>1
<1>. QED  BY <1>1, <1>5, <1>8, <1>9, PeerStep

\* An icon takes another image for the one that it shows.
LEMMA SetImageStep == ASSUME PeerInv, NEW w \in Widgets, P!SetImage(w) PROVE PeerInv'
<1>1. PICK q \in Images :
        /\ kind[w] = "icon" /\ held[w].value # q
        /\ held' = [held EXCEPT ![w].value = q]
        /\ count' = [r \in P!Resources |->
              count[r] + (IF r = q THEN 1 ELSE 0) - (IF r = held[w].value THEN 1 ELSE 0)]
        /\ UNCHANGED <<kind, script, lost>>
  BY DEF P!SetImage
<1>2. PeerTypes
  BY DEF PeerInv
<1> DEFINE old == held[w]
           look == [old EXCEPT !["value"] = q]
<1>3. /\ kind[w] \in KindNames /\ DOMAIN old = DOMAIN P!Fields(kind[w]) /\ DOMAIN old \subseteq FieldNames
      /\ Look(kind[w], old)
  BY <1>2, OwnFields DEF PeerTypes
<1>4. "value" \in DOMAIN old
  BY <1>1, <1>3, KindFacts
<1>5. held' = [held EXCEPT ![w] = look]
  BY <1>1, <1>2 DEF PeerTypes
<1>6. DOMAIN look = DOMAIN old /\ look["value"] = q /\ \A f \in DOMAIN old : f # "value" => look[f] = old[f]
  BY <1>4
<1> HIDE DEF look
<1>7. Look(kind[w], look)
  BY <1>3, <1>6 DEF Look
<1>8. ASSUME NEW r \in Resources
      PROVE  Cardinality(Own(look, r)) - Cardinality(Own(old, r))
                = (IF r = q THEN 1 ELSE 0) - (IF r = old["value"] THEN 1 ELSE 0)
  <2>1. /\ IsFiniteSet(Own(look, r)) /\ Cardinality(Own(look, r)) \in Nat
        /\ IsFiniteSet(Own(old, r)) /\ Cardinality(Own(old, r)) \in Nat
    BY <1>3, <1>6, FieldsFinite
  <2>2. CASE r = q
    <3>1. Own(look, r) = Own(old, r) \cup {"value"} /\ "value" \notin Own(old, r) /\ r # old["value"]
      BY <1>1, <1>4, <1>6, <2>2 DEF Own
    <3>2. Cardinality(Own(look, r)) = Cardinality(Own(old, r)) + 1
      BY <2>1, <3>1, FS_AddElement
    <3>. QED  BY <2>1, <2>2, <3>1, <3>2
  <2>3. CASE r = old["value"]
    <3>1. Own(look, r) = Own(old, r) \ {"value"} /\ "value" \in Own(old, r) /\ r # q
      BY <1>1, <1>4, <1>6, <2>3 DEF Own
    <3>2. Cardinality(Own(look, r)) = Cardinality(Own(old, r)) - 1
      BY <2>1, <3>1, FS_RemoveElement
    <3>. QED  BY <2>1, <2>3, <3>1, <3>2
  <2>4. CASE r # q /\ r # old["value"]
    <3>1. Own(look, r) = Own(old, r)
      BY <1>4, <1>6, <2>4 DEF Own
    <3>. QED  BY <2>1, <2>4, <3>1
  <2>. QED  BY <2>2, <2>3, <2>4
<1>9. ASSUME NEW r \in Resources
      PROVE  /\ count'[r] = count[r] + (IF r = q THEN 1 ELSE 0) - (IF r = old["value"] THEN 1 ELSE 0)
             /\ count[r] \in Int /\ lost'[r] = lost[r] /\ lost[r] \in Nat
  BY <1>1, <1>2 DEF Resources, PeerTypes
<1>10. count' \in [Resources -> Int] /\ lost' \in [Resources -> Nat]
  <2>1. \A r \in Resources : count'[r] \in Int
    BY <1>9
  <2>. QED  BY <1>1, <1>2, <2>1 DEF Resources, PeerTypes
<1>11. ASSUME NEW r \in Resources
       PROVE  count'[r] - count[r] - (lost'[r] - lost[r]) = Cardinality(Own(look, r)) - Cardinality(Own(held[w], r))
  BY <1>8, <1>9
<1>12. UNCHANGED <<kind, script>> /\ \A r \in Resources : lost'[r] = lost[r]
  BY <1>1
<1>. QED  BY <1>5, <1>7, <1>10, <1>11, <1>12, PeerStep

\* Lua takes a reference, or gives it back.
LEMMA ScriptStep == ASSUME PeerInv, NEW r \in Resources, P!Load(r) \/ P!Drop(r) PROVE PeerInv'
<1>1. PeerTypes
  BY DEF PeerInv
<1>2. UNCHANGED <<kind, held, lost>>
  BY DEF P!Load, P!Drop
<1>3. /\ count' \in [Resources -> Int] /\ script' \in [Resources -> {0, 1}]
      /\ \A q \in Resources : count'[q] - count[q] = script'[q] - script[q]
  <2>1. script \in [Resources -> {0, 1}] /\ count \in [Resources -> Int]
    BY <1>1 DEF PeerTypes
  <2>2. CASE P!Load(r)
    BY <2>1, <2>2 DEF P!Load
  <2>3. CASE P!Drop(r)
    <3>1. script[r] = 1
      BY <2>1, <2>3 DEF P!Drop
    <3>. QED  BY <2>1, <2>3, <3>1 DEF P!Drop
  <2>. QED  BY <2>2, <2>3
<1>4. PeerTypes'
  BY <1>1, <1>2, <1>3 DEF PeerTypes
<1>5. ASSUME NEW q \in Resources
      PROVE  /\ count'[q] = script'[q] + lost'[q] + Cardinality(Holding(held', q))
             /\ lost'[q] > 0 => \E w \in Widgets :
                   IF q \in Fonts THEN kind'[w] \in {"menu", "textarea", "textinput"} ELSE kind'[w] = "icon"
  <2>1. /\ count[q] = script[q] + lost[q] + Cardinality(Holding(held, q))
        /\ lost[q] > 0 => \E w \in Widgets :
              IF q \in Fonts THEN kind[w] \in {"menu", "textarea", "textinput"} ELSE kind[w] = "icon"
    BY DEF PeerInv, AllCounted
  <2>2. Cardinality(Holding(held', q)) = Cardinality(Holding(held, q))
    BY <1>2
  <2>3. count[q] \in Int /\ count'[q] \in Int /\ script[q] \in Int /\ script'[q] \in Int /\ lost[q] \in Int
    BY <1>1, <1>3 DEF PeerTypes
  <2>4. Cardinality(Holding(held, q)) \in Nat
    BY HoldingFinite
  <2>. QED  BY <1>2, <1>3, <2>1, <2>2, <2>3, <2>4
<1>6. AllCounted'
  BY <1>5 DEF AllCounted, Resources, P!Resources
<1>. QED  BY <1>4, <1>6 DEF PeerInv

\* For any widgets, fonts and images, what the peers hold is counted, and only the fonts
\* of menus, textareas and textinputs and the tiles of icons are ever kept for nobody
\* (the _skin and gc functions of jive_label.c, jive_icon.c and the other widgets).
THEOREM HeldPeersCounted == P!Spec => []P!HeldIsCounted
<1>1. P!Init => PeerInv
  <2> SUFFICES ASSUME P!Init PROVE PeerInv
    OBVIOUS
  <2>1. ASSUME NEW w \in Widgets PROVE Look(kind[w], held[w]) /\ \A f \in DOMAIN held[w] : held[w][f] = None
    BY <2>1 DEF P!Init, P!Nothing, Look
  <2>2. PeerTypes
    BY <2>1 DEF P!Init, PeerTypes, Resources
  <2>3. ASSUME NEW r \in Resources PROVE Cardinality(Holding(held, r)) = 0
    <3>1. Holding(held, r) = {}
      BY <2>1, HeldAssumption DEF Holding, Resources, P!Resources
    <3>. QED  BY <3>1, FS_EmptySet
  <2>4. \A r \in Resources : count[r] = 0 /\ script[r] = 0 /\ lost[r] = 0
    BY DEF P!Init, Resources
  <2>. QED  BY <2>2, <2>3, <2>4 DEF PeerInv, AllCounted
<1>2. PeerInv /\ [P!Next]_(P!vars) => PeerInv'
  <2> SUFFICES ASSUME PeerInv, [P!Next]_(P!vars) PROVE PeerInv'
    OBVIOUS
  <2>1. CASE UNCHANGED P!vars
    BY <2>1 DEF P!vars, PeerInv, PeerTypes, AllCounted
  <2>2. CASE P!Next
    BY <2>2, ScriptStep, SkinStep, SetImageStep, CollectStep DEF P!Next, Resources
  <2>. QED  BY <2>1, <2>2
<1>3. PeerInv => P!HeldIsCounted
  BY CountsHolding DEF PeerInv
<1>. QED  BY <1>1, <1>2, <1>3, PTL DEF P!Spec

-----------------------------------------------------------------------------
(* Memory shared with a player *)

BlockContents == [used : BOOLEAN, running : BOOLEAN, updated : 0 .. MaxTime, writer : BOOLEAN, readers : 0 .. 1]

\* While there is a player, its block has the name: it writes to nothing else.
PlayerNamed == player # "off" => named \in Blocks

\* The inductive invariant
MeterInv == V!TypeOK /\ V!ReadsMapped /\ V!LocksGivenBack /\ PlayerNamed

\* None is no block; times are natural numbers.
LEMMA MeterAssumption == None \notin Blocks /\ Recent \in Nat /\ MaxTime \in Nat
  BY HeldAssumption

\* Nothing is mapped or locked at first.
LEMMA MeterInit == V!Init => MeterInv
<1> SUFFICES ASSUME V!Init PROVE MeterInv
  OBVIOUS
<1>1. V!Fresh \in BlockContents
  BY MeterAssumption DEF V!Fresh, BlockContents
<1>2. V!TypeOK
  <2>1. block \in [Blocks -> BlockContents]
    BY <1>1 DEF V!Init
  <2>2. now \in 0 .. MaxTime /\ lastopen = -Recent - 1
    BY MeterAssumption DEF V!Init
  <2>. QED  BY <2>1, <2>2 DEF V!Init, V!TypeOK, BlockContents
<1>3. \A b \in Blocks : block[b].readers = 0
  BY DEF V!Init, V!Fresh
<1>. QED  BY <1>2, <1>3 DEF V!Init, MeterInv, V!ReadsMapped, V!LocksGivenBack, PlayerNamed

\* What the player does to its block leaves the readers of every block as they were.
LEMMA PlayerSteps == MeterInv /\ (V!Start \/ V!BeginWrite \/ V!EndWrite \/ V!Stop \/ V!Die) => MeterInv'
<1> SUFFICES ASSUME MeterInv, V!Start \/ V!BeginWrite \/ V!EndWrite \/ V!Stop \/ V!Die PROVE MeterInv'
  OBVIOUS
<1> USE MeterAssumption DEF MeterInv
<1>1. UNCHANGED <<now, mapped, running, lastopen, meter>>
  BY DEF V!Start, V!BeginWrite, V!EndWrite, V!Stop, V!Die
<1>2. PlayerNamed' /\ named' \in Blocks \cup {None} /\ player' \in {"off", "on", "writing"}
  BY DEF V!Start, V!BeginWrite, V!EndWrite, V!Stop, V!Die, PlayerNamed, V!TypeOK
<1>3. block' \in [Blocks -> BlockContents] /\ \A b \in Blocks : block'[b].readers = block[b].readers
  <2>1. block \in [Blocks -> BlockContents] /\ now \in 0 .. MaxTime
    BY DEF V!TypeOK, BlockContents
  <2>2. CASE V!Start
    <3>1. PICK b \in Blocks : block' = [block EXCEPT ![b].used = TRUE, ![b].updated = now]
      BY <2>2 DEF V!Start
    <3>. QED  BY <2>1, <3>1 DEF BlockContents
  <2>3. CASE V!BeginWrite
    <3>1. named \in Blocks /\ block' = [block EXCEPT ![named].writer = TRUE]
      BY <2>3 DEF V!BeginWrite, PlayerNamed
    <3>. QED  BY <2>1, <3>1 DEF BlockContents
  <2>4. CASE V!EndWrite
    <3>1. named \in Blocks
      BY <2>4 DEF V!EndWrite, PlayerNamed
    <3>2. PICK playing \in BOOLEAN :
            block' = [block EXCEPT ![named].writer = FALSE, ![named].running = playing, ![named].updated = now]
      BY <2>4 DEF V!EndWrite
    <3>. QED  BY ZenonT(60), <2>1, <3>1, <3>2 DEF BlockContents
  <2>5. CASE V!Stop \/ V!Die
    BY <2>1, <2>5 DEF V!Stop, V!Die
  <2>. QED  BY <2>2, <2>3, <2>4, <2>5
<1>5. V!TypeOK'
  BY <1>1, <1>2, <1>3 DEF V!TypeOK, BlockContents
<1>6. V!ReadsMapped' /\ V!LocksGivenBack'
  BY <1>1, <1>3 DEF V!ReadsMapped, V!LocksGivenBack
<1>. QED  BY <1>2, <1>5, <1>6

\* A meter maps another block only while it holds no lock.
LEMMA CheckSteps == MeterInv /\ (V!Check \/ V!Look \/ V!Playback) => MeterInv'
<1> SUFFICES ASSUME MeterInv, V!Check \/ V!Look \/ V!Playback PROVE MeterInv'
  OBVIOUS
<1> USE MeterAssumption DEF MeterInv
<1>1. UNCHANGED <<now, named, player, block>>
  BY DEF V!Check, V!Look, V!Playback
<1>2. meter # "reading" /\ meter' \in {"idle", "checking", "checked", "locking"}
  BY DEF V!Check, V!Look, V!Playback
<1>3. mapped' \in {mapped, named} /\ lastopen' \in {lastopen, now}
  BY DEF V!Check, V!Look, V!Playback, V!Reopen
<1>4. meter' \in {"checking", "locking"} => mapped' # None
  BY DEF V!Check, V!Look, V!Playback, V!Playing
<1>5. running' \in BOOLEAN
  <2>1. CASE V!Look
    BY <2>1 DEF V!Look, V!ReadsMapped, V!TypeOK
  <2>2. CASE V!Check \/ V!Playback
    BY <2>2 DEF V!Check, V!Playback, V!TypeOK
  <2>. QED  BY <2>1, <2>2
<1>6. V!TypeOK'
  BY <1>1, <1>2, <1>3, <1>5 DEF V!TypeOK
<1>7. V!ReadsMapped' /\ V!LocksGivenBack' /\ PlayerNamed'
  BY <1>1, <1>2, <1>4 DEF V!ReadsMapped, V!LocksGivenBack, PlayerNamed
<1>. QED  BY <1>6, <1>7

\* The lock that is taken is given back on the same block.
LEMMA LockSteps == MeterInv /\ (V!Lock \/ V!Unlock) => MeterInv'
<1> SUFFICES ASSUME MeterInv, V!Lock \/ V!Unlock PROVE MeterInv'
  OBVIOUS
<1> USE MeterAssumption DEF MeterInv
<1>1. UNCHANGED <<now, named, player, mapped, running, lastopen>>
  BY DEF V!Lock, V!Unlock
<1>2. mapped \in Blocks
  BY DEF V!Lock, V!Unlock, V!ReadsMapped, V!TypeOK
<1>3. CASE V!Lock
  <2>1. \A b \in Blocks : block[b].readers = 0
    BY <1>3 DEF V!Lock, V!LocksGivenBack, V!TypeOK
  <2>2. block'[mapped].readers = 1 /\ \A b \in Blocks \ {mapped} : block'[b] = block[b]
    BY <1>2, <1>3, <2>1 DEF V!Lock, V!TypeOK
  <2>3. block' \in [Blocks -> BlockContents]
    BY <1>2, <1>3, <2>1 DEF V!Lock, V!TypeOK, BlockContents
  <2>4. V!TypeOK'
    BY <1>1, <1>3, <2>3 DEF V!Lock, V!TypeOK, BlockContents
  <2>5. V!ReadsMapped' /\ V!LocksGivenBack' /\ PlayerNamed'
    BY <1>1, <1>2, <1>3, <2>1, <2>2 DEF V!Lock, V!ReadsMapped, V!LocksGivenBack, PlayerNamed
  <2>. QED  BY <2>4, <2>5
<1>4. CASE V!Unlock
  <2>1. block[mapped].readers = 1 /\ \A b \in Blocks \ {mapped} : block[b].readers = 0
    BY <1>2, <1>4 DEF V!Unlock, V!LocksGivenBack, V!TypeOK
  <2>2. block'[mapped].readers = 0 /\ \A b \in Blocks \ {mapped} : block'[b] = block[b]
    BY <1>2, <1>4, <2>1 DEF V!Unlock, V!TypeOK
  <2>3. block' \in [Blocks -> BlockContents]
    BY <1>2, <1>4, <2>1 DEF V!Unlock, V!TypeOK, BlockContents
  <2>4. V!TypeOK'
    BY <1>1, <1>4, <2>3 DEF V!Unlock, V!TypeOK, BlockContents
  <2>5. V!ReadsMapped' /\ V!LocksGivenBack' /\ PlayerNamed'
    BY <1>1, <1>2, <1>4, <2>1, <2>2 DEF V!Unlock, V!ReadsMapped, V!LocksGivenBack, PlayerNamed
  <2>. QED  BY <2>4, <2>5
<1>. QED  BY <1>3, <1>4

\* For any number of blocks, meters read only what is mapped (vis_check, vis_get_playing),
\* and the player never waits for a meter that has left its block (vis_lock, vis_unlock).
THEOREM MetersLeaveNoLock == V!Spec => []V!SharedMemory
<1>1. V!Init => MeterInv
  BY MeterInit
<1>2. MeterInv /\ [V!Next]_(V!vars) => MeterInv'
  <2> SUFFICES ASSUME MeterInv, [V!Next]_(V!vars) PROVE MeterInv'
    OBVIOUS
  <2>1. CASE V!Start \/ V!BeginWrite \/ V!EndWrite \/ V!Stop \/ V!Die
    BY <2>1, PlayerSteps
  <2>2. CASE V!Check \/ V!Look \/ V!Playback
    BY <2>2, CheckSteps
  <2>3. CASE V!Lock \/ V!Unlock
    BY <2>3, LockSteps
  <2>4. CASE V!Tick
    BY <2>4, MeterAssumption DEF V!Tick, MeterInv, V!TypeOK, V!ReadsMapped, V!LocksGivenBack, PlayerNamed
  <2>5. CASE UNCHANGED V!vars
    BY <2>5 DEF V!vars, MeterInv, V!TypeOK, V!ReadsMapped, V!LocksGivenBack, PlayerNamed
  <2>. QED  BY <2>1, <2>2, <2>3, <2>4, <2>5 DEF V!Next
<1>3. MeterInv => V!SharedMemory
  BY DEF MeterInv, V!SharedMemory
<1>. QED  BY <1>1, <1>2, <1>3, PTL DEF V!Spec

-----------------------------------------------------------------------------
(* All three *)

\* Whatever is held is there: fonts are open, references are counted, shared memory is
\* mapped and unlocked (jive_font.c, the peers of the widgets, visualizer.c).
THEOREM HeldCorrect == HeldSpec => []HeldIsThere
<1>1. F!HeldIsOpen /\ P!HeldIsCounted /\ V!SharedMemory => HeldIsThere
  BY DEF HeldIsThere
<1>. QED  BY <1>1, HeldFontsOpen, HeldPeersCounted, MetersLeaveNoLock, PTL DEF HeldSpec

-----------------------------------------------------------------------------
(* Styles *)

\* A set of natural numbers that is not empty has a smallest one.
LEMMA Smallest == ASSUME NEW T \in SUBSET Nat, T # {} PROVE \E i \in T : \A j \in T : i <= j
<1> DEFINE R == OpToRel(<, Nat)
<1>1. \A x \in T, y \in T : <<y, x>> \in R <=> y < x
  BY DEF OpToRel
<1>2. IsWellFoundedOn(R, Nat)
  BY NatLessThanWellFounded
<1> HIDE DEF R
<1>3. \E x \in T : \A y \in T : ~(<<y, x>> \in R)
  BY <1>2, WFMin
<1>4. \E x \in T : \A y \in T : ~(y < x)
  BY <1>1, <1>3
<1>. QED  BY <1>4

Styled == {Chain[i] : i \in DOMAIN Chain}

\* The paths of the first n widgets of the chain
Paths_(st, md, n, to) ==
    to = [i \in 0 .. n |-> IF i = 0 THEN <<>> ELSE to[i - 1] \o S!Part(st, md, Chain[i])]

\* The recursion of PathOf has a solution.
LEMMA PathsExist == ASSUME NEW st, NEW md PROVE \E to : Paths_(st, md, Len(Chain), to)
<1> DEFINE T == {n \in 0 .. Len(Chain) : ~ \E to : Paths_(st, md, n, to)}
<1>1. Len(Chain) \in Nat
  BY ChainAssumption DEF S!ChainAssumption
<1>2. SUFFICES ASSUME T # {} PROVE FALSE
  BY <1>1
<1>3. PICK n \in T : \A m \in T : n <= m
  <2>1. T \in SUBSET Nat
    BY <1>1
  <2> HIDE DEF T
  <2>. QED  BY <1>2, <2>1, Smallest
<1>4. n # 0
  <2>1. Paths_(st, md, 0, [i \in 0 .. 0 |-> <<>>])
    BY DEF Paths_
  <2>. QED  BY <2>1
<1>5. n - 1 \in 0 .. Len(Chain) /\ ~ (n <= n - 1)
  BY <1>1, <1>4
<1>6. PICK to : Paths_(st, md, n - 1, to)
  BY <1>3, <1>5
<1> DEFINE h == [i \in 0 .. n |-> IF i < n THEN to[i] ELSE to[n - 1] \o S!Part(st, md, Chain[n])]
<1>7. \A i \in 0 .. n : h[i] = IF i = 0 THEN <<>> ELSE h[i - 1] \o S!Part(st, md, Chain[i])
  <2>1. TAKE i \in 0 .. n
  <2>2. CASE i = n
    BY <1>4, <1>5, <2>2
  <2>3. CASE i < n
    <3>1. i \in 0 .. n - 1 /\ (i # 0 => i - 1 \in 0 .. n /\ i - 1 < n)
      BY <1>5, <2>3
    <3>2. to[i] = IF i = 0 THEN <<>> ELSE to[i - 1] \o S!Part(st, md, Chain[i])
      BY <1>6, <3>1 DEF Paths_
    <3>. QED  BY <2>3, <3>1, <3>2
  <2>. QED  BY <1>5, <2>2, <2>3
<1>8. Paths_(st, md, n, h)
  BY <1>7 DEF Paths_
<1>. QED  BY <1>3, <1>8

\* Two widgets of the chain are at different places.
LEMMA PlaceInChain ==
    ASSUME NEW w \in Styled
    PROVE  /\ S!At(w) \in 1 .. Len(Chain) /\ Chain[S!At(w)] = w
           /\ \A i \in DOMAIN Chain : Chain[i] = w => i = S!At(w)
<1>1. \E i \in DOMAIN Chain : Chain[i] = w
  BY DEF Styled
<1>2. S!At(w) \in DOMAIN Chain /\ Chain[S!At(w)] = w
  BY <1>1 DEF S!At
<1>3. DOMAIN Chain = 1 .. Len(Chain)
  BY ChainAssumption DEF S!ChainAssumption
<1>. QED  BY <1>2, <1>3, ChainAssumption DEF S!ChainAssumption

\* The styles and modifiers of the first n widgets of the chain are the same.
SameUpTo(st, md, st2, md2, n) ==
    \A i \in 1 .. n : S!Part(st, md, Chain[i]) = S!Part(st2, md2, Chain[i])

\* A path depends on nothing below its widget.
LEMMA PathFromAbove ==
    ASSUME NEW st, NEW md, NEW st2, NEW md2, NEW w \in Styled, SameUpTo(st, md, st2, md2, S!At(w))
    PROVE  S!PathOf(st, md, w) = S!PathOf(st2, md2, w)
<1> DEFINE f == CHOOSE to : Paths_(st, md, Len(Chain), to)
           g == CHOOSE to : Paths_(st2, md2, Len(Chain), to)
           n == S!At(w)
<1>1. Paths_(st, md, Len(Chain), f) /\ Paths_(st2, md2, Len(Chain), g)
  BY PathsExist
<1>2. S!PathOf(st, md, w) = f[n] /\ S!PathOf(st2, md2, w) = g[n]
  BY DEF S!PathOf, Paths_
<1> HIDE DEF f, g
<1>3. n \in 1 .. Len(Chain) /\ Len(Chain) \in Nat
  BY PlaceInChain, ChainAssumption DEF S!ChainAssumption
<1> HIDE DEF n
<1> DEFINE T == {k \in 0 .. n : f[k] # g[k]}
<1>4. SUFFICES ASSUME T # {} PROVE FALSE
  BY <1>2, <1>3
<1>5. PICK k \in T : \A m \in T : k <= m
  <2>1. T \in SUBSET Nat
    BY <1>3
  <2> HIDE DEF T
  <2>. QED  BY <1>4, <2>1, Smallest
<1>6. k \in 0 .. Len(Chain) /\ k \in 0 .. n
  BY <1>3
<1>7. /\ f[k] = IF k = 0 THEN <<>> ELSE f[k - 1] \o S!Part(st, md, Chain[k])
      /\ g[k] = IF k = 0 THEN <<>> ELSE g[k - 1] \o S!Part(st2, md2, Chain[k])
  BY <1>1, <1>6 DEF Paths_
<1>8. k # 0
  BY <1>5, <1>7
<1>9. k - 1 \in 0 .. n /\ ~ (k <= k - 1) /\ k \in 1 .. n
  BY <1>3, <1>6, <1>8
<1>10. f[k - 1] = g[k - 1]
  BY <1>5, <1>9
<1>11. S!Part(st, md, Chain[k]) = S!Part(st2, md2, Chain[k])
  BY <1>9 DEF SameUpTo, n
<1>. QED  BY <1>5, <1>7, <1>8, <1>10, <1>11

\* The inductive invariant: the property and the types it speaks of
StyleInv ==
    /\ style \in [Styled -> Styles] /\ modifier \in [Styled -> Styles \cup {None}]
    /\ skinned \in [Styled -> BOOLEAN] /\ DOMAIN shown = Styled
    /\ LooksAsStyled

\* Nothing is cached and no widget is skinned at first.
LEMMA StyleInit == S!Init => StyleInv
  BY DEF S!Init, StyleInv, LooksAsStyled, S!LooksAsStyled, Styled

\* A style or modifier of w changes: the path of a widget above w does not.
LEMMA PathAboveKept ==
    ASSUME StyleInv, NEW w \in Styled, NEW v \in Styled, S!At(v) < S!At(w),
           \A u \in Styled \ {w} : style'[u] = style[u] /\ modifier'[u] = modifier[u]
    PROVE  S!PathOf(style', modifier', v) = S!PathOf(style, modifier, v)
<1> DEFINE st == style'
           md == modifier'
<1>1. \A i \in 1 .. S!At(v) : Chain[i] \in Styled \ {w}
  <2>1. S!At(v) \in 1 .. Len(Chain) /\ S!At(w) \in 1 .. Len(Chain) /\ Chain[S!At(w)] = w
    BY PlaceInChain
  <2>2. Len(Chain) \in Nat /\ DOMAIN Chain = 1 .. Len(Chain)
    BY ChainAssumption DEF S!ChainAssumption
  <2>3. TAKE i \in 1 .. S!At(v)
  <2>4. i \in DOMAIN Chain /\ i # S!At(w)
    BY <2>1, <2>2
  <2>. QED  BY <2>4, PlaceInChain DEF Styled
<1>2. SameUpTo(st, md, style, modifier, S!At(v))
  BY <1>1 DEF SameUpTo, S!Part
<1> HIDE DEF st, md
<1>3. S!PathOf(st, md, v) = S!PathOf(style, modifier, v)
  BY <1>2, PathFromAbove
<1>. QED  BY <1>3 DEF st, md

\* A widget whose style changes and its children are skinned again: those above it keep
\* their paths, and those further below are marked.
LEMMA RestyledStep ==
    ASSUME StyleInv, NEW w \in Styled, S!Restyled(w),
           style' \in [Styled -> Styles] /\ modifier' \in [Styled -> Styles \cup {None}],
           \A u \in Styled \ {w} : style'[u] = style[u] /\ modifier'[u] = modifier[u]
    PROVE  StyleInv'
<1>1. skinned' \in [Styled -> BOOLEAN] /\ DOMAIN shown' = Styled
  BY DEF StyleInv, S!Restyled, S!ReSkin, Styled
<1>2. \A p \in DOMAIN cache' : cache'[p] = S!Find(skin', p)
  BY DEF StyleInv, LooksAsStyled, S!LooksAsStyled, S!Restyled
<1>3. ASSUME NEW v \in Styled, v \notin missed', skinned'[v]
      PROVE  shown'[v] = S!Value(S!Find(skin', S!PathOf(style', modifier', v)), S!PathOf(style', modifier', v))
  <2>1. skinned[v] /\ S!At(v) \notin {S!At(w), S!At(w) + 1}
    BY <1>3 DEF StyleInv, S!Restyled, S!ReSkin, Styled
  <2>2. v \notin missed /\ ~ (S!At(v) > S!At(w) + 1)
    BY <1>3 DEF S!Restyled, Styled
  <2>3. S!At(v) < S!At(w)
    <3>1. S!At(v) \in 1 .. Len(Chain) /\ S!At(w) \in 1 .. Len(Chain) /\ Len(Chain) \in Nat
      BY PlaceInChain, ChainAssumption DEF S!ChainAssumption
    <3>. QED  BY <2>1, <2>2, <3>1
  <2>4. S!PathOf(style', modifier', v) = S!PathOf(style, modifier, v)
    BY <2>3, PathAboveKept
  <2>5. shown[v] = S!Value(S!Find(skin, S!Path(v)), S!Path(v))
    BY <2>1, <2>2 DEF StyleInv, LooksAsStyled, S!LooksAsStyled, Styled
  <2>. QED  BY <2>4, <2>5 DEF S!Restyled, S!Path
<1>. QED  BY <1>1, <1>2, <1>3 DEF StyleInv, LooksAsStyled, S!LooksAsStyled, S!Path, S!Value, Styled

\* A frame skins every widget that needs it, with the values that the skin gives now.
LEMMA FrameSkins == StyleInv /\ S!Frame => StyleInv'
<1> SUFFICES ASSUME StyleInv, S!Frame PROVE StyleInv'
  OBVIOUS
<1>1. skinned' \in [Styled -> BOOLEAN] /\ DOMAIN shown' = Styled
  BY DEF S!Frame, Styled
<1>2. style' = style /\ modifier' = modifier /\ skin' = skin
  BY DEF S!Frame
<1>3. \A p \in DOMAIN cache : cache[p] = S!Find(skin, p)
  BY DEF StyleInv, LooksAsStyled, S!LooksAsStyled
<1>4. \A p : S!Cached(cache, p) = S!Find(skin, p)
  BY <1>3 DEF S!Cached
<1>5. \A p \in DOMAIN cache' : cache'[p] = S!Find(skin, p)
  BY <1>4 DEF S!Frame
<1>6. ASSUME NEW v \in Styled, v \notin missed'
      PROVE  shown'[v] = S!Value(S!Find(skin, S!Path(v)), S!Path(v))
  <2>1. CASE v \in S!Skinned
    <3>1. shown'[v] = S!Value(cache'[S!Path(v)], S!Path(v)) /\ S!Path(v) \in DOMAIN cache'
      BY <2>1 DEF S!Frame, Styled
    <3>. QED  BY <1>5, <3>1
  <2>2. CASE v \notin S!Skinned
    <3>1. skinned[v] /\ v \notin missed /\ shown'[v] = shown[v]
      BY <1>6, <2>2 DEF S!Frame, S!Skinned, Styled
    <3>. QED  BY <3>1 DEF StyleInv, LooksAsStyled, S!LooksAsStyled, Styled
  <2>. QED  BY <2>1, <2>2
<1>7. S!LooksAsStyled'
  BY <1>2, <1>5, <1>6 DEF S!LooksAsStyled, S!Path, S!Value, Styled
<1>. QED  BY <1>1, <1>2, <1>7 DEF StyleInv, LooksAsStyled

\* For any chain of widgets, styles and skins, what is cached is what the skin says and
\* a widget that is skinned looks as its path says, unless the style of a grandparent
\* changed (jive_style.c, the _skin of the widgets).
THEOREM StylesCorrect == S!Spec => []LooksAsStyled
<1>1. S!Init => StyleInv
  BY StyleInit
<1>2. StyleInv /\ [S!Next]_(S!vars) => StyleInv'
  <2> SUFFICES ASSUME StyleInv, [S!Next]_(S!vars) PROVE StyleInv'
    OBVIOUS
  <2>1. ASSUME NEW w \in Styled, NEW name \in Styles, S!SetStyle(w, name) PROVE StyleInv'
    <3>1. /\ style' \in [Styled -> Styles] /\ modifier' \in [Styled -> Styles \cup {None}]
          /\ \A u \in Styled \ {w} : style'[u] = style[u] /\ modifier'[u] = modifier[u]
      BY <2>1 DEF S!SetStyle, StyleInv
    <3>. QED  BY <2>1, <3>1, RestyledStep DEF S!SetStyle
  <2>2. ASSUME NEW w \in Styled, NEW name \in Styles \cup {None}, S!SetStyleModifier(w, name) PROVE StyleInv'
    <3>1. /\ style' \in [Styled -> Styles] /\ modifier' \in [Styled -> Styles \cup {None}]
          /\ \A u \in Styled \ {w} : style'[u] = style[u] /\ modifier'[u] = modifier[u]
      BY <2>2 DEF S!SetStyleModifier, StyleInv
    <3>. QED  BY <2>2, <3>1, RestyledStep DEF S!SetStyleModifier
  <2>3. ASSUME NEW tables \in Skins, S!StyleChanged(tables) PROVE StyleInv'
    BY <2>3 DEF S!StyleChanged, StyleInv, LooksAsStyled, S!LooksAsStyled, Styled
  <2>4. CASE S!Frame
    BY <2>4, FrameSkins
  <2>5. ASSUME NEW w \in Styled, S!StyleValue(w) PROVE StyleInv'
    <3>1. \A p \in DOMAIN cache' : cache'[p] = S!Find(skin, p)
      BY <2>5 DEF S!StyleValue, S!Filled, S!Cached, StyleInv, LooksAsStyled, S!LooksAsStyled
    <3>. QED  BY <2>5, <3>1 DEF S!StyleValue, StyleInv, LooksAsStyled, S!LooksAsStyled, S!Path, S!Value
  <2>6. CASE UNCHANGED S!vars
    BY <2>6 DEF S!vars, StyleInv, LooksAsStyled, S!LooksAsStyled, S!Path, S!Value
  <2>. QED  BY <2>1, <2>2, <2>3, <2>4, <2>5, <2>6 DEF S!Next, Styled
<1>3. StyleInv => LooksAsStyled
  BY DEF StyleInv
<1>. QED  BY <1>1, <1>2, <1>3, PTL DEF S!Spec

-----------------------------------------------------------------------------
(* The file of the settings, of which nothing is shared with the parts above *)

\* The new file is not the one that the name stands for, in memory or on disk.
Apart ==
    /\ names.new # NoFile => names.new # names.file /\ names.new # diskNames.file
    /\ diskNames.new # NoFile => diskNames.new # diskNames.file

\* How far atomicWrite is
Progress ==
    /\ pc \in {"fwrite", "fsync", "remove", "rename"} => names.new # NoFile
    /\ pc \in {"fsync", "remove", "rename"} => data[names.new] = version
    /\ pc = "rename" /\ build = "fsync" => diskData[names.new] = version
    /\ pc \in {"opendir", "sync"} => names.file # NoFile /\ data[names.file] = version
    /\ pc = "remove" => build = "windows"
    /\ pc = "sync" => build = "sync"
    /\ pc = "opendir" => build = "fsync"
    /\ result = "ok" => pc \in {"idle", "off"}

\* Only on Windows may the name stand for nothing.
Named == names.file = NoFile \/ diskNames.file = NoFile => build = "windows"

\* What the name stands for is whole.
Whole ==
    build = "fsync" \/ ~outage =>
        /\ names.file # NoFile => data[names.file] # Partly
        /\ result = "ok" => names.file # NoFile /\ data[names.file] = version

\* With fsync that is so on disk already, under the old name and the new.
Durable ==
    build = "fsync" =>
        /\ diskData[names.file] = data[names.file]
        /\ diskData[diskNames.file] = data[diskNames.file]
        /\ diskData[diskNames.file] # Partly
        /\ result = "ok" => diskData[diskNames.file] = version

\* With sync it is when atomicWrite has ended well.
Synced ==
    build = "sync" /\ result = "ok" =>
        /\ data[names.file] = version /\ diskData[names.file] = version
        /\ data[diskNames.file] = version /\ diskData[diskNames.file] = version

FileInv == TypeOK /\ Apart /\ Progress /\ Named /\ Whole /\ Durable /\ Synced

LEMMA InitInv == Init => FileInv
<1> SUFFICES ASSUME Init PROVE FileInv
  OBVIOUS
<1>1. 1 \in Inodes /\ NoFile # 1 /\ 0 \in 0 .. MaxWrites /\ Partly # 0
  BY WritesAssumption DEF Inodes, NoFile
<1>2. names \in [file : Inodes \cup {NoFile}, new : Inodes \cup {NoFile}] /\ names.file = 1 /\ names.new = NoFile
  BY <1>1 DEF Init
<1>3. data \in [Inodes -> Contents] /\ data[1] = 0
  BY <1>1 DEF Init, Contents
<1>4. TypeOK
  BY <1>1, <1>2, <1>3 DEF Init, TypeOK
<1>5. Apart /\ Progress /\ Named /\ Whole /\ Durable /\ Synced
  BY <1>1, <1>2, <1>3 DEF Init, Apart, Progress, Named, Named, Whole, Durable, Synced, Synced
<1>. QED  BY <1>4, <1>5 DEF FileInv

\* There is always a file to be had.
LEMMA FreeInode ==
    ASSUME NEW a, NEW b, NEW c
    PROVE  (CHOOSE i \in Inodes \ {a, b, c} : TRUE) \in Inodes \ {a, b, c}
<1>1. \E i \in Inodes \ {a, b, c} : TRUE
  BY 1 \in Inodes, 2 \in Inodes, 3 \in Inodes, 4 \in Inodes DEF Inodes
<1>. QED  BY <1>1

LEMMA FopenStep == FileInv /\ Fopen => FileInv'
<1> SUFFICES ASSUME FileInv, Fopen PROVE FileInv'
  OBVIOUS
<1>1. version' = version + 1 /\ version' \in 0 .. MaxWrites /\ version' # Partly
  BY WritesAssumption DEF Fopen, FileInv, TypeOK
<1>2. CASE pc' = "idle"
  <2>1. UNCHANGED <<names, data>> /\ result' = "failed"
    BY <1>2 DEF Fopen
  <2>. QED  BY <1>1, <1>2, <2>1 DEF Fopen, FileInv, TypeOK, Apart, Progress, Named, Whole, Durable, Synced
<1>3. CASE pc' = "fwrite"
  <2> DEFINE inode == IF names.new # NoFile THEN names.new
                      ELSE CHOOSE i \in Inodes \ {names.file, diskNames.file, diskNames.new} : TRUE
  <2>1. /\ inode \in Inodes /\ inode # names.file /\ inode # diskNames.file
    BY FreeInode DEF FileInv, TypeOK, Apart
  <2>2. /\ names' = [names EXCEPT !.new = inode] /\ data' = [data EXCEPT ![inode] = Partly]
        /\ result' = "running"
    BY <1>3 DEF Fopen
  <2> HIDE DEF inode
  <2>3. /\ names'.file = names.file /\ names'.new = inode
        /\ names' \in [file : Inodes \cup {NoFile}, new : Inodes \cup {NoFile}]
        /\ data' \in [Inodes -> Contents]
        /\ \A i \in Inodes : i # inode => data'[i] = data[i]
    BY <2>1, <2>2 DEF FileInv, TypeOK, Contents
  <2>4. NoFile \notin Inodes
    BY DEF NoFile, Inodes
  <2>5. TypeOK'
    BY <1>1, <1>3, <2>2, <2>3 DEF Fopen, FileInv, TypeOK
  <2>6. Apart' /\ Progress'
    BY <1>3, <2>1, <2>2, <2>3, <2>4 DEF Fopen, FileInv, Apart, Progress
  <2>7. Named' /\ Whole' /\ Durable' /\ Synced'
    BY <2>1, <2>2, <2>3 DEF Fopen, FileInv, TypeOK, Named, Whole, Durable, Synced
  <2>. QED  BY <2>5, <2>6, <2>7 DEF FileInv
<1>. QED  BY <1>2, <1>3 DEF Fopen

LEMMA FwriteStep == FileInv /\ Fwrite => FileInv'
<1> SUFFICES ASSUME FileInv, Fwrite PROVE FileInv'
  OBVIOUS
<1>1. /\ names.new \in Inodes /\ data'[names.new] = version
      /\ \A i \in Inodes : i # names.new => data'[i] = data[i]
      /\ data' \in [Inodes -> Contents]
  BY DEF Fwrite, FileInv, TypeOK, Progress, Contents
<1>2. TypeOK'
  BY <1>1 DEF Fwrite, FileInv, TypeOK
<1>3. Apart' /\ Progress'
  BY <1>1 DEF Fwrite, FileInv, Apart, Progress
<1>4. Named' /\ Whole' /\ Durable' /\ Synced'
  BY <1>1 DEF Fwrite, FileInv, TypeOK, Apart, Progress, Named, Whole, Durable, Synced
<1>. QED  BY <1>2, <1>3, <1>4 DEF FileInv

LEMMA FsyncStep == FileInv /\ Fsync => FileInv'
<1> SUFFICES ASSUME FileInv, Fsync PROVE FileInv'
  OBVIOUS
<1>1. /\ names.new \in Inodes /\ diskData'[names.new] = version
      /\ \A i \in Inodes : i # names.new => diskData'[i] = diskData[i]
      /\ diskData' \in [Inodes -> Contents]
  BY DEF Fsync, FileInv, TypeOK, Progress
<1>2. TypeOK'
  BY <1>1 DEF Fsync, FileInv, TypeOK
<1>3. Apart' /\ Progress'
  BY <1>1 DEF Fsync, FileInv, Apart, Progress
<1>4. Named' /\ Whole' /\ Durable' /\ Synced'
  BY <1>1 DEF Fsync, FileInv, TypeOK, Apart, Progress, Named, Whole, Durable, Synced
<1>. QED  BY <1>2, <1>3, <1>4 DEF FileInv

LEMMA RemoveStep == FileInv /\ Remove => FileInv'
<1> SUFFICES ASSUME FileInv, Remove PROVE FileInv'
  OBVIOUS
<1>1. names'.file = NoFile /\ names'.new = names.new /\ names.new # NoFile /\ build = "windows"
  BY DEF Remove, FileInv, TypeOK, Progress
<1>2. TypeOK'
  BY DEF Remove, FileInv, TypeOK
<1>3. Apart' /\ Progress'
  BY <1>1 DEF Remove, FileInv, TypeOK, Apart, Progress
<1>4. Named' /\ Whole' /\ Durable' /\ Synced'
  BY <1>1 DEF Remove, FileInv, TypeOK, Progress, Named, Whole, Durable, Synced
<1>. QED  BY <1>2, <1>3, <1>4 DEF FileInv

LEMMA RenameStep == FileInv /\ Rename => FileInv'
<1> SUFFICES ASSUME FileInv, Rename PROVE FileInv'
  OBVIOUS
<1>1. names.new \in Inodes /\ names'.file = names.new /\ names'.new = NoFile /\ NoFile \notin Inodes
  BY DEF Rename, FileInv, TypeOK, Progress, NoFile, Inodes
<1>2. version # Partly
  BY WritesAssumption DEF FileInv, TypeOK
<1>3. CASE build = "fsync"
  BY <1>1, <1>2, <1>3 DEF Rename, FileInv, TypeOK, Apart, Progress, Named, Whole, Durable, Synced
<1>4. CASE build = "sync"
  BY <1>1, <1>2, <1>4 DEF Rename, FileInv, TypeOK, Apart, Progress, Named, Whole, Durable, Synced
<1>5. CASE build \in {"plain", "windows"}
  <2>1. pc' = "idle" /\ result' = "ok"
    BY <1>5 DEF Rename
  <2>. QED
    BY <1>1, <1>2, <1>5, <2>1 DEF Rename, FileInv, TypeOK, Apart, Progress, Named, Whole, Durable, Synced
<1>. QED  BY <1>3, <1>4, <1>5 DEF FileInv, TypeOK, Builds

LEMMA SyncStep == FileInv /\ Sync => FileInv'
<1> SUFFICES ASSUME FileInv, Sync PROVE FileInv'
  OBVIOUS
<1>1. version # Partly /\ build = "sync"
  BY WritesAssumption DEF Sync, FileInv, TypeOK, Progress
<1>2. TypeOK' /\ Apart' /\ Progress'
  BY <1>1 DEF Sync, FileInv, TypeOK, Apart, Progress
<1>3. Named' /\ Whole' /\ Durable' /\ Synced'
  BY <1>1 DEF Sync, FileInv, TypeOK, Progress, Named, Whole, Durable, Synced
<1>. QED  BY <1>2, <1>3 DEF FileInv

LEMMA FsyncDirectoryStep == FileInv /\ FsyncDirectory => FileInv'
<1> SUFFICES ASSUME FileInv, FsyncDirectory PROVE FileInv'
  OBVIOUS
<1>1. version # Partly
  BY WritesAssumption DEF FileInv, TypeOK
<1>. QED  BY <1>1 DEF FsyncDirectory, FileInv, TypeOK, Apart, Progress, Named, Whole, Durable, Synced

LEMMA FailStep == FileInv /\ (\E call \in {"fwrite", "fsync", "remove", "rename", "opendir"} : Fail(call)) => FileInv'
BY DEF Fail, FileInv, TypeOK, Apart, Progress, Named, Whole, Durable, Synced

LEMMA WriteBackStep == FileInv /\ WriteBack => FileInv'
<1> SUFFICES ASSUME FileInv, WriteBack PROVE FileInv'
  OBVIOUS
<1>1. CASE diskNames' = names /\ UNCHANGED diskData
  BY <1>1 DEF WriteBack, FileInv, TypeOK, Apart, Progress, Named, Whole, Durable, Synced
<1>2. ASSUME NEW i \in Inodes, diskData' = [diskData EXCEPT ![i] = data[i]], UNCHANGED diskNames
      PROVE  FileInv'
  <2>1. /\ diskData' \in [Inodes -> Contents] /\ diskData'[i] = data[i]
        /\ \A j \in Inodes : j # i => diskData'[j] = diskData[j]
    BY <1>2 DEF FileInv, TypeOK
  <2>2. TypeOK' /\ Apart'
    BY <1>2, <2>1 DEF WriteBack, FileInv, TypeOK, Apart
  <2>3. Progress'
    BY <1>2, <2>1 DEF WriteBack, FileInv, TypeOK, Progress
  <2>4. Named' /\ Whole' /\ Durable' /\ Synced'
    BY <1>2, <2>1 DEF WriteBack, FileInv, TypeOK, Named, Whole, Durable, Synced
  <2>. QED  BY <2>2, <2>3, <2>4 DEF FileInv
<1>. QED  BY <1>1, <1>2 DEF WriteBack

LEMMA PowerFailsStep == FileInv /\ PowerFails => FileInv'
BY DEF PowerFails, FileInv, TypeOK, Apart, Progress, Named, Whole, Durable, Synced

LEMMA KilledStep == FileInv /\ Killed => FileInv'
BY DEF Killed, FileInv, TypeOK, Apart, Progress, Named, Whole, Durable, Synced

LEMMA RestartStep == FileInv /\ Restart => FileInv'
BY DEF Restart, FileInv, TypeOK, Apart, Progress, Named, Whole, Durable, Synced

LEMMA StutterStep == FileInv /\ UNCHANGED vars => FileInv'
BY DEF vars, FileInv, TypeOK, Apart, Progress, Named, Whole, Durable, Synced

LEMMA InvSurvives == FileInv => FileSurvives
BY DEF FileInv, Named, Whole, Durable, Synced, FileSurvives

\* Whenever the process is killed, a call fails or the power does, the file holds the
\* settings of one atomicWrite or the other (FileSurvives), or there is none between the
\* two calls that a build for Windows replaces it with: system_atomic_write.
THEOREM AtomicWrite == Spec => []FileSurvives
<1>1. Init => FileInv
  BY InitInv
<1>2. FileInv /\ [Next]_vars => FileInv'
  BY FopenStep, FwriteStep, FsyncStep, RemoveStep, RenameStep, SyncStep, FsyncDirectoryStep, FailStep, WriteBackStep,
     PowerFailsStep, KilledStep, RestartStep, StutterStep DEF Next
<1>. QED  BY <1>1, <1>2, InvSurvives, PTL DEF Spec
=============================================================================
