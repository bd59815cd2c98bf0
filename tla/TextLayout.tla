------------------------------ MODULE TextLayout ------------------------------
(***************************************************************************)
(* How text becomes lines: UTF-8 (jive_font.c), the lines of a label and how *)
(* it scrolls (jive_label.c), the word wrap of a text area (jive_textarea.c). *)
(* A character has a number of bytes, and a width in the font.               *)
(***************************************************************************)
EXTENDS Integers, Sequences, FiniteSets, SequencesExt, FiniteSetsExt

CONSTANTS
    Bytes,      \* of every character
    Width,
    MaxChars    \* MAX_CHARS: a label splits a line that is longer

WidthOf(chars) == FoldLeft(LAMBDA sum, c : sum + Width[c], 0, chars)

-----------------------------------------------------------------------------
(* UTF-8 *)

ERROR == 65533   \* U+FFFD

Bits(byte, n) == byte % (2^n)

\* utf8_get_char: the code of the character at i, and the place of the next. What
\* follows the first byte is not looked at: a cut character takes what comes next.
GetChar(s, i) ==
    LET more(k) == Bits(s[i + k], 6)
    IN  CASE s[i] <= 127 -> [code |-> s[i], next |-> i + 1]
          [] s[i] \in 192 .. 223 -> [code |-> 64 * Bits(s[i], 5) + more(1), next |-> i + 2]
          [] s[i] \in 224 .. 239 ->
                [code |-> 4096 * Bits(s[i], 4) + 64 * more(1) + more(2), next |-> i + 3]
          [] s[i] \in 240 .. 244 ->
                [code |-> 262144 * Bits(s[i], 3) + 4096 * more(1) + 64 * more(2) + more(3), next |-> i + 4]
          [] OTHER -> [code |-> ERROR, next |-> i + 1]

\* The encoding, as RFC 3629 has it
Encoding(code) ==
    LET tail(n) == [k \in 1 .. n |-> 128 + ((code \div (64^(n - k))) % 64)]
    IN  CASE code < 128 -> <<code>>
          [] code \in 128 .. 2047 -> <<192 + (code \div 64)>> \o tail(1)
          [] code \in 2048 .. 65535 -> <<224 + (code \div 4096)>> \o tail(2)
          [] OTHER -> <<240 + (code \div 262144)>> \o tail(3)

\* Text is read back as it was written, a character at a time, up to its end.
ReadsUtf8(codes) ==
    LET s == FlattenSeq([k \in DOMAIN codes |-> Encoding(codes[k])]) \o <<0>>
        at[k \in 1 .. Len(codes) + 1] == IF k = 1 THEN 1 ELSE GetChar(s, at[k - 1]).next
    IN  /\ \A k \in DOMAIN codes : GetChar(s, at[k]).code = codes[k]
        /\ at[Len(codes) + 1] = Len(s)

-----------------------------------------------------------------------------
(* Labels *)

\* The bytes of a text: those of each character in their order
Encoded(text) == FlattenSeq([i \in DOMAIN text |-> [k \in 1 .. Bytes[text[i]] |-> <<text[i], k>>]])
ByteAt(text, i) == Len(Encoded(SubSeq(text, 1, i - 1)))

White == {"\n", "\r", " "}

\* prepare: a line ends at a line break or after MaxChars characters; its last byte
\* is the one before that of the last character read, whatever its length. White
\* space after the line is left out.
LinesOf(text) ==
    LET end == Len(text) + 1
        first(S) == Min(S \cup {end})
        line[i \in 1 .. end] ==
            LET stop == first({j \in i .. Len(text) : text[j] \in {"\n", "\r"} \/ j = i + MaxChars})
                read == ByteAt(text, stop) + (IF stop = end THEN 1 ELSE Bytes[text[stop]])
                next == first({j \in stop .. Len(text) : text[j] \notin White})
            IN  <<SubSeq(Encoded(text), ByteAt(text, i) + 1, read - 1)>>
                    \o (IF next = end THEN <<>> ELSE line[next])
    IN  IF text = <<>> THEN <<>> ELSE line[1]

\* A label shows every character in its place, on lines of no more than MaxChars;
\* unless it splits before a character of several bytes, whose first ones it shows.
KeepsText(text) ==
    LET visible(bytes) == SelectSeq(bytes, LAMBDA b : b[1] \notin White)
        whole == \A i \in DOMAIN text : Bytes[text[i]] = 1
        short == Len(text) <= MaxChars
    IN  whole \/ short =>
            /\ visible(FlattenSeq(LinesOf(text))) = visible(Encoded(text))
            /\ \A l \in Range(LinesOf(text)) :
                    Cardinality({k \in DOMAIN l : l[k][2] = 1}) <= MaxChars

\* Scrolling. A label has a line of width "w" and text of width "textW" on "labelW".
PAD_START == -100
PAD_LEFT == -200
PAD_RIGHT == 40

\* jiveL_label_do_animate: the offset it is drawn with, if it is, and the new one
Animated(l) ==
    LET o == l.offset + l.step
        wrapped == o > l.textW + PAD_RIGHT
    IN  IF l.textW <= l.labelW THEN [l EXCEPT !.stopped = TRUE]
        ELSE IF wrapped THEN [l EXCEPT !.offset = PAD_LEFT, !.drawn = 0, !.stopped = TRUE]
        ELSE IF o < 0 THEN [l EXCEPT !.offset = o, !.stopped = FALSE]
        ELSE [l EXCEPT !.offset = o, !.drawn = o, !.stopped = FALSE]

\* jiveL_label_draw: what is shown, as places on the label and parts of the text;
\* the text a second time after it
Shown(l) ==
    LET o == IF l.w < l.labelW THEN 0 ELSE l.drawn
        s == l.textW - o + PAD_RIGHT
    IN  {[at |-> 0, from |-> o, len |-> Max({0, Min({l.labelW, l.w - o})})]}
            \cup (IF o # 0 /\ s < l.labelW THEN {[at |-> s, from |-> 0, len |-> Min({l.labelW - s, l.w})]} ELSE {})

\* A scrolling label shows its text and the same again apart, within its width, and
\* no blank longer than the pad between them and the end of a shorter line.
ScrollsSmoothly(l) ==
    /\ \A p \in Shown(l) : p.at >= 0 /\ p.at + p.len <= l.labelW /\ p.from + p.len <= Max({l.w, l.drawn})
    /\ \A p, q \in Shown(l) : p # q => p.at + p.len <= q.at \/ q.at + q.len <= p.at
    /\ l.w = l.textW /\ l.textW > l.labelW /\ l.labelW > PAD_RIGHT => \E p \in Shown(l) : p.len > 0

-----------------------------------------------------------------------------
(* Text areas *)

\* The loop of wordwrap, which goes to the next character or the next line. "at" is
\* the character, "lines" where lines start, "w" the width since then, and "break"
\* where to break the line, 0 if nowhere.
CharAt(text, i) == IF i <= Len(text) THEN text[i] ELSE "end"

BreaksAfter(text, i) ==
    \/ text[i] \in {" ", ",", "-"}
    \/ text[i] = "." /\ CharAt(text, i + 1) = " "

NextLine_KeepsBreak(text, s) ==
    LET from == IF s.break # 0 THEN s.break ELSE s.at
    IN  [at |-> s.at, lines |-> Append(s.lines, from), w |-> 0, break |-> 0]

NextLine(text, s) ==
    LET from == IF s.break # 0 THEN s.break ELSE s.at
        past == IF CharAt(text, from) = "\n" THEN from + 1 ELSE from
        start == Min({j \in past .. Len(text) + 1 : CharAt(text, j) # " "})
    IN  [at |-> start, lines |-> Append(s.lines, start), w |-> 0, break |-> 0]

WrapStep(text, width, s) ==
    LET break == IF BreaksAfter(text, s.at) THEN s.at + 1 ELSE s.break
        w == s.w + Width[text[s.at]]
    IN  IF text[s.at] = "\n" THEN [at |-> s.at + 1, lines |-> Append(s.lines, s.at + 1), w |-> 0, break |-> 0]
        ELSE IF w < width THEN [at |-> s.at + 1, lines |-> s.lines, w |-> w, break |-> break]
        ELSE NextLine(text, [s EXCEPT !.break = break])

RECURSIVE WrapFrom(_, _, _)
WrapFrom(text, width, s) ==
    IF s.at > Len(text) THEN s.lines ELSE WrapFrom(text, width, WrapStep(text, width, s))

\* A character as wide as the area would be tried on one line after the other, for ever.
Wrappable(text, width) == \A i \in DOMAIN text : Width[text[i]] < width

\* wordwrap: again, with the width that the scrollbar leaves, if there are too many
WordWrap(text, a) ==
    LET width == a.bounds.w - a.padding.left - a.padding.right
        wrapped(w) == WrapFrom(text, w, [at |-> 1, lines |-> <<1>>, w |-> 0, break |-> 0])
        bar == Len(wrapped(width)) > a.visible /\ ~a.header /\ ~a.hideScrollbar
    IN  IF width <= 0 THEN [lines |-> <<1>>, scrollbar |-> a.scrollbar, width |-> width]
        ELSE [lines |-> wrapped(IF bar THEN width - a.barWidth ELSE width), scrollbar |-> bar,
              width |-> IF bar THEN width - a.barWidth ELSE width]

\* jiveL_textarea_layout: the first of the lines that are shown
TopLine(top, num, visible) ==
    LET shown == Min({visible, num}) IN IF top + shown > num THEN num - shown ELSE top

\* jiveL_textarea_draw: a line ends where the next one starts
LineText(text, lines, k) ==
    LET end == IF k = Len(lines) THEN Len(text) ELSE lines[k + 1] - 1
        line == SubSeq(text, lines[k], end)
    IN  IF line # <<>> /\ Last(line) = "\n" THEN Front(line) ELSE line

\* The lines of a text area are its text, each but its last break narrower than the
\* area; no word that fits a line is broken; and a scroll bar is there if it is needed.
WrapsWords(text, a) ==
    LET narrow == a.bounds.w - a.padding.left - a.padding.right - a.barWidth
        r == WordWrap(text, a)
        line(k) == LineText(text, r.lines, k)
        bare(chars) == SelectSeq(chars, LAMBDA c : c \notin White)
        seen(k) == SubSeq(line(k), 1, Max({0} \cup {i \in DOMAIN line(k) : line(k)[i] # " "}))
        \* line k was cut within a word
        broken(k) == /\ k < Len(r.lines) /\ line(k) # <<>>
                     /\ r.lines[k + 1] - r.lines[k] = Len(line(k))
                     /\ ~BreaksAfter(text, r.lines[k + 1] - 1)
    IN  narrow > 0 /\ Wrappable(text, narrow) =>
            /\ bare(FlattenSeq([k \in DOMAIN r.lines |-> line(k)])) = bare(text)
            /\ \A k \in 1 .. Len(r.lines) - 1 : r.lines[k] <= r.lines[k + 1]
            /\ \A k \in DOMAIN r.lines :
                    /\ seen(k) # <<>> /\ "\n" \notin Range(line(k)) => WidthOf(Front(seen(k))) < r.width
                    /\ broken(k) => \A i \in r.lines[k] .. r.lines[k + 1] - 2 : ~BreaksAfter(text, i)
            /\ r.scrollbar =
                    (Len(WordWrap(text, [a EXCEPT !.hideScrollbar = TRUE]).lines) > a.visible
                        /\ ~a.header /\ ~a.hideScrollbar)
            /\ \A top \in 0 .. 9 :
                    LET t == TopLine(top, Len(r.lines), a.visible)
                    IN  t >= 0 /\ t + Min({a.visible, Len(r.lines)}) <= Len(r.lines)
=============================================================================
