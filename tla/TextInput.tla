------------------------------ MODULE TextInput ------------------------------
(***************************************************************************)
(* A text input: the cursor that the keys move over its value (Textinput.lua) *)
(* and the part of the value that is drawn (jiveL_textinput_draw), which      *)
(* begins "indent" characters into it and is kept from one frame to the next. *)
(* Any number of keys may come between two frames.                            *)
(***************************************************************************)
EXTENDS Integers, Sequences, SequencesExt, FiniteSetsExt

CONSTANTS
    Chars,      \* a sequence: those the value may consist of, in the order of the wheel
    Fixed,      \* another: of a formatted value, or of one given; the cursor skips it
    CharW,      \* the width of every character
    AreaW,      \* the width between the paddings
    CursorW,    \* the least width of the cursor: its picture's
    Groups, GroupLen,   \* of an IP address: 4 numbers of 3 digits
    MaxLen      \* bound: the length of a plain value

VARIABLES
    kind,           \* "text": a plain string, or "address": an ipAddressValue
    value,
    recent,         \* 1 when the most recent input was a key, the remote control or a
                    \* scroll, 0 when it was the mouse (Framework:isMostRecentInput)
    cursor,         \* 1 is before the first character
    cursorWidth,    \* the last "recent" that the input has heard of
    shrunk,         \* for the properties: the text became shorter under the cursor
    indent,
    drawn,          \* where the cursor was in the last frame
    frame           \* "none" yet, "drawn", "changed" since then, "wild": it read beyond
                    \* the text, or "hung"

vars == <<kind, value, recent, cursor, cursorWidth, shrunk, indent, drawn, frame>>

-----------------------------------------------------------------------------
(* What is shown of a value: a plain one as it is, an address as it was typed,  *)
(* or with all of its digits when keys step through them. The digits that are   *)
(* allowed are not told apart by their place: 255 is as long as 299.            *)

Zero == Chars[1]

\* ipAddressValue's obj.v: the numbers of a string, without leading zeros
Numbers(str) ==
    LET digit(g, c) == IF g = <<Zero>> THEN <<c>> ELSE Append(g, c)
        next(gs, c) == IF c = Fixed THEN Append(gs, <<>>) ELSE [gs EXCEPT ![Len(gs)] = digit(@, c)]
    IN  SelectSeq(FoldLeft(next, <<(<<>>)>>, str), LAMBDA g : g # <<>>)

Dotted(groups) == FoldLeft(LAMBDA s, g : IF s = <<>> THEN g ELSE s \o <<Fixed>> \o g, <<>>, groups)

Padded(str) ==
    LET number(i) == IF i <= Len(Numbers(str)) THEN Numbers(str)[i] ELSE <<Zero>>
        pad(g) == [j \in 1 .. GroupLen - Len(g) |-> Zero] \o g
    IN  Dotted([i \in 1 .. Groups |-> pad(number(i))])

AsShown(v, input) == IF kind = "address" /\ input = 1 THEN Padded(v) ELSE v
Text == AsShown(value, recent)

\* setValue: an address with two dots in a row, too many numbers or too large ones is
\* refused; a dot at the end stays.
Accepted(str) ==
    kind = "address" =>
        /\ \A i \in 1 .. Len(str) - 1 : ~(str[i] = Fixed /\ str[i + 1] = Fixed)
        /\ Len(Numbers(str)) <= Groups /\ \A g \in Range(Numbers(str)) : Len(g) <= GroupLen

Stored(str) ==
    IF kind = "text" THEN str
    ELSE Dotted(Numbers(str)) \o (IF str # <<>> /\ Last(str) = Fixed THEN <<Fixed>> ELSE <<>>)

SetValue(str) == value' = IF Accepted(str) THEN Stored(str) ELSE value

\* getChars of a value, with the cursor at c
Allowed(v, c) ==
    IF kind = "text" THEN Range(Chars)
    ELSE IF recent = 0 THEN Range(Chars) \cup (IF Len(Numbers(v)) < Groups THEN {Fixed} ELSE {})
    ELSE IF c % (GroupLen + 1) = 0 THEN {} ELSE Range(Chars)

-----------------------------------------------------------------------------
(* jiveL_textinput_draw *)

WidthOf(chars) == FoldLeft(LAMBDA sum, c : sum + CharW[c], 0, chars)

\* The cursor without what it covers: where the text after it starts
Covers == Min({cursorWidth, Len(Text)})
After == IF Covers = 0 THEN cursor - 1 ELSE cursor

\* Before, under and after the cursor, when i characters are left out
Before(i) == WidthOf(SubSeq(Text, i + 1, Min({After - Covers, Len(Text)})))
Under == WidthOf(SubSeq(Text, After - Covers + 1, Min({After, Len(Text)})))
Behind == WidthOf(SubSeq(Text, After + 1, Len(Text)))
Wide == Max({CursorW, Under})

\* The text begins behind its end or behind the cursor, or what the cursor covers does.
ReadsBeyond ==
    indent > After - Covers \/ indent > Len(Text) \/ (Covers = 1 /\ After - Covers > Len(Text))

\* The first loop of jiveL_textinput_draw: forward until the cursor is in the area
Forward(i) == Min({j \in i .. After - Covers : Before(j) + Wide <= AreaW})

Back_IfRoom(i) ==
    Max({j \in 0 .. i : j = 0 \/ Before(j) + Under + Behind >= AreaW})

\* The second: back while nothing is shown before the cursor, or there is room
Back(i) ==
    LET stays(j) == j = 0 \/ (Before(j) > 0 /\ Before(j) + Under + Behind >= AreaW)
    IN  Max({j \in 0 .. i : stays(j)})

\* Then text is moved to the left, so that half a cursor is free at the right.
Shift(before) == Min({0, AreaW - ((3 * Wide + 1) \div 2) - before})

Alive == frame \in {"none", "drawn", "changed"}

Draw ==
    /\ Alive
    /\ IF ReadsBeyond THEN frame' = "wild" /\ UNCHANGED <<indent, drawn>>
       ELSE frame' = "drawn" /\ indent' = Back(Forward(indent)) /\ drawn' = cursor
    /\ UNCHANGED <<kind, value, recent, cursor, cursorWidth, shrunk>>

-----------------------------------------------------------------------------
(* What input does. Every kind of input is noted (JiveMain), also what the text *)
(* input does not listen to: the mouse, a key that goes down, a key or a        *)
(* gesture that becomes an action. The text of an address changes with it, and  *)
(* the cursor and its width do not.                                             *)

Touched == Alive /\ frame' = (IF frame = "none" THEN "none" ELSE "changed") /\ UNCHANGED <<kind, drawn>>
Edit == Touched /\ UNCHANGED <<recent, indent>>

Heard == cursorWidth' = recent      \* _eventHandler
Acted == UNCHANGED cursorWidth      \* the listeners of actions, and a timer

SwitchInput ==
    /\ recent' = 1 - recent
    /\ shrunk' = (shrunk \/ Len(AsShown(value, recent')) < Len(Text))
    /\ UNCHANGED <<value, cursor, cursorWidth, indent>> /\ Touched

\* _moveCursor: to the next character that may be changed; none is after the last
Moved(v, from, dir) ==
    LET text == AsShown(v, recent)
        there[c \in 1 .. Max({Len(text) + 1, from})] ==
            IF (c = 1 /\ dir < 0) \/ (c > Len(text) /\ dir > 0) THEN c
            ELSE IF c + dir <= Len(text) /\ text[c + dir] \notin Allowed(v, c + dir) THEN there[c + dir] ELSE c + dir
    IN  there[from]

MoveCursor ==
    \E dir \in {-1, 1} :
        cursor' = Moved(value, cursor, dir) /\ UNCHANGED <<value, shrunk>> /\ (Heard \/ Acted) /\ Edit

\* EVENT_WINDOW_RESIZE asks for a move by 0, which has no end on a character that is not
\* allowed. The code that would send it is commented out (jive_framework.c:1340).
Resize ==
    /\ Alive /\ Heard
    /\ frame' = IF cursor <= Len(Text) /\ Text[cursor] \notin Allowed(value, cursor) THEN "hung" ELSE frame
    /\ UNCHANGED <<kind, value, recent, cursor, shrunk, indent, drawn>>

Until(c) == SubSeq(Text, 1, Min({c, Len(Text)}))
From(c) == SubSeq(Text, c, Len(Text))

\* _scroll: the character at the cursor, or a new one after the last
Scroll ==
    \E c \in Allowed(value, cursor) :
        /\ recent = 1
        /\ kind = "text" => cursor <= MaxLen
        /\ cursor <= Len(Text) => Text[cursor] \in Allowed(value, cursor)
        /\ SetValue(Until(cursor - 1) \o <<c>> \o From(cursor + 1))
        /\ UNCHANGED <<cursor, shrunk>> /\ Heard /\ Edit

\* _insert and EVENT_CHAR_PRESS: a character before the cursor, which goes on
Insert ==
    \E c \in Allowed(value, cursor) :
        LET str == Until(cursor - 1) \o <<c>> \o From(cursor)
        IN  /\ kind = "text" => Len(str) <= MaxLen
            /\ SetValue(str)
            /\ cursor' = IF Accepted(str) THEN Moved(value', cursor, 1) ELSE cursor
            /\ UNCHANGED shrunk /\ (Heard \/ Acted) /\ Edit

\* ipAddressValue's delete, with keys: a zero at the cursor, which goes back
DeleteDigit ==
    /\ kind = "address" /\ recent = 1
    /\ IF cursor <= Len(Text) THEN SetValue(Until(cursor - 1) \o <<Zero>> \o From(cursor + 1))
       ELSE UNCHANGED value
    /\ cursor' = Moved(value', cursor, -1)

\* _delete: at the cursor with keys, or before it after the last character or if asked to
DeleteChar ==
    /\ kind = "text" \/ recent = 0
    /\ cursor > 1
    /\ \/ recent = 1 /\ cursor <= Len(Text) /\ SetValue(Until(cursor - 1) \o From(cursor + 1)) /\ UNCHANGED cursor
       \/ SetValue(Until(cursor - 2) \o From(cursor)) /\ cursor' = cursor - 1

Delete == (DeleteDigit \/ DeleteChar) /\ UNCHANGED shrunk /\ Heard /\ Edit

GoToStart ==
    /\ cursor' = 1 /\ indent' = 0 /\ shrunk' = FALSE
    /\ UNCHANGED <<value, recent>> /\ (Heard \/ Acted) /\ Touched

GoToEnd == cursor' = Len(Text) + 1 /\ shrunk' = FALSE /\ UNCHANGED value /\ (Heard \/ Acted) /\ Edit

Clear ==
    /\ SetValue(<<>>) /\ cursor' = 1 /\ indent' = 0 /\ shrunk' = FALSE
    /\ UNCHANGED recent /\ Acted /\ Touched

-----------------------------------------------------------------------------

\* An address that is empty is edited from its start (defaultCursorToStart).
Init ==
    /\ kind \in {"text", "address"}
    /\ value \in IF kind = "text" THEN {<<>>, <<Chars[1], Fixed, Fixed, Chars[1]>>}
                 ELSE {<<>>, Dotted([i \in 1 .. Groups |-> [j \in 1 .. GroupLen |-> Last(Chars)]])}
    /\ recent \in {0, 1} /\ cursorWidth = recent /\ shrunk = FALSE
    /\ cursor = IF kind = "address" /\ value = <<>> THEN 1 ELSE Len(Text) + 1
    /\ indent = 0 /\ frame = "none" /\ drawn = 1

Next ==
    \/ Draw
    \/ MoveCursor \/ Scroll \/ Insert \/ Delete \/ GoToStart \/ GoToEnd \/ Clear
    \/ SwitchInput \/ Resize

Spec == Init /\ [][Next]_vars

-----------------------------------------------------------------------------
(* Properties *)

\* The cursor is on the text or after it (Textinput.lua _moveCursor, _delete), unless
\* the text of an address became shorter as the kind of input changed, and the cursor
\* was not sent to the start or to the end since then.
CursorOnValue == cursor \in 1 .. Len(Text) + 1 \/ (kind = "address" /\ shrunk)

\* While the cursor has not gone back by more than one character since the last frame,
\* and the text has not become shorter under it, the next one begins within the text
\* and before the cursor: jiveL_textinput_draw reads what "indent" and the cursor say,
\* without a check.
DrawReadsValue ==
    ~shrunk /\ (frame = "none" \/ cursor >= drawn - 1) => ~ReadsBeyond

\* A frame shows all of the cursor, a character before it if there is one, and leaves
\* no room unused at the right while text is left out at the left.
CursorShown ==
    frame = "drawn" =>
        LET before == Before(indent)
            all == before + Under + Behind
            x == before + Shift(before)
        IN  /\ x >= 0 /\ x + Wide <= AreaW
            /\ cursor > 1 /\ all > 0 => before > 0
            /\ indent > 0 => all >= AreaW

TextInputSound == CursorOnValue /\ DrawReadsValue /\ CursorShown
=============================================================================
