------------------------------ MODULE FontList -------------------------------
(***************************************************************************)
(* The fonts that are open: src/jive_font.c. A list of fonts by name and     *)
(* size, each with a count of its references; SDL_ttf is started for the     *)
(* first font and shut down after the last.                                  *)
(***************************************************************************)
EXTENDS Naturals, Sequences, SequencesExt

CONSTANTS
    Fonts,      \* names and sizes that are asked for
    Missing,    \* those that jive_find_file or TTF_OpenFont cannot find
    MaxUses     \* bound: references to one font

VARIABLES
    fonts,      \* the list, newest first: font and refcount
    ttf,        \* TTF_WasInit()
    uses        \* references to each font that widgets and Lua hold

vars == <<fonts, ttf, uses>>

Init == fonts = <<>> /\ ttf = FALSE /\ uses = [f \in Fonts |-> 0]

Counted(f, by) == [i \in DOMAIN fonts |->
    IF fonts[i].font = f THEN [fonts[i] EXCEPT !.refcount = @ + by] ELSE fonts[i]]

Listed == {fonts[i].font : i \in DOMAIN fonts}

\* jive_font_load
FontLoad(f) ==
    /\ uses[f] < MaxUses
    /\ \/ /\ f \in Listed
          /\ fonts' = Counted(f, 1)
          /\ uses' = [uses EXCEPT ![f] = @ + 1]
          /\ UNCHANGED ttf
       \/ /\ f \notin Listed
          /\ ttf' = TRUE
          /\ IF f \in Missing THEN UNCHANGED <<fonts, uses>>
             ELSE /\ fonts' = <<[font |-> f, refcount |-> 1]>> \o fonts
                  /\ uses' = [uses EXCEPT ![f] = @ + 1]

\* jive_font_ref
FontRef(f) ==
    /\ uses[f] \in 1 .. MaxUses - 1
    /\ fonts' = Counted(f, 1)
    /\ uses' = [uses EXCEPT ![f] = @ + 1]
    /\ UNCHANGED ttf

\* jive_font_free, called by everyone who holds a reference, once: the last one
\* takes the font out of the list.
FontFree(f) ==
    /\ uses[f] > 0
    /\ uses' = [uses EXCEPT ![f] = @ - 1]
    /\ \E i \in DOMAIN fonts :
          /\ fonts[i].font = f
          /\ fonts' = IF fonts[i].refcount > 1 THEN [fonts EXCEPT ![i].refcount = @ - 1]
                      ELSE RemoveAt(fonts, i)
    /\ ttf' = (ttf /\ fonts' # <<>>)

Next == \E f \in Fonts : FontLoad(f) \/ FontRef(f) \/ FontFree(f)
Spec == Init /\ [][Next]_vars

-----------------------------------------------------------------------------
\* Every font that someone holds is in the list, once, with SDL_ttf running; a
\* font that nobody holds is closed.
HeldIsOpen ==
    /\ \A f \in Fonts : uses[f] > 0 <=> f \in Listed
    /\ \A i, j \in DOMAIN fonts : fonts[i].font = fonts[j].font => i = j
    /\ \A i \in DOMAIN fonts : fonts[i].refcount = uses[fonts[i].font]
    /\ fonts # <<>> => ttf
=============================================================================
