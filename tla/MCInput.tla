------------------------------- MODULE MCInput -------------------------------
(* Three of the keys of the keymap: Return, which is HOME with Alt, and End        *)
(* overlap in their codes (GO 001, HOME 111, BACK 010), and a cursor key is        *)
(* repeatable. "a" is in no entry.                                                *)
EXTENDS Input

CONSTANTS RETURN, END, UP, A, none, alt, any

MCKeymap ==
    << [sym |-> UP, mod |-> any, code |-> {0, 1}],
       [sym |-> END, mod |-> any, code |-> {1}],
       [sym |-> RETURN, mod |-> alt, code |-> {0, 1, 2}],
       [sym |-> RETURN, mod |-> any, code |-> {0}] >>

MCPresses ==
    {[sym |-> RETURN, mod |-> alt]} \cup {[sym |-> k, mod |-> none] : k \in {RETURN, END, UP, A}}
=============================================================================
