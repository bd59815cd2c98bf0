------------------------------ MODULE MCScreen -------------------------------
(* Two windows that fill a screen of three cells, a context menu that leaves   *)
(* one of them free, a popup that is shown briefly, and a global icon; in the  *)
(* first window a menu, which is a layout root, with one item.                 *)
EXTENDS Screen

CONSTANTS home, list, context, popup, menu, item, icon

R(x, w) == [x |-> x, w |-> w]

MCParent == (menu :> home) @@ (item :> menu)

MCPlace ==
    [w \in {home, list, context, popup, menu, item, icon} |->
        CASE w \in {home, list} -> {R(0, 3)}
          [] w = context -> {R(1, 2)}
          [] w = popup -> {R(1, 1)}
          [] w = menu -> {R(0, 2)}
          [] w = item -> {R(0, 1), R(1, 1)}
          [] w = icon -> {R(2, 1), R(0, 1)}]
=============================================================================
