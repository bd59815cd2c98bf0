-------------------------------- MODULE Heap --------------------------------
(***************************************************************************)
(* The heap inspection of jive_debug.c, which JiveMain logs every minute: it *)
(* walks the objects of Lua from the table of globals and compares them, by  *)
(* address, with those of the inspection before.                             *)
(***************************************************************************)
EXTENDS Naturals, FiniteSetsExt, SequencesExt

CONSTANTS Globals   \* the address of the table of globals

\* A heap is a function from addresses to objects: the kind, the entries of a table,
\* the environment of a function and the metatable, sets of addresses all.
Kinds == {"table", "function", "userdata", "thread", "lightuserdata"}
Counted == Kinds \ {"lightuserdata"}

\* What jiveL_inspect follows of an object
Children(object) ==
    (CASE object.kind = "table" -> object.entries
       [] object.kind = "function" -> object.env
       [] OTHER -> {}) \cup object.meta

RECURSIVE Inspect(_, _, _)
\* The objects seen after a walk from address a; one that was seen is not walked again.
Inspect(heap, seen, a) ==
    IF a \in seen THEN seen
    ELSE FoldSet(LAMBDA child, s : Inspect(heap, s, child), seen \cup {a}, Children(heap[a]))

OfKind(heap, seen, kind) == Cardinality({a \in seen : heap[a].kind = kind})

\* jiveL_heap: last is what the inspection before saw, a function from addresses to kinds.
\* An address is new if last does not have it, whatever was there; what remains of last
\* is free. Light userdata are seen but not counted, freed ones are.
Inspected(heap, last) ==
    LET seen == Inspect(heap, {}, Globals)
        new == seen \ DOMAIN last
        free == DOMAIN last \ seen
    IN  [total |-> [k \in Counted |-> OfKind(heap, seen, k)],
         new |-> [k \in Counted |-> OfKind(heap, new, k)],
         free |-> [k \in Kinds |-> Cardinality({a \in free : last[a] = k})],
         seen |-> [a \in seen |-> heap[a].kind]]

-----------------------------------------------------------------------------
(* What an inspection promises *)

\* The least set with the globals that is closed under Children
Reachable(heap) ==
    LET Closed(s) == Globals \in s /\ \A a \in s : Children(heap[a]) \subseteq s
    IN  {a \in DOMAIN heap : \A s \in SUBSET DOMAIN heap : Closed(s) => a \in s}

\* Every object that can be reached is counted once; what was there, less what was freed
\* and with what is new, is there now, unless an address was used again for another kind.
HeapCounted(before, now) ==
    LET first == Inspected(before, << >>)
        second == Inspected(now, first.seen)
    IN  \A k \in Counted :
            /\ second.total[k] = OfKind(now, Reachable(now), k)
            /\ first.new[k] = first.total[k] /\ first.free[k] = 0
            /\ (\A a \in DOMAIN first.seen \cap DOMAIN second.seen : first.seen[a] = second.seen[a]) =>
                  second.total[k] + second.free[k] = first.total[k] + second.new[k]
=============================================================================
