----------------------------- MODULE ClientHeap -----------------------------
(***************************************************************************)
(* What the callers of xmalloc, xfree and xrealloc may rely on: an object   *)
(* has a block of its own from the call that returns it to the call that    *)
(* frees it, at least as large as it was asked for, and nothing but its     *)
(* owner changes what is in it.                                             *)
(***************************************************************************)
EXTENDS Naturals

CONSTANTS Blocks,  \* all addresses
          Sizes,   \* sizes callers ask for
          Tags     \* what callers write into their objects, each
                   \* something of its own

VARIABLE objects   \* the live objects: block, size, what was written there
                   \* and how many bytes of it are there

Taken == {o.block : o \in objects}
Smaller(m, n) == IF m < n THEN m ELSE n

Init == objects = {}

Alloc ==
    \E b \in Blocks \ Taken, s \in Sizes, g \in Tags \ {o.tag : o \in objects} :
        objects' = objects \union {[block |-> b, size |-> s, tag |-> g,
                                    valid |-> s]}

\* The first half of a reallocation: a second object with the same bytes, as
\* many as fit.
Copy ==
    \E o \in objects, b \in Blocks \ Taken, s \in Sizes :
        objects' = objects \union
                   {[block |-> b, size |-> s, tag |-> o.tag,
                     valid |-> Smaller(o.valid, s)]}

Free == \E o \in objects : objects' = objects \ {o}

Next == Alloc \/ Copy \/ Free

Spec == Init /\ [][Next]_objects
=============================================================================
