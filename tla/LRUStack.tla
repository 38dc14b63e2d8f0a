----------------------------- MODULE LRUStack -----------------------------
(* What the reuse distance analysis promises: the distance of a reference to *)
(* a cache line is the number of different lines referenced since the last   *)
(* reference to that line, and -1 when there was none.  The stack has the    *)
(* lines in the order of their last references, the latest first.            *)
EXTENDS Integers, Sequences

CONSTANT Tag          \* the cache lines

VARIABLES stack,      \* the lines referenced so far
          last        \* the distance of the last reference

Lines == {stack[i] : i \in 1 .. Len(stack)}

Init == stack = <<>> /\ last = -1

FirstReference(tag) ==
    /\ tag \notin Lines
    /\ last' = -1
    /\ stack' = <<tag>> \o stack

Reference(tag) ==
    \E i \in 1 .. Len(stack) :
        /\ stack[i] = tag
        /\ last' = i - 1
        /\ stack' = <<tag>> \o SubSeq(stack, 1, i - 1)
                            \o SubSeq(stack, i + 1, Len(stack))

Next == \E tag \in Tag : FirstReference(tag) \/ Reference(tag)

Spec == Init /\ [][Next]_<<stack, last>>
=============================================================================
