------------------------------ MODULE Allocator ------------------------------
(***************************************************************************)
(* What kmalloc/kmalloc_base/kfree (kernel/mm/heap.c) promise their        *)
(* callers, with nothing said of how: memory handed out is an interval of  *)
(* addresses that no other live allocation shares, and it stays as it is   *)
(* until it is freed.  (What was asked for is not part of the state, so    *)
(* alignment is the separate property AlignedWhenAsked of module Heap.)    *)
(***************************************************************************)
EXTENDS Integers

CONSTANT REQUESTS       \* the sizes callers ask for

VARIABLE live           \* the payloads in use: records [start, size]

Payload == [start : Nat, size : Nat]

Overlap(p, q) == /\ p.start < q.start + q.size
                 /\ q.start < p.start + p.size

Init == live = {}

\* A fresh payload, large enough, apart from every live one.
Alloc(n) ==
  \E p \in live' :
     /\ p \in Payload
     /\ p.size >= n
     /\ p \notin live /\ \A q \in live : ~Overlap(p, q)
     /\ live' = live \union {p}

Free(p) == /\ p \in live
           /\ live' = live \ {p}

Next == \/ \E n \in REQUESTS : Alloc(n)
        \/ \E p \in live : Free(p)

Spec == Init /\ [][Next]_live
=============================================================================
