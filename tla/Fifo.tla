--------------------------------- MODULE Fifo ---------------------------------
(***************************************************************************)
(* What a table queue promises: operations leave it in the order in which  *)
(* they were put in, one or several at a time, and none appears from       *)
(* nowhere or twice.                                                       *)
(***************************************************************************)
EXTENDS Integers, Sequences

CONSTANT Item
VARIABLE items

Init == items = <<>>

Put(x) == items' = Append(items, x)

Take(n) == items' = SubSeq(items, n + 1, Len(items))

Next == \/ \E x \in Item : Put(x)
        \/ \E n \in 1..Len(items) : Take(n)

Spec == Init /\ [][Next]_items
===============================================================================
