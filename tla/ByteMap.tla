------------------------------- MODULE ByteMap ------------------------------
(***************************************************************************)
(* What a program image promises: a map from addresses to bytes.           *)
(***************************************************************************)
CONSTANTS Address, Byte

VARIABLE image

Init == image = <<>>

Put(a, b) ==
  image' = [x \in DOMAIN image \cup {a} |-> IF x = a THEN b ELSE image[x]]

Next == \E a \in Address, b \in Byte : Put(a, b)

Spec == Init /\ [][Next]_image
=============================================================================
