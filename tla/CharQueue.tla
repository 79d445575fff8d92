----------------------------- MODULE CharQueue ------------------------------
(***************************************************************************)
(* What the terminal window promises the program about the keyboard: a     *)
(* first-in first-out queue of characters that ignores what does not fit   *)
(* and answers 0 when there is nothing (the comments at                    *)
(* Studio/IOWindow.cpp:797 and 811).                                       *)
(***************************************************************************)
EXTENDS Naturals, Sequences

CONSTANTS Char, Nothing, Capacity

VARIABLES
  queue,   \* the characters waiting
  answer   \* what the program was handed last

Init == queue = <<>> /\ answer = Nothing

Put(c) ==
  /\ queue' = IF Len(queue) < Capacity THEN Append(queue, c) ELSE queue
  /\ UNCHANGED answer

Get ==
  \/ queue = <<>> /\ answer' = Nothing /\ UNCHANGED queue
  \/ queue # <<>> /\ answer' = Head(queue) /\ queue' = Tail(queue)

Next == Get \/ \E c \in Char : Put(c)

Spec == Init /\ [][Next]_<<queue, answer>>
=============================================================================
