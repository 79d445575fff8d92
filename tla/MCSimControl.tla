--------------------------- MODULE MCSimControl ---------------------------
(***************************************************************************)
(* A small program for SimControl: monitor 1, program 2..4 with a          *)
(* subroutine call at 2 (return address 3, callee 4).                      *)
(***************************************************************************)
EXTENDS SimControl, TLC

MCAddr == 1..4
Do(kind, to) == [kind |-> kind, to |-> to]

MCReturns == [a \in {2} |-> 3]

(* Call, return, loop, HALT and a reported exception.                      *)
PlainProgram ==
  (1 :> {Do("step", 2)} @@ 2 :> {Do("step", 4)}
   @@ 3 :> {Do("step", 2), Do("halt", 3)}
   @@ 4 :> {Do("return", 3), Do("fault", 1)})

(* Three addresses, for two threads: the call at 2 comes back to 3 at once, *)
(* faults on a fault or ends in an internal error.                          *)
BrokenAddr == 1..3
BrokenProgram ==
  (1 :> {Do("step", 2)}
   @@ 2 :> {Do("step", 3), Do("double", 1), Do("error", 1)}
   @@ 3 :> {Do("return", 2), Do("halt", 3)})

(* Monitor and an endless loop that may halt or fault, for the liveness run. *)
LoopAddr == 1..2
LoopProgram == (1 :> {Do("step", 2)} @@ 2 :> {Do("step", 2), Do("halt", 2), Do("fault", 1)})
NoCalls == [a \in {} |-> 1]

ThreadSymmetry == Permutations(Threads)

(* What the threads and the commands depend on: all but the display.       *)
ControlView == <<simVars, th, uiVars>>
=============================================================================
