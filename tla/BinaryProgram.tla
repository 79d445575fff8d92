---------------------------- MODULE BinaryProgram ---------------------------
(***************************************************************************)
(* A binary program (ColdFire/BinaryProgram.cpp) as the assembler or a     *)
(* loader builds it, byte by byte (PutWord and PutLongWord put two and     *)
(* four), saved and loaded again at any moment.  A byte is its address and *)
(* a count of the writes to it, so that a byte in the wrong place and one  *)
(* that is out of date are visible.                                        *)
(***************************************************************************)
EXTENDS Blocks

CONSTANTS
  Top,     \* the addresses are 0 .. Top
  Times     \* how many times an address may be written

ASSUME TopAssumption  == Top \in Nat
ASSUME TimesAssumption == Times \in Nat

Address == 0 .. Top
Byte    == Address \X (1 .. Times)

VARIABLES
  mem,      \* BinaryProgram::Impl::mem_
  puts      \* how many times each address was written (no part of the code)

vars == <<mem, puts>>

Init == mem = <<>> /\ puts = [a \in Address |-> 0]

PutByte(a) ==
  /\ puts[a] < Times
  /\ puts' = [puts EXCEPT ![a] = @ + 1]
  /\ mem' = Put(mem, a, <<a, puts'[a]>>)

SaveAndLoad ==
  /\ mem' = Reloaded(mem)
  /\ UNCHANGED puts

Next ==
  \/ \E a \in Address : PutByte(a)
  \/ SaveAndLoad

Spec == Init /\ [][Next]_vars

-----------------------------------------------------------------------------
(* A block holds bytes, and every byte that was put - and no other -       *)
(* belongs to some block.                                                  *)
TypeOK ==
  /\ puts \in [Address -> 0 .. Times]
  /\ DOMAIN mem \subseteq Address
  /\ \A k \in DOMAIN mem : mem[k] \in Seq(Byte)
  /\ Covered(mem) = {a \in Address : puts[a] > 0}

(* A byte that is put is what the simulator loads at its address, however  *)
(* the blocks have grown into one another, unless another block holds the  *)
(* address too: then the block loaded last may keep the old byte.  No      *)
(* address is in two blocks before some address is written again (Put,     *)
(* Consolidate, Simulator::SetProgram).                                    *)
PutTakesEffect ==
  [][\A a \in Address :
       PutByte(a) /\ (Cardinality(Held(mem', a)) = 1 \/ \A x \in Address : puts'[x] < 2)
         => Image(mem')[a] = <<a, puts'[a]>>]_vars

(* The image is a map of which a step changes one byte at most: no merge   *)
(* shifts or revives bytes, and neither does saving the program and        *)
(* loading it again, overlap or not (SaveBinaryCode, LoadBinaryProgram).   *)
Map == INSTANCE ByteMap WITH image <- Image(mem)
ImplementsMap == Map!Spec
=============================================================================
