------------------------------- MODULE Blocks -------------------------------
(***************************************************************************)
(* The blocks of code of class BinaryProgram: a map from the address a     *)
(* block begins at to its bytes (mem_ of BinaryProgram::Impl).  A block    *)
(* that has grown up to the next one takes over its bytes and leaves it    *)
(* empty in the map.  Addresses do not reach 2^32.                         *)
(***************************************************************************)
EXTENDS Integers, Sequences, FiniteSetsExt

End(mem, k)   == k + Len(mem[k])
Below(mem, a) == {k \in DOMAIN mem : k < a}
Last(mem)     == Max(DOMAIN mem)

(* Faulty variant of Absorb: one address too early.                        *)
AbsorbAcrossGap(mem, k1, k2) ==
  IF End(mem, k1) + 1 = k2
    THEN [mem EXCEPT ![k1] = @ \o mem[k2], ![k2] = <<>>] ELSE mem

Absorb(mem, k1, k2) ==
  IF End(mem, k1) = k2
    THEN [mem EXCEPT ![k1] = @ \o mem[k2], ![k2] = <<>>] ELSE mem

(* Every block but the first is offered to the one before it, in order.    *)
Offered(mem) ==
  LET done[k \in DOMAIN mem] ==
        IF Below(mem, k) = {} THEN mem
        ELSE LET before == Max(Below(mem, k)) IN Absorb(done[before], before, k)
  IN  done

Consolidate(mem) == IF DOMAIN mem = {} THEN mem ELSE Offered(mem)[Last(mem)]

(* The first block, by address, that holds the address or ends at it       *)
Holders(mem, a) == {k \in DOMAIN mem : k <= a /\ a <= End(mem, k)}

(* Faulty variant of Put: a byte inside a block is appended too.           *)
PutAppending(mem, a, byte) ==
  IF Holders(mem, a) = {}
    THEN Consolidate([k \in DOMAIN mem \cup {a} |-> IF k = a THEN <<byte>> ELSE mem[k]])
    ELSE LET k == Min(Holders(mem, a))
         IN  Consolidate([mem EXCEPT ![k] = Append(@, byte)])

Put(mem, a, byte) ==
  IF Holders(mem, a) = {}
    THEN Consolidate([k \in DOMAIN mem \cup {a} |-> IF k = a THEN <<byte>> ELSE mem[k]])
    ELSE LET k == Min(Holders(mem, a))
         IN  IF a = End(mem, k)
               THEN Consolidate([mem EXCEPT ![k] = Append(@, byte)])
               ELSE [mem EXCEPT ![k][a - k + 1] = byte]

(* The bytes a simulator's memory gets from the blocks, copied in order    *)
(* (Simulator::SetProgram, also SaveBinaryCode): the last block to hold an *)
(* address gives the byte.                                                 *)
Held(mem, a)  == {k \in DOMAIN mem : k <= a /\ a < End(mem, k)}
Covered(mem)  == UNION {k .. End(mem, k) - 1 : k \in DOMAIN mem}
Image(mem)    == [a \in Covered(mem) |-> LET k == Max(Held(mem, a)) IN mem[k][a - k + 1]]

(* What LoadBinaryProgram makes of what SaveBinaryCode wrote: chunk after  *)
(* chunk is put byte by byte.                                              *)
PutAll(mem, a, data) ==
  LET put[i \in 0 .. Len(data)] ==
        IF i = 0 THEN mem ELSE Put(put[i - 1], a + i - 1, data[i])
  IN  put[Len(data)]

Read(mem) ==
  LET read[k \in DOMAIN mem] ==
        PutAll(IF Below(mem, k) = {} THEN <<>> ELSE read[Max(Below(mem, k))], k, mem[k])
  IN  read

Reloaded(mem) == IF DOMAIN mem = {} THEN <<>> ELSE Read(mem)[Last(mem)]
=============================================================================
