--------------------------- MODULE MemoryMapProofs --------------------------
(***************************************************************************)
(* What MemoryMap promises, for every layout of banks, windows and         *)
(* devices.  The heart is that the decoding of an address is exact:        *)
(* LEMMA Decoded says what an answer of GetMemoryAddress means.            *)
(***************************************************************************)
EXTENDS MemoryMap, SequenceTheorems, FiniteSetTheorems, WellFoundedInduction, TLAPS

(* The only fact about the state the results rest on: MBAR is an address.  *)
IInv == mbar \in Address

-----------------------------------------------------------------------------
LEMMA BankFacts ==
  \A b \in DOMAIN Banks :
    /\ b \in Nat /\ Banks[b].base \in Nat /\ Banks[b].end \in Nat
    /\ Banks[b].base <= Banks[b].end /\ Banks[b].end + 1 < Space
<1> DEFINE S == [base : Nat, end : Nat, kind : Kinds]
<1>1. Banks \in Seq(S)
  BY BankAssumption
<1> HIDE DEF S
<1>2. \A b \in DOMAIN Banks : b \in Nat /\ Banks[b] \in S
  BY <1>1
<1>3. \A b \in DOMAIN Banks : Banks[b].base \in Nat /\ Banks[b].end \in Nat
  BY <1>2 DEF S
<1> QED  BY <1>2, <1>3, BankAssumption

(* uint32 arithmetic of two addresses.                                     *)
LEMMA WrapOf ==
  ASSUME NEW a \in Address, NEW n \in Address
  PROVE  /\ Wrap(a + n) \in Address
         /\ Wrap(a + n) >= a => Wrap(a + n) = a + n
<1> USE SpaceAssumption DEF Address
<1>1. a + n \in Nat
  OBVIOUS
<1>2. CASE a + n < Space
  <2>1. (a + n) % Space = a + n
    BY <1>1, <1>2
  <2> QED  BY <2>1, <1>2 DEF Wrap
<1>3. CASE a + n >= Space
  <2>1. (a + n) % Space = a + n - Space
    BY <1>1, <1>3
  <2> QED  BY <2>1, <1>3 DEF Wrap
<1> QED  BY <1>1, <1>2, <1>3

(* The banks do not overlap, so that the first that holds an address is    *)
(* the only one.                                                           *)
LEMMA BankOf ==
  ASSUME NEW addr \in Address, NEW b \in DOMAIN Banks, Holds(b, addr)
  PROVE  Bank(addr) = b
<1> DEFINE First(a) == Holds(a, addr) /\ \A c \in DOMAIN Banks : c < a => ~Holds(c, addr)
<1>2. \A c \in DOMAIN Banks : Holds(c, addr) => c = b
  <2> SUFFICES ASSUME NEW c \in DOMAIN Banks, Holds(c, addr), c # b  PROVE FALSE
    OBVIOUS
  <2>1. Banks[b].end < Banks[c].base \/ Banks[c].end < Banks[b].base
    BY BankAssumption
  <2>2. /\ Banks[b].base <= addr /\ addr <= Banks[b].end
        /\ Banks[c].base <= addr /\ addr <= Banks[c].end
    BY DEF Holds
  <2>3. /\ addr \in Int
        /\ Banks[b].base \in Int /\ Banks[b].end \in Int
        /\ Banks[c].base \in Int /\ Banks[c].end \in Int
    BY BankFacts DEF Address
  <2> QED  BY <2>1, <2>2, <2>3
<1>3. b \in Int
  BY BankFacts
<1>4. First(b)
  BY <1>2, <1>3
<1>5. \A a \in DOMAIN Banks : First(a) => a = b
  BY <1>2
<1>6. Bank(addr) = CHOOSE a \in DOMAIN Banks : First(a)
  BY DEF Bank
<1> HIDE DEF First
<1> QED  BY <1>4, <1>5, <1>6

(* An answer that means memory: one bank holds all of the access.          *)
LEMMA Decoded ==
  ASSUME IInv, NEW addr \in Address, NEW size \in Address, Memory(Decode(addr, size))
  PROVE  /\ addr + size < Space
         /\ ~Within(addr, SimBase, SimSize) /\ ~Within(addr, mbar, Window)
         /\ \E b \in DOMAIN Banks :
              /\ Holds(b, addr) /\ addr + size <= Banks[b].end + 1
              /\ Decode(addr, size) = Found(Banks[b].kind, addr, <<b, addr - Banks[b].base>>)
              /\ Banks[b].kind \in {"ram", "rom"}
<1> DEFINE end == Wrap(addr + size)
<1>1. end \in Address /\ (end >= addr => end = addr + size)
  BY WrapOf
<1>2. \A x : ~Memory(Bad(x))
  BY DEF Memory, Bad, Found
<1>3. ~Memory(Found("sim", addr, NoCell)) /\ ~Memory(Found("device", addr, NoCell))
  BY DEF Memory, Found
<1> HIDE DEF end
<1>4. end >= addr
  <2> SUFFICES ASSUME end < addr  PROVE FALSE
    BY <1>1 DEF Address
  <2>1. Decode(addr, size) = Bad(end)
    BY <1>1 DEF Decode, end, Address
  <2> QED  BY <2>1, <1>2
<1>5. ~Within(addr, SimBase, SimSize)
  <2> SUFFICES ASSUME Within(addr, SimBase, SimSize)  PROVE FALSE
    OBVIOUS
  <2>1. Decode(addr, size) = Bad(end) \/ Decode(addr, size) = Found("sim", addr, NoCell)
    BY <1>1, <1>4 DEF Decode, end, Address
  <2> QED  BY <2>1, <1>2, <1>3
<1>6. ~Within(addr, mbar, Window)
  <2> SUFFICES ASSUME Within(addr, mbar, Window)  PROVE FALSE
    OBVIOUS
  <2>1. Decode(addr, size) = Bad(end) \/ Decode(addr, size) = Found("device", addr, NoCell)
    BY <1>1, <1>4, <1>5 DEF Decode, end, Address
  <2> QED  BY <2>1, <1>2, <1>3
<1>7. Decode(addr, size) = IF \E b \in DOMAIN Banks : Holds(b, addr)
                             THEN InBank(addr, end, Bank(addr)) ELSE Bad(addr)
  BY <1>1, <1>4, <1>5, <1>6 DEF Decode, end, Address
<1>8. PICK b \in DOMAIN Banks : Holds(b, addr)
  BY <1>7, <1>2
<1>9. Decode(addr, size) = InBank(addr, end, b)
  BY <1>7, <1>8, BankOf
<1>10. ~(end > Banks[b].end + 1)
  BY <1>9, <1>2 DEF InBank
<1>11. Decode(addr, size) = Found(Banks[b].kind, addr, <<b, addr - Banks[b].base>>)
  BY <1>9, <1>10 DEF InBank
<1>12. Banks[b].kind \in {"ram", "rom"}
  BY <1>11 DEF Found, Memory
<1>13. Banks[b].end \in Nat
  BY BankFacts
<1>14. end = addr + size
  BY <1>1, <1>4
<1>15. addr + size < Space
  BY <1>14, <1>1, SpaceAssumption DEF Address
<1>16. addr + size <= Banks[b].end + 1
  BY <1>10, <1>13, <1>14, <1>1 DEF Address
<1> QED  BY <1>5, <1>6, <1>8, <1>11, <1>12, <1>15, <1>16

(* The converse: an access that lies in a bank with memory gets there.     *)
LEMMA Decodes ==
  ASSUME IInv, NEW addr \in Address, NEW size \in Address, NEW b \in DOMAIN Banks,
         Holds(b, addr), addr + size <= Banks[b].end + 1, Banks[b].kind \in {"ram", "rom"},
         ~Within(addr, SimBase, SimSize), ~Within(addr, mbar, Window)
  PROVE  Decode(addr, size) = Found(Banks[b].kind, addr, <<b, addr - Banks[b].base>>)
<1> DEFINE end == Wrap(addr + size)
<1>1. Banks[b].end \in Nat /\ Banks[b].end + 1 < Space
  BY BankFacts
<1>2. addr + size \in 0 .. Space - 1
  BY <1>1, SpaceAssumption DEF Address
<1>3. (addr + size) % Space = addr + size
  BY <1>2, SpaceAssumption
<1>4. end = addr + size
  BY <1>3 DEF Wrap
<1>5. end >= addr /\ ~(end < addr) /\ ~(end > Banks[b].end + 1)
  BY <1>4, <1>1 DEF Address
<1>6. Bank(addr) = b
  BY BankOf
<1> HIDE DEF end
<1>7. Decode(addr, size) = IF \E c \in DOMAIN Banks : Holds(c, addr)
                             THEN InBank(addr, end, Bank(addr)) ELSE Bad(addr)
  BY <1>5 DEF Decode, end
<1>8. Decode(addr, size) = InBank(addr, end, b)
  BY <1>6, <1>7
<1> QED  BY <1>8, <1>5 DEF InBank

-----------------------------------------------------------------------------
LEMMA BasesAreAddresses == \A b \in DOMAIN Bases \cup {1} : Bases[b] \in Address
<1>1. Bases \in Seq(Address) /\ Bases # <<>>
  BY WindowAssumption DEF Address
<1> QED  BY <1>1

(* MBAR stays an address.                                                  *)
THEOREM Invariance == Spec => []IInv
<1>1. Init => IInv
  BY BasesAreAddresses DEF Init, IInv
<1>2. IInv /\ [Next]_vars => IInv'
  <2> SUFFICES ASSUME IInv, [Next]_vars  PROVE IInv'
    OBVIOUS
  <2>1. ASSUME NEW addr \in Address, NEW size \in Sizes, Load(addr, size)  PROVE IInv'
    BY <2>1 DEF Load, IInv
  <2>2. ASSUME NEW addr \in Address, NEW size \in Sizes, NEW data \in [1 .. size -> Byte],
               Store(addr, data)
        PROVE  IInv'
    BY <2>2 DEF Store, IInv
  <2>3. ASSUME NEW b \in DOMAIN Bases, SetMBAR(Bases[b])  PROVE IInv'
    BY <2>3, BasesAreAddresses DEF SetMBAR, IInv
  <2>4. ASSUME NEW p \in Parts, SetProgram(p)  PROVE IInv'
    BY <2>4 DEF SetProgram, IInv
  <2>5. CASE ClearMemory
    BY <2>5 DEF ClearMemory, IInv
  <2>6. CASE Reset
    BY <2>6, BasesAreAddresses DEF Reset, IInv
  <2>7. CASE UNCHANGED vars
    BY <2>7 DEF vars, IInv
  <2> QED  BY <2>1, <2>2, <2>3, <2>4, <2>5, <2>6, <2>7 DEF Next
<1> QED  BY <1>1, <1>2, PTL DEF Spec

-----------------------------------------------------------------------------
(* Whatever the layout of the board, the pointer GetMemoryAddress returns  *)
(* is good for all bytes of the access it was asked for.                   *)
LEMMA CellsOfBank ==
  ASSUME NEW b \in DOMAIN Banks, Banks[b].kind # "null",
         NEW n \in Nat, n <= Banks[b].end - Banks[b].base
  PROVE  <<b, n>> \in Cells
<1>1. Banks[b].base \in Nat /\ Banks[b].end \in Nat /\ Banks[b].end + 1 < Space
  BY BankFacts
<1>2. n \in Address
  BY <1>1, SpaceAssumption DEF Address
<1> QED  BY <1>2 DEF Cells

LEMMA Exact ==
  ASSUME IInv
  PROVE  NoOverrun
<1> SUFFICES ASSUME NEW addr \in Address, NEW size \in 0 .. Space - 1,
                    Memory(Decode(addr, size))
             PROVE  /\ Decode(addr, size).cell \in Cells
                    /\ \A i \in 0 .. size - 1 : Cell(Decode(addr, size), i) \in Cells
  BY DEF NoOverrun
<1>1. PICK b \in DOMAIN Banks :
        /\ Holds(b, addr) /\ addr + size <= Banks[b].end + 1
        /\ Decode(addr, size) = Found(Banks[b].kind, addr, <<b, addr - Banks[b].base>>)
        /\ Banks[b].kind \in {"ram", "rom"}
  BY Decoded DEF Address
<1>2. Banks[b].base \in Nat /\ Banks[b].end \in Nat /\ Banks[b].base <= addr /\ addr <= Banks[b].end
  BY <1>1, BankFacts DEF Holds
<1>3. Decode(addr, size).cell = <<b, addr - Banks[b].base>>
  BY <1>1 DEF Found
<1>4. ASSUME NEW i \in Nat, addr + i <= Banks[b].end
      PROVE  <<b, addr - Banks[b].base + i>> \in Cells
  <2>1. addr - Banks[b].base + i \in Nat /\ addr - Banks[b].base + i <= Banks[b].end - Banks[b].base
    BY <1>2, <1>4 DEF Address
  <2> QED  BY <2>1, <1>1, CellsOfBank
<1>5. <<b, addr - Banks[b].base>> \in Cells
  <2>1. addr - Banks[b].base + 0 = addr - Banks[b].base /\ addr + 0 <= Banks[b].end
    BY <1>2 DEF Address
  <2> QED  BY <2>1, <1>4
<1>6. ASSUME NEW i \in 0 .. size - 1  PROVE Cell(Decode(addr, size), i) \in Cells
  <2>1. i \in Nat /\ addr + i <= Banks[b].end
    BY <1>1, <1>2 DEF Address
  <2> QED  BY <2>1, <1>3, <1>4 DEF Cell
<1> QED  BY <1>3, <1>5, <1>6

THEOREM NeverOverruns == Spec => []NoOverrun
<1>1. IInv => NoOverrun
  BY Exact
<1> QED  BY <1>1, Invariance, PTL

-----------------------------------------------------------------------------
(* The bytes of an access are the cells of their own addresses.            *)
LEMMA SameCell ==
  ASSUME IInv, NEW addr \in Address, NEW size \in Address, Memory(Decode(addr, size)),
         NEW i \in 0 .. size - 1, NEW n \in 0 .. 1, Memory(Decode(addr + i, n))
  PROVE  Decode(addr + i, n).cell = Cell(Decode(addr, size), i)
<1> DEFINE at == addr + i
<1>1. PICK b \in DOMAIN Banks :
        /\ Holds(b, addr) /\ addr + size <= Banks[b].end + 1
        /\ Decode(addr, size) = Found(Banks[b].kind, addr, <<b, addr - Banks[b].base>>)
  BY Decoded
<1>2. addr + size < Space
  BY Decoded
<1>3. at \in Address /\ n \in Address
  BY <1>2, SpaceAssumption DEF Address
<1>4. Memory(Decode(at, n))
  OBVIOUS
<1>5. Banks[b].base \in Nat /\ Banks[b].end \in Nat
  BY BankFacts
<1>6. Holds(b, at)
  BY <1>1, <1>5 DEF Holds, Address
<1>7. at - Banks[b].base = (addr - Banks[b].base) + i
  BY <1>5 DEF Address
<1> HIDE DEF at
<1>8. PICK c \in DOMAIN Banks :
        /\ Holds(c, at)
        /\ Decode(at, n) = Found(Banks[c].kind, at, <<c, at - Banks[c].base>>)
  BY <1>3, <1>4, Decoded
<1>9. b = c
  BY <1>3, <1>6, <1>8, BankOf
<1>10. Decode(at, n).cell = <<b, at - Banks[b].base>>
  BY <1>8, <1>9 DEF Found
<1>11. Decode(addr, size).cell = <<b, addr - Banks[b].base>>
  BY <1>1 DEF Found
<1> QED  BY <1>7, <1>10, <1>11 DEF Cell, at

(* The debugger's view never disagrees with what a program would load,     *)
(* whether the view is copied at once or byte by byte.                     *)
THEOREM ViewsAgree == Spec => []ViewAgrees
<1>1. IInv => ViewAgrees
  <2> SUFFICES ASSUME IInv, NEW addr \in Address, NEW length \in 1 .. Space - 1,
                      NEW i \in DOMAIN ReadMemory(addr, length),
                      Memory(Decode(addr + i, 1))
               PROVE  ReadMemory(addr, length)[i] = bytes[Decode(addr + i, 1).cell]
    BY DEF ViewAgrees
  <2>1. length \in Address /\ Space \in Nat
    BY SpaceAssumption DEF Address
  <2>2. CASE Memory(Decode(addr, length))
    <3>1. ReadMemory(addr, length) = [k \in 0 .. length - 1 |-> bytes[Cell(Decode(addr, length), k)]]
      BY <2>2 DEF ReadMemory
    <3>2. i \in 0 .. length - 1
      BY <3>1
    <3>3. Decode(addr + i, 1).cell = Cell(Decode(addr, length), i)
      BY <2>1, <2>2, <3>2, SameCell
    <3> QED  BY <3>1, <3>2, <3>3
  <2>3. CASE ~Memory(Decode(addr, length))
    <3> DEFINE at   == addr + i
               upto == (IF addr + length < Space THEN length ELSE Space - addr) - 1
    <3>1. ReadMemory(addr, length) =
            [k \in 0 .. upto |-> LET e == Decode(addr + k, 0)
                                 IN  IF Memory(e) THEN bytes[e.cell] ELSE None]
      BY <2>3 DEF ReadMemory
    <3>2. i \in 0 .. upto
      BY <3>1
    <3>3. at \in Address
      BY <2>1, <3>2 DEF Address
    <3>4. Memory(Decode(at, 1))
      OBVIOUS
    <3>5. ReadMemory(addr, length)[i] =
            IF Memory(Decode(at, 0)) THEN bytes[Decode(at, 0).cell] ELSE None
      BY <3>1, <3>2
    <3> HIDE DEF at
    <3>6. 0 \in Address /\ 1 \in Address
      BY <2>1 DEF Address
    <3>7. PICK b \in DOMAIN Banks :
            /\ Holds(b, at) /\ at + 1 <= Banks[b].end + 1
            /\ Decode(at, 1) = Found(Banks[b].kind, at, <<b, at - Banks[b].base>>)
            /\ Banks[b].kind \in {"ram", "rom"}
      BY <3>3, <3>4, <3>6, Decoded
    <3>8. ~Within(at, SimBase, SimSize) /\ ~Within(at, mbar, Window)
      BY <3>3, <3>4, <3>6, Decoded
    <3>9. at + 0 <= Banks[b].end + 1
      BY <3>3, <3>7, BankFacts DEF Address
    <3>10. Decode(at, 0) = Found(Banks[b].kind, at, <<b, at - Banks[b].base>>)
      BY <3>3, <3>6, <3>7, <3>8, <3>9, Decodes
    <3>11. Decode(at, 0) = Decode(at, 1) /\ Memory(Decode(at, 0))
      BY <3>4, <3>7, <3>10
    <3> QED  BY <3>5, <3>11 DEF at
  <2> QED  BY <2>2, <2>3
<1> QED  BY <1>1, Invariance, PTL

-----------------------------------------------------------------------------
(* Every register of a device answers at its port, for any window that     *)
(* does not wrap around and any set of devices.                            *)
LEMMA DeviceFacts ==
  \A d \in DOMAIN Devices :
    /\ d \in Nat /\ d # 0 /\ Devices[d].base \in Nat /\ Devices[d].end \in Nat
    /\ Devices[d].base <= Devices[d].end /\ Devices[d].end < Window
<1> DEFINE S == [base : Nat, end : Nat]
<1>1. Devices \in Seq(S)
  BY DeviceAssumption
<1> HIDE DEF S
<1>2. \A d \in DOMAIN Devices : d \in Nat /\ d # 0 /\ Devices[d] \in S
  BY <1>1
<1>3. \A d \in DOMAIN Devices : Devices[d].base \in Nat /\ Devices[d].end \in Nat
  BY <1>2 DEF S
<1> QED  BY <1>2, <1>3, DeviceAssumption

THEOREM RegistersAnswer == Spec => []DevicesReachable
<1>1. IInv => DevicesReachable
  <2> SUFFICES ASSUME IInv, mbar + Window < Space, NEW d \in DOMAIN Devices,
                      NEW offset \in Devices[d].base .. Devices[d].end - 1,
                      DeviceAt(offset) = d, ~Within(mbar + offset, SimBase, SimSize)
               PROVE  /\ \A size \in 1 .. Devices[d].end - offset :
                           Decode(mbar + offset, size).type = "device"
                      /\ Reached(mbar + offset) = IO(d, offset - Devices[d].base)
    BY DEF DevicesReachable
  <2>1. /\ Devices[d].base \in Nat /\ Devices[d].end \in Nat /\ d # 0
        /\ Devices[d].end < Window
    BY DeviceFacts
  <2>2. offset \in Nat /\ offset < Devices[d].end
    BY <2>1
  <2>3. mbar \in Nat /\ Window \in Nat /\ Space \in Nat \ {0}
    BY SpaceAssumption, WindowAssumption DEF IInv, Address
  <2>4. Reached(mbar + offset) = IO(d, offset - Devices[d].base)
    <3>1. (mbar + offset) - mbar = offset
      BY <2>2, <2>3
    <3> QED  BY <3>1, <2>1 DEF Reached
  <2>5. ASSUME NEW size \in 1 .. Devices[d].end - offset
        PROVE  Decode(mbar + offset, size).type = "device"
    <3> DEFINE at == mbar + offset
               end == Wrap(at + size)
    <3>1. at + size \in 0 .. Space - 1 /\ at + size < mbar + Window /\ at \in Nat /\ size \in Nat
      BY <2>1, <2>2, <2>3
    <3>2. (at + size) % Space = at + size
      BY <3>1, <2>3
    <3>3. end = at + size
      BY <3>2 DEF Wrap
    <3>4. mbar + Window \in 0 .. Space - 1
      BY <2>3
    <3>5. (mbar + Window) % Space = mbar + Window
      BY <3>4, <2>3
    <3>6. Wrap(mbar + Window) = mbar + Window
      BY <3>5 DEF Wrap
    <3>7. Within(at, mbar, Window)
      BY <3>1, <3>6, <2>2, <2>3 DEF Within
    <3>8. end >= at /\ ~(end < at) /\ ~(end >= Wrap(mbar + Window))
      BY <3>1, <3>3, <3>6, <2>3
    <3>9. ~Within(at, SimBase, SimSize)
      OBVIOUS
    <3> HIDE DEF at, end
    <3>10. Decode(at, size) = Found("device", at, NoCell)
      BY <3>7, <3>8, <3>9 DEF Decode, end
    <3> QED  BY <3>10 DEF Found, at
  <2> QED  BY <2>4, <2>5
<1> QED  BY <1>1, Invariance, PTL

-----------------------------------------------------------------------------
(* Flash is written by the debugger only.                                  *)
THEOREM FlashIsKept == Spec => FlashKept
<1> DEFINE Rom(c) == Banks[c[1]].kind = "rom"
           Kept   == (\E c \in Cells : Rom(c) /\ bytes'[c] # bytes[c])
                       => ClearMemory \/ \E p \in Parts : SetProgram(p)
<1>1. IInv /\ [Next]_vars => Kept
  <2> SUFFICES ASSUME IInv, [Next]_vars, NEW c \in Cells, Rom(c), bytes'[c] # bytes[c]
               PROVE  ClearMemory \/ \E p \in Parts : SetProgram(p)
    OBVIOUS
  <2>1. ASSUME NEW addr \in Address, NEW size \in Sizes, Load(addr, size)  PROVE FALSE
    BY <2>1 DEF Load
  <2>2. ASSUME NEW addr \in Address, NEW size \in Sizes, NEW data \in [1 .. size -> Byte],
               Store(addr, data)
        PROVE  FALSE
    <3> DEFINE d == Decode(addr, Len(data))
    <3>1. d.type = "ram" /\ bytes' = Written(d, data)
      BY <2>2 DEF Store
    <3>2. Memory(d)
      BY <3>1 DEF Memory
    <3>3. Len(data) \in Address
      BY DataAssumption, SpaceAssumption DEF Address
    <3>4. PICK b \in DOMAIN Banks : d = Found(Banks[b].kind, addr, <<b, addr - Banks[b].base>>)
      BY <3>2, <3>3, Decoded
    <3>5. Banks[b].kind = "ram" /\ d.cell[1] = b
      BY <3>1, <3>4 DEF Found
    <3>6. PICK i \in DOMAIN data : c = Cell(d, i - 1)
      BY <3>1 DEF Written
    <3>7. c[1] = b
      BY <3>5, <3>6 DEF Cell
    <3> QED  BY <3>5, <3>7
  <2>3. ASSUME NEW b \in DOMAIN Bases, SetMBAR(Bases[b])  PROVE FALSE
    BY <2>3 DEF SetMBAR
  <2>4. CASE Reset
    BY <2>4 DEF Reset
  <2>5. CASE UNCHANGED vars
    BY <2>5 DEF vars
  <2> QED  BY <2>1, <2>2, <2>3, <2>4, <2>5 DEF Next
<1>2. IInv /\ [Next]_vars => [Kept]_vars
  BY <1>1
<1> QED  BY <1>2, Invariance, PTL DEF Spec, FlashKept

-----------------------------------------------------------------------------
(* Where the parts of a started program do not overlap, its bytes are in   *)
(* memory, each at its own address, however the banks are laid out.        *)
LEMMA PartFacts ==
  ASSUME NEW p \in Parts, NEW i \in DOMAIN p
  PROVE  /\ i \in Nat \ {0} /\ p[i].at \in Address /\ p[i].data \in Seq(Byte)
         /\ Len(p[i].data) \in Address
<1> DEFINE S == [at : 0 .. Space - 1, data : Seq(Byte)]
<1>1. p \in Seq(S)
  BY DataAssumption
<1> HIDE DEF S
<1>2. i \in Nat \ {0} /\ p[i] \in S
  BY <1>1
<1>3. p[i].at \in Address /\ p[i].data \in Seq(Byte)
  BY <1>2 DEF S, Address
<1>4. Len(p[i].data) \in Nat /\ Len(p[i].data) < Space
  BY <1>3, DataAssumption
<1>5. Len(p[i].data) \in Address
  BY <1>4, SpaceAssumption DEF Address
<1> QED  BY <1>2, <1>3, <1>5

LEMMA ByteLoaded ==
  ASSUME IInv, NEW p \in Parts, Copied(p) = DOMAIN p, bytes' = Loaded(p),
         NEW i \in DOMAIN p, NEW j \in DOMAIN p[i].data,
         Memory(Decode(p[i].at + j - 1, 1)),
         \A k \in DOMAIN p : k # i => ~Covers(p[k], Decode(p[i].at + j - 1, 1).cell)
  PROVE  bytes'[Decode(p[i].at + j - 1, 1).cell] = p[i].data[j]
<1> DEFINE at   == p[i].at
           data == p[i].data
           d    == Decode(at, Len(data))
           e    == Decode(at + j - 1, 1)
           over == {k \in Copied(p) : Covers(p[k], e.cell)}
<1>1. i \in Nat \ {0} /\ at \in Address /\ data \in Seq(Byte) /\ Len(data) \in Address
  BY PartFacts
<1>2. j \in 1 .. Len(data) /\ data # <<>>
  BY <1>1
<1>3. Memory(d)
  <2>1. i \in Copied(p)
    OBVIOUS
  <2>2. Fits(p[i])
    BY <2>1, <1>1 DEF Copied
  <2> QED  BY <2>2, <1>2 DEF Fits
<1>4. e.cell = Cell(d, j - 1)
  <2>1. j - 1 \in 0 .. Len(data) - 1 /\ at + (j - 1) = at + j - 1 /\ 1 \in 0 .. 1
    BY <1>1, <1>2 DEF Address
  <2>2. Memory(Decode(at + (j - 1), 1))
    BY <2>1
  <2>3. Decode(at + (j - 1), 1).cell = Cell(d, j - 1)
    BY <1>1, <1>3, <2>1, <2>2, SameCell
  <2> QED  BY <2>1, <2>3
<1>5. Covers(p[i], e.cell)
  BY <1>2, <1>4 DEF Covers
<1>6. over = {i}
  BY <1>5
<1>7. e.cell \in Cells
  BY <1>1, <1>2, <1>3, <1>4, Exact DEF NoOverrun, Address
<1>8. d.cell[2] \in Int
  <2>1. d.cell \in Cells
    BY <1>1, <1>3, Exact DEF NoOverrun, Address
  <2> QED  BY <2>1 DEF Cells, Address
<1>9. e.cell[2] - d.cell[2] + 1 = j
  BY <1>1, <1>2, <1>4, <1>8 DEF Cell, Address
<1>10. (CHOOSE k \in over : \A m \in over : m <= k) = i
  BY <1>1, <1>6
<1>11. bytes'[e.cell] =
         LET k == CHOOSE k \in over : \A m \in over : m <= k
         IN  p[k].data[e.cell[2] - Decode(p[k].at, Len(p[k].data)).cell[2] + 1]
  BY <1>6, <1>7 DEF Loaded
<1> HIDE DEF over
<1>12. bytes'[e.cell] = p[i].data[e.cell[2] - d.cell[2] + 1]
  BY <1>10, <1>11
<1> QED  BY <1>9, <1>12

THEOREM ProgramsAreWhole == Spec => ProgramWhole
<1> DEFINE Whole ==
      started' # started =>
        \A i \in DOMAIN started' :
          LET part == started'[i]
          IN  \A j \in DOMAIN part.data :
                LET e == Decode(part.at + j - 1, 1)
                IN  Memory(e) /\ (\A k \in DOMAIN started' : k # i => ~Covers(started'[k], e.cell))
                      => bytes'[e.cell] = part.data[j]
<1>1. ASSUME IInv, Next  PROVE Whole
  <2>1. CASE \E p \in Parts : SetProgram(p)
    <3> SUFFICES ASSUME started' # started  PROVE Whole
      OBVIOUS
    <3>1. PICK p \in Parts : SetProgram(p)
      BY <2>1
    <3>2. bytes' = Loaded(p) /\ Copied(p) = DOMAIN p /\ started' = p
      BY <3>1 DEF SetProgram
    <3> QED  BY <1>1, <3>2, ByteLoaded
  <2>2. CASE started' = started
    BY <2>2
  <2> QED  BY <1>1, <2>1, <2>2 DEF Next, Load, Store, SetMBAR, ClearMemory, Reset
<1>2. IInv /\ [Next]_vars => [Whole]_vars
  BY <1>1
<1> QED  BY <1>2, Invariance, PTL DEF Spec, ProgramWhole

-----------------------------------------------------------------------------
(* Types: what is loaded or stored are bytes, and an access to a device    *)
(* names a device and a port inside it.                                    *)

(* A set of numbers that has a bound has a last one: the least distance to *)
(* the bound, by the well-founded order of finite sets.                    *)
LEMMA LastOf ==
  ASSUME NEW n \in Nat, NEW S \in SUBSET (1 .. n), S # {}
  PROVE  \E i \in S : \A j \in S : j <= i
<1> DEFINE T == {i .. n : i \in S}
<1>1. IsWellFoundedOn(StrictSubsetOrdering(Nat), FiniteSubsetsOf(Nat))
  BY FS_StrictSubsetOrderingWellFounded
<1>2. T # {} /\ T \subseteq FiniteSubsetsOf(Nat)
  <2>1. ASSUME NEW i \in S  PROVE i .. n \in FiniteSubsetsOf(Nat)
    BY FS_Interval DEF FiniteSubsetsOf
  <2> QED  BY <2>1
<1>3. PICK x \in T : \A y \in T : <<y, x>> \notin StrictSubsetOrdering(Nat)
  <2> HIDE DEF T
  <2> QED  BY <1>1, <1>2, WFMin, Zenon
<1>4. PICK i \in S : x = i .. n
  OBVIOUS
<1>5. ASSUME NEW j \in S, j > i  PROVE FALSE
  <2>1. j .. n \in T /\ j .. n \subseteq i .. n /\ i \in i .. n /\ i \notin j .. n
    BY <1>5
  <2>2. <<j .. n, i .. n>> \in StrictSubsetOrdering(Nat)
    BY <2>1 DEF StrictSubsetOrdering
  <2> QED  BY <1>3, <1>4, <2>1, <2>2
<1> QED  BY <1>5

LEMMA DeviceFound ==
  ASSUME NEW offset, DeviceAt(offset) # 0
  PROVE  DeviceAt(offset) \in DOMAIN Devices /\ Has(DeviceAt(offset), offset)
<1> DEFINE S == {d \in DOMAIN Devices : Has(d, offset)}
           Owns(d) == Has(d, offset) /\ \A e \in DOMAIN Devices : e > d => ~Has(e, offset)
<1>1. S # {} /\ DeviceAt(offset) = CHOOSE d \in DOMAIN Devices : Owns(d)
  BY DEF DeviceAt
<1>2. Len(Devices) \in Nat /\ DOMAIN Devices = 1 .. Len(Devices)
  BY DeviceAssumption
<1>3. PICK d \in S : \A e \in S : e <= d
  BY <1>1, <1>2, LastOf
<1>4. d \in DOMAIN Devices /\ Owns(d)
  BY <1>2, <1>3
<1> HIDE DEF S
<1>5. QED
  BY <1>1, <1>4

LEMMA ReachedTyped ==
  ASSUME NEW addr \in Address, mbar \in Address, Reached(addr) # Error(addr)
  PROVE  /\ Reached(addr).kind = "device"
         /\ Reached(addr).device \in DOMAIN Devices
         /\ Has(Reached(addr).device,
                Devices[Reached(addr).device].base + Reached(addr).port)
<1> DEFINE offset == addr - mbar
           d      == DeviceAt(offset)
<1>1. d # 0 /\ Reached(addr) = IO(d, offset - Devices[d].base)
  BY DEF Reached
<1>2. d \in DOMAIN Devices /\ Has(d, offset)
  BY <1>1, DeviceFound
<1>3. Devices[d].base \in Int /\ offset \in Int
  BY <1>2, DeviceFacts, SpaceAssumption DEF Address
<1>4. /\ Reached(addr).kind = "device" /\ Reached(addr).device = d
      /\ Reached(addr).port = offset - Devices[d].base
  BY <1>1 DEF IO
<1> HIDE DEF d, offset
<1>5. Devices[d].base + (offset - Devices[d].base) = offset
  BY <1>3
<1> QED  BY <1>2, <1>4, <1>5

LEMMA FaultAtAddress ==
  ASSUME NEW addr \in Address, NEW size \in Address, Decode(addr, size).type = "fault"
  PROVE  Decode(addr, size).at \in Address
<1> DEFINE end == Wrap(addr + size)
<1>1. end \in Address
  BY WrapOf
<1> HIDE DEF end
<1>2. CASE end < addr
  BY <1>1, <1>2 DEF Decode, end, Bad, Found
<1>3. CASE end >= addr
  <2>1. ~(end < addr)
    BY <1>1, <1>3 DEF Address
  <2>2. Bad(end).at = end /\ Bad(addr).at = addr
    BY DEF Bad, Found
  <2>3. CASE Within(addr, SimBase, SimSize)
    BY <1>1, <1>3, <2>1, <2>2, <2>3 DEF Decode, end, Found
  <2>4. CASE ~Within(addr, SimBase, SimSize) /\ Within(addr, mbar, Window)
    BY <1>1, <1>3, <2>1, <2>2, <2>4 DEF Decode, end, Found
  <2>5. CASE ~Within(addr, SimBase, SimSize) /\ ~Within(addr, mbar, Window)
    <3>1. Decode(addr, size) = IF \E b \in DOMAIN Banks : Holds(b, addr)
                                 THEN InBank(addr, end, Bank(addr)) ELSE Bad(addr)
      BY <1>3, <2>1, <2>5 DEF Decode, end
    <3>2. CASE ~\E b \in DOMAIN Banks : Holds(b, addr)
      BY <3>1, <3>2, <2>2
    <3>3. CASE \E b \in DOMAIN Banks : Holds(b, addr)
      <4>1. InBank(addr, end, Bank(addr)).at \in {end, addr}
        BY <2>2 DEF InBank, Found
      <4> QED  BY <1>1, <3>1, <3>3, <4>1
    <3> QED  BY <3>2, <3>3
  <2> QED  BY <2>3, <2>4, <2>5
<1> QED  BY <1>1, <1>2, <1>3 DEF Address

(* The index of the byte a cell gets.                                      *)
LEMMA IndexOf ==
  ASSUME mbar \in Address, NEW addr \in Address, NEW data \in Seq(Byte), Len(data) \in Address,
         Memory(Decode(addr, Len(data))), NEW c,
         NEW i \in DOMAIN data, c = Cell(Decode(addr, Len(data)), i - 1)
  PROVE  c[2] - Decode(addr, Len(data)).cell[2] + 1 = i
<1> DEFINE d == Decode(addr, Len(data))
<1>1. d.cell \in Cells
  BY Exact DEF NoOverrun, Address, IInv
<1>2. d.cell[2] \in Int /\ i \in Int
  BY <1>1 DEF Cells, Address
<1>3. c[2] = d.cell[2] + (i - 1)
  BY DEF Cell
<1> HIDE DEF d
<1>4. c[2] - d.cell[2] + 1 = i
  BY <1>2, <1>3
<1> QED  BY <1>4 DEF d

LEMMA WrittenTyped ==
  ASSUME bytes \in [Cells -> Byte], mbar \in Address, NEW addr \in Address,
         NEW data \in Seq(Byte), Len(data) \in Address, Memory(Decode(addr, Len(data)))
  PROVE  Written(Decode(addr, Len(data)), data) \in [Cells -> Byte]
<1> DEFINE d == Decode(addr, Len(data))
           new(c) == IF \E i \in DOMAIN data : c = Cell(d, i - 1)
                       THEN data[c[2] - d.cell[2] + 1] ELSE bytes[c]
<1>1. ASSUME NEW c \in Cells  PROVE new(c) \in Byte
  <2>1. CASE \E i \in DOMAIN data : c = Cell(d, i - 1)
    <3>1. PICK i \in DOMAIN data : c = Cell(d, i - 1)
      BY <2>1
    <3>2. c[2] - d.cell[2] + 1 = i
      BY <3>1, IndexOf
    <3>3. data[i] \in Byte
      OBVIOUS
    <3> QED  BY <2>1, <3>2, <3>3
  <2> QED  BY <2>1
<1>2. Written(d, data) = [c \in Cells |-> new(c)]
  BY DEF Written
<1> HIDE DEF new, d
<1>3. Written(d, data) \in [Cells -> Byte]
  BY <1>1, <1>2
<1> QED  BY <1>3 DEF d

LEMMA LoadedTyped ==
  ASSUME bytes \in [Cells -> Byte], mbar \in Address, NEW p \in Parts
  PROVE  Loaded(p) \in [Cells -> Byte]
<1> DEFINE over(c)  == {i \in Copied(p) : Covers(p[i], c)}
           last(c)  == CHOOSE i \in over(c) : \A j \in over(c) : j <= i
           index(c) == c[2] - Decode(p[last(c)].at, Len(p[last(c)].data)).cell[2] + 1
           new(c)   == IF over(c) = {} THEN bytes[c] ELSE p[last(c)].data[index(c)]
<1>1. ASSUME NEW c \in Cells  PROVE new(c) \in Byte
  <2>1. CASE over(c) # {}
    <3>1. DOMAIN p = 1 .. Len(p) /\ Len(p) \in Nat
      BY DataAssumption
    <3>2. over(c) \in SUBSET (1 .. Len(p))
      BY <3>1 DEF Copied
    <3> DEFINE i == last(c)
               S == over(c)
    <3>3. i \in S
      <4>1. S # {} /\ S \in SUBSET (1 .. Len(p))
        BY <2>1, <3>2
      <4>2. i = CHOOSE k \in S : \A j \in S : j <= k
        OBVIOUS
      <4> HIDE DEF S, i
      <4>3. \E k \in S : \A j \in S : j <= k
        BY <3>1, <4>1, LastOf
      <4> QED  BY <4>2, <4>3
    <3> HIDE DEF i
    <3>4. i \in DOMAIN p /\ Fits(p[i]) /\ Covers(p[i], c)
      <4>1. i \in Copied(p) /\ Covers(p[i], c)
        BY <3>3
      <4>2. i \in DOMAIN p /\ \A j \in 1 .. i : Fits(p[j])
        BY <4>1 DEF Copied
      <4>3. i \in 1 .. i
        BY <3>1, <4>2
      <4> QED  BY <4>1, <4>2, <4>3
    <3>5. p[i].at \in Address /\ p[i].data \in Seq(Byte) /\ Len(p[i].data) \in Address
      BY <3>4, PartFacts
    <3>6. PICK j \in DOMAIN p[i].data : c = Cell(Decode(p[i].at, Len(p[i].data)), j - 1)
      BY <3>4 DEF Covers
    <3>7. Memory(Decode(p[i].at, Len(p[i].data)))
      BY <3>4 DEF Fits, Covers
    <3>8. c[2] - Decode(p[i].at, Len(p[i].data)).cell[2] + 1 = j
      BY <3>5, <3>6, <3>7, IndexOf
    <3>9. index(c) = j
      BY <3>8 DEF i
    <3>10. p[i].data[j] \in Byte
      BY <3>5, <3>6
    <3>11. new(c) = p[i].data[j]
      BY <2>1, <3>9 DEF i
    <3> QED  BY <3>10, <3>11
  <2> QED  BY <2>1
<1>2. Loaded(p) = [c \in Cells |-> new(c)]
  BY DEF Loaded
<1> HIDE DEF new
<1> QED  BY <1>1, <1>2

(* What an access comes to; the last part of TypeOK.                       *)
Reported(r) ==
  \/ r = Done \/ r \in {Error(at) : at \in Address}
  \/ /\ r.kind = "device" /\ r.device \in DOMAIN Devices
     /\ Has(r.device, Devices[r.device].base + r.port)

LEMMA ReachedReported ==
  ASSUME NEW addr \in Address, mbar \in Address  PROVE Reported(Reached(addr))
BY ReachedTyped DEF Reported

(* Whatever the board, the programs and the accesses: every cell holds a   *)
(* byte, only a program that was offered is started, and an access comes   *)
(* to memory, a fault at an address or a port of a device.                 *)
THEOREM TypeCorrect == Spec => []TypeOK
<1>1. Init => TypeOK
  BY BasesAreAddresses, DataAssumption DEF Init, TypeOK
<1>2. TypeOK /\ [Next]_vars => TypeOK'
  <2> SUFFICES ASSUME TypeOK, [Next]_vars  PROVE TypeOK'
    OBVIOUS
  <2>1. /\ bytes \in [Cells -> Byte] /\ mbar \in Address
        /\ started \in Parts \cup {<<>>} /\ Reported(result)
    BY DEF TypeOK, Reported
  <2>2. SUFFICES /\ bytes' \in [Cells -> Byte] /\ mbar' \in Address
                 /\ started' \in Parts \cup {<<>>} /\ Reported(result')
    BY DEF TypeOK, Reported
  <2>3. ASSUME NEW addr \in Address, NEW size \in Sizes
        PROVE  /\ size \in Address
               /\ Decode(addr, size).type = "fault" => Reported(Error(Decode(addr, size).at))
               /\ Reported(Reached(addr)) /\ Reported(Done) /\ Reported(Error(addr))
    <3>1. size \in Address
      BY DataAssumption, SpaceAssumption DEF Address
    <3>2. Decode(addr, size).type = "fault" => Decode(addr, size).at \in Address
      BY <3>1, FaultAtAddress
    <3>3. Reported(Reached(addr))
      BY <2>1, ReachedReported
    <3>4. Reported(Done) /\ \A a \in Address : Reported(Error(a))
      BY DEF Reported
    <3> QED  BY <3>1, <3>2, <3>3, <3>4
  <2>4. ASSUME NEW addr \in Address, NEW size \in Sizes, Load(addr, size)
        PROVE  /\ bytes' \in [Cells -> Byte] /\ mbar' \in Address
               /\ started' \in Parts \cup {<<>>} /\ Reported(result')
    <3>1. UNCHANGED <<bytes, mbar, started>>
      BY <2>4 DEF Load
    <3>2. \/ Decode(addr, size).type = "fault" /\ result' = Error(Decode(addr, size).at)
          \/ result' = Reached(addr) \/ result' = Done
      BY <2>4 DEF Load
    <3> QED  BY <2>1, <2>3, <3>1, <3>2
  <2>5. ASSUME NEW addr \in Address, NEW size \in Sizes, NEW data \in [1 .. size -> Byte],
               Store(addr, data)
        PROVE  /\ bytes' \in [Cells -> Byte] /\ mbar' \in Address
               /\ started' \in Parts \cup {<<>>} /\ Reported(result')
    <3>1. size \in Nat /\ data \in Seq(Byte) /\ Len(data) = size
      BY DataAssumption, SpaceAssumption
    <3>2. UNCHANGED <<mbar, started>>
      BY <2>5 DEF Store
    <3>3. \/ Decode(addr, size).type = "fault" /\ result' = Error(Decode(addr, size).at)
          \/ result' = Error(addr) \/ result' = Reached(addr) \/ result' = Done
      BY <2>5, <3>1 DEF Store
    <3>4. bytes' \in [Cells -> Byte]
      <4>1. CASE Decode(addr, Len(data)).type = "ram"
        <5>1. Memory(Decode(addr, Len(data))) /\ Len(data) \in Address
          BY <2>3, <3>1, <4>1 DEF Memory
        <5>2. bytes' = Written(Decode(addr, Len(data)), data)
          BY <2>5, <4>1 DEF Store
        <5> QED  BY <2>1, <3>1, <5>1, <5>2, WrittenTyped
      <4>2. CASE Decode(addr, Len(data)).type # "ram"
        BY <2>1, <2>5, <4>2 DEF Store
      <4> QED  BY <4>1, <4>2
    <3> QED  BY <2>1, <2>3, <3>2, <3>3, <3>4
  <2>6. ASSUME NEW b \in DOMAIN Bases, SetMBAR(Bases[b])
        PROVE  /\ bytes' \in [Cells -> Byte] /\ mbar' \in Address
               /\ started' \in Parts \cup {<<>>} /\ Reported(result')
    BY <2>1, <2>6, BasesAreAddresses DEF SetMBAR
  <2>7. ASSUME NEW p \in Parts, SetProgram(p)
        PROVE  /\ bytes' \in [Cells -> Byte] /\ mbar' \in Address
               /\ started' \in Parts \cup {<<>>} /\ Reported(result')
    BY <2>1, <2>7, LoadedTyped DEF SetProgram
  <2>8. ASSUME ClearMemory
        PROVE  /\ bytes' \in [Cells -> Byte] /\ mbar' \in Address
               /\ started' \in Parts \cup {<<>>} /\ Reported(result')
    BY <2>1, <2>8, DataAssumption DEF ClearMemory
  <2>9. ASSUME Reset
        PROVE  /\ bytes' \in [Cells -> Byte] /\ mbar' \in Address
               /\ started' \in Parts \cup {<<>>} /\ Reported(result')
    BY <2>1, <2>9, BasesAreAddresses DEF Reset
  <2>10. ASSUME UNCHANGED vars
         PROVE  /\ bytes' \in [Cells -> Byte] /\ mbar' \in Address
                /\ started' \in Parts \cup {<<>>} /\ Reported(result')
    BY <2>1, <2>10 DEF vars
  <2> QED  BY <2>4, <2>5, <2>6, <2>7, <2>8, <2>9, <2>10 DEF Next
<1> QED  BY <1>1, <1>2, PTL DEF Spec
-----------------------------------------------------------------------------
(* No address of an access to the simulator's own window or to a bank      *)
(* without memory is one that a load finds in memory.                      *)
LEMMA NothingThere ==
  ASSUME IInv, NEW addr \in Address, NEW size \in Address,
         Decode(addr, size).type \in {"sim", "null"},
         NEW a \in Address, a \in addr .. addr + size - 1
  PROVE  ~Memory(Decode(a, 1))
<1> DEFINE end == Wrap(addr + size)
<1>1. end \in Address /\ (end >= addr => end = addr + size)
  BY WrapOf
<1>2. \A x : Bad(x).type = "fault"
  BY DEF Bad, Found
<1>3. SUFFICES ASSUME Memory(Decode(a, 1))  PROVE FALSE
  OBVIOUS
<1>4. 1 \in Address
  BY DataAssumption, SpaceAssumption, <1>1 DEF Address
<1>5. ~Within(a, SimBase, SimSize)
  BY <1>3, <1>4, Decoded
<1>6. PICK c \in DOMAIN Banks : Holds(c, a) /\ Banks[c].kind \in {"ram", "rom"}
  BY <1>3, <1>4, Decoded
<1> HIDE DEF end
<1>7. end >= addr
  <2> SUFFICES ASSUME end < addr  PROVE FALSE
    BY <1>1 DEF Address
  <2>1. Decode(addr, size) = Bad(end)
    BY <1>1 DEF Decode, end, Address
  <2> QED  BY <2>1, <1>2
<1>8. ~Within(addr, SimBase, SimSize)
  <2> SUFFICES ASSUME Within(addr, SimBase, SimSize)  PROVE FALSE
    OBVIOUS
  <2> DEFINE past == Wrap(SimBase + SimSize)
  <2>1. Decode(addr, size) = IF end >= past THEN Bad(end) ELSE Found("sim", addr, NoCell)
    BY <1>7, <1>1 DEF Decode, end, Address
  <2>2. ~(end >= past)
    BY <2>1, <1>2
  <2>3. past \in Address /\ SimBase \in Address
    BY WrapOf, WindowAssumption DEF Address
  <2>4. addr >= SimBase
    BY DEF Within
  <2> HIDE DEF past
  <2>5. a >= SimBase /\ a < past
    BY <1>1, <1>7, <2>2, <2>3, <2>4 DEF Address
  <2> QED  BY <2>5, <1>5 DEF Within, past
<1>9. ~Within(addr, mbar, Window)
  <2> SUFFICES ASSUME Within(addr, mbar, Window)  PROVE FALSE
    OBVIOUS
  <2>1. Decode(addr, size) = Bad(end) \/ Decode(addr, size) = Found("device", addr, NoCell)
    BY <1>1, <1>7, <1>8 DEF Decode, end, Address
  <2> QED  BY <2>1, <1>2 DEF Found
<1>10. Decode(addr, size) = IF \E b \in DOMAIN Banks : Holds(b, addr)
                              THEN InBank(addr, end, Bank(addr)) ELSE Bad(addr)
  BY <1>1, <1>7, <1>8, <1>9 DEF Decode, end, Address
<1>11. PICK b \in DOMAIN Banks : Holds(b, addr)
  BY <1>10, <1>2
<1>12. Decode(addr, size) = InBank(addr, end, b)
  BY <1>10, <1>11, BankOf
<1>13. ~(end > Banks[b].end + 1) /\ Banks[b].kind \in {"sim", "null"}
  BY <1>12, <1>2 DEF InBank, Found
<1>14. Banks[b].base \in Nat /\ Banks[b].end \in Nat
  BY BankFacts
<1>15. Holds(b, a)
  BY <1>1, <1>7, <1>11, <1>13, <1>14 DEF Holds, Address
<1>16. b = c
  BY <1>15, <1>6, BankOf
<1> QED  BY <1>6, <1>13, <1>16

(* A byte of memory keeps its cell to itself: the cell of an access's byte *)
(* is that of its own address and of no other.                             *)
LEMMA OwnCell ==
  ASSUME IInv, NEW addr \in Address, NEW size \in Address, Memory(Decode(addr, size)),
         NEW a \in Address, Memory(Decode(a, 1)), NEW i \in Int,
         Decode(a, 1).cell = Cell(Decode(addr, size), i)
  PROVE  a = addr + i
<1>1. PICK b \in DOMAIN Banks :
        Decode(addr, size) = Found(Banks[b].kind, addr, <<b, addr - Banks[b].base>>)
  BY Decoded
<1>2. 1 \in Address
  BY BankFacts, SpaceAssumption DEF Address
<1>3. PICK c \in DOMAIN Banks :
        Decode(a, 1) = Found(Banks[c].kind, a, <<c, a - Banks[c].base>>)
  BY <1>2, Decoded
<1>4. c = b /\ a - Banks[c].base = (addr - Banks[b].base) + i
  BY <1>1, <1>3 DEF Found, Cell
<1>5. Banks[b].base \in Nat
  BY BankFacts
<1> QED  BY <1>4, <1>5 DEF Address

LEMMA StoreIsExact ==
  ASSUME TypeOK, NEW addr \in Address, NEW size \in Sizes, NEW data \in [1 .. size -> Byte],
         Decode(addr, size).type \in {"ram", "sim", "null"}, Store(addr, data),
         NEW a \in Address, Memory(Decode(a, 1))
  PROVE  bytes'[Decode(a, 1).cell] =
           IF a \in addr .. addr + size - 1 THEN data[a - addr + 1] ELSE bytes[Decode(a, 1).cell]
<1> DEFINE d    == Decode(addr, size)
           cell == Decode(a, 1).cell
<1>1. size \in Address /\ 1 \in Address /\ size \in Nat /\ DOMAIN data = 1 .. size
  BY DataAssumption, SpaceAssumption DEF Address
<1>2. data \in Seq(Byte) /\ Len(data) = size
  BY <1>1
<1>3. bytes' = IF d.type = "ram" THEN Written(d, data) ELSE bytes
  BY <1>2 DEF Store
<1>4. IInv
  BY DEF TypeOK, IInv
<1>5. cell \in Cells
  BY <1>1, <1>4, Exact DEF NoOverrun, Address
<1>6. CASE d.type # "ram"
  BY <1>1, <1>3, <1>4, <1>6, NothingThere
<1>7. CASE d.type = "ram"
  <2>1. Memory(d)
    BY <1>7 DEF Memory
  <2>2. bytes'[cell] = IF \E i \in DOMAIN data : cell = Cell(d, i - 1)
                         THEN data[cell[2] - d.cell[2] + 1] ELSE bytes[cell]
    BY <1>3, <1>5, <1>7 DEF Written
  <2>3. CASE a \in addr .. addr + size - 1
    <3> DEFINE i == a - addr + 1
    <3>1. i \in DOMAIN data /\ i - 1 \in 0 .. size - 1 /\ addr + (i - 1) = a
      BY <1>1, <2>3 DEF Address
    <3> HIDE DEF i
    <3>2. cell = Cell(d, i - 1)
      BY <1>1, <1>4, <2>1, <3>1, SameCell
    <3>3. cell[2] - d.cell[2] + 1 = i
      BY <1>1, <1>2, <1>4, <2>1, <3>1, <3>2, IndexOf DEF IInv
    <3> QED  BY <2>2, <2>3, <3>1, <3>2, <3>3 DEF i
  <2>4. CASE a \notin addr .. addr + size - 1
    <3>1. ASSUME NEW i \in DOMAIN data, cell = Cell(d, i - 1)  PROVE FALSE
      <4>1. a = addr + (i - 1)
        BY <1>1, <1>4, <2>1, <3>1, OwnCell
      <4> QED  BY <4>1, <1>1, <2>4 DEF Address
    <3> QED  BY <2>2, <2>4, <3>1
  <2> QED  BY <2>3, <2>4
<1> QED  BY <1>6, <1>7

(* For every board: a completed store writes its bytes to their own        *)
(* addresses and changes nothing at any other, by whatever bank or window  *)
(* it is decoded.                                                          *)
THEOREM StoresExact == Spec => StoresAreExact
<1> DEFINE Ok == result' = Done =>
      LET at(a)    == Decode(a, 1).cell
          readable == {a \in Address : Memory(Decode(a, 1))}
      IN  \A addr \in Address, size \in Sizes :
            Decode(addr, size).type \in {"ram", "sim", "null"} =>
              \A data \in [1 .. size -> Byte] : Store(addr, data) =>
                \A a \in readable :
                  bytes'[at(a)] = IF a \in addr .. addr + size - 1
                                    THEN data[a - addr + 1] ELSE bytes[at(a)]
<1>1. TypeOK => Ok
  BY StoreIsExact
<1>2. TypeOK /\ [Next]_vars => [Ok]_vars
  BY <1>1
<1> QED  BY <1>2, TypeCorrect, PTL DEF Spec, StoresAreExact
=============================================================================
