------------------------------ MODULE MemoryMap -----------------------------
(***************************************************************************)
(* The address space of the simulated board: Context::GetMemoryAddress and *)
(* what goes through it - loads and stores of instructions, the loading of *)
(* programs (CopyProgram), the debugger's view of memory (ReadMemory) and  *)
(* the devices in the window at MBAR (Simulator::Impl::PeripheralsIO).     *)
(* Addresses wrap around at Space (2^32).                                  *)
(***************************************************************************)
EXTENDS Integers, Sequences

CONSTANTS
  Space,      \* number of addresses
  Banks,      \* memory_banks_: [base, end, kind], end being the last address
  SimBase,    \* simulator_peripherals_
  SimSize,    \* sim_area_size
  Window,     \* MBAR_WINDOW
  Bases,      \* values of MBAR, the default first
  Devices,    \* [base, end]: where in the window a device has its registers,
              \* end being the first offset after them
  Parts,      \* programs: sequences of [at, data]
  Byte,       \* contents of a memory cell, zero among them
  Sizes       \* of a load or store

Kinds == {"ram", "rom", "null"}

(* InitMemory refuses a bank whose size is 0 or that reaches the last      *)
(* address; the board's banks do not overlap.                              *)
ASSUME SpaceAssumption == Space \in Nat \ {0}
ASSUME BankAssumption  ==
  /\ Banks \in Seq([base : Nat, end : Nat, kind : Kinds])
  /\ \A b \in DOMAIN Banks : Banks[b].base <= Banks[b].end /\ Banks[b].end + 1 < Space
  /\ \A b, c \in DOMAIN Banks :
       b # c => Banks[b].end < Banks[c].base \/ Banks[c].end < Banks[b].base
ASSUME WindowAssumption ==
  /\ SimBase \in 0 .. Space - 1 /\ {SimSize, Window} \subseteq 0 .. Space - 1
  /\ Bases \in Seq(0 .. Space - 1) /\ Bases # <<>>
(* AddPeripheral refuses a device that reaches the end of the window.      *)
ASSUME DeviceAssumption ==
  /\ Devices \in Seq([base : Nat, end : Nat])
  /\ \A d \in DOMAIN Devices : Devices[d].base <= Devices[d].end /\ Devices[d].end < Window
ASSUME DataAssumption ==
  /\ 0 \in Byte /\ Sizes \subseteq 1 .. Space - 1
  /\ Parts \subseteq Seq([at : 0 .. Space - 1, data : Seq(Byte)])
  /\ \A p \in Parts : \A i \in DOMAIN p : Len(p[i].data) < Space

VARIABLES
  bytes,    \* the banks' contents
  mbar,     \* cpu_.mbar
  started,  \* the program whose start the pc was set to
  result    \* what the last load or store came to

vars == <<bytes, mbar, started, result>>

Address == 0 .. Space - 1
Wrap(n) == n % Space                   \* uint32 arithmetic
Cells   == {c \in (DOMAIN Banks) \X Address :
              Banks[c[1]].kind # "null" /\ c[2] <= Banks[c[1]].end - Banks[c[1]].base}
NoCell  == <<0, 0>>
None    == -1
Done         == [kind |-> "done"]               \* memory, or nothing there
Error(at)    == [kind |-> "fault", at |-> at]   \* MemoryAccessException
IO(d, port)  == [kind |-> "device", device |-> d, port |-> port]

-----------------------------------------------------------------------------
(* GetMemoryAddress *)

Within(addr, base, size) == addr >= base /\ addr < Wrap(base + size)

(* The banks are searched in order.                                        *)
Holds(b, addr) == Banks[b].base <= addr /\ addr <= Banks[b].end
Bank(addr) == CHOOSE b \in DOMAIN Banks :
  Holds(b, addr) /\ \A c \in DOMAIN Banks : c < b => ~Holds(c, addr)

Found(type, addr, cell) == [type |-> type, at |-> addr, cell |-> cell]
Bad(at)                 == Found("fault", at, NoCell)

(* Faulty variant of InBank: the end is one byte too far.                  *)
InBankFar(addr, end, b) ==
  IF end > Banks[b].end + 2 THEN Bad(end)
  ELSE Found(Banks[b].kind, addr, <<b, addr - Banks[b].base>>)

InBank(addr, end, b) ==
  IF end > Banks[b].end + 1 THEN Bad(end)
  ELSE Found(Banks[b].kind, addr, <<b, addr - Banks[b].base>>)

(* An access has to lie in one bank or window.  To a window the first byte *)
(* after the access has to belong, too.                                    *)
Decode(addr, size) ==
  LET end == Wrap(addr + size)
  IN  CASE end < addr -> Bad(end)
        [] end >= addr /\ Within(addr, SimBase, SimSize) ->
             IF end >= Wrap(SimBase + SimSize) THEN Bad(end) ELSE Found("sim", addr, NoCell)
        [] end >= addr /\ ~Within(addr, SimBase, SimSize) /\ Within(addr, mbar, Window) ->
             IF end >= Wrap(mbar + Window) THEN Bad(end) ELSE Found("device", addr, NoCell)
        [] OTHER ->
             IF \E b \in DOMAIN Banks : Holds(b, addr) THEN InBank(addr, end, Bank(addr))
                                                        ELSE Bad(addr)

Memory(d)      == d.type \in {"ram", "rom"}
Cell(d, i)     == <<d.cell[1], d.cell[2] + i>>

(* Faulty variant of Written: the lower byte first.                        *)
WrittenSwapped(d, data) ==
  [c \in Cells |-> IF \E i \in DOMAIN data : c = Cell(d, i - 1)
                     THEN data[Len(data) - (c[2] - d.cell[2])] ELSE bytes[c]]

Written(d, data) ==
  [c \in Cells |-> IF \E i \in DOMAIN data : c = Cell(d, i - 1)
                     THEN data[c[2] - d.cell[2] + 1] ELSE bytes[c]]

-----------------------------------------------------------------------------
(* Devices: PeripheralsIO and the table AddPeripheral builds               *)

Has(d, offset) == Devices[d].base <= offset /\ offset < Devices[d].end

(* Of devices that overlap the last takes the place; 0: none.              *)
DeviceAt(offset) ==
  IF \E d \in DOMAIN Devices : Has(d, offset)
    THEN CHOOSE d \in DOMAIN Devices :
           Has(d, offset) /\ \A e \in DOMAIN Devices : e > d => ~Has(e, offset)
    ELSE 0

(* Faulty variant of Reached: the port counts from the window's base.      *)
ReachedFromBase(addr) ==
  LET d == DeviceAt(addr - mbar) IN IF d = 0 THEN Error(addr) ELSE IO(d, addr - mbar)

Reached(addr) ==
  LET offset == addr - mbar
      d      == DeviceAt(offset)
  IN  IF d = 0 THEN Error(addr) ELSE IO(d, offset - Devices[d].base)

-----------------------------------------------------------------------------
(* Instructions *)

(* ReadFromAddress; what the simulator's own I/O does is not modelled.     *)
Load(addr, size) ==
  LET d == Decode(addr, size)
  IN  /\ result' = CASE d.type = "fault"  -> Error(d.at)
                     [] d.type = "device" -> Reached(addr)
                     [] OTHER             -> Done
      /\ UNCHANGED <<bytes, mbar, started>>

(* Faulty variant of Store: read-only memory is not looked at.             *)
StoreAnywhere(addr, data) ==
  LET d == Decode(addr, Len(data))
  IN  /\ result' = CASE d.type = "fault"  -> Error(d.at)
                     [] d.type = "device" -> Reached(addr)
                     [] OTHER             -> Done
      /\ bytes' = IF Memory(d) THEN Written(d, data) ELSE bytes
      /\ UNCHANGED <<mbar, started>>

(* WriteToAddress; data are the bytes of the value, the upper one first.   *)
Store(addr, data) ==
  LET d == Decode(addr, Len(data))
  IN  /\ result' = CASE d.type = "fault"  -> Error(d.at)
                     [] d.type = "rom"    -> Error(addr)
                     [] d.type = "device" -> Reached(addr)
                     [] OTHER             -> Done
      /\ bytes' = IF d.type = "ram" THEN Written(d, data) ELSE bytes
      /\ UNCHANGED <<mbar, started>>

(* MOVEC, or the user                                                      *)
SetMBAR(base) == mbar' = base /\ UNCHANGED <<bytes, started, result>>

-----------------------------------------------------------------------------
(* The debugger *)

(* The parts of a program before the first that does not fit are copied;   *)
(* the address of an empty part is decoded, too.                           *)
Fits(part) ==
  LET d == Decode(part.at, Len(part.data))
  IN  Memory(d) \/ (part.data = <<>> /\ d.type # "fault")
Copied(p)  == {i \in DOMAIN p : \A j \in 1 .. i : Fits(p[j])}
Covers(part, c) ==
  /\ part.data # <<>>
  /\ LET d == Decode(part.at, Len(part.data))
     IN  \E i \in DOMAIN part.data : c = Cell(d, i - 1)
Loaded(p) ==
  [c \in Cells |->
     LET over == {i \in Copied(p) : Covers(p[i], c)}
     IN  IF over = {} THEN bytes[c]
         ELSE LET i == CHOOSE i \in over : \A j \in over : j <= i
              IN  p[i].data[c[2] - Decode(p[i].at, Len(p[i].data)).cell[2] + 1]]

(* Faulty variant of SetProgram: the pc is set before the parts are copied. *)
SetProgramEarly(p) ==
  /\ bytes' = Loaded(p) /\ started' = p
  /\ UNCHANGED <<mbar, result>>

(* SetProgram and CopyProgram: a part that does not fit throws.            *)
SetProgram(p) ==
  /\ bytes' = Loaded(p)
  /\ started' = IF Copied(p) = DOMAIN p THEN p ELSE started
  /\ UNCHANGED <<mbar, result>>

ClearMemory == bytes' = [c \in Cells |-> 0] /\ UNCHANGED <<mbar, started, result>>

(* Reset: the registers get their defaults.                                *)
Reset == mbar' = Bases[1] /\ UNCHANGED <<bytes, started, result>>

(* Faulty variant of ReadMemory: byte by byte, always the first one.       *)
ReadMemoryStuck(addr, length) ==
  LET d == Decode(addr, length)
  IN  IF Memory(d) THEN [i \in 0 .. length - 1 |-> bytes[Cell(d, i)]]
      ELSE [i \in 0 .. (IF addr + length < Space THEN length ELSE Space - addr) - 1 |->
              LET e == Decode(addr, 0)
              IN  IF Memory(e) THEN bytes[e.cell] ELSE None]

(* A view of memory is copied at once if it lies in one bank, and else     *)
(* byte by byte (with size 0) up to the last address; None is 0xff.        *)
ReadMemory(addr, length) ==
  LET d == Decode(addr, length)
  IN  IF Memory(d) THEN [i \in 0 .. length - 1 |-> bytes[Cell(d, i)]]
      ELSE [i \in 0 .. (IF addr + length < Space THEN length ELSE Space - addr) - 1 |->
              LET e == Decode(addr + i, 0)
              IN  IF Memory(e) THEN bytes[e.cell] ELSE None]

-----------------------------------------------------------------------------

Init ==
  /\ bytes = [c \in Cells |-> 0] /\ mbar = Bases[1]
  /\ started = <<>> /\ result = Done

Next ==
  \/ \E addr \in Address, size \in Sizes :
       \/ Load(addr, size)
       \/ \E data \in [1 .. size -> Byte] : Store(addr, data)
  \/ \E b \in DOMAIN Bases : SetMBAR(Bases[b])
  \/ \E p \in Parts : SetProgram(p)
  \/ ClearMemory \/ Reset

Spec == Init /\ [][Next]_vars

-----------------------------------------------------------------------------
(* Every cell holds a byte, and a program is started that was loaded.      *)
TypeOK ==
  /\ bytes \in [Cells -> Byte] /\ mbar \in Address
  /\ started \in Parts \cup {<<>>}
  /\ \/ result = Done \/ result \in {Error(at) : at \in Address}
     \/ /\ result.kind = "device" /\ result.device \in DOMAIN Devices
        /\ Has(result.device, Devices[result.device].base + result.port)

(* An access that GetMemoryAddress lets through to memory has all its      *)
(* bytes in the bank's buffer, wherever it begins, whatever its size and   *)
(* wherever MBAR points, wrapped addresses included.                       *)
NoOverrun ==
  \A addr \in Address, size \in 0 .. Space - 1 :
    LET d == Decode(addr, size)
    IN  Memory(d) => d.cell \in Cells /\ \A i \in 0 .. size - 1 : Cell(d, i) \in Cells

(* What the debugger shows at an address is what a load of one byte there  *)
(* gives, whether the view is copied at once or byte by byte - where there *)
(* is memory to load from: a view that begins below the window at MBAR may *)
(* show the memory under it.                                               *)
ViewAgrees ==
  \A addr \in Address, length \in 1 .. Space - 1 :
    LET view == ReadMemory(addr, length)
    IN  \A i \in DOMAIN view :
          LET d == Decode(addr + i, 1)
          IN  Memory(d) => view[i] = bytes[d.cell]

(* Every register of a device is reached at its port by an access of any   *)
(* size inside the device: the byte GetMemoryAddress denies at the end of  *)
(* the window is never a device's, as AddPeripheral sees to.  (Unless the  *)
(* window wraps around, is under the simulator's own, or another device    *)
(* has taken the place.)                                                   *)
DevicesReachable ==
  mbar + Window < Space =>
    \A d \in DOMAIN Devices : \A offset \in Devices[d].base .. Devices[d].end - 1 :
      DeviceAt(offset) = d /\ ~Within(mbar + offset, SimBase, SimSize) =>
        /\ \A size \in 1 .. Devices[d].end - offset : Decode(mbar + offset, size).type = "device"
        /\ Reached(mbar + offset) = IO(d, offset - Devices[d].base)

(* Read-only memory changes only when the debugger loads a program or      *)
(* clears memory: no store gets there, by whatever bank or window it       *)
(* begins in.                                                              *)
FlashKept ==
  [][(\E c \in Cells : Banks[c[1]].kind = "rom" /\ bytes'[c] # bytes[c])
       => ClearMemory \/ \E p \in Parts : SetProgram(p)]_vars

(* The pc is set to a program's start only when all of the program is in   *)
(* memory: each byte reads back where the parts do not overlap, unless it  *)
(* was sent to a bank without memory behind it.                            *)
ProgramWhole ==
  [][started' # started =>
       \A i \in DOMAIN started' :
         LET part == started'[i]
         IN  \A j \in DOMAIN part.data :
               LET e == Decode(part.at + j - 1, 1)
               IN  Memory(e) /\ (\A k \in DOMAIN started' : k # i => ~Covers(started'[k], e.cell))
                     => bytes'[e.cell] = part.data[j]]_vars

(* Memory is one byte per address: a completed store changes the bytes at  *)
(* the addresses it covers to those of its value, in their order, and no   *)
(* byte a load finds at any other address - whatever the banks' order,     *)
(* wherever the windows lie, and whether it hits memory, the simulator's   *)
(* window or a bank without memory.                                        *)
StoresAreExact ==
  [][result' = Done =>
       LET at(a)    == Decode(a, 1).cell
           readable == {a \in Address : Memory(Decode(a, 1))}
       IN  \A addr \in Address, size \in Sizes :
             Decode(addr, size).type \in {"ram", "sim", "null"} =>
               \A data \in [1 .. size -> Byte] : Store(addr, data) =>
                 \A a \in readable :
                   bytes'[at(a)] = IF a \in addr .. addr + size - 1
                                     THEN data[a - addr + 1] ELSE bytes[at(a)]]_vars
=============================================================================
