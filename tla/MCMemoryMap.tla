---------------------------- MODULE MCMemoryMap -----------------------------
(***************************************************************************)
(* Twelve addresses: RAM 0..2 with ROM 3..4 right behind it, a bank        *)
(* without memory at 10, the simulator's window at 8..9 and a window of    *)
(* four addresses for two devices, which may lie over memory, overlap the  *)
(* simulator's or wrap around.                                             *)
(***************************************************************************)
EXTENDS MemoryMap

MCBanks == <<[base |-> 0, end |-> 2, kind |-> "ram"], [base |-> 3, end |-> 4, kind |-> "rom"],
             [base |-> 10, end |-> 10, kind |-> "null"]>>
MCBases == <<5, 2, 6, 9>>
MCDevices == <<[base |-> 0, end |-> 1], [base |-> 1, end |-> 3]>>
Part(at, data) == [at |-> at, data |-> data]
MCParts == {<<Part(0, <<1, 1>>), Part(1, <<>>), Part(3, <<1>>)>>,  \* fits
            <<Part(1, <<1>>), Part(2, <<1, 1>>)>>,          \* crosses into the ROM
            <<Part(4, <<1>>), Part(10, <<1>>)>>,            \* to no memory
            <<Part(0, <<1>>), Part(0, <<0, 1, 1>>)>>}       \* overlaps
=============================================================================
