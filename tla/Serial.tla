------------------------------- MODULE Serial -------------------------------
(***************************************************************************)
(* The serial line of the simulated board: the UART                        *)
(* (Peripherals/SimpleUART.cpp) between the terminal window and a program  *)
(* that polls it.  The keyboard side of the window is the queue that       *)
(* InputBuffer implements; SimpleUART::Update reads and writes the window  *)
(* through SendMessage, one message at a time.  RunSimulation updates the  *)
(* UART after every instruction.                                           *)
(*                                                                         *)
(* The keys typed are numbered, and so are the characters the program      *)
(* writes: a character is its number.  The program tests RxRDY before it   *)
(* reads a character and TxRDY before it writes one.                       *)
(***************************************************************************)
EXTENDS Naturals, Sequences

CONSTANTS
  Capacity,    \* of the keyboard buffer
  URB_SIZE,    \* slots of the receive buffer
  READ_DELAY,  \* updates between two looks at the keyboard
  MaxTyped,    \* bound: keys typed
  MaxWritten   \* bound: characters the program writes

Nothing == 0

ASSUME SizeAssumption ==
  /\ Capacity \in Nat \ {0} /\ URB_SIZE \in Nat \ {0} /\ READ_DELAY \in Nat
  /\ MaxTyped \in Nat /\ MaxWritten \in Nat

VARIABLES
  ph,       \* what RunSimulation does next: an instruction or the update
  queue,    \* keyboard: the characters waiting
  answer,   \* keyboard: what SimRead was handed last
  rx,       \* receiver: enabled, URB, URB_count, USR.RxRDY, USR.FFULL, UISR.RxRDY
  tx,       \* transmitter: enabled, UTB, USR.TxRDY, USR.TxEMP
  mode,     \* UMR_pointer and UMR1.RxIRQ
  uimr,     \* interrupt mask register: FFULL and TxRDY
  delay,    \* read_delay_
  irq,      \* the interrupt request as the UART left it
  typed,    \* how many keys were typed
  written,  \* how many characters the program wrote
  got,      \* history: what the program has read since it was started
  screen    \* history: what the terminal window shows

keyboard == <<queue, answer>>
setup    == <<mode, uimr>>
history  == <<typed, written, got, screen>>
vars     == <<ph, keyboard, rx, tx, setup, delay, irq, history>>

Keyboard == INSTANCE CharQueue WITH Char <- 1 .. MaxTyped

Init ==
  /\ ph = "execute" /\ Keyboard!Init
  /\ rx = [on |-> FALSE, urb |-> [i \in 1 .. URB_SIZE |-> Nothing], count |-> 0,
           rdy |-> FALSE, full |-> FALSE, isr |-> FALSE]
  /\ tx = [on |-> FALSE, utb |-> Nothing, rdy |-> FALSE, emp |-> FALSE]
  /\ mode = [second |-> FALSE, onFull |-> FALSE]
  /\ uimr = [rx |-> FALSE, tx |-> FALSE]
  /\ delay = 0 /\ irq = FALSE
  /\ typed = 0 /\ written = 0 /\ got = <<>> /\ screen = <<>>

-----------------------------------------------------------------------------
(* The user *)

TypeKey ==
  /\ typed < MaxTyped
  /\ typed' = typed + 1
  /\ Keyboard!Put(typed')
  /\ UNCHANGED <<ph, rx, tx, setup, delay, irq, written, got, screen>>

(* Simulator::Reset resets the devices (and the interrupt controller) and  *)
(* the program is started again.  RunSimulation stops before an            *)
(* instruction.                                                            *)
Restart ==
  /\ ph = "execute"
  /\ mode' = [mode EXCEPT !.onFull = FALSE]
  /\ rx' = [rx EXCEPT !.urb[1] = Nothing, !.count = 0]
  /\ irq' = FALSE
  /\ got' = <<>>
  /\ UNCHANGED <<ph, keyboard, tx, uimr, delay, typed, written, screen>>

-----------------------------------------------------------------------------
(* The program *)

Executed == ph = "execute" /\ ph' = "update"

Compute ==
  /\ Executed
  /\ UNCHANGED <<keyboard, rx, tx, setup, delay, irq, history>>

(* UISR.RxRDY follows RxRDY or FFULL, as UMR1.RxIRQ says.                  *)
Following(r) == [r EXCEPT !.isr = IF mode.onFull THEN r.full ELSE r.rdy]

Shifted(urb) == [i \in 1 .. URB_SIZE |-> urb[IF i < URB_SIZE THEN i + 1 ELSE i]]

(* Faulty variant of ReadBuffer: the FIFO is not shifted.                  *)
ReadBufferUnshifted ==
  /\ Executed /\ rx.rdy
  /\ got' = Append(got, rx.urb[1])
  /\ LET left == IF rx.count = 0 THEN 0 ELSE rx.count - 1
     IN  rx' = Following([rx EXCEPT !.count = left, !.rdy = @ /\ left > 0,
                                    !.full = FALSE])
  /\ UNCHANGED <<keyboard, tx, setup, delay, irq, typed, written, screen>>

(* Faulty variant of ReadBuffer: RxRDY outlives the last character.        *)
ReadBufferStaysReady ==
  /\ Executed /\ rx.rdy
  /\ got' = Append(got, rx.urb[1])
  /\ LET left == IF rx.count = 0 THEN 0 ELSE rx.count - 1
     IN  rx' = Following([rx EXCEPT !.urb = Shifted(@), !.count = left,
                                    !.full = FALSE])
  /\ UNCHANGED <<keyboard, tx, setup, delay, irq, typed, written, screen>>

ReadBuffer ==
  /\ Executed /\ rx.rdy
  /\ got' = Append(got, rx.urb[1])
  /\ LET left == IF rx.count = 0 THEN 0 ELSE rx.count - 1
     IN  rx' = Following([rx EXCEPT !.urb = Shifted(@), !.count = left,
                                    !.rdy = @ /\ left > 0, !.full = FALSE])
  /\ UNCHANGED <<keyboard, tx, setup, delay, irq, typed, written, screen>>

WriteBuffer ==
  /\ Executed /\ tx.rdy /\ written < MaxWritten
  /\ written' = written + 1
  /\ tx' = [tx EXCEPT !.utb = written', !.rdy = FALSE, !.emp = FALSE]
  /\ UNCHANGED <<keyboard, rx, setup, delay, irq, typed, got, screen>>

(* UMR1 on the first write, UMR2 (which nothing reads) on the next ones.   *)
WriteMode(onFull) ==
  /\ Executed
  /\ mode' = IF mode.second THEN mode ELSE [second |-> TRUE, onFull |-> onFull]
  /\ UNCHANGED <<keyboard, rx, tx, uimr, delay, irq, history>>

WriteMask(r, t) ==
  /\ Executed
  /\ uimr' = [rx |-> r, tx |-> t]
  /\ UNCHANGED <<keyboard, rx, tx, mode, delay, irq, history>>

TxOff(t) == [t EXCEPT !.on = FALSE, !.rdy = FALSE, !.emp = FALSE]

TxCommand(t, tc) ==
  CASE tc = "enable" /\ ~t.on   -> [t EXCEPT !.on = TRUE, !.rdy = TRUE, !.emp = TRUE]
    [] tc = "disable" /\ t.on   -> TxOff(t)
    [] OTHER                    -> t

RxCommand(r, rc) ==
  CASE rc = "enable"  -> [r EXCEPT !.on = TRUE]
    [] rc = "disable" -> [r EXCEPT !.on = FALSE]
    [] OTHER          -> r

(* The command register: the miscellaneous command first, then the one for *)
(* the transmitter and the one for the receiver.                           *)
Command(misc, tc, rc) ==
  /\ Executed
  /\ mode' = [mode EXCEPT !.second = @ /\ misc # "reset pointer"]
  /\ tx' = TxCommand(IF misc = "reset transmitter" THEN TxOff(tx) ELSE tx, tc)
  /\ rx' = RxCommand(IF misc = "reset receiver"
                       THEN [rx EXCEPT !.on = FALSE, !.rdy = FALSE, !.full = FALSE]
                       ELSE rx, rc)
  /\ UNCHANGED <<keyboard, uimr, delay, irq, history>>

-----------------------------------------------------------------------------
(* SimpleUART::Update *)

Sends == tx.on /\ ~tx.rdy
Looks == rx.on /\ delay = 0

(* Faulty variant of Transmit: TxRDY is raised only if it asks for an      *)
(* interrupt.                                                              *)
TransmitAgain ==
  /\ screen' = IF Sends THEN Append(screen, tx.utb) ELSE screen
  /\ tx' = IF Sends THEN [tx EXCEPT !.rdy = uimr.tx, !.emp = TRUE] ELSE tx

Transmit ==
  /\ screen' = IF Sends THEN Append(screen, tx.utb) ELSE screen
  /\ tx' = IF Sends THEN [tx EXCEPT !.rdy = TRUE, !.emp = TRUE] ELSE tx

(* A character that finds the receive buffer full is dropped.              *)
Stored(c) ==
  LET r == IF rx.count < URB_SIZE
             THEN [rx EXCEPT !.urb[rx.count + 1] = c, !.count = @ + 1] ELSE rx
  IN  Following([r EXCEPT !.rdy = TRUE, !.full = @ \/ r.count = URB_SIZE])

(* Faulty variant of Receive: the delay is never counted down.             *)
ReceiveStuck ==
  IF Looks
    THEN /\ Keyboard!Get /\ delay' = READ_DELAY
         /\ rx' = IF answer' = Nothing THEN rx ELSE Stored(answer')
    ELSE UNCHANGED <<keyboard, rx, delay>>

Receive ==
  IF Looks
    THEN /\ Keyboard!Get /\ delay' = READ_DELAY
         /\ rx' = IF answer' = Nothing THEN rx ELSE Stored(answer')
    ELSE /\ delay' = IF rx.on THEN delay - 1 ELSE delay
         /\ UNCHANGED <<keyboard, rx>>

Wants == \/ uimr.tx /\ tx.rdy
         \/ uimr.rx /\ (IF mode.onFull THEN rx.full ELSE rx.rdy)

Update ==
  /\ ph = "update" /\ ph' = "execute"
  /\ UNCHANGED <<setup, typed, written, got>>
  /\ IF tx.on \/ rx.on
       THEN Transmit /\ Receive /\ irq' = Wants'
       ELSE UNCHANGED <<screen, tx, keyboard, rx, delay, irq>>

-----------------------------------------------------------------------------

Instruction ==
  \/ Compute \/ ReadBuffer \/ WriteBuffer
  \/ \E b \in BOOLEAN : WriteMode(b)
  \/ \E r, t \in BOOLEAN : WriteMask(r, t)
  \/ \E misc \in {"none", "reset pointer", "reset receiver", "reset transmitter"} :
       \E tc, rc \in {"none", "enable", "disable"} : Command(misc, tc, rc)

Next == TypeKey \/ Restart \/ Instruction \/ Update

Spec == Init /\ [][Next]_vars

(* The simulator keeps running.                                            *)
FairSpec == Spec /\ WF_vars(Instruction) /\ WF_vars(Update)

-----------------------------------------------------------------------------
(* Properties *)

(* Every variable stays in its range.                                      *)
TypeOK ==
  /\ ph \in {"execute", "update"}
  /\ queue \in Seq(1 .. MaxTyped) /\ Len(queue) <= Capacity
  /\ answer \in 0 .. MaxTyped
  /\ rx \in [on : BOOLEAN, urb : [1 .. URB_SIZE -> 0 .. MaxTyped], count : 0 .. URB_SIZE,
             rdy : BOOLEAN, full : BOOLEAN, isr : BOOLEAN]
  /\ tx \in [on : BOOLEAN, utb : 0 .. MaxWritten, rdy : BOOLEAN, emp : BOOLEAN]
  /\ mode \in [second : BOOLEAN, onFull : BOOLEAN]
  /\ uimr \in [rx : BOOLEAN, tx : BOOLEAN]
  /\ delay \in 0 .. READ_DELAY /\ irq \in BOOLEAN
  /\ typed \in 0 .. MaxTyped /\ written \in 0 .. MaxWritten
  /\ got \in Seq(0 .. MaxTyped) /\ screen \in Seq(0 .. MaxWritten)

(* Of the keys typed none comes twice or out of order, whatever the        *)
(* receiver is told to do between them: what the program read, what is in  *)
(* the receive buffer and what waits in the window follow one another.     *)
KeysInOrder ==
  LET keys == got \o SubSeq(rx.urb, 1, rx.count) \o queue
  IN  \A i, j \in DOMAIN keys :
        i < j /\ keys[i] # Nothing /\ keys[j] # Nothing => keys[i] < keys[j]

(* RxRDY tells a polling program of a character that is not there at most  *)
(* once, as the first thing after a restart (SimpleUART::Reset empties the *)
(* buffer and leaves the status alone).                                    *)
PhantomFirst == \A i \in DOMAIN got : got[i] = Nothing => i = 1

(* What a polling program writes appears on the terminal once and in the   *)
(* order it was written: no command to the transmitter and no restart      *)
(* finds a character in UTB that was not sent.                             *)
WrittenOnce ==
  screen \o (IF Sends THEN <<tx.utb>> ELSE <<>>) = [i \in 1 .. written |-> i]

(* As long as the receiver stays on, every key in the window is fetched:   *)
(* the last typed, too, has left its queue in the end.                     *)
KeysFetched == <>[](rx.on) => []<>(queue = <<>>)
=============================================================================
