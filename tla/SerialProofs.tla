---------------------------- MODULE SerialProofs ----------------------------
(***************************************************************************)
(* Keys and characters keep their order over the serial line, for buffers  *)
(* of any size, any delay and any number of keys and characters.           *)
(***************************************************************************)
EXTENDS Serial, SequenceTheorems, TLAPS

Commands == {"none", "reset pointer", "reset receiver", "reset transmitter"}
Switches == {"none", "enable", "disable"}

(* What a step may do to the receiving side                                *)
ReceiverKept == UNCHANGED <<keyboard, rx.urb, rx.count, typed, got>> /\ (rx'.rdy => rx.rdy)

Receiver == [on : BOOLEAN, urb : [1 .. URB_SIZE -> 0 .. MaxTyped], count : 0 .. URB_SIZE,
             rdy : BOOLEAN, full : BOOLEAN, isr : BOOLEAN]

(* What the sender may find: a character to send in the phase of the       *)
(* update only.                                                            *)
Sending ==
  /\ tx.rdy => tx.on
  /\ ph = "execute" /\ tx.on => tx.rdy

(* The characters on their way, oldest first: what was read, what is in    *)
(* the receive buffer, what waits in the window                            *)
Ordered ==
  /\ \A i, j \in 1 .. Len(got) : i < j => got[i] < got[j]
  /\ \A i, j \in 1 .. rx.count : i < j => rx.urb[i] < rx.urb[j]
  /\ \A i, j \in 1 .. Len(queue) : i < j => queue[i] < queue[j]
  /\ \A i \in 1 .. Len(got), j \in 1 .. rx.count : got[i] < rx.urb[j]
  /\ \A i \in 1 .. Len(got), j \in 1 .. Len(queue) : got[i] < queue[j]
  /\ \A i \in 1 .. rx.count, j \in 1 .. Len(queue) : rx.urb[i] < queue[j]
  /\ \A i \in 1 .. Len(got) : got[i] <= typed
  /\ \A i \in 1 .. rx.count : rx.urb[i] \in 1 .. typed
  /\ \A i \in 1 .. Len(queue) : queue[i] \in 1 .. typed

(* Nothing but a restart leaves RxRDY set and the buffer empty.            *)
Phantom == rx.rdy /\ rx.count = 0 => got = <<>> /\ rx.urb[1] = Nothing

(* WrittenOnce, by length and elements                                     *)
Shown ==
  /\ Len(screen) = IF Sends THEN written - 1 ELSE written
  /\ \A i \in 1 .. Len(screen) : screen[i] = i
  /\ Sends => tx.utb = written

IInv == TypeOK /\ Sending /\ Ordered /\ Phantom /\ Shown

-----------------------------------------------------------------------------
(* Types *)

LEMMA FollowingTyped ==
  ASSUME TypeOK, NEW r \in Receiver
  PROVE  /\ Following(r) \in Receiver
         /\ Following(r).on = r.on /\ Following(r).urb = r.urb
         /\ Following(r).count = r.count /\ Following(r).rdy = r.rdy
BY DEF Following, TypeOK, Receiver

LEMMA ShiftedTyped ==
  ASSUME NEW urb \in [1 .. URB_SIZE -> 0 .. MaxTyped]
  PROVE  /\ Shifted(urb) \in [1 .. URB_SIZE -> 0 .. MaxTyped]
         /\ \A i \in 1 .. URB_SIZE - 1 : Shifted(urb)[i] = urb[i + 1]
BY SizeAssumption DEF Shifted

(* What reading a character does                                           *)
LEMMA ReadEffect ==
  ASSUME TypeOK, ReadBuffer
  PROVE  /\ rx' \in Receiver
         /\ rx.rdy /\ rx'.count = (IF rx.count = 0 THEN 0 ELSE rx.count - 1)
         /\ rx'.rdy => rx'.count > 0
         /\ \A i \in 1 .. rx'.count : rx'.urb[i] = rx.urb[i + 1]
         /\ rx.urb[1] \in 0 .. MaxTyped
         /\ got' = Append(got, rx.urb[1])
<1> DEFINE left == IF rx.count = 0 THEN 0 ELSE rx.count - 1
           r == [rx EXCEPT !.urb = Shifted(@), !.count = left, !.rdy = @ /\ left > 0, !.full = FALSE]
<1>1. rx \in Receiver /\ rx.rdy \in BOOLEAN /\ rx.count \in 0 .. URB_SIZE
  BY DEF TypeOK, Receiver
<1>2. rx.urb \in [1 .. URB_SIZE -> 0 .. MaxTyped] /\ 1 \in 1 .. URB_SIZE
  BY SizeAssumption DEF TypeOK
<1>3. left \in 0 .. URB_SIZE - 1 /\ left \in 0 .. URB_SIZE
  BY <1>1, SizeAssumption
<1> HIDE DEF left
<1>4. r \in Receiver
  BY <1>1, <1>2, <1>3, ShiftedTyped DEF Receiver
<1>5. r.urb = Shifted(rx.urb) /\ r.count = left /\ (r.rdy => left > 0)
  BY <1>1 DEF Receiver
<1>6. rx' = Following(r) /\ got' = Append(got, rx.urb[1]) /\ rx.rdy
  BY DEF ReadBuffer, left
<1> HIDE DEF r
<1>7. /\ rx' \in Receiver /\ rx'.urb = Shifted(rx.urb) /\ rx'.count = left
      /\ rx'.rdy => left > 0
  BY <1>4, <1>5, <1>6, FollowingTyped
<1>8. \A i \in 1 .. left : Shifted(rx.urb)[i] = rx.urb[i + 1]
  <2> SUFFICES ASSUME NEW i \in 1 .. left PROVE Shifted(rx.urb)[i] = rx.urb[i + 1]
    OBVIOUS
  <2>1. i \in 1 .. URB_SIZE - 1
    BY <1>3, SizeAssumption
  <2>2. QED
    BY <1>2, <2>1, ShiftedTyped
<1>9. rx.urb[1] \in 0 .. MaxTyped
  BY <1>2
<1>10. QED
  BY <1>6, <1>7, <1>8, <1>9 DEF left

(* What storing a character does                                           *)
LEMMA StoreEffect ==
  ASSUME TypeOK, NEW c \in 1 .. MaxTyped
  PROVE  /\ Stored(c) \in Receiver
         /\ Stored(c).count > 0
         /\ \A i \in 1 .. rx.count : Stored(c).urb[i] = rx.urb[i]
         /\ \/ Stored(c).count = rx.count
            \/ Stored(c).count = rx.count + 1 /\ Stored(c).urb[rx.count + 1] = c
<1> DEFINE r == IF rx.count < URB_SIZE
                  THEN [rx EXCEPT !.urb[rx.count + 1] = c, !.count = @ + 1] ELSE rx
           s == [r EXCEPT !.rdy = TRUE, !.full = @ \/ r.count = URB_SIZE]
<1>1. /\ r \in Receiver
      /\ r.count > 0 /\ \A i \in 1 .. rx.count : r.urb[i] = rx.urb[i]
      /\ r.count = rx.count \/ (r.count = rx.count + 1 /\ r.urb[rx.count + 1] = c)
  <2>0. rx \in Receiver /\ rx.count \in 0 .. URB_SIZE /\ rx.urb \in [1 .. URB_SIZE -> 0 .. MaxTyped]
    BY DEF TypeOK, Receiver
  <2>1. CASE rx.count < URB_SIZE
    <3> DEFINE u == [rx.urb EXCEPT ![rx.count + 1] = c]
    <3>1. rx.count + 1 \in 1 .. URB_SIZE /\ rx.count + 1 \in 0 .. URB_SIZE
      BY <2>0, <2>1, SizeAssumption
    <3>2. u \in [1 .. URB_SIZE -> 0 .. MaxTyped] /\ u[rx.count + 1] = c
      BY <2>0, <3>1, SizeAssumption, SMTT(30)
    <3>3. \A i \in 1 .. rx.count : u[i] = rx.urb[i]
      BY <2>0, <3>1
    <3>4. r = [rx EXCEPT !.urb = u, !.count = rx.count + 1]
      BY <2>0, <2>1 DEF Receiver
    <3> HIDE DEF u, r
    <3>5. r \in Receiver /\ r.urb = u /\ r.count = rx.count + 1
      BY <2>0, <3>1, <3>2, <3>4 DEF Receiver
    <3>6. QED
      BY <2>0, <3>2, <3>3, <3>5
  <2>2. CASE rx.count >= URB_SIZE
    <3>1. r = rx /\ rx.count > 0
      BY <2>0, <2>2, SizeAssumption
    <3>2. QED
      BY <2>0, <3>1
  <2>3. QED
    BY <2>0, <2>1, <2>2, SizeAssumption
<1> HIDE DEF r
<1>2. (r.full \/ r.count = URB_SIZE) \in BOOLEAN
  BY <1>1 DEF Receiver
<1>3. /\ s \in Receiver
      /\ s.urb = r.urb /\ s.count = r.count
  BY <1>1, <1>2 DEF Receiver
<1>4. Stored(c) = Following(s)
  BY DEF Stored, r
<1> HIDE DEF s
<1>5. QED
  BY <1>1, <1>3, <1>4, FollowingTyped

LEMMA InitHolds == Init => IInv
<1> SUFFICES ASSUME Init PROVE IInv
  OBVIOUS
<1> USE SizeAssumption
<1>1. TypeOK
  <2>1. queue \in Seq(1 .. MaxTyped) /\ Len(queue) = 0 /\ answer \in 0 .. MaxTyped
    BY DEF Init, Keyboard!Init, Nothing
  <2>2. got \in Seq(0 .. MaxTyped) /\ screen \in Seq(0 .. MaxWritten)
    BY DEF Init
  <2>3. rx \in Receiver
    <3> DEFINE u == [i \in 1 .. URB_SIZE |-> Nothing]
    <3>1. u \in [1 .. URB_SIZE -> 0 .. MaxTyped]
      BY DEF Nothing
    <3>2. rx = [on |-> FALSE, urb |-> u, count |-> 0, rdy |-> FALSE, full |-> FALSE, isr |-> FALSE]
      BY DEF Init
    <3> HIDE DEF u
    <3>3. QED
      BY <3>1, <3>2 DEF Receiver
  <2>4. tx \in [on : BOOLEAN, utb : 0 .. MaxWritten, rdy : BOOLEAN, emp : BOOLEAN]
    BY DEF Init, Nothing
  <2>5. mode \in [second : BOOLEAN, onFull : BOOLEAN] /\ uimr \in [rx : BOOLEAN, tx : BOOLEAN]
    BY DEF Init
  <2>6. /\ ph \in {"execute", "update"} /\ irq \in BOOLEAN
        /\ delay \in 0 .. READ_DELAY /\ typed \in 0 .. MaxTyped /\ written \in 0 .. MaxWritten
    <3>1. ph \in {"execute", "update"} /\ irq \in BOOLEAN
      BY DEF Init
    <3>2. delay = 0 /\ typed = 0 /\ written = 0
      BY DEF Init
    <3>3. QED
      BY <3>1, <3>2
  <2>7. QED
    BY <2>1, <2>2, <2>3, <2>4, <2>5, <2>6 DEF TypeOK, Receiver
<1>2. Sending /\ Ordered /\ Phantom
  BY DEF Init, Keyboard!Init, Sending, Ordered, Phantom
<1>3. Shown
  BY DEF Init, Shown, Sends
<1>4. QED
  BY <1>1, <1>2, <1>3 DEF IInv

-----------------------------------------------------------------------------
(* Types are kept. *)

Transmitter == [on : BOOLEAN, utb : 0 .. MaxWritten, rdy : BOOLEAN, emp : BOOLEAN]

LEMMA CommandTyped ==
  ASSUME TypeOK, NEW misc \in Commands, NEW tc \in Switches, NEW rc \in Switches,
         Command(misc, tc, rc)
  PROVE  /\ rx' \in Receiver /\ tx' \in Transmitter
         /\ UNCHANGED <<rx.urb, rx.count>> /\ (rx'.rdy => rx.rdy)
<1> DEFINE t == IF misc = "reset transmitter" THEN TxOff(tx) ELSE tx
           r == IF misc = "reset receiver"
                  THEN [rx EXCEPT !.on = FALSE, !.rdy = FALSE, !.full = FALSE] ELSE rx
<1>1. tx \in Transmitter /\ rx \in Receiver
  BY DEF TypeOK, Transmitter, Receiver
<1>2. t \in Transmitter
  BY <1>1 DEF TxOff, Transmitter
<1>3. r \in Receiver /\ r.urb = rx.urb /\ r.count = rx.count /\ (r.rdy => rx.rdy)
  BY <1>1 DEF Receiver
<1>4. tx' = TxCommand(t, tc) /\ rx' = RxCommand(r, rc)
  BY DEF Command
<1> HIDE DEF t, r
<1>5. tx' \in Transmitter
  BY <1>2, <1>4 DEF TxCommand, TxOff, Transmitter, Switches
<1>6. rx' \in Receiver /\ rx'.urb = r.urb /\ rx'.count = r.count /\ rx'.rdy = r.rdy
  BY <1>3, <1>4 DEF RxCommand, Receiver, Switches
<1>7. QED
  BY <1>3, <1>5, <1>6

LEMMA UpdateTyped ==
  ASSUME TypeOK, Update
  PROVE  TypeOK'
<1> USE SizeAssumption
<1>1. rx \in Receiver /\ tx \in Transmitter
  BY DEF TypeOK, Receiver, Transmitter
<1>2. /\ ph' \in {"execute", "update"} /\ UNCHANGED <<mode, uimr, typed, written, got>>
  BY DEF Update, setup
<1>3. CASE UNCHANGED <<screen, tx, keyboard, rx, delay, irq>>
  BY <1>2, <1>3 DEF TypeOK, keyboard
<1>4. CASE Transmit /\ Receive /\ irq' = Wants'
  <2>0. /\ queue \in Seq(1 .. MaxTyped) /\ Len(queue) <= Capacity
        /\ answer \in 0 .. MaxTyped /\ delay \in 0 .. READ_DELAY
        /\ MaxTyped \in Nat /\ READ_DELAY \in Nat
    BY SizeAssumption DEF TypeOK
  <2>1. screen' \in Seq(0 .. MaxWritten) /\ tx' \in Transmitter
    <3>1. screen \in Seq(0 .. MaxWritten) /\ tx.utb \in 0 .. MaxWritten
      BY <1>1 DEF TypeOK, Transmitter
    <3>2. Append(screen, tx.utb) \in Seq(0 .. MaxWritten)
      BY <3>1, AppendProperties
    <3>3. QED
      BY <1>1, <1>4, <3>1, <3>2 DEF Transmit, Transmitter
  <2>2. rx' \in Receiver /\ queue' \in Seq(1 .. MaxTyped) /\ Len(queue') <= Capacity
        /\ answer' \in 0 .. MaxTyped /\ delay' \in 0 .. READ_DELAY
    <3>1. CASE Looks /\ queue = <<>>
      <4>1. queue' = queue /\ answer' = Nothing /\ delay' = READ_DELAY
        BY <1>4, <3>1 DEF Receive, Keyboard!Get
      <4>2. rx' = rx
        BY <1>4, <3>1, <4>1 DEF Receive
      <4>3. QED
        BY <1>1, <2>0, <4>1, <4>2 DEF Nothing
    <3>2. CASE Looks /\ queue # <<>>
      <4>1. Head(queue) \in 1 .. MaxTyped /\ Tail(queue) \in Seq(1 .. MaxTyped)
            /\ Len(Tail(queue)) <= Capacity
        BY <3>2, HeadTailProperties, SMTT(30) DEF TypeOK
      <4>2. answer' = Head(queue) /\ queue' = Tail(queue) /\ delay' = READ_DELAY
        BY <1>4, <3>2 DEF Receive, Keyboard!Get
      <4>3. rx' = Stored(answer') /\ answer' \in 1 .. MaxTyped
        BY <1>4, <3>2, <4>1, <4>2 DEF Receive, Nothing
      <4>4. QED
        BY <4>1, <4>2, <4>3, StoreEffect
    <3>3. CASE ~Looks
      <4>1. rx' = rx /\ queue' = queue /\ answer' = answer
        BY <1>4, <3>3 DEF Receive, keyboard
      <4>2. delay' = IF rx.on THEN delay - 1 ELSE delay
        BY <1>4, <3>3 DEF Receive
      <4>3. delay' \in 0 .. READ_DELAY
        BY <2>0, <3>3, <4>2 DEF Looks
      <4>4. QED
        BY <1>1, <2>0, <4>1, <4>3
    <3>4. QED
      BY <3>1, <3>2, <3>3
  <2>3. irq' \in BOOLEAN
    BY <1>1, <1>2, <1>4, <2>1, <2>2 DEF Wants, TypeOK, Receiver, Transmitter
  <2>4. QED
    BY <1>2, <2>1, <2>2, <2>3 DEF TypeOK, Receiver, Transmitter
<1>5. QED
  BY <1>3, <1>4 DEF Update

LEMMA TypeHolds ==
  ASSUME TypeOK, [Next]_vars
  PROVE  TypeOK'
<1> USE SizeAssumption
<1>1. rx \in Receiver /\ tx \in Transmitter
  BY DEF TypeOK, Receiver, Transmitter
<1>2. CASE TypeKey
  <2>1. typed' \in 1 .. MaxTyped /\ typed' \in 0 .. MaxTyped
    BY <1>2 DEF TypeKey, TypeOK
  <2>2. queue' \in Seq(1 .. MaxTyped) /\ Len(queue') <= Capacity
    <3>1. queue \in Seq(1 .. MaxTyped) /\ Len(queue) \in Nat /\ Len(queue) <= Capacity
      BY DEF TypeOK
    <3>2. Append(queue, typed') \in Seq(1 .. MaxTyped) /\ Len(Append(queue, typed')) = Len(queue) + 1
      BY <2>1, <3>1, AppendProperties
    <3>3. queue' = IF Len(queue) < Capacity THEN Append(queue, typed') ELSE queue
      BY <1>2 DEF TypeKey, Keyboard!Put
    <3>4. CASE Len(queue) < Capacity
      <4>1. queue' = Append(queue, typed')
        BY <3>3, <3>4
      <4>2. Len(queue) + 1 <= Capacity
        BY <3>1, <3>4
      <4>3. QED
        BY <3>2, <4>1, <4>2
    <3>5. CASE ~(Len(queue) < Capacity)
      BY <3>1, <3>3, <3>5
    <3>6. QED
      BY <3>4, <3>5
  <2>3. QED
    BY <1>2, <2>1, <2>2 DEF TypeKey, Keyboard!Put, TypeOK, setup
<1>3. CASE Restart
  <2> DEFINE u == [rx.urb EXCEPT ![1] = Nothing]
  <2>1. u \in [1 .. URB_SIZE -> 0 .. MaxTyped] /\ 0 \in 0 .. URB_SIZE
    BY <1>1 DEF Receiver, Nothing
  <2>2. rx' = [rx EXCEPT !.urb = u, !.count = 0]
    BY <1>1, <1>3 DEF Restart, Receiver
  <2> HIDE DEF u
  <2>3. rx' \in Receiver
    BY <1>1, <2>1, <2>2 DEF Receiver
  <2>4. mode' \in [second : BOOLEAN, onFull : BOOLEAN] /\ irq' \in BOOLEAN
    BY <1>3 DEF Restart, TypeOK
  <2>5. got' \in Seq(0 .. MaxTyped)
    BY <1>3 DEF Restart
  <2>6. QED
    BY <1>3, <2>3, <2>4, <2>5 DEF Restart, TypeOK, Receiver, keyboard
<1>4. CASE Compute
  BY <1>4 DEF Compute, Executed, TypeOK, keyboard, setup, history
<1>5. CASE ReadBuffer
  <2>1. rx' \in Receiver /\ got' = Append(got, rx.urb[1]) /\ rx.urb[1] \in 0 .. MaxTyped
    BY <1>5, ReadEffect
  <2>2. got \in Seq(0 .. MaxTyped)
    BY DEF TypeOK
  <2>3. got' \in Seq(0 .. MaxTyped)
    BY <2>1, <2>2, AppendProperties
  <2>4. QED
    BY <1>5, <2>1, <2>3 DEF ReadBuffer, Executed, TypeOK, Receiver, keyboard, setup
<1>6. CASE WriteBuffer
  <2>1. written' \in 0 .. MaxWritten
    <3>1. written \in 0 .. MaxWritten /\ MaxWritten \in Nat
      BY SizeAssumption DEF TypeOK
    <3>2. QED
      BY <1>6, <3>1 DEF WriteBuffer
  <2>2. tx' \in Transmitter
    BY <1>1, <1>6, <2>1 DEF WriteBuffer, Transmitter
  <2>3. QED
    BY <1>6, <2>1, <2>2 DEF WriteBuffer, Executed, TypeOK, Transmitter, keyboard, setup
<1>7. ASSUME NEW b \in BOOLEAN, WriteMode(b) PROVE TypeOK'
  <2>1. mode' \in [second : BOOLEAN, onFull : BOOLEAN]
    BY <1>7 DEF WriteMode, TypeOK
  <2>2. QED
    BY <1>7, <2>1 DEF WriteMode, Executed, TypeOK, keyboard, history
<1>8. ASSUME NEW r \in BOOLEAN, NEW t \in BOOLEAN, WriteMask(r, t) PROVE TypeOK'
  <2>1. uimr' \in [rx : BOOLEAN, tx : BOOLEAN]
    BY <1>8 DEF WriteMask
  <2>2. QED
    BY <1>8, <2>1 DEF WriteMask, Executed, TypeOK, keyboard, history
<1>9. ASSUME NEW misc \in Commands, NEW tc \in Switches, NEW rc \in Switches,
             Command(misc, tc, rc)
      PROVE  TypeOK'
  <2>1. mode' \in [second : BOOLEAN, onFull : BOOLEAN]
    BY <1>9 DEF Command, TypeOK
  <2>2. QED
    BY <1>9, <2>1, CommandTyped DEF Command, Executed, TypeOK, Receiver, Transmitter,
                                    keyboard, history
<1>10. CASE UNCHANGED vars
  BY <1>10 DEF vars, TypeOK, keyboard, setup, history
<1>11. QED
  BY <1>2, <1>3, <1>4, <1>5, <1>6, <1>7, <1>8, <1>9, <1>10, UpdateTyped
     DEF Next, Instruction, Commands, Switches

-----------------------------------------------------------------------------
(* The transmitter *)

LEMMA SendingHolds ==
  ASSUME TypeOK, Sending, [Next]_vars
  PROVE  Sending'
<1>1. tx \in Transmitter
  BY DEF TypeOK, Transmitter
<1>2. CASE TypeKey \/ Restart
  BY <1>2 DEF TypeKey, Restart, Sending
<1>3. CASE Compute \/ ReadBuffer
  BY <1>3 DEF Compute, ReadBuffer, Executed, Sending
<1>4. CASE WriteBuffer
  BY <1>1, <1>4 DEF WriteBuffer, Executed, Sending, Transmitter
<1>5. ASSUME NEW b \in BOOLEAN, WriteMode(b) PROVE Sending'
  BY <1>5 DEF WriteMode, Executed, Sending
<1>6. ASSUME NEW r \in BOOLEAN, NEW t \in BOOLEAN, WriteMask(r, t) PROVE Sending'
  BY <1>6 DEF WriteMask, Executed, Sending
<1>7. ASSUME NEW misc \in Commands, NEW tc \in Switches, NEW rc \in Switches,
             Command(misc, tc, rc)
      PROVE  Sending'
  <2> DEFINE t == IF misc = "reset transmitter" THEN TxOff(tx) ELSE tx
  <2>1. t \in Transmitter /\ (t.rdy => t.on)
    BY <1>1 DEF TxOff, Transmitter, Sending
  <2>2. tx' = TxCommand(t, tc) /\ ph' = "update"
    BY <1>7 DEF Command, Executed
  <2> HIDE DEF t
  <2>3. QED
    BY <2>1, <2>2 DEF TxCommand, TxOff, Transmitter, Sending
<1>8. CASE Update
  BY <1>1, <1>8 DEF Update, Transmit, Sends, Sending, Transmitter
<1>9. CASE UNCHANGED vars
  BY <1>9 DEF vars, Sending
<1>10. QED
  BY <1>2, <1>3, <1>4, <1>5, <1>6, <1>7, <1>8, <1>9 DEF Next, Instruction, Commands, Switches

LEMMA NumbersLen ==
  ASSUME NEW S, NEW s \in Seq(S), NEW n \in Nat, s = [i \in 1 .. n |-> i]
  PROVE  Len(s) = n
<1>1. DOMAIN s = 1 .. Len(s) /\ Len(s) \in Nat
  BY LenProperties
<1>2. DOMAIN s = 1 .. n
  BY Zenon
<1>3. \A i \in Nat : i \in 1 .. Len(s) <=> i \in 1 .. n
  BY <1>1, <1>2, Zenon
<1>4. (Len(s) >= 1 => Len(s) <= n) /\ (n >= 1 => n <= Len(s))
  BY <1>1, <1>3
<1>5. QED
  BY <1>1, <1>4

LEMMA NumbersInOrder ==
  ASSUME NEW S, NEW s \in Seq(S)
  PROVE  s = [i \in 1 .. Len(s) |-> i] <=> \A i \in 1 .. Len(s) : s[i] = i
<1>1. s = [i \in 1 .. Len(s) |-> s[i]]
  BY LenProperties
<1>2. ASSUME \A i \in 1 .. Len(s) : s[i] = i
      PROVE  s = [i \in 1 .. Len(s) |-> i]
  BY <1>1, <1>2
<1>3. ASSUME s = [i \in 1 .. Len(s) |-> i], NEW i \in 1 .. Len(s)
      PROVE  s[i] = i
  BY <1>3
<1>4. QED
  BY <1>2, <1>3

LEMMA ShownIsWritten ==
  ASSUME TypeOK
  PROVE  WrittenOnce <=> Shown
<1> DEFINE s == screen \o (IF Sends THEN <<tx.utb>> ELSE <<>>)
<1>1. screen \in Seq(0 .. MaxWritten) /\ tx.utb \in 0 .. MaxWritten /\ written \in Nat
  BY SizeAssumption DEF TypeOK
<1>2. CASE Sends
  <2>1. s = Append(screen, tx.utb)
    BY <1>1, <1>2
  <2> HIDE DEF s
  <2>2. /\ s \in Seq(0 .. MaxWritten) /\ Len(s) = Len(screen) + 1 /\ s[Len(screen) + 1] = tx.utb
        /\ \A i \in 1 .. Len(screen) : s[i] = screen[i]
    BY <1>1, <2>1, AppendProperties
  <2>3. Len(screen) \in Nat
    BY <1>1
  <2>4. ASSUME WrittenOnce PROVE Shown
    <3>1. s = [i \in 1 .. written |-> i]
      BY <2>4 DEF WrittenOnce, s
    <3>2. Len(s) = written
      BY <1>1, <2>2, <3>1, NumbersLen
    <3>3. \A i \in 1 .. Len(s) : s[i] = i
      BY <2>2, <3>1, <3>2, NumbersInOrder
    <3>4. QED
      BY <1>1, <1>2, <2>2, <2>3, <3>2, <3>3 DEF Shown
  <2>5. ASSUME Shown PROVE WrittenOnce
    <3>1. Len(s) = written /\ \A i \in 1 .. Len(s) : s[i] = i
      BY <1>1, <1>2, <2>2, <2>3, <2>5 DEF Shown
    <3>2. QED
      BY <2>2, <3>1, NumbersInOrder DEF WrittenOnce, s
  <2>6. QED
    BY <2>4, <2>5
<1>3. CASE ~Sends
  <2>1. s = screen
    BY <1>1, <1>3
  <2>2. Len(screen) \in Nat
    BY <1>1
  <2>3. ASSUME screen = [i \in 1 .. written |-> i] PROVE Len(screen) = written
    BY <1>1, <2>3, NumbersLen
  <2>4. QED
    BY <1>1, <1>3, <2>1, <2>3, NumbersInOrder DEF WrittenOnce, Shown
<1>4. QED
  BY <1>2, <1>3

LEMMA ShownHolds ==
  ASSUME TypeOK, Sending, Shown, [Next]_vars
  PROVE  Shown'
<1>1. tx \in Transmitter /\ tx' \in Transmitter
  BY TypeHolds DEF TypeOK, Transmitter
<1>2. screen \in Seq(0 .. MaxWritten) /\ Len(screen) \in Nat /\ written \in Nat
  BY SizeAssumption DEF TypeOK
<1>3. ASSUME UNCHANGED <<tx, screen, written>> PROVE Shown'
  BY <1>3 DEF Shown, Sends
<1>4. CASE WriteBuffer
  <2>1. ~Sends /\ Sends' /\ tx'.utb = written + 1 /\ written' = written + 1 /\ screen' = screen
    BY <1>1, <1>4 DEF WriteBuffer, Sends, Sending, Transmitter
  <2>2. QED
    BY <1>2, <2>1 DEF Shown
<1>5. ASSUME NEW misc \in Commands, NEW tc \in Switches, NEW rc \in Switches,
             Command(misc, tc, rc)
      PROVE  Shown'
  <2> DEFINE t == IF misc = "reset transmitter" THEN TxOff(tx) ELSE tx
  <2>1. t \in Transmitter /\ (t.on => t.rdy)
    BY <1>1, <1>5 DEF TxOff, Transmitter, Sending, Command, Executed
  <2>2. tx' = TxCommand(t, tc) /\ UNCHANGED <<screen, written>> /\ ~Sends
    BY <1>5 DEF Command, Executed, Sends, Sending, history
  <2> HIDE DEF t
  <2>3. ~Sends'
    BY <2>1, <2>2 DEF TxCommand, TxOff, Transmitter, Sends
  <2>4. QED
    BY <2>2, <2>3 DEF Shown
<1>6. CASE Update
  <2>1. CASE Sends
    <3>1. screen' = Append(screen, tx.utb) /\ ~Sends' /\ written' = written
      BY <1>1, <1>6, <2>1 DEF Update, Transmit, Sends, Transmitter
    <3>2. tx.utb \in 0 .. MaxWritten /\ tx.utb = written /\ Len(screen) = written - 1
      BY <1>1, <2>1 DEF Transmitter, Shown
    <3>3. /\ Len(screen') = written /\ screen'[written] = written
          /\ \A i \in 1 .. written - 1 : screen'[i] = screen[i]
      BY <1>2, <3>1, <3>2, AppendProperties
    <3>4. \A i \in 1 .. written : screen'[i] = i
      BY <1>2, <3>2, <3>3 DEF Shown
    <3>5. QED
      BY <3>1, <3>3, <3>4 DEF Shown
  <2>2. CASE ~Sends
    BY <1>3, <1>6, <2>2 DEF Update, Transmit
  <2>3. QED
    BY <2>1, <2>2
<1>7. QED
  BY <1>3, <1>4, <1>5, <1>6
     DEF Next, Instruction, Commands, Switches, TypeKey, Restart, Compute, ReadBuffer,
         WriteMode, WriteMask, history, vars

-----------------------------------------------------------------------------
(* The receiver *)

Chain == Ordered /\ Phantom

LEMMA Elements ==
  ASSUME TypeOK
  PROVE  /\ \A i \in 1 .. Len(got) : got[i] \in Nat
         /\ \A i \in 1 .. rx.count : rx.urb[i] \in Nat
         /\ \A i \in 1 .. Len(queue) : queue[i] \in Nat /\ queue[i] \in 1 .. MaxTyped
<1>1. /\ got \in Seq(0 .. MaxTyped) /\ queue \in Seq(1 .. MaxTyped)
      /\ rx.urb \in [1 .. URB_SIZE -> 0 .. MaxTyped] /\ rx.count \in 0 .. URB_SIZE
  BY DEF TypeOK
<1>2. \A i \in 1 .. Len(got) : got[i] \in 0 .. MaxTyped
  BY <1>1, ElementOfSeq
<1>3. \A i \in 1 .. Len(queue) : queue[i] \in 1 .. MaxTyped
  BY <1>1, ElementOfSeq
<1>4. \A i \in 1 .. rx.count : rx.urb[i] \in 0 .. MaxTyped
  BY <1>1, SizeAssumption
<1>5. QED
  BY <1>2, <1>3, <1>4, SizeAssumption

(* A fetched key leaves the window and enters the receive buffer, or is    *)
(* dropped.                                                                *)
LEMMA FetchHolds ==
  ASSUME TypeOK, Chain, UNCHANGED <<typed, got>>, queue # <<>>,
         queue' = Tail(queue), rx' = Stored(Head(queue))
  PROVE  Chain'
<1> DEFINE c == Head(queue)
           n == rx.count
<1>1. /\ queue \in Seq(1 .. MaxTyped) /\ Len(queue) \in Nat \ {0} /\ c = queue[1]
      /\ n \in Nat /\ typed \in Nat
  BY SizeAssumption, EmptySeq DEF TypeOK
<1>2. c \in 1 .. MaxTyped
  BY <1>1, Elements
<1>3. Len(queue') = Len(queue) - 1 /\ \A i \in 1 .. Len(queue) - 1 : queue'[i] = queue[i + 1]
  BY <1>1, HeadTailProperties
<1>4. /\ rx'.count > 0 /\ \A i \in 1 .. n : rx'.urb[i] = rx.urb[i]
      /\ rx'.count = n \/ (rx'.count = n + 1 /\ rx'.urb[n + 1] = c)
  BY <1>2, StoreEffect
<1> HIDE DEF c, n
<1>5. /\ c \in 1 .. typed
      /\ \A j \in 2 .. Len(queue) : c < queue[j]
      /\ \A i \in 1 .. Len(got) : got[i] < c
      /\ \A i \in 1 .. n : rx.urb[i] < c
  BY <1>1 DEF Chain, Ordered, n
<1>6. ASSUME NEW i \in 1 .. rx'.count
      PROVE  \/ i \in 1 .. n /\ rx'.urb[i] = rx.urb[i]
             \/ i = n + 1 /\ rx'.urb[i] = c
  BY <1>1, <1>4
<1>7. ASSUME NEW i \in 1 .. rx'.count, NEW j \in 1 .. rx'.count, i < j
      PROVE  rx'.urb[i] < rx'.urb[j]
  <2>1. i \in 1 .. n /\ rx'.urb[i] = rx.urb[i]
    BY <1>1, <1>4, <1>7
  <2>2. QED
    BY <1>5, <1>6, <1>7, <2>1 DEF Chain, Ordered, n
<1>8. ASSUME NEW i \in 1 .. Len(got), NEW j \in 1 .. rx'.count
      PROVE  got[i] < rx'.urb[j]
  BY <1>5, <1>6 DEF Chain, Ordered, n
<1>9. ASSUME NEW j \in 1 .. Len(queue')
      PROVE  j + 1 \in 2 .. Len(queue) /\ j + 1 \in 1 .. Len(queue) /\ queue'[j] = queue[j + 1]
  BY <1>1, <1>3
<1>10. ASSUME NEW i \in 1 .. rx'.count, NEW j \in 1 .. Len(queue')
       PROVE  rx'.urb[i] < queue'[j]
  BY <1>5, <1>6, <1>9 DEF Chain, Ordered, n
<1>11. ASSUME NEW i \in 1 .. Len(queue'), NEW j \in 1 .. Len(queue'), i < j
       PROVE  queue'[i] < queue'[j]
  <2>1. i + 1 < j + 1 /\ i + 1 \in 1 .. Len(queue) /\ j + 1 \in 1 .. Len(queue)
    BY <1>1, <1>3, <1>11
  <2>2. queue[i + 1] < queue[j + 1]
    BY <2>1 DEF Chain, Ordered
  <2>3. QED
    BY <1>9, <2>2
<1>12. ASSUME NEW i \in 1 .. Len(got), NEW j \in 1 .. Len(queue')
       PROVE  got[i] < queue'[j]
  BY <1>9 DEF Chain, Ordered
<1>13. \A i \in 1 .. rx'.count : rx'.urb[i] \in 1 .. typed
  BY <1>5, <1>6 DEF Chain, Ordered, n
<1>14. \A i \in 1 .. Len(queue') : queue'[i] \in 1 .. typed
  BY <1>9 DEF Chain, Ordered
<1>15. Ordered'
  BY <1>7, <1>8, <1>10, <1>11, <1>12, <1>13, <1>14 DEF Chain, Ordered
<1>16. QED
  BY <1>4, <1>15 DEF Chain, Phantom

LEMMA ChainHolds ==
  ASSUME TypeOK, Chain, [Next]_vars
  PROVE  Chain'
<1>1. /\ got \in Seq(0 .. MaxTyped) /\ Len(got) \in Nat
      /\ queue \in Seq(1 .. MaxTyped) /\ Len(queue) \in Nat
      /\ rx.count \in Nat /\ typed \in Nat /\ rx \in Receiver
  BY SizeAssumption DEF TypeOK, Receiver
<1>2. ASSUME ReceiverKept PROVE Chain'
  BY <1>2 DEF ReceiverKept, Chain, Ordered, Phantom, keyboard
<1>3. CASE TypeKey
  <2>1. typed' = typed + 1 /\ UNCHANGED <<rx, got>>
    BY <1>3 DEF TypeKey
  <2>2. queue' = queue \/ queue' = Append(queue, typed')
    BY <1>3 DEF TypeKey, Keyboard!Put
  <2>3. CASE queue' = queue
    BY <1>1, <2>1, <2>3, Elements DEF Chain, Ordered, Phantom
  <2>4. CASE queue' = Append(queue, typed')
    <3>1. typed' \in 1 .. MaxTyped
      BY <1>1, <1>3, <2>1, SizeAssumption DEF TypeKey
    <3>2. /\ Len(queue') = Len(queue) + 1 /\ queue'[Len(queue) + 1] = typed + 1
          /\ \A i \in 1 .. Len(queue) : queue'[i] = queue[i]
      BY <1>1, <2>1, <2>4, <3>1, AppendProperties
    <3>3. \A i \in 1 .. Len(queue') : \/ i \in 1 .. Len(queue) /\ queue'[i] = queue[i]
                                      \/ i = Len(queue) + 1 /\ queue'[i] = typed + 1
      BY <1>1, <3>2
    <3>4. \A i, j \in 1 .. Len(queue') : i < j => queue'[i] < queue'[j]
      <4> SUFFICES ASSUME NEW i \in 1 .. Len(queue'), NEW j \in 1 .. Len(queue'), i < j
                   PROVE  queue'[i] < queue'[j]
        OBVIOUS
      <4>1. i \in 1 .. Len(queue) /\ queue'[i] = queue[i] /\ queue[i] \in 1 .. typed
        BY <1>1, <3>2, <3>3 DEF Chain, Ordered
      <4>2. CASE j \in 1 .. Len(queue) /\ queue'[j] = queue[j]
        BY <4>1, <4>2 DEF Chain, Ordered
      <4>3. CASE queue'[j] = typed + 1
        BY <1>1, <4>1, <4>3
      <4>4. QED
        BY <3>3, <4>2, <4>3
    <3>5. \A i \in 1 .. Len(got), j \in 1 .. Len(queue') : got[i] < queue'[j]
      <4> SUFFICES ASSUME NEW i \in 1 .. Len(got), NEW j \in 1 .. Len(queue')
                   PROVE  got[i] < queue'[j]
        OBVIOUS
      <4>1. got[i] \in Nat /\ got[i] <= typed
        BY Elements DEF Chain, Ordered
      <4>2. QED
        <5>1. CASE j \in 1 .. Len(queue) /\ queue'[j] = queue[j]
          BY <5>1 DEF Chain, Ordered
        <5>2. CASE queue'[j] = typed + 1
          BY <1>1, <4>1, <5>2
        <5>3. QED
          BY <3>3, <5>1, <5>2
    <3>6. \A i \in 1 .. rx.count, j \in 1 .. Len(queue') : rx.urb[i] < queue'[j]
      <4> SUFFICES ASSUME NEW i \in 1 .. rx.count, NEW j \in 1 .. Len(queue')
                   PROVE  rx.urb[i] < queue'[j]
        OBVIOUS
      <4>1. rx.urb[i] \in 1 .. typed
        BY DEF Chain, Ordered
      <4>2. QED
        BY <1>1, <3>3, <4>1 DEF Chain, Ordered
    <3>7. /\ \A i \in 1 .. Len(got) : got[i] <= typed'
          /\ \A i \in 1 .. rx.count : rx.urb[i] \in 1 .. typed'
          /\ \A i \in 1 .. Len(queue') : queue'[i] \in 1 .. typed'
      <4>1. \A n \in Nat : n <= typed => n <= typed'
        BY <1>1, <2>1
      <4>2. \A i \in 1 .. Len(got) : got[i] <= typed'
        BY <4>1, Elements DEF Chain, Ordered
      <4>3. \A i \in 1 .. rx.count : rx.urb[i] \in 1 .. typed'
        BY <1>1, <2>1 DEF Chain, Ordered
      <4>4. \A i \in 1 .. Len(queue) : queue[i] \in 1 .. typed'
        BY <1>1, <2>1 DEF Chain, Ordered
      <4>5. typed + 1 \in 1 .. typed'
        BY <1>1, <2>1
      <4>6. QED
        BY <3>3, <4>2, <4>3, <4>4, <4>5
    <3>8. QED
      BY <2>1, <3>4, <3>5, <3>6, <3>7 DEF Chain, Ordered, Phantom
  <2>5. QED
    BY <2>2, <2>3, <2>4
<1>4. CASE Restart
  <2>1. /\ got' = <<>> /\ Len(got') = 0 /\ rx'.count = 0 /\ rx'.urb[1] = Nothing
        /\ UNCHANGED <<queue, typed>>
    <3>1. rx.urb \in [1 .. URB_SIZE -> 0 .. MaxTyped] /\ 1 \in 1 .. URB_SIZE
      BY <1>1, SizeAssumption DEF Receiver
    <3>2. QED
      BY <1>1, <1>4, <3>1 DEF Restart, Receiver, keyboard
  <2>2. QED
    BY <2>1 DEF Chain, Ordered, Phantom
<1>5. CASE ReadBuffer
  <2>1. UNCHANGED <<queue, typed>>
    BY <1>5 DEF ReadBuffer, keyboard
  <2>2. /\ rx.rdy /\ rx'.count = (IF rx.count = 0 THEN 0 ELSE rx.count - 1)
        /\ rx'.rdy => rx'.count > 0
        /\ \A i \in 1 .. rx'.count : rx'.urb[i] = rx.urb[i + 1]
        /\ rx.urb[1] \in 0 .. MaxTyped /\ got' = Append(got, rx.urb[1])
    BY <1>5, ReadEffect
  <2>3. /\ Len(got') = Len(got) + 1 /\ got'[Len(got) + 1] = rx.urb[1]
        /\ \A i \in 1 .. Len(got) : got'[i] = got[i]
    BY <1>1, <2>2, AppendProperties
  <2>4. ASSUME NEW i \in 1 .. Len(got')
        PROVE  \/ i \in 1 .. Len(got) /\ got'[i] = got[i]
               \/ i = Len(got) + 1 /\ got'[i] = rx.urb[1]
    BY <1>1, <2>3
  <2>5. CASE rx.count = 0
    <3>1. Len(got) = 0 /\ rx.urb[1] = 0 /\ rx'.count = 0
      BY <2>2, <2>5 DEF Chain, Phantom, Nothing
    <3>2. Len(got') = 1 /\ got'[1] = 0
      BY <2>3, <3>1
    <3>3. QED
      BY <1>1, <2>1, <2>2, <3>1, <3>2 DEF Chain, Ordered, Phantom
  <2>6. CASE rx.count > 0
    <3>1. 1 \in 1 .. rx.count /\ rx'.count = rx.count - 1
      BY <1>1, <2>2, <2>6
    <3>2. \A i \in 1 .. rx'.count : i + 1 \in 1 .. rx.count /\ rx'.urb[i] = rx.urb[i + 1]
      BY <1>1, <2>2, <3>1
    <3>3. \A i, j \in 1 .. Len(got') : i < j => got'[i] < got'[j]
      <4> SUFFICES ASSUME NEW i \in 1 .. Len(got'), NEW j \in 1 .. Len(got'), i < j
                   PROVE  got'[i] < got'[j]
        OBVIOUS
      <4>1. i \in 1 .. Len(got) /\ got'[i] = got[i]
        BY <1>1, <2>3, <2>4
      <4>2. CASE j \in 1 .. Len(got) /\ got'[j] = got[j]
        BY <4>1, <4>2 DEF Chain, Ordered
      <4>3. CASE got'[j] = rx.urb[1]
        BY <3>1, <4>1, <4>3 DEF Chain, Ordered
      <4>4. QED
        BY <2>4, <4>2, <4>3
    <3>4. \A i, j \in 1 .. rx'.count : i < j => rx'.urb[i] < rx'.urb[j]
      <4> SUFFICES ASSUME NEW i \in 1 .. rx'.count, NEW j \in 1 .. rx'.count, i < j
                   PROVE  rx'.urb[i] < rx'.urb[j]
        OBVIOUS
      <4>1. i + 1 < j + 1 /\ i + 1 \in 1 .. rx.count /\ j + 1 \in 1 .. rx.count
        BY <1>1, <3>1
      <4>2. rx.urb[i + 1] < rx.urb[j + 1]
        BY <4>1 DEF Chain, Ordered
      <4>3. QED
        BY <3>2, <4>2
    <3>5. \A i \in 1 .. Len(got'), j \in 1 .. rx'.count : got'[i] < rx'.urb[j]
      <4> SUFFICES ASSUME NEW i \in 1 .. Len(got'), NEW j \in 1 .. rx'.count
                   PROVE  got'[i] < rx'.urb[j]
        OBVIOUS
      <4>1. j + 1 \in 1 .. rx.count /\ 1 < j + 1 /\ rx'.urb[j] = rx.urb[j + 1]
        BY <1>1, <3>1, <3>2
      <4>2. QED
        BY <2>4, <3>1, <4>1 DEF Chain, Ordered
    <3>6. \A i \in 1 .. Len(got'), j \in 1 .. Len(queue) : got'[i] < queue[j]
      BY <2>4, <3>1 DEF Chain, Ordered
    <3>7. \A i \in 1 .. rx'.count, j \in 1 .. Len(queue) : rx'.urb[i] < queue[j]
      BY <3>2 DEF Chain, Ordered
    <3>8. /\ \A i \in 1 .. Len(got') : got'[i] <= typed
          /\ \A i \in 1 .. rx'.count : rx'.urb[i] \in 1 .. typed
      <4>1. rx.urb[1] \in 1 .. typed
        BY <3>1 DEF Chain, Ordered
      <4>2. QED
        BY <1>1, <2>4, <3>2, <4>1, SMTT(30) DEF Chain, Ordered
    <3>9. QED
      BY <2>1, <2>2, <3>3, <3>4, <3>5, <3>6, <3>7, <3>8 DEF Chain, Ordered, Phantom
  <2>7. QED
    BY <1>1, <2>5, <2>6
<1>6. ASSUME NEW misc \in Commands, NEW tc \in Switches, NEW rc \in Switches,
             Command(misc, tc, rc)
      PROVE  Chain'
  BY <1>2, <1>6, CommandTyped DEF Command, ReceiverKept, history
<1>7. CASE Update
  <2>1. UNCHANGED <<typed, got>>
    BY <1>7 DEF Update
  <2>2. CASE UNCHANGED <<keyboard, rx>>
    BY <1>2, <2>1, <2>2 DEF ReceiverKept
  <2>3. CASE Receive /\ Looks /\ queue = <<>>
    <3>1. UNCHANGED <<queue, rx>>
      BY <2>3 DEF Receive, Keyboard!Get
    <3>2. QED
      BY <2>1, <3>1 DEF Chain, Ordered, Phantom
  <2>4. CASE Receive /\ Looks /\ queue # <<>>
    <3>1. answer' = Head(queue) /\ queue' = Tail(queue)
      BY <2>4 DEF Receive, Keyboard!Get
    <3>2. answer' \in 1 .. MaxTyped
      BY <1>1, <2>4, <3>1, HeadTailProperties
    <3>3. rx' = Stored(Head(queue))
      BY <2>4, <3>1, <3>2 DEF Receive, Nothing
    <3>4. QED
      BY <2>1, <2>4, <3>1, <3>3, FetchHolds
  <2>5. CASE Receive /\ ~Looks
    BY <2>2, <2>5 DEF Receive
  <2>6. QED
    BY <1>7, <2>2, <2>3, <2>4, <2>5 DEF Update
<1>8. CASE UNCHANGED vars
  BY <1>2, <1>8 DEF vars, ReceiverKept, history
<1>9. QED
  BY <1>2, <1>3, <1>4, <1>5, <1>6, <1>7, <1>8
     DEF Next, Instruction, Commands, Switches, Compute, WriteBuffer, WriteMode, WriteMask,
         ReceiverKept, history

-----------------------------------------------------------------------------
(* The theorems *)

LEMMA NextHolds ==
  ASSUME IInv, [Next]_vars
  PROVE  IInv'
BY TypeHolds, SendingHolds, ChainHolds, ShownHolds DEF IInv, Chain

(* IInv is inductive.                                                      *)
THEOREM Invariance == Spec => []IInv
<1>1. IInv /\ [Next]_vars => IInv'
  BY NextHolds
<1>2. QED
  BY InitHolds, <1>1, PTL DEF Spec

(* Whatever the program tells the UART, the receive buffer never runs over *)
(* and every variable keeps its type (TypeOK).                             *)
THEOREM TypeCorrect == Spec => []TypeOK
<1>1. IInv => TypeOK
  BY DEF IInv
<1>2. QED
  BY <1>1, Invariance, PTL

(* Three sequences one after another                                       *)
LEMMA ThreeParts ==
  ASSUME NEW a \in Seq(Nat), NEW b \in Seq(Nat), NEW c \in Seq(Nat)
  PROVE  /\ DOMAIN (a \o b \o c) = 1 .. Len(a) + Len(b) + Len(c)
         /\ \A i \in DOMAIN (a \o b \o c) :
              \/ i \in 1 .. Len(a) /\ (a \o b \o c)[i] = a[i]
              \/ i - Len(a) \in 1 .. Len(b) /\ (a \o b \o c)[i] = b[i - Len(a)]
              \/ /\ i - (Len(a) + Len(b)) \in 1 .. Len(c)
                 /\ (a \o b \o c)[i] = c[i - (Len(a) + Len(b))]
<1> DEFINE f == a \o b
           s == f \o c
<1>1. Len(a) \in Nat /\ Len(b) \in Nat /\ Len(c) \in Nat
  OBVIOUS
<1>2. /\ f \in Seq(Nat) /\ Len(f) = Len(a) + Len(b)
      /\ \A i \in 1 .. Len(a) + Len(b) : f[i] = IF i <= Len(a) THEN a[i] ELSE b[i - Len(a)]
  BY ConcatProperties, Zenon
<1> HIDE DEF f
<1>3. /\ s \in Seq(Nat) /\ Len(s) = Len(f) + Len(c)
      /\ \A i \in 1 .. Len(f) + Len(c) : s[i] = IF i <= Len(f) THEN f[i] ELSE c[i - Len(f)]
  <2>1. f \in Seq(Nat)
    BY <1>2
  <2>2. QED
    BY <2>1, ConcatProperties, Zenon
<1>4. DOMAIN s = 1 .. Len(s)
  BY <1>3, LenProperties
<1> HIDE DEF s
<1>5. DOMAIN s = 1 .. Len(a) + Len(b) + Len(c)
  BY ONLY <1>1, <1>2, <1>3, <1>4
<1>6. ASSUME NEW i \in 1 .. Len(a) + Len(b) + Len(c)
      PROVE  \/ i \in 1 .. Len(a) /\ s[i] = a[i]
             \/ i - Len(a) \in 1 .. Len(b) /\ s[i] = b[i - Len(a)]
             \/ i - (Len(a) + Len(b)) \in 1 .. Len(c) /\ s[i] = c[i - (Len(a) + Len(b))]
  <2>1. CASE i <= Len(a)
    <3>1. i \in 1 .. Len(a) /\ i \in 1 .. Len(f) /\ i <= Len(f)
      BY ONLY <1>1, <1>2, <1>6, <2>1
    <3>2. f[i] = a[i]
      BY ONLY <1>2, <3>1, <2>1, <1>1
    <3>3. s[i] = f[i]
      BY ONLY <1>1, <1>2, <1>3, <1>6, <3>1
    <3>4. QED
      BY <3>1, <3>2, <3>3
  <2>2. CASE i > Len(a) /\ i <= Len(f)
    <3>1. i - Len(a) \in 1 .. Len(b) /\ i \in 1 .. Len(f) /\ ~(i <= Len(a))
      BY ONLY <1>1, <1>2, <1>6, <2>2
    <3>2. f[i] = b[i - Len(a)]
      BY ONLY <1>2, <3>1
    <3>3. s[i] = f[i]
      BY ONLY <1>1, <1>2, <1>3, <1>6, <3>1, <2>2
    <3>4. QED
      BY <3>1, <3>2, <3>3
  <2>3. CASE i > Len(f)
    <3>1. i - Len(f) \in 1 .. Len(c) /\ ~(i <= Len(f)) /\ i - Len(f) = i - (Len(a) + Len(b))
      BY ONLY <1>1, <1>2, <1>6, <2>3
    <3>2. s[i] = c[i - Len(f)]
      BY ONLY <1>1, <1>2, <1>3, <1>6, <3>1
    <3>3. QED
      BY <3>1, <3>2
  <2>4. QED
    BY <1>1, <1>2, <1>6, <2>1, <2>2, <2>3
<1>7. QED
  BY <1>5, <1>6 DEF s, f

(* In the three parts of the way from the window to the program the keys   *)
(* follow one another in the order they were typed, none of them twice     *)
(* (KeysInOrder), for any sizes of the buffers and any delay.              *)
THEOREM KeysKeepOrder == Spec => []KeysInOrder
<1>1. ASSUME IInv PROVE KeysInOrder
  <2> DEFINE g == Len(got)
             m == SubSeq(rx.urb, 1, rx.count)
             keys == got \o m \o queue
  <2>1. /\ got \in Seq(Nat) /\ queue \in Seq(Nat) /\ rx.urb \in Seq(Nat)
        /\ rx.count \in Nat /\ rx.count <= Len(rx.urb)
    <3>1. rx.urb \in [1 .. URB_SIZE -> Nat] /\ rx.count \in 0 .. URB_SIZE
      BY <1>1, SizeAssumption DEF IInv, TypeOK
    <3>2. rx.urb \in Seq(Nat) /\ Len(rx.urb) = URB_SIZE
      BY <3>1, SizeAssumption, IsASeq, LenProperties
    <3>3. got \in Seq(0 .. MaxTyped) /\ queue \in Seq(1 .. MaxTyped)
      BY <1>1 DEF IInv, TypeOK
    <3>4. 0 .. MaxTyped \subseteq Nat /\ 1 .. MaxTyped \subseteq Nat
      OBVIOUS
    <3>5. got \in Seq(Nat) /\ queue \in Seq(Nat)
      BY <3>3, <3>4, SeqMonotonic, Zenon
    <3>6. QED
      BY <3>1, <3>2, <3>5
  <2>2. m \in Seq(Nat) /\ Len(m) = rx.count /\ \A i \in 1 .. rx.count : m[i] = rx.urb[i]
    <3> DEFINE s == rx.urb
               c == rx.count
    <3>1. /\ s \in Seq(Nat) /\ c \in Nat /\ 1 \in 1 .. Len(s) + 1 /\ c \in 1 - 1 .. Len(s)
          /\ m = SubSeq(s, 1, c)
      BY <2>1
    <3> HIDE DEF s, c, m
    <3>2. m \in Seq(Nat) /\ Len(m) = c /\ \A i \in 1 .. c : m[i] = s[i]
      BY <3>1, SubSeqProperties
    <3>3. QED
      BY <3>2 DEF s, c
  <2> HIDE DEF m
  <2> DEFINE n == rx.count
  <2>3. /\ DOMAIN keys = 1 .. Len(got) + Len(m) + Len(queue)
        /\ \A i \in DOMAIN keys :
             \/ i \in 1 .. Len(got) /\ keys[i] = got[i]
             \/ i - Len(got) \in 1 .. Len(m) /\ keys[i] = m[i - Len(got)]
             \/ /\ i - (Len(got) + Len(m)) \in 1 .. Len(queue)
                /\ keys[i] = queue[i - (Len(got) + Len(m))]
    <3>1. got \in Seq(Nat)
      BY <2>1
    <3>2. m \in Seq(Nat)
      BY <2>2
    <3>3. queue \in Seq(Nat)
      BY <2>1
    <3>4. QED
      BY ONLY <3>1, <3>2, <3>3, ThreeParts, Zenon DEF keys
  <2> HIDE DEF keys
  <2>6. ASSUME NEW i \in DOMAIN keys
        PROVE  \/ i \in 1 .. g /\ keys[i] = got[i]
               \/ i - g \in 1 .. n /\ keys[i] = rx.urb[i - g]
               \/ i - (g + n) \in 1 .. Len(queue) /\ keys[i] = queue[i - (g + n)]
    BY <2>1, <2>2, <2>3
  <2>7. ASSUME NEW i \in DOMAIN keys, NEW j \in DOMAIN keys, i < j
        PROVE  keys[i] < keys[j]
    <3>1. i \in Nat /\ j \in Nat /\ g \in Nat /\ n \in Nat /\ Len(queue) \in Nat
      BY <2>1, <2>3
    <3>2. CASE i \in 1 .. g /\ keys[i] = got[i]
      BY <1>1, <2>6, <2>7, <3>1, <3>2 DEF IInv, Ordered
    <3>3. CASE i - g \in 1 .. n /\ keys[i] = rx.urb[i - g]
      <4>1. j \notin 1 .. g
        BY <2>7, <3>1, <3>3
      <4>2. CASE j - g \in 1 .. n /\ keys[j] = rx.urb[j - g]
        <5>1. i - g < j - g
          BY <2>7, <3>1
        <5>2. QED
          BY <1>1, <3>3, <4>2, <5>1 DEF IInv, Ordered
      <4>3. CASE j - (g + n) \in 1 .. Len(queue) /\ keys[j] = queue[j - (g + n)]
        BY <1>1, <3>3, <4>3 DEF IInv, Ordered
      <4>4. QED
        BY <2>6, <4>1, <4>2, <4>3
    <3>4. CASE i - (g + n) \in 1 .. Len(queue) /\ keys[i] = queue[i - (g + n)]
      <4>0. j \notin 1 .. g /\ j - g \notin 1 .. n /\ i - (g + n) < j - (g + n)
        BY <2>7, <3>1, <3>4
      <4>1. j - (g + n) \in 1 .. Len(queue) /\ keys[j] = queue[j - (g + n)]
        BY <2>6, <4>0
      <4>2. QED
        BY <1>1, <3>4, <4>0, <4>1 DEF IInv, Ordered
    <3>5. QED
      BY <2>6, <3>2, <3>3, <3>4
  <2>8. QED
    BY <2>7 DEF KeysInOrder, keys, m
<1>2. QED
  BY <1>1, Invariance, PTL

(* A program that polls reads a character that no one typed at most once,  *)
(* and only as the first after a restart (PhantomFirst).                   *)
THEOREM PhantomsComeFirst == Spec => []PhantomFirst
<1>1. ASSUME IInv PROVE PhantomFirst
  <2> SUFFICES ASSUME NEW i \in DOMAIN got, got[i] = Nothing, i # 1 PROVE FALSE
    BY DEF PhantomFirst
  <2>1. i \in 1 .. Len(got) /\ 1 \in 1 .. Len(got) /\ 1 < i
    BY <1>1 DEF IInv, TypeOK
  <2>2. got[1] \in Nat /\ got[1] < got[i]
    BY <1>1, <2>1, Elements DEF IInv, Ordered
  <2>3. QED
    BY <2>2 DEF Nothing
<1>2. QED
  BY <1>1, Invariance, PTL

(* Nothing that a polling program writes is lost, repeated or overtaken on *)
(* its way to the terminal (WrittenOnce): when the program runs, UTB never *)
(* holds a character that is still to be sent.                             *)
THEOREM WritesAppearOnce == Spec => []WrittenOnce
<1>1. ASSUME IInv PROVE WrittenOnce
  BY <1>1, ShownIsWritten DEF IInv
<1>2. QED
  BY <1>1, Invariance, PTL

-----------------------------------------------------------------------------
(* Whatever the program does to the receiver, the user and SimRead use the *)
(* window as the queue of characters that the ring of the terminal window  *)
(* implements (InputBufferProofs!RingIsQueue): a restart, which resets the *)
(* devices, leaves it alone.                                               *)
THEOREM KeyboardIsQueue == Spec => Keyboard!Spec
<1>1. Init => Keyboard!Init
  BY DEF Init
<1>2. TypeOK /\ [Next]_vars => [Keyboard!Next]_keyboard
  <2> SUFFICES ASSUME TypeOK, [Next]_vars, ~UNCHANGED keyboard
               PROVE  Keyboard!Next
    OBVIOUS
  <2>1. CASE TypeKey
    <3>1. typed' \in 1 .. MaxTyped
      BY <2>1, SizeAssumption DEF TypeKey, TypeOK
    <3>2. QED
      BY <2>1, <3>1 DEF TypeKey, Keyboard!Next
  <2>2. CASE Update
    BY <2>2 DEF Update, Receive, Keyboard!Next, keyboard
  <2>3. CASE Restart
    BY <2>3 DEF Restart
  <2>4. CASE Instruction
    BY <2>4 DEF Instruction, Compute, ReadBuffer, WriteBuffer, WriteMode, WriteMask, Command
  <2>5. QED
    BY <2>1, <2>2, <2>3, <2>4 DEF Next, vars, keyboard
<1>3. QED
  BY <1>1, <1>2, TypeCorrect, PTL DEF Spec, Keyboard!Spec, keyboard
=============================================================================
