------------------------------- MODULE Timer --------------------------------
(***************************************************************************)
(* The timer (SimpleTimer of ColdFire/Peripherals) under a program that    *)
(* programs it in any way.  After every instruction the simulator adds the *)
(* instruction's cycles to a 32-bit counter and updates the timer, which   *)
(* ticks when the counter has reached next_tick; the user may zero the     *)
(* counter (ZeroStats) and reset the board between two instructions.       *)
(***************************************************************************)
EXTENDS Integers

CONSTANTS
  Clock,       \* the cycle counter and next_tick count modulo Clock (2^32)
  Counter,     \* TCN and TRR count modulo Counter (2^16)
  Prescales,   \* values of the PS field
  Clocks,      \* values of the CLK field: none, the clock, the clock / 16, pin
  Costs        \* cycles an instruction may add: none if it faults

ASSUME ClockAssumption    == Clock \in Nat \ {0}
ASSUME CounterAssumption  == Counter \in Nat /\ Counter > 1
ASSUME PrescaleAssumption == Prescales \subseteq Nat
ASSUME ClocksAssumption   == Clocks \subseteq 0 .. 3
ASSUME CostAssumption     == Costs \subseteq Nat

VARIABLES
  timer,    \* _timer_data: the registers, enable, perTick, nextTick
  cycles,   \* Context::cycles_
  request,  \* the timer's request at the interrupt controller
  history   \* no part of the code, since the mode was set: where the clock
            \* stood, the ticks, whether the clock went on without a wrap, the
            \* ticks since the last match, and those from the match before
            \* to the last one

vars == <<timer, cycles, request, history>>

Values == 0 .. Counter - 1
Modes  == [PS : Prescales, CLK : Clocks, ORI : BOOLEAN, FRR : BOOLEAN, RST : BOOLEAN]

None == -1   \* no match seen, or the counting was disturbed since

Off == [since |-> 0, ticks |-> 0, clean |-> FALSE, period |-> None, last |-> None]

Inc(v) == IF v + 1 = Counter THEN 0 ELSE v + 1   \* a 16-bit ++

-----------------------------------------------------------------------------
(* The device *)

Reset == [mode |-> [PS |-> 0, CLK |-> 0, ORI |-> FALSE, FRR |-> FALSE, RST |-> FALSE],
          TRR |-> Counter - 1, TCN |-> 0, REF |-> FALSE,
          enable |-> FALSE, perTick |-> 1, nextTick |-> 0]

PerTick(m) == IF m.CLK = 1 THEN m.PS + 1
              ELSE IF m.CLK = 2 THEN (m.PS + 1) * 16 ELSE 0

(* Faulty variant of WriteMode: the next tick is not set anew.             *)
WriteModeKeepsTick(t, m, now) ==
  LET base == IF t.mode.RST /\ ~m.RST THEN Reset ELSE t
      on   == m.CLK \in {1, 2} /\ m.RST
  IN  [base EXCEPT !.mode = m, !.perTick = PerTick(m), !.enable = on]

(* Write to TMR: RST going from 1 to 0 resets, the rest is taken over.     *)
WriteMode(t, m, now) ==
  LET base == IF t.mode.RST /\ ~m.RST THEN Reset ELSE t
      on   == m.CLK \in {1, 2} /\ m.RST
  IN  [base EXCEPT !.mode = m, !.perTick = PerTick(m), !.enable = on,
                   !.nextTick = IF on THEN (now + PerTick(m)) % Clock ELSE @]

(* Read of TMR: of the two bits of CLK only the upper one is returned.     *)
ReadMode(t) == [t.mode EXCEPT !.CLK = (@ \div 2) * 2]

Hit(t) == t.TCN = t.TRR

(* Faulty variant of Tick: the restarted counter is not incremented.       *)
TickNoIncrement(t) ==
  [t EXCEPT !.nextTick = (@ + t.perTick) % Clock,
            !.REF = Hit(t),
            !.TCN = IF Hit(t) /\ t.mode.FRR THEN 0 ELSE Inc(@)]

(* Faulty variant of Tick: the event stays until the program clears it.    *)
TickKeepsEvent(t) ==
  [t EXCEPT !.nextTick = (@ + t.perTick) % Clock,
            !.REF = @ \/ Hit(t),
            !.TCN = Inc(IF Hit(t) /\ t.mode.FRR THEN 0 ELSE @)]

Tick(t) ==
  [t EXCEPT !.nextTick = (@ + t.perTick) % Clock,
            !.REF = Hit(t),
            !.TCN = Inc(IF Hit(t) /\ t.mode.FRR THEN 0 ELSE @)]

Ticks(t, now) == t.enable /\ now >= t.nextTick

-----------------------------------------------------------------------------
(* What an instruction does to the timer before it is updated *)

WriteTMR(m)       == WriteMode(timer, m, cycles)
MaskTMR(on)       == WriteMode(timer, [ReadMode(timer) EXCEPT !.ORI = on], cycles)
WriteTRR(v)       == [timer EXCEPT !.TRR = v]
WriteTCN(v)       == [timer EXCEPT !.TCN = v]
WriteTER          == [timer EXCEPT !.REF = FALSE]

(* The rest of the step: cycles are added and the device is updated.  A    *)
(* timer that is off is not updated, its request stays as it is.           *)
Update(t, past, cost) ==
  LET now  == (cycles + cost) % Clock
      tick == Ticks(t, now)
      next == IF tick THEN Tick(t) ELSE t
      wrap == cycles + cost >= Clock \/ (tick /\ t.nextTick + t.perTick >= Clock)
      sure == past.clean /\ ~wrap
  IN  /\ cycles' = now
      /\ timer' = next
      /\ request' = IF t.enable THEN next.REF /\ next.mode.ORI ELSE request
      /\ history' = [past EXCEPT
           !.clean  = sure,
           !.since  = IF sure THEN @ ELSE 0,
           !.ticks  = IF ~sure THEN 0 ELSE IF tick THEN @ + 1 ELSE @,
           !.period = IF ~tick THEN @
                      ELSE IF Hit(t) THEN 0
                      ELSE IF @ = None THEN @ ELSE @ + 1,
           !.last   = IF tick /\ Hit(t) /\ past.period # None
                        THEN past.period + 1 ELSE @]

Disturbed == [history EXCEPT !.period = None, !.last = None]

(* Enabled anew: the schedule starts here, and may already wrap.           *)
Started(t) ==
  IF t.enable /\ cycles + t.perTick < Clock
    THEN [Off EXCEPT !.since = cycles, !.clean = TRUE] ELSE Off

Other(cost)          == Update(timer, history, cost)
SetMode(m, cost)     == Update(WriteTMR(m), Started(WriteTMR(m)), cost)
SetMask(on, cost)    == Update(MaskTMR(on), Started(MaskTMR(on)), cost)
SetTRR(v, cost)      == Update(WriteTRR(v), Disturbed, cost)
SetTCN(v, cost)      == Update(WriteTCN(v), Disturbed, cost)
ClearEvent(cost)     == Update(WriteTER, history, cost)

(* The user: Simulator::ZeroStats, and the reset of the board              *)
ZeroStats ==
  /\ cycles' = 0
  /\ history' = [history EXCEPT !.clean = FALSE, !.since = 0, !.ticks = 0]
  /\ UNCHANGED <<timer, request>>

BoardReset ==
  /\ timer' = Reset
  /\ request' = FALSE
  /\ history' = Off
  /\ UNCHANGED cycles

Init ==
  /\ timer = Reset
  /\ cycles = 0
  /\ request = FALSE
  /\ history = Off

Next ==
  \/ \E cost \in Costs :
       \/ Other(cost) \/ ClearEvent(cost)
       \/ \E m \in Modes : SetMode(m, cost)
       \/ \E on \in BOOLEAN : SetMask(on, cost)
       \/ \E v \in Values : SetTRR(v, cost) \/ SetTCN(v, cost)
  \/ ZeroStats \/ BoardReset

Spec == Init /\ [][Next]_vars

-----------------------------------------------------------------------------
(* Every register keeps its width, and the timer is on exactly when a      *)
(* clock is chosen and RST is set (Write and Update of SimpleTimer).       *)
TypeOK ==
  /\ timer \in [mode : [PS : Prescales \cup {0}, CLK : 0 .. 3, ORI : BOOLEAN,
                       FRR : BOOLEAN, RST : BOOLEAN],
                TRR : Values, TCN : Values, REF : BOOLEAN, enable : BOOLEAN,
                perTick : Nat, nextTick : 0 .. Clock - 1]
  /\ cycles \in 0 .. Clock - 1 /\ request \in BOOLEAN
  /\ timer.enable => /\ timer.perTick = PerTick(timer.mode) /\ timer.perTick > 0
                     /\ timer.mode.RST /\ timer.mode.CLK \in {1, 2}

(* As long as the cycle counter is neither zeroed nor wraps, the timer     *)
(* keeps to the schedule that began when it was enabled: it never ticks    *)
(* early, ticks do not drift however the instructions fall, and with no    *)
(* instruction longer than a tick it is never behind (Update, next_tick).  *)
OnSchedule ==
  timer.enable /\ history.clean =>
    /\ timer.nextTick = history.since + (history.ticks + 1) * timer.perTick
    /\ history.ticks * timer.perTick <= cycles - history.since
    /\ (\A c \in Costs : c <= timer.perTick) => cycles < timer.nextTick

(* Between two matches with nothing written in between lie TRR ticks when  *)
(* the counter restarts at a match (it restarts at 0 and is incremented by *)
(* the same tick), and a whole turn of the counter when it does not - or   *)
(* when TRR is 0, which the restarted counter has already left behind.     *)
PeriodIsReference ==
  history.last # None =>
    history.last = IF timer.mode.FRR /\ timer.TRR > 0 THEN timer.TRR ELSE Counter

(* An event is there for one tick only: the next tick that does not match  *)
(* takes it away, seen by the program or not (Update: TER.REF=0).          *)
EventIsFresh == timer.REF /\ history.period # None => history.period = 0
=============================================================================
