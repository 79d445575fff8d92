---------------------------- MODULE TimerProofs -----------------------------
(***************************************************************************)
(* Proofs about module Timer, for clocks and counters of any width, any    *)
(* prescales and any cost of the instructions.                             *)
(***************************************************************************)
EXTENDS Timer, TLAPS

(* Every write of a register is followed by Update in the same step, so    *)
(* what has to hold is stated of a timer t, a history h and a clock now.   *)

TimerTyped(t) ==
  /\ t \in [mode : [PS : Prescales \cup {0}, CLK : 0 .. 3, ORI : BOOLEAN,
                    FRR : BOOLEAN, RST : BOOLEAN],
            TRR : Values, TCN : Values, REF : BOOLEAN, enable : BOOLEAN,
            perTick : Nat, nextTick : 0 .. Clock - 1]
  /\ t.enable => /\ t.perTick = PerTick(t.mode) /\ t.perTick > 0
                 /\ t.mode.RST /\ t.mode.CLK \in {1, 2}

HistoryTyped(h) ==
  h \in [since : Nat, ticks : Nat, clean : BOOLEAN,
         period : Nat \cup {None}, last : Nat \cup {None}]

Scheduled(t, h, now) ==
  t.enable /\ h.clean =>
    /\ h.since <= now
    /\ t.nextTick = h.since + (h.ticks + 1) * t.perTick
    /\ h.ticks * t.perTick <= now - h.since
    /\ (\A c \in Costs : c <= t.perTick) => now < t.nextTick

(* Ticks from one match to the next                                        *)
Turn(t) == IF t.mode.FRR /\ t.TRR > 0 THEN t.TRR ELSE Counter

(* How far the counter has come since the last match                       *)
Counting(t, h) ==
  /\ h.period # None =>
       /\ h.period < Turn(t)
       /\ LET n == (IF t.mode.FRR THEN 0 ELSE t.TRR) + 1 + h.period
          IN  t.TCN = IF n >= Counter THEN n - Counter ELSE n
  /\ h.last # None => h.last = Turn(t)

Fresh(t, h) == t.REF /\ h.period # None => h.period = 0

Good(t, h, now) ==
  TimerTyped(t) /\ HistoryTyped(h) /\ Scheduled(t, h, now) /\ Counting(t, h) /\ Fresh(t, h)

IInv == cycles \in 0 .. Clock - 1 /\ request \in BOOLEAN /\ Good(timer, history, cycles)

-----------------------------------------------------------------------------

LEMMA Small == ASSUME NEW n \in Nat \ {0}, NEW v \in 0 .. n - 1 PROVE v % n = v
  OBVIOUS

LEMMA Bounded == ASSUME NEW n \in Nat \ {0}, NEW v \in Int PROVE v % n \in 0 .. n - 1
  OBVIOUS

LEMMA ResetGood == ASSUME NEW now \in Nat PROVE Good(Reset, Off, now)
<1>1. TimerTyped(Reset)
  BY ClockAssumption, CounterAssumption DEF TimerTyped, Reset, Values
<1>2. HistoryTyped(Off) /\ Counting(Reset, Off) /\ Fresh(Reset, Off) /\ Scheduled(Reset, Off, now)
  BY DEF HistoryTyped, Off, Counting, Fresh, Scheduled, Reset, None
<1>3. QED
  BY <1>1, <1>2 DEF Good

LEMMA IncTyped == ASSUME NEW v \in Values PROVE Inc(v) \in Values
  BY CounterAssumption DEF Values, Inc

(* A tick of the counter alone                                             *)
LEMMA TickCounts ==
  ASSUME NEW t, TimerTyped(t), NEW h, HistoryTyped(h), Counting(t, h),
         NEW g, HistoryTyped(g),
         g.period = IF Hit(t) THEN 0 ELSE IF h.period = None THEN None ELSE h.period + 1,
         g.last = IF Hit(t) /\ h.period # None THEN h.period + 1 ELSE h.last
  PROVE  Counting(Tick(t), g) /\ Fresh(Tick(t), g)
<1> DEFINE u == Tick(t)
<1>1. /\ t.TRR \in 0 .. Counter - 1 /\ t.TCN \in 0 .. Counter - 1 /\ Counter \in Nat /\ Counter > 1
      /\ t.mode.FRR \in BOOLEAN /\ h.period \in Nat \cup {None} /\ None = -1
  BY CounterAssumption DEF TimerTyped, HistoryTyped, Values, None
<1>2. /\ u.mode = t.mode /\ u.TRR = t.TRR /\ u.REF = Hit(t)
      /\ u.TCN = Inc(IF Hit(t) /\ t.mode.FRR THEN 0 ELSE t.TCN)
  BY DEF Tick, TimerTyped
<1> HIDE DEF u
<1>3. Turn(u) = Turn(t)
  BY <1>2 DEF Turn
<1>4. Fresh(u, g)
  BY <1>2 DEF Fresh
<1>5. CASE Hit(t)
  <2>1. g.period = 0 /\ t.TCN = t.TRR
    BY <1>5 DEF Hit
  <2>2. h.period # None => h.period + 1 = Turn(t)
    BY <1>1, <2>1 DEF Counting, Turn
  <2>3. g.last # None => g.last = Turn(u)
    BY <1>1, <1>3, <1>5, <2>2 DEF Counting
  <2>4. u.TCN = LET n == (IF u.mode.FRR THEN 0 ELSE u.TRR) + 1 + 0
                IN  IF n >= Counter THEN n - Counter ELSE n
    BY <1>1, <1>2, <1>5, <2>1 DEF Inc
  <2>5. g.period < Turn(u)
    BY <1>1, <1>2, <2>1 DEF Turn
  <2>6. QED
    BY <1>4, <2>1, <2>3, <2>4, <2>5 DEF Counting, u
<1>6. CASE ~Hit(t)
  <2>1. g.last = h.last /\ (g.last # None => g.last = Turn(u))
    BY <1>3, <1>6 DEF Counting
  <2>2. CASE h.period = None
    BY <1>4, <1>6, <2>1, <2>2 DEF Counting, u
  <2>3. CASE h.period # None
    <3>1. g.period = h.period + 1 /\ t.TCN # t.TRR /\ u.TCN = Inc(t.TCN) /\ h.period \in Nat
      BY <1>1, <1>2, <1>6, <2>3 DEF Hit
    <3>2. /\ h.period < Turn(t)
          /\ LET n == (IF t.mode.FRR THEN 0 ELSE t.TRR) + 1 + h.period
             IN  t.TCN = IF n >= Counter THEN n - Counter ELSE n
      BY <2>3 DEF Counting
    <3>3. g.period < Turn(u)
      BY <1>1, <1>3, <3>1, <3>2 DEF Turn
    <3>4. LET n == (IF u.mode.FRR THEN 0 ELSE u.TRR) + 1 + g.period
          IN  u.TCN = IF n >= Counter THEN n - Counter ELSE n
      BY <1>1, <1>2, <3>1, <3>2 DEF Turn, Inc
    <3>5. QED
      BY <1>4, <2>1, <3>3, <3>4 DEF Counting, u
  <2>4. QED
    BY <2>2, <2>3
<1>7. QED
  BY <1>5, <1>6

(* A tick of the schedule: the next is due one period later.               *)
LEMMA TickSchedules ==
  ASSUME NEW since \in Nat, NEW ticks \in Nat, NEW per \in Nat, NEW tick \in Nat, NEW now \in Nat,
         tick = since + (ticks + 1) * per, tick <= now
  PROVE  /\ tick + per = since + (ticks + 2) * per
         /\ (ticks + 1) * per <= now - since
<1>1. (ticks + 2) * per = (ticks + 1) * per + per /\ (ticks + 1) * per \in Nat
  OBVIOUS
<1>2. QED
  BY <1>1

LEMMA TickTyped == ASSUME NEW t, TimerTyped(t) PROVE TimerTyped(Tick(t))
<1>1. Inc(IF Hit(t) /\ t.mode.FRR THEN 0 ELSE t.TCN) \in Values
  BY IncTyped, CounterAssumption DEF TimerTyped, Values
<1>2. (t.nextTick + t.perTick) % Clock \in 0 .. Clock - 1
  BY Bounded, ClockAssumption DEF TimerTyped
<1>3. Hit(t) \in BOOLEAN
  BY DEF Hit
<1>4. Tick(t) = [t EXCEPT !.nextTick = (t.nextTick + t.perTick) % Clock, !.REF = Hit(t),
                          !.TCN = Inc(IF Hit(t) /\ t.mode.FRR THEN 0 ELSE t.TCN)]
  BY DEF Tick
<1>5. Tick(t).mode = t.mode /\ Tick(t).enable = t.enable /\ Tick(t).perTick = t.perTick
  BY <1>4 DEF TimerTyped
<1>6. QED
  BY <1>1, <1>2, <1>3, <1>4, <1>5 DEF TimerTyped

LEMMA UpdateGood ==
  ASSUME cycles \in 0 .. Clock - 1, request \in BOOLEAN, NEW t, NEW past, Good(t, past, cycles),
         NEW cost \in Costs, Update(t, past, cost)
  PROVE  IInv'
<1> DEFINE now  == (cycles + cost) % Clock
           tick == Ticks(t, now)
           next == IF tick THEN Tick(t) ELSE t
           wrap == cycles + cost >= Clock \/ (tick /\ t.nextTick + t.perTick >= Clock)
           sure == past.clean /\ ~wrap
<1>1. /\ TimerTyped(t) /\ HistoryTyped(past) /\ Scheduled(t, past, cycles)
      /\ Counting(t, past) /\ Fresh(t, past)
  BY DEF Good
<1>2. /\ cost \in Nat /\ Clock \in Nat \ {0} /\ cycles \in 0 .. Clock - 1
      /\ now \in 0 .. Clock - 1
  BY CostAssumption, ClockAssumption, Bounded
<1>3. /\ cycles' = now /\ timer' = next
      /\ request' = IF t.enable THEN next.REF /\ next.mode.ORI ELSE request
      /\ history' = [past EXCEPT
           !.clean = sure, !.since = IF sure THEN past.since ELSE 0,
           !.ticks = IF ~sure THEN 0 ELSE IF tick THEN past.ticks + 1 ELSE past.ticks,
           !.period = IF ~tick THEN past.period ELSE IF Hit(t) THEN 0
                      ELSE IF past.period = None THEN past.period ELSE past.period + 1,
           !.last = IF tick /\ Hit(t) /\ past.period # None THEN past.period + 1 ELSE past.last]
  BY DEF Update
<1>4. now = cycles + cost \/ wrap
  BY <1>2, Small
<1>5. sure \in BOOLEAN /\ tick \in BOOLEAN /\ Hit(t) \in BOOLEAN
  BY <1>1 DEF HistoryTyped, Ticks, TimerTyped, Hit
<1>6. TimerTyped(next)
  BY <1>1, TickTyped
<1>7. /\ next.enable = t.enable /\ next.perTick = t.perTick
      /\ next.nextTick = IF tick THEN (t.nextTick + t.perTick) % Clock ELSE t.nextTick
  BY <1>1 DEF Tick, TimerTyped
<1>8. request' \in BOOLEAN
  BY <1>3, <1>6 DEF TimerTyped
<1>9. /\ t.nextTick \in Nat /\ t.perTick \in Nat /\ t.enable \in BOOLEAN
      /\ past.since \in Nat /\ past.ticks \in Nat /\ past.period \in Nat \cup {None}
      /\ past.last \in Nat \cup {None}
  BY <1>1, <1>2 DEF TimerTyped, HistoryTyped
<1>10. wrap \in BOOLEAN
  BY <1>5
<1>11. tick => t.enable /\ now >= t.nextTick
  BY DEF Ticks
<1>12. t.enable /\ ~tick => now < t.nextTick
  BY <1>2, <1>9 DEF Ticks
<1>13. ~wrap => cycles + cost < Clock /\ (tick => t.nextTick + t.perTick < Clock)
  BY <1>2, <1>9
<1> HIDE DEF now, tick, wrap, sure, next
<1>14. /\ history'.clean = sure /\ history'.since = (IF sure THEN past.since ELSE 0)
       /\ history'.ticks = (IF ~sure THEN 0 ELSE IF tick THEN past.ticks + 1 ELSE past.ticks)
       /\ history'.period = (IF ~tick THEN past.period ELSE IF Hit(t) THEN 0
                             ELSE IF past.period = None THEN past.period ELSE past.period + 1)
       /\ history'.last = (IF tick /\ Hit(t) /\ past.period # None
                             THEN past.period + 1 ELSE past.last)
  BY <1>1, <1>3 DEF HistoryTyped
<1>15. HistoryTyped(history')
  <2> DEFINE since  == IF sure THEN past.since ELSE 0
             ticks  == IF ~sure THEN 0 ELSE IF tick THEN past.ticks + 1 ELSE past.ticks
             period == IF ~tick THEN past.period ELSE IF Hit(t) THEN 0
                       ELSE IF past.period = None THEN past.period ELSE past.period + 1
             last   == IF tick /\ Hit(t) /\ past.period # None
                       THEN past.period + 1 ELSE past.last
  <2>1. /\ since \in Nat /\ ticks \in Nat
        /\ period \in Nat \cup {None} /\ last \in Nat \cup {None}
    BY <1>5, <1>9
  <2>2. history' = [past EXCEPT !.clean = sure, !.since = since, !.ticks = ticks,
                                !.period = period, !.last = last]
    BY <1>3
  <2> HIDE DEF since, ticks, period, last
  <2>3. past \in [since : Nat, ticks : Nat, clean : BOOLEAN,
                  period : Nat \cup {None}, last : Nat \cup {None}]
    BY <1>1 DEF HistoryTyped
  <2>4. QED
    BY <1>5, <2>1, <2>2, <2>3 DEF HistoryTyped
<1>16. Counting(next, history') /\ Fresh(next, history')
  <2>1. CASE tick
    <3>1. history'.last = IF Hit(t) /\ past.period # None THEN past.period + 1 ELSE past.last
      BY <1>14, <2>1
    <3>2. history'.period = IF Hit(t) THEN 0 ELSE IF past.period = None THEN None
                            ELSE past.period + 1
      BY <1>14, <2>1
    <3>3. Counting(Tick(t), history') /\ Fresh(Tick(t), history')
      BY <1>1, <1>15, <3>1, <3>2, TickCounts
    <3>4. QED
      BY <2>1, <3>3 DEF next
  <2>2. CASE ~tick
    <3>1. next = t /\ history'.period = past.period /\ history'.last = past.last
      BY <1>14, <2>2 DEF next
    <3>2. QED
      BY <1>1, <3>1 DEF Counting, Fresh
  <2>3. QED
    BY <1>5, <2>1, <2>2
<1>17. Scheduled(next, history', now)
  <2>1. SUFFICES ASSUME t.enable, sure
        PROVE  /\ past.since <= now
               /\ next.nextTick = history'.since + (history'.ticks + 1) * t.perTick
               /\ history'.ticks * t.perTick <= now - past.since
               /\ (\A c \in Costs : c <= t.perTick) => now < next.nextTick
    BY <1>7, <1>14 DEF Scheduled
  <2>2. ~wrap /\ past.clean = TRUE
    BY <1>1, <2>1 DEF sure, HistoryTyped
  <2>3. now = cycles + cost /\ now < Clock /\ (tick => t.nextTick + t.perTick < Clock)
    BY <1>4, <1>13, <2>2
  <2>4. /\ past.since <= cycles
        /\ t.nextTick = past.since + (past.ticks + 1) * t.perTick
        /\ past.ticks * t.perTick <= cycles - past.since
        /\ (\A c \in Costs : c <= t.perTick) => cycles < t.nextTick
    BY <1>1, <2>1, <2>2 DEF Scheduled
  <2>5. (\A c \in Costs : c <= t.perTick) => now < t.nextTick + t.perTick
    BY <1>2, <1>9, <2>3, <2>4
  <2>6. past.ticks * t.perTick \in Nat
    BY <1>9
  <2>7. CASE tick
    <3>1. next.nextTick = t.nextTick + t.perTick
      <4>1. t.nextTick + t.perTick \in 0 .. Clock - 1
        BY <1>2, <1>9, <2>3, <2>7
      <4>2. (t.nextTick + t.perTick) % Clock = t.nextTick + t.perTick
        BY <1>2, <4>1, Small
      <4>3. QED
        BY <1>7, <2>7, <4>2
    <3>2. /\ t.nextTick + t.perTick = past.since + (past.ticks + 2) * t.perTick
          /\ (past.ticks + 1) * t.perTick <= now - past.since
      BY <1>2, <1>9, <1>11, <2>3, <2>4, <2>7, TickSchedules
    <3>3. history'.since = past.since /\ history'.ticks = past.ticks + 1
      BY <1>14, <2>1, <2>7
    <3>4. (past.ticks + 1) + 1 = past.ticks + 2
      BY <1>9
    <3>5. past.since <= now
      BY <1>2, <1>9, <2>3, <2>4
    <3>6. QED
      BY <2>5, <3>1, <3>2, <3>3, <3>4, <3>5
  <2>8. CASE ~tick
    <3>1. /\ next.nextTick = t.nextTick /\ now < t.nextTick
          /\ history'.since = past.since /\ history'.ticks = past.ticks
      BY <1>7, <1>12, <1>14, <2>1, <2>8
    <3>2. past.since <= now /\ past.ticks * t.perTick <= now - past.since
      BY <1>2, <1>9, <2>3, <2>4, <2>6
    <3>3. QED
      BY <2>4, <3>1, <3>2
  <2>9. QED
    BY <1>5, <2>7, <2>8
<1>18. QED
  BY <1>2, <1>3, <1>6, <1>8, <1>15, <1>16, <1>17 DEF IInv, Good

-----------------------------------------------------------------------------
(* The writes *)

LEMMA WriteModeTyped ==
  ASSUME NEW t, TimerTyped(t), NEW m \in Modes \cup [PS : Prescales \cup {0}, CLK : 0 .. 3,
                                                    ORI : BOOLEAN, FRR : BOOLEAN, RST : BOOLEAN],
         NEW now \in Nat
  PROVE  TimerTyped(WriteMode(t, m, now))
<1> DEFINE base == IF t.mode.RST /\ ~m.RST THEN Reset ELSE t
           on   == m.CLK \in {1, 2} /\ m.RST
<1>1. TimerTyped(base)
  BY ResetGood, SMT DEF Good
<1>2. m \in [PS : Prescales \cup {0}, CLK : 0 .. 3, ORI : BOOLEAN, FRR : BOOLEAN, RST : BOOLEAN]
  BY ClocksAssumption DEF Modes
<1>3. PerTick(m) \in Nat /\ (on => PerTick(m) > 0) /\ on \in BOOLEAN
  <2>1. m.PS \in Nat /\ m.CLK \in 0 .. 3 /\ m.RST \in BOOLEAN
    <3>1. m.PS \in Prescales \cup {0} /\ m.CLK \in 0 .. 3 /\ m.RST \in BOOLEAN
      BY <1>2
    <3>2. Prescales \cup {0} \subseteq Nat
      BY PrescaleAssumption
    <3>3. QED
      BY <3>1, <3>2
  <2>2. PerTick(m) \in Nat /\ (m.CLK \in {1, 2} => PerTick(m) > 0)
    BY <2>1 DEF PerTick
  <2>3. on \in BOOLEAN
    BY <2>1, Zenon
  <2>4. QED
    BY <2>2, <2>3
<1>4. (now + PerTick(m)) % Clock \in 0 .. Clock - 1
  BY <1>3, ClockAssumption, Bounded
<1> HIDE DEF base
<1>5. WriteMode(t, m, now)
        = [base EXCEPT !.mode = m, !.perTick = PerTick(m), !.enable = on,
                       !.nextTick = IF on THEN (now + PerTick(m)) % Clock ELSE base.nextTick]
  BY <1>1 DEF WriteMode, base, TimerTyped
<1> DEFINE w == WriteMode(t, m, now)
<1>6. w.mode = m /\ w.perTick = PerTick(m) /\ w.enable = on
  BY <1>1, <1>5 DEF TimerTyped
<1>7. w \in [mode : [PS : Prescales \cup {0}, CLK : 0 .. 3, ORI : BOOLEAN,
                     FRR : BOOLEAN, RST : BOOLEAN],
             TRR : Values, TCN : Values, REF : BOOLEAN, enable : BOOLEAN,
             perTick : Nat, nextTick : 0 .. Clock - 1]
  BY <1>1, <1>2, <1>3, <1>4, <1>5 DEF TimerTyped
<1>8. QED
  BY <1>3, <1>6, <1>7 DEF TimerTyped

(* A mode written starts a schedule.                                       *)
LEMMA StartedGood ==
  ASSUME cycles \in 0 .. Clock - 1, NEW t, TimerTyped(t),
         NEW m \in Modes \cup [PS : Prescales \cup {0}, CLK : 0 .. 3, ORI : BOOLEAN,
                               FRR : BOOLEAN, RST : BOOLEAN]
  PROVE  Good(WriteMode(t, m, cycles), Started(WriteMode(t, m, cycles)), cycles)
<1> DEFINE w == WriteMode(t, m, cycles)
           h == Started(w)
<1>1. cycles \in Nat /\ Clock \in Nat \ {0} /\ cycles < Clock
  BY ClockAssumption
<1>2. TimerTyped(w)
  BY <1>1, WriteModeTyped
<1>3. /\ w.perTick = PerTick(m)
      /\ w.enable => w.nextTick = (cycles + PerTick(m)) % Clock
  <2> DEFINE base == IF t.mode.RST /\ ~m.RST THEN Reset ELSE t
  <2>1. TimerTyped(base)
    BY ResetGood, SMT DEF Good
  <2> HIDE DEF base
  <2>2. w = [base EXCEPT !.mode = m, !.perTick = PerTick(m),
                         !.enable = m.CLK \in {1, 2} /\ m.RST,
                         !.nextTick = IF m.CLK \in {1, 2} /\ m.RST
                                        THEN (cycles + PerTick(m)) % Clock ELSE base.nextTick]
    BY <2>1 DEF WriteMode, base, TimerTyped
  <2>3. QED
    BY <2>1, <2>2 DEF TimerTyped
<1> HIDE DEF w
<1>4. HistoryTyped(h) /\ h.period = None /\ h.last = None
  BY <1>1 DEF Started, Off, HistoryTyped
<1>5. Counting(w, h) /\ Fresh(w, h)
  BY <1>4 DEF Counting, Fresh
<1>6. w.perTick \in Nat /\ (w.enable => w.perTick > 0)
  BY <1>2 DEF TimerTyped
<1>7. Scheduled(w, h, cycles)
  <2>1. SUFFICES ASSUME w.enable, h.clean
        PROVE  /\ h.since <= cycles
               /\ w.nextTick = h.since + (h.ticks + 1) * w.perTick
               /\ h.ticks * w.perTick <= cycles - h.since
               /\ cycles < w.nextTick
    BY DEF Scheduled
  <2>2. cycles + w.perTick < Clock /\ h.since = cycles /\ h.ticks = 0
    BY <2>1 DEF Started, Off
  <2>3. cycles + w.perTick \in 0 .. Clock - 1
    BY <1>1, <1>6, <2>2
  <2>4. w.nextTick = cycles + w.perTick
    BY <1>1, <1>3, <2>1, <2>3, Small
  <2>5. QED
    BY <1>1, <1>6, <2>1, <2>2, <2>4
<1>8. QED
  BY <1>2, <1>4, <1>5, <1>7 DEF Good, w

LEMMA InitHolds == Init => IInv
<1>1. 0 \in Nat /\ 0 \in 0 .. Clock - 1
  BY ClockAssumption
<1>2. QED
  BY <1>1, ResetGood DEF Init, IInv

LEMMA NextHolds == IInv /\ [Next]_vars => IInv'
<1> SUFFICES ASSUME IInv, [Next]_vars PROVE IInv'
  OBVIOUS
<1>1. /\ cycles \in 0 .. Clock - 1 /\ cycles \in Nat /\ request \in BOOLEAN
      /\ Clock \in Nat \ {0}
      /\ Good(timer, history, cycles) /\ TimerTyped(timer) /\ HistoryTyped(history)
      /\ Scheduled(timer, history, cycles) /\ Counting(timer, history) /\ Fresh(timer, history)
  BY ClockAssumption DEF IInv, Good
<1>2. ASSUME NEW cost \in Costs, Other(cost)
      PROVE  IInv'
  BY <1>1, <1>2, UpdateGood DEF Other
<1>3. ASSUME NEW cost \in Costs, ClearEvent(cost)
      PROVE  IInv'
  <2> DEFINE t == WriteTER
  <2>1. TimerTyped(t)
    BY <1>1 DEF WriteTER, TimerTyped
  <2>2. /\ t.REF = FALSE /\ t.enable = timer.enable /\ t.perTick = timer.perTick
        /\ t.nextTick = timer.nextTick /\ t.mode = timer.mode /\ t.TRR = timer.TRR
        /\ t.TCN = timer.TCN
    BY <1>1 DEF WriteTER, TimerTyped
  <2> HIDE DEF t
  <2>3. Scheduled(t, history, cycles)
    BY <1>1, <2>2 DEF Scheduled
  <2>4. Counting(t, history)
    BY <1>1, <2>2 DEF Counting, Turn
  <2>5. Fresh(t, history)
    BY <2>2 DEF Fresh
  <2>6. Good(t, history, cycles)
    BY <1>1, <2>1, <2>3, <2>4, <2>5 DEF Good
  <2>7. Update(t, history, cost)
    BY <1>3 DEF ClearEvent, t
  <2>8. QED
    BY <1>1, <2>6, <2>7, UpdateGood
<1>4. ASSUME NEW cost \in Costs, NEW m \in Modes, SetMode(m, cost)
      PROVE  IInv'
  <2>1. Good(WriteTMR(m), Started(WriteTMR(m)), cycles)
    BY <1>1, StartedGood DEF WriteTMR
  <2>2. QED
    BY <1>1, <1>4, <2>1, UpdateGood DEF SetMode
<1>5. ASSUME NEW cost \in Costs, NEW on \in BOOLEAN, SetMask(on, cost)
      PROVE  IInv'
  <2>1. [ReadMode(timer) EXCEPT !.ORI = on]
          \in [PS : Prescales \cup {0}, CLK : 0 .. 3, ORI : BOOLEAN, FRR : BOOLEAN, RST : BOOLEAN]
    <3>1. (timer.mode.CLK \div 2) * 2 \in 0 .. 3
      BY <1>1 DEF TimerTyped
    <3>2. QED
      BY <1>1, <3>1 DEF ReadMode, TimerTyped
  <2>2. Good(MaskTMR(on), Started(MaskTMR(on)), cycles)
    BY <1>1, <2>1, StartedGood DEF MaskTMR
  <2>3. QED
    BY <1>1, <1>5, <2>2, UpdateGood DEF SetMask
<1>6. ASSUME NEW cost \in Costs, NEW v \in Values, NEW t \in {WriteTRR(v), WriteTCN(v)},
             Update(t, Disturbed, cost)
      PROVE  IInv'
  <2>1. TimerTyped(t)
    BY <1>1 DEF WriteTRR, WriteTCN, TimerTyped
  <2>2. t.enable = timer.enable /\ t.perTick = timer.perTick /\ t.nextTick = timer.nextTick
    BY <1>1 DEF WriteTRR, WriteTCN, TimerTyped
  <2>3. /\ HistoryTyped(Disturbed) /\ Disturbed.period = None /\ Disturbed.last = None
        /\ Disturbed.clean = history.clean /\ Disturbed.since = history.since
        /\ Disturbed.ticks = history.ticks
    BY <1>1 DEF Disturbed, HistoryTyped
  <2>4. Scheduled(t, Disturbed, cycles)
    BY <1>1, <2>2, <2>3 DEF Scheduled
  <2>5. Counting(t, Disturbed) /\ Fresh(t, Disturbed)
    BY <2>3 DEF Counting, Fresh
  <2>6. Good(t, Disturbed, cycles)
    BY <2>1, <2>3, <2>4, <2>5 DEF Good
  <2>7. QED
    BY <1>1, <1>6, <2>6, UpdateGood
<1>7. CASE ZeroStats
  <2>1. /\ cycles' = 0 /\ timer' = timer /\ request' = request
        /\ history' = [history EXCEPT !.clean = FALSE, !.since = 0, !.ticks = 0]
    BY <1>7 DEF ZeroStats
  <2>2. /\ HistoryTyped(history') /\ history'.clean = FALSE
        /\ history'.period = history.period /\ history'.last = history.last
    BY <1>1, <2>1 DEF HistoryTyped
  <2>3. Scheduled(timer', history', cycles') /\ Counting(timer', history') /\ Fresh(timer', history')
    BY <1>1, <2>1, <2>2 DEF Scheduled, Counting, Fresh
  <2>4. QED
    BY <1>1, <2>1, <2>2, <2>3 DEF IInv, Good
<1>8. CASE BoardReset
  BY <1>1, <1>8, ResetGood DEF BoardReset, IInv
<1>9. CASE UNCHANGED vars
  BY <1>9 DEF vars, IInv, Good, TimerTyped, HistoryTyped, Scheduled, Counting, Fresh, Turn
<1>10. ASSUME NEW cost \in Costs, NEW v \in Values, SetTRR(v, cost) \/ SetTCN(v, cost)
       PROVE  IInv'
  BY <1>6, <1>10 DEF SetTRR, SetTCN
<1>11. QED
  BY <1>2, <1>3, <1>4, <1>5, <1>7, <1>8, <1>9, <1>10 DEF Next

-----------------------------------------------------------------------------
(* IInv is inductive.                                                      *)
THEOREM Invariance == Spec => []IInv
  BY InitHolds, NextHolds, PTL DEF Spec

(* The registers keep their width and the timer is on when a clock is      *)
(* chosen, for counters of any width (TypeOK).                             *)
THEOREM TypeCorrect == Spec => []TypeOK
<1>1. IInv => TypeOK
  BY DEF IInv, Good, TimerTyped, TypeOK
<1>2. QED
  BY <1>1, Invariance, PTL

(* Ticks come when they are due, however long the instructions are, until  *)
(* the cycle counter is zeroed or wraps (OnSchedule).                      *)
THEOREM TicksOnSchedule == Spec => []OnSchedule
<1>1. IInv => OnSchedule
  BY DEF IInv, Good, Scheduled, OnSchedule
<1>2. QED
  BY <1>1, Invariance, PTL

(* Between two matches lie TRR ticks, or a turn of the counter             *)
(* (PeriodIsReference).                                                    *)
THEOREM PeriodsAreTheReference == Spec => []PeriodIsReference
<1>1. IInv => PeriodIsReference
  BY DEF IInv, Good, Counting, Turn, PeriodIsReference
<1>2. QED
  BY <1>1, Invariance, PTL

(* A reference event does not outlive the next tick (EventIsFresh).        *)
THEOREM EventsAreFresh == Spec => []EventIsFresh
<1>1. IInv => EventIsFresh
  BY DEF IInv, Good, Fresh, EventIsFresh
<1>2. QED
  BY <1>1, Invariance, PTL
=============================================================================
