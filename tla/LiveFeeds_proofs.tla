--------------------------- MODULE LiveFeeds_proofs ---------------------------
(***************************************************************************)
(* Theorems of the live feed programs.                                     *)
(*                                                                         *)
(* LiveFeeds, for every market, generator and argument list of auto_self:  *)
(* a halted day stays without new positions, and there are never more of   *)
(* them than the cap.  Both rest on what the runner knows when it places:  *)
(* only its own pass adds to the registry, each time one of the signals    *)
(* the served feed had room for, so the rest of them may still be added.   *)
(*                                                                         *)
(* ProviderFeed: a filter at rest has written what the raw file gives.     *)
(* SignalCorrections: what is written without review can be traded.        *)
(* SignalText: the entries of a signal in order stay short of its stop.    *)
(***************************************************************************)
EXTENDS LiveFeeds, ProviderFeed, SignalCorrections, FiniteSetTheorems, WellFoundedInduction, TLAPS

Selfish == plan.program = "self"
TradedKeys == {x.key : x \in traded}
ServedKeys == {KeyOf(l) : l \in served}
Running == runner.pc # "idle"

\* The bars of a live chart.
LiveBars == {Bar(k, shape) : k \in Nat \ {0}, shape \in {Flat} \cup {plan.path[n] : n \in Nat}}

-----------------------------------------------------------------------------
(* The terminal's clock never runs backwards.                              *)

\* How many bars the terminal shows.
Shown == IF MarketOpen THEN Len(chart) + 1 ELSE Len(chart)

Charted ==
    /\ plan \in Plans
    /\ chart \in Seq(LiveBars) /\ Len(chart) <= Len(plan.path)
    /\ \A k \in DOMAIN chart : chart[k].time = plan.minutes[k]

LEMMA NextBarIsLive ==
    ASSUME Charted, NEW shape \in {Flat} \cup {plan.path[n] : n \in Nat}
    PROVE  /\ Bar(Len(chart) + 1, shape) \in LiveBars
           /\ Bar(Len(chart) + 1, shape).time = plan.minutes[Len(chart) + 1]
<1>1. Len(chart) + 1 \in Nat \ {0}
  BY DEF Charted
<1>2. Bar(Len(chart) + 1, shape) \in LiveBars
  BY <1>1 DEF LiveBars
<1>3. Bar(Len(chart) + 1, shape).time = plan.minutes[Len(chart) + 1]
  BY DEF Bar
<1> QED
  BY <1>2, <1>3

LEMMA ClockShown ==
    ASSUME Selfish, Charted, Terminal # <<>>
    PROVE  LastTime = plan.minutes[Shown] /\ Shown \in 1..Len(plan.path)
<1>1. Len(plan.path) \in Nat /\ Len(chart) \in Nat /\ Len(chart) <= Len(plan.path)
  BY LivePlansAssumption DEF Selfish, Charted
<1>2. CASE MarketOpen
  <2>1. /\ Bar(Len(chart) + 1, Flat) \in LiveBars
        /\ Bar(Len(chart) + 1, Flat).time = plan.minutes[Len(chart) + 1]
    BY NextBarIsLive
  <2>2. Terminal = Append(chart, Bar(Len(chart) + 1, Flat))
    BY <1>2 DEF Terminal, NextBar
  <2>3. Last(Terminal) = Bar(Len(chart) + 1, Flat)
    BY <2>1, <2>2 DEF Last, Charted
  <2>4. Shown = Len(chart) + 1 /\ Shown \in 1..Len(plan.path)
    BY <1>1, <1>2 DEF Shown, MarketOpen
  <2> QED
    BY <2>1, <2>3, <2>4 DEF LastTime
<1>3. CASE ~MarketOpen
  <2>1. Terminal = chart /\ Shown = Len(chart)
    BY <1>3 DEF Terminal, Shown
  <2>2. Len(chart) \in DOMAIN chart
    BY <2>1 DEF Charted
  <2>3. Shown \in 1..Len(plan.path)
    BY <1>1, <2>1, <2>2 DEF Charted
  <2> QED
    BY <2>1, <2>2, <2>3 DEF LastTime, Last, Charted
<1> QED
  BY <1>2, <1>3

LEMMA ClockShows ==
    Selfish /\ Charted /\ Terminal # <<>> =>
        LastTime = plan.minutes[Shown] /\ Shown \in 1..Len(plan.path)
  BY ClockShown

\* A later minute is not on an earlier day.
LEMMA DaysPass ==
    ASSUME NEW a \in Nat, NEW b \in Nat, a <= b
    PROVE  DayOf(a) \in Nat /\ DayOf(a) <= DayOf(b)
  BY ClockAssumption, SMTT(60) DEF DayOf

LEMMA MoreIsLater ==
    ASSUME Selfish, plan \in Plans, NEW j \in 1..Len(plan.path), NEW k \in 1..Len(plan.path), j <= k
    PROVE  /\ plan.minutes[j] \in Nat /\ plan.minutes[k] \in Nat
           /\ plan.minutes[j] <= plan.minutes[k]
  BY LivePlansAssumption DEF Selfish

-----------------------------------------------------------------------------
(* The invariant.                                                          *)

\* The guard file is never ahead of the clock, and knows of its own day's halt.
Guarded ==
    /\ DOMAIN guard = {"date", "start", "halted"} /\ guard.date \in Int /\ guard.halted \in BOOLEAN
    /\ guard.date = Never \/ (Terminal # <<>> /\ guard.date <= DayOf(LastTime))
Remembered ==
    \A d \in halts : d \in Nat /\ d <= guard.date /\ (d = guard.date => guard.halted)

\* What the runner's pass knows: of the day's halt, and of the room for new signals.
Warned == Running /\ DayOf(runner.now) \in halts => runner.block
Room ==
    /\ runner.pc \in {"idle", "generate", "archive", "auto", "register"}
    /\ DOMAIN runner = {"pc", "now", "block", "keyed", "key"}
    /\ runner.pc \in {"archive", "auto", "register"} =>
           /\ runner.block => ServedKeys \subseteq registry
           /\ IsFiniteSet(ServedKeys \ registry)
           /\ Cardinality(ServedKeys \ registry) <= plan.cap - Cardinality(registry)
    /\ runner.pc = "register" => runner.key \in (ServedKeys \ registry) \cap TradedKeys

\* The registry is a part of what was traded, and holds no more than the cap; what is at the
\* broker is in it, unless its pass is about to add it or was killed before it could.
Pending == IF runner.pc = "register" THEN {runner.key} ELSE {}
Booked ==
    /\ registry \subseteq TradedKeys
    /\ IsFiniteSet(registry) /\ Cardinality(registry) <= plan.cap
    /\ open \ lost \subseteq registry \cup Pending

Inv ==
    /\ plan \in Plans
    /\ ~Selfish => open = {} /\ traded = {}
    /\ Selfish => Charted /\ Guarded /\ Room /\ Booked
    /\ Selfish /\ ~plan.torn => Remembered /\ Warned /\ HaltAlwaysKept

LEMMA InitHolds == LiveInit => Inv
<1> SUFFICES ASSUME LiveInit PROVE Inv
  OBVIOUS
<1>1. plan \in Plans /\ plan.cap \in Nat
  BY LivePlansAssumption DEF LiveInit
<1>2. /\ registry = {} /\ open = {} /\ traded = {} /\ halts = {}
      /\ guard = NoGuard /\ runner = FreshRunner
  BY DEF LiveInit
<1>3. Remembered /\ Warned /\ HaltAlwaysKept
  BY <1>2 DEF Remembered, Warned, HaltAlwaysKept
<1>4. Guarded /\ Room
  BY <1>2 DEF Guarded, Room, NoGuard, FreshRunner, Never
<1>5. Booked
  BY <1>1, <1>2, FS_EmptySet DEF Booked
<1>6. ASSUME Selfish PROVE Charted
  <2>1. plan.warm \in Nat /\ Len(plan.path) \in Nat /\ plan.warm <= Len(plan.path)
    BY <1>1, <1>6, LivePlansAssumption DEF Selfish
  <2>2. \A k \in 1..plan.warm : Bar(k, plan.path[k]) \in LiveBars
    BY <2>1 DEF LiveBars
  <2>3. chart = [k \in 1..plan.warm |-> Bar(k, plan.path[k])]
    BY DEF LiveInit
  <2>4. chart \in Seq(LiveBars)
    BY <2>1, <2>2, <2>3
  <2>5. \A k \in DOMAIN chart : chart[k].time = plan.minutes[k]
    BY <2>3 DEF Bar
  <2>6. Len(chart) = plan.warm
    BY <2>1, <2>3
  <2> QED
    BY <1>1, <2>1, <2>4, <2>5, <2>6 DEF Charted
<1> QED
  BY <1>1, <1>2, <1>3, <1>4, <1>5, <1>6 DEF Inv

-----------------------------------------------------------------------------
(* The market                                                              *)

LEMMA BarKeepsChart ==
    ASSUME Inv, Selfish, BarForms
    PROVE  /\ Charted' /\ Terminal' # <<>>
           /\ Terminal # <<>> => LastTime \in Nat /\ LastTime' \in Nat /\ LastTime <= LastTime'
<1>1. /\ Charted /\ Len(plan.path) \in Nat /\ Len(chart) \in Nat /\ Len(chart) < Len(plan.path)
      /\ Selfish' /\ plan' = plan
  BY LivePlansAssumption DEF Inv, Charted, Selfish, BarForms, MarketOpen
<1>2. plan.path[Len(chart) + 1] \in {Flat} \cup {plan.path[n] : n \in Nat}
  BY <1>1
<1> DEFINE b == Bar(Len(chart) + 1, plan.path[Len(chart) + 1])
<1>3. b \in LiveBars /\ b.time = plan.minutes[Len(chart) + 1]
  BY <1>1, <1>2, NextBarIsLive
<1>4. chart' = Append(chart, b)
  BY DEF BarForms, NextBar
<1>5. LiveBars' = LiveBars
  BY <1>1 DEF LiveBars, Bar, PriceAfter
<1> HIDE DEF b
<1>6. /\ chart' \in Seq(LiveBars) /\ Len(chart') = Len(chart) + 1
      /\ \A k \in DOMAIN chart : chart'[k] = chart[k]
      /\ chart'[Len(chart) + 1] = b /\ DOMAIN chart' = DOMAIN chart \cup {Len(chart) + 1}
  BY <1>1, <1>3, <1>4 DEF Charted
<1>7. ASSUME NEW k \in DOMAIN chart' PROVE chart'[k].time = plan.minutes[k]
  <2>1. CASE k \in DOMAIN chart
    BY <1>1, <1>6, <2>1 DEF Charted
  <2>2. CASE k = Len(chart) + 1
    BY <1>3, <1>6, <2>2
  <2> QED
    BY <1>6, <2>1, <2>2
<1>8. Charted'
  BY <1>1, <1>5, <1>6, <1>7 DEF Charted
<1>9. Terminal' # <<>>
  BY <1>3, <1>5, <1>6, <1>8, NextBarIsLive DEF Terminal, NextBar, Charted
<1>10. ASSUME Terminal # <<>>
       PROVE  LastTime \in Nat /\ LastTime' \in Nat /\ LastTime <= LastTime'
  <2>1. LastTime = plan.minutes[Shown] /\ Shown \in 1..Len(plan.path) /\ Shown = Len(chart) + 1
    <3>1. Shown = Len(chart) + 1
      BY DEF Shown, BarForms
    <3> QED
      BY <1>1, <1>10, <3>1, ClockShown
  <2>2. LastTime' = plan.minutes[Shown'] /\ Shown' \in 1..Len(plan.path)
    <3>1. (Selfish /\ Charted /\ Terminal # <<>> =>
              LastTime = plan.minutes[Shown] /\ Shown \in 1..Len(plan.path))'
      BY ClockShows, PTL
    <3> QED
      BY <1>1, <1>8, <1>9, <3>1
  <2>3. Shown' \in {Len(chart) + 1, Len(chart) + 2}
    BY <1>1, <1>6 DEF Shown
  <2>4. Shown <= Shown'
    BY <1>1, <2>1, <2>3
  <2> QED
    BY <1>1, <2>1, <2>2, <2>4, MoreIsLater DEF Charted
<1> QED
  BY <1>8, <1>9, <1>10

\* A new bar moves the clock, which the guard is only compared with.
LEMMA BarKeepsInv ==
    ASSUME Inv, BarForms
    PROVE  Inv'
<1>1. /\ plan' = plan /\ guard' = guard /\ halts' = halts /\ runner' = runner
      /\ registry' = registry /\ open' = open /\ traded' = traded /\ lost' = lost
      /\ served' = served
  BY DEF BarForms, selfVars, bookVars
<1>2. ASSUME Selfish PROVE Charted' /\ Guarded'
  <2>1. Charted' /\ Terminal' # <<>>
    BY <1>2, BarKeepsChart
  <2>2. guard.date = Never \/ (guard.date <= DayOf(LastTime) /\ DayOf(LastTime) <= DayOf(LastTime)'
                                 /\ DayOf(LastTime) \in Nat /\ DayOf(LastTime)' \in Nat)
    <3>1. CASE Terminal # <<>>
      <4>1. LastTime \in Nat /\ LastTime' \in Nat /\ LastTime <= LastTime'
        BY <1>2, <3>1, BarKeepsChart
      <4>2. /\ DayOf(LastTime) \in Nat /\ DayOf(LastTime) <= DayOf(LastTime')
            /\ DayOf(LastTime') \in Nat
        BY <4>1, DaysPass
      <4> QED
        BY <1>2, <4>2 DEF Inv, Guarded, DayOf
    <3> QED
      BY <1>2, <3>1 DEF Inv, Guarded
  <2>3. guard.date \in Int
    BY <1>2 DEF Inv, Guarded
  <2>4. guard.date = Never \/ guard.date <= DayOf(LastTime)'
    BY <2>2, <2>3
  <2> QED
    BY <1>1, <1>2, <2>1, <2>4 DEF Inv, Guarded, DayOf
<1> QED
  BY <1>1, <1>2 DEF Inv, Selfish, Remembered, Warned, Running, Room, Booked, Pending, ServedKeys,
     TradedKeys, KeyOf, HaltAlwaysKept

-----------------------------------------------------------------------------
(* The runner                                                              *)

LEMMA TodayIsADay ==
    ASSUME Inv, Selfish, Terminal # <<>>
    PROVE  DayOf(LastTime) \in Nat
<1>1. Charted /\ plan \in Plans
  BY DEF Inv, Charted
<1>2. LastTime = plan.minutes[Shown] /\ Shown \in 1..Len(plan.path)
  BY <1>1, ClockShown
<1>3. LastTime \in Nat
  BY <1>1, <1>2, LivePlansAssumption DEF Selfish
<1> QED
  BY <1>3, DaysPass

\* The guard of the day: a halt of today is remembered, and yesterday's is not today's.
LEMMA GuardIsOfToday ==
    ASSUME Guarded, NEW equity, NEW e, e = EvaluateGuards(equity)
    PROVE  /\ DOMAIN e = {"date", "start", "halted"} /\ e.date = DayOf(LastTime)
           /\ e.halted \in BOOLEAN
           /\ guard.date = DayOf(LastTime) /\ guard.halted => e.halted
<1> DEFINE g == GuardFor(DayOf(LastTime), equity)
           low == equity <= g.start - plan.maxLoss
<1>1. /\ DOMAIN g = {"date", "start", "halted"} /\ g.date = DayOf(LastTime)
      /\ g.halted \in BOOLEAN
      /\ guard.date = DayOf(LastTime) => g.halted = guard.halted
  BY DEF GuardFor, Guarded
<1>2. e = [g EXCEPT !.halted = g.halted \/ low]
  BY DEF EvaluateGuards
<1> HIDE DEF g, low
<1>3. e.halted = (g.halted \/ low) /\ e.date = g.date /\ DOMAIN e = DOMAIN g
  BY <1>1, <1>2
<1> QED
  BY <1>1, <1>3

LEMMA ChartStands ==
    ASSUME plan' = plan, chart' = chart
    PROVE  Terminal' = Terminal /\ LastTime' = LastTime /\ Charted' = Charted
  BY DEF Terminal, LastTime, MarketOpen, NextBar, Bar, PriceAfter, Charted, LiveBars

LEMMA GuardsKeepInv ==
    ASSUME Inv, Selfish, Guards
    PROVE  Inv'
<1> DEFINE today == DayOf(LastTime)
<1>1. PICK equity \in plan.equities, wide \in plan.spreads :
          /\ guard' = EvaluateGuards(equity)
          /\ halts' = halts \cup (IF guard'.halted THEN {today} ELSE {})
          /\ runner' = [FreshRunner EXCEPT !.pc = "generate", !.now = LastTime,
                                           !.block = guard'.halted \/ wide]
  BY DEF Guards
<1>2. /\ plan' = plan /\ chart' = chart /\ served' = served /\ registry' = registry
      /\ open' = open /\ traded' = traded /\ lost' = lost
      /\ Terminal # <<>> /\ runner.pc = "idle"
  BY DEF Guards, loopVars, bookVars
<1>3. today \in Nat
  BY <1>2, TodayIsADay
<1>4. Guarded
  BY DEF Inv
<1>5. /\ DOMAIN guard' = {"date", "start", "halted"} /\ guard'.date = today
      /\ guard'.halted \in BOOLEAN /\ (guard.date = today /\ guard.halted => guard'.halted)
  BY <1>1, <1>4, GuardIsOfToday
<1>6. Terminal' = Terminal /\ LastTime' = LastTime /\ Charted' = Charted
  BY <1>2, ChartStands
<1> HIDE DEF today
<1>7. Guarded'
  BY <1>2, <1>3, <1>5, <1>6 DEF Guarded, today, DayOf
<1>10. /\ runner'.pc = "generate" /\ runner'.now = LastTime /\ (guard'.halted => runner'.block)
       /\ DOMAIN runner' = {"pc", "now", "block", "keyed", "key"}
  BY <1>1 DEF FreshRunner
<1>8. Room' /\ Booked'
  BY <1>2, <1>10 DEF Inv, Room, Booked, Pending, TradedKeys
<1>9. ASSUME ~plan.torn PROVE Remembered' /\ Warned' /\ HaltAlwaysKept'
  <2>1. \A d \in halts : d \in Nat /\ d <= guard.date /\ (d = guard.date => guard.halted)
    BY <1>9 DEF Inv, Remembered
  <2>2. guard.date \in Int /\ (guard.date = Never \/ guard.date <= today)
    BY <1>4 DEF Guarded, today
  <2>3. ASSUME NEW d \in halts PROVE d <= today /\ (d = today => guard'.halted)
    <3>1. d \in Nat /\ d <= guard.date /\ guard.date # Never
      BY <2>1, <2>2 DEF Never
    <3>2. guard.date <= today
      BY <2>2, <3>1
    <3>3. d <= today
      BY <1>3, <2>2, <3>1, <3>2
    <3>4. d = today => guard.date = today
      BY <1>3, <2>2, <3>1, <3>2
    <3> QED
      BY <1>5, <2>1, <3>3, <3>4
  <2>4. \A d \in halts' : d \in Nat /\ d <= today /\ (d = today => guard'.halted)
    BY <1>1, <1>3, <2>1, <2>3
  <2>5. Remembered'
    BY <1>5, <2>4 DEF Remembered
  <2>7. Warned'
    BY <1>10, <2>4 DEF Warned, today, DayOf
  <2>8. HaltAlwaysKept'
    BY <1>2, <1>9 DEF Inv, HaltAlwaysKept
  <2> QED
    BY <2>5, <2>7, <2>8
<1> QED
  BY <1>2, <1>6, <1>7, <1>8, <1>9 DEF Inv, Selfish

\* A line of the feed carries the key it was written for.
LEMMA KeysServed ==
    ASSUME NEW s, NEW keys
    PROVE  {KeyOf(l) : l \in ServedFeed(Keyed(s), keys)} \subseteq keys
<1> DEFINE k == Keyed(s)
<1>1. SUFFICES ASSUME NEW l \in ServedFeed(k, keys) PROVE KeyOf(l) \in keys
  OBVIOUS
<1>2. PICK y \in Range(k) : y.key \in keys /\ l = SelfLine(y)
  BY <1>1 DEF ServedFeed
<1>3. PICK n \in DOMAIN k : y = k[n]
  BY <1>2 DEF Range
<1>4. PICK day, rank : y.key = <<day, rank>>
  BY <1>3 DEF Keyed
<1>5. KeyOf(l) = <<y.key[1], y.key[2]>>
  BY <1>2 DEF SelfLine, Line, KeyOf
<1> QED
  BY <1>2, <1>4, <1>5

\* Beside what is placed the feed gets at most the signals there is room for, and none
\* on a blocked pass.
LEMMA RoomIsKept ==
    ASSUME NEW keyed, NEW now, NEW block, NEW r \in Nat,
           NEW keys, keys = Selected(keyed, now, block, r)
    PROVE  /\ block => keys \subseteq registry
           /\ IsFiniteSet(keys \ registry) /\ Cardinality(keys \ registry) <= r
<1> DEFINE newest == NewestFirst(keyed, now)
           f == [n \in 1..r |-> keyed[newest[n]].key]
           T == {f[n] : n \in 1..r}
           old == {keyed[k].key : k \in {j \in DOMAIN keyed : keyed[j].key \in registry}}
           new == {keyed[newest[n]].key : n \in {n \in 1..r : ~block /\ n \in DOMAIN newest}}
<1>1. keys = old \cup new
  BY DEF Selected
<1>2. old \subseteq registry
  OBVIOUS
<1>3. new \subseteq T /\ (block => new = {})
  OBVIOUS
<1>4. IsFiniteSet(1..r) /\ Cardinality(1..r) <= r
  <2>1. 1 \in Int /\ r \in Int
    OBVIOUS
  <2>2. IsFiniteSet(1..r) /\ Cardinality(1..r) = IF 1 > r THEN 0 ELSE r - 1 + 1
    BY <2>1, FS_Interval
  <2> QED
    BY <2>2
<1>5. f \in Surjection(1..r, T)
  BY DEF Surjection
<1> HIDE DEF f, T, old, new
<1>6. IsFiniteSet(T) /\ Cardinality(T) <= Cardinality(1..r)
  BY <1>4, <1>5, FS_Surjection
<1>7. keys \ registry \in SUBSET T
  BY <1>1, <1>2, <1>3
<1>8. /\ IsFiniteSet(keys \ registry) /\ Cardinality(keys \ registry) <= Cardinality(T)
  BY <1>6, <1>7, FS_Subset
<1>9. Cardinality(keys \ registry) \in Nat /\ Cardinality(T) \in Nat /\ Cardinality(1..r) \in Nat
  BY <1>4, <1>6, <1>8, FS_CardinalityType
<1>10. Cardinality(keys \ registry) <= r
  BY <1>4, <1>6, <1>8, <1>9
<1> QED
  BY <1>1, <1>2, <1>3, <1>8, <1>10

LEMMA RegenerateKeepsInv ==
    ASSUME Inv, Selfish, Regenerate
    PROVE  Inv'
<1> DEFINE s == InWindow(SelfFromM1(Window, plan), runner.now)
           keys == SelectAllowedKeys(Keyed(s), runner.now, runner.block)
<1>1. served' = ServedFeed(Keyed(s), keys)
  BY DEF Regenerate
<1>2. /\ plan' = plan /\ chart' = chart /\ guard' = guard /\ registry' = registry
      /\ open' = open /\ traded' = traded /\ lost' = lost /\ halts' = halts
      /\ runner.pc = "generate"
      /\ runner' = [runner EXCEPT !.pc = "archive", !.keyed = Keyed(s)]
  BY DEF Regenerate, bookVars
<1>3. plan.cap \in Nat /\ IsFiniteSet(registry) /\ Cardinality(registry) <= plan.cap
  BY LivePlansAssumption DEF Inv, Booked
<1>4. Cardinality(registry) \in Nat
  BY <1>3, FS_CardinalityType
<1>5. plan.cap - Cardinality(registry) \in Nat
  BY <1>3, <1>4
<1>6. /\ runner.block => keys \subseteq registry
      /\ IsFiniteSet(keys \ registry)
      /\ Cardinality(keys \ registry) <= plan.cap - Cardinality(registry)
  BY <1>5, RoomIsKept DEF SelectAllowedKeys
<1>7. ServedKeys' \subseteq keys
  BY <1>1, KeysServed DEF ServedKeys
<1> HIDE DEF keys, s
<1>8. ServedKeys' \ registry \in SUBSET (keys \ registry)
  BY <1>7
<1>9. /\ IsFiniteSet(ServedKeys' \ registry)
      /\ Cardinality(ServedKeys' \ registry) <= Cardinality(keys \ registry)
  BY <1>6, <1>8, FS_Subset
<1>10. Cardinality(ServedKeys' \ registry) <= plan.cap - Cardinality(registry)
  <2>1. Cardinality(ServedKeys' \ registry) \in Nat /\ Cardinality(keys \ registry) \in Nat
    BY <1>6, <1>9, FS_CardinalityType
  <2> QED
    BY <1>5, <1>6, <1>9, <2>1
<1>11. /\ runner'.pc = "archive" /\ runner'.now = runner.now /\ runner'.block = runner.block
       /\ DOMAIN runner' = {"pc", "now", "block", "keyed", "key"}
  BY <1>2 DEF Inv, Room
<1>13. Room'
  <2>1. runner.block => ServedKeys' \subseteq registry'
    BY <1>2, <1>6, <1>7
  <2>2. /\ IsFiniteSet(ServedKeys' \ registry')
        /\ Cardinality(ServedKeys' \ registry') <= plan'.cap - Cardinality(registry')
    BY <1>2, <1>9, <1>10
  <2> QED
    BY <1>11, <2>1, <2>2 DEF Room
<1>14. Booked'
  BY <1>2, <1>11 DEF Inv, Booked, Pending, TradedKeys
<1>15. Charted' /\ Guarded'
  BY <1>2, ChartStands DEF Inv, Guarded, DayOf
<1>16. ASSUME ~plan.torn PROVE Remembered' /\ Warned' /\ HaltAlwaysKept'
  BY <1>2, <1>11, <1>16 DEF Inv, Remembered, Warned, Running, HaltAlwaysKept
<1> QED
  BY <1>2, <1>13, <1>14, <1>15, <1>16 DEF Inv, Selfish

\* The archive is written between the feed and the pass that places it.
LEMMA ArchiveSignalsKeepsInv ==
    ASSUME Inv, Selfish, ArchiveSignals
    PROVE  Inv'
<1>1. /\ plan' = plan /\ chart' = chart /\ guard' = guard /\ registry' = registry
      /\ open' = open /\ traded' = traded /\ lost' = lost /\ halts' = halts /\ served' = served
      /\ runner.pc = "archive" /\ runner' = [runner EXCEPT !.pc = "auto", !.keyed = <<>>]
  BY DEF ArchiveSignals, bookVars
<1>2. /\ runner'.pc = "auto" /\ runner'.now = runner.now /\ runner'.block = runner.block
      /\ DOMAIN runner' = {"pc", "now", "block", "keyed", "key"}
  BY <1>1 DEF Inv, Room
<1>3. ServedKeys' = ServedKeys
  BY <1>1 DEF ServedKeys, KeyOf
<1>4. Room' /\ Booked'
  BY <1>1, <1>2, <1>3 DEF Inv, Room, Booked, Pending, TradedKeys
<1>5. Charted' /\ Guarded'
  BY <1>1, ChartStands DEF Inv, Guarded, DayOf
<1>6. ASSUME ~plan.torn PROVE Remembered' /\ Warned' /\ HaltAlwaysKept'
  BY <1>1, <1>2, <1>6 DEF Inv, Remembered, Warned, Running, HaltAlwaysKept
<1> QED
  BY <1>1, <1>4, <1>5, <1>6 DEF Inv, Selfish

\* What is placed was neither placed before nor on a blocked pass.
LEMMA PlaceKeepsInv ==
    ASSUME Inv, Selfish, Place
    PROVE  Inv'
<1> DEFINE late == DayOf(runner.now) \in halts
<1>1. PICK k \in ServedKeys \ TradedKeys :
          /\ open' = open \cup {k}
          /\ traded' = traded \cup {[key |-> k, late |-> late]}
          /\ runner' = [runner EXCEPT !.pc = "register", !.key = k]
  BY DEF Place, ServedKeys, TradedKeys
<1>2. /\ plan' = plan /\ chart' = chart /\ guard' = guard /\ registry' = registry
      /\ lost' = lost /\ halts' = halts /\ served' = served /\ runner.pc = "auto"
  BY DEF Place
<1>3. /\ runner'.pc = "register" /\ runner'.now = runner.now /\ runner'.block = runner.block
      /\ runner'.key = k /\ DOMAIN runner' = {"pc", "now", "block", "keyed", "key"}
  BY <1>1, <1>2 DEF Inv, Room
<1>4. ServedKeys' = ServedKeys
  BY <1>2 DEF ServedKeys, KeyOf
<1> DEFINE new == [key |-> k, late |-> late]
<1>5. new.key = k /\ new.late = late /\ traded' = traded \cup {new}
  BY <1>1
<1> HIDE DEF new
<1>6. TradedKeys' = TradedKeys \cup {k}
  BY <1>5 DEF TradedKeys
<1>7. registry \subseteq TradedKeys /\ open \ lost \subseteq registry
  BY <1>2 DEF Inv, Booked, Pending
<1>8. k \in ServedKeys \ registry
  BY <1>1, <1>7
<1>9. Room'
  BY <1>2, <1>3, <1>4, <1>6, <1>8 DEF Inv, Room
<1>10. Booked'
  <2>1. Pending' = {k}
    BY <1>3 DEF Pending
  <2>2. open' \ lost' \subseteq registry' \cup {k}
    BY <1>1, <1>2, <1>7
  <2> QED
    BY <1>2, <1>6, <1>7, <2>1, <2>2 DEF Inv, Booked
<1>11. Charted' /\ Guarded'
  BY <1>2, ChartStands DEF Inv, Guarded, DayOf
<1>12. ASSUME ~plan.torn PROVE Remembered' /\ Warned' /\ HaltAlwaysKept'
  <2>1. ~runner.block
    BY <1>2, <1>8 DEF Inv, Room
  <2>2. ~late
    BY <1>2, <1>12, <2>1 DEF Inv, Warned, Running
  <2>3. HaltAlwaysKept'
    BY <1>5, <1>12, <2>2 DEF Inv, HaltAlwaysKept
  <2> QED
    BY <1>2, <1>3, <1>12, <2>3 DEF Inv, Remembered, Warned, Running
<1> QED
  BY <1>2, <1>9, <1>10, <1>11, <1>12 DEF Inv, Selfish

\* Registering a signal takes one of the places that were left for it.
LEMMA RegisterKeepsInv ==
    ASSUME Inv, Selfish, Register
    PROVE  Inv'
<1> DEFINE k == runner.key
           left == ServedKeys \ registry
<1>1. /\ plan' = plan /\ chart' = chart /\ guard' = guard /\ open' = open /\ traded' = traded
      /\ lost' = lost /\ halts' = halts /\ served' = served /\ runner.pc = "register"
      /\ registry' = registry \cup {k}
      /\ runner' = [runner EXCEPT !.pc = "auto", !.key = NoKey]
  BY DEF Register
<1>2. /\ runner'.pc = "auto" /\ runner'.now = runner.now /\ runner'.block = runner.block
      /\ DOMAIN runner' = {"pc", "now", "block", "keyed", "key"}
  BY <1>1 DEF Inv, Room
<1>3. ServedKeys' = ServedKeys /\ TradedKeys' = TradedKeys
  BY <1>1 DEF ServedKeys, KeyOf, TradedKeys
<1>4. /\ runner.block => ServedKeys \subseteq registry
      /\ IsFiniteSet(left) /\ Cardinality(left) <= plan.cap - Cardinality(registry)
      /\ k \in left /\ k \in TradedKeys /\ k \notin registry
  BY <1>1 DEF Inv, Room
<1>5. /\ registry \subseteq TradedKeys /\ IsFiniteSet(registry) /\ plan.cap \in Nat
      /\ open \ lost \subseteq registry \cup {k}
  BY <1>1, LivePlansAssumption DEF Inv, Booked, Pending
<1> HIDE DEF k, left
<1>6. IsFiniteSet(registry') /\ Cardinality(registry') = Cardinality(registry) + 1
  BY <1>1, <1>4, <1>5, FS_AddElement
<1>7. IsFiniteSet(left \ {k}) /\ Cardinality(left \ {k}) = Cardinality(left) - 1
  BY <1>4, FS_RemoveElement
<1>8. /\ Cardinality(left) \in Nat /\ Cardinality(registry) \in Nat
      /\ Cardinality(left \ {k}) \in Nat
  BY <1>4, <1>5, <1>7, FS_CardinalityType
<1>9. ServedKeys' \ registry' = left \ {k}
  BY <1>1, <1>3 DEF left
<1>10. Room'
  <2>1. Cardinality(left \ {k}) <= plan'.cap - Cardinality(registry')
    BY <1>1, <1>4, <1>5, <1>6, <1>7, <1>8
  <2>2. runner'.block => ServedKeys' \subseteq registry'
    BY <1>1, <1>2, <1>3, <1>4
  <2> QED
    BY <1>2, <1>7, <1>9, <2>1, <2>2 DEF Room
<1>11. Booked'
  <2>1. Cardinality(registry') <= plan'.cap
    BY <1>1, <1>4, <1>5, <1>6, <1>7, <1>8
  <2>2. registry' \subseteq TradedKeys'
    BY <1>1, <1>3, <1>4, <1>5
  <2>3. open' \ lost' \subseteq registry'
    BY <1>1, <1>5
  <2> QED
    BY <1>6, <2>1, <2>2, <2>3 DEF Booked
<1>12. Charted' /\ Guarded'
  BY <1>1, ChartStands DEF Inv, Guarded, DayOf
<1>13. ASSUME ~plan.torn PROVE Remembered' /\ Warned' /\ HaltAlwaysKept'
  BY <1>1, <1>2, <1>13 DEF Inv, Remembered, Warned, Running, HaltAlwaysKept
<1> QED
  BY <1>1, <1>10, <1>11, <1>12, <1>13 DEF Inv, Selfish

\* What is at the broker stays registered when the rest is dropped.
LEMMA PruneKeepsInv ==
    ASSUME Inv, Selfish, Prune
    PROVE  Inv'
<1>1. /\ plan' = plan /\ chart' = chart /\ guard' = guard /\ open' = open /\ traded' = traded
      /\ lost' = lost /\ halts' = halts /\ served' = served /\ runner.pc = "auto"
      /\ registry' = registry \cap open /\ runner' = FreshRunner
  BY DEF Prune
<1>2. /\ registry \subseteq TradedKeys /\ IsFiniteSet(registry) /\ plan.cap \in Nat
      /\ Cardinality(registry) <= plan.cap /\ open \ lost \subseteq registry
  BY <1>1, LivePlansAssumption DEF Inv, Booked, Pending
<1>3. registry' \in SUBSET registry
  BY <1>1
<1>4. IsFiniteSet(registry') /\ Cardinality(registry') <= Cardinality(registry)
  BY <1>2, <1>3, FS_Subset
<1>5. Cardinality(registry') \in Nat /\ Cardinality(registry) \in Nat
  BY <1>2, <1>4, FS_CardinalityType
<1>6. Booked'
  <2>1. Cardinality(registry') <= plan'.cap
    BY <1>1, <1>2, <1>4, <1>5
  <2>2. registry' \subseteq TradedKeys' /\ open' \ lost' \subseteq registry'
    BY <1>1, <1>2 DEF TradedKeys
  <2> QED
    BY <1>4, <2>1, <2>2 DEF Booked
<1>7. Room' /\ Warned'
  BY <1>1 DEF Room, Warned, Running, FreshRunner
<1>8. Charted' /\ Guarded'
  BY <1>1, ChartStands DEF Inv, Guarded, DayOf
<1> QED
  BY <1>1, <1>6, <1>7, <1>8 DEF Inv, Selfish, Remembered, HaltAlwaysKept

LEMMA SignalEndsKeepsInv ==
    ASSUME Inv, Selfish, SignalEnds
    PROVE  Inv'
<1>1. /\ plan' = plan /\ chart' = chart /\ guard' = guard /\ traded' = traded
      /\ registry' = registry /\ runner' = runner
      /\ lost' = lost /\ halts' = halts /\ served' = served /\ open' \subseteq open
  BY DEF SignalEnds
<1>2. Charted' /\ Guarded'
  BY <1>1, ChartStands DEF Inv, Guarded, DayOf
<1>3. /\ ServedKeys' = ServedKeys /\ TradedKeys' = TradedKeys /\ Pending' = Pending
      /\ open' \ lost' \subseteq open \ lost
  BY <1>1 DEF ServedKeys, KeyOf, TradedKeys, Pending
<1>4. Room' /\ Booked'
  BY <1>1, <1>3 DEF Inv, Room, Booked
<1> QED
  BY <1>1, <1>2, <1>4 DEF Inv, Selfish, Remembered, Warned, Running, HaltAlwaysKept

\* A killed runner forgets its pass, and loses the signal it had not registered yet; a torn
\* guard file is the hypothesis' exception.
LEMMA KillsKeepInv ==
    ASSUME Inv, Selfish, TornGuard \/ RunnerKilled
    PROVE  Inv'
<1>1. /\ plan' = plan /\ chart' = chart /\ halts' = halts /\ registry' = registry
      /\ open' = open /\ traded' = traded /\ served' = served
  BY DEF TornGuard, RunnerKilled, bookVars
<1>2. CASE TornGuard
  <2>1. runner' = runner /\ lost' = lost /\ guard' = NoGuard /\ plan.torn
    BY <1>2 DEF TornGuard, bookVars
  <2>2. Charted' /\ Guarded'
    BY <1>1, <2>1, ChartStands DEF Inv, Guarded, NoGuard, Never
  <2> QED
    BY <1>1, <2>1, <2>2 DEF Inv, Selfish, Room, Booked, Pending, ServedKeys, KeyOf, TradedKeys
<1>3. CASE RunnerKilled
  <2>1. runner' = FreshRunner /\ guard' = guard /\ lost' = lost \cup Pending
    BY <1>3 DEF RunnerKilled, Pending
  <2>2. Charted' /\ Guarded'
    BY <1>1, <2>1, ChartStands DEF Inv, Guarded, DayOf
  <2>3. Room' /\ Warned' /\ Pending' = {}
    BY <2>1 DEF Room, Warned, Running, FreshRunner, Pending
  <2>4. open' \ lost' \subseteq registry'
    BY <1>1, <2>1 DEF Inv, Booked
  <2>5. Booked'
    BY <1>1, <2>3, <2>4 DEF Inv, Booked, TradedKeys
  <2>6. ASSUME ~plan.torn PROVE Remembered' /\ HaltAlwaysKept'
    BY <1>1, <2>1, <2>6 DEF Inv, Remembered, HaltAlwaysKept
  <2> QED
    BY <1>1, <2>2, <2>3, <2>5, <2>6 DEF Inv, Selfish
<1> QED
  BY <1>2, <1>3

-----------------------------------------------------------------------------
(* The theorems                                                            *)

\* Every other program leaves auto_self's files alone.
LEMMA OthersKeepInv ==
    ASSUME Inv, ~Selfish, LiveNext
    PROVE  Inv'
<1>1. plan' = plan /\ open' = open /\ traded' = traded
  <2>1. CASE plan.program = "replay" /\ Next /\ UNCHANGED <<loopVars, selfVars, faults>>
    BY <2>1 DEF Next, BarCloses, selfVars, bookVars
  <2>2. CASE BarForms
    BY <2>2 DEF BarForms, selfVars, bookVars
  <2>3. CASE LoopStep
    BY <2>3 DEF LoopStep, Poll, Fetch, Generate, AnnounceNew, selfVars, bookVars
  <2>4. CASE PassFails \/ LoopKilled
    BY <2>4 DEF PassFails, LoopKilled, selfVars, bookVars
  <2> QED
    BY <2>1, <2>2, <2>3, <2>4 DEF LiveNext, Selfish
<1> QED
  BY <1>1 DEF Inv, Selfish

LEMMA StepKeepsInv == Inv /\ [LiveNext]_live => Inv'
<1> SUFFICES ASSUME Inv, [LiveNext]_live PROVE Inv'
  OBVIOUS
<1>1. CASE UNCHANGED live
  <2>1. /\ plan' = plan /\ chart' = chart /\ guard' = guard /\ halts' = halts /\ runner' = runner
        /\ registry' = registry /\ open' = open /\ traded' = traded /\ lost' = lost
        /\ served' = served
    BY <1>1 DEF live
  <2>2. Selfish => Charted' /\ Guarded'
    BY <2>1, ChartStands DEF Inv, Guarded, DayOf
  <2> QED
    BY <2>1, <2>2 DEF Inv, Selfish, Remembered, Warned, Running, Room, Booked, Pending, ServedKeys,
       KeyOf, TradedKeys, HaltAlwaysKept
<1>2. CASE LiveNext /\ ~Selfish
  BY <1>2, OthersKeepInv
<1>3. CASE LiveNext /\ Selfish
  <2>1. \/ BarForms \/ Guards \/ Regenerate \/ ArchiveSignals \/ Place \/ Register \/ Prune
        \/ SignalEnds \/ TornGuard \/ RunnerKilled
    BY <1>3 DEF LiveNext, Selfish, SelfStep
  <2> QED
    BY <1>3, <2>1, BarKeepsInv, GuardsKeepInv, RegenerateKeepsInv, ArchiveSignalsKeepsInv,
       PlaceKeepsInv, RegisterKeepsInv, PruneKeepsInv, SignalEndsKeepsInv, KillsKeepInv
<1> QED
  BY <1>1, <1>2, <1>3

\* However the market moves, orders end, passes fail and the runner is killed between reading
\* the registry, writing the feed, placing a signal and registering it, the broker holds no
\* more signals than the cap allows, those apart whose pass was killed between the last two.
THEOREM CapHolds == LiveSpec => []CapIsKept
<1>1. Inv => CapIsKept
  <2> SUFFICES ASSUME Inv PROVE CapIsKept
    OBVIOUS
  <2>1. CASE ~Selfish
    <3>1. open \ lost = {} /\ plan.cap \in Nat
      BY <2>1, LivePlansAssumption DEF Inv
    <3> QED
      BY <3>1, FS_EmptySet DEF CapIsKept
  <2>2. CASE Selfish
    <3> DEFINE held == registry \cup Pending
    <3>1. /\ IsFiniteSet(registry) /\ Cardinality(registry) <= plan.cap /\ plan.cap \in Nat
          /\ open \ lost \in SUBSET held
      BY <2>2, LivePlansAssumption DEF Inv, Booked
    <3>2. IsFiniteSet(held) /\ Cardinality(held) <= plan.cap
      <4>1. CASE runner.pc = "register"
        <5> DEFINE left == ServedKeys \ registry
        <5>1. /\ IsFiniteSet(left) /\ Cardinality(left) <= plan.cap - Cardinality(registry)
              /\ runner.key \in left /\ runner.key \notin registry
          BY <2>2, <4>1 DEF Inv, Room
        <5> HIDE DEF left
        <5>2. Cardinality(left \ {runner.key}) = Cardinality(left) - 1 /\ IsFiniteSet(left \ {runner.key})
          BY <5>1, FS_RemoveElement
        <5>3. /\ Cardinality(left \ {runner.key}) \in Nat /\ Cardinality(left) \in Nat
              /\ Cardinality(registry) \in Nat
          BY <3>1, <5>1, <5>2, FS_CardinalityType
        <5>4. held = registry \cup {runner.key}
          BY <4>1 DEF Pending
        <5>5. IsFiniteSet(held) /\ Cardinality(held) = Cardinality(registry) + 1
          BY <3>1, <5>1, <5>4, FS_AddElement
        <5> QED
          BY <3>1, <5>1, <5>2, <5>3, <5>5
      <4>2. CASE runner.pc # "register"
        BY <3>1, <4>2 DEF Pending
      <4> QED
        BY <4>1, <4>2
    <3> HIDE DEF held
    <3>3. IsFiniteSet(open \ lost) /\ Cardinality(open \ lost) <= Cardinality(held)
      BY <3>1, <3>2, FS_Subset
    <3>4. Cardinality(open \ lost) \in Nat /\ Cardinality(held) \in Nat
      BY <3>2, <3>3, FS_CardinalityType
    <3> QED
      BY <3>1, <3>2, <3>3, <3>4 DEF CapIsKept
  <2> QED
    BY <2>1, <2>2
<1> QED
  BY <1>1, InitHolds, StepKeepsInv, PTL DEF LiveSpec

\* Once a guard has halted a day nothing is placed on it, over recoveries of the equity,
\* failed passes, kills and a clock that moves while a pass runs, unless the guard's file
\* may be torn.
THEOREM HaltHolds == LiveSpec => []HaltIsKept
<1>1. Inv => HaltIsKept
  BY DEF Inv, HaltIsKept, HaltAlwaysKept
<1> QED
  BY <1>1, InitHolds, StepKeepsInv, PTL DEF LiveSpec

-----------------------------------------------------------------------------
(* The provider filter                                                     *)

\* The files and the filter as far as the argument needs them.
FilterShape ==
    /\ {"lines", "stamp", "posts", "edits", "restarts"} \subseteq DOMAIN raw
    /\ {"pc", "first", "last", "mtime", "kept"} \subseteq DOMAIN filter
    /\ raw.stamp \in Nat

\* What the filter has read, or has written and believes current, is the file of a
\* modification time it noted before: it is out of date only if a later write shows.
Current(stamp, feedThen) == stamp \in Nat /\ stamp <= raw.stamp
                            /\ (stamp = raw.stamp => feedThen = RunOnce(rule, raw.lines))
FilterInv ==
    /\ FilterShape
    /\ filter.pc = "stat" => filter.first \/ Current(filter.last, filtered)
    /\ filter.pc \in {"read", "write"} => filter.mtime \in Nat /\ filter.mtime <= raw.stamp
    /\ filter.pc = "write" => Current(filter.mtime, filter.kept)
    /\ filter.pc \in {"stat", "read", "write"}

\* A write to the raw file dates everything the filter holds.
LEMMA RawWritten ==
    ASSUME FilterInv, FilterShape', raw'.stamp = raw.stamp + 1, UNCHANGED <<filter, filtered>>
    PROVE  FilterInv'
<1>1. \A stamp, kept : Current(stamp, kept) => Current(stamp, kept)'
  BY DEF FilterInv, FilterShape, Current
<1> QED BY <1>1 DEF FilterInv, FilterShape

LEMMA FilterInvKept == ASSUME FilterInv, [ProviderNext]_provider PROVE FilterInv'
<1>1. CASE UNCHANGED provider
  BY <1>1 DEF provider, FilterInv, FilterShape, Current
<1>2. ASSUME NEW t \in PostTimes, NEW s \in Messages, Post(t, s) PROVE FilterInv'
  <2>1. PICK lines : raw' = [Written(lines) EXCEPT !.posts = Append(@, t)]
    BY <1>2 DEF Post
  <2>2. FilterShape' /\ raw'.stamp = raw.stamp + 1
    BY <1>2, <2>1 DEF FilterInv, FilterShape, Post, Written
  <2> QED BY <1>2, <2>2, RawWritten DEF Post
<1>3. ASSUME NEW lines, Edit(lines) PROVE FilterInv'
  <2>2. FilterShape' /\ raw'.stamp = raw.stamp + 1
    BY <1>3 DEF FilterInv, FilterShape, Edit, Written
  <2> QED BY <1>3, <2>2, RawWritten DEF Edit
<1>4. CASE Stat
  BY <1>4 DEF Stat, FilterInv, FilterShape
<1>5. CASE Read
  <2>1. /\ UNCHANGED <<rule, raw, filtered>> /\ filter.pc = "read"
        /\ filter' = [filter EXCEPT !.pc = "write", !.kept = RunOnce(rule, raw.lines)]
    BY <1>5 DEF Read
  <2>2. /\ filter'.pc = "write" /\ filter'.mtime = filter.mtime
        /\ filter'.kept = RunOnce(rule, raw.lines)
    BY <1>5, <2>1 DEF FilterInv, FilterShape, Read
  <2> QED BY <2>1, <2>2 DEF FilterInv, FilterShape, Current
<1>6. CASE Write
  <2>1. UNCHANGED <<rule, raw>> /\ filtered' = filter.kept /\ filter.pc = "write"
        /\ filter' = [FreshFilter EXCEPT !.first = FALSE, !.last = filter.mtime]
    BY <1>6 DEF Write
  <2>2. FilterShape' /\ filter'.pc = "stat" /\ filter'.last = filter.mtime
    BY <2>1 DEF FilterInv, FilterShape, FreshFilter
  <2>3. Current(filter.mtime, filter.kept)
    BY <2>1 DEF FilterInv
  <2>4. Current(filter.last, filtered)'
    BY <2>1, <2>2, <2>3 DEF Current
  <2> QED BY <2>2, <2>4 DEF FilterInv
<1>7. CASE Restart
  BY <1>7 DEF Restart, FilterInv, FilterShape, FreshFilter
<1>8. ASSUME NEW k, NEW s, Amend(k, s) PROVE FilterInv'
  BY <1>3, <1>8 DEF Amend
<1>9. ASSUME NEW k, Revoke(k) PROVE FilterInv'
  BY <1>3, <1>9 DEF Revoke
<1> QED BY <1>1, <1>2, <1>4, <1>5, <1>6, <1>7, <1>8, <1>9 DEF ProviderNext, FilterStep

\* Whenever the watching filter has nothing to do, the feed that is traded is what the raw
\* file now gives, however posts, edits and restarts fell between its three steps
\* (watch_loop); LiveIsBacktest is then a property of RunOnce alone.
THEOREM SettledFeedIsTheFile ==
    ProviderInit(Rules) /\ [][ProviderNext]_provider
        => [](Settled => filtered = RunOnce(rule, raw.lines))
<1>1. ProviderInit(Rules) => FilterInv
  BY DEF ProviderInit, FilterInv, FilterShape, FreshFilter
<1>2. FilterInv => (Settled => filtered = RunOnce(rule, raw.lines))
  BY DEF FilterInv, Settled, FilterReady, Current
<1> QED BY <1>1, <1>2, FilterInvKept, PTL

-----------------------------------------------------------------------------
(* The listener's corrections                                              *)

LEMMA LeastElement ==
    ASSUME NEW S \in SUBSET Nat, S # {}
    PROVE  \E m \in S : \A n \in S : m <= n
<1> DEFINE R == OpToRel(<, Nat)
<1>1. \A x, y \in Nat : <<x, y>> \in R <=> x < y
  BY DEF OpToRel
<1>2. \E x \in S : \A y \in S : <<y, x>> \notin R
  BY NatLessThanWellFounded, WFMin
<1> HIDE DEF R
<1>3. PICK x \in S : \A y \in S : <<y, x>> \notin R
  BY <1>2
<1>4. \A y \in S : x \in Nat /\ y \in Nat /\ ~(y < x)
  BY <1>1, <1>3
<1> QED BY <1>4

LEMMA Induct ==
    ASSUME NEW S, 0 \in S, \A n \in Nat : n \in S => n + 1 \in S
    PROVE  Nat \subseteq S
<1> SUFFICES ASSUME Nat \ S # {} PROVE FALSE
  OBVIOUS
<1>1. PICK m \in Nat \ S : \A n \in Nat \ S : m <= n
  BY LeastElement
<1>2. m # 0 /\ m - 1 \in Nat
  BY <1>1
<1>3. m - 1 \in S /\ m = (m - 1) + 1
  BY <1>1, <1>2
<1> QED BY <1>1, <1>2, <1>3

\* Of any numbered things there is a first among those that are best under f, then g.
LEMMA BestExists ==
    ASSUME NEW D \in SUBSET Nat, D # {}, NEW f \in [D -> Nat], NEW g \in [D -> Nat]
    PROVE  \E i \in D : \A j \in D : \/ f[i] < f[j]
                                     \/ f[i] = f[j] /\ g[i] < g[j]
                                     \/ f[i] = f[j] /\ g[i] = g[j] /\ i <= j
<1>1. PICK i1 \in D : \A j \in D : f[i1] <= f[j]
  <2> DEFINE S == {f[i] : i \in D}
  <2>1. S \in SUBSET Nat /\ S # {}
    OBVIOUS
  <2>2. PICK m \in S : \A n \in S : m <= n
    BY <2>1, LeastElement
  <2>3. PICK i \in D : m = f[i]
    OBVIOUS
  <2>4. \A j \in D : f[j] \in S
    OBVIOUS
  <2> HIDE DEF S
  <2> QED BY <2>2, <2>3, <2>4
<1> DEFINE D2 == {j \in D : f[j] = f[i1]}
<1>2. PICK i2 \in D2 : \A j \in D2 : g[i2] <= g[j]
  <2> DEFINE S == {g[i] : i \in D2}
  <2>1. S \in SUBSET Nat /\ S # {}
    OBVIOUS
  <2>2. PICK m \in S : \A n \in S : m <= n
    BY <2>1, LeastElement
  <2>3. PICK i \in D2 : m = g[i]
    OBVIOUS
  <2>4. \A j \in D2 : g[j] \in S
    OBVIOUS
  <2> HIDE DEF S
  <2> QED BY <2>2, <2>3, <2>4
<1> DEFINE D3 == {j \in D2 : g[j] = g[i2]}
<1>3. PICK i3 \in D3 : \A j \in D3 : i3 <= j
  <2>1. D3 \in SUBSET Nat /\ D3 # {}
    OBVIOUS
  <2> QED BY <2>1, LeastElement
<1>4. ASSUME NEW j \in D
      PROVE  \/ f[i3] < f[j]
             \/ f[i3] = f[j] /\ g[i3] < g[j]
             \/ f[i3] = f[j] /\ g[i3] = g[j] /\ i3 <= j
  <2>1. f[i3] = f[i1] /\ g[i3] = g[i2] /\ f[i3] \in Nat /\ f[j] \in Nat /\ g[i3] \in Nat /\ g[j] \in Nat
    OBVIOUS
  <2>2. CASE f[j] # f[i1]
    BY <1>1, <2>1, <2>2
  <2>3. CASE f[j] = f[i1] /\ g[j] # g[i2]
    BY <1>2, <2>1, <2>3
  <2>4. CASE f[j] = f[i1] /\ g[j] = g[i2]
    BY <1>3, <2>1, <2>4
  <2> QED BY <2>2, <2>3, <2>4
<1>5. i3 \in D
  OBVIOUS
<1> QED BY <1>4, <1>5

\* A signal with whole prices.
Levels(s) ==
    /\ {"side", "r1", "r2", "sl", "tp"} \subseteq DOMAIN s
    /\ s.side \in {"BUY", "SELL"} /\ s.r1 \in Int /\ s.r2 \in Int /\ s.sl \in Int
    /\ s.tp \in [1..3 -> Int]

LEMMA TwoPrices ==
    ASSUME NEW a \in Int, NEW b \in Int
    PROVE  /\ Max({a, b}) = IF a >= b THEN a ELSE b
           /\ Min({a, b}) = IF a <= b THEN a ELSE b
<1> DEFINE big == IF a >= b THEN a ELSE b
           small == IF a <= b THEN a ELSE b
<1>1. big \in {a, b} /\ (\A y \in {a, b} : big >= y) /\ \A x \in {a, b} : (\A y \in {a, b} : x >= y) => x = big
  OBVIOUS
<1>2. small \in {a, b} /\ (\A y \in {a, b} : small <= y) /\ \A x \in {a, b} : (\A y \in {a, b} : x <= y) => x = small
  OBVIOUS
<1> HIDE DEF big, small
<1>3. Max({a, b}) = big
  BY <1>1 DEF Max
<1>4. Min({a, b}) = small
  BY <1>2 DEF Min
<1> QED BY <1>3, <1>4 DEF big, small

\* The candidate nearest to a price is one of the candidates.
LEMMA NearestExists ==
    ASSUME NEW V \in SUBSET Nat, V # {}, NEW current \in Int, NEW anchor \in Int
    PROVE  \E c \in V : \A e \in V :
              \/ Distance(c, current) < Distance(e, current)
              \/ Distance(c, current) = Distance(e, current) /\ Distance(c, anchor) < Distance(e, anchor)
              \/ Distance(c, current) = Distance(e, current) /\ Distance(c, anchor) = Distance(e, anchor) /\ c <= e
<1> DEFINE f == [c \in V |-> Distance(c, current)]
           g == [c \in V |-> Distance(c, anchor)]
<1>1. f \in [V -> Nat] /\ g \in [V -> Nat]
  BY DEF Distance
<1>2. \A c \in V : f[c] = Distance(c, current) /\ g[c] = Distance(c, anchor)
  OBVIOUS
<1> HIDE DEF f, g
<1>3. \E c \in V : \A e \in V :
          \/ f[c] < f[e]
          \/ f[c] = f[e] /\ g[c] < g[e]
          \/ f[c] = f[e] /\ g[c] = g[e] /\ c <= e
  BY <1>1, BestExists
<1> QED BY <1>2, <1>3

LEMMA CandidatesAreWhole ==
    ASSUME NEW current \in Int, NEW anchor \in Int
    PROVE  CandidatePrices(current, anchor) \in SUBSET Nat
<1>1. One \in Nat \ {0} /\ Dollars(100) \in Nat \ {0} /\ \A n \in Int : Dollars(n) \in Int
  BY TypingAssumption DEF Dollars
<1> DEFINE whole == current \div One
           base  == (anchor \div Dollars(100)) * 100
           wholes == IF current % One # 0 THEN {}
                     ELSE OneDigitLess(whole) \cup {base + 100 * k + (whole % 100) : k \in -6..6}
<1>2. whole \in Int /\ base \in Int /\ whole % 100 \in Int
  BY <1>1
<1>3. LevelSteps \subseteq Int
  <2>1. One \div 2 \in Int
    BY <1>1
  <2> QED BY <2>1 DEF LevelSteps
<1> HIDE DEF whole, base
<1>4. OneDigitLess(whole) \subseteq Int
  <2>1. Tens \subseteq Nat \ {0}
    BY DEF Tens
  <2>2. \A t \in Nat \ {0} : (whole \div (10 * t)) * t + (whole % t) \in Int
    <3> TAKE t \in Nat \ {0}
    <3>1. 10 * t \in Nat \ {0}
      OBVIOUS
    <3>2. (whole \div (10 * t)) \in Int /\ whole % t \in Int
      BY <1>2, <3>1
    <3> QED BY <3>2
  <2> QED BY <2>1, <2>2 DEF OneDigitLess
<1>5. wholes \subseteq Int
  BY <1>2, <1>4
<1> HIDE DEF wholes
<1>6. {Dollars(p) : p \in wholes} \subseteq Int
  BY <1>1, <1>5
<1>7. {current + step : step \in LevelSteps} \subseteq Int /\ {current - step : step \in LevelSteps} \subseteq Int
  BY <1>3
<1>8. CandidatePrices(current, anchor) =
        {c \in {current} \cup {current + step : step \in LevelSteps}
               \cup {current - step : step \in LevelSteps} \cup {Dollars(p) : p \in wholes} : c > 0}
  BY DEF CandidatePrices, wholes, whole, base
<1> QED BY <1>6, <1>7, <1>8

LEMMA RangeIsChosen ==
    ASSUME NEW s, Levels(s), Distance(s.r1, s.r2) >= One
    PROVE  /\ Levels(ChooseRange(s))
           /\ Distance(ChooseRange(s).r1, ChooseRange(s).r2) >= One
<1> DEFINE away(r1) == IF s.side = "BUY" THEN <<r1 - Dollars(2), r1 + Dollars(2)>>
                                        ELSE <<r1 + Dollars(2), r1 - Dollars(2)>>
           shifted(x) == <<<<s.r1 + x, s.r2 + x>>, <<s.r1 + x, away(s.r1 + x)[1]>>,
                           <<s.r1 + x, away(s.r1 + x)[2]>>>>
           Pair(i) == IF i = 1 THEN <<s.r1, s.r2>>
                      ELSE shifted(RangeShifts[(i + 1) \div 3])[1 + ((i + 1) % 3)]
           pairs == [i \in 1..34 |-> Pair(i)]
           score(p) == <<LogicErrorCount([s EXCEPT !.r1 = p[1], !.r2 = p[2]]),
                         Distance(p[1], s.r1) + Distance(p[2], s.r2)>>
           best == FirstBest(pairs, score)
<1>1. One \in Nat \ {0} /\ \A n \in Int : Dollars(n) \in Int
  BY TypingAssumption DEF Dollars
<1>2. /\ s.r1 \in Int /\ s.r2 \in Int /\ Dollars(2) = 2 * One
      /\ s.side \in {"BUY", "SELL"}
  BY DEF Levels, Dollars
<1>3. ASSUME NEW i \in 1..34
      PROVE  /\ Pair(i)[1] \in Int /\ Pair(i)[2] \in Int
             /\ Distance(Pair(i)[1], Pair(i)[2]) >= One
  <2>1. CASE i = 1
    BY <1>2, <2>1
  <2>2. CASE i # 1
    <3>1. (i + 1) \div 3 \in 1..11 /\ 1 + ((i + 1) % 3) \in 1..3
      BY <2>2
    <3> DEFINE x == RangeShifts[(i + 1) \div 3]
               m == 1 + ((i + 1) % 3)
    <3>2. x \in Int
      <4>1. \A k \in 1..11 : RangeShifts[k] \in Int
        BY <1>1 DEF RangeShifts, Dollars
      <4> QED BY <3>1, <4>1
    <3>3. Pair(i) = shifted(x)[m] /\ m \in {1, 2, 3}
      BY <2>2, <3>1
    <3> HIDE DEF x, m
    <3> DEFINE u == s.r1 + x
               v == s.r2 + x
               w == 2 * One
    <3>4. u \in Int /\ v \in Int /\ w \in Int /\ w >= One
      BY <1>1, <1>2, <3>2
    <3>5. Distance(u, v) >= One
      BY <1>2, <3>2 DEF Distance
    <3>6. Pair(i) \in {<<u, v>>, <<u, u - w>>, <<u, u + w>>}
      BY <1>2, <3>3
    <3> HIDE DEF u, v, w
    <3>7. Distance(u, u - w) >= One /\ Distance(u, u + w) >= One
      BY <1>1, <3>4 DEF Distance
    <3> QED BY <3>4, <3>5, <3>6, <3>7
  <2> QED BY <2>1, <2>2
<1>4. pairs = [i \in 1..34 |-> Pair(i)] /\ DOMAIN pairs = 1..34 /\ \A i \in 1..34 : pairs[i] = Pair(i)
  OBVIOUS
<1> HIDE DEF Pair
<1>5. ASSUME NEW i \in 1..34 PROVE score(pairs[i])[1] \in Nat /\ score(pairs[i])[2] \in Nat
  <2>1. \A t : LogicErrorCount(t) \in Nat
    BY DEF LogicErrorCount
  <2>2. Distance(pairs[i][1], s.r1) + Distance(pairs[i][2], s.r2) \in Nat
    BY <1>2, <1>3, <1>4 DEF Distance
  <2> QED BY <2>1, <2>2
<1> HIDE DEF pairs, score
<1> DEFINE First(i) == \A j \in DOMAIN pairs :
              \/ score(pairs[i])[1] < score(pairs[j])[1]
              \/ score(pairs[i])[1] = score(pairs[j])[1] /\ score(pairs[i])[2] < score(pairs[j])[2]
              \/ score(pairs[i]) = score(pairs[j]) /\ i <= j
<1>6. \E i \in DOMAIN pairs : First(i)
  <2> DEFINE f == [i \in 1..34 |-> score(pairs[i])[1]]
             g == [i \in 1..34 |-> score(pairs[i])[2]]
  <2>1. f \in [1..34 -> Nat] /\ g \in [1..34 -> Nat]
    BY <1>5
  <2>2. \A i \in 1..34 : f[i] = score(pairs[i])[1] /\ g[i] = score(pairs[i])[2]
    OBVIOUS
  <2>3. \A i, j \in 1..34 : f[i] = f[j] /\ g[i] = g[j] => score(pairs[i]) = score(pairs[j])
    BY DEF score
  <2> HIDE DEF f, g
  <2>4. 1..34 \in SUBSET Nat /\ 1..34 # {}
    OBVIOUS
  <2>5. PICK i \in 1..34 : \A j \in 1..34 : \/ f[i] < f[j]
                                            \/ f[i] = f[j] /\ g[i] < g[j]
                                            \/ f[i] = f[j] /\ g[i] = g[j] /\ i <= j
    BY <2>1, <2>4, BestExists
  <2>6. ASSUME NEW j \in 1..34
        PROVE  \/ score(pairs[i])[1] < score(pairs[j])[1]
               \/ score(pairs[i])[1] = score(pairs[j])[1] /\ score(pairs[i])[2] < score(pairs[j])[2]
               \/ score(pairs[i]) = score(pairs[j]) /\ i <= j
    <3>1. f[i] = score(pairs[i])[1] /\ g[i] = score(pairs[i])[2]
          /\ f[j] = score(pairs[j])[1] /\ g[j] = score(pairs[j])[2]
      BY <2>2
    <3> QED BY <2>3, <2>5, <3>1
  <2> QED BY <1>4, <2>6
<1>7. PICK i \in 1..34 : best = pairs[i]
  <2>1. best = pairs[CHOOSE i \in DOMAIN pairs : First(i)]
    BY DEF FirstBest
  <2> HIDE DEF best, First
  <2>2. (CHOOSE i \in DOMAIN pairs : First(i)) \in DOMAIN pairs
    BY <1>6
  <2> QED BY <1>4, <2>1, <2>2
<1>8. ChooseRange(s) = IF StructuralOk(s) THEN s ELSE [s EXCEPT !.r1 = best[1], !.r2 = best[2]]
  BY DEF ChooseRange, pairs, Pair, score
<1> HIDE DEF best
<1>9. best[1] \in Int /\ best[2] \in Int /\ Distance(best[1], best[2]) >= One
  BY <1>3, <1>4, <1>7
<1> QED BY <1>8, <1>9 DEF Levels

\* ChoosePrice with the candidates that would do.
Nearest(V, current, anchor) ==
    LET closer(c, e) == \/ Distance(c, current) < Distance(e, current)
                        \/ Distance(c, current) = Distance(e, current) /\ Distance(c, anchor) < Distance(e, anchor)
                        \/ Distance(c, current) = Distance(e, current) /\ Distance(c, anchor) = Distance(e, anchor) /\ c <= e
    IN  IF V = {} THEN current ELSE CHOOSE c \in V : \A e \in V : closer(c, e)

LEMMA PriceIsChosen ==
    ASSUME NEW current \in Int, NEW anchor \in Int, NEW V \in SUBSET Nat
    PROVE  Nearest(V, current, anchor) \in Int
<1> DEFINE Close(c) == \A e \in V :
              \/ Distance(c, current) < Distance(e, current)
              \/ Distance(c, current) = Distance(e, current) /\ Distance(c, anchor) < Distance(e, anchor)
              \/ Distance(c, current) = Distance(e, current) /\ Distance(c, anchor) = Distance(e, anchor) /\ c <= e
<1>1. V # {} => \E c \in V : Close(c)
  BY NearestExists
<1>2. Nearest(V, current, anchor) = IF V = {} THEN current ELSE CHOOSE c \in V : Close(c)
  BY DEF Nearest
<1> HIDE DEF Close
<1>3. CASE V = {}
  BY <1>2, <1>3
<1>4. CASE V # {}
  <2> DEFINE chosen == CHOOSE c \in V : Close(c)
  <2>1. chosen \in V
    BY <1>1, <1>4
  <2>2. Nearest(V, current, anchor) = chosen
    BY <1>2, <1>4
  <2> HIDE DEF chosen
  <2>3. chosen \in Nat
    BY <2>1
  <2> QED BY <2>2, <2>3
<1> QED BY <1>3, <1>4

LEMMA TargetsAreChosen ==
    ASSUME NEW s, Levels(s)
    PROVE  /\ Levels(FixTpLevels(s))
           /\ FixTpLevels(s).r1 = s.r1 /\ FixTpLevels(s).r2 = s.r2
<1> DEFINE d == SignOf(s.side)
           near == IF s.side = "BUY" THEN RangeHigh(s) ELSE RangeLow(s)
           between(lo, hi, x) == d * x > d * lo /\ d * x < d * hi
           A == Anchor(s)
           tp1 == IF between(near, s.tp[2], s.tp[1]) THEN s.tp[1]
                  ELSE ChoosePrice(s.tp[1], CandidatePrices(s.tp[1], A), LAMBDA c : between(near, s.tp[2], c), A)
           tp2 == IF between(tp1, s.tp[3], s.tp[2]) THEN s.tp[2]
                  ELSE ChoosePrice(s.tp[2], CandidatePrices(s.tp[2], A), LAMBDA c : between(tp1, s.tp[3], c), A)
           far == Tp3Outlier([s EXCEPT !.tp = <<tp1, tp2, s.tp[3]>>])
           tp3 == IF d * s.tp[3] > d * tp2 /\ ~far THEN s.tp[3]
                  ELSE ChoosePrice(s.tp[3], CandidatePrices(s.tp[3], A) \ (IF far THEN {s.tp[3]} ELSE {}),
                                   LAMBDA c : d * c > d * tp2, A)
<1>1. A \in Int /\ s.tp[1] \in Int /\ s.tp[2] \in Int /\ s.tp[3] \in Int
  BY DEF Levels, Anchor
<1>2. FixTpLevels(s) = [s EXCEPT !.tp = <<tp1, tp2, tp3>>]
  BY DEF FixTpLevels
<1> HIDE DEF A, d, near
<1>3. tp1 \in Int
  <2> DEFINE V == {c \in CandidatePrices(s.tp[1], A) : between(near, s.tp[2], c)}
  <2>1. V \in SUBSET Nat
    BY <1>1, CandidatesAreWhole
  <2>2. tp1 = s.tp[1] \/ tp1 = Nearest(V, s.tp[1], A)
    BY DEF ChoosePrice, Nearest
  <2> HIDE DEF V, tp1
  <2> QED BY <1>1, <2>1, <2>2, PriceIsChosen
<1> HIDE DEF tp1
<1>4. tp2 \in Int
  <2> DEFINE V == {c \in CandidatePrices(s.tp[2], A) : between(tp1, s.tp[3], c)}
  <2>1. V \in SUBSET Nat
    BY <1>1, CandidatesAreWhole
  <2>2. tp2 = s.tp[2] \/ tp2 = Nearest(V, s.tp[2], A)
    BY DEF ChoosePrice, Nearest
  <2> HIDE DEF V, tp2
  <2> QED BY <1>1, <2>1, <2>2, PriceIsChosen
<1> HIDE DEF tp2, far
<1>5. tp3 \in Int
  <2> DEFINE V == {c \in CandidatePrices(s.tp[3], A) \ (IF far THEN {s.tp[3]} ELSE {}) : d * c > d * tp2}
  <2>1. V \in SUBSET Nat
    BY <1>1, CandidatesAreWhole
  <2>2. tp3 = s.tp[3] \/ tp3 = Nearest(V, s.tp[3], A)
    BY DEF ChoosePrice, Nearest
  <2> HIDE DEF V, tp3
  <2> QED BY <1>1, <2>1, <2>2, PriceIsChosen
<1> HIDE DEF tp3
<1> QED BY <1>2, <1>3, <1>4, <1>5 DEF Levels

LEMMA StopIsChosen ==
    ASSUME NEW s, Levels(s)
    PROVE  /\ Levels(FixSlLevel(s)) /\ FixSlLevel(s).r1 = s.r1 /\ FixSlLevel(s).r2 = s.r2
           /\ Levels(FixSlOutlier(s)) /\ FixSlOutlier(s).r1 = s.r1 /\ FixSlOutlier(s).r2 = s.r2
<1>1. Levels(FixSlLevel(s)) /\ FixSlLevel(s).r1 = s.r1 /\ FixSlLevel(s).r2 = s.r2
  <2> DEFINE A == Anchor(s)
             price == ChoosePrice(s.sl, CandidatePrices(s.sl, A), LAMBDA c : SlSideOk([s EXCEPT !.sl = c]), A)
             V == {c \in CandidatePrices(s.sl, A) : SlSideOk([s EXCEPT !.sl = c])}
  <2>1. A \in Int /\ s.sl \in Int
    BY DEF Levels, Anchor
  <2>2. FixSlLevel(s) = [s EXCEPT !.sl = price]
    BY DEF FixSlLevel
  <2> HIDE DEF A
  <2>3. V \in SUBSET Nat
    BY <2>1, CandidatesAreWhole
  <2>4. price \in Int
    <3>1. price = Nearest(V, s.sl, A)
      BY DEF ChoosePrice, Nearest
    <3> HIDE DEF V, price
    <3> QED BY <2>1, <2>3, <3>1, PriceIsChosen
  <2> HIDE DEF price
  <2> QED BY <2>2, <2>4 DEF Levels
<1>2. Levels(FixSlOutlier(s)) /\ FixSlOutlier(s).r1 = s.r1 /\ FixSlOutlier(s).r2 = s.r2
  <2> DEFINE moved == {[s EXCEPT !.sl = s.sl + Dollars(100) * n] : n \in -6..6}
             fit == {m \in moved : SlSideOk(m) /\ SlDistance(m) <= MaxPlausible(s)}
  <2>1. Dollars(100) \in Int /\ s.sl \in Int
    BY TypingAssumption DEF Dollars, Levels
  <2>2. \A m \in moved : Levels(m) /\ m.r1 = s.r1 /\ m.r2 = s.r2
    BY <2>1 DEF Levels
  <2>3. \A m \in moved : SlDistance(m) \in Int
    <3> TAKE m \in moved
    <3>1. RangeLow(m) \in Int /\ RangeHigh(m) \in Int
      BY <2>2, TwoPrices DEF Levels, RangeLow, RangeHigh
    <3> HIDE DEF moved
    <3> QED BY <2>2, <3>1 DEF Levels, SlDistance
  <2>4. FixSlOutlier(s) = IF SlDistance(s) <= MaxPlausible(s) \/ fit = {} THEN s
                          ELSE CHOOSE m \in fit : \A o \in fit : SlDistance(m) <= SlDistance(o)
    BY DEF FixSlOutlier
  <2> HIDE DEF moved
  <2>5. \A m \in fit : SlDistance(m) \in Nat
    BY <2>3 DEF SlSideOk
  <2>6. fit # {} => \E m \in fit : \A o \in fit : SlDistance(m) <= SlDistance(o)
    <3> SUFFICES ASSUME fit # {} PROVE \E m \in fit : \A o \in fit : SlDistance(m) <= SlDistance(o)
      OBVIOUS
    <3> HIDE DEF fit
    <3> DEFINE S == {SlDistance(m) : m \in fit}
    <3>1. S \in SUBSET Nat /\ S # {}
      BY <2>5
    <3>2. PICK x \in S : \A y \in S : x <= y
      BY <3>1, LeastElement
    <3> QED BY <3>2
  <2>7. CASE SlDistance(s) <= MaxPlausible(s) \/ fit = {}
    BY <2>4, <2>7
  <2>8. CASE ~(SlDistance(s) <= MaxPlausible(s) \/ fit = {})
    <3>1. FixSlOutlier(s) \in fit
      BY <2>4, <2>6, <2>8
    <3>2. FixSlOutlier(s) \in moved
      BY <3>1
    <3> QED BY <2>2, <3>2
  <2> QED BY <2>7, <2>8
<1> QED BY <1>1, <1>2

LEMMA CorrectedHasLevels ==
    ASSUME NEW s, Levels(s), Distance(s.r1, s.r2) >= One
    PROVE  Levels(Corrected(s)) /\ Distance(Corrected(s).r1, Corrected(s).r2) >= One
<1> DEFINE ranged == ChooseRange(s)
           aimed  == FixTpLevels(ranged)
<1>1. Levels(ranged) /\ Distance(ranged.r1, ranged.r2) >= One
  BY RangeIsChosen
<1>2. Levels(aimed) /\ aimed.r1 = ranged.r1 /\ aimed.r2 = ranged.r2
  <2> HIDE DEF ranged
  <2> QED BY <1>1, TargetsAreChosen
<1>3. Corrected(s) = IF SlSideOk(aimed) THEN FixSlOutlier(aimed) ELSE FixSlLevel(aimed)
  BY DEF Corrected
<1> HIDE DEF ranged, aimed
<1> QED BY <1>1, <1>2, <1>3, StopIsChosen

\* Off by hundreds in one field, the range keeps its width.
LEMMA SlipKeepsLevels ==
    ASSUME NEW s, Levels(s), NEW field \in Fields, NEW by \in Int
    PROVE  /\ Levels(Slipped(s, field, by))
           /\ Distance(Slipped(s, field, by).r1, Slipped(s, field, by).r2) = Distance(s.r1, s.r2)
<1>1. /\ s.r1 + by \in Int /\ s.r2 + by \in Int /\ s.sl + by \in Int
      /\ Distance(s.r1 + by, s.r2 + by) = Distance(s.r1, s.r2)
      /\ \A n \in 1..3 : s.tp[n] + by \in Int
  BY DEF Levels, Distance
<1>2. CASE field = "range"
  BY <1>1, <1>2 DEF Slipped, Levels
<1>3. CASE field = "sl"
  BY <1>1, <1>3 DEF Slipped, Levels
<1>4. ASSUME NEW n \in 1..3
      PROVE  LET q == [s EXCEPT !.tp[n] = @ + by] IN Levels(q) /\ q.r1 = s.r1 /\ q.r2 = s.r2
  <2> DEFINE tp == [s.tp EXCEPT ![n] = s.tp[n] + by]
             q  == [s EXCEPT !.tp[n] = @ + by]
  <2>1. tp \in [1..3 -> Int]
    BY <1>1 DEF Levels
  <2>2. q = [s EXCEPT !.tp = tp]
    BY DEF Levels
  <2> HIDE DEF tp, q
  <2> QED BY <2>1, <2>2 DEF Levels, q
<1>5. CASE field \in {"tp1", "tp2", "tp3"}
  <2>1. \E n \in 1..3 : Slipped(s, field, by) = [s EXCEPT !.tp[n] = @ + by]
    BY <1>5 DEF Slipped
  <2> QED BY <1>4, <2>1
<1> QED BY <1>2, <1>3, <1>5 DEF Fields

\* Without an error worth a review, levels over a range of a dollar or more are in order.
LEMMA ReviewedOrSound ==
    ASSUME NEW s, Levels(s), Distance(s.r1, s.r2) >= One, LogicErrorCount(s) < 30
    PROVE  ~Structural(s) /\ RrBucket(s) # "INVALID_RR"
<1>1. SlSideOk(s) /\ TpOrderOk(s)
  BY DEF LogicErrorCount
<1> DEFINE hi == RangeHigh(s)
           lo == RangeLow(s)
           e  == EntriesFor(s)
           sl == s.sl
           t1 == s.tp[1]
           t2 == s.tp[2]
           t3 == s.tp[3]
<1>2. /\ hi \in Int /\ lo \in Int /\ sl \in Int /\ t1 \in Int /\ t2 \in Int /\ t3 \in Int
      /\ hi - lo >= One /\ One \in Nat \ {0} /\ s.side \in {"BUY", "SELL"}
  BY TwoPrices, TypingAssumption DEF Levels, RangeHigh, RangeLow, Distance
<1>3. CASE s.side = "BUY"
  <2>1. e = <<hi, hi - One, lo>> /\ SignOf(s.side) = 1
    BY <1>3 DEF EntriesFor, SignOf
  <2>2. sl < lo /\ t1 > hi /\ t2 > t1 /\ t3 > t2
    <3>1. lo - sl > 0 /\ 1 * t1 > 1 * hi /\ 1 * t2 > 1 * t1 /\ 1 * t3 > 1 * t2
      BY <1>1, <1>3, <2>1 DEF SlSideOk, SlDistance, TpOrderOk
    <3> HIDE DEF hi, lo, sl, t1, t2, t3
    <3> QED BY <1>2, <3>1
  <2>3. ~Structural(s)
    <3> SUFFICES /\ ~\E k \in 1..3 : 1 * sl >= 1 * e[k]
                 /\ 1 * t1 < 1 * t2 /\ 1 * t2 < 1 * t3
                 /\ ~\E k \in 1..3 : 1 * t1 <= 1 * e[k]
      BY <2>1 DEF Structural
    <3> HIDE DEF hi, lo, sl, t1, t2, t3, e
    <3> QED BY <1>2, <2>1, <2>2
  <2>4. BestLadderEntry(s) = lo
    <3>1. BestLadderEntry(s) = Min(Range(e))
      BY <1>3 DEF BestLadderEntry
    <3> HIDE DEF hi, lo, e
    <3>2. Range(e) = {hi, hi - One, lo}
      BY <2>1 DEF Range
    <3>3. (\A y \in {hi, hi - One, lo} : lo <= y) /\ \A x \in {hi, hi - One, lo} :
              (\A y \in {hi, hi - One, lo} : x <= y) => x = lo
      BY <1>2
    <3>4. Min({hi, hi - One, lo}) = lo
      BY <3>3 DEF Min
    <3> QED BY <3>1, <3>2, <3>4
  <2>5. RrBucket(s) # "INVALID_RR"
    <3>1. ~(1 * (lo - sl) <= 0 \/ 1 * (t1 - lo) <= 0)
      <4> HIDE DEF hi, lo, sl, t1, t2, t3
      <4> QED BY <1>2, <2>2
    <3> QED BY <2>1, <2>4, <3>1 DEF RrBucket
  <2> QED BY <2>3, <2>5
<1>4. CASE s.side = "SELL"
  <2>1. e = <<lo, lo + One, hi>> /\ SignOf(s.side) = -1
    BY <1>4 DEF EntriesFor, SignOf
  <2>2. sl > hi /\ t1 < lo /\ t2 < t1 /\ t3 < t2
    <3> DEFINE d == SignOf(s.side)
    <3>1. sl - hi > 0 /\ d * t1 > d * lo /\ d * t2 > d * t1 /\ d * t3 > d * t2
      BY <1>1, <1>4, <2>1 DEF SlSideOk, SlDistance, TpOrderOk
    <3>2. d = -1
      BY <2>1
    <3> HIDE DEF hi, lo, sl, t1, t2, t3, d
    <3>3. \A x, y \in Int : d * x > d * y => x < y
      BY <3>2
    <3> QED BY <1>2, <3>1, <3>3
  <2>3. ~Structural(s)
    <3> DEFINE d == SignOf(s.side)
    <3> SUFFICES /\ ~\E k \in 1..3 : d * sl >= d * e[k]
                 /\ d * t1 < d * t2 /\ d * t2 < d * t3
                 /\ ~\E k \in 1..3 : d * t1 <= d * e[k]
      BY DEF Structural
    <3>1. d = -1
      BY <2>1
    <3> HIDE DEF hi, lo, sl, t1, t2, t3, e, d
    <3>2. \A x, y \in Int : x < y => d * x > d * y
      BY <3>1
    <3>3. ASSUME NEW k \in 1..3 PROVE e[k] \in Int /\ t1 < e[k] /\ e[k] < sl
      BY <1>2, <2>1, <2>2
    <3>4. ASSUME NEW k \in 1..3 PROVE d * t1 > d * e[k] /\ d * e[k] > d * sl
      BY <1>2, <3>2, <3>3
    <3>5. \A x \in Int : d * x \in Int
      BY <3>1
    <3>6. ~\E k \in 1..3 : d * sl >= d * e[k] \/ d * t1 <= d * e[k]
      BY <1>2, <3>3, <3>4, <3>5
    <3> QED BY <1>2, <2>2, <3>2, <3>6
  <2>4. BestLadderEntry(s) = hi
    <3>1. BestLadderEntry(s) = Max(Range(e))
      BY <1>4 DEF BestLadderEntry
    <3> HIDE DEF hi, lo, e
    <3>2. Range(e) = {lo, lo + One, hi}
      BY <2>1 DEF Range
    <3>3. (\A y \in {lo, lo + One, hi} : hi >= y) /\ \A x \in {lo, lo + One, hi} :
              (\A y \in {lo, lo + One, hi} : x >= y) => x = hi
      BY <1>2
    <3>4. Max({lo, lo + One, hi}) = hi
      BY <3>3 DEF Max
    <3> QED BY <3>1, <3>2, <3>4
  <2>5. RrBucket(s) # "INVALID_RR"
    <3> DEFINE d == SignOf(s.side)
    <3>1. d = -1
      BY <2>1
    <3>2. d * (hi - sl) > 0 /\ d * (t1 - hi) > 0
      <4> HIDE DEF hi, lo, sl, t1, t2, t3, d
      <4>1. hi - sl \in Int /\ hi - sl < 0 /\ t1 - hi \in Int /\ t1 - hi < 0
        BY <1>2, <2>2
      <4>2. \A x \in Int : x < 0 => d * x > 0
        BY <3>1
      <4> QED BY <4>1, <4>2
    <3>3. d * (BestLadderEntry(s) - s.sl) > 0 /\ d * (s.tp[1] - BestLadderEntry(s)) > 0
      BY <2>4, <3>2
    <3>4. d * (hi - sl) \in Int /\ d * (t1 - hi) \in Int
      BY <1>2, <3>1
    <3> HIDE DEF hi, lo, d
    <3> QED BY <2>4, <3>3, <3>4 DEF RrBucket, d
  <2> QED BY <2>3, <2>5
<1> QED BY <1>2, <1>3, <1>4

TypedInv == Levels(typed) /\ Distance(typed.r1, typed.r2) >= One /\ line = Corrected(typed)

\* Whatever is typed wrong, by however much and however often, a line the listener writes
\* without a request for review is a signal the engine trades and the listener can rate,
\* when the provider means ranges of a dollar or more (apply_signal_corrections).
THEOREM CorrectedLinesAreReadable ==
    (\A g \in Goods : Distance(g.r1, g.r2) >= One) /\ TypingInit(Goods) /\ [][TypingNext]_typing
        => []Readable
<1>1. (\A g \in Goods : Distance(g.r1, g.r2) >= One) /\ TypingInit(Goods) => TypedInv
  BY TypingAssumption DEF TypingInit, TypedInv, Levels
<1>2. ASSUME TypedInv, [TypingNext]_typing PROVE TypedInv'
  <2>1. CASE UNCHANGED typing
    <3>1. typed' = typed /\ line' = line
      BY <2>1 DEF typing
    <3> QED BY <1>2, <3>1 DEF TypedInv
  <2>2. ASSUME NEW field \in Fields, NEW n \in Slips, Slip(field, n) PROVE TypedInv'
    <3>1. Dollars(100 * n) \in Int
      BY TypingAssumption DEF Dollars
    <3>2. typed' = Slipped(typed, field, Dollars(100 * n)) /\ line' = Corrected(typed')
      BY <2>2 DEF Slip
    <3>3. Levels(typed) /\ Distance(typed.r1, typed.r2) >= One
      BY <1>2 DEF TypedInv
    <3>4. Levels(typed') /\ Distance(typed'.r1, typed'.r2) = Distance(typed.r1, typed.r2)
      BY <3>1, <3>2, <3>3, SlipKeepsLevels
    <3> QED BY <3>2, <3>3, <3>4 DEF TypedInv
  <2> QED BY <1>2, <2>1, <2>2 DEF TypingNext
<1>3. TypedInv => Readable
  <2> SUFFICES ASSUME TypedInv, ~NeedsReview(typed) PROVE ~Structural(line) /\ RrBucket(line) # "INVALID_RR"
    BY DEF Readable
  <2>1. Levels(line) /\ Distance(line.r1, line.r2) >= One
    BY CorrectedHasLevels DEF TypedInv
  <2>2. LogicErrorCount(line) < 30
    BY DEF TypedInv, NeedsReview, LogicErrorCount
  <2> QED BY <2>1, <2>2, ReviewedOrSound
<1> QED BY <1>1, <1>2, <1>3, PTL

-----------------------------------------------------------------------------
(* The ladder of entries                                                   *)

\* The end of the range the side enters at first, and the other one.
NearEnd(s) == IF s.side = "BUY" THEN RangeHigh(s) ELSE RangeLow(s)
FarEnd(s)  == IF s.side = "BUY" THEN RangeLow(s) ELSE RangeHigh(s)

\* A price over the denominator m, from the near end of the range to short of the stop.
Inside(s, m, x) ==
    /\ x \in Int
    /\ IF s.side = "BUY" THEN s.sl * m < x /\ x <= NearEnd(s) * m
                         ELSE NearEnd(s) * m <= x /\ x < s.sl * m

LEMMA Products ==
    ASSUME NEW u \in Int, NEW i \in Nat, NEW m \in Nat, i <= m
    PROVE  /\ u <= 0 => u * m <= u * i /\ u * i <= 0
           /\ u >= 0 => u * m >= u * i /\ u * i >= 0
<1>1. \A a \in Int, b \in Nat : (a <= 0 => a * b <= 0) /\ (a >= 0 => a * b >= 0)
  OBVIOUS
<1>2. m - i \in Nat /\ u * m - u * i = u * (m - i) /\ u * m \in Int /\ u * i \in Int
  OBVIOUS
<1>3. (u <= 0 => u * (m - i) <= 0 /\ u * i <= 0) /\ (u >= 0 => u * (m - i) >= 0 /\ u * i >= 0)
  BY <1>1, <1>2
<1> QED BY <1>2, <1>3

\* The stop, the range and the provider's own entries of a signal that is in order.
LEMMA EndsInOrder ==
    ASSUME NEW s, Levels(s), ~Structural(s)
    PROVE  /\ NearEnd(s) \in Int /\ FarEnd(s) \in Int /\ s.sl \in Int /\ s.side \in {"BUY", "SELL"}
           /\ IF s.side = "BUY" THEN s.sl < FarEnd(s) /\ FarEnd(s) <= NearEnd(s)
                                ELSE NearEnd(s) <= FarEnd(s) /\ FarEnd(s) < s.sl
           /\ \A k \in 1..3 : /\ EntriesFor(s)[k] \in Int
                              /\ IF s.side = "BUY"
                                 THEN s.sl < EntriesFor(s)[k] /\ EntriesFor(s)[k] <= NearEnd(s)
                                 ELSE NearEnd(s) <= EntriesFor(s)[k] /\ EntriesFor(s)[k] < s.sl
<1> DEFINE near == NearEnd(s)
           far  == FarEnd(s)
           e    == EntriesFor(s)
           d    == SignOf(s.side)
           sl   == s.sl
<1>1. /\ near \in Int /\ far \in Int /\ sl \in Int /\ s.side \in {"BUY", "SELL"}
      /\ s.side = "BUY" => far <= near
      /\ s.side = "SELL" => near <= far
  <2> DEFINE hi == RangeHigh(s)
             lo == RangeLow(s)
  <2>1. s.r1 \in Int /\ s.r2 \in Int /\ s.sl \in Int /\ s.side \in {"BUY", "SELL"}
    BY DEF Levels
  <2>2. hi \in Int /\ lo \in Int /\ lo <= hi
    BY <2>1, TwoPrices DEF RangeHigh, RangeLow
  <2>3. near = (IF s.side = "BUY" THEN hi ELSE lo) /\ far = (IF s.side = "BUY" THEN lo ELSE hi)
    BY DEF NearEnd, FarEnd
  <2> HIDE DEF near, far, hi, lo
  <2> QED
    BY <2>1, <2>2, <2>3
<1>2. One \in Nat \ {0}
  BY TypingAssumption
<1>3. s.side = "BUY" => d = 1 /\ e = <<near, near - One, far>>
  BY DEF EntriesFor, SignOf, NearEnd, FarEnd
<1>4. s.side = "SELL" => d = -1 /\ e = <<near, near + One, far>>
  BY DEF EntriesFor, SignOf, NearEnd, FarEnd
<1>5. \A k \in 1..3 : ~(d * sl >= d * e[k])
  BY DEF Structural
<1>6. d \in {1, -1} /\ \A k \in 1..3 : e[k] \in Int
  BY <1>1, <1>2, <1>3, <1>4
<1> HIDE DEF near, far, e, d, sl
<1>7. CASE s.side = "BUY"
  <2>1. \A k \in 1..3 : sl < e[k]
    BY <1>1, <1>3, <1>5, <1>6, <1>7
  <2>2. \A k \in 1..3 : e[k] <= near
    BY <1>1, <1>2, <1>3, <1>7
  <2>3. e[3] = far
    BY <1>3, <1>7
  <2> QED BY <1>1, <1>6, <1>7, <2>1, <2>2, <2>3 DEF near, far, e, sl
<1>8. CASE s.side = "SELL"
  <2>1. \A k \in 1..3 : sl > e[k]
    BY <1>1, <1>4, <1>5, <1>6, <1>8
  <2>2. \A k \in 1..3 : near <= e[k]
    BY <1>1, <1>2, <1>4, <1>8
  <2>3. e[3] = far
    BY <1>4, <1>8
  <2> QED BY <1>1, <1>6, <1>8, <2>1, <2>2, <2>3 DEF near, far, e, sl
<1> QED BY <1>1, <1>7, <1>8

\* Prices spread evenly from the near end to one short of the stop.
LEMMA EvenInside ==
    ASSUME NEW s, Levels(s), ~Structural(s), NEW n \in Nat \ {0, 1}, NEW last \in Int,
           IF s.side = "BUY" THEN s.sl < last /\ last <= NearEnd(s)
                             ELSE NearEnd(s) <= last /\ last < s.sl
    PROVE  /\ Linspace(NearEnd(s), last, n) \in [1..n -> Int]
           /\ \A k \in 1..n : Inside(s, n - 1, Linspace(NearEnd(s), last, n)[k])
<1> DEFINE a == NearEnd(s)
           m == n - 1
           sl == s.sl
<1>1. a \in Int /\ sl \in Int /\ m \in Nat \ {0} /\ s.side \in {"BUY", "SELL"}
  BY EndsInOrder
<1>2. ASSUME NEW k \in 1..n
      PROVE  LET x == a * m + (last - a) * (k - 1) IN
             /\ x \in Int
             /\ IF s.side = "BUY" THEN sl * m < x /\ x <= a * m ELSE a * m <= x /\ x < sl * m
  <2> DEFINE u == last - a
             i == k - 1
             v == last - sl
  <2>1. u \in Int /\ v \in Int /\ i \in Nat /\ i <= m /\ 1 <= m
    BY <1>1
  <2>2. u * m = last * m - a * m /\ v * m = last * m - sl * m
    <3>1. \A x, y \in Int : \A z \in Nat : (x - y) * z = x * z - y * z
      OBVIOUS
    <3> HIDE DEF m, a, sl
    <3> QED BY <1>1, <3>1
  <2>3. IF s.side = "BUY" THEN u <= 0 /\ v > 0 ELSE u >= 0 /\ v < 0
    BY <1>1
  <2>4. a * m \in Int /\ sl * m \in Int /\ last * m \in Int /\ u * i \in Int /\ u * m \in Int /\ v * m \in Int
    BY <1>1
  <2> HIDE DEF u, v, i, m, a, sl
  <2>5. /\ u <= 0 => u * m <= u * i /\ u * i <= 0
        /\ u >= 0 => u * m >= u * i /\ u * i >= 0
    BY <1>1, <2>1, Products
  <2>6. (v > 0 => v * m > 0) /\ (v < 0 => v * m < 0)
    <3>1. /\ v <= 0 => v * m <= v * 1
          /\ v >= 0 => v * m >= v * 1
      BY <1>1, <2>1, Products
    <3> QED BY <2>1, <2>4, <3>1
  <2>7. LET x == a * m + u * i IN
        x \in Int /\ IF s.side = "BUY" THEN sl * m < x /\ x <= a * m ELSE a * m <= x /\ x < sl * m
    BY <2>2, <2>3, <2>4, <2>5, <2>6
  <2> QED BY <2>7 DEF u, i
<1>3. Linspace(a, last, n) = [k \in 1..n |-> a * m + (last - a) * (k - 1)]
  BY DEF Linspace
<1> HIDE DEF a, m, sl
<1>4. \A k \in 1..n : Linspace(a, last, n)[k] = a * m + (last - a) * (k - 1)
  BY <1>3
<1>5. Linspace(a, last, n) \in [1..n -> Int]
  BY <1>2, <1>3
<1> QED BY <1>2, <1>4, <1>5 DEF Inside, a, m, sl

LEMMA FunctionIsSequence ==
    ASSUME NEW S, NEW m \in Nat, NEW f \in [1..m -> S]
    PROVE  f \in Seq(S) /\ Len(f) = m
OBVIOUS

LEMMA JoinedIsSequence ==
    ASSUME NEW S, NEW a \in Seq(S), NEW b \in Seq(S), Len(a) > 0
    PROVE  a \o b \in Seq(S) /\ Len(a \o b) > 0
<1>1. a \o b \in Seq(S) /\ Len(a \o b) = Len(a) + Len(b) /\ Len(a) \in Nat /\ Len(b) \in Nat
  OBVIOUS
<1> QED BY <1>1

\* Of more entries than three, the first distinct ones of a list that is not empty.
LEMMA DistinctAreListed ==
    ASSUME NEW S, NEW prices \in Seq(S), Len(prices) > 0, NEW n \in Nat \ {0}
    PROVE  FirstDistinct(prices, n) \in Seq(S) /\ Len(FirstDistinct(prices, n)) \in 1..n
<1> DEFINE N == Len(prices)
           Body(r, k) == IF k = 0 THEN <<>>
                         ELSE IF Len(r[k - 1]) < n /\ prices[k] \notin Range(r[k - 1])
                         THEN Append(r[k - 1], prices[k]) ELSE r[k - 1]
           Run(r, m) == r = [k \in 0..m |-> Body(r, k)]
           T == {m \in Nat : \E r : Run(r, m)}
<1>1. 0 \in T
  <2> DEFINE r == [k \in 0..0 |-> <<>>]
  <2>1. Run(r, 0)
    OBVIOUS
  <2> HIDE DEF Run
  <2> QED BY <2>1
<1>2. ASSUME NEW m \in Nat, m \in T PROVE m + 1 \in T
  <2>1. PICK r : Run(r, m)
    BY <1>2
  <2> DEFINE q == [k \in 0..(m + 1) |-> IF k = m + 1 THEN Body(r, m + 1) ELSE r[k]]
  <2>2. \A k \in 0..m : q[k] = r[k] /\ r[k] = Body(r, k)
    <3>1. \A k \in 0..m : r[k] = Body(r, k)
      <4> HIDE DEF Body
      <4> QED BY <2>1
    <3>2. \A k \in 0..m : k \in 0..(m + 1) /\ k # m + 1
      OBVIOUS
    <3> HIDE DEF Body, Run
    <3> QED BY <3>1, <3>2
  <2>3. q[m + 1] = Body(r, m + 1) /\ DOMAIN q = 0..(m + 1) /\ q = [k \in 0..(m + 1) |-> q[k]]
    OBVIOUS
  <2> HIDE DEF q
  <2>4. \A k \in 0..(m + 1) : k # 0 => k - 1 \in 0..m /\ q[k - 1] = r[k - 1]
    BY <2>2
  <2>5. \A k \in 0..(m + 1) : Body(q, k) = Body(r, k)
    BY <2>4
  <2> HIDE DEF Body
  <2>6. \A k \in 0..(m + 1) : q[k] = Body(q, k)
    <3> TAKE k \in 0..(m + 1)
    <3>1. CASE k = m + 1
      BY <2>3, <2>5, <3>1
    <3>2. CASE k # m + 1
      <4>1. k \in 0..m
        BY <3>2
      <4> QED BY <2>2, <2>5, <4>1
    <3> QED BY <3>1, <3>2
  <2>7. Run(q, m + 1)
    BY <2>3, <2>6
  <2> HIDE DEF Run
  <2> QED BY <2>7
<1>3. Nat \subseteq T
  <2> HIDE DEF T
  <2> QED BY <1>1, <1>2, Induct
<1> DEFINE out == CHOOSE r : Run(r, N)
<1>4. N \in Nat \ {0} /\ Run(out, N)
  <2>1. N \in Nat \ {0}
    OBVIOUS
  <2> HIDE DEF Run, N
  <2>2. \E r : Run(r, N)
    BY <1>3, <2>1
  <2> QED BY <2>1, <2>2
<1>5. FirstDistinct(prices, n) = out[N]
  BY DEF FirstDistinct
<1> HIDE DEF out
<1>6. out[0] = <<>> /\ \A k \in 1..N : out[k] = Body(out, k) /\ k # 0
  <2> HIDE DEF N
  <2>1. \A k \in 0..N : out[k] = Body(out, k)
    <3> HIDE DEF Body
    <3> QED BY <1>4
  <2>2. 0 \in 0..N /\ \A k \in 1..N : k \in 0..N /\ k # 0
    BY <1>4
  <2>3. Body(out, 0) = <<>>
    OBVIOUS
  <2> HIDE DEF Body
  <2> QED BY <2>1, <2>2, <2>3
<1> DEFINE Good(k) == out[k] \in Seq(S) /\ Len(out[k]) <= n /\ (k > 0 => Len(out[k]) > 0)
           G == {k \in Nat : k <= N => Good(k)}
<1>7. 0 \in G
  <2>1. <<>> \in Seq(S) /\ Len(<<>>) = 0
    OBVIOUS
  <2>2. Good(0)
    BY <1>6, <2>1
  <2> HIDE DEF Good
  <2> QED BY <2>2
<1>8. ASSUME NEW k \in Nat, k \in G PROVE k + 1 \in G
  <2> SUFFICES ASSUME k + 1 <= N PROVE Good(k + 1)
    OBVIOUS
  <2>1. Good(k) /\ k + 1 \in 1..N /\ (k + 1) - 1 = k /\ prices[k + 1] \in S
    BY <1>4, <1>8
  <2> DEFINE o == out[k]
             c == Len(o) < n /\ prices[k + 1] \notin Range(o)
  <2>2. out[k + 1] = IF c THEN Append(o, prices[k + 1]) ELSE o
    BY <1>6, <2>1
  <2>3. o \in Seq(S) /\ Len(o) <= n /\ (k > 0 => Len(o) > 0)
    BY <2>1
  <2>4. k = 0 => c
    <3>1. k = 0 => o = <<>>
      BY <1>6
    <3> HIDE DEF o
    <3>2. o = <<>> => Len(o) = 0 /\ Range(o) = {}
      BY DEF Range
    <3> QED BY <3>1, <3>2
  <2> HIDE DEF o
  <2>5. CASE c
    <3>1. Append(o, prices[k + 1]) \in Seq(S) /\ Len(Append(o, prices[k + 1])) = Len(o) + 1
      BY <2>1, <2>3
    <3>2. Len(o) \in Nat /\ Len(o) + 1 <= n
      BY <2>3, <2>5
    <3> QED BY <2>2, <2>5, <3>1, <3>2
  <2>6. CASE ~c
    <3> HIDE DEF c
    <3> QED BY <2>1, <2>2, <2>3, <2>4, <2>6
  <2> QED BY <2>5, <2>6
<1>9. Nat \subseteq G
  <2> HIDE DEF G
  <2> QED BY <1>7, <1>8, Induct
<1>10. Good(N)
  <2> HIDE DEF N, Good
  <2>1. N \in G
    BY <1>4, <1>9
  <2> QED BY <1>4, <2>1
<1> QED BY <1>4, <1>5, <1>10

\* The provider's own entries over the denominator.
LEMMA OwnInside ==
    ASSUME NEW s, Levels(s), ~Structural(s), NEW m \in Nat \ {0}
    PROVE  \A k \in 1..3 : Inside(s, m, EntriesFor(s)[k] * m)
<1> TAKE k \in 1..3
<1> DEFINE e == EntriesFor(s)[k]
           a == NearEnd(s)
           sl == s.sl
<1>1. /\ e \in Int /\ a \in Int /\ sl \in Int
      /\ IF s.side = "BUY" THEN sl < e /\ e <= a ELSE a <= e /\ e < sl
  BY EndsInOrder
<1> HIDE DEF e, a, sl
<1>2. \A x, y \in Int : (x < y => x * m < y * m) /\ (x <= y => x * m <= y * m)
  <2> TAKE x, y \in Int
  <2>1. y - x \in Int /\ (y - x) * m = y * m - x * m /\ y * m \in Int /\ x * m \in Int
    OBVIOUS
  <2>2. (y - x >= 0 => (y - x) * m >= (y - x) * 1)
    BY <2>1, Products
  <2> QED BY <2>1, <2>2
<1>3. e * m \in Int
  BY <1>1
<1> QED BY <1>1, <1>2, <1>3 DEF Inside, e, a, sl

\* Every entry of every ladder lies between the range's near end and the stop, for any
\* signal whose stop, entries and targets are in order (compute_entries, _validate).
THEOREM LaddersStayInside ==
    ASSUME NEW s, Levels(s), ~Structural(s), NEW mode \in Modes, NEW n \in Nat \ {0},
           NEW gap \in Nat \ {0}
    PROVE  LET e == ComputeEntries(s, mode, n, gap)
           IN  Len(e) \in 1..n /\ \A j \in 1..Len(e) : Inside(s, Den(n), e[j])
<1> DEFINE best == NearEnd(s)
           worst == FarEnd(s)
           m == Den(n)
           scaled == [k \in 1..3 |-> EntriesFor(s)[k] * m]
           even   == Linspace(best, worst, n)
           deep   == Linspace(best, DeepEnd(s, gap), n)
           Good(e) == Len(e) \in 1..n /\ \A j \in 1..Len(e) : Inside(s, m, e[j])
<1>1. ComputeEntries(s, mode, n, gap) =
        IF n = 1 THEN <<best>>
        ELSE CASE mode = "range_uniform"  -> even
               [] mode = "range_to_sl"    -> deep
               [] mode = "signal_range_3" ->
                      IF n <= 3 THEN SubSeq(scaled, 1, n) ELSE FirstDistinct(scaled \o even, n)
  BY DEF ComputeEntries, NearEnd, FarEnd
<1>2. /\ best \in Int /\ worst \in Int /\ s.sl \in Int /\ s.side \in {"BUY", "SELL"}
      /\ IF s.side = "BUY" THEN s.sl < worst /\ worst <= best ELSE best <= worst /\ worst < s.sl
  BY EndsInOrder
<1>3. CASE n = 1
  <2>1. Den(n) = 1 /\ ComputeEntries(s, mode, n, gap) = <<best>>
    BY <1>1, <1>3 DEF Den
  <2>2. Inside(s, 1, best)
    <3> HIDE DEF worst
    <3> QED BY <1>2 DEF Inside
  <2>3. Len(<<best>>) = 1 /\ <<best>>[1] = best
    OBVIOUS
  <2> HIDE DEF best, m
  <2> QED BY <1>3, <2>1, <2>2, <2>3
<1>4. CASE n # 1
  <2>1. m = n - 1 /\ m \in Nat \ {0}
    BY <1>4 DEF Den
  <2>2. even \in [1..n -> Int] /\ \A k \in 1..n : Inside(s, m, even[k])
    <3> HIDE DEF best, worst, m
    <3>1. n \in Nat \ {0, 1}
      BY <1>4
    <3> QED BY <1>2, <2>1, <3>1, EvenInside DEF best
  <2>3. deep \in [1..n -> Int] /\ \A k \in 1..n : Inside(s, m, deep[k])
    <3> DEFINE last == DeepEnd(s, gap)
    <3>1. /\ last \in Int
          /\ IF s.side = "BUY" THEN s.sl < last /\ last <= best ELSE best <= last /\ last < s.sl
      <4> DEFINE d == SignOf(s.side)
                 far == s.sl + d * gap
      <4>1. last = IF d * far >= d * best THEN worst ELSE far
        BY DEF DeepEnd, NearEnd, FarEnd
      <4>2. IF s.side = "BUY" THEN d = 1 ELSE d = -1
        BY DEF SignOf
      <4> HIDE DEF last, best, worst, d
      <4>3. CASE s.side = "BUY"
        BY <1>2, <4>1, <4>2, <4>3
      <4>4. CASE s.side = "SELL"
        <5>1. d = -1
          BY <4>2, <4>4
        <5>2. \A x \in Int : d * x = -x
          BY <5>1
        <5>3. far = s.sl - gap /\ far \in Int /\ d * far = -far /\ d * best = -best
          BY <1>2, <5>2
        <5> HIDE DEF far
        <5>4. last = IF -far >= -best THEN worst ELSE far
          BY <4>1, <5>3
        <5> QED BY <1>2, <4>4, <5>3, <5>4
      <4> QED BY <1>2, <4>3, <4>4
    <3> HIDE DEF best, worst, m, last
    <3>2. n \in Nat \ {0, 1}
      BY <1>4
    <3>3. Linspace(best, last, n) \in [1..n -> Int] /\ \A k \in 1..n : Inside(s, n - 1, Linspace(best, last, n)[k])
      BY <3>1, <3>2, EvenInside DEF best
    <3> QED BY <2>1, <3>3 DEF last
  <2>4. scaled \in [1..3 -> Int] /\ \A k \in 1..3 : Inside(s, m, scaled[k])
    <3>1. \A k \in 1..3 : scaled[k] = EntriesFor(s)[k] * m
      OBVIOUS
    <3> HIDE DEF m
    <3>2. \A k \in 1..3 : Inside(s, m, EntriesFor(s)[k] * m)
      BY <2>1, OwnInside
    <3> QED BY <3>1, <3>2 DEF Inside
  <2> HIDE DEF even, deep, scaled, m, best
  <2>5. Good(even) /\ Good(deep)
    BY <2>2, <2>3
  <2>6. ASSUME n <= 3 PROVE Good(SubSeq(scaled, 1, n))
    <3>1. scaled \in Seq(Int) /\ Len(scaled) = 3
      <4>1. scaled \in [1..3 -> Int]
        BY <2>4
      <4> QED BY <4>1, FunctionIsSequence
    <3>2. Len(SubSeq(scaled, 1, n)) = n /\ \A j \in 1..n : SubSeq(scaled, 1, n)[j] = scaled[j]
      BY <2>6, <3>1
    <3>3. 1..n \subseteq 1..3
      BY <2>6
    <3> QED BY <2>4, <3>2, <3>3
  <2>7. Good(FirstDistinct(scaled \o even, n))
    <3> DEFINE S == {x \in Int : Inside(s, m, x)}
               all == scaled \o even
               out == FirstDistinct(all, n)
    <3>1. scaled \in Seq(S) /\ Len(scaled) = 3
      <4>1. scaled \in [1..3 -> S]
        <5>1. scaled \in [1..3 -> Int] /\ \A k \in 1..3 : scaled[k] \in S
          BY <2>4 DEF Inside
        <5> HIDE DEF S
        <5> QED BY <5>1
      <4> HIDE DEF S
      <4> QED BY <4>1, FunctionIsSequence
    <3>2. even \in Seq(S)
      <4>1. even \in [1..n -> S]
        <5>1. even \in [1..n -> Int] /\ \A k \in 1..n : even[k] \in S
          BY <2>2 DEF Inside
        <5> HIDE DEF S
        <5> QED BY <5>1
      <4> HIDE DEF S
      <4> QED BY <4>1, FunctionIsSequence
    <3>3. all \in Seq(S) /\ Len(all) > 0
      <4> HIDE DEF S, scaled, even
      <4> QED BY <3>1, <3>2, JoinedIsSequence
    <3> HIDE DEF S, all
    <3>4. out \in Seq(S) /\ Len(out) \in 1..n
      BY <3>3, DistinctAreListed
    <3> HIDE DEF out
    <3>5. \A j \in 1..Len(out) : out[j] \in S
      BY <3>4
    <3>6. \A x \in S : Inside(s, m, x)
      BY DEF S
    <3> QED BY <3>4, <3>5, <3>6 DEF out, all
  <2> HIDE DEF Good
  <2>8. Good(ComputeEntries(s, mode, n, gap))
    BY <1>1, <1>4, <2>5, <2>6, <2>7 DEF Modes
  <2> QED BY <2>8 DEF Good, m
<1> QED BY <1>3, <1>4

=============================================================================
