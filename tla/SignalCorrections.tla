--------------------------- MODULE SignalCorrections ---------------------------
(***************************************************************************)
(* What the listener does to a parsed message before it writes the line:   *)
(* apply_signal_corrections repairs slips of the keyboard -- a range, a    *)
(* stop or a target a hundred away, or on the wrong side -- and rates what *)
(* comes out.  Prices are in ticks, One of them to a dollar; the formatted *)
(* list of changes is left out.                                            *)
(***************************************************************************)
EXTENDS SignalText

CONSTANTS Goods,    \* signals as the provider means them
          Slips     \* hundreds a price may be off by

ASSUME TypingAssumption ==
    /\ One \in Nat \ {0} /\ Slips \subseteq Int
    /\ \A g \in Goods : /\ {"side", "r1", "r2", "sl", "tp"} \subseteq DOMAIN g
                       /\ g.side \in {"BUY", "SELL"} /\ {g.r1, g.r2, g.sl} \subseteq Int
                       /\ g.tp \in [1..3 -> Int]

VARIABLES meant,    \* the signal the provider has in mind
          typed,    \* what has been typed of it
          slips,    \* the fields he slipped in
          line      \* what the listener writes for it

typing == <<meant, typed, slips, line>>

Dollars(n) == n * One
Distance(a, b) == IF a > b THEN a - b ELSE b - a

\* The best of a sequence under a key of two numbers, the first one when keys are equal.
FirstBest(s, Key(_)) ==
    s[CHOOSE i \in DOMAIN s : \A j \in DOMAIN s :
        \/ Key(s[i])[1] < Key(s[j])[1]
        \/ Key(s[i])[1] = Key(s[j])[1] /\ Key(s[i])[2] < Key(s[j])[2]
        \/ Key(s[i]) = Key(s[j]) /\ i <= j]

TpOrderOk(s) ==
    LET d == SignOf(s.side)   near == IF s.side = "BUY" THEN RangeHigh(s) ELSE RangeLow(s) IN
    d * s.tp[1] > d * near /\ d * s.tp[2] > d * s.tp[1] /\ d * s.tp[3] > d * s.tp[2]
\* How far the stop is behind the range, and the last target before it.
SlDistance(s) == IF s.side = "BUY" THEN RangeLow(s) - s.sl ELSE s.sl - RangeHigh(s)
Tp3Reach(s)   == IF s.side = "BUY" THEN s.tp[3] - RangeHigh(s) ELSE RangeLow(s) - s.tp[3]
SlSideOk(s)   == SlDistance(s) > 0
StructuralOk(s) == SlSideOk(s) /\ TpOrderOk(s)

\* Risk to reward is no part of it.
LogicErrorCount(s) ==
    LET width == Distance(s.r1, s.r2) IN
    (IF width = Dollars(2) THEN 0 ELSE IF width = Dollars(3) THEN 1 ELSE 20)
    + (IF SlSideOk(s) THEN 0 ELSE 30) + (IF TpOrderOk(s) THEN 0 ELSE 30)

-----------------------------------------------------------------------------
(* Repairs of a price                                                      *)

LevelSteps == {(One \div 2) * k : k \in {10, 15, 20, 30, 40, 60, 80, 100, 200, 400, 600, 800, 1000}}
Anchor(s)  == (s.r1 + s.r2) \div 2

\* A whole price of five digits or more with one of them dropped.
Tens == {1, 10, 100, 1000, 10000, 100000, 1000000, 10000000, 100000000}
OneDigitLess(n) ==
    IF n < 10000 THEN {}
    ELSE {(n \div (10 * t)) * t + (n % t) : t \in {t \in Tens : t <= n}}
CandidatePrices(current, anchor) ==
    LET whole == current \div One
        base  == (anchor \div Dollars(100)) * 100
        wholes == IF current % One # 0 THEN {}
                 ELSE OneDigitLess(whole) \cup {base + 100 * k + (whole % 100) : k \in -6..6}
    IN  {c \in {current} \cup {current + step : step \in LevelSteps}
               \cup {current - step : step \in LevelSteps} \cup {Dollars(p) : p \in wholes} : c > 0}

\* The nearest candidate that would do, else the price as it is.
ChoosePrice(current, candidates, Fits(_), anchor) ==
    LET valid == {c \in candidates : Fits(c)}
        closer(c, e) == \/ Distance(c, current) < Distance(e, current)
                        \/ Distance(c, current) = Distance(e, current) /\ Distance(c, anchor) < Distance(e, anchor)
                        \/ Distance(c, current) = Distance(e, current) /\ Distance(c, anchor) = Distance(e, anchor) /\ c <= e
    IN  IF valid = {} THEN current ELSE CHOOSE c \in valid : \A e \in valid : closer(c, e)

\* The range moves only when it makes stop and targets impossible.
RangeShifts == [k \in 1..11 |-> Dollars(100) * (k - 6)]
ChooseRange(s) ==
    LET away(r1) == IF s.side = "BUY" THEN <<r1 - Dollars(2), r1 + Dollars(2)>>
                                      ELSE <<r1 + Dollars(2), r1 - Dollars(2)>>
        shifted(x) == <<<<s.r1 + x, s.r2 + x>>, <<s.r1 + x, away(s.r1 + x)[1]>>, <<s.r1 + x, away(s.r1 + x)[2]>>>>
        pairs == [i \in 1..34 |-> IF i = 1 THEN <<s.r1, s.r2>>
                                  ELSE shifted(RangeShifts[(i + 1) \div 3])[1 + ((i + 1) % 3)]]
        score(p) == <<LogicErrorCount([s EXCEPT !.r1 = p[1], !.r2 = p[2]]),
                      Distance(p[1], s.r1) + Distance(p[2], s.r2)>>
        best == FirstBest(pairs, score)
    IN  IF StructuralOk(s) THEN s ELSE [s EXCEPT !.r1 = best[1], !.r2 = best[2]]

Tp3Outlier(s) ==
    LET step == Max({Distance(s.tp[1], s.tp[2]), Dollars(1)}) IN
    SignOf(s.side) * (s.tp[3] - s.tp[2]) > Max({Dollars(50), 4 * step})

\* The targets in turn, each between its neighbours as they are by then.
FixTpLevels(s) ==
    LET d == SignOf(s.side)
        near == IF s.side = "BUY" THEN RangeHigh(s) ELSE RangeLow(s)
        between(lo, hi, x) == d * x > d * lo /\ d * x < d * hi
        repair(x, candidates, Fits(_)) == ChoosePrice(x, candidates, Fits, Anchor(s))
        tp1 == IF between(near, s.tp[2], s.tp[1]) THEN s.tp[1]
               ELSE repair(s.tp[1], CandidatePrices(s.tp[1], Anchor(s)), LAMBDA c : between(near, s.tp[2], c))
        tp2 == IF between(tp1, s.tp[3], s.tp[2]) THEN s.tp[2]
               ELSE repair(s.tp[2], CandidatePrices(s.tp[2], Anchor(s)), LAMBDA c : between(tp1, s.tp[3], c))
        far == Tp3Outlier([s EXCEPT !.tp = <<tp1, tp2, s.tp[3]>>])
        tp3 == IF d * s.tp[3] > d * tp2 /\ ~far THEN s.tp[3]
               ELSE repair(s.tp[3],
                        CandidatePrices(s.tp[3], Anchor(s)) \ (IF far THEN {s.tp[3]} ELSE {}),
                        LAMBDA c : d * c > d * tp2)
    IN  [s EXCEPT !.tp = <<tp1, tp2, tp3>>]

FixSlLevel(s) ==
    [s EXCEPT !.sl = ChoosePrice(s.sl, CandidatePrices(s.sl, Anchor(s)),
                                 LAMBDA c : SlSideOk([s EXCEPT !.sl = c]), Anchor(s))]
\* A stop on the right side but implausibly far comes back by whole hundreds, if it can.
MaxPlausible(s) == Max({Dollars(50), 2 * Max({Tp3Reach(s), 0})})
FaultyFixSlOutlier(s) ==
    LET moved == {[s EXCEPT !.sl = s.sl + Dollars(100) * n] : n \in -6..6}
    IN  CHOOSE m \in moved : \A o \in moved : SlDistance(m) <= SlDistance(o)
FixSlOutlier(s) ==
    LET moved == {[s EXCEPT !.sl = s.sl + Dollars(100) * n] : n \in -6..6}
        fit   == {m \in moved : SlSideOk(m) /\ SlDistance(m) <= MaxPlausible(s)}
    IN  IF SlDistance(s) <= MaxPlausible(s) \/ fit = {} THEN s
        ELSE CHOOSE m \in fit : \A o \in fit : SlDistance(m) <= SlDistance(o)

\* apply_signal_corrections: the range, the targets against it, then the stop.
Corrected(s) ==
    LET ranged  == ChooseRange(s)
        aimed   == FixTpLevels(ranged)
    IN  IF SlSideOk(aimed) THEN FixSlOutlier(aimed) ELSE FixSlLevel(aimed)
NeedsReview(s) == LogicErrorCount(Corrected(s)) >= 30

\* The rating against the best entry of the ladder; a risk or a reward of none is invalid.
BestLadderEntry(s) == IF s.side = "BUY" THEN Min(Range(EntriesFor(s))) ELSE Max(Range(EntriesFor(s)))
RrBucket(s) ==
    LET d == SignOf(s.side)
        risk   == d * (BestLadderEntry(s) - s.sl)
        reward == d * (s.tp[1] - BestLadderEntry(s))
    IN  IF risk <= 0 \/ reward <= 0 THEN "INVALID_RR" ELSE IF reward >= risk THEN "GOOD_TP1_RR" ELSE "LOW_TP1_RR"

-----------------------------------------------------------------------------
(* A provider at the keyboard                                              *)

Fields == {"range", "sl", "tp1", "tp2", "tp3"}
Slipped(s, field, by) ==
    CASE field = "range" -> [s EXCEPT !.r1 = @ + by, !.r2 = @ + by]
      [] field = "sl"  -> [s EXCEPT !.sl = @ + by]
      [] field = "tp1" -> [s EXCEPT !.tp[1] = @ + by]
      [] field = "tp2" -> [s EXCEPT !.tp[2] = @ + by]
      [] field = "tp3" -> [s EXCEPT !.tp[3] = @ + by]

TypingInit(signals0) == meant \in signals0 /\ typed = meant /\ slips = <<>> /\ line = Corrected(meant)
\* One field goes off by hundreds, and the listener makes what it can of the message.
Slip(field, n) ==
    /\ Len(slips) < 2 /\ n # 0
    /\ typed' = Slipped(typed, field, Dollars(100 * n))
    /\ slips' = Append(slips, field)
    /\ line' = Corrected(typed')
    /\ UNCHANGED meant
TypingNext == \E field \in Fields, n \in Slips : Slip(field, n)

-----------------------------------------------------------------------------
(* Properties                                                              *)

\* A slip in one of these fields of a range of two dollars is undone.
Undone(fields) ==
    Len(slips) = 1 /\ Range(slips) \subseteq fields /\ Distance(meant.r1, meant.r2) = Dollars(2)
        => line = meant
\* What is written without a request for review is a signal the engine will trade, and one
\* that can be rated.
Readable == ~NeedsReview(typed) => ~Structural(line) /\ RrBucket(line) # "INVALID_RR"

\* A sound signal is written as it is; a stop or one of the first two targets typed hundreds
\* off is what the provider meant again; and after two slips anywhere the line is readable
\* by the engine or marked for review (apply_signal_corrections).
CorrectionsAreSound ==
    /\ slips = <<>> => line = meant
    /\ Undone({"sl", "tp1", "tp2"})
    /\ Readable
\* The playbook promises the same of the last target.
LastTargetUndone == Undone({"tp3"})
=============================================================================
