----------------------------- MODULE MCLiveFeeds -----------------------------
(* Plans for LiveFeeds: every replayed generator; the feed loop over nine     *)
(* minutes that cross a midnight and a month; auto_self over nine minutes,    *)
(* with breaks between them, of three days.  Also the signals a provider      *)
(* types, and by how many hundreds he may be off.                             *)
EXTENDS MCGeneratedFeeds, LiveFeeds, SignalCorrections, ProviderFeed

Plunge == [high |-> 5, low |-> -80, close |-> -75]
Path == <<Rise, Rise, Rise, Rise, Rise, Fall, Rise, Plunge, Fall>>
LoopPlan == [Base EXCEPT !.program = "loop", !.family = "files1", !.h1Filter = FALSE,
                         !.path = Path, !.minutes = <<6, 7, 8, 9, 10, 11, 12, 13, 14>>,
                         !.warm = 4, !.faults = 1]
Better   == [LoopPlan EXCEPT !.family = "better1", !.warm = 5]
LoopPlans == {LoopPlan, [Better EXCEPT !.fetchMonths = 1],
              [Better EXCEPT !.fetchMonths = 1, !.startDays = 0, !.recentMonths = 1]}

SelfPlan == [Base EXCEPT !.program = "self", !.h1Filter = FALSE,
                         !.path = <<Rise, Rise, Rise, Rise, Rise, Rise, Rise, Rise, Fall>>,
                         !.minutes = <<8, 9, 14, 15, 18, 19, 28, 29, 30>>,
                         !.warm = 5, !.faults = 1, !.spreads = BOOLEAN, !.cap = 1]
SelfPlans == {SelfPlan, [SelfPlan EXCEPT !.torn = TRUE, !.warm = 6, !.spreads = {FALSE}],
              [SelfPlan EXCEPT !.window = 5, !.warm = 6, !.spreads = {FALSE}]}
MCLivePlans == MCPlans \cup LoopPlans \cup SelfPlans
Typed(side, r1, r2, sl, tp) ==
    [time |-> 0, side |-> side, r1 |-> Dollars(r1), r2 |-> Dollars(r2), sl |-> Dollars(sl),
     tp |-> [n \in 1..3 |-> Dollars(tp[n])]]
MCGoods == {Typed("BUY", 4321, 4319, 4314, <<4325, 4330, 4335>>),
            Typed("BUY", 4319, 4321, 4311, <<4324, 4329, 4344>>),
            Typed("SELL", 4322, 4319, 4327, <<4316, 4313, 4290>>)}
MCSlips == -2..2

Preset(buy, sell, weak, ladder) == [buyHours |-> buy, sellHours |-> sell, weakDays |-> weak,
                                    ladder |-> ladder, maxRisk |-> Dollars(30)]
Everything == Preset(0..2, 0..2, {}, <<>>)
MCRules == {Everything, Preset({0, 2}, {1}, {}, <<3, 6, 10>>), Preset(0..2, 0..2, {0}, <<2, 4, 6>>)}
MCMessages == {[Typed("BUY", 4319, 4321, 4315, <<4325, 4330, 4335>>) EXCEPT !.sl = @ - 5],
               Typed("SELL", 4322, 4319, 4427, <<4316, 4313, 4310>>)}
MCPostTimes == {6, 13, 23, 25}

\* Beside the live programs a provider types, and a filter watches his file, each under a
\* plan of its own.
TypedPlan  == [Base EXCEPT !.program = "typed"]
FilterPlan == [Base EXCEPT !.program = "filter"]
NoMessage == {Typed("BUY", 12, 10, 5, <<17, 22, 27>>)}
ServiceInit == /\ LiveInit
               /\ TypingInit(IF plan = TypedPlan THEN Goods ELSE NoMessage)
               /\ ProviderInit(IF plan = FilterPlan THEN Rules ELSE {Everything})
ServiceNext == \/ plan \notin {TypedPlan, FilterPlan} /\ LiveNext /\ UNCHANGED <<typing, provider>>
               \/ plan = TypedPlan /\ TypingNext /\ UNCHANGED <<live, provider>>
               \/ plan = FilterPlan /\ ProviderNext /\ UNCHANGED <<live, typing>>
FilterFairness == \/ []<>~(plan = FilterPlan /\ FilterReady)
                  \/ []<><<plan = FilterPlan /\ FilterStep>>_provider
ServiceSpec == /\ ServiceInit /\ [][ServiceNext]_<<live, typing, provider>>
               /\ LiveFairness /\ FilterFairness
MCServicePlans == MCLivePlans \cup {TypedPlan, FilterPlan}
MCTypedPlans   == {TypedPlan}
MCFilterPlans  == {FilterPlan}
\* The configurations that contradict the documentation, or a simpler property.
MCForming  == {[LoopPlan EXCEPT !.warm = 5]}
MCRollover == {[LoopPlan EXCEPT !.warm = 5, !.fetchMonths = 1]}
MCNarrow   == {[SelfPlan EXCEPT !.window = 5]}
MCTorn     == {[SelfPlan EXCEPT !.torn = TRUE]}
==============================================================================
