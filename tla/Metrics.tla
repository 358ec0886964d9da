------------------------------ MODULE Metrics ------------------------------
(***************************************************************************)
(* The path-dependent statistics of a backtest (src/src/backtest/          *)
(* metrics.ts), computed in one pass as the program does, and reference    *)
(* definitions of what they should be.                                     *)
(*                                                                         *)
(* An equity curve is a sequence of [time, value], times ascending and     *)
(* values positive; trades is a sequence of profits.  Percentages are      *)
(* fractions <<n, d>>.                                                     *)
(***************************************************************************)
EXTENDS Integers, Sequences, SequencesExt

Less(a, b) == a[1] * b[2] < b[1] * a[2]

Loss(peak, value) == IF peak > 0 THEN <<peak - value, peak>> ELSE <<0, 1>>

Longer(maxDD, duration, longest) ==
  IF maxDD[1] > 0 /\ duration > longest THEN duration ELSE longest

AtPeak(d, sample) ==
  [d EXCEPT !.longest = Longer(d.max, sample.time - d.start, @),
            !.peak = sample.value, !.start = sample.time]

BelowPeak(d, sample) ==
  [d EXCEPT !.max = IF Less(@, Loss(d.peak, sample.value)) THEN Loss(d.peak, sample.value) ELSE @]

\* Mutant of DrawdownStep: the peak is the sample before.
DrawdownStepFromLast(d, sample) ==
  IF sample.value >= d.peak THEN AtPeak(d, sample)
  ELSE [BelowPeak(d, sample) EXCEPT !.peak = sample.value]

DrawdownStep(d, sample) ==
  IF sample.value >= d.peak THEN AtPeak(d, sample) ELSE BelowPeak(d, sample)

\* computeDrawdown: the deepest loss from a peak, and the longest time between
\* two peaks, or since the last one, once there was a loss.
ComputeDrawdown(equity) ==
  LET d == FoldLeft(DrawdownStep,
                    [peak |-> equity[1].value, max |-> <<0, 1>>, longest |-> 0,
                     start |-> equity[1].time], equity)
  IN IF Len(equity) < 2 THEN [max |-> <<0, 1>>, longest |-> 0]
     ELSE [max |-> d.max,
           longest |-> Longer(d.max, equity[Len(equity)].time - d.start, d.longest)]

ComputeDrawdownTimeseries(equity) ==
  LET Add(acc, sample) ==
        LET peak == Max({acc.peak, sample.value})
        IN [peak |-> peak, losses |-> Append(acc.losses, Loss(peak, sample.value))]
  IN FoldLeft(Add, [peak |-> equity[1].value, losses |-> <<>>], equity).losses

\* The longest streak of trades that count, in one pass.
Streak(counts) ==
  LET Add(s, c) == LET current == IF c THEN s.current + 1 ELSE 0
                   IN [current |-> current, max |-> Max({s.max, current})]
  IN FoldLeft(Add, [current |-> 0, max |-> 0], counts).max

Wins(trades) == [i \in DOMAIN trades |-> trades[i] > 0]
Losses(trades) == [i \in DOMAIN trades |-> trades[i] < 0]

MaxConsecutiveWins(trades) == Streak(Wins(trades))
MaxConsecutiveLosses(trades) == Streak(Losses(trades))

-----------------------------------------------------------------------------
(* References.                                                             *)

Pairs(s) == (DOMAIN s) \X (DOMAIN s)

\* l is the largest of the losses between two moments of the curve.
IsDeepestLoss(l, equity) ==
  LET losses == {<<equity[p[1]].value - equity[p[2]].value, equity[p[1]].value>> :
                   p \in {q \in Pairs(equity) : q[1] <= q[2]}}
  IN /\ \A m \in losses : ~Less(l, m)
     /\ \E m \in losses : ~Less(l, m) /\ ~Less(m, l)

\* The longest time t for which the curve goes without a new peak, beginning at a
\* peak, of those that end after the first loss.
IsLongestWait(t, equity) ==
  LET Peak(i) == \A h \in 1..i : equity[h].value <= equity[i].value
      waits == {p \in Pairs(equity) :
                  /\ p[1] < p[2] /\ Peak(p[1])
                  /\ \A h \in p[1] + 1 .. p[2] - 1 : ~Peak(h)
                  /\ \E h \in 1..p[2] : ~Peak(h)}
  IN /\ \A p \in waits : equity[p[2]].time - equity[p[1]].time <= t
     /\ t = 0 \/ \E p \in waits : equity[p[2]].time - equity[p[1]].time = t

\* n is the length of the longest stretch of trades that all count.
IsLongestStretch(n, counts) ==
  LET stretches == {p \in Pairs(counts) : \A i \in p[1]..p[2] : counts[i]}
  IN /\ \A p \in stretches : p[2] - p[1] + 1 <= n
     /\ n = 0 \/ \E p \in stretches : p[2] - p[1] + 1 = n

=============================================================================
