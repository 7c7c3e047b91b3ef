-------------------------- MODULE MeasurementValues --------------------------
(***************************************************************************)
(* MeasurementValues (include/MeasurementValues.hpp), a RingBuffer of      *)
(* values with the 32 bit time of each. Searches and estimates read the    *)
(* buffer through at(). A double is modelled by the exact fraction that it *)
(* stands for; a fraction with denominator 0 is a division by zero.        *)
(***************************************************************************)
EXTENDS RingBuffer, SpeedwireTime, LineSegmentEstimator

CONSTANT MaxValues     \* the largest number of values that is segmented

ASSUME ValuesAssumption == \A v \in Values : v.time \in Times /\ v.value \in Int
ASSUME MaxValuesAssumption == MaxValues \in Nat

Fraction(num, den) == [num |-> num, den |-> den]
NoValue == Fraction(0, 1)

Lesser(a, b) == IF a < b THEN a ELSE b
Greater(a, b) == IF a < b THEN b ELSE a

Distance(time, i) == calculateAbsTimeDifference(time, at(i).time)

(* A binary search by the signed difference to the element in the middle   *)
(* of the range from low to high.                                          *)
findClosestIndex(time) ==
    LET search[range \in (0..(size - 1)) \X (0..(size - 1))] ==
          LET low  == range[1]
              high == range[2]
              mid  == (low + high) \div 2
          IN  IF low + 1 < high
              THEN IF calculateTimeDifference(time, at(mid).time) > 0
                   THEN search[<<mid, high>>] ELSE search[<<low, mid>>]
              ELSE IF Distance(time, low) < Distance(time, high) THEN low ELSE high
    IN  IF size > 0 THEN search[<<0, size - 1>>] ELSE OutOfBounds

findClosestMeasurement(time) ==
    IF findClosestIndex(time) # OutOfBounds THEN at(findClosestIndex(time)) ELSE Garbage

(* The mean of elements i < j, weighted by the distance to the other one.  *)
Interpolated(time, i, j) ==
    Fraction(Distance(time, j) * at(i).value + Distance(time, i) * at(j).value,
             Distance(time, i) + Distance(time, j))

(* Mutant: always with the element behind, where there is one.             *)
interpolateClosestValuesBehind(time) ==
    LET center == findClosestIndex(time)
    IN  IF center = OutOfBounds THEN NoValue
        ELSE IF size = 1 THEN Fraction(at(center).value, 1)
        ELSE IF center < size - 1 THEN Interpolated(time, center, center + 1)
        ELSE Interpolated(time, center - 1, center)

interpolateClosestValues(time) ==
    LET center == findClosestIndex(time)
        before == IF center > 0 THEN center - 1 ELSE center
        after  == IF center < size - 1 THEN center + 1 ELSE center
    IN  IF center = OutOfBounds THEN NoValue
        ELSE IF size = 1 THEN Fraction(at(center).value, 1)
        ELSE IF \/ after = center
                \/ before # center /\ Distance(time, before) <= Distance(time, after)
             THEN Interpolated(time, before, center)
             ELSE Interpolated(time, center, after)

(* What the turns of a loop from one index to another add up.              *)
SumOver(term, from, to) ==
    LET sum[n \in 0..(to - from + 1)] == IF n = 0 THEN 0 ELSE sum[n - 1] + term[from + n - 1]
    IN  sum[to - from + 1]

(* The values of a window, and their mean, in the order of the ring.       *)
ValuesOf(from, to) == [i \in from..to |-> at(i).value]

estimateMeanOf(from, to) == Fraction(SumOver(ValuesOf(from, to), from, to), to - from + 1)

(* The mean of all elements, in the order of the data vector.              *)
estimateMean ==
    Fraction(SumOver([d \in 0..(size - 1) |-> data_vector[d].value], 0, size - 1), size)

(* The sample variance, n times (n - 1) as large: exact without fractions. *)
(* Denominator 0 stands for the FLT_MAX of a window of one value.          *)
estimateMeanAndVariance(from, to) ==
    LET n  == to - from + 1
        y  == SumOver(ValuesOf(from, to), from, to)
        yy == SumOver([i \in from..to |-> at(i).value * at(i).value], from, to)
    IN  [mean |-> Fraction(y, n), variance |-> Fraction(n * yy - y * y, n * (n - 1))]

(* Mutant: the x coordinate is the index in the ring.                      *)
estimateLinearRegressionFromZero(from, to) ==
    LET m  == to - from
        y  == SumOver(ValuesOf(from, to), from, to)
        xy == SumOver([i \in from..to |-> at(i).value * i], from, to)
        xVar == m * (m + 1) * (2 * m + 1) * 4 - m * m * (m + 1) * 6
    IN  IF xVar * 2 * (m + 1) = 0 THEN NoValue
        ELSE Fraction((xy * 2 - m * y) * (24 * (m + 1)), xVar * (2 * (m + 1)))

(* The slope by the formula of the code, with x_var and xy_var as integers *)
(* over a common denominator.                                              *)
estimateLinearRegression(from, to) ==
    LET m  == to - from
        y  == SumOver(ValuesOf(from, to), from, to)
        xy == SumOver([i \in from..to |-> at(i).value * (i - from)], from, to)
        xVar == m * (m + 1) * (2 * m + 1) * 4 - m * m * (m + 1) * 6
    IN  IF xVar * 2 * (m + 1) = 0 THEN NoValue
        ELSE Fraction((xy * 2 - m * y) * (24 * (m + 1)), xVar * (2 * (m + 1)))

-----------------------------------------------------------------------------
(***************************************************************************)
(* Properties.                                                             *)
(***************************************************************************)

(* The times as distances from a base time, from which the elements, added *)
(* in the order of their times, and the time that is asked for, span less  *)
(* than half of the range. The bases are all such times.                   *)
From(base, time) == (time - base) % TimeMax

Bases(time) ==
    {base \in Times :
        /\ From(base, time) < Half
        /\ \A i \in 0..(size - 1) : From(base, at(i).time) < Half
        /\ \A i \in 1..(size - 1) : From(base, at(i - 1).time) < From(base, at(i).time)}

Gap(a, b) == IF a < b THEN b - a ELSE a - b

Equal(f, g) == f.num * g.den = g.num * f.den /\ f.den # 0 /\ g.den # 0

(* findClosestIndex finds an element that no other one is closer to the    *)
(* time than, wherever the ring and the time turn over.                    *)
FindsClosest ==
    \A time \in Times : \A base \in Bases(time) : \A i \in 0..(size - 1) :
        Gap(From(base, findClosestMeasurement(time).time), From(base, time))
            <= Gap(From(base, at(i).time), From(base, time))

(* interpolateClosestValues takes the two closest elements: it returns the *)
(* value of the line through them when the time lies between them, never   *)
(* leaves the range of their values, and never divides by zero.            *)
InterpolatesTwoClosest ==
    \A time \in Times : size > 1 => \A base \in Bases(time) :
        \E i \in 0..(size - 2) :
            LET t(k) == From(base, at(k).time)
                x    == From(base, time)
                f    == interpolateClosestValues(time)
                u    == at(i).value
                v    == at(i + 1).value
            IN  /\ \A k \in (0..(size - 1)) \ {i, i + 1} :
                      \A c \in {i, i + 1} : Gap(t(c), x) <= Gap(t(k), x)
                /\ f.den > 0
                /\ f.num \in (f.den * Lesser(u, v))..(f.den * Greater(u, v))
                /\ x \in t(i)..t(i + 1) =>
                      Equal(f, Fraction(u * (t(i + 1) - x) + v * (x - t(i)), t(i + 1) - t(i)))

(* The slope is the least squares slope over any window of at least two    *)
(* elements, and the variance is that of the deviations from the mean: the *)
(* sums of the code agree with the definitions. The mean of the buffer in  *)
(* the order of the vector is that of the ring.                            *)
EstimatesExact ==
    /\ size > 0 => Equal(estimateMean, estimateMeanOf(0, size - 1))
    /\ \A from, to \in 0..(size - 1) : from < to =>
          LET n == to - from + 1
              X(i) == 2 * (i - from) - (n - 1)               \* twice x - mean(x)
              Y(i) == n * at(i).value - estimateMeanOf(from, to).num
          IN  /\ Equal(estimateLinearRegression(from, to),
                       Fraction(2 * SumOver([i \in from..to |-> X(i) * at(i).value], from, to),
                                SumOver([i \in from..to |-> X(i) * X(i)], from, to)))
              /\ Equal(estimateMeanAndVariance(from, to).variance,
                       Fraction(SumOver([i \in from..to |-> Y(i) * Y(i)], from, to), n * n * (n - 1)))

(***************************************************************************)
(* The segmentation of n values, whatever they are, for as many values as  *)
(* the buffer holds and for more, up to MaxValues.                         *)
(***************************************************************************)
Sizes == Greater(size, 1)..MaxValues

Partitions == [n \in 1..MaxValues |->
    \A segments \in findPiecewiseConstantIntervals(n) \cup findPiecewiseLinearIntervals(n) :
        /\ \A s \in segments : s.start_index <= s.end_index
        /\ UNION {s.start_index..s.end_index : s \in segments} = 0..(n - 1)
        /\ \A s, t \in segments : s = t \/ s.end_index < t.start_index \/ t.end_index < s.start_index]

(* The segments cover all elements, without gap or overlap.                *)
SegmentsPartition == \A n \in Sizes : Partitions[n]

SpansWindows == [n \in 1..MaxValues |->
    \A segments \in findPiecewiseLinearIntervals(n) : \A s \in segments :
        s.start_index = 0 \/ s.end_index = n - 1
            \/ s.end_index - s.start_index >= 2 * WindowSize(n, RegressionWindow)]

(* The segments between regression change points are longer than the two   *)
(* windows that found them, although a change point moves when a cheaper   *)
(* one is found behind it.                                                 *)
RegressionSegmentsSpanWindows == \A n \in Sizes : SpansWindows[n]

ReadsInBounds == [n \in 1..MaxValues |->
    LET v == WindowSize(n, MeanWindow)
        w == WindowSize(n, RegressionWindow)
    IN  /\ \A i \in 0..(n - 1) :
              StatisticsWindow(n, v, i) \cup StatisticsWindow(n, w, i) \subseteq 0..(n - 1)
        /\ \A c \in MeanTurns(n, v) : MeanReads(v, c) \subseteq 0..(n - 1)
        /\ \A c \in RegressionTurns(n, w) : RegressionReads(w, c) \subseteq 0..(n - 1)]

(* Values and estimates are read inside of their vectors only.             *)
EstimatesReadInBounds == \A n \in Sizes : ReadsInBounds[n]

(* Segmentation, for any values: it reads inside of its vectors, and what  *)
(* it makes of the change points covers the values once, in segments that  *)
(* are not shorter than what it looked at to find them.                    *)
SegmentsSound == SegmentsPartition /\ RegressionSegmentsSpanWindows /\ EstimatesReadInBounds

=============================================================================
