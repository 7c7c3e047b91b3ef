------------------------ MODULE LineSegmentEstimator ------------------------
(***************************************************************************)
(* LineSegmentEstimator (include/LineSegmentEstimator.hpp) splits the n    *)
(* values of a MeasurementValues into intervals at change points. What is  *)
(* modelled is which elements it reads and which change points it can      *)
(* return; what the values say is left open: the outcome of a comparison   *)
(* of variances may be either. n is not 0: with no values n - 1 turns over *)
(* in the loop of totalVariationOfMeanValues.                              *)
(***************************************************************************)
EXTENDS Integers, Sequences

MeanWindow == 6            \* default_window_size of the mean values
RegressionWindow == 10     \* and of the linear regression

WindowSize(n, default) == IF default < n \div 4 THEN default ELSE n \div 4

(* estimateStatistics: the values around value i that it looks at.         *)
StatisticsWindow(n, w, i) ==
    LET t == IF i > n - w - 1 THEN n - i - 1 ELSE IF i < w THEN i ELSE w
    IN  (i - t)..(i + t)

(***************************************************************************)
(* totalVariationOfMeanValues: the turns of its loop, the estimates that a *)
(* turn reads, and the change point that it may find.                      *)
(***************************************************************************)
MeanTurns(n, w) == {c \in 1..n : c + 2 * w + 1 < n - 1}
MeanReads(w, c) == (c - 1)..(c + 1) \cup (c + 2 * w)..(c + 2 * w + 2)

MeanChange(w, c) == c + w

(* One turn finds a local minimum, which the next turn cannot be.          *)
findChangePointsOfMeanValues(n) ==
    LET w == WindowSize(n, MeanWindow)
    IN  {{MeanChange(w, c) : c \in minima} :
           minima \in {m \in SUBSET MeanTurns(n, w) : \A c \in m : c + 1 \notin m}}

(***************************************************************************)
(* totalVariationOfLinearRegressionValues: a first pass collects minima,   *)
(* of which one replaces the one before it when it is cheaper and lies     *)
(* less than two windows behind it; a second pass drops those below the    *)
(* noise. lower is the set of centers whose cost is lower than the last    *)
(* minimum's when they are compared.                                       *)
(***************************************************************************)
RegressionTurns(n, w) == {c \in 0..n : c + 2 * w + 1 < n}
RegressionReads(w, c) == {c, c + 2 * w + 1}

(* Mutant: minima do not replace each other.                               *)
MinimaAll(n, w, lower) ==
    LET minima[k \in 0..n] == IF k = 0 THEN << >> ELSE Append(minima[k - 1], k - 1 + w)
    IN  minima[n - 2 * w - 1]

(* minima[k] is what the first k turns have found; turn k has center k - 1.*)
Minima(n, w, lower) ==
    LET minima[k \in 0..n] ==
          IF k = 0 THEN << >>
          ELSE LET before == minima[k - 1]
                   change == k - 1 + w
               IN  IF before # << >> /\ change <= before[Len(before)] + 2 * w
                   THEN IF k - 1 \in lower THEN [before EXCEPT ![Len(before)] = change] ELSE before
                   ELSE Append(before, change)
    IN  minima[n - 2 * w - 1]

findChangePointsOfLinearRegressionValues(n) ==
    LET w == WindowSize(n, RegressionWindow)
    IN  UNION {LET minima == Minima(n, w, lower)
               IN  SUBSET {minima[i] : i \in DOMAIN minima} : lower \in SUBSET RegressionTurns(n, w)}

(***************************************************************************)
(* findPiecewiseConstantIntervals, findPiecewiseLinearIntervals: the       *)
(* values between change points; an end index belongs to its interval. The *)
(* change points are found in ascending order, so that their set is all    *)
(* there is to know of them.                                               *)
(***************************************************************************)
NextEnd(n, changes, start) ==
    LET behind == {c \in changes : start <= c}
    IN  IF behind = {} THEN n - 1 ELSE CHOOSE c \in behind : \A d \in behind : c <= d

Intervals(n, changes) ==
    {[start_index |-> start, end_index |-> NextEnd(n, changes, start)] :
        start \in {0} \cup {c + 1 : c \in changes}}

findPiecewiseConstantIntervals(n) ==
    {Intervals(n, changes) : changes \in findChangePointsOfMeanValues(n)}

findPiecewiseLinearIntervals(n) ==
    {Intervals(n, changes) : changes \in findChangePointsOfLinearRegressionValues(n)}

=============================================================================
