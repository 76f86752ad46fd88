---------------------------- MODULE PostureForecast ----------------------------
(* What the posture pages foretell. A trend's series grows day by day, with    *)
(* days no run recorded; its forecast is a least-squares line over the points, *)
(* graded by fit, age and gaps. All fractions are kept as integer numerators   *)
(* over one denominator. And a finding ages in the risk window of its          *)
(* severity: how much of the window has burned, the state that gives it, and   *)
(* the whole days left. The ages are hours; the code rounds days to tenths and *)
(* the burn to hundredths, half up.                                            *)
EXTENDS Integers, Sequences, FiniteSetsExt, SequencesExt

CONSTANTS Values,           \* values a trend may take
          MaxDays,          \* bound: length of the history
          MaxTurns,         \* bound: days the trend turns or nothing is recorded
          MaxHours          \* bound: age of the finding

VARIABLES series,           \* the points: their day and value
          day,              \* today
          turns,
          severity, hours   \* the finding's, and its age

forecastVars == <<series, day, turns>>
riskWindowVars == <<severity, hours>>
postureVars == <<forecastVars, riskWindowVars>>

TypeOK ==
  /\ \A n \in DOMAIN series : series[n].day \in 1 .. day /\ series[n].value \in Values
  /\ \A n, m \in DOMAIN series : n < m => series[n].day < series[m].day
  /\ day \in 1 .. MaxDays /\ turns \in 0 .. MaxTurns
  /\ severity \in {"critical", "high", "medium", "low"} /\ hours \in 0 .. MaxHours

Init ==
  /\ \E v \in Values : series = <<[day |-> 1, value |-> v]>>
  /\ day = 1 /\ turns = 0
  /\ severity \in {"critical", "high", "medium", "low"} /\ hours = 0

\* A run puts the day's value; a day without one leaves a hole.
PutValue(v) ==
  /\ day < MaxDays /\ day' = day + 1
  /\ series' = Append(series, [day |-> day', value |-> v])

LastStep == IF Len(series) = 1 THEN 0 ELSE Last(series).value - series[Len(series) - 1].value

GoesOn == Last(series).value + LastStep

\* The trend goes on as before, or turns.
NextDay ==
  \/ GoesOn \in Values /\ PutValue(GoesOn) /\ UNCHANGED turns
  \/ /\ turns < MaxTurns /\ turns' = turns + 1
     /\ \/ \E v \in Values : PutValue(v)
        \/ day < MaxDays /\ day' = day + 1 /\ UNCHANGED series

\* An hour passes for the finding.
NextHour == hours < MaxHours /\ hours' = hours + 1 /\ UNCHANGED severity

Next ==
  \/ NextDay /\ UNCHANGED riskWindowVars
  \/ NextHour /\ UNCHANGED forecastVars

Spec == Init /\ [][Next]_postureVars

-----------------------------------------------------------------------------
(* forecastSeries: abscissae are the points' indices 0 .. n - 1. *)

MinPoints == 5                              \* FORECAST_MIN_POINTS
Points == Len(series)
SumOver(f(_)) == MapThenSumSet(f, DOMAIN series)
X(n) == n - 1
Y(n) == series[n].value
SumX == SumOver(X)
SumY == SumOver(Y)
SumXX == SumOver(LAMBDA n : X(n) * X(n))
SumXY == SumOver(LAMBDA n : X(n) * Y(n))
SumYY == SumOver(LAMBDA n : Y(n) * Y(n))

\* n times the usual centred sums.
Sxx == Points * SumXX - SumX * SumX         \* the denominator
Sxy == Points * SumXY - SumX * SumY         \* slope = Sxy / Sxx
Syy == Points * SumYY - SumY * SumY

Known == Points >= MinPoints /\ Sxx # 0     \* otherwise there is no forecast

\* The line at x, over Points * Sxx.
LineAt(x) == SumY * Sxx + Sxy * (Points * x - SumX)

\* Variance of the residuals times Points^2 * Sxx.
Residual == Syy * Sxx - Sxy * Sxy

\* stddev <= scale * tenths / 10, with scale the larger of the mean and 1.
Tight(tenths) ==
  LET scale == Max({SumY, Points}) IN Residual * 100 <= tenths * tenths * scale * scale * Sxx

\* Mutant: a week is enough.
FitWeek ==
  IF Points >= 7 /\ Tight(1) THEN 2
  ELSE IF Points >= 7 /\ Tight(3) THEN 1 ELSE 0

Fit ==
  IF Points >= 14 /\ Tight(1) THEN 2
  ELSE IF Points >= 7 /\ Tight(3) THEN 1 ELSE 0

\* Confidences are 2 (high), 1 (medium), 0 (low).
Downgrade(confidence) == Max({0, confidence - 1})

StaleRun == day - Last(series).day > 2      \* STALE_RUN_MS
Gaps == Last(series).day - Head(series).day + 1 - Points >= 3

\* buildForecast.
Confidence ==
  LET stale == IF StaleRun THEN Downgrade(Fit) ELSE Fit IN
  IF Gaps THEN Downgrade(stale) ELSE stale

\* The projected value, over Points * Sxx; never below zero.
Projected(days) == Max({0, LineAt(Points - 1 + days)})

-----------------------------------------------------------------------------
(* issueSlo. *)

WindowDays ==
  CASE severity = "critical" -> 7 [] severity = "high" -> 30
    [] severity = "medium" -> 90 [] severity = "low" -> 180

AgeTenths(h) == (h * 20 + 24) \div 48
Burn(h) == (AgeTenths(h) * 20 + WindowDays) \div (2 * WindowDays)

StateAt(h) ==
  IF Burn(h) > 100 THEN "breached" ELSE IF Burn(h) >= 80 THEN "burning" ELSE "ok"

BreachIn(h) == Max({0, (10 * WindowDays - AgeTenths(h) + 9) \div 10})

-----------------------------------------------------------------------------
(* Properties. *)

\* No other line with whole coefficients lies closer to the points (forecast.ts,
\* "an ordinary least-squares line").
NoBetterLine ==
  Known /\ Points <= 8 =>
    \A a \in 0 .. 2, b \in -1 .. 1 :
      Residual <= Points * Sxx * SumOver(LAMBDA n : (Y(n) - a - b * X(n)) * (Y(n) - a - b * X(n)))

\* A series on a straight line is projected along it, never below zero.
LinesGoOn ==
  Known /\ (\A n \in DOMAIN series : Y(n) = Y(1) + X(n) * (Y(2) - Y(1))) =>
    \A days \in {7, 30} :
      Projected(days) = Points * Sxx * Max({0, Y(1) + (Points - 1 + days) * (Y(2) - Y(1))})

\* A forecast that calls itself confident rests on two weeks of points, of which
\* few days are missing between them or since the last (buildForecast).
ConfidentForecastsAreWhole ==
  Known /\ Confidence = 2 => Points >= 14 /\ day - Points <= 4

\* Looked at once a day, a finding is seen burning before it is seen breached,
\* and the two numbers agree: a breached one has no days left, one that is ok
\* has some, and after the days announced the window has burned (slo.ts:28).
BreachIsAnnounced ==
  /\ StateAt(hours) = "ok" => StateAt(hours + 24) # "breached" /\ BreachIn(hours) > 0
  /\ StateAt(hours) = "breached" => BreachIn(hours) = 0
  /\ BreachIn(hours) > 0 => Burn(hours + 24 * BreachIn(hours)) >= 100
  /\ Burn(hours) <= Burn(hours + 1) /\ BreachIn(hours) >= BreachIn(hours + 1)
=============================================================================
