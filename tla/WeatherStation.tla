---------------------------- MODULE WeatherStation ----------------------------
(***************************************************************************)
(* main() of 02.observer.cpp: the displays register with the subject in    *)
(* their constructors, with a shared_ptr that does not own them, and are   *)
(* destroyed without removeObserver(), which nothing calls.  The           *)
(* constructor of StatisticsDisplay leaves _numReadings uninitialized.     *)
(***************************************************************************)
EXTENDS Integers, Sequences, FiniteSets, FiniteSetsExt

CONSTANTS Measurements, \* records [temp, pressure]
          MaxReadings   \* of the calls of setMeasurements()

Displays == <<"current", "statistics", "forecast">>

VARIABLES observers,  \* _observers
          alive,      \* the displays that exist
          current,    \* _temperature of the current conditions
          statistics, \* the fields of the statistics
          forecast,   \* _currentPressure and _lastPressure
          undefined,  \* update() was called on a display that is gone
          numReadings, measured \* auxiliary: the first _numReadings; the readings

vars == <<observers, alive, current, statistics, forecast, undefined,
          numReadings, measured>>

Init == /\ observers = <<>> /\ alive = {} /\ undefined = FALSE
        /\ current = 0
        /\ numReadings \in {0, 7}
        /\ statistics = [max |-> 0, min |-> 200, sum |-> 0, num |-> numReadings]
        /\ forecast = [now |-> 2992, last |-> 0]
        /\ measured = <<>>

Construct == \* make_shared<...Display>(data): registerObserver()
  /\ Len(observers) < Len(Displays) /\ measured = <<>>
  /\ LET d == Displays[Len(observers) + 1]
     IN observers' = Append(observers, d) /\ alive' = alive \cup {d}
  /\ UNCHANGED <<current, statistics, forecast, undefined, numReadings, measured>>

UpdateCurrent(m) == current' = m.temp

UpdateMaxOrMin(m) == \* mutant: a new highest reading is not the lowest
  statistics' = [sum |-> statistics.sum + m.temp,
                 num |-> statistics.num + 1,
                 max |-> IF m.temp > statistics.max THEN m.temp ELSE statistics.max,
                 min |-> IF m.temp > statistics.max THEN statistics.min
                         ELSE IF m.temp < statistics.min THEN m.temp ELSE statistics.min]

UpdateStatistics(m) ==
  statistics' = [sum |-> statistics.sum + m.temp,
                 num |-> statistics.num + 1,
                 max |-> IF m.temp > statistics.max THEN m.temp ELSE statistics.max,
                 min |-> IF m.temp < statistics.min THEN m.temp ELSE statistics.min]

UpdateForecast(m) == forecast' = [now |-> m.pressure, last |-> forecast.now]

SetMeasurements(m) == \* and notifyObservers(), which updates each display
  /\ Len(observers) = Len(Displays) /\ Len(measured) < MaxReadings
  /\ UpdateCurrent(m) /\ UpdateStatistics(m) /\ UpdateForecast(m)
  /\ undefined' = (undefined \/ \E i \in DOMAIN observers : observers[i] \notin alive)
  /\ measured' = Append(measured, m)
  /\ UNCHANGED <<observers, alive, numReadings>>

Remaining == \* the display that goes next: main() keeps the first
  IF "statistics" \in alive THEN "statistics" ELSE "forecast"

Destroy == /\ alive' = alive \ {Remaining}
           /\ UNCHANGED <<observers, current, statistics, forecast, undefined,
                          numReadings, measured>>

ResetEarly == \* mutant: a display goes while measurements are still to come
  Remaining \in alive /\ measured # <<>> /\ Destroy

Reset == \* sd.reset(), fd.reset()
  Remaining \in alive /\ Len(measured) = MaxReadings /\ Destroy

Next == \/ Construct
        \/ \E m \in Measurements : SetMeasurements(m)
        \/ Reset

Spec == Init /\ [][Next]_vars

-----------------------------------------------------------------------------
(* Properties *)

\* The subject keeps pointers to displays that are gone; it is only the order
\* of main() that keeps it from using them.
NotifiedDisplaysAreAlive == ~undefined

\* What the displays show is what was measured.  The average is right only if
\* _numReadings began at 0, the extremes because the temperatures are between
\* the values they begin at.
DisplaysShowTheData ==
  measured # <<>> =>
    LET temps == {measured[i].temp : i \in DOMAIN measured}
        Pressure(i) == IF i = 0 THEN 2992 ELSE measured[i].pressure
    IN /\ current = measured[Len(measured)].temp
       /\ statistics.max = Max(temps) /\ statistics.min = Min(temps)
       /\ statistics.num = numReadings + Len(measured)
       /\ forecast = [now |-> Pressure(Len(measured)), last |-> Pressure(Len(measured) - 1)]
==============================================================================
