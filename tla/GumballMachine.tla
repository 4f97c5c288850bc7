--------------------------- MODULE GumballMachine ---------------------------
(***************************************************************************)
(* GumballMachine and its State classes, of 10.state: what a customer and  *)
(* who refills the machine may do in any order.  A method of the machine   *)
(* is a method of its state.  refill(0) is a call like others: it makes a  *)
(* sold-out machine take a quarter.                                        *)
(***************************************************************************)
EXTENDS Integers

CONSTANTS MaxBalls,   \* bound: of the balls in the machine; _count is unsigned
          MaxQuarters \* bound: of the quarters inserted

VARIABLES state, count, \* _state, _count
          inserted, ejected, \* auxiliary: quarters
          loaded, released,  \* auxiliary: balls
          emptyRefills       \* auxiliary: of a sold-out machine, with no ball

vars == <<state, count, inserted, ejected, loaded, released, emptyRefills>>

initialize(balls) ==
  /\ count = balls /\ loaded = balls
  /\ state = IF balls > 0 THEN "NoQuarter" ELSE "SoldOut"

Init == /\ \E balls \in 0 .. MaxBalls : initialize(balls)
        /\ inserted = 0 /\ ejected = 0 /\ released = 0 /\ emptyRefills = 0

InsertQuarter == \* the other states keep nothing
  /\ state = "NoQuarter" /\ inserted < MaxQuarters
  /\ state' = "HasQuarter" /\ inserted' = inserted + 1
  /\ UNCHANGED <<count, ejected, loaded, released, emptyRefills>>

EjectQuarter ==
  /\ state = "HasQuarter"
  /\ state' = "NoQuarter" /\ ejected' = ejected + 1
  /\ UNCHANGED <<count, inserted, loaded, released, emptyRefills>>

DispenseAlways == \* mutant: the count is not looked at
  /\ count' = IF count # 0 THEN count - 1 ELSE 0
  /\ released' = released + count - count'
  /\ state' = "NoQuarter"

Dispense == \* SoldState::dispense(), releaseBall()
  /\ count' = IF count # 0 THEN count - 1 ELSE 0
  /\ released' = released + count - count'
  /\ state' = IF count' > 0 THEN "NoQuarter" ELSE "SoldOut"

TurnCrank == \* turnCrank() and dispense() of the next state, in which they differ
  /\ state = "HasQuarter" /\ Dispense
  /\ UNCHANGED <<inserted, ejected, loaded, emptyRefills>>

Refill ==
  /\ \E balls \in 0 .. MaxBalls - count :
       /\ count' = count + balls /\ loaded' = loaded + balls
       /\ emptyRefills' = emptyRefills + (IF balls = 0 /\ state = "SoldOut" THEN 1 ELSE 0)
  /\ loaded' <= MaxQuarters + MaxBalls
  /\ state' = IF state = "SoldOut" THEN "NoQuarter" ELSE state
  /\ UNCHANGED <<inserted, ejected, released>>

Next == InsertQuarter \/ EjectQuarter \/ TurnCrank \/ Refill

Spec == Init /\ [][Next]_vars

-----------------------------------------------------------------------------
(* Properties *)

Held == IF state = "HasQuarter" THEN 1 ELSE 0 \* the quarter that may be ejected

\* The machine takes a quarter, or has one, and has no ball for it.
SellsNothing == state # "SoldOut" /\ count = 0

\* No ball is lost, and one goes out for each quarter that is kept, except that
\* a refill of a sold-out machine with no ball may cost one customer a quarter:
\* the states change without a look at _count (state.cpp:54-57), and the machine
\* is sold out again after that quarter.
QuartersBuyBalls ==
  LET lost == inserted - ejected - Held - released
  IN /\ lost >= 0
     /\ lost + (IF SellsNothing THEN 1 ELSE 0) <= emptyRefills
     /\ loaded = count + released
     /\ state = "SoldOut" => count = 0
==============================================================================
