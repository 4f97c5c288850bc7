----------------------------- MODULE MCMachines -----------------------------
(***************************************************************************)
(* The cash machine, the gumball machine, the remote control and the       *)
(* weather station, each in executions of its own: `program` says which.   *)
(***************************************************************************)
EXTENDS Atm

CONSTANTS MaxBalls, MaxQuarters, NumSlots, Unset, MaxReadings

VARIABLES program, gumState, count, inserted, ejected, loaded, released, emptyRefills,
          onCommands, offCommands, device, nullCalled, last,
          observers, alive, current, statistics, forecast, undefined,
          numReadings, measured

gumball == <<gumState, count, inserted, ejected, loaded, released, emptyRefills>>
Gumball == INSTANCE GumballMachine WITH state <- gumState

remote == <<onCommands, offCommands, device, nullCalled, last>>
Remote == INSTANCE RemoteControl

\* An empty shared_ptr is not a command.
ASSUME UnsetAssumption == \A pair \in Remote!Pairs : pair[1] # Unset /\ pair[2] # Unset

\* The three measurements of main(), in any order and number.
weather == <<observers, alive, current, statistics, forecast, undefined,
             numReadings, measured>>
Weather == INSTANCE WeatherStation WITH
  Measurements <- {[temp |-> 80, pressure |-> 3040], [temp |-> 82, pressure |-> 2920],
                   [temp |-> 78, pressure |-> 2920]}

AtmNext == program = "atm" /\ Next /\ UNCHANGED <<program, gumball, remote, weather>>
GumballNext == program = "gumball" /\ Gumball!Next /\ UNCHANGED <<program, vars, remote, weather>>
RemoteNext == program = "remote" /\ Remote!Next /\ UNCHANGED <<program, vars, gumball, weather>>
WeatherNext == program = "weather" /\ Weather!Next /\ UNCHANGED <<program, vars, gumball, remote>>

MachinesInit == /\ program \in {"atm", "gumball", "remote", "weather"}
                /\ Init /\ Gumball!Init /\ (program # "gumball" => count = 0)
                /\ Remote!Init
                /\ Weather!Init /\ (program # "weather" => numReadings = 0)

\* As in FairSpec; nobody has to use the gumball machine.
FairMachinesSpec ==
  /\ MachinesInit
  /\ [][AtmNext \/ GumballNext \/ RemoteNext \/ WeatherNext]_
       <<program, vars, gumball, remote, weather>>
  /\ WF_vars(program = "atm" /\ Atm) /\ WF_vars(program = "atm" /\ Bank)
  /\ WF_vars(program = "atm" /\ Display) /\ WF_vars(program = "atm" /\ Closing)

\* What a machine gives out was paid for: the notes of the cash machine by the
\* account, and each ball by a quarter.
GoodsWerePaidFor == MoneyIssuedWasDebited /\ Gumball!QuartersBuyBalls

\* A command that is executed and a display that is notified exist, and leave
\* behind what the button or the measurement was for.
ReceiversAreInformed ==
  /\ Remote!NoNullCommandIsCalled /\ Remote!DevicesFollowTheirButtons
  /\ Weather!NotifiedDisplaysAreAlive /\ Weather!DisplaysShowTheData
==============================================================================
