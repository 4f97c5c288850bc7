---------------------------- MODULE RemoteControl ----------------------------
(***************************************************************************)
(* class RemoteControl of 06.command.cpp, and of 06.command_with_bind.cpp, *)
(* where a command is a std::function.  A device is what it was last told, *)
(* for each thing that can be set; a command is what it sets, as a partial *)
(* function.  Who sets the buttons of a slot sets both, as both main() do. *)
(***************************************************************************)
EXTENDS Naturals

CONSTANTS NumSlots, \* the size of _onCommands and _offCommands
          Unset     \* an empty shared_ptr or function; a device nobody told

Slots == 0 .. NumSlots - 1

VARIABLES onCommands, offCommands, \* _onCommands, _offCommands
          device,                  \* the receivers
          nullCalled,              \* an unset command was executed
          last \* auxiliary: the last button of each slot, unless another slot
               \* gave its devices commands since

vars == <<onCommands, offCommands, device, nullCalled, last>>

Things == {"light", "level", "hottub", "temperature", "stereo", "input", "volume"}

Init == /\ onCommands = [s \in Slots |-> Unset]
        /\ offCommands = [s \in Slots |-> Unset]
        /\ device = [d \in Things |-> Unset]
        /\ nullCalled = FALSE
        /\ last = [s \in Slots |-> Unset]

-----------------------------------------------------------------------------
(* The commands, in pairs: on and off; a garage door's are like a light's *)

LightCommands == <<[light |-> "on"], [light |-> "off"]>>

CeilingFanCommands == <<[level |-> "HIGH"], [level |-> "OFF"]>>

HottubCommands == \* off() leaves the temperature
  <<[hottub |-> "on", temperature |-> 105], [hottub |-> "off"]>>

StereoCommands == \* stereoOnWithCD, and Stereo::off
  <<[stereo |-> "on", input |-> "CD", volume |-> 11], [stereo |-> "off"]>>

Pairs == {LightCommands, CeilingFanCommands, HottubCommands, StereoCommands}

-----------------------------------------------------------------------------
SetOnCommand(slot, pair) == \* mutant: the off button is left as it was
  /\ IF slot \notin Slots THEN UNCHANGED <<onCommands, last>>
     ELSE /\ onCommands' = [onCommands EXCEPT ![slot] = pair[1]]
          /\ last' = [last EXCEPT ![slot] = Unset]
  /\ UNCHANGED <<offCommands, device, nullCalled>>

SetCommand(slot, pair) ==
  /\ IF slot \notin Slots THEN UNCHANGED <<onCommands, offCommands, last>>
     ELSE /\ onCommands' = [onCommands EXCEPT ![slot] = pair[1]]
          /\ offCommands' = [offCommands EXCEPT ![slot] = pair[2]]
          /\ last' = [last EXCEPT ![slot] = Unset]
  /\ UNCHANGED <<device, nullCalled>>

Execute(command) ==
  /\ device' = IF command = Unset THEN device
               ELSE [thing \in Things |-> IF thing \in DOMAIN command THEN command[thing]
                                          ELSE device[thing]]
  /\ nullCalled' = (nullCalled \/ command = Unset)

Remember(slot, button) ==
  last' = [s \in Slots |-> IF s = slot THEN button
                          ELSE IF onCommands[s] = onCommands[slot] THEN Unset
                          ELSE last[s]]

\* Either button looks at the on command.
Ignored(slot) == slot \notin Slots \/ onCommands[slot] = Unset

OnButtonWasPushed(slot) ==
  /\ IF Ignored(slot) THEN UNCHANGED <<device, nullCalled, last>>
     ELSE Execute(onCommands[slot]) /\ Remember(slot, "on")
  /\ UNCHANGED <<onCommands, offCommands>>

OffButtonWasPushed(slot) ==
  /\ IF Ignored(slot) THEN UNCHANGED <<device, nullCalled, last>>
     ELSE Execute(offCommands[slot]) /\ Remember(slot, "off")
  /\ UNCHANGED <<onCommands, offCommands>>

\* A slot that the remote control does not have is among those that are tried.
Next == \E slot \in 0 .. NumSlots :
          \/ \E pair \in Pairs : SetCommand(slot, pair)
          \/ OnButtonWasPushed(slot) \/ OffButtonWasPushed(slot)

Spec == Init /\ [][Next]_vars

-----------------------------------------------------------------------------
(* Properties *)

\* Although offButtonWasPushed() tests the on command of the slot, no button
\* executes a command that was never set.
NoNullCommandIsCalled == ~nullCalled

\* A device is as the last of its buttons left it, whatever was pushed or set
\* for the other slots since.
DevicesFollowTheirButtons ==
  \A slot \in Slots :
    LET command == IF last[slot] = "on" THEN onCommands[slot] ELSE offCommands[slot]
    IN last[slot] # Unset => \A thing \in DOMAIN command : device[thing] = command[thing]
==============================================================================
