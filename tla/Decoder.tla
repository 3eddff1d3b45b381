-------------------------------- MODULE Decoder --------------------------------
(***************************************************************************)
(* From a HID report to events (muse_on_decoder.c), and from what was      *)
(* decoded to the neutral state of an interface (muse_on_action_map.c).    *)
(*                                                                         *)
(* The keyboard reports its modifiers as bits and its keys as an array in  *)
(* any order, short or long; the joystick reports a hat (the turntable)    *)
(* and buttons.  Every report gives the whole state, and the decoder makes *)
(* events of what changed.  A key, a button or a direction is a name here; *)
(* bytes and masks are left out, and so are the axes, which map to nothing.*)
(***************************************************************************)
EXTENDS Naturals, SequencesExt

CONSTANTS
  Keys,       \* usages of the keyboard's array
  Modifiers,
  Buttons,    \* of the joystick
  ShortSlots, \* room for keys in an 8-byte report
  LongSlots,  \* in a 32-byte report
  Mapped      \* the inputs that the selected profile maps to an action

Interfaces == {"KEYBOARD", "JOYSTICK"}

Directions == {"CW", "CCW"}

Hats == Directions \cup {"IDLE", "OTHER"}

NoKey == "NONE"

NoKeys == [slot \in 1..LongSlots |-> NoKey]

KeysIn(keys) == Range(keys) \ {NoKey}

InitialDecoder(i) ==
  IF i = "KEYBOARD"
  THEN [seen |-> FALSE, modifiers |-> {}, keys |-> NoKeys]
  ELSE [seen |-> FALSE, hat |-> "IDLE", buttons |-> {}]

(* The inputs that are down in a decoder, or in a report.                  *)
DownIn(i, d) ==
  IF i = "KEYBOARD" THEN d.modifiers \cup KeysIn(d.keys)
  ELSE d.buttons \cup ({d.hat} \cap Directions)

Event(input, down) == [input |-> input, down |-> down]

(* Every loop of muse_on_decode_report stops at the capacity of the events:*)
(* all modifiers, and every slot released and pressed again.               *)
MaxEvents == Cardinality(Modifiers) + 2 * LongSlots

(* Names are names of different inputs; and a report of the joystick makes *)
(* no more events than one of the keyboard (its buttons and two of its hat *)
(* are 14 of the MUSE_ON_MAX_EVENTS_PER_REPORT).                           *)
ASSUME DecoderAssumption ==
  /\ ShortSlots \in Nat \ {0} /\ LongSlots \in Nat /\ ShortSlots <= LongSlots
  /\ IsFiniteSet(Modifiers) /\ IsFiniteSet(Buttons)
  /\ Cardinality(Buttons) + 2 <= MaxEvents
  /\ Keys \cap Modifiers = {}
  /\ (Keys \cup Modifiers) \cap (Buttons \cup Directions) = {}
  /\ Buttons \cap Directions = {}
  /\ {NoKey, "HAT"} \cap (Keys \cup Modifiers \cup Buttons) = {}

Changes(old, new) ==
  LET changed == SetToSeq((old \ new) \cup (new \ old))
  IN [n \in DOMAIN changed |-> Event(changed[n], changed[n] \in new)]

Fitting(events) ==
  IF Len(events) <= MaxEvents THEN events ELSE SubSeq(events, 1, MaxEvents)

(* Mutant: a short report leaves the slots behind its own as they were.    *)
KeysAfter_KeepsTail(old, new) ==
  [slot \in 1..LongSlots |-> IF slot <= Len(new) THEN new[slot] ELSE old[slot]]

KeysAfter(old, new) ==
  [slot \in 1..LongSlots |-> IF slot <= Len(new) THEN new[slot] ELSE NoKey]

(* The events of these slots of an array.                                  *)
Slotted(keys, slots, down) ==
  LET order == SetToSeq(slots)
  IN [n \in DOMAIN order |-> Event(keys[order[n]], down)]

(* The slots of an array with a key that is not in the other one.          *)
SlotsApart(keys, others) ==
  {slot \in DOMAIN keys : keys[slot] \notin KeysIn(others) \cup {NoKey}}

KeyboardEvents(decoder, report) ==
  Fitting(Changes(decoder.modifiers, report.modifiers)
          \o Slotted(decoder.keys, SlotsApart(decoder.keys, report.keys), FALSE)
          \o Slotted(report.keys, SlotsApart(report.keys, decoder.keys), TRUE))

(* Mutant: a turntable that turns back at once does not release first.     *)
HatEvents_EngagesOnly(old, new) ==
  IF new = old THEN <<>>
  ELSE IF new \in Directions THEN <<Event(new, TRUE)>>
  ELSE IF old \in Directions THEN <<Event(old, FALSE)>>
  ELSE <<Event("HAT", TRUE)>>

HatEvents(old, new) ==
  IF new = old THEN <<>>
  ELSE IF {old, new} \cap Directions = {} THEN <<Event("HAT", TRUE)>>
  ELSE (IF old \in Directions THEN <<Event(old, FALSE)>> ELSE <<>>)
       \o (IF new \in Directions THEN <<Event(new, TRUE)>> ELSE <<>>)

JoystickEvents(decoder, report) ==
  Fitting(HatEvents(decoder.hat, report.hat)
          \o Changes(decoder.buttons, report.buttons))

(* muse_on_decode_report, for a report of the right id and length.         *)
EventsOf(i, decoder, report) ==
  IF i = "KEYBOARD" THEN KeyboardEvents(decoder, report)
  ELSE JoystickEvents(decoder, report)

DecoderAfter(i, decoder, report) ==
  IF i = "KEYBOARD"
  THEN [seen |-> TRUE, modifiers |-> report.modifiers,
        keys |-> KeysAfter(decoder.keys, report.keys)]
  ELSE [seen |-> TRUE, hat |-> report.hat, buttons |-> report.buttons]

(* Mutant: an interface that was never heard counts as released.           *)
NeutralState_TrustsSilence(i, decoder) ==
  IF DownIn(i, decoder) \cap Mapped # {} THEN "HELD" ELSE "RELEASED"

(* muse_on_selected_profile_neutral_state.                                 *)
NeutralState(i, decoder) ==
  IF ~decoder.seen THEN "UNKNOWN"
  ELSE IF DownIn(i, decoder) \cap Mapped # {} THEN "HELD" ELSE "RELEASED"

LiftedAfter(events, n, input) ==
  \E m \in DOMAIN events : m > n /\ events[m] = Event(input, FALSE)

(* What is down for somebody who saw the events only: what was down or is  *)
(* pressed, and is not released later.                                     *)
Replay(down, events) ==
  {input \in down : ~LiftedAfter(events, 0, input)}
  \cup {events[n].input : n \in {k \in DOMAIN events :
           events[k].down /\ ~LiftedAfter(events, k, events[k].input)}}
===============================================================================
