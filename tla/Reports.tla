-------------------------------- MODULE Reports --------------------------------
(***************************************************************************)
(* The reports of a controller on their way to the lifecycle               *)
(* (muse_on_listener_lifecycle.c): what the user moves, what is still in   *)
(* flight, what the two decoders know, and when an event may be routed.    *)
(*                                                                         *)
(* At every binding the decoders start anew and are seeded: the keyboard   *)
(* is asked for its current report, the joystick for the values its        *)
(* elements last had in the kernel.  Either may fail.  Reports of before   *)
(* may still be in flight then.                                            *)
(***************************************************************************)
EXTENDS Decoder, TLC

CONSTANT Room \* bound: reports in flight

ASSUME RoomAssumption == Room \in Nat \ {0}

VARIABLES
  user,     \* the inputs that are down on each interface
  kernel,   \* the last report of the joystick
  inflight, \* reports of each interface not yet delivered
  decoders,
  lc,       \* the lifecycle
  routed,   \* ghost: presses the last step gave to a router
  replayed, \* ghost: what the events since the binding say is down
  current,  \* ghost: the last word of each interface was taken
  held      \* ghost: down at the last transition and not let go of since

ghosts == <<replayed, current, held>>
vars == <<user, kernel, inflight, decoders, lc, routed, ghosts>>

Idle == [valid |-> TRUE, hat |-> "IDLE", buttons |-> {}]

-----------------------------------------------------------------------------
(* The controller.                                                         *)

(* What a user can hold down: the turntable turns one way at a time.       *)
Holdable(i) ==
  IF i = "KEYBOARD" THEN SUBSET (Modifiers \cup Keys)
  ELSE {s \in SUBSET (Buttons \cup Directions) : ~Directions \subseteq s}

(* A keyboard has its keys in any order and gives up when it has no room;  *)
(* a rolled-over report is refused, as is a hat out of range.              *)
ReportsOf(i, down) ==
  IF i = "KEYBOARD"
  THEN UNION {
    LET full == {s \in [1..n -> (down \cap Keys) \cup {NoKey}] :
                   /\ KeysIn(s) = down \cap Keys
                   /\ Cardinality({slot \in 1..n : s[slot] # NoKey})
                        = Cardinality(down \cap Keys)}
    IN [valid : {TRUE}, modifiers : {down \cap Modifiers}, keys : full]
       \cup (IF full # {} THEN {}
             ELSE [valid : {FALSE}, modifiers : {{}}, keys : {NoKeys}])
    : n \in {ShortSlots, LongSlots}}
  ELSE [valid : BOOLEAN,
        hat : IF down \cap Directions = {} THEN Hats \ Directions
              ELSE down \cap Directions,
        buttons : {down \cap Buttons}]

-----------------------------------------------------------------------------
(* muse_on_capture.c and the lifecycle.                                    *)

IsCalm(d) == \A i \in Interfaces : NeutralState(i, d[i]) = "RELEASED"

(* What observing a valid report makes of the decoders, the lifecycle and  *)
(* the events that reach a router.                                         *)
Observed(s, i, report, gate) ==
  LET events  == EventsOf(i, s.decoders[i], report)
      decoded == [s.decoders EXCEPT ![i] = DecoderAfter(i, @, report)]
      routes  == s.lc.foreground /\ s.lc.released
      known   == [s EXCEPT !.decoders = decoded, !.replayed[i] = Replay(@, events)]
  IN IF ~routes THEN [known EXCEPT !.lc.released = IsCalm(decoded)]
     ELSE IF gate THEN [known EXCEPT !.routed = {e.input : e \in {x \in Range(events) : x.down}}]
     ELSE known

(* muse_on_capture_observe_report refuses what is not valid.               *)
Observe(s, i, report, gate) ==
  IF s.lc.bound /\ report.valid THEN Observed(s, i, report, gate) ELSE s

(* muse_on_capture_read_joystick_snapshot: the elements of the profile.    *)
Snapshot(report) ==
  [report EXCEPT !.buttons = @ \cap Mapped]

Before == [decoders |-> decoders, lc |-> lc, routed |-> {}, replayed |-> replayed]

Becomes(s) ==
  /\ decoders' = s.decoders
  /\ lc' = s.lc
  /\ routed' = s.routed
  /\ replayed' = s.replayed

(* Mutant: a new binding starts with the Neutral Entry of the old one.     *)
Reset_KeepsEntry(s, bound) ==
  [s EXCEPT !.decoders = [i \in Interfaces |-> InitialDecoder(i)],
            !.replayed = [i \in Interfaces |-> {}],
            !.lc.bound = bound]

(* reset_bound_inputs, at every binding and unbinding.                     *)
Reset(s, bound) ==
  [s EXCEPT !.decoders = [i \in Interfaces |-> InitialDecoder(i)],
            !.replayed = [i \in Interfaces |-> {}],
            !.lc.bound = bound, !.lc.released = FALSE]

(* What is down as far as macOS can say at a transition: the last reports  *)
(* of an interface were delivered, and what a joystick never reported      *)
(* cannot be told from neutral.                                            *)
HeldOn(i) ==
  IF inflight[i] # <<>> THEN {}
  ELSE IF i = "KEYBOARD" THEN user[i] ELSE DownIn(i, kernel)

-----------------------------------------------------------------------------
(* Actions.                                                                *)

UserMoves(i) ==
  /\ Len(inflight["KEYBOARD"]) + Len(inflight["JOYSTICK"]) < Room
  /\ \E down \in Holdable(i) : \E report \in ReportsOf(i, down) :
       /\ user' = [user EXCEPT ![i] = down]
       /\ inflight' = [inflight EXCEPT ![i] = Append(@, report)]
       /\ kernel' = IF i = "JOYSTICK" THEN report ELSE kernel
       /\ held' = held \ (user[i] \ down)
  /\ routed' = {}
  /\ UNCHANGED <<decoders, lc, replayed, current>>

(* report_received.                                                        *)
Deliver(i) ==
  /\ inflight[i] # <<>>
  /\ \E gate \in BOOLEAN : Becomes(Observe(Before, i, Head(inflight[i]), gate))
  /\ inflight' = [inflight EXCEPT ![i] = Tail(@)]
  /\ current' = [current EXCEPT ![i] = lc.bound /\ Head(inflight[i]).valid]
  /\ UNCHANGED <<user, kernel, held>>

(* sync_lifecycle_binding: bind and seed.                                  *)
Bind ==
  /\ ~lc.bound
  /\ \E keyboard \in ReportsOf("KEYBOARD", user["KEYBOARD"]), read \in SUBSET Interfaces :
       LET bound  == Reset(Before, TRUE)
           first  == IF "KEYBOARD" \in read
                     THEN Observe(bound, "KEYBOARD", keyboard, FALSE) ELSE bound
           seeded == IF "JOYSTICK" \in read
                     THEN Observe(first, "JOYSTICK", Snapshot(kernel), FALSE) ELSE first
       IN /\ Becomes(seeded)
          /\ current' = [i \in Interfaces |-> seeded.decoders[i].seen]
  /\ held' = held \cup UNION {HeldOn(i) : i \in Interfaces}
  /\ UNCHANGED <<user, kernel, inflight>>

Unbind ==
  /\ lc.bound
  /\ Becomes(Reset(Before, FALSE))
  /\ current' = [i \in Interfaces |-> FALSE]
  /\ UNCHANGED <<user, kernel, inflight, held>>

(* muse_on_listener_lifecycle_focus_changed.                               *)
FocusChanges ==
  /\ lc' = [lc EXCEPT !.foreground = ~@,
                      !.released   = @ /\ ~lc.foreground]
  /\ routed' = {}
  /\ held' = held \cup UNION {HeldOn(i) : i \in {j \in Interfaces : ~lc.foreground /\ current[j]}}
  /\ UNCHANGED <<user, kernel, inflight, decoders, replayed, current>>

Init ==
  /\ user \in [Interfaces -> UNION {Holdable(i) : i \in Interfaces}]
  /\ \A i \in Interfaces : user[i] \in Holdable(i)
  /\ kernel = Idle
  /\ inflight = [i \in Interfaces |-> <<>>]
  /\ decoders = [i \in Interfaces |-> InitialDecoder(i)]
  /\ lc = [bound |-> FALSE, foreground |-> FALSE, released |-> FALSE]
  /\ routed = {}
  /\ replayed = [i \in Interfaces |-> {}]
  /\ current = [i \in Interfaces |-> FALSE]
  /\ held = {}

Next ==
  \/ \E i \in Interfaces : UserMoves(i) \/ Deliver(i)
  \/ Bind \/ Unbind \/ FocusChanges

Spec == Init /\ [][Next]_vars

-----------------------------------------------------------------------------

(* The types; and there is no Neutral Entry without a binding, nor before  *)
(* both interfaces were heard.                                             *)
TypeOK ==
  /\ \A i \in Interfaces : user[i] \in Holdable(i) /\ Len(inflight[i]) <= Room
  /\ decoders["KEYBOARD"].keys \in [1..LongSlots -> Keys \cup {NoKey}]
  /\ decoders["KEYBOARD"].modifiers \subseteq Modifiers
  /\ decoders["JOYSTICK"].hat \in Hats
  /\ decoders["JOYSTICK"].buttons \subseteq Buttons
  /\ lc \in [bound : BOOLEAN, foreground : BOOLEAN, released : BOOLEAN]
  /\ lc.released => lc.bound /\ \A i \in Interfaces : decoders[i].seen

(* Somebody who saw only the events knows what is down: no press and no    *)
(* release is lost between the reports, whatever their order and size.     *)
EventsTellState ==
  \A i \in Interfaces :
    replayed[i] \ {"HAT"} = DownIn(i, decoders[i])

(* When nothing is in flight and the last word of an interface was taken,  *)
(* its decoder knows which mapped inputs are down, but for what a joystick *)
(* never reported.                                                         *)
DecodersCatchUp ==
  \A i \in Interfaces :
    current[i] /\ inflight[i] = <<>> =>
      DownIn(i, decoders[i]) \cap Mapped =
        Mapped \cap (IF i = "KEYBOARD" THEN user[i] ELSE DownIn(i, kernel))

(* An input held across a binding or a return to Codex triggers nothing: a *)
(* fresh press is required.  That goes for what macOS and the listener     *)
(* could know to be held: see HeldOn.                                      *)
HeldIsNotRouted == routed \cap Mapped \cap held = {}
===============================================================================
