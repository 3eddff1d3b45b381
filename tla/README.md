# Codex Muse-On: specification and proofs

Codex Muse-On turns a GAMMAC Muse-On controller into a command surface for Codex
on macOS. A menu-bar app (Objective-C) starts a listener process (C) that takes
the controller's two USB interfaces, maps the keyboard interface's keys away
(the *key filter*), and posts shortcuts to Codex while Codex is in front. The
program is about one question: *who may act on the controller now, and is the
keyboard given back when nobody may?* These modules state what the code
promises about it, check it with TLC and prove most of the safety part with TLAPS.

All source paths below are relative to `src/work/native/`.

## 1. Inventory

| Part | Files | State | Operations | Interacts with |
|---|---|---|---|---|
| State coordinator | `muse_on_state_coordinator.c/.h` | status, safety latch, pending Disable, Quit, intent, the two effects | `muse_on_state_apply` (5 commands x observation) | called by the app delegate after every event |
| Recovery policy | same file | deadline and phase of one recovery | init, evaluate | run in a recovery listener |
| Topology authority | `muse_on_topology.c/.h` | generation, snapshot, filter proof, Neutral Entry, recovery proof | begin, apply_*, invalidate | fed by the listener's lines, read by every coordinator call |
| Menu-bar app delegate | `muse_on_menu_bar.m` | task, stop purpose, what the listener reported, preferences | event handlers, both ends of the listener, menu, session, Quit, launch | all of the above |
| Completion gate | `muse_on_listener_completion_gate.h` | two marks | mark EOF, mark termination, finalize | app delegate |
| Quit policy, setup state | `muse_on_quit_policy.c`, `muse_on_setup_state.c` | intent, Start Automatically | small decisions | app delegate |
| Listener process | `muse_on_listener.c` | slots, filter, permissions, synthetic hold, failure | HID callbacks, 10 ms timer, signal, startup, shutdown | writes JSON lines to the app |
| Listener lifecycle | `muse_on_listener_lifecycle.c` | bound, foreground, released, decoders, routers | bind, unbind, focus, report, tick | listener |
| Action router | `muse_on_action_map.c` | hold and repeat of one interface | route, tick, neutral state | lifecycle |
| Key filter | `muse_on_key_filter.c` | ownership of the mapping; apply and restore policies | apply, restore, removal | listener |
| Connection | `muse_on_connection.c` | none | classification of interfaces into a snapshot | listener |
| Connection observer | `muse_on_connection_observer.m` | generation, last snapshot | start, stop, publish | its own test only |
| Decoder, capture | `muse_on_decoder.c`, `muse_on_capture.c` | last state of an interface | decode, observe, probe | lifecycle |
| Diagnostics | `muse_on_diagnostics.c` | ring of lines, failure tuple of the listener | record, reset, clear, copy | app delegate |
| Shortcut map, platform, configuration | `muse_on_shortcut_map.c`, `muse_on_platform.m`, `muse_on_activation.c`, `muse_on_config.c` | none | tables, calls to macOS | listener, app |

What is hard here:

* **Ordering.** The end of the listener reaches the app twice, as end of output
  and as end of process, in either order, with unread lines and menu clicks
  between them.
* **Stale state.** Every belief of the app belongs to one listener generation;
  purposes, permissions and the session can change between the request of a
  stop and its completion. Inside the listener the focus and the permission are
  polled *and* read anew at each action.
* **Crashes.** App or listener can end while the mapping is on the keyboard.
* **Partial failure.** Launch, HID open, apply, restore and the posting of a
  key-up can each fail. A write of the key mapping may be refused and yet take
  effect, or be accepted and not; the list of keyboards may be read in part.
* **Boundaries.** Short and long reports, an event array that is exactly large
  enough, a ring that wraps, buffers of any size.
* **Liveness.** Quit waits for a listener; a stop must end; a mapping that is
  owed must be given back or the listener must end; a recovery must end.

What makes each part correct, in a line: the coordinator never dispatches behind
a latch and leaves the latch only by hand over proof; the topology authority
keeps no proof beyond what it was given for; the delegate serves every stop,
answers every Quit and never forgets a mapping left on the keyboard; the
listener posts only fresh presses and leaves no shortcut held; the key filter
takes the keys of the one controller in sight only, and gives a keyboard's
mapping back or says that it could not; the decoders lose no press and no
release; Diagnostics keep the most recent lines.

`PROJECT.json` lists each component with its status, and each hazard at the line
where it bites with the properties that watch it.

## 2. Modules

| Module | Models | How it corresponds to the code |
|---|---|---|
| `StateCoordinator` | `muse_on_state_coordinator.c` | pure operators. `Apply(s, command, p)` is `muse_on_state_apply`; each branch (`ApplyDisable`, `ApplyWhilePending`, `ApplyQuit`, `ApplyEnabled`) is an operator. Defines the parts of the invariant |
| `Coordinator` | the coordinator against any world | `coord` is `MuseOnState`; `observed` is the next `MuseOnPrerequisites`, which changes one fact at a time |
| `TopologyHost` | `muse_on_topology.c` | pure operators over one record, `MuseOnTopologyHostState` with its nested authority flattened |
| `AppDelegate` | `muse_on_menu_bar.m`, completion gate, quit policy, setup state | one operator per handler, from the delegate's state `h` and what it reads of macOS, `w`, to the next state, calls in the code's order |
| `Host` | app, listener, pipe, macOS | variables `app` (delegate and preferences), `child` (listener), `pipe` (lines not yet read), `world`, `notice` (session notification waiting on the main queue), `stirs`, and the history variable `refused`: macOS refused a recovery listener a permission |
| `ButtonHold` | the listener's path from a routed event to a key event: `muse_on_listener.c`, `muse_on_listener_lifecycle.c`, the router | `lc` is the listener, `world` the controls, plugs, focus and permission; `out` what the last step posted; `stale` a history variable |
| `KeyboardLease` | abstract: what the key filter promises the user of a keyboard | `mapping`, what is `due`, the `holder` of the lease, keyboards `stranded` by a listener that ended |
| `KeyFilter` | `muse_on_key_filter.c`, and of `muse_on_listener.c` the device callbacks, the filter, the timer, recovery and the end | `st` is `ListenerState` with `MuseOnKeyFilter` and both policies, and the mappings macOS keeps; `plug` and `at` the keyboards; each action is a callback run to its end, with the faults macOS throws into it |
| `Connection` | `muse_on_connection.c` | `Classify(interfaces)`, used by `KeyFilter` at every callback |
| `Decoder` | `muse_on_decoder.c`, neutral state of `muse_on_action_map.c` | pure operators: events of a report, decoder after it, neutral state |
| `Reports` | `muse_on_capture.c`, binding, seeding, focus and observation of `muse_on_listener_lifecycle.c` | `inflight` the reports not yet delivered, `decoders`, `lc` the lifecycle; the rest are the user, the kernel and history variables |
| `DiagnosticsLog` | abstract: a bounded history that can be cleared | `history` |
| `Diagnostics` | `muse_on_diagnostics.c` and the delegate's calls | `entries`, `next`, `count` are the ring; `error`, `termination` whose failure the tuple tells; `listener` the run of now |
| `StateCoordinatorProofs` | - | lemmas about `muse_on_state_apply`, one per branch, for `CoordinatorProofs` and `HostProofs` |
| `CoordinatorProofs`, `HostProofs`, `ButtonHoldProofs`, `ReportsProofs`, `KeyboardLeaseProofs`, `DiagnosticsProofs` | - | theorems about the module they are named for (`ReportsProofs` also about the operators of `Decoder`) |
| `KeyFilterProofs` | - | what each function of the key filter does to a listener; the theorems about its reachable states, and one about `Connection` |

`Host` EXTENDS `AppDelegate` EXTENDS `TopologyHost` EXTENDS `StateCoordinator`;
`Coordinator` EXTENDS `StateCoordinator`; `Reports` EXTENDS `Decoder`;
`KeyFilter` EXTENDS `Connection`. In `Host` the listener is abstract: it
promises which lines it writes, in which order, what it does to the mapping and
how it ends. `Reports`, `ButtonHold` and `KeyFilter` look inside the same
process, each at one path: from a report to a routed event, from a routed event
to a posted shortcut, and from a plug or a tick to the key mapping. What lies on
another's path is left open there (`ButtonHold` sees the filter go on and off,
`KeyFilter` sees the shortcut go up and down, `Reports` leaves the route gate
open or closed).

Two detailed modules implement an abstract one: `KeyFilter` implements
`KeyboardLease` (`KeepsTheLease`) with the owned keyboard as holder and a
keyboard that was unplugged as away, and `Diagnostics` implements
`DiagnosticsLog` (`KeepsRecent`) with the ring read from its oldest slot.

Definitions whose names end in `_Something` are mutants: a plausible mistake in
the definition they are named after. They are used by no specification; each
shows that the property named for it can fail.

## 3. Runs

| Run | Question | Bounds | Result |
|---|---|---|---|
| `coordinator` | Can any sequence of observations and commands dispatch behind a closed gate, or leave the latch unproven? | none needed: the state space is finite and explored whole | holds |
| `host` | Ordinary use (plug, focus, session, every menu command, app crash and relaunch); failures (launch, open, apply, restore, release, HID, listener crash); permissions that come and go, with crashes | one location, 4 stirs out of one of three sets, pipe of 1 plus bursts | holds |
| `host_live` | Is every stop served, every Quit answered? | 3 stirs, fairness | holds |
| `button_hold` | Is a shortcut ever left down, repeating, or posted for an old press? Does a released button end its shortcut? | hold debounce 2 ticks, turntable debounce 1, repeat 3 and 2, 2 refusals, fairness | holds |
| `key_filter` | Does the key filter keep the lease, through kills, faults and two controllers? | 2 keyboards, 2 locations, 1 fault (single or lasting), 1 move; retry after 1 tick, settlement 2, recovery 1 | holds |
| `key_filter_live` | Is an owed mapping settled, does a recovery end? | 1 keyboard, 2 faults, 2 moves; retry 1, settlement 3, recovery 2; fairness | holds |
| `reports` | Is a press or release lost between reports, or an old press routed? | 2 keys, 1 button, both directions, slots 1 and 2, 2 reports in flight | holds |
| `diagnostics` | Does the ring keep the last lines, does a copy fit, whose reason is shown? | ring of 3, lines of 3 lengths, 3 listeners, every buffer size | holds |
| `host_clean_stop` | Are the two ends of a clean stop equivalent? | 2 or more stirs | violated |
| `host_pending_disable` | Does a pending Disable end only over Pass-through? | permission loss, or an open that is not permitted | violated |
| `host_session` | Does an unavailable session release the controller? | profile change during suspension | violated |
| `host_revocation` | Does the app learn of a revoked permission? | 1 stir | violated |

A *stir* is an event without a cause inside the system: the user, the
controller, macOS, a failure. A behaviour keeps to one of the `StirSets` and
`MaxStirs` bounds how many of them occur; what they cause is not bounded. To start
with a permission missing counts as one. The violations found need
two to four stirs, and each passing `Host` run allows four (three with fairness), so a plug, a
command, a failure and a second command fit in one behaviour. One location is
enough because the code compares locations only for equality with the one
remembered, and `MULTIPLE` covers a second controller. `PipeRoom` keeps the
listener from running more than a few lines ahead of the app; startup and
shutdown bursts exceed it, so up to a dozen lines are in flight when the process
ends, which is where the order matters. In `ButtonHold` a debounce of two ticks (80 ms in
the code, over a 10 ms timer) leaves a tick in which an edge is pending and not
due, and the first repeat outlasts the next ones, which outlast the turntable's
debounce, as in the code; `MaxFailures` allows two refused posts or
restorations, the second one while the listener winds down over the first.

In `KeyFilter` two identities are a second controller, or the same one plugged in
again (at the same location or another), which is every case the removal
decision tells apart. A fault is one call that fails, or every call of its kind
in that handler; settlement outlasts a retry, so that both an attempt that
succeeds late and one that never does occur. `key_filter` leaves time free (a
tick may or may not come); `key_filter_live` has it keep coming, over longer
periods and more faults, with a single keyboard.

In `Reports` a short report has room for one key and a long one for two: that is
enough for a key to be in either slot, for a slot that a short report does not
have, and for a short report that rolls over. Two reports in flight, on one
interface or one on each, are enough for a stale one: a binding reads what the
second will say, and then the first arrives. The button is outside the profile, so
that the snapshot, which reads the profile's elements only, differs from a report.
`MaxEvents` is computed as in the header; no report of the run has keys enough to
fill it, which is left to the proof (`EventsAlwaysTellTheState`).

In `Diagnostics` a ring of three wraps within four lines, and lines of different
lengths tell them apart; the copy is evaluated for every buffer up to one larger
than the text.

Deadlock is checked in every run. The systems never stop because the world, the
timer or the user can always move.

### Violated runs

Each checks one statement of a document or a test against the code:

1. `host_clean_stop`: if the end of the process is handled before the tail of
   its output, the topology is already invalid when the tail is read; the lines
   count as protocol failures and a clean stop is refused
   (`muse_on_listener_completion_gate_test.c` treats both orders alike).
2. `host_pending_disable`: a recovery listener that ends because of a permission is
   accepted as cleanup, and the pending Disable finishes Disabled while a crashed
   run's mapping is still on the keyboard (`CONTEXT.md`, "Disable Pending"). It
   happens in two ways, one for each set of stirs: the listener finds the
   permission missing (`muse_on_listener.c:1430-1438`), or it finds it granted and
   `IOHIDManagerOpen` is not permitted all the same (`1467-1471`, `1486-1490`;
   `muse_on_permission_test.c:63-72` asserts the classification). Both write
   `permission_required` and exit with 0 without having looked at the keyboard.
   `host` checks that there is no third way (`LatchEndsEarlyOnlyByRefusal`).
3. `host_session`: a stop for a profile change that completes in an unavailable
   session starts a new filtering listener there (`docs/adr/0007`).
4. `host_revocation`: `permissions_changed` carries `inputMonitoring` as a
   Boolean; the app reads it only as a string (`SAFETY.md`, "Permissions").
   Besides, an action that finds Accessibility revoked overwrites the value the
   poll compares with (`muse_on_listener.c:648`), so that the poll reports nothing:
   the same property fails for that permission too.

The passing run of `ButtonHold` has `Flicker = FALSE`: a focus that goes stays
away until the timer has seen it gone, and a permission the listener knows to be
gone stays away until the filter is off. With `TRUE` the property `HoldIsTracked`
fails: the lifecycle learns of the focus from the 10 ms poll, the gate reads it
anew, and a release that comes while Codex is briefly not in front is dropped
without a reset (`muse_on_listener.c:1234`; `SAFETY.md:25-27` says that a loss of
focus immediately resets Neutral Entry). No run of the project has that case, and
the theorems that need it away say so (section 4). `HeldIsNotRouted` of `Reports`
counts as held what macOS or the listener could know; `SAFETY.md:65-70` documents
the joystick control that is held before a cold start.

### Fairness

`Host!FairSpec` asks of the listener to finish booting, to stop once signalled
or stopping, and to report a recovery (its policy has a deadline); and of the
app to read a line that is there and to handle each end of its listener. These
are the run loops of the two processes. Nothing is asked of the user, of the
controller, of macOS or of failures. The weak fairness is written out as
"infinitely often not possible, or infinitely often done", with each guard
spelled as a state predicate.
`ButtonHold!FairSpec` asks only that the timer keeps firing while the loop runs,
written over the bit that each tick turns. `KeyFilter!FairSpec` asks the same,
`WF_beat(Beat)`, the beat being turned by the timer. A fault that lasts is within
one handler, and their number is bounded: OwedIsSettled and RecoveryEnds do not
rest on macOS behaving for ever, because a settlement that takes too long latches
and ends the listener.

## 4. Proofs

Eight modules hold theorems. The ones a reader should know are listed in
`PROJECT.json`; the others are the lemmas they rest on. Nothing is assumed but
what is assumed of the constants, in the modules that declare them
(`StirsAssumption`, `LocationsAssumption`, `TicksAssumption`,
`KeyFilterAssumption`, `DecoderAssumption`, `DiagnosticsAssumption`), and what the statements
themselves say. TLC has checked each inductive invariant on the bounds of the
runs.

### Coordinator

`CoordinatorProofs` is about the coordinator against every sequence of
observations and commands:

* `CoherentAlways`: the invariant `IInv == TypeOK /\ Coherent(coord)` always
  holds.
* `TypeCorrect`, `DispatchIsAlwaysGated`, `LatchIsHeldAndShown`: its conjuncts.
* `LatchIsLeftOnlyByHand`, `LatchExitIsAlwaysProven`,
  `PendingDisableAlwaysEndsDisabled`, `DispatchAlwaysNeedsEveryGate`,
  `NamedFailureIsAlwaysSticky`: action properties that follow from it.

`Coherent` is the conjunction of four parts defined in `StateCoordinator`.
None is inductive alone: that dispatch is gated after a call depends on the
latch being owned (a latch without an owner would be dropped by the "not
Enabled" branch), that it is owned depends on a pending Disable holding it, and
that on the intent having been withdrawn. Each branch of `muse_on_state_apply`
has a lemma in `StateCoordinatorProofs` that it keeps a state typed and coherent;
`ApplyIsCoherent` puts them together. `ApplyFollows` says what a call may change
at most, which is all that `HostProofs` uses of the coordinator.

### App and listener

`HostProofs` is about the app, its listener and the pipe between them, for every
set of locations, every `StirSets` and every bound: `TypeCorrect` (with a bound on
the lines in flight), `BeliefsAreGrounded`, `ActiveAlwaysHasItsEvidence`,
`DisabledNeverHasListener` and `LatchAlwaysStopsListener`. All five follow from
`HostInvariant`. Its invariant `HostInv` has three parts:

* `Settled(app)`: between two handlers the coordinator is coherent and at rest,
  the belief grounded, a claim to dispatch has its evidence, intent and
  preference agree, a stop for Disable has a pending Disable, and a safety
  failure the delegate holds is latched or about to be.
* `Fits(app, child, pipe)`: there is a child exactly while there is a task, and
  a normal listener that nobody stops has raised no alarm (`Runs`, `Obeys`).
* `Surroundings`: the types of the rest.

The last of the five is the hard one. "The app is latched, so it stopped the
listener" is not inductive: the app also latches on what it *reads*, and what it
reads was written by a listener that did not know it. The one line where this
matters is `filter_applied`: the app takes it for a failure unless its snapshot
is SINGLE at that moment. So `Faithful` relates the unread lines to the snapshot
the app will hold when it comes to each of them (`SightedIn`): every
`filter_applied` in the pipe is preceded by a SINGLE snapshot that is still in
force there, and while the listener wants its filter such a snapshot is in force
at the end. The lemmas `LineIsFaithful` and `ReadingIsFaithful` keep this when a
line is written and when one is read; each step of the listener is shown to
write only such lines, or to stop (`Speaks`). On the side of the delegate each
kind of handler has one relation between the delegate before and after it
(`Noted`, `Loses`, `Starts`, `Heard`, `Finishes`, `Acts`), built up along the calls
the handler makes; the header of the module lists them.

The second half of the module is about the key mapping a listener may leave on
the keyboard: `LeftMappingAlwaysLatched`, `SafeMarkerAlwaysEarned` and
`LatchAlwaysEndsOverPassThrough`. They hold of every behaviour, with one exception
in the properties themselves: the history variable `refused`, which is set when
macOS refuses a recovery listener a permission, at its check or when it opens a HID
manager (`ChildLacksPermission`, `ChildIsNotPermitted`). That is what the run
`host_pending_disable` does: such a listener exits with 0 without having looked at
the keyboard, and the app takes that for a verified cleanup. The theorems say that
a mapping is forgotten only after that, whatever crashes, failed restorations,
quits, relaunches and revoked permissions of normal listeners meet. The run `host`
checks the same: its second set of stirs has the refused open, its third set both
kinds of refusal, each among commands and crashes of the app and of the listener.

Their invariant is `refused \/ MapInv`, on top of `HostInv`. "A mapping left behind
is latched"
is not inductive: a recovery listener starts without knowing of the mapping, and
the latch is dropped on its word. So somebody always
answers for the mapping (`Tends`): a listener that runs and whose word the app
would take (`Vouched`: a normal one, or a recovery that claimed success, read
or unread) still knows that it has to restore (`Kept`), and one that exited with 0
has done it (`Spares`); without a listener the latch is held and has a reason that
no call of the coordinator can lose (`Holds`: the intent, a pending Disable, a Quit);
an app that ended has left the marks of an unclean end (`Rests`). The handlers are
gone through once more with relations of this kind (`Recalls`, `Trusts`, `Lands`,
`Goes`, `Way`); the longest are the end of a listener (`AfterRests`, by purpose) and
the next launch (`LaunchLands`), which has to latch again over what the last
app left.

### Held buttons

`ButtonHoldProofs` is about every debounce, repeat interval and number of
refusals: `HoldAlwaysHasItsGates`, `HoldIsAlwaysTracked`, `RepeatIsAlwaysTracked`,
`OnlyFreshPressesAct`, `NothingIsPostedAfterTheEnd`, all the safety properties of
the run. `HoldInv` adds to them what is known of the listener alone (`Sound`: a
binding rests on the filter, and neither the router nor a hold that can be
released outlives binding, focus and Neutral Entry), and what ties the router to
the world (`Fresh` to the presses since Neutral Entry, `Permitted` to the
permission, `Tracks` to the button). That a hold is tracked depends on the
listener seeing each loss of the focus: `HoldIsAlwaysTracked`, `RepeatIsAlwaysTracked`
and `OnlyFreshPressesAct` assume `~Flicker`, the run has that value, and section 3
says what happens without.

### Key filter

`KeyFilterProofs` is about any set of keyboards and locations, any periods of the
policies and any number of faults.

* `FilterIsInvariant` is the inductive invariant `FilterInv`. `Lawful` is what
  safety needs: whatever mapping is on a keyboard is nothing, the sink or what its
  user is due, and a sink is on the owned keyboard or on one stranded before.
  `Clocked` (a clock runs only for what is owed), `BoundRightly`,
  `FilteredRightly` and `HeldRightly` (binding, filter and hold agree on the
  controller) are what the functions of the code rely on from one callback to
  the next; `Grounds` and the rest tie the history variables to the keyboards.
* `OnlyTheOneIsFiltered`, `InputIsBoundOverTheFilter`, `HoldsAreOverTheFilter`: the
  invariants of the runs. `CleanEndsGiveBack`: the action property.
* `LeaseIsKept`: the refinement of `KeyboardLease`, step by step. The hard step is
  a tick that takes a keyboard and ends the listener at once, which would be no
  step of the lease if the keyboard were left swallowing. The lemmas follow the
  fault of the tick to show that it is not: either the fault kept the keyboard
  from being taken, or it is over when the final restoration comes.
* `MappingsAreTheUsers`: what the lease promises, now of the detailed filter.

The first part of the module has one lemma per function of `muse_on_key_filter.c` and of the
listener around it: what it keeps of a listener, what it adds, which keyboards it
may leave swallowing keys, for every fault of macOS. It also proves
(`SingleIsTheOnlyOne`) that a SINGLE snapshot of any finite set of interfaces
names a complete controller and that nothing else is in sight.

`KeyboardLeaseProofs` proves of the abstract lease, for every set of keyboards,
that no keyboard swallows keys but the one on lease and those an ended listener
left so (`SwallowsOnlyOnLease`), and that every other has the mapping it is due
(`UserAlwaysGetsDue`).

### Reports

`ReportsProofs` is about any keys, modifiers and buttons, any room for keys in the
short and the long report, and any number of reports in flight.

* `ReportsAreLawful` is the inductive invariant `ReportsInv`: every field typed
  (`Typed`), the events so far, replayed, give what the decoders hold, and inputs
  count as released only while bound and heard on both interfaces (`Lawful`), the
  newest report in flight of each interface is true (`LastIsTrue`), and what is held since a binding or a return of Codex is down in
  everything that speaks of it: the user's hand, the kernel's elements, each valid
  report in flight, and the decoder if the profile maps it (`HeldThroughout`).
* `EventsAlwaysTellTheState`: replaying the events of any report over what was down
  before gives what the decoder then holds. The lemmas follow the code's loops: a
  modifier, button or hat makes one event for each change and two when the
  turntable turns back at once (the release first), the array of keys releases
  before it presses, and no report makes more events than the capacity, so that
  `Fitting` cuts nothing (`MaxEvents`, as the header computes it).
* `DecodersAlwaysCatchUp`, `HeldInputsAreNeverRouted`, `ReportsAreTyped`: the other
  invariants of the run. That a held input is not routed needs the whole of
  `HeldThroughout`: a report that is late at the binding would otherwise be taken
  for a fresh press once the queue is drained.

`DecoderAssumption` says that different inputs have different names, that the
modifiers and the buttons are finitely many, and that the joystick needs no more
events (12 buttons and two of the hat) than the keyboard (8 modifiers and twice
30 slots), which is how `muse_on_decoder.h` sizes its array.

### Diagnostics

`DiagnosticsProofs` is about every capacity and every set of lines:

* `RingImplementsHistory`: `Spec => KeepsRecent`, the refinement. The inductive
  invariant is `TypeOK`, the shape of the ring; without the range of `next` and
  `count` nothing is known of the slots. The argument is in two lemmas:
  while there is room, the oldest line stays and the next slot holds none
  (`RoomKeepsOrder`); in a full ring the next slot holds the oldest line
  (`FullDropsOldest`). `RecordAppends` draws the history from them.
* `CopiesAlwaysFit`: for every ring, failure tuple and buffer, the copy is a prefix
  of the whole text and leaves room for its terminator. The text is defined by
  recursion over the lines, so this is a proof by induction (see below).
* `RingIsTyped`: that invariant. `ReasonIsAlwaysOfTheLastRun`: the tuple names the
  listener of now or none, which is inductive as it stands.

### What stays with TLC

* All liveness (`StopIsServed`, `QuitIsAnswered`, `HoldEnds`, `OwedIsSettled`,
  `RecoveryEnds`): the prover handles neither fairness nor ENABLED.
* What becomes of a mapping after a recovery listener was refused a permission:
  of that the three properties above say nothing, and the run
  `host_pending_disable` shows that the latch is lost.

Induction over the lines of the ring is within reach because it is stated over a
set of numbers and not over a predicate: `NatInductionOnSets` of
`DiagnosticsProofs` follows from the well-foundedness of the finite sets, and from it
`RecursionExists`: a base and a step function that stay in a set compute a function.

## 5. Assumptions and what is left out

* The reply to a deferred Quit ends the app; no menu button is pressed while the
  reply is pending. Modal alerts are one step with their question.
* The app is launched in an available session. A missing helper is a failed
  launch.
* The controller is plugged more slowly than the listener's run loop turns. When
  the keyboard interface goes, its mapping goes with it.
* An app that ends takes its listener with it; the listener may or may not get to
  restore. The two preference writes of a Disable are one step.
* The generation counter does not wrap. The popover may be open or closed at any
  handler.
* In `Host` an open that fails or is not permitted is not followed by a failing
  close as well. A recovery is one of its three outcomes; its timing is in `KeyFilter`.
  Protocol lines are whole and well formed, except the last one of a crash.
* In `ButtonHold` one control of each kind stands for the sixteen (one holds,
  one repeats, one is only on the other interface); the debounce of the latter
  is left open. A report is delivered when the control moves. Time is counted
  in timer ticks.
* In `KeyFilter` a callback runs to its end before the next, as the run loop has
  it; a keyboard identity is used once. The user does not change a key mapping
  while the listener holds it. Time is counted in timer ticks.
* In `Reports` a key is a name and a report a set or an array of them; the axes and
  the mouse interface are left out because no action is mapped to them. Reports
  of one interface arrive in order.
* In `Diagnostics` a line is its length; a listener is the number of its run. The
  32-bit clamps of the codes are left out.

### Not modelled

* The connection observer: nothing that is built into the app uses it; only its
  own test starts it.
* Presentation: icons, texts, pairing guide, settings panes, login item,
  notifications, accessibility of the controller map.
* Option parsing of the listener and its capture and dry-run modes.
* The lexical form of the JSON lines, byte layout of reports, key codes.
* The calls to macOS themselves, which appear as choices of the world.
* Hazards without a property, in `PROJECT.json`: the order in which the two
  preference writes of a Disable reach the disk, nested event loops of alerts, and a
  loss of the focus that the poll misses.

## 6. Plan

Done: `StateCoordinator`, `Coordinator`; `TopologyHost`, `AppDelegate`, `Host`;
`ButtonHold`; `Connection`, `KeyboardLease`, `KeyFilter`; `Decoder`, `Reports`;
`DiagnosticsLog`, `Diagnostics`; the safety part of `Coordinator`, `Host`,
`ButtonHold`, `Reports`, `KeyFilter`, `KeyboardLease`, `Connection` and
`Diagnostics` proved.

Next, in order:

1. Proofs: the action property `CleanStopIsAccepted` restricted to the order of the
   two ends in which it holds.
2. An abstract specification of Control (Disabled, Inactive, Active, Latched)
   that `Coordinator`, and through it `Host`, implements.
3. `Host` with alerts as steps of their own.
