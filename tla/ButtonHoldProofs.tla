-------------------------- MODULE ButtonHoldProofs --------------------------
(***************************************************************************)
(* Theorems of ButtonHold, for every debounce, repeat interval and number  *)
(* of refusals.                                                            *)
(*                                                                         *)
(* None of the invariants is inductive alone: that a held shortcut has its *)
(* button down is a fact about a router that is reset, routed to and       *)
(* settled far from the focus, the permission and the button it is about.  *)
(* HoldInv carries what ties them.  Sound is about the listener alone and  *)
(* is kept by every operator of the module; Fresh, Permitted and Tracks    *)
(* relate the router to the buttons, the permission and the focus.  Most   *)
(* lemmas say what one operator does to the few fields those need; the     *)
(* chain of a tick is put together in TicksAreTaken.                       *)
(*                                                                         *)
(* Where the focus or a permission may go and return between two ticks     *)
(* (Flicker) the listener cannot see it, and a button let go meanwhile is  *)
(* not reported to the router: the theorems about the button assume        *)
(* ~Flicker, as the runs do.                                               *)
(***************************************************************************)
EXTENDS ButtonHold, TLAPS

(* A router that holds, awaits and repeats nothing.                        *)
Idle(r) == r.pending = "NONE" /\ ~r.active /\ ~r.repeating

(* Whether the router will hold, once what is pending has settled.         *)
Wants(r) == IF r.pending = "NONE" THEN r.active ELSE r.pending = "BEGIN"

(* What the listener keeps by itself: the filter and what is owed of its   *)
(* restoration exclude each other, a binding rests on the filter, and      *)
(* neither the router nor a hold that can still be released outlives the   *)
(* binding, the focus and Neutral Entry.                                   *)
Sound(l) ==
  /\ l \in Listeners
  /\ l.bound => l.applied
  /\ l.owed => ~l.applied
  /\ ~l.running => ~l.bound
  /\ Idle(l.router) \/ RoutesInputs(l)
  /\ l.hold => l.releaseFailed \/ RoutesInputs(l)

(* What a handler that lets go leaves of the listener it was given.        *)
LetGo(l, m) ==
  /\ m \in Listeners
  /\ ~m.bound /\ Idle(m.router)
  /\ m.hold => l.hold /\ m.releaseFailed
  /\ l.releaseFailed => m.releaseFailed
  /\ l.stop => m.stop
  /\ m.running = l.running
  /\ m.postAccess = l.postAccess
  /\ m.foreground = l.foreground

(* A listener that only waited, or let go.                                 *)
Carries(l, m) ==
  /\ l.releaseFailed => m.releaseFailed
  /\ l.stop => m.stop
  /\ m.running = l.running
  /\ m.postAccess = l.postAccess
  /\ m.hold => l.hold
  /\ \/ m.router = l.router
     \/ Idle(m.router) /\ (m.hold => m.releaseFailed)

(* A listener that looked at the focus.                                    *)
Focused(l, m, frontmost) ==
  /\ Sound(m) /\ Carries(l, m)
  /\ m.bound = l.bound
  /\ m.foreground = frontmost

(* A listener whose router looked at what is due.                          *)
Settled(l, m, output, frontmost) ==
  /\ Sound(m)
  /\ m.hold = l.hold /\ m.releaseFailed = l.releaseFailed
  /\ m.bound = l.bound /\ m.foreground = l.foreground
  /\ m.released = l.released
  /\ m.stop = l.stop /\ m.running = l.running
  /\ m.postAccess = l.postAccess
  /\ Wants(m.router) = Wants(l.router)
  /\ m.router.repeating = l.router.repeating
  /\ Idle(l.router) => Idle(m.router)
  /\ l.router.active /\ output # "END" => m.router.active
  /\ output = "BEGIN" => l.router.pending = "BEGIN" /\ m.router.active
  /\ output = "TRIGGER" => l.router.repeating
  /\ output # "NONE" => RoutesInputs(l) /\ GateIsOpen(l, frontmost)
  /\ output \in {"NONE", "BEGIN", "END", "TRIGGER"}

(* A listener that handled an action of its router.                        *)
Handled(l, m, output, frontmost, access) ==
  /\ Sound(m)
  /\ m.router = l.router /\ m.bound = l.bound
  /\ m.foreground = l.foreground /\ m.running = l.running
  /\ l.releaseFailed => m.releaseFailed
  /\ l.stop => m.stop
  /\ m.hold /\ ~l.hold =>
       output = "BEGIN" /\ frontmost /\ access /\ m.postAccess
  /\ output = "END" /\ frontmost /\ m.hold => m.releaseFailed
  /\ m.postAccess \in {l.postAccess, access}

(* A listener that is going down, as Ending says of lc.                    *)
Doomed(l) == l.releaseFailed \/ l.stop \/ ~l.running

(* A permission that macOS gives is known to a listener whose router or    *)
(* hold depends on it: one known to be gone is not seen to return before   *)
(* the filter went.                                                        *)
Permitted(w, l) ==
  ~Idle(l.router) \/ (l.hold /\ ~l.releaseFailed) =>
    (w.permitted => l.postAccess)

(* While Codex is in front the router that holds, or will hold, has its    *)
(* button pressed, and what is posted is what the router holds.            *)
Tracks(w, l) ==
  w.frontmost /\ ~Doomed(l) =>
    /\ l.hold => l.router.active
    /\ l.postAccess /\ Wants(l.router) => "black8" \in w.pressed
    /\ l.postAccess /\ l.router.repeating => "turntable" \in w.pressed

(* The router acts on no press that is older than the last entry.          *)
Fresh(l, old) ==
  /\ Wants(l.router) => "black8" \notin old
  /\ l.router.repeating => "turntable" \notin old

(* The inductive invariant.                                                *)
HoldInv ==
  /\ TypeOK
  /\ Sound(lc)
  /\ lc.bound => world.plugged = Interfaces
  /\ Fresh(lc, stale)
  /\ ~Flicker => Permitted(world, lc) /\ Tracks(world, lc)

-----------------------------------------------------------------------------

(* The router of muse_on_action_router_init holds nothing.                 *)
LEMMA InitialIsIdle ==
  /\ InitialRouter \in Routers
  /\ Idle(InitialRouter)
  /\ ~Wants(InitialRouter) /\ ~InitialRouter.repeating
  /\ InitialRouter.pending = "NONE" /\ ~InitialRouter.active
BY TicksAssumption DEF InitialRouter, Routers, Idle, Wants

(* Time alone changes no decision of the router.                           *)
LEMMA ElapseKeeps ==
  ASSUME NEW r \in Routers
  PROVE  /\ Elapse(r) \in Routers
         /\ Elapse(r).active = r.active
         /\ Elapse(r).pending = r.pending
         /\ Elapse(r).repeating = r.repeating
<1> DEFINE age   == IF r.pending # "NONE" /\ r.age < HoldDebounce
                    THEN r.age + 1 ELSE r.age
           due   == IF r.due > 0 THEN r.due - 1 ELSE r.due
           since == IF r.since < TriggerDebounce THEN r.since + 1 ELSE r.since
<1>1. /\ age \in 0..HoldDebounce
      /\ due \in 0..(FirstRepeat + NextRepeat)
      /\ since \in 0..TriggerDebounce
  BY TicksAssumption DEF Routers
<1>2. Elapse(r) = [r EXCEPT !.age = age, !.due = due, !.since = since]
  BY DEF Elapse
<1> HIDE DEF age, due, since
<1> QED
  BY <1>1, <1>2 DEF Routers

(* A hold event, whatever was pending, leaves the router wanting what the  *)
(* event asked for (route_hold).                                           *)
LEMMA RouteHoldWants ==
  ASSUME NEW r \in Routers, NEW begin \in BOOLEAN
  PROVE  /\ RouteHold(r, begin) \in Routers
         /\ Wants(RouteHold(r, begin)) = begin
         /\ RouteHold(r, begin).active = r.active
         /\ RouteHold(r, begin).repeating = r.repeating
<1>1. 0 \in 0..HoldDebounce
  BY TicksAssumption
<1>2. CASE begin = r.active
  <2>1. RouteHold(r, begin) = [r EXCEPT !.pending = "NONE", !.age = 0]
    BY <1>2 DEF RouteHold
  <2> QED
    BY <1>1, <1>2, <2>1 DEF Routers, Wants
<1>3. CASE begin # r.active
  <2> DEFINE wanted == IF begin THEN "BEGIN" ELSE "END"
  <2>1. RouteHold(r, begin) = IF r.pending = wanted THEN r
                              ELSE [r EXCEPT !.pending = wanted, !.age = 0]
    BY <1>3 DEF RouteHold
  <2> QED
    BY <1>1, <1>3, <2>1 DEF Routers, Wants
<1> QED
  BY <1>2, <1>3

(* An event of the turntable starts or stops its repeat and nothing else.  *)
LEMMA RouteTurntableRepeats ==
  ASSUME NEW r \in Routers, NEW engaged \in BOOLEAN
  PROVE  /\ RouteTurntable(r, engaged) \in Routers
         /\ RouteTurntable(r, engaged).repeating = engaged
         /\ RouteTurntable(r, engaged).active = r.active
         /\ RouteTurntable(r, engaged).pending = r.pending
<1> DEFINE since == IF TriggerIsDue(r) THEN 0 ELSE r.since
<1>1. /\ since \in 0..TriggerDebounce
      /\ 0 \in 0..(FirstRepeat + NextRepeat)
      /\ FirstRepeat \in 0..(FirstRepeat + NextRepeat)
  BY TicksAssumption DEF Routers
<1>2. RouteTurntable(r, engaged) =
        IF ~engaged THEN [r EXCEPT !.repeating = FALSE, !.due = 0]
        ELSE [r EXCEPT !.repeating = TRUE, !.due = FirstRepeat, !.since = since]
  BY DEF RouteTurntable
<1> HIDE DEF since
<1> QED
  BY <1>1, <1>2 DEF Routers

(* What is due changes from wanted to held, and the repeat goes on.        *)
LEMMA SettlingKeeps ==
  ASSUME NEW r \in Routers
  PROVE  /\ SettleHold(r) \in Routers
         /\ SettleHold(r).active = (r.pending = "BEGIN")
         /\ SettleHold(r).pending = "NONE"
         /\ SettleHold(r).repeating = r.repeating
         /\ SettleRepeat(r) \in Routers
         /\ SettleRepeat(r).active = r.active
         /\ SettleRepeat(r).pending = r.pending
         /\ SettleRepeat(r).repeating = r.repeating
<1>1. /\ 0 \in 0..HoldDebounce /\ 0 \in 0..TriggerDebounce
      /\ NextRepeat \in 0..(FirstRepeat + NextRepeat)
  BY TicksAssumption
<1> QED
  BY <1>1 DEF SettleHold, SettleRepeat, Routers

-----------------------------------------------------------------------------

(* force_release_synthetic_hold leaves no hold, or one whose release       *)
(* failed.                                                                 *)
LEMMA ForceReleaseLetsGo ==
  ASSUME NEW l \in Listeners, NEW posted \in BOOLEAN
  PROVE  LET m == ForceRelease(l, posted)
         IN /\ m \in Listeners
            /\ m.hold => l.hold /\ m.releaseFailed
            /\ l.releaseFailed => m.releaseFailed
            /\ m.router = l.router /\ m.bound = l.bound
            /\ m.foreground = l.foreground /\ m.released = l.released
            /\ m.applied = l.applied /\ m.owed = l.owed
            /\ m.stop = l.stop /\ m.running = l.running
            /\ m.postAccess = l.postAccess
BY DEF ForceRelease, Listeners

(* A binding that goes takes the router with it.                           *)
LEMMA UnbindResets ==
  ASSUME NEW l \in Listeners
  PROVE  LET m == Unbind(l)
         IN /\ m \in Listeners
            /\ ~m.bound /\ Idle(m.router)
            /\ m.hold = l.hold /\ m.releaseFailed = l.releaseFailed
            /\ m.foreground = l.foreground
            /\ m.applied = l.applied /\ m.owed = l.owed
            /\ m.stop = l.stop /\ m.running = l.running
            /\ m.postAccess = l.postAccess
BY InitialIsIdle DEF Unbind, ResetBoundInputs, Listeners

(* A binding starts with a router at rest, whatever the decoders are       *)
(* seeded with.                                                            *)
LEMMA BindResets ==
  ASSUME NEW l \in Listeners, NEW seeded \in SUBSET Interfaces,
         NEW pressed \in SUBSET Controls
  PROVE  LET m == Bind(l, seeded, pressed)
         IN /\ m \in Listeners
            /\ m.bound /\ m.router = InitialRouter
            /\ m.hold = l.hold /\ m.releaseFailed = l.releaseFailed
            /\ m.foreground = l.foreground
            /\ m.applied = l.applied /\ m.owed = l.owed
            /\ m.stop = l.stop /\ m.running = l.running
            /\ m.postAccess = l.postAccess
<1> DEFINE held == UNION {ControlsOf(i) \cap pressed : i \in seeded}
           released == seeded = Interfaces /\ held = {}
<1>1. held \in SUBSET Controls /\ released \in BOOLEAN
  OBVIOUS
<1> DEFINE reset == ResetBoundInputs(l)
           m == Bind(l, seeded, pressed)
<1>2. m = [reset EXCEPT !.bound = TRUE, !.seen = seeded, !.held = held,
                        !.released = released]
  BY DEF Bind
<1>3. /\ reset \in Listeners /\ reset.router = InitialRouter
      /\ reset.hold = l.hold /\ reset.releaseFailed = l.releaseFailed
      /\ reset.foreground = l.foreground
      /\ reset.applied = l.applied /\ reset.owed = l.owed
      /\ reset.stop = l.stop /\ reset.running = l.running
      /\ reset.postAccess = l.postAccess
  BY InitialIsIdle DEF ResetBoundInputs, Listeners
<1> HIDE DEF held, released, reset, m
<1>4. m \in Listeners
  BY <1>1, <1>2, <1>3 DEF Listeners
<1>5. /\ m.bound /\ m.router = reset.router
      /\ m.hold = reset.hold /\ m.releaseFailed = reset.releaseFailed
      /\ m.foreground = reset.foreground
      /\ m.applied = reset.applied /\ m.owed = reset.owed
      /\ m.stop = reset.stop /\ m.running = reset.running
      /\ m.postAccess = reset.postAccess
  BY <1>2, <1>3 DEF Listeners
<1> QED
  BY <1>3, <1>4, <1>5 DEF m

(* restore_keyboard_filter leaves neither the filter nor the binding nor a *)
(* hold that did not fail; a second attempt, which does not let go again,  *)
(* needs none of them left by the first.                                   *)
LEMMA RestoreLetsGo ==
  ASSUME NEW l \in Listeners, NEW posted \in BOOLEAN,
         NEW restoration \in Restorations,
         l.owed => ~l.bound /\ Idle(l.router) /\ (l.hold => l.releaseFailed)
  PROVE  /\ LetGo(l, Restore(l, posted, restoration))
         /\ ~Restore(l, posted, restoration).applied
<1> DEFINE unfiltered == [l EXCEPT !.applied = FALSE]
           loose      == IF l.owed THEN unfiltered
                         ELSE Unbind(ForceRelease(unfiltered, posted))
<1>1. unfiltered \in Listeners
  BY DEF Listeners
<1>2. LetGo(l, loose) /\ ~loose.applied
  <2>1. CASE l.owed
    BY <1>1, <2>1 DEF LetGo, Listeners
  <2>2. CASE ~l.owed
    <3> DEFINE forced == ForceRelease(unfiltered, posted)
    <3>1. /\ forced \in Listeners
          /\ forced.hold => unfiltered.hold /\ forced.releaseFailed
          /\ unfiltered.releaseFailed => forced.releaseFailed
          /\ forced.applied = unfiltered.applied
          /\ forced.foreground = unfiltered.foreground
          /\ forced.stop = unfiltered.stop
          /\ forced.running = unfiltered.running
          /\ forced.postAccess = unfiltered.postAccess
      BY <1>1, ForceReleaseLetsGo
    <3>2. /\ unfiltered.hold = l.hold /\ unfiltered.stop = l.stop
          /\ unfiltered.releaseFailed = l.releaseFailed
          /\ unfiltered.running = l.running /\ ~unfiltered.applied
          /\ unfiltered.postAccess = l.postAccess
          /\ unfiltered.foreground = l.foreground
      BY DEF Listeners
    <3>3. loose = Unbind(forced)
      BY <2>2
    <3> HIDE DEF forced, unfiltered, loose
    <3> QED
      BY <3>1, <3>2, <3>3, UnbindResets DEF LetGo
  <2> QED
    BY <2>1, <2>2
<1>3. \/ Restore(l, posted, restoration) = [loose EXCEPT !.owed = FALSE]
      \/ Restore(l, posted, restoration) = [loose EXCEPT !.owed = TRUE]
      \/ Restore(l, posted, restoration) =
           [[loose EXCEPT !.owed = TRUE] EXCEPT !.releaseFailed = TRUE, !.stop = TRUE]
  BY DEF Restore
<1> HIDE DEF loose
<1> QED
  BY <1>2, <1>3 DEF LetGo, Listeners

(* A restoration keeps a sound listener sound.                             *)
LEMMA RestoreIsSound ==
  ASSUME NEW l, Sound(l), NEW posted \in BOOLEAN,
         NEW restoration \in Restorations
  PROVE  LET m == Restore(l, posted, restoration)
         IN Sound(m) /\ LetGo(l, m) /\ Carries(l, m) /\ ~m.applied
<1> DEFINE m == Restore(l, posted, restoration)
<1>1. l \in Listeners /\ (l.owed => ~l.bound /\ Idle(l.router) /\ (l.hold => l.releaseFailed))
  BY DEF Sound, RoutesInputs
<1>2. LetGo(l, m) /\ ~m.applied
  BY <1>1, RestoreLetsGo
<1> HIDE DEF m
<1>3. Sound(m) /\ Carries(l, m)
  BY <1>2 DEF LetGo, Sound, Carries
<1> QED
  BY <1>2, <1>3 DEF m

(* A tick that passed, and a look at the permission.                       *)
LEMMA TimedIsSound ==
  ASSUME NEW l, Sound(l), NEW poll \in BOOLEAN, NEW w \in Worlds, w = world
  PROVE  LET m == PollPermission([l EXCEPT !.router = Elapse(@)], poll)
         IN /\ Sound(m)
            /\ m.router = Elapse(l.router)
            /\ m.hold = l.hold /\ m.releaseFailed = l.releaseFailed
            /\ m.bound = l.bound /\ m.foreground = l.foreground
            /\ m.released = l.released
            /\ m.stop = l.stop /\ m.running = l.running
            /\ m.applied = l.applied /\ m.owed = l.owed
            /\ m.postAccess = IF poll THEN world.permitted ELSE l.postAccess
<1> DEFINE timed == [l EXCEPT !.router = Elapse(@)]
           access == IF poll THEN world.permitted ELSE l.postAccess
           m == PollPermission(timed, poll)
<1>1. l \in Listeners /\ l.router \in Routers /\ world.permitted \in BOOLEAN
  BY DEF Sound, Listeners, Worlds
<1>2. /\ Elapse(l.router) \in Routers
      /\ Idle(l.router) => Idle(Elapse(l.router))
  BY <1>1, ElapseKeeps DEF Idle
<1>3. m = [timed EXCEPT !.postAccess = access]
  BY <1>1 DEF PollPermission, Listeners
<1>4. access \in BOOLEAN
  BY <1>1 DEF Listeners
<1> HIDE DEF access, m
<1>5. m \in Listeners
  BY <1>1, <1>2, <1>3, <1>4 DEF Listeners
<1>6. /\ m.router = Elapse(l.router)
      /\ m.hold = l.hold /\ m.releaseFailed = l.releaseFailed
      /\ m.bound = l.bound /\ m.foreground = l.foreground
      /\ m.released = l.released
      /\ m.stop = l.stop /\ m.running = l.running
      /\ m.applied = l.applied /\ m.owed = l.owed
      /\ m.postAccess = access
  BY <1>1, <1>3 DEF Listeners
<1>7. Sound(m)
  BY <1>2, <1>5, <1>6 DEF Sound, RoutesInputs
<1> QED
  BY <1>6, <1>7 DEF m, access

(* Entering or leaving the foreground keeps a sound listener sound; what   *)
(* leaving resets is gone.                                                 *)
LEMMA SeeFocusIsSound ==
  ASSUME NEW l, Sound(l), NEW frontmost \in BOOLEAN, NEW posted \in BOOLEAN
  PROVE  Focused(l, SeeFocus(l, frontmost, posted), frontmost)
<1> DEFINE m == SeeFocus(l, frontmost, posted)
<1>1. l \in Listeners
  BY DEF Sound
<1>2. CASE l.foreground = frontmost
  BY <1>2 DEF SeeFocus, Carries, Focused
<1>3. CASE l.foreground # frontmost /\ frontmost
  <2>1. m = [l EXCEPT !.foreground = TRUE]
    BY <1>3 DEF SeeFocus
  <2>2. m \in Listeners
    BY <1>1, <2>1 DEF Listeners
  <2> QED
    BY <1>1, <1>3, <2>1, <2>2
    DEF Sound, Carries, RoutesInputs, Listeners, Focused
<1>4. CASE l.foreground # frontmost /\ ~frontmost
  <2> DEFINE n == [l EXCEPT !.foreground = FALSE, !.released = FALSE,
                            !.router = InitialRouter]
  <2>1. m = ForceRelease(n, posted)
    BY <1>4 DEF SeeFocus
  <2>2. n \in Listeners
    BY <1>1, InitialIsIdle DEF Listeners
  <2>3. /\ n.router = InitialRouter /\ n.hold = l.hold
        /\ n.releaseFailed = l.releaseFailed /\ n.foreground = FALSE
        /\ n.bound = l.bound /\ n.applied = l.applied /\ n.owed = l.owed
        /\ n.stop = l.stop /\ n.running = l.running
        /\ n.postAccess = l.postAccess
    BY <1>1 DEF Listeners
  <2> HIDE DEF n, m
  <2>4. /\ m \in Listeners
        /\ m.hold => n.hold /\ m.releaseFailed
        /\ n.releaseFailed => m.releaseFailed
        /\ m.router = n.router /\ m.bound = n.bound
        /\ m.foreground = n.foreground
        /\ m.applied = n.applied /\ m.owed = n.owed
        /\ m.stop = n.stop /\ m.running = n.running
        /\ m.postAccess = n.postAccess
    BY <2>1, <2>2, ForceReleaseLetsGo
  <2>5. Sound(m) /\ Carries(l, m)
    BY <2>3, <2>4, InitialIsIdle DEF Sound, Carries
  <2>6. m.foreground = frontmost
    BY <1>4, <2>3, <2>4
  <2> QED
    BY <2>3, <2>4, <2>5, <2>6 DEF m, Focused
<1> QED
  BY <1>1, <1>2, <1>3, <1>4

(* Applying or restoring the filter on a tick keeps a sound listener       *)
(* sound, and a binding it makes starts at rest.                           *)
LEMMA SeeFilterIsSound ==
  ASSUME NEW l, Sound(l), l.running, world \in Worlds,
         l.bound => world.plugged = Interfaces,
         NEW posted \in BOOLEAN, NEW restoration \in Restorations,
         NEW apply \in BOOLEAN, NEW seeded \in SUBSET Interfaces
  PROVE  LET m == SeeFilter(l, posted, restoration, apply, seeded)
         IN /\ Sound(m) /\ Carries(l, m)
            /\ m.bound => world.plugged = Interfaces
            /\ m.bound /\ ~l.bound => Idle(m.router)
            /\ m.foreground = l.foreground
<1> DEFINE settled == IF l.owed THEN Restore(l, posted, restoration) ELSE l
           filtered == [settled EXCEPT !.applied = TRUE]
           bound == Bind(filtered, seeded, world.pressed)
           m == SeeFilter(l, posted, restoration, apply, seeded)
<1>1. l \in Listeners
  BY DEF Sound
<1>2. /\ Sound(settled) /\ Carries(l, settled)
      /\ settled.bound => l.bound
      /\ settled.foreground = l.foreground
  <2>1. CASE l.owed
    BY <2>1, RestoreIsSound DEF LetGo
  <2>2. CASE ~l.owed
    BY <2>2 DEF Carries
  <2> QED
    BY <2>1, <2>2
<1>3. CASE m = l
  BY <1>3 DEF Carries
<1>4. CASE m = Restore(l, posted, restoration)
  BY <1>4, RestoreIsSound DEF LetGo
<1>5. CASE m = settled
  BY <1>2, <1>5
<1>6. CASE m = bound /\ WantFilter(l) /\ ~l.applied /\ ~settled.owed
  <2> HIDE DEF settled, m
  <2>1. settled \in Listeners /\ world.pressed \in SUBSET Controls
    BY <1>2 DEF Sound, Worlds
  <2>2. /\ filtered \in Listeners /\ filtered.applied
        /\ filtered.hold = settled.hold /\ filtered.owed = settled.owed
        /\ filtered.releaseFailed = settled.releaseFailed
        /\ filtered.stop = settled.stop /\ filtered.running = settled.running
        /\ filtered.postAccess = settled.postAccess
        /\ filtered.foreground = settled.foreground
    BY <2>1 DEF Listeners
  <2> HIDE DEF filtered
  <2>3. /\ bound \in Listeners
        /\ bound.router = InitialRouter
        /\ bound.hold = filtered.hold
        /\ bound.releaseFailed = filtered.releaseFailed
        /\ bound.foreground = filtered.foreground
        /\ bound.applied = filtered.applied /\ bound.owed = filtered.owed
        /\ bound.stop = filtered.stop /\ bound.running = filtered.running
        /\ bound.postAccess = filtered.postAccess
    BY <2>1, <2>2, BindResets
  <2>4. l.hold => l.releaseFailed
    BY <1>6 DEF Sound, RoutesInputs
  <2> HIDE DEF bound
  <2>5. bound.hold => l.hold /\ bound.releaseFailed
    BY <1>2, <2>2, <2>3, <2>4 DEF Carries
  <2>6. Sound(bound) /\ Carries(l, bound)
    BY <1>2, <1>6, <2>2, <2>3, <2>5, InitialIsIdle DEF Sound, Carries
  <2> QED
    BY <1>2, <1>6, <2>2, <2>3, <2>6, InitialIsIdle DEF WantFilter, m
<1>7. \/ m = l \/ m = Restore(l, posted, restoration) \/ m = settled
      \/ m = bound /\ WantFilter(l) /\ ~l.applied /\ ~settled.owed
  BY DEF SeeFilter
<1> HIDE DEF m, bound, settled
<1> QED
  BY <1>3, <1>4, <1>5, <1>6, <1>7 DEF m

(* What the router's part of a tick is worth.                              *)
(* What is due acts only through an open gate, and leaves what the router  *)
(* wants as it was.                                                        *)
LEMMA RouterTickSettles ==
  ASSUME NEW l, Sound(l), NEW frontmost \in BOOLEAN
  PROVE  Settled(l, RouterTick(l, frontmost), RouterOutput(l, frontmost),
                 frontmost)
<1> DEFINE m == RouterTick(l, frontmost)
           output == RouterOutput(l, frontmost)
           open == RoutesInputs(l) /\ GateIsOpen(l, frontmost)
<1>1. l \in Listeners /\ l.router \in Routers
  BY DEF Sound, Listeners
<1>2. CASE m = l /\ output = "NONE"
  BY <1>2 DEF Settled
<1>3. CASE /\ open /\ HoldIsDue(l.router)
           /\ m = [l EXCEPT !.router = SettleHold(@)]
           /\ output = l.router.pending
  <2>1. /\ SettleHold(l.router) \in Routers
        /\ SettleHold(l.router).active = (l.router.pending = "BEGIN")
        /\ SettleHold(l.router).pending = "NONE"
        /\ SettleHold(l.router).repeating = l.router.repeating
    BY <1>1, SettlingKeeps
  <2>2. m \in Listeners
    BY <1>1, <1>3, <2>1 DEF Listeners
  <2>3. /\ m.router = SettleHold(l.router)
        /\ m.hold = l.hold /\ m.releaseFailed = l.releaseFailed
        /\ m.bound = l.bound /\ m.foreground = l.foreground
        /\ m.released = l.released /\ m.applied = l.applied
        /\ m.owed = l.owed
        /\ m.stop = l.stop /\ m.running = l.running
        /\ m.postAccess = l.postAccess
    BY <1>1, <1>3 DEF Listeners
  <2>4. Sound(m)
    BY <1>3, <2>2, <2>3 DEF Sound, RoutesInputs
  <2>5. l.router.pending \in {"BEGIN", "END"}
    BY <1>1, <1>3 DEF HoldIsDue, Routers
  <2>6. Wants(m.router) = Wants(l.router)
    BY <2>1, <2>3, <2>5 DEF Wants
  <2>7. /\ ~Idle(l.router)
        /\ output # "END" => m.router.active
        /\ output = "BEGIN" => l.router.pending = "BEGIN"
        /\ output \in {"BEGIN", "END"}
    BY <1>3, <2>1, <2>3, <2>5 DEF Idle
  <2> HIDE DEF m, output
  <2> QED
    BY <1>3, <2>1, <2>3, <2>4, <2>6, <2>7 DEF m, output, Settled
<1>4. CASE /\ open /\ RepeatIsDue(l.router)
           /\ m = [l EXCEPT !.router = SettleRepeat(@)]
           /\ output = "TRIGGER"
  <2>1. /\ SettleRepeat(l.router) \in Routers
        /\ SettleRepeat(l.router).active = l.router.active
        /\ SettleRepeat(l.router).pending = l.router.pending
        /\ SettleRepeat(l.router).repeating = l.router.repeating
    BY <1>1, SettlingKeeps
  <2>2. m \in Listeners
    BY <1>1, <1>4, <2>1 DEF Listeners
  <2>3. /\ m.router = SettleRepeat(l.router)
        /\ m.hold = l.hold /\ m.releaseFailed = l.releaseFailed
        /\ m.bound = l.bound /\ m.foreground = l.foreground
        /\ m.released = l.released /\ m.applied = l.applied
        /\ m.owed = l.owed
        /\ m.stop = l.stop /\ m.running = l.running
        /\ m.postAccess = l.postAccess
    BY <1>1, <1>4 DEF Listeners
  <2>4. Sound(m)
    BY <1>4, <2>2, <2>3 DEF Sound, RoutesInputs
  <2>5. Wants(m.router) = Wants(l.router)
    BY <2>1, <2>3 DEF Wants
  <2>6. l.router.repeating /\ ~Idle(l.router)
    BY <1>4 DEF RepeatIsDue, Idle
  <2> HIDE DEF m, output
  <2> QED
    BY <1>4, <2>1, <2>3, <2>4, <2>5, <2>6 DEF m, output, Settled
<1>5. \/ m = l /\ output = "NONE"
      \/ /\ open /\ HoldIsDue(l.router)
         /\ m = [l EXCEPT !.router = SettleHold(@)]
         /\ output = l.router.pending
      \/ /\ open /\ RepeatIsDue(l.router)
         /\ m = [l EXCEPT !.router = SettleRepeat(@)]
         /\ output = "TRIGGER"
  BY DEF RouterTick, RouterOutput
<1> QED
  BY <1>2, <1>3, <1>4, <1>5

(* handle_action: only a begin that was posted makes a hold, and an end    *)
(* that was not posted is a failure unless Codex is no longer in front.    *)
LEMMA HandleIsSound ==
  ASSUME NEW l, Sound(l), NEW output \in {"NONE", "BEGIN", "END", "TRIGGER"},
         output = "BEGIN" => RoutesInputs(l),
         NEW frontmost \in BOOLEAN, NEW access \in BOOLEAN,
         NEW posted \in BOOLEAN
  PROVE  Handled(l, Handle(l, output, frontmost, access, posted),
                 output, frontmost, access)
<1> DEFINE known == [l EXCEPT !.postAccess = access]
           m == Handle(l, output, frontmost, access, posted)
<1>1. l \in Listeners
  BY DEF Sound
<1>2. /\ known \in Listeners
      /\ known.router = l.router /\ known.bound = l.bound
      /\ known.foreground = l.foreground /\ known.released = l.released
      /\ known.running = l.running /\ known.hold = l.hold
      /\ known.releaseFailed = l.releaseFailed /\ known.stop = l.stop
      /\ known.applied = l.applied /\ known.owed = l.owed
      /\ known.postAccess = access
  BY <1>1 DEF Listeners
<1>3. Sound(known)
  BY <1>2 DEF Sound, RoutesInputs
<1> HIDE DEF known
<1>4. CASE m = l /\ (output = "NONE" \/ ~frontmost)
  BY <1>4 DEF Handled
<1>5. CASE m = known /\ (output = "END" /\ frontmost => ~known.hold)
  BY <1>2, <1>3, <1>5 DEF Handled
<1>6. CASE /\ m = [known EXCEPT !.releaseFailed = TRUE, !.stop = TRUE]
           /\ output = "END"
  <2> HIDE DEF m
  <2>1. /\ m \in Listeners
        /\ m.router = known.router /\ m.bound = known.bound
        /\ m.foreground = known.foreground /\ m.released = known.released
        /\ m.running = known.running /\ m.hold = known.hold
        /\ m.releaseFailed /\ m.stop
        /\ m.applied = known.applied /\ m.owed = known.owed
        /\ m.postAccess = known.postAccess
    BY <1>2, <1>6 DEF Listeners
  <2>2. Sound(m)
    BY <1>3, <2>1 DEF Sound, RoutesInputs
  <2> QED
    BY <1>2, <2>1, <2>2 DEF m, Handled
<1>7. CASE /\ m = [known EXCEPT !.hold = IF output = "TRIGGER" THEN @
                                         ELSE output = "BEGIN"]
           /\ frontmost /\ access /\ output # "NONE"
  <2> DEFINE hold == IF output = "TRIGGER" THEN known.hold ELSE output = "BEGIN"
  <2>1. hold \in BOOLEAN
    BY <1>2 DEF Listeners
  <2>2. m = [known EXCEPT !.hold = hold]
    BY <1>7
  <2>3. /\ hold /\ ~l.hold => output = "BEGIN"
        /\ output = "END" => ~hold
    BY <1>2
  <2> HIDE DEF m, hold
  <2>4. /\ m \in Listeners
        /\ m.router = known.router /\ m.bound = known.bound
        /\ m.foreground = known.foreground /\ m.released = known.released
        /\ m.running = known.running /\ m.hold = hold
        /\ m.releaseFailed = known.releaseFailed /\ m.stop = known.stop
        /\ m.applied = known.applied /\ m.owed = known.owed
        /\ m.postAccess = known.postAccess
    BY <1>2, <2>1, <2>2 DEF Listeners
  <2>5. Sound(m)
    BY <1>2, <1>3, <2>3, <2>4 DEF Sound, RoutesInputs
  <2> QED
    BY <1>2, <1>7, <2>3, <2>4, <2>5 DEF m, Handled
<1>8. \/ m = l /\ (output = "NONE" \/ ~frontmost)
      \/ m = known /\ (output = "END" /\ frontmost => ~known.hold)
      \/ /\ m = [known EXCEPT !.releaseFailed = TRUE, !.stop = TRUE]
         /\ output = "END"
      \/ /\ m = [known EXCEPT !.hold = IF output = "TRIGGER" THEN @
                                       ELSE output = "BEGIN"]
         /\ frontmost /\ access /\ output # "NONE"
  BY <1>2 DEF Handle, Lost, IsRedundant, known
<1> HIDE DEF m
<1> QED
  BY <1>4, <1>5, <1>6, <1>7, <1>8 DEF m

(* The loop goes on, or ends with everything let go.                       *)
LEMMA LeavingIsSound ==
  ASSUME NEW l, Sound(l), NEW posted \in BOOLEAN,
         NEW restoration \in Restorations
  PROVE  LET m == LeaveIfStopped(l, posted, restoration)
         IN \/ m = l /\ ~l.stop /\ ~l.releaseFailed
            \/ /\ Sound(m) /\ ~m.running /\ ~m.bound
               /\ Idle(m.router)
               /\ m.hold => m.releaseFailed
               /\ l.releaseFailed => m.releaseFailed
               /\ l.stop => m.stop
<1> DEFINE last == Restore(l, posted, IF restoration = "LATER" THEN "FAILED"
                                      ELSE restoration)
           m == [last EXCEPT !.running = FALSE]
<1>1. (IF restoration = "LATER" THEN "FAILED" ELSE restoration) \in Restorations
  BY DEF Restorations
<1>2. Sound(last) /\ LetGo(l, last)
  BY <1>1, RestoreIsSound
<1> HIDE DEF last
<1>3. /\ m \in Listeners /\ ~m.running
      /\ m.router = last.router /\ m.bound = last.bound
      /\ m.hold = last.hold /\ m.releaseFailed = last.releaseFailed
      /\ m.stop = last.stop
      /\ m.owed = last.owed /\ m.applied = last.applied
      /\ m.released = last.released /\ m.foreground = last.foreground
  BY <1>2 DEF LetGo, Listeners
<1>4. Sound(m)
  BY <1>2, <1>3 DEF Sound, RoutesInputs, LetGo
<1> HIDE DEF m
<1>5. LeaveIfStopped(l, posted, restoration) =
        IF l.stop \/ l.releaseFailed THEN m ELSE l
  BY DEF LeaveIfStopped, m, last
<1> QED
  BY <1>2, <1>3, <1>4, <1>5 DEF LetGo

(* A removal lets go of the binding and of the hold, the keyboard of its   *)
(* filter too.                                                             *)
LEMMA UnpluggedIsSound ==
  ASSUME NEW l, Sound(l), NEW interface \in Interfaces,
         NEW posted \in BOOLEAN, NEW restoration \in Restorations
  PROVE  LET m == Unplugged(l, interface, posted, restoration)
         IN Sound(m) /\ LetGo(l, m)
<1> DEFINE loose    == Unbind(l)
           released == ForceRelease(loose, posted)
           m == Unplugged(l, interface, posted, restoration)
<1>1. l \in Listeners
  BY DEF Sound
<1>2. /\ loose \in Listeners
      /\ ~loose.bound /\ Idle(loose.router)
      /\ loose.hold = l.hold /\ loose.releaseFailed = l.releaseFailed
      /\ loose.foreground = l.foreground
      /\ loose.applied = l.applied /\ loose.owed = l.owed
      /\ loose.stop = l.stop /\ loose.running = l.running
      /\ loose.postAccess = l.postAccess
  BY <1>1, UnbindResets
<1> HIDE DEF loose
<1>3. /\ released \in Listeners
      /\ released.hold => loose.hold /\ released.releaseFailed
      /\ loose.releaseFailed => released.releaseFailed
      /\ released.router = loose.router /\ released.bound = loose.bound
      /\ released.foreground = loose.foreground
      /\ released.applied = loose.applied /\ released.owed = loose.owed
      /\ released.stop = loose.stop /\ released.running = loose.running
      /\ released.postAccess = loose.postAccess
  BY <1>2, ForceReleaseLetsGo
<1> HIDE DEF released
<1>4. l.owed => ~l.applied
  BY DEF Sound
<1>5. CASE m = [released EXCEPT !.stop = TRUE]
  <2> HIDE DEF m
  <2>1. /\ m \in Listeners /\ m.stop
        /\ m.hold = released.hold /\ m.releaseFailed = released.releaseFailed
        /\ m.router = released.router /\ m.bound = released.bound
        /\ m.foreground = released.foreground
        /\ m.applied = released.applied /\ m.owed = released.owed
        /\ m.running = released.running
        /\ m.postAccess = released.postAccess
    BY <1>3, <1>5 DEF Listeners
  <2>2. Sound(m) /\ LetGo(l, m)
    BY <1>2, <1>3, <1>4, <2>1 DEF Sound, LetGo
  <2> QED
    BY <2>2 DEF m
<1>6. CASE m = [released EXCEPT !.applied = FALSE, !.owed = FALSE]
  <2> HIDE DEF m
  <2>1. /\ m \in Listeners /\ ~m.owed
        /\ m.hold = released.hold /\ m.releaseFailed = released.releaseFailed
        /\ m.router = released.router /\ m.bound = released.bound
        /\ m.foreground = released.foreground
        /\ m.stop = released.stop /\ m.running = released.running
        /\ m.postAccess = released.postAccess
    BY <1>3, <1>6 DEF Listeners
  <2>2. Sound(m) /\ LetGo(l, m)
    BY <1>2, <1>3, <2>1 DEF Sound, LetGo
  <2> QED
    BY <2>2 DEF m
<1>7. CASE m = Restore(loose, posted, restoration) /\ l.applied
  <2> HIDE DEF m
  <2>1. LetGo(loose, m) /\ ~m.applied
    BY <1>2, <1>4, <1>7, RestoreLetsGo
  <2>2. Sound(m) /\ LetGo(l, m)
    BY <1>2, <2>1 DEF Sound, LetGo
  <2> QED
    BY <2>2 DEF m
<1>8. CASE m = released
  <2> HIDE DEF m
  <2>1. Sound(m) /\ LetGo(l, m)
    BY <1>2, <1>3, <1>4, <1>8 DEF Sound, LetGo
  <2> QED
    BY <2>1 DEF m
<1>9. \/ m = [released EXCEPT !.stop = TRUE]
      \/ m = [released EXCEPT !.applied = FALSE, !.owed = FALSE]
      \/ m = Restore(loose, posted, restoration) /\ l.applied
      \/ m = released
  BY DEF Unplugged, released, loose
<1> QED
  BY <1>5, <1>6, <1>7, <1>8, <1>9

(* Looking for Neutral Entry changes only whether inputs are released.     *)
LEMMA ReconcileIsSound ==
  ASSUME NEW l \in Listeners
  PROVE  LET m == Reconcile(l)
         IN /\ m \in Listeners
            /\ m.router = l.router /\ m.bound = l.bound
            /\ m.foreground = l.foreground
            /\ m.hold = l.hold /\ m.releaseFailed = l.releaseFailed
            /\ m.applied = l.applied /\ m.owed = l.owed
            /\ m.stop = l.stop /\ m.running = l.running
            /\ m.postAccess = l.postAccess
<1> DEFINE released == l.seen = Interfaces /\ l.held = {}
<1>1. released \in BOOLEAN /\ Reconcile(l) = [l EXCEPT !.released = released]
  BY DEF Reconcile
<1> HIDE DEF released
<1> QED
  BY <1>1 DEF Listeners

(* A routed report changes what the router wants of its own control only.  *)
LEMMA ReportRoutedIsSound ==
  ASSUME NEW l, Sound(l), RoutesInputs(l), NEW control \in Controls,
         NEW down \in BOOLEAN
  PROVE  LET m == ReportRouted(l, control, down)
         IN /\ Sound(m) /\ RoutesInputs(m)
            /\ m.bound = l.bound
            /\ m.hold = l.hold /\ m.releaseFailed = l.releaseFailed
            /\ m.stop = l.stop /\ m.running = l.running
            /\ m.postAccess = l.postAccess
            /\ m.router.active = l.router.active
            /\ Wants(m.router) = IF control = "black8" THEN down
                                 ELSE Wants(l.router)
            /\ m.router.repeating = IF control = "turntable" THEN down
                                    ELSE l.router.repeating
<1> DEFINE router == CASE control = "black8"    -> RouteHold(l.router, down)
                       [] control = "turntable" -> RouteTurntable(l.router, down)
                       [] OTHER                 -> l.router
           m == ReportRouted(l, control, down)
<1>1. l \in Listeners /\ l.router \in Routers
  BY DEF Sound, Listeners
<1>2. /\ router \in Routers
      /\ router.active = l.router.active
      /\ Wants(router) = IF control = "black8" THEN down ELSE Wants(l.router)
      /\ router.repeating = IF control = "turntable" THEN down
                            ELSE l.router.repeating
  <2>1. CASE control = "black8"
    BY <1>1, <2>1, RouteHoldWants
  <2>2. CASE control = "turntable"
    BY <1>1, <2>2, RouteTurntableRepeats DEF Wants
  <2>3. CASE control = "white3"
    BY <1>1, <2>3
  <2> QED
    BY <2>1, <2>2, <2>3 DEF Controls
<1>3. m = [l EXCEPT !.router = router]
  BY DEF ReportRouted
<1> HIDE DEF router, m
<1>4. /\ m \in Listeners
      /\ m.router = router /\ m.bound = l.bound
      /\ m.foreground = l.foreground /\ m.released = l.released
      /\ m.hold = l.hold /\ m.releaseFailed = l.releaseFailed
      /\ m.applied = l.applied /\ m.owed = l.owed
      /\ m.stop = l.stop /\ m.running = l.running
      /\ m.postAccess = l.postAccess
  BY <1>1, <1>2, <1>3 DEF Listeners
<1>5. Sound(m) /\ RoutesInputs(m)
  BY <1>4 DEF Sound, RoutesInputs
<1> QED
  BY <1>2, <1>4, <1>5 DEF m

-----------------------------------------------------------------------------

(* Refusals stay within their bound.                                       *)
LEMMA AnswersAreCounted ==
  ASSUME TypeOK, NEW posted, NEW posting, NEW restoration, NEW restoring,
         Answers(posted, posting, restoration, restoring)
  PROVE  failures' \in 0..MaxFailures
BY TicksAssumption DEF TypeOK, Answers

(* Without flicker, Codex in front later was in front before.              *)
LEMMA FocusStaysAway ==
  ASSUME world \in Worlds, NEW frontmost \in BOOLEAN, NEW later \in MayBecome(frontmost)
  PROVE  later \in BOOLEAN /\ (~Flicker /\ later => frontmost)
BY DEF MayBecome

(* What a report does to the listener.                                     *)
LEMMA ReportsAreTaken ==
  ASSUME HoldInv, NEW control \in Controls, ControlMoves(control)
  PROVE  LET down == control \notin world.pressed
         IN /\ Sound(lc')
            /\ lc'.bound = lc.bound /\ lc'.running = lc.running
            /\ lc.releaseFailed => lc'.releaseFailed
            /\ lc.stop => lc'.stop
            /\ lc'.hold => lc.hold
            /\ lc'.router.active = lc.router.active
            /\ \/ /\ lc'.router = lc.router
                  /\ lc'.postAccess = lc.postAccess
                  /\ out' = "NONE"
                  /\ ~(lc.running /\ lc.bound /\ lc.applied /\ RoutesInputs(lc)
                       /\ GateIsOpen(lc, world.frontmost))
               \/ /\ lc.running /\ RoutesInputs(lc)
                  /\ GateIsOpen(lc, world.frontmost)
                  /\ lc'.postAccess \in {lc.postAccess, world.permitted}
                  /\ Wants(lc'.router) = IF control = "black8" THEN down
                                         ELSE Wants(lc.router)
                  /\ lc'.router.repeating = IF control = "turntable" THEN down
                                            ELSE lc.router.repeating
                  /\ \/ out' = "NONE"
                     \/ /\ out' = "TRIGGER" /\ down
                        /\ control \in {"turntable", "white3"}
<1> DEFINE down    == control \notin world.pressed
           pressed == IF down THEN world.pressed \cup {control}
                      ELSE world.pressed \ {control}
           iface   == InterfaceOf(control)
           seen    == lc.seen \cup {iface}
           held    == (lc.held \ ControlsOf(iface)) \cup (ControlsOf(iface) \cap pressed)
           told    == [lc EXCEPT !.seen = seen, !.held = held]
<1>1. PICK later \in MayBecome(world.frontmost), posted \in Posts,
           typed \in BOOLEAN :
        IF ~lc.running \/ ~lc.bound \/ ~lc.applied
        THEN lc' = lc /\ out' = "NONE"
        ELSE IF ~RoutesInputs(lc)
        THEN lc' = Reconcile(told) /\ out' = "NONE"
        ELSE IF ~GateIsOpen(lc, world.frontmost)
        THEN lc' = told /\ out' = "NONE"
        ELSE LET output == ReportOutput(told, control, down, typed)
             IN /\ lc' = Handle(ReportRouted(told, control, down), output,
                                later, world.permitted, posted)
                /\ out' = IF IsPosted(told, output, later, world.permitted, posted)
                          THEN output ELSE "NONE"
  BY DEF ControlMoves
<1>2. /\ lc \in Listeners /\ Sound(lc) /\ world \in Worlds
      /\ world.frontmost \in BOOLEAN /\ world.permitted \in BOOLEAN
      /\ later \in BOOLEAN /\ posted \in BOOLEAN /\ down \in BOOLEAN
  BY FocusStaysAway DEF HoldInv, TypeOK, Worlds, Posts
<1>3. seen \in SUBSET Interfaces /\ held \in SUBSET Controls
  BY <1>2 DEF Listeners, InterfaceOf, ControlsOf, Interfaces, Controls, Worlds
<1> HIDE DEF seen, held, down
<1>4. /\ told \in Listeners
      /\ told.router = lc.router /\ told.bound = lc.bound
      /\ told.foreground = lc.foreground /\ told.released = lc.released
      /\ told.hold = lc.hold /\ told.releaseFailed = lc.releaseFailed
      /\ told.applied = lc.applied /\ told.owed = lc.owed
      /\ told.stop = lc.stop /\ told.running = lc.running
      /\ told.postAccess = lc.postAccess
  BY <1>2, <1>3 DEF Listeners
<1> HIDE DEF told
<1>5. Sound(told) /\ (RoutesInputs(told) <=> RoutesInputs(lc))
  BY <1>2, <1>4 DEF Sound, RoutesInputs
<1>6. CASE lc' = lc /\ out' = "NONE" /\ (~lc.running \/ ~lc.bound \/ ~lc.applied)
  BY <1>2, <1>6
<1>7. CASE lc' = Reconcile(told) /\ out' = "NONE" /\ ~RoutesInputs(lc)
  <2>1. /\ lc' \in Listeners
        /\ lc'.router = told.router /\ lc'.bound = told.bound
        /\ lc'.foreground = told.foreground
        /\ lc'.hold = told.hold /\ lc'.releaseFailed = told.releaseFailed
        /\ lc'.applied = told.applied /\ lc'.owed = told.owed
        /\ lc'.stop = told.stop /\ lc'.running = told.running
        /\ lc'.postAccess = told.postAccess
    BY <1>4, <1>7, ReconcileIsSound
  <2>2. Sound(lc')
    BY <1>5, <1>7, <2>1 DEF Sound
  <2> QED
    BY <1>4, <1>7, <2>1, <2>2
<1>8. CASE lc' = told /\ out' = "NONE" /\ ~GateIsOpen(lc, world.frontmost)
  BY <1>4, <1>5, <1>8
<1>9. CASE /\ lc.running /\ RoutesInputs(lc) /\ GateIsOpen(lc, world.frontmost)
           /\ \E output :
                /\ output = ReportOutput(told, control, down, typed)
                /\ lc' = Handle(ReportRouted(told, control, down), output,
                                later, world.permitted, posted)
                /\ out' = IF IsPosted(told, output, later, world.permitted, posted)
                          THEN output ELSE "NONE"
  <2>1. PICK output :
          /\ output = ReportOutput(told, control, down, typed)
          /\ lc' = Handle(ReportRouted(told, control, down), output,
                          later, world.permitted, posted)
          /\ out' = IF IsPosted(told, output, later, world.permitted, posted)
                    THEN output ELSE "NONE"
    BY <1>9
  <2>2. /\ output \in {"NONE", "TRIGGER"}
        /\ output = "TRIGGER" => down /\ control \in {"turntable", "white3"}
    BY <2>1 DEF ReportOutput
  <2> DEFINE routed == ReportRouted(told, control, down)
  <2>3. /\ Sound(routed) /\ RoutesInputs(routed)
        /\ routed.bound = told.bound
        /\ routed.hold = told.hold
        /\ routed.releaseFailed = told.releaseFailed
        /\ routed.stop = told.stop /\ routed.running = told.running
        /\ routed.postAccess = told.postAccess
        /\ routed.router.active = told.router.active
        /\ Wants(routed.router) = IF control = "black8" THEN down
                                  ELSE Wants(told.router)
        /\ routed.router.repeating = IF control = "turntable" THEN down
                                     ELSE told.router.repeating
    BY <1>2, <1>5, <1>9, ReportRoutedIsSound
  <2> HIDE DEF routed
  <2>4. lc' = Handle(routed, output, later, world.permitted, posted)
    BY <2>1 DEF routed
  <2>5. output \in {"NONE", "BEGIN", "END", "TRIGGER"} /\ output # "BEGIN"
    BY <2>2
  <2>6. /\ Sound(lc')
        /\ lc'.router = routed.router /\ lc'.bound = routed.bound
        /\ lc'.running = routed.running
        /\ routed.releaseFailed => lc'.releaseFailed
        /\ routed.stop => lc'.stop
        /\ lc'.hold /\ ~routed.hold => output = "BEGIN"
        /\ lc'.postAccess \in {routed.postAccess, world.permitted}
    <3>1. /\ Sound(routed) /\ output \in {"NONE", "BEGIN", "END", "TRIGGER"}
          /\ output = "BEGIN" => RoutesInputs(routed)
          /\ later \in BOOLEAN /\ world.permitted \in BOOLEAN
          /\ posted \in BOOLEAN
      BY <1>2, <2>3, <2>5
    <3>2. Handled(routed, lc', output, later, world.permitted)
      BY <2>4, <3>1, HandleIsSound
    <3> QED
      BY <3>2 DEF Handled
  <2>7. out' \in {output, "NONE"}
    BY <2>1
  <2> QED
    BY <1>4, <1>9, <2>2, <2>3, <2>5, <2>6, <2>7 DEF down
<1>10. \/ lc' = lc /\ out' = "NONE" /\ (~lc.running \/ ~lc.bound \/ ~lc.applied)
       \/ lc' = Reconcile(told) /\ out' = "NONE" /\ ~RoutesInputs(lc)
       \/ lc' = told /\ out' = "NONE" /\ ~GateIsOpen(lc, world.frontmost)
       \/ /\ lc.running /\ RoutesInputs(lc) /\ GateIsOpen(lc, world.frontmost)
          /\ \E output :
               /\ output = ReportOutput(told, control, down, typed)
               /\ lc' = Handle(ReportRouted(told, control, down), output,
                               later, world.permitted, posted)
               /\ out' = IF IsPosted(told, output, later, world.permitted, posted)
                         THEN output ELSE "NONE"
  BY <1>1
<1> QED
  BY <1>6, <1>7, <1>8, <1>9, <1>10 DEF down

(* A report keeps the invariant: one that the gate swallows is one that a  *)
(* focus or a permission known to be gone, or the end of the listener,     *)
(* makes harmless.                                                         *)
LEMMA ControlMovesKeepsInv ==
  ASSUME HoldInv, NEW control \in Controls, ControlMoves(control)
  PROVE  HoldInv'
<1> DEFINE down == control \notin world.pressed
<1>1. PICK later \in MayBecome(world.frontmost), posted \in Posts :
        /\ world' = [world EXCEPT !.pressed = IF down THEN @ \cup {control}
                                              ELSE @ \ {control},
                                  !.frontmost = later]
        /\ Answers(posted, lc.running, "DONE", FALSE)
  BY DEF ControlMoves
<1>2. /\ world' \in Worlds
      /\ world'.pressed = IF down THEN world.pressed \cup {control}
                          ELSE world.pressed \ {control}
      /\ world'.permitted = world.permitted
      /\ world'.plugged = world.plugged
      /\ ~Flicker /\ world'.frontmost => world.frontmost
  BY <1>1, FocusStaysAway DEF HoldInv, TypeOK, Worlds
<1>3. /\ stale' = IF ~down THEN stale \ {control}
                  ELSE IF RoutesInputs(lc) THEN stale ELSE stale \cup {control}
      /\ beat' = beat
  BY DEF ControlMoves
<1>4. /\ Sound(lc')
      /\ lc'.bound = lc.bound /\ lc'.running = lc.running
      /\ lc.releaseFailed => lc'.releaseFailed
      /\ lc.stop => lc'.stop
      /\ lc'.hold => lc.hold
      /\ lc'.router.active = lc.router.active
  BY ReportsAreTaken
<1>5. \/ /\ lc'.router = lc.router
         /\ lc'.postAccess = lc.postAccess
         /\ out' = "NONE"
         /\ ~(lc.running /\ lc.bound /\ lc.applied /\ RoutesInputs(lc)
              /\ GateIsOpen(lc, world.frontmost))
      \/ /\ lc.running /\ RoutesInputs(lc)
         /\ GateIsOpen(lc, world.frontmost)
         /\ lc'.postAccess \in {lc.postAccess, world.permitted}
         /\ Wants(lc'.router) = IF control = "black8" THEN down
                                ELSE Wants(lc.router)
         /\ lc'.router.repeating = IF control = "turntable" THEN down
                                   ELSE lc.router.repeating
         /\ \/ out' = "NONE"
            \/ /\ out' = "TRIGGER" /\ down
               /\ control \in {"turntable", "white3"}
  BY ReportsAreTaken
<1> HIDE DEF down
<1>6. TypeOK'
  <2>1. failures' \in 0..MaxFailures
    BY <1>1, AnswersAreCounted DEF HoldInv
  <2>2. lc' \in Listeners /\ out' \in Outputs
    BY <1>4, <1>5 DEF Sound, Outputs
  <2>3. stale' \subseteq world'.pressed
    BY <1>2, <1>3 DEF HoldInv, TypeOK
  <2> QED
    BY <1>2, <1>3, <2>1, <2>2, <2>3 DEF HoldInv, TypeOK
<1>7. (lc.bound => world.plugged = Interfaces)'
  BY <1>2, <1>4 DEF HoldInv
<1>8. /\ Wants(lc.router) \/ lc.router.repeating => RoutesInputs(lc) /\ lc.applied /\ lc.bound
      /\ lc.hold => lc.releaseFailed \/ (RoutesInputs(lc) /\ lc.applied)
  BY DEF HoldInv, Sound, Idle, Wants, RoutesInputs
<1>9. /\ stale \subseteq world.pressed
      /\ Wants(lc.router) => "black8" \notin stale
      /\ lc.router.repeating => "turntable" \notin stale
  BY DEF HoldInv, TypeOK, Fresh
<1>10. Fresh(lc, stale)'
  <2>1. Wants(lc'.router) => "black8" \notin stale'
    <3>1. CASE control = "black8"
      BY <1>3, <1>5, <1>8, <1>9, <3>1 DEF down
    <3>2. CASE control # "black8"
      BY <1>3, <1>5, <1>9, <3>2
    <3> QED
      BY <3>1, <3>2
  <2>2. lc'.router.repeating => "turntable" \notin stale'
    <3>1. CASE control = "turntable"
      BY <1>3, <1>5, <1>8, <1>9, <3>1 DEF down
    <3>2. CASE control # "turntable"
      BY <1>3, <1>5, <1>9, <3>2
    <3> QED
      BY <3>1, <3>2
  <2> QED
    BY <2>1, <2>2 DEF Fresh
<1>11. ASSUME ~Flicker
       PROVE  Permitted(world, lc)'
  <2>1. Permitted(world, lc)
    BY <1>11 DEF HoldInv
  <2> QED
    BY <1>2, <1>4, <1>5, <2>1 DEF Permitted, GateIsOpen
<1>12. ASSUME ~Flicker
       PROVE  Tracks(world, lc)'
  <2>1. SUFFICES ASSUME world'.frontmost, ~Doomed(lc')
                 PROVE  /\ lc'.hold => lc'.router.active
                        /\ lc'.postAccess /\ Wants(lc'.router) =>
                             "black8" \in world'.pressed
                        /\ lc'.postAccess /\ lc'.router.repeating =>
                             "turntable" \in world'.pressed
    BY DEF Tracks
  <2>2. world.frontmost /\ ~Doomed(lc) /\ lc.running /\ ~lc.stop /\ ~lc.releaseFailed
    BY <1>2, <1>4, <1>12, <2>1 DEF Doomed
  <2>3. /\ lc.hold => lc.router.active
        /\ lc.postAccess /\ Wants(lc.router) => "black8" \in world.pressed
        /\ lc.postAccess /\ lc.router.repeating => "turntable" \in world.pressed
    BY <1>12, <2>2 DEF HoldInv, Tracks
  <2>4. lc'.hold => lc'.router.active
    BY <1>4, <2>3
  <2>5. CASE /\ lc'.router = lc.router
             /\ lc'.postAccess = lc.postAccess
             /\ ~(lc.running /\ lc.bound /\ lc.applied /\ RoutesInputs(lc)
                  /\ GateIsOpen(lc, world.frontmost))
    BY <1>8, <2>2, <2>4, <2>5 DEF GateIsOpen
  <2>6. CASE /\ GateIsOpen(lc, world.frontmost)
             /\ Wants(lc'.router) = IF control = "black8" THEN down
                                    ELSE Wants(lc.router)
             /\ lc'.router.repeating = IF control = "turntable" THEN down
                                       ELSE lc.router.repeating
    BY <1>2, <2>3, <2>4, <2>6 DEF GateIsOpen
  <2> QED
    BY <1>5, <2>5, <2>6
<1> QED
  BY <1>4, <1>6, <1>7, <1>10, <1>11, <1>12 DEF HoldInv

(* What a tick comes to, from the listener before it to the one after.     *)
LEMMA TicksAreTaken ==
  ASSUME HoldInv, Tick
  PROVE  /\ Sound(lc')
         /\ lc'.bound => world.plugged = Interfaces
         /\ lc.releaseFailed => lc'.releaseFailed
         /\ lc.stop => lc'.stop
         /\ lc'.postAccess \in {lc.postAccess, world.permitted} \/ ~lc'.running
         /\ Wants(lc'.router) => Wants(lc.router) /\ stale' = stale
         /\ lc'.router.repeating => lc.router.repeating /\ stale' = stale
         /\ ~Idle(lc'.router) => ~Idle(lc.router)
         /\ lc'.hold /\ ~lc'.releaseFailed =>
              (lc.hold /\ ~lc.releaseFailed) \/ lc'.postAccess
         /\ lc'.hold /\ world'.frontmost /\ ~lc'.releaseFailed =>
              lc'.router.active \/ (lc.hold /\ ~lc.router.active)
         /\ out' \in Outputs
         /\ out' \in {"BEGIN", "END", "TRIGGER"} =>
              /\ ~lc.stop /\ ~lc.releaseFailed
              /\ world'.frontmost /\ world.permitted
         /\ out' = "BEGIN" => Wants(lc.router) /\ stale' = stale
         /\ out' = "TRIGGER" => lc.router.repeating /\ stale' = stale
         /\ ~Flicker /\ world'.frontmost => world.frontmost
<1>1. PICK poll, apply, posted, restoration, seeded, atGate, later,
           polled, focused, ready, ticked, handled, output :
        /\ poll \in BOOLEAN /\ apply \in BOOLEAN /\ posted \in Posts
        /\ restoration \in Restorations /\ seeded \in SUBSET Interfaces
        /\ atGate \in MayBecome(world.frontmost)
        /\ later \in MayBecome(atGate)
        /\ polled = PollPermission([lc EXCEPT !.router = Elapse(@)], poll)
        /\ focused = SeeFocus(polled, world.frontmost, posted)
        /\ ready = SeeFilter(focused, posted, restoration, apply, seeded)
        /\ ticked = RouterTick(ready, atGate)
        /\ output = RouterOutput(ready, atGate)
        /\ handled = Handle(ticked, output, later, world.permitted, posted)
        /\ lc' = LeaveIfStopped(handled, posted, restoration)
        /\ world' = [world EXCEPT !.frontmost = later]
        /\ out' = IF IsPosted(ready, output, later, world.permitted, posted)
                  THEN output
                  ELSE IF lc.hold /\ ~lc'.hold THEN "FORCED_END" ELSE "NONE"
        /\ stale' = IF ready.foreground /\ (ready.bound => lc.bound)
                    THEN stale ELSE stale \cup world.pressed
  BY DEF Tick
<1>2. /\ lc.running /\ Sound(lc) /\ world \in Worlds
      /\ world.frontmost \in BOOLEAN /\ world.permitted \in BOOLEAN
      /\ atGate \in BOOLEAN /\ later \in BOOLEAN /\ posted \in BOOLEAN
      /\ ~Flicker /\ later => atGate
      /\ ~Flicker /\ atGate => world.frontmost
      /\ world'.frontmost = later
      /\ lc.bound => world.plugged = Interfaces
  BY <1>1, FocusStaysAway DEF HoldInv, TypeOK, Worlds, Posts, Tick, MayBecome
<1>3. /\ Sound(polled)
      /\ polled.router = Elapse(lc.router)
      /\ polled.hold = lc.hold /\ polled.releaseFailed = lc.releaseFailed
      /\ polled.bound = lc.bound /\ polled.stop = lc.stop
      /\ polled.running = lc.running
      /\ polled.postAccess = IF poll THEN world.permitted ELSE lc.postAccess
  BY <1>1, <1>2, TimedIsSound
<1>4. /\ Sound(focused) /\ Carries(polled, focused)
      /\ focused.bound = polled.bound
  <2>1. Focused(polled, focused, world.frontmost)
    BY <1>1, <1>2, <1>3, SeeFocusIsSound
  <2> QED
    BY <2>1 DEF Focused
<1>5. /\ Sound(ready) /\ Carries(focused, ready)
      /\ ready.bound => world.plugged = Interfaces
      /\ ready.bound /\ ~focused.bound => Idle(ready.router)
  <2>1. focused.running /\ (focused.bound => world.plugged = Interfaces)
    BY <1>2, <1>3, <1>4 DEF Carries
  <2> QED
    BY <1>1, <1>2, <1>4, <2>1, SeeFilterIsSound
<1>6. Settled(ready, ticked, output, atGate)
  BY <1>1, <1>2, <1>5, RouterTickSettles
<1>7. Handled(ticked, handled, output, later, world.permitted)
  <2>1. output = "BEGIN" => RoutesInputs(ticked)
    BY <1>6 DEF Settled, RoutesInputs
  <2> QED
    BY <1>1, <1>2, <1>6, <2>1, HandleIsSound DEF Settled
<1>8. \/ lc' = handled /\ ~handled.stop /\ ~handled.releaseFailed
      \/ /\ Sound(lc') /\ ~lc'.running /\ ~lc'.bound
         /\ Idle(lc'.router)
         /\ lc'.hold => lc'.releaseFailed
         /\ handled.releaseFailed => lc'.releaseFailed
         /\ handled.stop => lc'.stop
  BY <1>1, <1>2, <1>7, LeavingIsSound DEF Handled
<1>9. /\ lc.releaseFailed => handled.releaseFailed
      /\ lc.stop => handled.stop
      /\ lc.releaseFailed => ready.releaseFailed
      /\ lc.stop => ready.stop
      /\ ready.hold => lc.hold
      /\ ready.postAccess \in {lc.postAccess, world.permitted}
      /\ handled.postAccess \in {lc.postAccess, world.permitted}
  BY <1>3, <1>4, <1>5, <1>6, <1>7 DEF Settled, Carries, Handled
<1>10. /\ Elapse(lc.router).active = lc.router.active
       /\ Elapse(lc.router).repeating = lc.router.repeating
       /\ Wants(Elapse(lc.router)) = Wants(lc.router)
       /\ Idle(Elapse(lc.router)) <=> Idle(lc.router)
  <2>1. lc.router \in Routers
    BY <1>2 DEF Sound, Listeners
  <2> QED
    BY <2>1, ElapseKeeps DEF Wants, Idle
<1>11. \/ ready.router = Elapse(lc.router)
       \/ Idle(ready.router) /\ (ready.hold => ready.releaseFailed)
  BY <1>3, <1>4, <1>5 DEF Carries
<1>12. ~Idle(ready.router) => stale' = stale
  BY <1>1, <1>3, <1>4, <1>5 DEF Sound, RoutesInputs
<1>13. \A r : Idle(r) => ~Wants(r) /\ ~r.repeating
  BY DEF Idle, Wants
<1>14. Sound(lc') /\ (lc'.bound => world.plugged = Interfaces)
  BY <1>5, <1>6, <1>7, <1>8 DEF Settled, Handled
<1>15. /\ lc.releaseFailed => lc'.releaseFailed
       /\ lc.stop => lc'.stop
       /\ lc'.postAccess \in {lc.postAccess, world.permitted} \/ ~lc'.running
  BY <1>8, <1>9
<1>16. /\ Wants(lc'.router) => Wants(lc.router) /\ stale' = stale
       /\ lc'.router.repeating => lc.router.repeating /\ stale' = stale
       /\ ~Idle(lc'.router) => ~Idle(lc.router)
  <2>1. CASE Idle(lc'.router)
    BY <1>13, <2>1
  <2>2. CASE lc' = handled /\ ~Idle(ready.router)
    BY <1>6, <1>7, <1>10, <1>11, <1>12, <2>2 DEF Settled, Handled
  <2>3. CASE lc' = handled /\ Idle(ready.router)
    BY <1>6, <1>7, <1>13, <2>3 DEF Settled, Handled
  <2> QED
    BY <1>8, <2>1, <2>2, <2>3
<1>17. /\ lc'.hold /\ ~lc'.releaseFailed =>
            (lc.hold /\ ~lc.releaseFailed) \/ lc'.postAccess
       /\ lc'.hold /\ world'.frontmost /\ ~lc'.releaseFailed =>
            lc'.router.active \/ (lc.hold /\ ~lc.router.active)
  <2>1. SUFFICES ASSUME lc'.hold, ~lc'.releaseFailed
                 PROVE  /\ (lc.hold /\ ~lc.releaseFailed) \/ lc'.postAccess
                        /\ world'.frontmost =>
                             lc'.router.active \/ (lc.hold /\ ~lc.router.active)
    OBVIOUS
  <2>2. lc' = handled
    BY <1>8, <2>1
  <2>3. CASE ready.hold
    <3>1. ~ready.releaseFailed
      BY <1>6, <1>7, <2>1, <2>2 DEF Settled, Handled
    <3>2. ready.router = Elapse(lc.router)
      BY <1>11, <2>3, <3>1
    <3>3. world'.frontmost => output # "END"
      BY <1>2, <1>7, <2>1, <2>2 DEF Handled
    <3>4. lc'.router = ticked.router
      BY <1>7, <2>2 DEF Handled
    <3> QED
      BY <1>6, <1>9, <1>10, <2>1, <2>2, <2>3, <3>1, <3>2, <3>3, <3>4 DEF Settled
  <2>4. CASE ~ready.hold
    <3>1. output = "BEGIN" /\ lc'.postAccess /\ lc'.router = ticked.router
      BY <1>6, <1>7, <2>1, <2>2, <2>4 DEF Settled, Handled
    <3> QED
      BY <1>6, <3>1 DEF Settled
  <2> QED
    BY <2>3, <2>4
<1>18. out' \in Outputs
  BY <1>1, <1>6 DEF Settled, Outputs
<1>19. out' \in {"BEGIN", "END", "TRIGGER"} =>
         /\ out' = output /\ output # "NONE" /\ later /\ world.permitted
         /\ RoutesInputs(ready) /\ ~ready.stop /\ ~ready.releaseFailed
  BY <1>1, <1>6 DEF Settled, IsPosted, GateIsOpen
<1>20. /\ out' \in {"BEGIN", "END", "TRIGGER"} =>
            /\ ~lc.stop /\ ~lc.releaseFailed
            /\ world'.frontmost /\ world.permitted
  BY <1>2, <1>9, <1>19
<1>21. /\ out' = "BEGIN" => Wants(lc.router) /\ stale' = stale
       /\ out' = "TRIGGER" => lc.router.repeating /\ stale' = stale
  <2>1. CASE out' = "BEGIN"
    <3>1. Wants(ready.router) /\ ~Idle(ready.router)
      BY <1>6, <1>19, <2>1 DEF Settled, Wants, Idle
    <3> QED
      BY <1>10, <1>11, <1>12, <2>1, <3>1
  <2>2. CASE out' = "TRIGGER"
    <3>1. ready.router.repeating /\ ~Idle(ready.router)
      BY <1>6, <1>19, <2>2 DEF Settled, Idle
    <3> QED
      BY <1>10, <1>11, <1>12, <2>2, <3>1
  <2> QED
    BY <2>1, <2>2
<1> QED
  BY <1>2, <1>14, <1>15, <1>16, <1>17, <1>18, <1>20, <1>21

(* A tick keeps the invariant.                                             *)
LEMMA TickKeepsInv ==
  ASSUME HoldInv, Tick
  PROVE  HoldInv'
<1>1. /\ Sound(lc')
      /\ lc'.bound => world.plugged = Interfaces
      /\ lc.releaseFailed => lc'.releaseFailed
      /\ lc.stop => lc'.stop
      /\ lc'.postAccess \in {lc.postAccess, world.permitted} \/ ~lc'.running
  BY TicksAreTaken
<1>2. /\ Wants(lc'.router) => Wants(lc.router) /\ stale' = stale
      /\ lc'.router.repeating => lc.router.repeating /\ stale' = stale
      /\ ~Idle(lc'.router) => ~Idle(lc.router)
  BY TicksAreTaken
<1>3. /\ lc'.hold /\ ~lc'.releaseFailed =>
           (lc.hold /\ ~lc.releaseFailed) \/ lc'.postAccess
      /\ lc'.hold /\ world'.frontmost /\ ~lc'.releaseFailed =>
           lc'.router.active \/ (lc.hold /\ ~lc.router.active)
  BY TicksAreTaken
<1>4. /\ out' \in Outputs
      /\ ~Flicker /\ world'.frontmost => world.frontmost
  BY TicksAreTaken
<1>5. PICK later, posted, posting, restoration, restoring :
        /\ later \in BOOLEAN
        /\ world' = [world EXCEPT !.frontmost = later]
        /\ stale' = stale \/ stale' = stale \cup world.pressed
        /\ Answers(posted, posting, restoration, restoring)
  <2>1. world \in Worlds
    BY DEF HoldInv, TypeOK
  <2>2. PICK later, atGate, posted, posting, restoration, restoring :
          /\ atGate \in MayBecome(world.frontmost)
          /\ later \in MayBecome(atGate)
          /\ world' = [world EXCEPT !.frontmost = later]
          /\ stale' = stale \/ stale' = stale \cup world.pressed
          /\ Answers(posted, posting, restoration, restoring)
    BY DEF Tick
  <2>3. later \in BOOLEAN
    BY <2>1, <2>2 DEF MayBecome, Worlds
  <2> QED
    BY <2>2, <2>3
<1>6. /\ lc.running /\ beat' \in BOOLEAN
  BY DEF Tick, HoldInv, TypeOK
<1>7. /\ world' \in Worlds /\ world'.pressed = world.pressed
      /\ world'.plugged = world.plugged
      /\ world'.permitted = world.permitted
  BY <1>5 DEF HoldInv, TypeOK, Worlds
<1>8. TypeOK'
  <2>1. failures' \in 0..MaxFailures
    BY <1>5, AnswersAreCounted DEF HoldInv
  <2>2. lc' \in Listeners
    BY <1>1 DEF Sound
  <2>3. stale' \subseteq world'.pressed
    BY <1>5, <1>7 DEF HoldInv, TypeOK
  <2> QED
    BY <1>4, <1>6, <1>7, <2>1, <2>2, <2>3 DEF TypeOK
<1>9. Fresh(lc, stale)'
  BY <1>2 DEF HoldInv, Fresh
<1>10. (lc.bound => world.plugged = Interfaces)'
  BY <1>1, <1>7
<1>11. ASSUME ~Flicker
       PROVE  Permitted(world, lc)'
  <2>1. Permitted(world, lc)
    BY <1>11 DEF HoldInv
  <2>2. SUFFICES ASSUME ~Idle(lc'.router) \/ (lc'.hold /\ ~lc'.releaseFailed),
                        world'.permitted
                 PROVE  lc'.postAccess
    BY DEF Permitted
  <2>3. lc'.running
    <3>1. RoutesInputs(lc')
      BY <1>1, <2>2 DEF Sound
    <3> QED
      BY <1>1, <3>1 DEF Sound, RoutesInputs
  <2> QED
    BY <1>1, <1>2, <1>3, <1>7, <2>1, <2>2, <2>3 DEF Permitted
<1>12. ASSUME ~Flicker
       PROVE  Tracks(world, lc)'
  <2>1. SUFFICES ASSUME world'.frontmost, ~Doomed(lc')
                 PROVE  /\ lc'.hold => lc'.router.active
                        /\ lc'.postAccess /\ Wants(lc'.router) =>
                             "black8" \in world'.pressed
                        /\ lc'.postAccess /\ lc'.router.repeating =>
                             "turntable" \in world'.pressed
    BY DEF Tracks
  <2>2. world.frontmost /\ ~Doomed(lc)
    BY <1>1, <1>4, <1>6, <1>12, <2>1 DEF Doomed
  <2>3. /\ lc.hold => lc.router.active
        /\ lc.postAccess /\ Wants(lc.router) => "black8" \in world.pressed
        /\ lc.postAccess /\ lc.router.repeating => "turntable" \in world.pressed
    BY <1>12, <2>2 DEF HoldInv, Tracks
  <2>4. lc'.hold => lc'.router.active
    BY <1>3, <2>1, <2>3 DEF Doomed
  <2>5. Wants(lc.router) \/ lc.router.repeating => ~Idle(lc.router)
    BY DEF Wants, Idle
  <2>6. lc'.postAccess /\ (Wants(lc'.router) \/ lc'.router.repeating) => lc.postAccess
    BY <1>1, <1>2, <1>12, <2>1, <2>5 DEF HoldInv, Permitted, Doomed
  <2> QED
    BY <1>2, <1>7, <2>3, <2>4, <2>6
<1> QED
  BY <1>1, <1>8, <1>9, <1>10, <1>11, <1>12 DEF HoldInv

(* A listener that let go is bound to nothing of what HoldInv asks.        *)
LEMMA LettingGoKeepsInv ==
  ASSUME HoldInv, TypeOK', Sound(lc'),
         ~lc'.bound, Idle(lc'.router), lc'.hold => lc'.releaseFailed
  PROVE  HoldInv'
<1>1. ~Wants(lc'.router) /\ ~lc'.router.repeating
  BY DEF Idle, Wants
<1>2. Fresh(lc', stale') /\ Permitted(world', lc') /\ Tracks(world', lc')
  BY <1>1 DEF Fresh, Permitted, Tracks, Doomed
<1> QED
  BY <1>2 DEF HoldInv

(* A removal keeps the invariant.                                          *)
LEMMA UnplugKeepsInv ==
  ASSUME HoldInv, NEW interface \in Interfaces, Unplug(interface)
  PROVE  HoldInv'
<1>1. PICK posted \in Posts, restoration \in Restorations :
        /\ Answers(posted, lc.hold, restoration, lc.applied)
        /\ lc' = IF lc.running THEN Unplugged(lc, interface, posted, restoration)
                 ELSE lc
  BY DEF Unplug
<1>2. /\ lc \in Listeners /\ Sound(lc) /\ world \in Worlds /\ posted \in BOOLEAN
      /\ out' \in Outputs /\ beat' \in BOOLEAN
      /\ world' = [world EXCEPT !.plugged = @ \ {interface},
                                !.pressed = @ \ ControlsOf(interface)]
      /\ stale' = stale \ ControlsOf(interface)
      /\ failures' \in 0..MaxFailures
  BY <1>1, AnswersAreCounted DEF HoldInv, TypeOK, Posts, Worlds, Unplug, Outputs
<1>3. /\ Sound(lc') /\ ~lc'.bound /\ Idle(lc'.router)
      /\ lc'.hold => lc'.releaseFailed
  <2>1. CASE lc.running
    BY <1>1, <1>2, <2>1, UnpluggedIsSound DEF LetGo
  <2>2. CASE ~lc.running
    BY <1>1, <1>2, <2>2 DEF Sound, RoutesInputs
  <2> QED
    BY <2>1, <2>2
<1>4. /\ world' \in Worlds
      /\ world'.pressed = world.pressed \ ControlsOf(interface)
  BY <1>2 DEF Worlds
<1>5. stale' \subseteq world'.pressed
  BY <1>2, <1>4 DEF HoldInv, TypeOK
<1>6. lc' \in Listeners
  BY <1>3 DEF Sound
<1>7. TypeOK'
  BY <1>2, <1>4, <1>5, <1>6 DEF TypeOK
<1> QED
  BY <1>3, <1>7, LettingGoKeepsInv

(* An arrival keeps the invariant: a filter applied at once starts a       *)
(* binding at rest, on a listener that held nothing.                       *)
LEMMA PlugKeepsInv ==
  ASSUME HoldInv, NEW interface \in Interfaces, Plug(interface)
  PROVE  HoldInv'
<1>1. PICK apply \in BOOLEAN, seeded \in SUBSET Interfaces :
        /\ lc' = IF lc.running /\ apply /\ ~lc.applied /\ world'.plugged = Interfaces
                 THEN Bind([lc EXCEPT !.applied = TRUE, !.owed = FALSE],
                           seeded, world.pressed)
                 ELSE lc
        /\ stale' = IF lc'.bound THEN stale \cup world.pressed ELSE stale
  BY DEF Plug
<1>2. /\ lc \in Listeners /\ Sound(lc) /\ world \in Worlds
      /\ interface \notin world.plugged
      /\ out' \in Outputs /\ beat' \in BOOLEAN
      /\ world' = [world EXCEPT !.plugged = @ \cup {interface}]
      /\ failures' \in 0..MaxFailures
      /\ ~lc.bound
  BY DEF HoldInv, TypeOK, Plug, Outputs
<1>3. /\ world' \in Worlds /\ world'.pressed = world.pressed
  BY <1>2 DEF Worlds
<1>4. Idle(lc.router) /\ (lc.hold => lc.releaseFailed)
  BY <1>2 DEF Sound, RoutesInputs
<1>5. stale' \subseteq world'.pressed
  BY <1>1, <1>3 DEF HoldInv, TypeOK
<1>6. CASE lc' = lc
  <2>1. TypeOK'
    BY <1>2, <1>3, <1>5, <1>6 DEF TypeOK
  <2> QED
    BY <1>2, <1>4, <1>6, <2>1, LettingGoKeepsInv
<1>7. CASE /\ lc.running /\ world'.plugged = Interfaces
           /\ lc' = Bind([lc EXCEPT !.applied = TRUE, !.owed = FALSE],
                         seeded, world.pressed)
  <2> DEFINE filtered == [lc EXCEPT !.applied = TRUE, !.owed = FALSE]
  <2>1. /\ filtered \in Listeners
        /\ filtered.hold = lc.hold /\ ~filtered.owed /\ filtered.applied
        /\ filtered.releaseFailed = lc.releaseFailed
        /\ filtered.running = lc.running
    BY <1>2 DEF Listeners
  <2> HIDE DEF filtered
  <2>2. /\ lc' \in Listeners
        /\ lc'.router = InitialRouter
        /\ lc'.hold = filtered.hold
        /\ lc'.releaseFailed = filtered.releaseFailed
        /\ lc'.applied = filtered.applied /\ lc'.owed = filtered.owed
        /\ lc'.running = filtered.running
    <3>1. world.pressed \in SUBSET Controls
      BY <1>2 DEF Worlds
    <3>2. lc' = Bind(filtered, seeded, world.pressed)
      BY <1>7 DEF filtered
    <3> QED
      BY <2>1, <3>1, <3>2, BindResets
  <2>3. /\ Idle(lc'.router)
        /\ ~Wants(lc'.router) /\ ~lc'.router.repeating
        /\ lc'.hold => lc'.releaseFailed
    BY <1>4, <2>1, <2>2, InitialIsIdle
  <2>4. Sound(lc')
    BY <1>7, <2>1, <2>2, <2>3 DEF Sound
  <2>5. TypeOK'
    BY <1>2, <1>3, <1>5, <2>2 DEF TypeOK
  <2>6. Fresh(lc', stale') /\ Permitted(world', lc') /\ Tracks(world', lc')
    BY <2>3 DEF Fresh, Permitted, Tracks, Doomed
  <2> QED
    BY <1>7, <2>4, <2>5, <2>6 DEF HoldInv
<1> QED
  BY <1>1, <1>6, <1>7

(* The stop signal keeps the invariant.                                    *)
LEMMA StopSignalKeepsInv ==
  ASSUME HoldInv, StopSignal
  PROVE  HoldInv'
<1>1. /\ lc \in Listeners /\ Sound(lc)
      /\ lc' = [lc EXCEPT !.stop = TRUE]
      /\ out' = "NONE"
      /\ world' = world /\ stale' = stale /\ failures' = failures /\ beat' = beat
  BY DEF HoldInv, TypeOK, StopSignal
<1>2. /\ lc' \in Listeners /\ lc'.stop
      /\ lc'.router = lc.router /\ lc'.bound = lc.bound
      /\ lc'.foreground = lc.foreground /\ lc'.released = lc.released
      /\ lc'.hold = lc.hold /\ lc'.releaseFailed = lc.releaseFailed
      /\ lc'.applied = lc.applied /\ lc'.owed = lc.owed
      /\ lc'.running = lc.running /\ lc'.postAccess = lc.postAccess
  BY <1>1 DEF Listeners
<1>3. Sound(lc') /\ Tracks(world', lc')
  BY <1>1, <1>2 DEF Sound, RoutesInputs, Tracks, Doomed
<1>4. TypeOK'
  BY <1>1, <1>2 DEF HoldInv, TypeOK, Outputs
<1> QED
  BY <1>1, <1>2, <1>3, <1>4 DEF HoldInv, Fresh, Permitted

(* A focus that returns was seen to be gone.                               *)
LEMMA FocusMovesKeepsInv ==
  ASSUME HoldInv, FocusMoves
  PROVE  HoldInv'
<1>1. /\ world \in Worlds /\ lc \in Listeners /\ Sound(lc)
      /\ ~world.frontmost => Flicker \/ ~lc.foreground
      /\ world' = [world EXCEPT !.frontmost = ~@]
      /\ out' = "NONE"
      /\ lc' = lc /\ stale' = stale /\ failures' = failures /\ beat' = beat
  BY DEF HoldInv, TypeOK, FocusMoves
<1>2. /\ world' \in Worlds /\ world'.frontmost = ~world.frontmost
      /\ world'.pressed = world.pressed /\ world'.plugged = world.plugged
      /\ world'.permitted = world.permitted
  BY <1>1 DEF Worlds
<1>3. TypeOK'
  BY <1>1, <1>2 DEF HoldInv, TypeOK, Outputs
<1>4. ASSUME ~Flicker
      PROVE  Tracks(world', lc')
  <2>1. CASE world.frontmost
    BY <1>2, <2>1 DEF Tracks
  <2>2. CASE ~world.frontmost
    <3>1. Idle(lc.router) /\ (lc.hold => lc.releaseFailed)
      BY <1>1, <1>4, <2>2 DEF Sound, RoutesInputs
    <3> QED
      BY <1>1, <3>1 DEF Tracks, Doomed, Idle, Wants
  <2> QED
    BY <2>1, <2>2
<1> QED
  BY <1>1, <1>2, <1>3, <1>4 DEF HoldInv, Fresh, Permitted

(* A permission that returns was not yet missed, or its filter is gone.    *)
LEMMA PermissionMovesKeepsInv ==
  ASSUME HoldInv, PermissionMoves
  PROVE  HoldInv'
<1>1. /\ world \in Worlds /\ lc \in Listeners /\ Sound(lc)
      /\ ~world.permitted => Flicker \/ lc.postAccess \/ ~lc.applied
      /\ world' = [world EXCEPT !.permitted = ~@]
      /\ out' = "NONE"
      /\ lc' = lc /\ stale' = stale /\ failures' = failures /\ beat' = beat
  BY DEF HoldInv, TypeOK, PermissionMoves
<1>2. /\ world' \in Worlds /\ world'.permitted = ~world.permitted
      /\ world'.pressed = world.pressed /\ world'.plugged = world.plugged
      /\ world'.frontmost = world.frontmost
  BY <1>1 DEF Worlds
<1>3. TypeOK'
  BY <1>1, <1>2 DEF HoldInv, TypeOK, Outputs
<1>4. ASSUME ~Flicker
      PROVE  Permitted(world', lc')
  BY <1>1, <1>2, <1>4 DEF Permitted, Sound, RoutesInputs
<1> QED
  BY <1>1, <1>2, <1>3, <1>4 DEF HoldInv, Fresh, Tracks

(* A listener starts with nothing held, whatever is pressed.               *)
LEMMA InitHolds ==
  Init => HoldInv
<1>1. SUFFICES ASSUME Init
               PROVE  HoldInv
  OBVIOUS
<1>2. PICK frontmost \in BOOLEAN, pressed \in SUBSET Controls :
        /\ world = [frontmost |-> frontmost, permitted |-> TRUE,
                    plugged |-> Interfaces, pressed |-> pressed]
        /\ lc = [InitialListener EXCEPT !.foreground = frontmost]
        /\ stale = pressed
  BY <1>1 DEF Init
<1>3. /\ lc \in Listeners /\ lc.router = InitialRouter
      /\ ~lc.bound /\ ~lc.owed /\ ~lc.hold
  BY <1>2, InitialIsIdle DEF InitialListener, Listeners
<1>4. world \in Worlds /\ stale = world.pressed
  BY <1>2 DEF Worlds
<1>5. TypeOK
  <2>1. out = "NONE" /\ failures = 0 /\ beat = FALSE
    BY <1>1 DEF Init
  <2>2. failures \in 0..MaxFailures
    BY <2>1, TicksAssumption
  <2> QED
    BY <1>3, <1>4, <2>1, <2>2 DEF TypeOK, Outputs
<1>6. Sound(lc) /\ Fresh(lc, stale) /\ Permitted(world, lc) /\ Tracks(world, lc)
  BY <1>3, InitialIsIdle DEF Sound, Fresh, Permitted, Tracks
<1> QED
  BY <1>3, <1>5, <1>6 DEF HoldInv

(* Every step keeps the invariant.                                         *)
LEMMA StepKeepsInv ==
  ASSUME HoldInv, [Next]_vars
  PROVE  HoldInv'
<1>1. ASSUME NEW control \in Controls, ControlMoves(control)
      PROVE  HoldInv'
  BY <1>1, ControlMovesKeepsInv
<1>2. CASE Tick
  BY <1>2, TickKeepsInv
<1>3. ASSUME NEW interface \in Interfaces, Unplug(interface)
      PROVE  HoldInv'
  BY <1>3, UnplugKeepsInv
<1>4. ASSUME NEW interface \in Interfaces, Plug(interface)
      PROVE  HoldInv'
  BY <1>4, PlugKeepsInv
<1>5. CASE StopSignal
  BY <1>5, StopSignalKeepsInv
<1>6. CASE FocusMoves
  BY <1>6, FocusMovesKeepsInv
<1>7. CASE PermissionMoves
  BY <1>7, PermissionMovesKeepsInv
<1>8. CASE UNCHANGED vars
  BY <1>8 DEF HoldInv, TypeOK, Sound, RoutesInputs, Idle, Fresh, Wants,
     Permitted, Tracks, Doomed, vars
<1> QED
  BY <1>1, <1>2, <1>3, <1>4, <1>5, <1>6, <1>7, <1>8 DEF Next

(* HoldInv holds in every reachable state.                                 *)
THEOREM HoldInvariant ==
  Spec => []HoldInv
<1>1. Init => HoldInv
  BY InitHolds
<1>2. HoldInv /\ [Next]_vars => HoldInv'
  BY StepKeepsInv
<1> QED
  BY <1>1, <1>2, PTL DEF Spec

(* Every field keeps its type: an edge never ages past its debounce, nor a *)
(* repeat past its interval, and no press is older than the last entry     *)
(* without being pressed still.                                            *)
THEOREM TypeCorrect ==
  Spec => []TypeOK
<1>1. HoldInv => TypeOK
  BY DEF HoldInv
<1> QED
  BY <1>1, HoldInvariant, PTL

(* The shortcut is never left down without the filter, the binding and the *)
(* focus the listener believes in, unless its release failed               *)
(* (force_release_synthetic_hold, on every way out).                       *)
THEOREM HoldAlwaysHasItsGates ==
  Spec => []HoldNeedsItsGates
<1>1. HoldInv => HoldNeedsItsGates
  BY DEF HoldInv, Sound, RoutesInputs, HoldNeedsItsGates
<1> QED
  BY <1>1, HoldInvariant, PTL

(* While Codex is in front and the permission stands, the shortcut is down *)
(* only as long as its button is, or the release waits out the debounce.   *)
THEOREM HoldIsAlwaysTracked ==
  ASSUME ~Flicker
  PROVE  Spec => []HoldIsTracked
<1>1. HoldInv => HoldIsTracked
  <2>1. SUFFICES ASSUME HoldInv, lc.hold, world.frontmost, world.permitted, ~Ending
                 PROVE  "black8" \in world.pressed \/ lc.router.pending = "END"
    BY DEF HoldIsTracked
  <2>2. lc.router.active /\ lc.postAccess
    BY <2>1 DEF HoldInv, Tracks, Permitted, Doomed, Ending
  <2>3. lc.router.pending \in {"NONE", "BEGIN", "END"}
    BY <2>1 DEF HoldInv, TypeOK, Listeners, Routers
  <2>4. CASE lc.router.pending # "END"
    <3>1. Wants(lc.router)
      BY <2>2, <2>3, <2>4 DEF Wants
    <3> QED
      BY <2>1, <2>2, <3>1 DEF HoldInv, Tracks, Doomed, Ending
  <2> QED
    BY <2>4
<1> QED
  BY <1>1, HoldInvariant, PTL

(* While Codex is in front, the repeat goes on only with the turntable     *)
(* held.                                                                   *)
THEOREM RepeatIsAlwaysTracked ==
  ASSUME ~Flicker
  PROVE  Spec => []RepeatIsTracked
<1>1. HoldInv => RepeatIsTracked
  BY DEF HoldInv, Tracks, Doomed, Ending, RepeatIsTracked
<1> QED
  BY <1>1, HoldInvariant, PTL

(* What is posted was pressed after the foreground, the binding and        *)
(* Neutral Entry the listener is in, and is pressed still.                 *)
THEOREM OnlyFreshPressesAct ==
  ASSUME ~Flicker
  PROVE  Spec => FreshPressOnly
<1> DEFINE Fresher ==
      /\ out' = "BEGIN" => "black8" \in world'.pressed \ stale'
      /\ out' = "TRIGGER" => \/ "turntable" \in world'.pressed \ stale'
                              \/ "white3" \in world'.pressed \ stale'
<1>1. ASSUME HoldInv, NEW control \in Controls, ControlMoves(control)
      PROVE  Fresher
  <2>1. \/ out' = "NONE"
        \/ /\ out' = "TRIGGER" /\ control \notin world.pressed
           /\ control \in {"turntable", "white3"} /\ RoutesInputs(lc)
    BY <1>1, ReportsAreTaken
  <2>2. CASE /\ out' = "TRIGGER" /\ control \notin world.pressed
             /\ control \in {"turntable", "white3"} /\ RoutesInputs(lc)
    <3>1. stale' = stale /\ control \notin stale
      BY <1>1, <2>2 DEF ControlMoves, HoldInv, TypeOK
    <3>2. PICK later : world' = [world EXCEPT !.pressed = world.pressed \cup {control},
                                              !.frontmost = later]
      BY <1>1, <2>2 DEF ControlMoves
    <3>3. control \in world'.pressed
      BY <1>1, <3>2 DEF HoldInv, TypeOK, Worlds
    <3> QED
      BY <2>2, <3>1, <3>3
  <2> QED
    BY <2>1, <2>2
<1>2. ASSUME HoldInv, Tick
      PROVE  Fresher
  <2>1. /\ out' \in {"BEGIN", "END", "TRIGGER"} =>
             /\ ~lc.stop /\ ~lc.releaseFailed
             /\ world'.frontmost /\ world.permitted
        /\ out' = "BEGIN" => Wants(lc.router) /\ stale' = stale
        /\ out' = "TRIGGER" => lc.router.repeating /\ stale' = stale
        /\ world'.frontmost => world.frontmost
    BY <1>2, TicksAreTaken
  <2>2. lc.running /\ world'.pressed = world.pressed
    BY <1>2 DEF Tick, HoldInv, TypeOK, Worlds
  <2>3. Permitted(world, lc) /\ Tracks(world, lc) /\ Fresh(lc, stale)
    BY <1>2 DEF HoldInv
  <2>4. Wants(lc.router) \/ lc.router.repeating => ~Idle(lc.router)
    BY DEF Wants, Idle
  <2> QED
    BY <2>1, <2>2, <2>3, <2>4 DEF Permitted, Tracks, Fresh, Doomed
<1>3. ASSUME \/ \E interface \in Interfaces : Unplug(interface) \/ Plug(interface)
             \/ StopSignal \/ FocusMoves \/ PermissionMoves
      PROVE  Fresher
  <2>1. out' \in {"NONE", "FORCED_END"}
    BY <1>3 DEF Unplug, Plug, StopSignal, FocusMoves, PermissionMoves
  <2> QED
    BY <2>1
<1>4. HoldInv /\ [Next]_vars => [Fresher]_vars
  BY <1>1, <1>2, <1>3 DEF Next
<1> QED
  BY <1>4, HoldInvariant, PTL DEF Spec, FreshPressOnly

(* Once a release failed or a stop was asked for, nothing is posted but    *)
(* the forced end of a hold; no assumption on the focus.                   *)
THEOREM NothingIsPostedAfterTheEnd ==
  Spec => NothingAfterTheEnd
<1>1. ASSUME HoldInv, NEW control \in Controls, ControlMoves(control), Ending
      PROVE  out' = "NONE"
  <2>1. \/ out' = "NONE"
        \/ lc.running /\ GateIsOpen(lc, world.frontmost)
    BY <1>1, ReportsAreTaken
  <2> QED
    BY <1>1, <2>1 DEF Ending, GateIsOpen
<1>2. ASSUME HoldInv, Tick, Ending
      PROVE  out' \in {"NONE", "FORCED_END"}
  <2>1. /\ out' \in Outputs
        /\ out' \in {"BEGIN", "END", "TRIGGER"} => ~lc.stop /\ ~lc.releaseFailed
    BY <1>2, TicksAreTaken
  <2>2. lc.running
    BY <1>2 DEF Tick
  <2> QED
    BY <1>2, <2>1, <2>2 DEF Ending, Outputs
<1>3. ASSUME \/ \E interface \in Interfaces : Unplug(interface) \/ Plug(interface)
             \/ StopSignal \/ FocusMoves \/ PermissionMoves
      PROVE  out' \in {"NONE", "FORCED_END"}
  BY <1>3 DEF Unplug, Plug, StopSignal, FocusMoves, PermissionMoves
<1>4. HoldInv /\ [Next]_vars => [Ending => out' \in {"NONE", "FORCED_END"}]_vars
  BY <1>1, <1>2, <1>3 DEF Next
<1> QED
  BY <1>4, HoldInvariant, PTL DEF Spec, NothingAfterTheEnd
=============================================================================
