------------------------------ MODULE Connection ------------------------------
(***************************************************************************)
(* How the interfaces of the controllers in sight become one snapshot      *)
(* (muse_on_connection.c).  A complete controller is one keyboard and one  *)
(* joystick interface at the same location; anything else in sight makes   *)
(* the whole picture DISCONNECTED.                                         *)
(*                                                                         *)
(* The code walks an array and counts per location.  An interface carries  *)
(* an id here, so that a set of them is that array up to its order.        *)
(***************************************************************************)
EXTENDS FiniteSets, Naturals

InterfaceKinds == {"KEYBOARD", "JOYSTICK"}

Disconnected == [state |-> "DISCONNECTED", location |-> 0]

AtLocation(interfaces, location, kind) ==
  {i \in interfaces : i.connected /\ i.location = location /\ i.kind = kind}

IsComplete(interfaces, location) ==
  \A kind \in InterfaceKinds :
    Cardinality(AtLocation(interfaces, location, kind)) = 1

(* Mutant: a location counts as soon as it has both kinds.                 *)
Classify_AcceptsDuplicates(interfaces) ==
  LET locations == {i.location : i \in interfaces}
      whole     == {l \in locations : \A kind \in InterfaceKinds :
                                        AtLocation(interfaces, l, kind) # {}}
  IN IF interfaces = {} \/ whole # locations THEN Disconnected
     ELSE IF Cardinality(locations) > 1
     THEN [state |-> "MULTIPLE", location |-> 0]
     ELSE [state |-> "SINGLE", location |-> CHOOSE l \in locations : TRUE]

Classify(interfaces) ==
  LET locations == {i.location : i \in interfaces}
  IN IF \/ interfaces = {}
        \/ \E i \in interfaces :
             ~i.connected \/ i.location = 0 \/ i.kind \notin InterfaceKinds
        \/ \E l \in locations : ~IsComplete(interfaces, l)
     THEN Disconnected
     ELSE IF Cardinality(locations) > 1
     THEN [state |-> "MULTIPLE", location |-> 0]
     ELSE [state |-> "SINGLE", location |-> CHOOSE l \in locations : TRUE]
===============================================================================
