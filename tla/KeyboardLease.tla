----------------------------- MODULE KeyboardLease -----------------------------
(***************************************************************************)
(* What the key filter promises the user of a keyboard.                    *)
(*                                                                         *)
(* A keyboard's key mapping is the user's own, except while the listener   *)
(* holds that keyboard on a lease: then it may be the sink that swallows   *)
(* every key.  One keyboard is held at a time, and the lease ends only     *)
(* when the mapping is the user's again or the keyboard is gone.  A        *)
(* listener that ends before that strands the keyboard: the user's mapping *)
(* is lost, and an empty one is what the next listener owes.               *)
(***************************************************************************)
CONSTANTS
  Keyboards, \* registry identities of keyboard interfaces
  Nobody     \* no keyboard

VARIABLES
  mapping,  \* the key mapping of each keyboard, "NONE" while it is away
  due,      \* the mapping its user is to find on it
  holder,   \* the keyboard on lease
  stranded  \* keyboards an ended listener left swallowing

vars == <<mapping, due, holder, stranded>>

UserMappings == {"EMPTY", "USER"}

Mappings == UserMappings \cup {"NONE", "SINK"}

Swallowing(m) == {k \in Keyboards : m[k] = "SINK"}

Init ==
  /\ mapping \in [Keyboards -> Mappings]
  /\ due \in [Keyboards -> UserMappings]
  /\ \A k \in Keyboards : mapping[k] \in {"NONE", "SINK", due[k]}
  /\ holder = Nobody
  /\ stranded = Swallowing(mapping)

(* A keyboard comes with the mapping its user gave it.                     *)
Appear(k) ==
  /\ mapping[k] = "NONE" /\ holder # k
  /\ \E own \in UserMappings :
       /\ mapping' = [mapping EXCEPT ![k] = own]
       /\ due' = [due EXCEPT ![k] = own]
  /\ UNCHANGED <<holder, stranded>>

(* The mapping goes with the keyboard.                                     *)
Vanish(k) ==
  /\ mapping[k] # "NONE"
  /\ mapping' = [mapping EXCEPT ![k] = "NONE"]
  /\ stranded' = stranded \ {k}
  /\ UNCHANGED <<due, holder>>

(* Wherever the listener writes, it writes the sink or what is due.        *)
Written ==
  /\ mapping' \in [Keyboards -> Mappings]
  /\ \A k \in Keyboards :
       mapping'[k] = mapping[k]
         \/ (mapping[k] # "NONE" /\ mapping'[k] \in {"SINK", due[k]})

(* The lease passes to h, or is over.                                      *)
Serve(h) ==
  /\ Written
  /\ Swallowing(mapping') \subseteq stranded \cup {h}
  /\ holder' = h
  /\ stranded' = (stranded \cap Swallowing(mapping')) \ {h}
  /\ UNCHANGED due

(* The listener ends, with or without having given the keyboard back.      *)
End ==
  /\ Written
  /\ Swallowing(mapping') \subseteq stranded \cup {holder}
  /\ holder' = Nobody
  /\ stranded' = Swallowing(mapping')
  /\ due' = [k \in Keyboards |-> IF k \in stranded' THEN "EMPTY" ELSE due[k]]

Next ==
  \/ \E k \in Keyboards : Appear(k) \/ Vanish(k)
  \/ \E h \in Keyboards \cup {Nobody} : Serve(h)
  \/ End

Spec == Init /\ [][Next]_vars

-----------------------------------------------------------------------------

TypeOK ==
  /\ mapping \in [Keyboards -> Mappings]
  /\ due \in [Keyboards -> UserMappings]
  /\ holder \in Keyboards \cup {Nobody}
  /\ stranded \subseteq Keyboards

(* No keyboard swallows keys that is neither on lease nor known as         *)
(* stranded by a listener that ended.                                      *)
SwallowsOnLease ==
  \A k \in Keyboards : mapping[k] = "SINK" => k = holder \/ k \in stranded

(* A keyboard that does not swallow keys has its user's own mapping.       *)
UserGetsDue ==
  \A k \in Keyboards : mapping[k] \in {"NONE", "SINK", due[k]}
===============================================================================
