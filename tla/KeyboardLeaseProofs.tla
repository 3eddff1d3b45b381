-------------------------- MODULE KeyboardLeaseProofs --------------------------
(***************************************************************************)
(* What the promise of the key filter amounts to, for every set of         *)
(* keyboards.  KeyFilter implements KeyboardLease (its property            *)
(* KeepsTheLease), so that what is proved here of the lease holds of it.   *)
(***************************************************************************)
EXTENDS KeyboardLease, TLAPS

(* Only the lease and the listeners that ended leave a keyboard swallowing *)
(* keys, and every other one has the mapping of its user.                  *)
LeaseInv ==
  /\ TypeOK
  /\ SwallowsOnLease
  /\ UserGetsDue

-----------------------------------------------------------------------------

(* Whatever the listener writes is a mapping, and is the sink or what is   *)
(* due; nothing is written to a keyboard that is away.                     *)
LEMMA WrittenProperties ==
  ASSUME LeaseInv, Written, NEW k \in Keyboards
  PROVE  /\ mapping' \in [Keyboards -> Mappings]
         /\ mapping'[k] \in {"NONE", "SINK", due[k]}
BY DEF LeaseInv, TypeOK, UserGetsDue, Written

(* A keyboard comes with the mapping its user gave it.                     *)
LEMMA AppearKeepsLease ==
  ASSUME LeaseInv, NEW k \in Keyboards, Appear(k)
  PROVE  LeaseInv'
<1> USE DEF LeaseInv, Appear
<1>1. TypeOK'
  BY DEF TypeOK, Mappings, UserMappings
<1>2. SwallowsOnLease'
  BY DEF TypeOK, SwallowsOnLease, UserMappings
<1>3. UserGetsDue'
  BY DEF TypeOK, UserGetsDue
<1> QED
  BY <1>1, <1>2, <1>3

(* A keyboard that goes away swallows nothing.                             *)
LEMMA VanishKeepsLease ==
  ASSUME LeaseInv, NEW k \in Keyboards, Vanish(k)
  PROVE  LeaseInv'
<1> USE DEF LeaseInv, Vanish
<1>1. TypeOK'
  BY DEF TypeOK, Mappings
<1>2. SwallowsOnLease'
  BY DEF TypeOK, SwallowsOnLease
<1>3. UserGetsDue'
  BY DEF TypeOK, UserGetsDue
<1> QED
  BY <1>1, <1>2, <1>3

(* A lease that passes on leaves no keyboard behind that swallows keys.    *)
LEMMA ServeKeepsLease ==
  ASSUME LeaseInv, NEW h \in Keyboards \cup {Nobody}, Serve(h)
  PROVE  LeaseInv'
<1> USE DEF Serve
<1>1. TypeOK'
  BY WrittenProperties DEF LeaseInv, TypeOK, Written
<1>2. SwallowsOnLease'
  BY DEF SwallowsOnLease, Swallowing
<1>3. UserGetsDue'
  BY WrittenProperties DEF UserGetsDue
<1> QED
  BY <1>1, <1>2, <1>3 DEF LeaseInv

(* When a listener ends, the keyboards it leaves swallowing are known, and *)
(* an empty mapping is what they are due from then on.                     *)
LEMMA EndKeepsLease ==
  ASSUME LeaseInv, End
  PROVE  LeaseInv'
<1> USE DEF End
<1>1. TypeOK'
  BY WrittenProperties DEF LeaseInv, TypeOK, Written, Swallowing, UserMappings
<1>2. SwallowsOnLease'
  BY DEF SwallowsOnLease, Swallowing
<1>3. UserGetsDue'
  <2> SUFFICES ASSUME NEW k \in Keyboards
               PROVE  mapping'[k] \in {"NONE", "SINK", due'[k]}
    BY DEF UserGetsDue
  <2>1. mapping'[k] \in {"NONE", "SINK", due[k]}
    BY WrittenProperties
  <2>2. CASE k \in stranded'
    BY <2>2 DEF Swallowing
  <2>3. CASE k \notin stranded'
    BY <2>1, <2>3
  <2> QED
    BY <2>2, <2>3
<1> QED
  BY <1>1, <1>2, <1>3 DEF LeaseInv

-----------------------------------------------------------------------------

(* The invariant of the lease.                                             *)
THEOREM LeaseIsKept == Spec => []LeaseInv
<1>1. Init => LeaseInv
  BY DEF Init, LeaseInv, TypeOK, SwallowsOnLease, UserGetsDue, Swallowing
<1>2. LeaseInv /\ [Next]_vars => LeaseInv'
  <2> SUFFICES ASSUME LeaseInv, [Next]_vars
               PROVE  LeaseInv'
    OBVIOUS
  <2>1. CASE \E k \in Keyboards : Appear(k) \/ Vanish(k)
    BY <2>1, AppearKeepsLease, VanishKeepsLease
  <2>2. CASE \E h \in Keyboards \cup {Nobody} : Serve(h)
    BY <2>2, ServeKeepsLease
  <2>3. CASE End
    BY <2>3, EndKeepsLease
  <2>4. CASE UNCHANGED vars
    BY <2>4 DEF vars, LeaseInv, TypeOK, SwallowsOnLease, UserGetsDue
  <2> QED
    BY <2>1, <2>2, <2>3, <2>4 DEF Next
<1> QED
  BY <1>1, <1>2, PTL DEF Spec

(* No keyboard swallows the keys of its user unless it is the one on lease *)
(* or a listener that ended left it so (muse_on_key_filter.c, apply and    *)
(* restore).                                                               *)
THEOREM SwallowsOnlyOnLease == Spec => []SwallowsOnLease
BY LeaseIsKept, PTL DEF LeaseInv

(* Every keyboard that does not swallow keys has the mapping its user is   *)
(* due: the one it came with, or an empty one after a listener that was    *)
(* killed over it.                                                         *)
THEOREM UserAlwaysGetsDue == Spec => []UserGetsDue
BY LeaseIsKept, PTL DEF LeaseInv
=============================================================================
