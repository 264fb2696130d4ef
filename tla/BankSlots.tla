-------------------------------- MODULE BankSlots --------------------------------
(***************************************************************************)
(* Where a deposit goes in the bank of one user                            *)
(* (server/Services/BankService.cs: ResolveDestBoxAsync, NextOpenSlot and  *)
(* the checks of DepositAsync).  A box has room if it holds fewer rows     *)
(* than SlotsPerBox, whatever slots these are in; a request may name a     *)
(* slot that no box has (any int?, negative ones too), and a restart may   *)
(* change SlotsPerBox.  Requests run one at a time here: what two at a     *)
(* time do to each other is module Requests.                               *)
(***************************************************************************)
EXTENDS Integers, FiniteSets

CONSTANTS
    Boxes,           \* a set of numbers: their indexes
    SlotNumbers,     \* slots that requests name: a bound
    SlotOptions,     \* what SlotsPerBox may be set to
    NotNamed         \* a request without destBoxIndex or destSlot

ASSUME SlotsAssumption ==
    /\ Boxes \subseteq Nat /\ Boxes # {}
    /\ SlotNumbers \subseteq Int /\ SlotOptions \subseteq Nat
    /\ NotNamed \notin Boxes \cup SlotNumbers

VARIABLES
    used,            \* of each box, the slots that are taken
    slotsPerBox      \* the option, as the server was started

slotVars == <<used, slotsPerBox>>

SlotsInit == used = [b \in Boxes |-> {}] /\ slotsPerBox \in SlotOptions

\* Faulty variants of HasRoom: one row too many, and one too few.
HasRoomIfFull(b) == Cardinality(used[b]) <= slotsPerBox
HasRoomForTwo(b) == Cardinality(used[b]) + 1 < slotsPerBox

HasRoom(b) == Cardinality(used[b]) < slotsPerBox

First(s) == CHOOSE n \in s : \A m \in s : n <= m

BoxesWithRoom == {b \in Boxes : HasRoom(b)}

OpenSlots(b) == (0..(slotsPerBox - 1)) \ used[b]

\* DepositAsync, with the box and the slot of the request; it is refused where the box
\* or the slot to take does not exist.
DepositAt(box, slot) ==
    LET candidates == IF box = NotNamed THEN BoxesWithRoom ELSE {box} IN
    /\ candidates # {}
    /\ LET b == First(candidates)
           s == IF slot = NotNamed THEN First(OpenSlots(b)) ELSE slot IN
         /\ slot = NotNamed => OpenSlots(b) # {}
         /\ s \notin used[b]
         /\ used' = [used EXCEPT ![b] = @ \cup {s}]
    /\ UNCHANGED slotsPerBox

\* A withdrawal that is committed, a deposit that is undone, a deleted Pokemon.
FreeSlot(b, s) ==
    /\ s \in used[b]
    /\ used' = [used EXCEPT ![b] = @ \ {s}]
    /\ UNCHANGED slotsPerBox

RestartWith(n) == slotsPerBox' = n /\ UNCHANGED used

SlotsNext ==
    \/ \E box \in Boxes \cup {NotNamed}, slot \in SlotNumbers \cup {NotNamed} : DepositAt(box, slot)
    \/ \E b \in Boxes, s \in SlotNumbers : FreeSlot(b, s)
    \/ \E n \in SlotOptions : RestartWith(n)

SlotsSpec == SlotsInit /\ [][SlotsNext]_slotVars

================================================================================
