----------------------------- MODULE BankSlotsProofs -----------------------------
(***************************************************************************)
(* The answers of a deposit are right for any number of boxes and slots.   *)
(* Finding an open slot in a box with room is a matter of counting: a box  *)
(* with fewer rows than slots cannot have a row in each slot, whatever     *)
(* other slots its rows are in.  So the invariant is only that every box   *)
(* holds finitely many rows, in slots that are integers.                   *)
(***************************************************************************)
EXTENDS BankSlotsProps, FiniteSetTheorems, WellFoundedInduction, TLAPS

SlotsInv ==
    /\ used \in [Boxes -> SUBSET Int]
    /\ \A b \in Boxes : IsFiniteSet(used[b])
    /\ slotsPerBox \in SlotOptions

--------------------------------------------------------------------------------

\* What OrderBy and First find: the least of the numbers there are.
LEMMA FirstIsLeast ==
    ASSUME NEW s \in SUBSET Nat, s # {}
    PROVE  First(s) \in s /\ \A m \in s : First(s) <= m
<1> DEFINE R == {p \in Nat \X Nat : p[1] < p[2]}
<1>1. IsWellFoundedOn(R, Nat)
  BY NatLessThanWellFounded DEF OpToRel
<1>2. PICK n \in s : \A m \in s : <<m, n>> \notin R
  <2> HIDE DEF R
  <2> QED
    BY <1>1, WFMin
<1>3. ASSUME NEW m \in s
      PROVE  n <= m
  <2>1. m \in Nat /\ n \in Nat
    OBVIOUS
  <2>2. <<m, n>> \in Nat \X Nat /\ <<m, n>>[1] = m /\ <<m, n>>[2] = n
    BY <2>1
  <2>3. ~ (m < n)
    BY <1>2, <2>2
  <2> QED
    BY <2>1, <2>3
<1> QED
  BY <1>3 DEF First

\* The slots of a box are as many as SlotsPerBox says.
LEMMA CountOfSlots ==
    ASSUME NEW n \in Nat
    PROVE  IsFiniteSet(0..(n - 1)) /\ Cardinality(0..(n - 1)) = n
<1>1. 0 \in Int /\ n - 1 \in Int
  OBVIOUS
<1>2. /\ IsFiniteSet(0..(n - 1))
      /\ Cardinality(0..(n - 1)) = IF 0 > n - 1 THEN 0 ELSE n - 1 - 0 + 1
  BY <1>1, FS_Interval
<1> QED
  BY <1>2

\* A box with room has an open slot.
LEMMA RoomMeansSlot ==
    ASSUME SlotsInv, NEW b \in Boxes, HasRoom(b)
    PROVE  OpenSlots(b) # {}
<1>1. slotsPerBox \in Nat /\ IsFiniteSet(used[b])
  BY SlotsAssumption DEF SlotsInv
<1>2. IsFiniteSet(0..(slotsPerBox - 1)) /\ Cardinality(0..(slotsPerBox - 1)) = slotsPerBox
  BY <1>1, CountOfSlots
<1>3. ASSUME 0..(slotsPerBox - 1) \subseteq used[b]
      PROVE  slotsPerBox <= Cardinality(used[b])
  BY <1>1, <1>2, <1>3, FS_Subset
<1>4. Cardinality(used[b]) \in Nat /\ Cardinality(used[b]) < slotsPerBox
  BY <1>1, FS_CardinalityType DEF HasRoom
<1>5. ~ (0..(slotsPerBox - 1) \subseteq used[b])
  BY <1>1, <1>3, <1>4
<1> QED
  BY <1>5 DEF OpenSlots

\* A box without room has no open slot if all its rows are in slots that it has.
LEMMA NoRoomMeansTaken ==
    ASSUME SlotsInv, NEW b \in Boxes, ~HasRoom(b), used[b] \subseteq 0..(slotsPerBox - 1)
    PROVE  OpenSlots(b) = {}
<1>1. slotsPerBox \in Nat /\ IsFiniteSet(used[b])
  BY SlotsAssumption DEF SlotsInv
<1>2. IsFiniteSet(0..(slotsPerBox - 1)) /\ Cardinality(0..(slotsPerBox - 1)) = slotsPerBox
  BY <1>1, CountOfSlots
<1>3. used[b] \subseteq 0..(slotsPerBox - 1)
  OBVIOUS
<1>4. Cardinality(used[b]) <= slotsPerBox
  BY <1>2, <1>3, FS_Subset
<1>5. Cardinality(used[b]) \in Nat /\ Cardinality(used[b]) >= slotsPerBox
  BY <1>1, FS_CardinalityType DEF HasRoom
<1>6. Cardinality(used[b]) = Cardinality(0..(slotsPerBox - 1))
  BY <1>1, <1>2, <1>4, <1>5
<1>7. used[b] = 0..(slotsPerBox - 1)
  BY <1>2, <1>3, <1>6, FS_Subset
<1> QED
  BY <1>7 DEF OpenSlots

--------------------------------------------------------------------------------

LEMMA SlotsInitOK == SlotsInit => SlotsInv
<1> SUFFICES ASSUME SlotsInit PROVE SlotsInv
  OBVIOUS
<1>1. IsFiniteSet({})
  BY FS_EmptySet
<1> QED
  BY <1>1 DEF SlotsInit, SlotsInv

\* A deposit takes one more slot of one box.
LEMMA DepositOK ==
    ASSUME SlotsInv, NEW box \in Boxes \cup {NotNamed}, NEW slot \in SlotNumbers \cup {NotNamed},
           DepositAt(box, slot)
    PROVE  SlotsInv'
<1> DEFINE candidates == IF box = NotNamed THEN BoxesWithRoom ELSE {box}
           b == First(candidates)
           n == IF slot = NotNamed THEN First(OpenSlots(b)) ELSE slot
<1>1. /\ candidates # {} /\ (slot = NotNamed => OpenSlots(b) # {})
      /\ used' = [used EXCEPT ![b] = @ \cup {n}] /\ slotsPerBox' = slotsPerBox
  BY DEF DepositAt
<1>2. candidates \subseteq Boxes /\ candidates \in SUBSET Nat
  BY SlotsAssumption DEF BoxesWithRoom
<1>3. b \in Boxes
  BY <1>1, <1>2, FirstIsLeast
<1>4. OpenSlots(b) \in SUBSET Nat
  BY SlotsAssumption DEF OpenSlots, SlotsInv
<1>5. n \in Int
  <2>1. CASE slot = NotNamed
    BY <1>1, <1>4, <2>1, FirstIsLeast
  <2>2. CASE slot # NotNamed
    BY <2>2, SlotsAssumption
  <2> QED
    BY <2>1, <2>2
<1> HIDE DEF n, b, candidates
<1>6. used[b] \in SUBSET Int /\ IsFiniteSet(used[b])
  BY <1>3 DEF SlotsInv
<1>7. IsFiniteSet(used[b] \cup {n})
  BY <1>6, FS_AddElement
<1> QED
  BY <1>1, <1>3, <1>5, <1>6, <1>7 DEF SlotsInv

LEMMA FreeOK ==
    ASSUME SlotsInv, NEW b \in Boxes, NEW s \in SlotNumbers, FreeSlot(b, s)
    PROVE  SlotsInv'
<1>1. used' = [used EXCEPT ![b] = @ \ {s}] /\ slotsPerBox' = slotsPerBox
  BY DEF FreeSlot
<1>2. used[b] \in SUBSET Int /\ IsFiniteSet(used[b])
  BY DEF SlotsInv
<1>3. IsFiniteSet(used[b] \ {s})
  BY <1>2, FS_RemoveElement
<1> QED
  BY <1>1, <1>2, <1>3 DEF SlotsInv

LEMMA SlotsStep == SlotsInv /\ [SlotsNext]_slotVars => SlotsInv'
<1> SUFFICES ASSUME SlotsInv, [SlotsNext]_slotVars PROVE SlotsInv'
  OBVIOUS
<1>1. ASSUME NEW n \in SlotOptions, RestartWith(n)
      PROVE  SlotsInv'
  BY <1>1 DEF RestartWith, SlotsInv
<1>2. CASE UNCHANGED slotVars
  BY <1>2 DEF slotVars, SlotsInv
<1> QED
  BY <1>1, <1>2, DepositOK, FreeOK DEF SlotsNext

LEMMA SlotsInvariant == SlotsSpec => []SlotsInv
<1> QED
  BY SlotsInitOK, SlotsStep, PTL DEF SlotsSpec

\* However many boxes a user has, whatever slots requests have named, negative ones too,
\* and however often SlotsPerBox was changed: in the box that ResolveDestBoxAsync chooses NextOpenSlot
\* finds a slot (BankService.cs:261-265, 270-280).
THEOREM RoomIsReal == SlotsSpec => []RoomIsFound
<1>1. SlotsInv => RoomIsFound
  <2> SUFFICES ASSUME SlotsInv, BoxesWithRoom # {}
               PROVE  OpenSlots(First(BoxesWithRoom)) # {}
    BY DEF RoomIsFound
  <2>1. BoxesWithRoom \in SUBSET Nat
    BY SlotsAssumption DEF BoxesWithRoom
  <2>2. First(BoxesWithRoom) \in BoxesWithRoom
    BY <2>1, FirstIsLeast
  <2> QED
    BY <2>2, RoomMeansSlot DEF BoxesWithRoom
<1> QED
  BY <1>1, SlotsInvariant, PTL

\* "Bank is full" is true of any number of boxes that have no row in a slot below 0 or
\* from SlotsPerBox on, whatever slots requests have named (BankService.cs:263, 267).
THEOREM FullIsReal == SlotsSpec => []FullIsFull
<1>1. SlotsInv => FullIsFull
  <2> SUFFICES ASSUME SlotsInv, BoxesWithRoom = {}, NEW b \in Boxes,
                      ~ \E s \in used[b] : s \notin 0..(slotsPerBox - 1)
               PROVE  OpenSlots(b) = {}
    BY DEF FullIsFull
  <2>1. ~HasRoom(b)
    BY DEF BoxesWithRoom
  <2>2. used[b] \subseteq 0..(slotsPerBox - 1)
    OBVIOUS
  <2> QED
    BY <2>1, <2>2, NoRoomMeansTaken
<1> QED
  BY <1>1, SlotsInvariant, PTL

================================================================================
