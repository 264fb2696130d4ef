------------------------------ MODULE BankSlotsProps ------------------------------
(* The answers of a deposit that names neither box nor slot. *)
EXTENDS BankSlots

\* The box that is chosen has an open slot: after the search of the boxes, that of the
\* slots does not fail, whatever slots requests have named and whatever SlotsPerBox was
\* when they did (BankService.cs:261-265, 270-280).
RoomIsFound ==
    BoxesWithRoom # {} => OpenSlots(First(BoxesWithRoom)) # {}

\* "Bank is full" is the answer only if every slot of every box is taken, but for boxes
\* with a row in a slot that they do not have, below 0 or from SlotsPerBox on
\* (BankService.cs:263, 267).
FullIsFull ==
    BoxesWithRoom = {} =>
      \A b \in Boxes : OpenSlots(b) = {} \/ \E s \in used[b] : s \notin 0..(slotsPerBox - 1)

================================================================================
