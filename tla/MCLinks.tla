------------------------------ MODULE MCLinks ------------------------------
(* Small instances of Links for TLC: two to four devices, named in the order *)
(* of their keys.                                                           *)
EXTENDS Links

CONSTANTS ann, bob, cat, dan

OneSlot == {1}
TwoSlots == {1, 2}
Two == [x \in Devices |-> 2]

\* two devices that see each other, or only one of which sees the other
Pair == {ann, bob}
PairKey == [x \in Pair |-> IF x = ann THEN 1 ELSE 2]
PairSees == [x \in Pair |-> Pair \ {x}]
AnnSees == [x \in Pair |-> IF x = ann THEN {bob} ELSE {}]
BobSees == [x \in Pair |-> IF x = bob THEN {ann} ELSE {}]
PairL2cap == [x \in Pair |-> "l2cap"]
PairOpenPolicy == [x \in Pair |-> Pair \ {x}]

\* a hub: ann and bob both dial cat, who takes in one
Three == {ann, bob, cat}
HubKey == [x \in Three |-> IF x = ann THEN 1 ELSE IF x = bob THEN 2 ELSE 3]
HubSees == [x \in Three |-> IF x = cat THEN {} ELSE {cat}]
HubPipe == [x \in Three |-> "l2cap"]
HubPolicy == [x \in Three |-> Three \ {x}]
One == [x \in Devices |-> 1]

\* ann and bob dial each other; cat dials ann, whom she shuns; dan, who has another
\* pipe, dials bob
Four == {ann, bob, cat, dan}
FourKey == [x \in Four |->
  IF x = ann THEN 1 ELSE IF x = bob THEN 2 ELSE IF x = cat THEN 3 ELSE 4]
FourSees == [x \in Four |->
  IF x = ann THEN {bob} ELSE IF x \in {bob, cat} THEN {ann} ELSE {bob}]
FourPipe == [x \in Four |-> IF x = dan THEN "l2cap" ELSE "gatt"]
FourPolicy == [x \in Four |->
  IF x = cat THEN {bob, dan} ELSE IF x = bob THEN {ann, dan} ELSE Four \ {x}]
=============================================================================
