------------------------------ MODULE HostView ------------------------------
(***************************************************************************)
(* What a swarm promises its host about connections, whatever dials,       *)
(* refusals, duplicates and failures go on underneath (onconnection and    *)
(* the peers map of src/lib/transport.js).  Links implements it: there a   *)
(* connection comes out of a dial, a session, a pipe and a handshake.      *)
(***************************************************************************)
EXTENDS Integers

CONSTANTS
  Devices,  \* the devices in radio range of each other
  Key,      \* Key[d]: the rank of d's static key
  Ids,      \* the channels, records with the fields from and to
  Willing,  \* the pairs <<d, e>> both of which let the other in
  None      \* no channel

VARIABLES
  link,     \* link[d][e]: the channel d lists as its link to e
  open      \* open[d]: the channels whose connection the host of d holds open

Joins(x, d, e) == {x.from, x.to} = {d, e}

\* Of two channels of a pair both devices keep the one the smaller key initiated.
Kept(x) == Key[x.from] < Key[x.to]

Init ==
  /\ link = [d \in Devices |-> [e \in Devices |-> None]]
  /\ open = [d \in Devices |-> {}]

\* onconnection: the first connection to a willing peer, or the one both keep,
\* for which the connection listed before is closed in the same step
Connect(d, e, x) ==
  /\ Joins(x, d, e)
  /\ <<d, e>> \in Willing
  /\ link[d][e] = None \/ Kept(x)
  /\ link' = [link EXCEPT ![d][e] = x]
  /\ open' = [open EXCEPT ![d] = (@ \ {link[d][e]}) \cup {x}]

\* connections die, and stay listed until their close events are handled
Die ==
  /\ open' \in [Devices -> SUBSET Ids]
  /\ \A d \in Devices : open'[d] \subseteq open[d]
  /\ UNCHANGED link

\* only a dead connection leaves the list
Forget(d, e) ==
  /\ link[d][e] \notin open[d]
  /\ link' = [link EXCEPT ![d][e] = None]
  /\ UNCHANGED open

Next ==
  \/ \E d, e \in Devices, x \in Ids : Connect(d, e, x)
  \/ Die
  \/ \E d, e \in Devices : Forget(d, e)

Spec == Init /\ [][Next]_<<link, open>>
=============================================================================
