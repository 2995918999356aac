-------------------------------- MODULE Room --------------------------------
(***************************************************************************)
(* What a chat group promises: the messages of each front end, and the     *)
(* notifications about users, are published in the order in which they     *)
(* were posted, each to all who are members at that moment.  Posts of      *)
(* different sources may pass one another.                                 *)
(***************************************************************************)
EXTENDS Sequences, SequencesExt

CONSTANTS
    Client,
    Item,
    Source,   \* the source of each item: a front end, or the group itself
    Group     \* the group, as the source of notifications

VARIABLES
    pending,   \* what has been posted and not been published
    members,
    received,  \* what has been published to each client
    published  \* all that has been published, in order

vars == <<pending, members, received, published>>

Init ==
    /\ pending = <<>>
    /\ members = {}
    /\ received = [c \in Client |-> <<>>]
    /\ published = <<>>

Post(i) ==
    /\ pending' = Append(pending, i)
    /\ UNCHANGED <<members, received, published>>

(* The oldest post of some source is published.                              *)
Publish(k) ==
    /\ \A j \in 1 .. k - 1 : Source[pending[j]] # Source[pending[k]]
    /\ pending' = RemoveAt(pending, k)
    /\ published' = Append(published, pending[k])
    /\ received' = [c \in Client |->
          IF c \in members THEN Append(received[c], pending[k]) ELSE received[c]]
    /\ UNCHANGED members

Join(c) ==
    /\ members' = members \cup {c}
    /\ UNCHANGED <<pending, received, published>>

(* The group may tell the others that the user has left.                     *)
Leave(c) ==
    /\ c \in members
    /\ members' = members \ {c}
    /\ \/ UNCHANGED pending
       \/ \E i \in Item : Source[i] = Group /\ pending' = Append(pending, i)
    /\ UNCHANGED <<received, published>>

Next ==
    \/ \E i \in Item : Post(i)
    \/ \E k \in DOMAIN pending : Publish(k)
    \/ \E c \in Client : Join(c) \/ Leave(c)

Spec == Init /\ [][Next]_vars
=============================================================================
