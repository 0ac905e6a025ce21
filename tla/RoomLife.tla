------------------------------ MODULE RoomLife -------------------------------
(***************************************************************************)
(* What the rooms of the service promise to those who are in them, without *)
(* how it is kept: a room gathers people, its order is under way, it is    *)
(* closed; who may come, go and be put out depends on that alone.          *)
(* RoomService implements this specification: see its Life.                *)
(***************************************************************************)
EXTENDS Integers, FiniteSets

CONSTANTS
    Users,
    Rooms

VARIABLES
    life,       \* life[r]: "none" when there is no room r
    members,    \* members[r]: who is in r
    barred      \* barred[r]: who was put out of r and never comes back

vars == <<life, members, barred>>

Lives == {"none", "gathering", "underway", "closed"}

TypeOK ==
    /\ life \in [Rooms -> Lives]
    /\ members \in [Rooms -> SUBSET Users]
    /\ barred \in [Rooms -> SUBSET Users]

Init ==
    /\ life = [r \in Rooms |-> "none"]
    /\ members = [r \in Rooms |-> {}]
    /\ barred = [r \in Rooms |-> {}]

Becomes(r, l, in, out) ==
    /\ life' = [life EXCEPT ![r] = l]
    /\ members' = [members EXCEPT ![r] = in]
    /\ barred' = [barred EXCEPT ![r] = out]

Found(r, u) ==
    /\ life[r] = "none"
    /\ Becomes(r, "gathering", {u}, {})

Enter(r, u) ==
    /\ life[r] = "gathering"
    /\ u \notin members[r] \cup barred[r]
    /\ Becomes(r, "gathering", members[r] \cup {u}, barred[r])

\* Nobody goes while the order is under way.
Go(r, u) ==
    /\ life[r] \in {"gathering", "closed"}
    /\ u \in members[r]
    /\ Becomes(r, life[r], members[r] \ {u}, barred[r])

\* Somebody who is in the room, or was, is put out for good.
PutOut(r, u) ==
    /\ life[r] # "none"
    /\ Becomes(r, life[r], members[r] \ {u}, barred[r] \cup {u})

\* A room disappears with its last member, and not while its order is under way.
Vanish(r) ==
    /\ life[r] \in {"gathering", "closed"}
    /\ Cardinality(members[r]) <= 1
    /\ Becomes(r, "none", {}, {})

\* An order takes two, and starts with everybody who is there.
Start(r) ==
    /\ life[r] = "gathering"
    /\ Cardinality(members[r]) >= 2
    /\ Becomes(r, "underway", members[r], barred[r])

Close(r) ==
    /\ life[r] = "underway"
    /\ Becomes(r, "closed", members[r], barred[r])

Next ==
    \E r \in Rooms :
        \/ \E u \in Users : Found(r, u) \/ Enter(r, u) \/ Go(r, u) \/ PutOut(r, u)
        \/ Vanish(r) \/ Start(r) \/ Close(r)

Spec == Init /\ [][Next]_vars
=============================================================================
