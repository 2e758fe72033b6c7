---------------------------- MODULE GuestPlaces ----------------------------
(***************************************************************************)
(* What Listen Together promises about places in a Room, without locks,    *)
(* streams, feeds or time: there is one Room at a time, nobody enters but  *)
(* by being admitted to the open Room while it has a place, and a session  *)
(* that ended stays ended.  ListenTogether implements this.                *)
(***************************************************************************)
EXTENDS Integers, FiniteSets

CONSTANTS Keys, MaxGuests

VARIABLES
  current,   \* which Room is open, counted from 1; 0 for none
  rooms,     \* how many have been opened
  members,   \* the sessions in the open Room
  ended      \* the sessions that are over

vars == <<current, rooms, members, ended>>

Init == current = 0 /\ rooms = 0 /\ members = {} /\ ended = {}

OpenRoom ==
  /\ current = 0
  /\ current' = rooms + 1
  /\ rooms' = rooms + 1
  /\ UNCHANGED <<members, ended>>

CloseRoom ==
  /\ current # 0
  /\ current' = 0
  /\ members' = {}
  /\ ended' = ended \cup members
  /\ UNCHANGED rooms

Admit(k) ==
  /\ current # 0
  /\ k \notin members \cup ended
  /\ Cardinality(members) < MaxGuests
  /\ members' = members \cup {k}
  /\ UNCHANGED <<current, rooms, ended>>

End(gone) ==
  /\ gone # {}
  /\ members' = members \ gone
  /\ ended' = ended \cup gone
  /\ UNCHANGED <<current, rooms>>

Next ==
  \/ OpenRoom
  \/ CloseRoom
  \/ \E k \in Keys : Admit(k)
  \/ \E gone \in SUBSET members : End(gone)

Spec == Init /\ [][Next]_vars
=============================================================================
