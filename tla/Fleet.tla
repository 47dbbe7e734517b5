------------------------------- MODULE Fleet -------------------------------
(***************************************************************************)
(* oop_fleet: the submarines of fleet.cpp, the missions they are assigned  *)
(* to, which combat submarines take part in the same mission, the messages *)
(* they send each other, and whether each has a connection to its LNC.     *)
(* One user works the menu, so an operation is a step.  A serial number    *)
(* stands for the submarine that has it.                                   *)
(***************************************************************************)
EXTENDS Naturals, Sequences

CONSTANTS
  Serials,       \* what the user may enter
  MaxMessages    \* bound: messages a submarine is sent

ASSUME FleetAssumption == MaxMessages \in Nat

VARIABLES
  type,          \* "none" when there is no such submarine
  assigned,      \* assignedToMission_
  participating, \* participatingSubmarines_; never a serial number twice
  received,      \* the senders of receivedMessages_
  linked         \* whether centralComputer_ has a connection

fleet == << type, assigned, participating, received, linked >>

Submarines == {s \in Serials : type[s] # "none"}     \* FindBySerial finds it

(* Fault: the cast is not checked. *)
AnySubmarine == Submarines

Combat == {s \in Serials : type[s] = "Combat"}       \* and dynamic_cast too

FleetInit ==
  /\ type = [s \in Serials |-> "none"]
  /\ assigned = [s \in Serials |-> FALSE]
  /\ participating = [s \in Serials |-> {}]
  /\ received = [s \in Serials |-> << >>]
  /\ linked = [s \in Serials |-> FALSE]

AddSubmarine(s) ==
  /\ s \notin Submarines
  /\ \E t \in {"Research", "Combat"} : type' = [type EXCEPT ![s] = t]
  /\ UNCHANGED << assigned, participating, received, linked >>

(* A combat submarine may be given an LNC to connect to, which may fail.  A  *)
(* connection it still has is closed first.                                  *)
AssignMission(s) ==
  /\ s \in Submarines /\ ~assigned[s]
  /\ assigned' = [assigned EXCEPT ![s] = TRUE]
  /\ \/ UNCHANGED linked
     \/ /\ s \in Combat
        /\ \E ok \in BOOLEAN : linked' = [linked EXCEPT ![s] = ok]
  /\ UNCHANGED << type, participating, received >>

(* Fault: the others are not told. *)
UnlinkedOnly(s) == [participating EXCEPT ![s] = {}]

(* The others forget this submarine, and it forgets them.                    *)
Unlinked(s) ==
  [o \in Serials |-> IF o = s THEN {}
                     ELSE IF o \in participating[s] /\ o \in Combat THEN participating[o] \ {s}
                     ELSE participating[o]]

(* Fault: the connection is kept. *)
StillConnected(s) == linked

Disconnected(s) == [linked EXCEPT ![s] = FALSE]

(* Fleet::EndMission, and EndMission of the submarine. *)
EndMission(s) ==
  /\ s \in Submarines /\ assigned[s]
  /\ IF s \in Combat
       THEN participating' = Unlinked(s) /\ linked' = Disconnected(s)
       ELSE UNCHANGED << participating, linked >>
  /\ assigned' = [assigned EXCEPT ![s] = FALSE]
  /\ UNCHANGED << type, received >>

AddParticipant(p, s, o) == IF o = s THEN p ELSE [p EXCEPT ![s] = @ \cup {o}]

(* Fault: any two combat submarines. *)
EvenUnassigned(a, b) == TRUE

BothAssigned(a, b) == assigned[a] /\ assigned[b]

AssociateCombatSubmarines(a, b) ==
  /\ a \in Combat /\ b \in Combat /\ BothAssigned(a, b)
  /\ participating' = AddParticipant(AddParticipant(participating, a, b), b, a)
  /\ UNCHANGED << type, assigned, received, linked >>

SendMessage(sender, receiver) ==
  /\ sender \in Combat /\ receiver \in Combat
  /\ receiver \in participating[sender]
  /\ Len(received[receiver]) < MaxMessages
  /\ received' = [received EXCEPT ![receiver] = Append(@, sender)]
  /\ UNCHANGED << type, assigned, participating, linked >>

(* Looking at a combat submarine polls its connection, which may turn out to *)
(* have been closed (PollLatestTelemetry).                                   *)
Display(s) ==
  /\ s \in Combat /\ linked[s]
  /\ linked' = [linked EXCEPT ![s] = FALSE]
  /\ UNCHANGED << type, assigned, participating, received >>

FleetNext ==
  \/ \E s \in Serials : AddSubmarine(s) \/ AssignMission(s) \/ EndMission(s) \/ Display(s)
  \/ \E s, o \in Serials : AssociateCombatSubmarines(s, o) \/ SendMessage(s, o)

FleetSpec == FleetInit /\ [][FleetNext]_fleet

-----------------------------------------------------------------------------
(* Correctness *)

(* The types of the variables; what CombatSubmarine declares, no research    *)
(* submarine has.                                                            *)
FleetTypeOK ==
  /\ type \in [Serials -> {"none", "Research", "Combat"}]
  /\ assigned \in [Serials -> BOOLEAN]
  /\ participating \in [Serials -> SUBSET Serials]
  /\ received \in [Serials -> Seq(Serials)]
  /\ linked \in [Serials -> BOOLEAN]
  /\ \A s \in Serials :
       participating[s] # {} \/ received[s] # << >> \/ linked[s] => type[s] = "Combat"

(* Taking part in the same mission is mutual, whatever missions have ended   *)
(* and begun since: the list each submarine keeps of the others agrees with  *)
(* the lists the others keep.                                                *)
Mutual == \A a, b \in Serials : b \in participating[a] <=> a \in participating[b]

(* Only combat submarines with a mission take part in one: a submarine that  *)
(* starts a new mission starts it alone, and nobody still lists it.  And     *)
(* none is in its own list, so that EndMission, which walks one list while   *)
(* it removes from others, never removes from the list it walks.             *)
ParticipantsAssigned ==
  \A a, b \in Serials : b \in participating[a] =>
    a # b /\ a \in Combat /\ b \in Combat /\ assigned[a] /\ assigned[b]

(* A connection to an LNC ends with the mission it was made for.             *)
ConnectedOnMission == \A a \in Serials : linked[a] => a \in Combat /\ assigned[a]

=============================================================================
