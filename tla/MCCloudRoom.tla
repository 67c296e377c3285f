---------------------------- MODULE MCCloudRoom ----------------------------
(***************************************************************************)
(* A room of two players, in five settings.  Members: four sockets, so that *)
(* a slot is taken again after a loss, a kick or a retirement.  Changed:    *)
(* three sockets and a settings change.  Vanishing: the same with sends     *)
(* that fail and a client that cannot resume.  Rude: the same with members  *)
(* that break the protocol and error callbacks that come late.  Faulty:     *)
(* every fault on two sockets.                                              *)
(***************************************************************************)
EXTENDS CloudRoom

Members == [sockets |-> 4, changes |-> 0, legacy |-> {}, faults |-> {}]
Changed == [sockets |-> 3, changes |-> 1, legacy |-> {}, faults |-> {}]
Vanishing == [sockets |-> 3, changes |-> 1, legacy |-> {1}, faults |-> {"send"}]
Rude == [sockets |-> 3, changes |-> 1, legacy |-> {1}, faults |-> {"late", "reject"}]
Faulty == [sockets |-> 2, changes |-> 1, legacy |-> {}, faults |-> Fault]
MCSetups == {Members, Changed, Vanishing, Rude, Faulty}

(* What holds as long as no send fails and no error callback comes late: such *)
(* a fault can turn the end of a membership into a reservation.                *)

\* Members and reservations never exceed the size of the lobby, what a member
\* was told is what the room is, and a member that the host removed never has a
\* membership again.
OrderlyRoom == setup.faults = {} => RoomNotFull /\ ViewsAgree /\ KickedStayOut
=============================================================================
