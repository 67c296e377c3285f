------------------------- MODULE MCSettingsBarrier -------------------------
(***************************************************************************)
(* A room of three.  "direct": every pair has a direct route, and two       *)
(* settings changes follow each other with gameplay between them.           *)
(* "relayed": every pair falls back to the relay, and a member, the owner   *)
(* included, is lost at any moment.  The identities are interchangeable:    *)
(* nothing orders them but the order of arrival, which is part of the state.*)
(***************************************************************************)
EXTENDS SettingsBarrier, TLC

VARIABLE part

AllDirect == {{s, r} : s \in Client, r \in Client}
NoneDirect == {}

Relayed == INSTANCE SettingsBarrier
             WITH Direct <- NoneDirect, MaxSubmissions <- 2, MaxDepartures <- 1

BarrierInit == Init /\ part \in {"direct", "relayed"}

BarrierNext ==
  /\ UNCHANGED part
  /\ \/ part = "direct" /\ Next
     \/ part = "relayed" /\ Relayed!Next

BarrierSpec == BarrierInit /\ [][BarrierNext]_<<part, vars>>

ClientSymmetry == Permutations(Client)
=============================================================================
