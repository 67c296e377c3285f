------------------------- MODULE MCBarrierLiveness -------------------------
(***************************************************************************)
(* What becomes of a pause.  "lost": three members, one of whom is lost at  *)
(* any moment of a change, and no deadline.  "kick": two members, a kick    *)
(* and the 30 second deadlines of the relay and the clients.                *)
(***************************************************************************)
EXTENDS SettingsBarrier

CONSTANTS a, b, c

VARIABLE part

AllDirect == {{s, r} : s \in Client, r \in Client}

Kick == INSTANCE SettingsBarrier
          WITH MaxSubmissions <- 2, MaxDepartures <- 0, MaxKicks <- 1, Deadlines <- TRUE

PauseInit == Init /\ part \in {"lost", "kick"}

PauseNext ==
  /\ UNCHANGED part
  /\ \/ part = "lost" /\ Next
     \/ part = "kick" /\ Kick!Next /\ phase'[c] = "out"

\* Fairness is about the ticks, which do not depend on the bounds.
PauseSpec == PauseInit /\ [][PauseNext]_<<part, vars>> /\ Fairness
=============================================================================
