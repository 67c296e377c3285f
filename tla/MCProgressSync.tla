--------------------------- MODULE MCProgressSync ---------------------------
(***************************************************************************)
(* The shared progress: bits, keys and quests, and the counters that players *)
(* add to.  The two share no state; a behaviour exercises the one its        *)
(* initial state names, and the variables of the other rest.                 *)
(***************************************************************************)
EXTENDS ProgressSync, TLC

CONSTANTS
  p1, p2, p3, s1, s2, i1, w1, first, second,
  Kinds, Direct, Cap, MaxPickups, MaxResets       \* SharedLedgers

VARIABLES
  part,                                           \* what is exercised
  kind, direct, player, up, inbox, mesh, taken, posted, reloaded, rejoined

\* The second fact waits for the first.
MCNeeds == (first :> None) @@ (second :> first)

\* The players are alike and so are the stages; the rewards are two as well.
Symmetry == {p @@ s : p \in Permutations(Players), s \in Permutations(Stages)}

Ledger == INSTANCE SharedLedgers WITH Sources <- Stages, published <- posted

ASSUME Ledger!LedgerAssumption

ledgerVars == <<kind, direct, player, up, inbox, mesh, taken, posted, reloaded, rejoined>>

AtRest == "at rest"
LedgerRests == kind = AtRest /\ direct = AtRest /\ player = AtRest /\ up = AtRest
               /\ inbox = AtRest /\ mesh = AtRest /\ taken = AtRest /\ posted = AtRest
               /\ reloaded = AtRest /\ rejoined = AtRest

SharedInit ==
  /\ Init
  /\ \/ part = "progress" /\ LedgerRests
     \/ part = "ledger" /\ Ledger!Init

SharedNext ==
  /\ UNCHANGED part
  /\ \/ part = "progress" /\ Next /\ UNCHANGED ledgerVars
     \/ part = "ledger" /\ Ledger!Next /\ UNCHANGED vars

SharedSpec == SharedInit /\ [][SharedNext]_<<part, vars, ledgerVars>>

-----------------------------------------------------------------------------
(* The properties of the counters, where they are what runs. *)

\* Through the relay every soul, fish and tear is counted once at every player,
\* a named reward gives one slot or item to each, a wallet total that came from
\* another player is not sent on, counts stay within what the game stores, and no
\* pickup is mistaken for an old one, across the sessions of its sender.
CountersSafety ==
  part = "ledger" =>
    /\ Ledger!TypeOK /\ Ledger!CountsExact /\ Ledger!NamedOnce /\ Ledger!EchoFree
    /\ Ledger!PickupsCounted
=============================================================================
