--------------------------- MODULE CaptureScopes ----------------------------
(***************************************************************************)
(* The changes of engine state that a capture owns: the registry they are  *)
(* armed in, the player's body root (armed there as M3PlayerInclusion when *)
(* the data is loaded), and the mirror item.  The two scopes are nested    *)
(* and share no state but g_faulted, which the item's scope keeps; so a    *)
(* behaviour follows the registry, the player or the item.                 *)
(***************************************************************************)
EXTENDS LeaseRegistry, PlayerInclusion, ItemSuppression

CONSTANTS PlayerName,  \* "M3PlayerInclusion"
          PlayerFamily \* kPlayerRoot

ASSUME PlayerLeaseConstants == PlayerName \in Names /\ PlayerFamily \in Families

VARIABLE part \* what the behaviour follows

scopesVars == <<part, vars, playerVars, itemVars>>

ScopesInit ==
  /\ part \in {"registry", "player", "item"}
  /\ Init /\ PlayerInit /\ ItemInit

PlayerLease == [name |-> PlayerName, family |-> PlayerFamily, maturity |-> "runtime-proven"]

\* OnDataLoaded: player inclusion is on once its lease is armed.
DataLoaded == TryArm(PlayerLease) /\ UNCHANGED playerVars

ScopesNext ==
  \/ part = "registry" /\ Next /\ UNCHANGED <<part, playerVars, itemVars>>
  \/ /\ part = "player"
     /\ \/ DataLoaded
        \/ PlayerLease \in armed /\ PlayerNext /\ UNCHANGED vars
     /\ UNCHANGED <<part, itemVars>>
  \/ part = "item" /\ ItemNext /\ UNCHANGED <<part, vars, playerVars>>

\* The game returns to its fence every frame, so a pending ticket is tried for
\* ever, and the write is not refused for ever.
FenceRestores == FenceRecovers /\ ticket' = NoTicket
CaptureGoesOn == lease.at # "none" /\ ItemNext /\ lease'.at # lease.at

ScopesFairness ==
  /\ SF_scopesVars(part = "item" /\ FenceRestores /\ UNCHANGED <<part, vars, playerVars>>)
  /\ WF_scopesVars(part = "item" /\ CaptureGoesOn /\ UNCHANGED <<part, vars, playerVars>>)

ScopesSpec == ScopesInit /\ [][ScopesNext]_scopesVars /\ ScopesFairness
=============================================================================
