------------------------------- MODULE MCBundle -------------------------------
(* Instances of the installer and the loader for TLC: three archives, two of *)
(* them with the same libraries and different notices.                       *)
EXTENDS BundleLoader, TLC

CONSTANTS a, b, c, reviewed, later

NativesOfBundles == a :> reviewed @@ b :> reviewed @@ c :> later
NoticesOfBundles == a :> {"LICENSE"} @@ b :> {"NOTICE"} @@ c :> {"LICENSE"}

\* Two installers at most, with a VM over their work and damage; or a crashed one and two more.
TwoOrCrashed ==
  \/ Cardinality({i \in Installers : installer[i] # "idle"}) <= 2
  \/ /\ \E i \in Installers : installer[i] = "dead"
     /\ \A v \in Boots : boot[v] = "down"
     /\ damages = 0

Symmetry == Permutations(Installers)
=============================================================================
