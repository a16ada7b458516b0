------------------------------- MODULE MC_Kept -------------------------------
(* Small instances of the connections and tunnels (Connections) and of the    *)
(* profiles they are opened from, with their secrets (Profiles). The modules  *)
(* share no variable. A behaviour is of one part and the other stays as it    *)
(* starts, so a run explores the sum of their states.                         *)
EXTENDS Connections, Profiles, TLC
VARIABLE part

KeptInit ==
  /\ part \in {"connections", "profiles"}
  /\ ConnInit /\ ProfilesInit
  /\ part # "connections" => (\A r \in Rows : saved[r] = "ask") /\ restoring = "" /\ known = {}
  /\ part # "profiles" => keyring
KeptNext ==
  /\ UNCHANGED part
  /\ \/ part = "connections" /\ ConnNext /\ UNCHANGED profileVars
     \/ part = "profiles" /\ ProfilesNext /\ UNCHANGED connVars
KeptSpec == KeptInit /\ [][KeptNext]_<<part, connVars, profileVars>>

Symmetry == Permutations(Rows) \cup Permutations(HostKeys)
=============================================================================
