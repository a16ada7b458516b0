------------------------------- MODULE MC_Ends -------------------------------
(* Small instances of what has to come to an end under the fairness of the    *)
(* scheduler: the calls of the editor's transaction, with the engine          *)
(* behaviours its monitors cannot see (InteractiveTx), and the goroutines of  *)
(* a tunnel (Tunnel). The modules share no variable. A behaviour is of one    *)
(* part and the other stays as it starts, so a run explores the sum of their  *)
(* states; no step that fairness is about is enabled where a part starts.     *)
EXTENDS MC_InteractiveTx, Tunnel
VARIABLE part

EndsInit == part \in {"tx", "tunnel"} /\ Init /\ TunnelInit /\ (part # "tx" => engine = "postgres")
EndsNext ==
  /\ UNCHANGED part
  /\ \/ part = "tx" /\ Next /\ UNCHANGED tunnelVars
     \/ part = "tunnel" /\ TunnelNext /\ UNCHANGED vars
EndsSpec == EndsInit /\ [][EndsNext]_<<part, vars, tunnelVars>> /\ Fairness /\ TunnelFairness
=============================================================================
