---------------------------- MODULE MC_Background ----------------------------
(* Small instances of what reads and writes files behind the screen: the jobs *)
(* (Jobs) and the saving of statements, clauses and snippets (Journal). The   *)
(* modules share no variable. A behaviour is of one part and the other stays  *)
(* as it starts, so a run explores the sum of their states.                   *)
EXTENDS Jobs, Journal, TLC
VARIABLE part

BackgroundInit ==
  /\ part \in {"jobs", "journal"}
  /\ Init /\ JournalInit
  /\ part # "journal" => kind = "history" /\ file.lines = <<>>
BackgroundNext ==
  /\ UNCHANGED part
  /\ \/ part = "jobs" /\ Next /\ UNCHANGED journalVars
     \/ part = "journal" /\ JournalNext /\ UNCHANGED vars
BackgroundSpec == BackgroundInit /\ [][BackgroundNext]_<<part, vars, journalVars>>
=============================================================================
