------------------------------ MODULE TxContract ------------------------------
(***************************************************************************)
(* What a session promises about the editor's transactions, without its    *)
(* goroutines, locks and connections: at most one is undecided at a time,   *)
(* each is decided once, and what the caller is told is true. A handle is   *)
(* told "committed" only after the server committed, and "closed" only once *)
(* nothing is left undecided.                                              *)
(***************************************************************************)
CONSTANT Handles

VARIABLES
  tx,    \* "none", "undecided", "committed", "rolledBack"
  told   \* "none", "committed", "closed"

Init ==
  /\ tx = [h \in Handles |-> "none"]
  /\ told = [h \in Handles |-> "none"]

\* A transaction starts when no other is undecided.
Open(h) ==
  /\ tx[h] = "none" /\ \A g \in Handles : tx[g] # "undecided"
  /\ tx' = [tx EXCEPT ![h] = "undecided"]
  /\ UNCHANGED told

\* The server decides it, once.
Decide(h) ==
  /\ tx[h] = "undecided"
  /\ \E o \in {"committed", "rolledBack"} : tx' = [tx EXCEPT ![h] = o]
  /\ UNCHANGED told

TellCommitted(h) ==
  /\ tx[h] = "committed" /\ told[h] = "none"
  /\ told' = [told EXCEPT ![h] = "committed"]
  /\ UNCHANGED tx

\* Giving the handle up ends what is still undecided.
TellClosed(h) ==
  /\ tx[h] # "none" /\ told[h] = "none"
  /\ told' = [told EXCEPT ![h] = "closed"]
  /\ tx' = [tx EXCEPT ![h] = IF @ = "undecided" THEN "rolledBack" ELSE @]

Next == \E h \in Handles : Open(h) \/ Decide(h) \/ TellCommitted(h) \/ TellClosed(h)

Spec == Init /\ [][Next]_<<tx, told>>
=============================================================================
