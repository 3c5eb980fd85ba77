---------------------------- MODULE BlindLedger ----------------------------
(***************************************************************************)
(* What the confidential ledger promises, independently of ciphertexts,    *)
(* keys and byte buffers: accounts are opened once, amounts move between   *)
(* two accounts and only if the first one covers them, and what is saved   *)
(* is what is later reloaded.                                              *)
(***************************************************************************)
EXTENDS Integers

CONSTANTS
  Accounts,  \* names of accounts
  Amounts,   \* amounts that are held and moved
  Unusable   \* the content of an account that holds no amount

VARIABLES held,   \* what each open account holds
          saved   \* the states that have been saved

NoAccounts == [a \in {} |-> 0]

Init == held = NoAccounts /\ saved = {}

Open(a, content) ==
  /\ a \notin DOMAIN held
  /\ held' = [b \in DOMAIN held \cup {a} |-> IF b = a THEN content ELSE held[b]]
  /\ UNCHANGED saved

Move(from, to, amount) ==
  /\ from # to
  /\ from \in DOMAIN held /\ to \in DOMAIN held
  /\ held[from] # Unusable /\ held[to] # Unusable
  /\ amount <= held[from]
  /\ held' = [held EXCEPT ![from] = @ - amount, ![to] = @ + amount]
  /\ UNCHANGED saved

(* A saved state may also be lost.                                         *)
Save == saved' \in SUBSET (saved \cup {held}) /\ UNCHANGED held

Reload ==
  /\ held' \in saved \cup {NoAccounts}
  /\ saved' \in SUBSET saved

Next ==
  \/ \E a \in Accounts, content \in Amounts \cup {Unusable} : Open(a, content)
  \/ \E from \in Accounts, to \in Accounts, amount \in Amounts : Move(from, to, amount)
  \/ Save
  \/ Reload

Spec == Init /\ [][Next]_<<held, saved>>
=============================================================================
