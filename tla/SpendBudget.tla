---------------------------- MODULE SpendBudget ----------------------------
(***************************************************************************)
(* What the daily cap promises, independently of how a wallet goes about   *)
(* it: a budget of Cap per window of Length seconds.  A spend happens in   *)
(* one step, at a moment when the budget covers it, in unbounded           *)
(* arithmetic.  A window opens with the first spend made after the         *)
(* previous one has run out.  Forgetting is what a restart does.           *)
(***************************************************************************)
EXTENDS Integers

CONSTANTS
  Cap,      \* what a window may spend
  Length,   \* how long a window lasts
  Amounts,  \* amounts that are spent
  Times     \* times at which they are

VARIABLES now,     \* the time at which the next spend is made
          opened,  \* when the current window opened
          used     \* what has been spent in it

budget == <<opened, used>>

Init == now \in Times /\ opened = 0 /\ used = 0

(* A spend inside the current window.                                      *)
SpendInWindow(amount) ==
  /\ now < opened + Length
  /\ used + amount <= Cap
  /\ used' = used + amount
  /\ UNCHANGED opened

(* The first spend of a new window.                                        *)
SpendInNewWindow(amount) ==
  /\ now >= opened + Length
  /\ amount <= Cap
  /\ used' = amount
  /\ opened' = now

Forget == opened' = 0 /\ used' = 0

(* Time is not the budget's to say: it may be anything after any step.     *)
Next ==
  /\ now' \in Times
  /\ \/ \E amount \in Amounts : SpendInWindow(amount) \/ SpendInNewWindow(amount)
     \/ Forget
     \/ UNCHANGED budget

Spec == Init /\ [][Next]_<<now, budget>>
=============================================================================
