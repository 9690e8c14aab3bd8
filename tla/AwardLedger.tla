----------------------------- MODULE AwardLedger -----------------------------
(***************************************************************************)
(* What the submission flow promises about XP, with no transactions, rows  *)
(* or locks: a prize is priced once, it is in its owner's balance or it is *)
(* not, it can be taken back and given again but never twice in a row, and *)
(* nothing but a prize or an administrator moves a balance.                *)
(***************************************************************************)
EXTENDS Integers

CONSTANTS Users, Prizes, Owner

VARIABLES
  price,    \* what a prize is worth, Unpriced until it is won
  paid,     \* the prizes that are in their owner's balance
  balance   \* [xp, completed] of each user

Unpriced == -1

ledger == <<price, paid, balance>>

Less(m, n) == IF n <= m THEN m - n ELSE 0

Init ==
  /\ price = [z \in Prizes |-> Unpriced]
  /\ paid = {}
  /\ balance = [u \in Users |-> [xp |-> 0, completed |-> 0]]

Pay(z, amount) ==
  /\ z \notin paid
  /\ paid' = paid \cup {z}
  /\ balance' = [balance EXCEPT ![Owner[z]] =
                   [xp |-> @.xp + amount, completed |-> @.completed + 1]]

\* A prize is won once, at a price that stays.
Win(z) ==
  /\ price[z] = Unpriced
  /\ price'[z] \in Nat
  /\ price' = [price EXCEPT ![z] = price'[z]]
  /\ Pay(z, price'[z])

\* The post is gone: what was paid for it leaves the balance.
Revoke(z) ==
  /\ z \in paid
  /\ paid' = paid \ {z}
  /\ balance' = [balance EXCEPT ![Owner[z]] =
                   [xp |-> Less(@.xp, price[z]), completed |-> Less(@.completed, 1)]]
  /\ UNCHANGED price

\* The post is back: the same amount returns.
Reinstate(z) ==
  /\ price[z] # Unpriced
  /\ Pay(z, price[z])
  /\ UNCHANGED price

\* An administrator writes another balance for one user.
Override(u) ==
  /\ balance'[u] \in [xp: Nat, completed: Nat]
  /\ balance' = [balance EXCEPT ![u] = balance'[u]]
  /\ UNCHANGED <<price, paid>>

Next ==
  \/ \E z \in Prizes : Win(z) \/ Revoke(z) \/ Reinstate(z)
  \/ \E u \in Users : Override(u)

Spec == Init /\ [][Next]_ledger

=============================================================================
