----------------------------- MODULE SerialBank -----------------------------
(***************************************************************************)
(* What the payment lifecycle promises: a bank that decides one accepted   *)
(* payment at a time, in a single step that checks the debtor's funds,     *)
(* moves the money and leaves the entries and notices of the decision.     *)
(* No sessions, no snapshots, no scheduler, no crashes.                    *)
(***************************************************************************)
EXTENDS Integers

CONSTANTS Payments, Accounts, Debtor, Creditor, Amount, Matching, Opening, Blocked,
          Subscribed

VARIABLES instr, balance, effects

bank == <<instr, balance, effects>>

Kinds == {"debit", "credit", "settled", "rejected", "credited"}

Init ==
    /\ instr = [p \in Payments |-> "none"]
    /\ balance = Opening
    /\ effects = [q \in Payments \X Kinds |-> 0]

Leaves(p, K) == effects' = [q \in Payments \X Kinds |->
                               IF q[1] = p /\ q[2] \in K THEN 1 ELSE effects[q]]

Accept(p) ==
    /\ instr[p] = "none"
    /\ instr' = [instr EXCEPT ![p] = "accepted"]
    /\ UNCHANGED <<balance, effects>>

CanPay(p) == Debtor[p] \notin Blocked /\ balance[Debtor[p]] >= Amount[p]

Reject(p) ==
    /\ instr[p] = "accepted"
    /\ ~CanPay(p)
    /\ instr' = [instr EXCEPT ![p] = "rejected"]
    /\ Leaves(p, Subscribed \cap {"rejected"})
    /\ UNCHANGED balance

Moved(p, a) == (IF a = Creditor[p] THEN Amount[p] ELSE 0)
             - (IF a = Debtor[p] THEN Amount[p] ELSE 0)

Settle(p) ==
    /\ instr[p] = "accepted"
    /\ CanPay(p)
    /\ p \in Matching
    /\ instr' = [instr EXCEPT ![p] = "settled"]
    /\ balance' = [a \in Accounts |-> balance[a] + Moved(p, a)]
    /\ Leaves(p, {"debit"} \cup (Subscribed \cap {"settled"})
                 \cup (IF Creditor[p] \in Accounts
                       THEN {"credit"} \cup (Subscribed \cap {"credited"}) ELSE {}))

Next == \E p \in Payments : Accept(p) \/ Reject(p) \/ Settle(p)

Spec == Init /\ [][Next]_bank
=============================================================================
