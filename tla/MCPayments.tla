------------------------------ MODULE MCPayments ------------------------------
(* Instances of Payments for TLC: calls named after what they ask for.       *)
EXTENDS Payments

CONSTANTS
  alice, bob,          \* users, and their wallets
  in, inAgain,         \* a cash-in; another one with the same reference
  inRetry,             \* the retry of the other one
  out, retry,          \* a cash-out and its retry, under one key
  out2, changed,       \* a second cash-out; other contents under its key
  give, giveBack,      \* transfers in opposite directions
  reused               \* a transfer under the key of the cash-in

Ask(op, user, to, key, amount, ref, phone) ==
  [op |-> op, user |-> user, key |-> key,
   body |-> [wallet |-> user, to |-> to, amount |-> amount, ref |-> ref, phone |-> phone]]

\* Keys and references are numbers, phones are the users'.
Contents ==
  [c \in Calls |->
     CASE c = in -> Ask("CASHIN", alice, alice, 1, 2, 1, alice)
       [] c \in {inAgain, inRetry} -> Ask("CASHIN", alice, alice, 2, 2, 1, alice)
       [] c \in {out, retry} -> Ask("CASHOUT", alice, alice, 3, 2, 2, alice)
       [] c = out2 -> Ask("CASHOUT", alice, alice, 4, 1, None, bob)
       [] c = changed -> Ask("CASHOUT", alice, alice, 4, 2, None, bob)
       [] c = give -> Ask("P2P", alice, bob, 5, 1, None, None)
       [] c = giveBack -> Ask("P2P", bob, alice, 6, 1, None, None)
       [] c = reused -> Ask("P2P", alice, bob, 1, 1, None, None)]

SmallChange == [w \in Wallets |-> 3]
NoLimits == [o \in Ops |-> 0]
CashOutFee == [o \in Ops |-> IF o = "CASHOUT" THEN 1 ELSE 0]
Generous == [o \in Ops |-> 100]
Tight == [o \in Ops |-> 4]
AtMostThree == [o \in Ops |-> IF o = "P2P" THEN 0 ELSE 3]
=============================================================================
