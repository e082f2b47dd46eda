---------------------------- MODULE PaymentClaims ----------------------------
(* What the schema, the response models and the tests say of payments, and   *)
(* the code does not keep.                                                   *)
EXTENDS MCPayments

\* A wallet is never debited beyond its balance: the posting functions raise
\* 'Insufficient funds' (db/schema_v1.sql:802-804, tests/test_p2p.py:109).
DebitsAreCovered == \A w \in Wallets : balance[w] >= 0

\* A cash-in answered with success names its transaction
\* (schemas.py:66-68, TxnResponse.transaction_id).
SuccessNamesATransaction ==
  \A c \in Calls : Op(c) = "CASHIN" /\ reply[c].code = "ok" => reply[c].txn # None
=============================================================================
