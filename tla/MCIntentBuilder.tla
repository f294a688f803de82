---------------------------- MODULE MCIntentBuilder ----------------------------
(* Small instances of IntentBuilder for TLC.                               *)
EXTENDS IntentBuilder

\* No account is named anywhere in the module.
AnyAccount == Permutations(Accounts)
=============================================================================
