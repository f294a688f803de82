------------------------- MODULE MCSigningKeychain -------------------------
(* Small instances of SigningKeychain for TLC.                             *)
EXTENDS SigningKeychain

NoPaths == {}
NoForeignKeys == {}

\* A hardened path that 'next' reaches too, and an unhardened one.
ExplicitPaths == {<<1, TRUE>>, <<0, FALSE>>}

\* A key of another keychain, at a path this keychain uses too.
ForeignLocalKey == {[kind |-> "local", pathOrName |-> <<0, TRUE>>, owner |-> "otherMnemonic"]}
=============================================================================
