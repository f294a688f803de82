----------------------------- MODULE MCCustody -----------------------------
(* A small instance of Custody for TLC, with 2^31 scaled down. *)
EXTENDS Custody

CONSTANTS entropy1, entropy2, password1, password2

Typed(prefix, components) == [prefix |-> prefix, components |-> components]

\* As it should be, and in ways that are read though they are sloppy: another
\* change, a last component that is not hardened, is below 0, is marked twice
\* or is followed by something. Then what is refused.
SomePaths ==
  LET Radix(change, last) ==
        Typed("m/", <<Hardened(44), Hardened(1022), Hardened(0), change, last>>)
  IN  {Radix(Plain(1), Hardened(0)), Radix(Plain(0), Plain(1)), Radix(Plain(0), Hardened(0 - 1)),
       Radix(Plain(0), ComponentText(1, 2, "none")), Radix(Plain(0), ComponentText(1, 1, "after")),
       Radix(Hardened(0), Hardened(0)), Radix(Plain(0), Plain(NoNumber)),
       Radix(Plain(0), Plain(HardenedIncrement)),
       Typed("", <<>>), Typed("M/", <<Hardened(44), Hardened(536), Hardened(0), Plain(0), Plain(0)>>)}

SomeEntropies == {[id |-> id, length |-> 16] : id \in {entropy1, entropy2}}
SomePasswords == {password1, password2}
Symmetric == Permutations({entropy1, entropy2}) \cup Permutations(SomePasswords)

SomeNames == {[legal |-> TRUE, length |-> 3], [legal |-> FALSE, length |-> 3]}
SomeTexts == {[id |-> 1, length |-> 192], [id |-> 2, length |-> 193]}
=============================================================================
