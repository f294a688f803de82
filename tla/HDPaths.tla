------------------------------ MODULE HDPaths ------------------------------
(***************************************************************************)
(* Derivation paths (packages/crypto, hd/bip32): how the text of a path is *)
(* read, what a path is written as, and the key that hdkey, which is given *)
(* the text, derives.                                                      *)
(***************************************************************************)
EXTENDS Integers, Sequences, SequencesExt

CONSTANTS
  HardenedIncrement,  \* 2^31
  NoNumber            \* what parseInt makes of a component that starts with no number

ASSUME PathsAssumption ==
  /\ HardenedIncrement \in Nat
  /\ HardenedIncrement > 1022
  /\ NoNumber \notin Int

RADIX_COIN_TYPE == 1022
Purpose         == 44

-----------------------------------------------------------------------------
(* Components. Of its text parseInt reads the number at the start; marks   *)
(* are the hardeners, and junk what comes before or after them.            *)

ComponentText(number, marks, junk) == [number |-> number, marks |-> marks, junk |-> junk]

Plain(number)    == ComponentText(number, 0, "none")
Hardened(number) == ComponentText(number, 1, "none")

Component(value, isHardened) ==
  [value |-> value, isHardened |-> isHardened,
   index |-> IF isHardened THEN value + HardenedIncrement ELSE value]

\* The component ends with a hardener, whatever else it holds.
EndsWithHardener(text) == text.marks > 0 /\ text.junk # "after"

ComponentIsRead(text) == text.number # NoNumber /\ text.number < HardenedIncrement

ReadComponent(text) == Component(text.number, EndsWithHardener(text))

\* A slip: the hardener is not written.
WriteUnmarked(component) == Plain(component.value)

WriteComponent(component) ==
  IF component.isHardened THEN Hardened(component.value) ELSE Plain(component.value)

-----------------------------------------------------------------------------
(* Paths. A text is its components after the optional "m/" or "M/"; blank  *)
(* ones are written "", "m" or "/". A path is a sequence of components.    *)

BIP32IsRead(text) ==
  /\ text.components = <<>> => text.prefix = ""
  /\ \A i \in DOMAIN text.components : ComponentIsRead(text.components[i])

BIP32FromString(text) == [i \in DOMAIN text.components |-> ReadComponent(text.components[i])]

PathToString(path) ==
  [prefix |-> "m/", components |-> [i \in DOMAIN path |-> WriteComponent(path[i])]]

\* A component is checked for its index only where one is expected that is not
\* 0: the change may be any, and the last component is not looked at.
BIP44IsRead(text) ==
  LET path == BIP32FromString(text)
  IN  /\ BIP32IsRead(text)
      /\ Len(path) = 5
      /\ path[1] = Component(Purpose, TRUE)
      /\ path[2].isHardened /\ path[3].isHardened /\ ~path[4].isHardened

\* The coin type is that of Radix, and its index that of a hardened one.
RadixPathIsRead(text) ==
  /\ BIP44IsRead(text)
  /\ LET coinType == BIP32FromString(text)[2]
     IN  coinType.index >= HardenedIncrement
         /\ coinType.index - HardenedIncrement = RADIX_COIN_TYPE

\* HDPathRadix.create, which throws for numbers that are too large.
CreateRadixPath(account, change, address, isHardened) ==
  <<Component(Purpose, TRUE), Component(RADIX_COIN_TYPE, TRUE), Component(account, TRUE),
    Component(change, FALSE), Component(address, isHardened)>>

-----------------------------------------------------------------------------
(* hdkey reads the text of the path: the child numbers it derives.         *)

ChildNumber(text) == text.number + (IF EndsWithHardener(text) THEN HardenedIncrement ELSE 0)

Children(path) ==
  LET text == PathToString(path) IN [i \in DOMAIN path |-> ChildNumber(text.components[i])]

\* It throws for a number below 0.
Derivable(path) == \A i \in DOMAIN path : Children(path)[i] >= 0
=============================================================================
