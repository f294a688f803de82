----------------------------- MODULE Addresses -----------------------------
(***************************************************************************)
(* Addresses of accounts and of validators, and resource identifiers       *)
(* (packages/account): how they are written in bech32 and read again.      *)
(*                                                                         *)
(* Text is the parts of the human readable part, the data after it, the    *)
(* case of its letters and whether its checksum is right. Data is an       *)
(* optional version byte and a payload.                                    *)
(***************************************************************************)
EXTENDS EllipticCurve, Integers, Sequences, FiniteSets

HRP ==
  [mainnet      |-> [account |-> "rdx",  validator |-> "rv",  rri |-> "rr"],
   stokenet     |-> [account |-> "tdx",  validator |-> "tv",  rri |-> "tr"],
   localnet     |-> [account |-> "ddx",  validator |-> "dv",  rri |-> "dr"],
   releasenet   |-> [account |-> "tdx3", validator |-> "tv3", rri |-> "tr3"],
   rcnet        |-> [account |-> "tdx4", validator |-> "tv4", rri |-> "tr4"],
   milestonenet |-> [account |-> "tdx5", validator |-> "tv5", rri |-> "tr5"],
   testnet6     |-> [account |-> "tdx6", validator |-> "tv6", rri |-> "tr6"],
   sandpitnet   |-> [account |-> "tdx7", validator |-> "tv7", rri |-> "tr7"]]

Network == DOMAIN HRP

\* The networks with this human readable part for the kind of address, or with
\* this suffix of it for resources.
NetworksFromHRP(kind, hrp) == {network \in Network : HRP[network][kind] = hrp}

NetworksFromHRPSuffix(suffix) == {network \in Network : HRP[network].rri = suffix}

NoVersion == 0
NoPayload == [kind |-> "none"]
Key(key)  == [kind |-> "key", key |-> key]
Hash(publicKey, name) == [kind |-> "hash", publicKey |-> publicKey, name |-> name]

Data(version, payload) == [version |-> version, payload |-> payload]

Text(hrp, data) == [hrp |-> hrp, data |-> data, case |-> "lower", checksum |-> TRUE]

\* The bech32 library takes lower and upper case, and not both.
Decodes(text) == text.checksum /\ text.case # "mixed"

-----------------------------------------------------------------------------
(* Addresses of accounts and validators.                                   *)

\* Only that of an account starts with a version byte.
VersionByte == [account |-> 4, validator |-> NoVersion]

\* A slip: the text is for MAINNET whatever the network.
ByBech32ConvertingForMainnet(kind, publicKey, network) ==
  [kind |-> kind, network |-> network, publicKey |-> publicKey,
   text |-> Text(<<HRP.mainnet[kind]>>, Data(VersionByte[kind], Key(publicKey)))]

ByBech32ConvertingIt(kind, publicKey, network) ==
  [kind |-> kind, network |-> network, publicKey |-> publicKey,
   text |-> Text(<<HRP[network][kind]>>, Data(VersionByte[kind], Key(publicKey)))]

AccountAddress(publicKey, network)   == ByBech32ConvertingIt("account", publicKey, network)
ValidatorAddress(publicKey, network) == ByBech32ConvertingIt("validator", publicKey, network)

HoldsKey(kind, data) ==
  /\ data.version = VersionByte[kind]
  /\ data.payload.kind = "key" /\ IsPublicKey(data.payload.key)

\* What a text is read as, or nothing.
AddressesFromString(kind, text) ==
  IF Decodes(text) /\ Len(text.hrp) = 1 /\ HoldsKey(kind, text.data)
  THEN {[kind |-> kind, network |-> network, publicKey |-> text.data.payload.key,
         text |-> [text EXCEPT !.case = "lower"]]
          : network \in NetworksFromHRP(kind, text.hrp[1])}
  ELSE {}

\* Bytes do not tell the network: it is taken to be MAINNET. The version byte
\* of accounts is cut off for validators too.
KeysInBuffer(data) ==
  IF /\ data.version \in {NoVersion, VersionByte["account"]}
     /\ data.payload.kind = "key" /\ IsPublicKey(data.payload.key)
  THEN {data.payload.key} ELSE {}

AccountAddressesFromBuffer(data) ==
  {AccountAddress(publicKey, "mainnet") : publicKey \in KeysInBuffer(data)}

ValidatorAddressesFromBuffer(data) ==
  {ValidatorAddress(publicKey, "mainnet") : publicKey \in KeysInBuffer(data)}

SameAddress(one, other) ==
  /\ one.kind = other.kind /\ one.network = other.network
  /\ one.publicKey = other.publicKey

-----------------------------------------------------------------------------
(* Resource identifiers. A name is legal or not, and has a length.         *)

NativeToken    == 1
NonNativeToken == 3

\* No limit is given to the bech32 library, whose own is 90 characters: the
\* human readable part, a separator, five bits to a character, the checksum.
Fits(name, network, payload) ==
  LET bytes  == IF payload.kind = "hash" THEN 27 ELSE 1
      suffix == IF network \in {"mainnet", "stokenet", "localnet"} THEN 3 ELSE 4
  IN  name.length + suffix + 1 + (8 * bytes + 4) \div 5 + 6 <= 90

\* The hash of what is created is without the version byte.
WithNameRawDataAndVersionByte(name, network, version, payload) ==
  IF name.legal /\ Fits(name, network, payload)
  THEN {[name |-> name, network |-> network, hash |-> Data(NoVersion, payload),
         text |-> Text(<<name, HRP[network].rri>>, Data(version, payload))]}
  ELSE {}

SystemRRIForNetwork(name, network) ==
  WithNameRawDataAndVersionByte(name, network, NativeToken, NoPayload)

FromPublicKeyAndNameAndNetwork(publicKey, name, network) ==
  WithNameRawDataAndVersionByte(name, network, NonNativeToken, Hash(publicKey, name))

\* The hash of what is read is with it, and the text is kept as it is. Parts of
\* the name after a second underscore are passed over.
RRIsFromBech32String(text) ==
  IF /\ Decodes(text) /\ Len(text.hrp) >= 2 /\ text.hrp[1].legal
     /\ NetworksFromHRPSuffix(text.hrp[Len(text.hrp)]) # {}
     /\ \/ text.data.version = NativeToken /\ text.data.payload = NoPayload
        \/ text.data.version = NonNativeToken /\ text.data.payload.kind # "none"
  THEN {[name |-> text.hrp[1], network |-> network, hash |-> text.data, text |-> text]
          : network \in NetworksFromHRPSuffix(text.hrp[2])}
  ELSE {}

\* If the two are written otherwise too, equals throws.
SameRRI(one, other) ==
  one.name = other.name /\ one.network = other.network /\ one.hash = other.hash
=============================================================================
