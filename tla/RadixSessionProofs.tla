------------------------- MODULE RadixSessionProofs -------------------------
(***************************************************************************)
(* Theorems about RadixSession, for any nodes and networks, and any number *)
(* of calls of connect and login and of keys.                              *)
(***************************************************************************)
EXTENDS RadixSession, SequenceTheorems, WellFoundedInduction, TLAPS

-----------------------------------------------------------------------------
(* The invariant.                                                          *)

WalletRecord == [login : 1..MaxLogins, network : Networks]

FetchRecord ==
  [state : {"asked", "answered", "failed"}, address : AccountRecord, node : 1..MaxConnects]

TypesOK == TypeOK /\ Len(nodes) <= MaxConnects /\ Len(logins) <= MaxLogins

Opened(l) == l \in DOMAIN logins /\ logins[l] = "opened"

\* A call of connect was made to a node there is, and knows a network once the
\* node has answered; a keychain that was opened has an active key.
ConnectOK(c) ==
  /\ connects[c].since <= Len(nodes)
  /\ connects[c].state \in {"nativeToken", "connected"} => connects[c].network \in Networks

CallsOK ==
  /\ \A c \in DOMAIN connects : ConnectOK(c)
  /\ \A l \in DOMAIN logins : logins[l] = "opened" => activeKey[l] \in Keys

\* Each login subscribes once, and the one remembered is the last to have.
SubscribersOK ==
  /\ \A i \in DOMAIN subscribers : Opened(subscribers[i])
  /\ \A i, j \in DOMAIN subscribers : subscribers[i] = subscribers[j] => i = j
  /\ \A i \in DOMAIN subscribers : subscribers[i] = walletSubscription => i = Len(subscribers)

\* Wallets need a login and a network, and derivations a wallet.
WalletsOK ==
  /\ \A i \in DOMAIN wallets : Opened(wallets[i].login)
  /\ wallets # <<>> => networks # <<>>
  /\ networks # <<>> => nodes # <<>>
  /\ Len(derivations) <= Len(wallets)
  /\ deriving = "subscribed" => Len(derivations) = Len(wallets)
  /\ WalletIsCurrent

\* There is an active account from the first wallet on, and it is of a wallet.
ActiveOK ==
  /\ wallets # <<>> => active # None
  /\ active # None => WalletsOf(active.login) # {}
  /\ ActiveAccountIsCurrent

\* A caller who waits has at most one login and one connect under way, the last
\* ones; the login subscribes alone, and the connect asks the last node only.
OneLogin ==
  /\ \A l \in DOMAIN logins : logins[l] = "decrypting" => l = Len(logins)
  /\ subscribers = IF logins # <<>> /\ Last(logins) = "opened" THEN <<Len(logins)>> ELSE <<>>
  /\ subscribers # <<>> => walletSubscription = Len(logins)

OneConnect ==
  /\ \A c \in DOMAIN connects :
       connects[c].state \in {"networkId", "nativeToken"} =>
         c = Len(connects) /\ connects[c].since = Len(connects)
  /\ connects # <<>> =>
       /\ Last(connects).state \in {"nativeToken", "connected"}
            => Last(connects).network = NetworkOf[Last(nodes)]
       /\ Last(connects).state = "connected"
            => networks # <<>> /\ Last(networks) = Last(connects).network

WaitingOK == waits => OneLogin /\ OneConnect

SessionInv ==
  /\ TypesOK
  /\ CallsOK
  /\ SubscribersOK
  /\ WalletsOK
  /\ ActiveOK
  /\ BalancesFollowActiveAccount
  /\ WaitingOK

-----------------------------------------------------------------------------
(* Positions and sequences.                                                *)

\* A bounded set of positions has a last one.
LEMMA LastPosition ==
  ASSUME NEW n \in Nat, NEW positions, positions \subseteq 1..n, positions # {}
  PROVE  \E i \in positions : \A j \in positions : j <= i
<1> DEFINE less == OpToRel(<, Nat)
           fromEnd == {n - i : i \in positions}
<1>1. fromEnd \subseteq Nat /\ fromEnd # {}
  <2>1. \A i \in positions : n - i \in Nat
    OBVIOUS
  <2> QED
    BY <2>1
<1>2. IsWellFoundedOn(less, Nat)
  BY NatLessThanWellFounded
<1>3. \A a, b \in Nat : <<a, b>> \in less <=> a < b
  BY DEF OpToRel
<1> HIDE DEF less, fromEnd
<1>4. PICK a \in fromEnd : \A b \in fromEnd : ~(<<b, a>> \in less)
  BY <1>1, <1>2, WFMin
<1>5. \A b \in fromEnd : ~(b < a)
  BY <1>1, <1>3, <1>4
<1>6. PICK i \in positions : a = n - i
  BY <1>4 DEF fromEnd
<1>7. ASSUME NEW j \in positions PROVE j <= i
  <2>1. n - j \in fromEnd
    BY DEF fromEnd
  <2>2. ~(n - j < n - i)
    BY <2>1, <1>5, <1>6
  <2> QED
    BY <2>2
<1> QED
  BY <1>7

\* The positions of a login's wallets and the last such wallet, of any sequence.
Positions(made, l)  == {i \in DOMAIN made : made[i].login = l}
LastMade(made, l)   == made[Max(Positions(made, l))]

LEMMA LastMadeIs ==
  ASSUME NEW made \in Seq(WalletRecord), NEW l, NEW i \in Positions(made, l),
         \A j \in Positions(made, l) : j <= i
  PROVE  LastMade(made, l) = made[i]
<1>1. \A j \in Positions(made, l) : j \in Nat
  BY LenProperties DEF Positions
<1>2. Max(Positions(made, l)) = i
  <2>1. \E m \in Positions(made, l) : \A j \in Positions(made, l) : m >= j
    BY <1>1
  <2>2. Max(Positions(made, l)) \in Positions(made, l)
        /\ \A j \in Positions(made, l) : Max(Positions(made, l)) >= j
    BY <2>1 DEF Max
  <2> QED
    BY <1>1, <2>2
<1> QED
  BY <1>2 DEF LastMade

LEMMA LastMadeIsOfLogin ==
  ASSUME NEW made \in Seq(WalletRecord), NEW l, Positions(made, l) # {}
  PROVE  LastMade(made, l) \in WalletRecord /\ LastMade(made, l).login = l
<1>1. Positions(made, l) \subseteq 1..Len(made) /\ Len(made) \in Nat
  BY LenProperties DEF Positions
<1>2. PICK i \in Positions(made, l) : \A j \in Positions(made, l) : j <= i
  BY <1>1, LastPosition
<1>3. LastMade(made, l) = made[i]
  BY <1>2, LastMadeIs
<1>4. made[i] \in WalletRecord /\ made[i].login = l
  BY <1>1, ElementOfSeq DEF Positions
<1> QED
  BY <1>3, <1>4

\* A sequence that ends with a wallet has it as the last of its login.
LEMMA LastMadeAtEnd ==
  ASSUME NEW made \in Seq(WalletRecord), made # <<>>
  PROVE  /\ Last(made) \in WalletRecord
         /\ Positions(made, Last(made).login) # {}
         /\ LastMade(made, Last(made).login) = Last(made)
<1>1. Len(made) \in Nat \ {0} /\ DOMAIN made = 1..Len(made)
  BY EmptySeq, LenProperties
<1>2. Len(made) \in Positions(made, Last(made).login)
  BY <1>1 DEF Positions, Last
<1>3. \A j \in Positions(made, Last(made).login) : j <= Len(made)
  BY <1>1 DEF Positions
<1>4. LastMade(made, Last(made).login) = made[Len(made)]
  BY <1>2, <1>3, LastMadeIs
<1> QED
  BY <1>1, <1>2, <1>4, ElementOfSeq DEF Last

LEMMA ConcatLast ==
  ASSUME NEW S, NEW s \in Seq(S), NEW t \in Seq(S), t # <<>>
  PROVE  s \o t \in Seq(S) /\ s \o t # <<>> /\ Last(s \o t) = Last(t)
<1>1. /\ s \o t \in Seq(S) /\ Len(s \o t) = Len(s) + Len(t)
      /\ \A i \in 1..(Len(s) + Len(t)) : (s \o t)[i] = IF i <= Len(s) THEN s[i] ELSE t[i - Len(s)]
  BY ConcatProperties
<1>2. Len(s) \in Nat /\ Len(t) \in Nat \ {0}
  BY EmptySeq, LenProperties
<1>3. (s \o t)[Len(s) + Len(t)] = t[Len(t)]
  BY <1>1, <1>2
<1> QED
  BY <1>1, <1>2, <1>3, EmptySeq DEF Last

\* What stands while a call only waits or fails.
LEMMA WalletsUntouched ==
  ASSUME SubscribersOK, WalletsOK, ActiveOK, BalancesFollowActiveAccount,
         UNCHANGED <<networks, login, active, hardware, fetching>>, nodes # <<>> => nodes' # <<>>
  PROVE  SubscribersOK' /\ WalletsOK' /\ ActiveOK' /\ BalancesFollowActiveAccount'
<1> USE DEF login, hardware, fetching
<1>1. SubscribersOK'
  BY DEF SubscribersOK, Opened
<1>2. WalletsOK'
  BY DEF WalletsOK, Opened, WalletIsCurrent
<1>3. ActiveOK' /\ BalancesFollowActiveAccount'
  BY DEF ActiveOK, ActiveAccountIsCurrent, BalancesFollowActiveAccount, WalletsOf, LastWalletOf
<1> QED
  BY <1>1, <1>2, <1>3

-----------------------------------------------------------------------------
(* Connecting.                                                             *)

LEMMA ConnectStep ==
  ASSUME SessionInv, NEW node \in Nodes, Connect(node)
  PROVE  SessionInv'
<1> DEFINE call == [state |-> "networkId", since |-> Len(nodes) + 1, network |-> "none"]
<1>1. /\ nodes \in Seq(Nodes) /\ connects \in Seq(ConnectRecord)
      /\ Len(nodes) \in Nat /\ Len(connects) = Len(nodes) /\ Len(nodes) < MaxConnects
      /\ MaxConnects \in Nat
  BY LenProperties, SessionAssumption DEF SessionInv, TypesOK, TypeOK, Connect
<1>2. nodes' = Append(nodes, node) /\ connects' = Append(connects, call)
  BY DEF Connect
<1>3. call \in ConnectRecord
  BY <1>1 DEF ConnectRecord
<1>4. /\ nodes' \in Seq(Nodes) /\ nodes' # <<>> /\ Len(nodes') = Len(nodes) + 1
  BY <1>1, <1>2, AppendProperties
<1>5. /\ connects' \in Seq(ConnectRecord) /\ connects' # <<>> /\ Len(connects') = Len(nodes) + 1
      /\ \A c \in 1..Len(nodes) : connects'[c] = connects[c]
      /\ connects'[Len(nodes) + 1] = call
  <2> HIDE DEF call
  <2> QED
    BY <1>1, <1>2, <1>3, AppendProperties
<1>6. DOMAIN connects = 1..Len(nodes) /\ DOMAIN connects' = 1..(Len(nodes) + 1)
  BY <1>1, <1>5, LenProperties
<1>7. TypesOK'
  BY <1>1, <1>4, <1>5 DEF SessionInv, TypesOK, TypeOK, Connect, login, hardware, fetching
<1>8. CallsOK'
  <2>1. ASSUME NEW c \in DOMAIN connects' PROVE ConnectOK(c)'
    <3>1. CASE c = Len(nodes) + 1
      BY <1>1, <1>4, <1>5, <3>1 DEF ConnectOK
    <3>2. CASE c # Len(nodes) + 1
      <4>1. c \in DOMAIN connects /\ connects'[c] = connects[c]
        BY <1>1, <1>5, <1>6, <3>2
      <4>2. connects[c] \in ConnectRecord
        BY <1>1, <1>6, <4>1, ElementOfSeq
      <4>3. connects[c].since <= Len(nodes) /\ connects[c].since \in Nat
        BY <1>1, <4>1, <4>2 DEF SessionInv, CallsOK, ConnectOK, ConnectRecord
      <4> QED
        BY <1>1, <1>4, <4>1, <4>3 DEF SessionInv, CallsOK, ConnectOK
    <3> QED
      BY <3>1, <3>2
  <2> QED
    BY <2>1 DEF SessionInv, CallsOK, Connect, login
<1>9. SubscribersOK' /\ WalletsOK' /\ ActiveOK' /\ BalancesFollowActiveAccount'
  BY <1>4, WalletsUntouched DEF SessionInv, Connect
<1>10. WaitingOK'
  <2>1. waits' = waits /\ networks' = networks /\ logins' = logins /\ subscribers' = subscribers
        /\ walletSubscription' = walletSubscription
    BY DEF Connect, login
  <2>2. ASSUME waits PROVE OneLogin'
    BY <2>1, <2>2 DEF SessionInv, WaitingOK, OneLogin
  <2>3. ASSUME waits PROVE OneConnect'
    <3>1. \A c \in DOMAIN connects : connects[c].state \notin {"networkId", "nativeToken"}
      BY <2>3 DEF Connect, Connecting
    <3>2. ASSUME NEW c \in DOMAIN connects', connects'[c].state \in {"networkId", "nativeToken"}
          PROVE  c = Len(connects') /\ connects'[c].since = Len(connects')
      BY <1>1, <1>5, <1>6, <3>1, <3>2
    <3>3. Last(connects').state = "networkId"
      BY <1>5 DEF Last
    <3> QED
      BY <3>2, <3>3 DEF OneConnect
  <2> QED
    BY <2>1, <2>2, <2>3 DEF WaitingOK
<1> QED
  BY <1>7, <1>8, <1>9, <1>10 DEF SessionInv

\* A call under way is the only one that changes.
LEMMA CallGoesOn ==
  ASSUME SessionInv, NEW c \in DOMAIN connects, NEW call \in ConnectRecord,
         connects' = [connects EXCEPT ![c] = call], UNCHANGED <<nodes, networks, login, waits>>,
         UNCHANGED <<active, hardware, fetching>>,
         connects[c].state \in {"networkId", "nativeToken"}, call.state \in {"nativeToken", "failed"},
         call.since <= Len(nodes),
         call.state = "nativeToken" =>
           /\ call.since = Len(nodes) /\ call.network \in Networks
           /\ waits => call.network = NetworkOf[Last(nodes)]
  PROVE  SessionInv'
<1>1. /\ nodes \in Seq(Nodes) /\ connects \in Seq(ConnectRecord)
      /\ Len(nodes) \in Nat /\ Len(connects) = Len(nodes) /\ DOMAIN connects = 1..Len(nodes)
  BY LenProperties DEF SessionInv, TypesOK, TypeOK
<1>2. /\ connects' \in Seq(ConnectRecord) /\ Len(connects') = Len(nodes)
      /\ DOMAIN connects' = DOMAIN connects
      /\ \A d \in DOMAIN connects : connects'[d] = IF d = c THEN call ELSE connects[d]
  BY <1>1, ExceptSeq
<1>3. TypesOK'
  BY <1>1, <1>2 DEF SessionInv, TypesOK, TypeOK, login, hardware, fetching
<1>4. CallsOK'
  <2>1. ASSUME NEW d \in DOMAIN connects' PROVE ConnectOK(d)'
    BY <1>2 DEF SessionInv, CallsOK, ConnectOK
  <2> QED
    BY <2>1 DEF SessionInv, CallsOK, login
<1>5. SubscribersOK' /\ WalletsOK' /\ ActiveOK' /\ BalancesFollowActiveAccount'
  BY WalletsUntouched DEF SessionInv
<1>6. WaitingOK'
  <2>1. ASSUME waits PROVE OneLogin'
    BY <2>1 DEF SessionInv, WaitingOK, OneLogin, login
  <2>2. ASSUME waits PROVE OneConnect'
    <3>1. c = Len(connects) /\ OneConnect
      BY <2>2 DEF SessionInv, WaitingOK, OneConnect
    <3>2. \A d \in DOMAIN connects :
            connects'[d].state \in {"networkId", "nativeToken"}
              => d = Len(connects') /\ connects'[d].since = Len(connects')
      BY <1>1, <1>2, <3>1 DEF OneConnect
    <3>3. Last(connects') = call /\ Last(nodes') = Last(nodes)
      BY <1>1, <1>2, <3>1 DEF Last
    <3> QED
      BY <1>2, <2>2, <3>2, <3>3 DEF OneConnect
  <2> QED
    BY <2>1, <2>2 DEF WaitingOK
<1> QED
  BY <1>3, <1>4, <1>5, <1>6 DEF SessionInv

LEMMA NetworkIdStep ==
  ASSUME SessionInv, NEW c \in DOMAIN connects, NetworkIdAnswered(c) \/ ConnectFailed(c)
  PROVE  SessionInv'
<1>1. /\ nodes \in Seq(Nodes) /\ connects \in Seq(ConnectRecord)
      /\ Len(nodes) \in Nat /\ Len(connects) = Len(nodes) /\ DOMAIN connects = 1..Len(nodes)
      /\ Len(nodes) <= MaxConnects /\ MaxConnects \in Nat
  BY LenProperties, SessionAssumption DEF SessionInv, TypesOK, TypeOK
<1>2. connects[c] \in ConnectRecord /\ connects[c].since \in 1..Len(nodes)
  <2>1. connects[c] \in ConnectRecord
    BY <1>1, ElementOfSeq
  <2> QED
    BY <1>1, <2>1 DEF SessionInv, CallsOK, ConnectOK, ConnectRecord
<1>3. CASE NetworkIdAnswered(c)
  <2>1. PICK i \in Asked(c) :
          connects' = [connects EXCEPT ![c] = [state |-> "nativeToken", since |-> Len(nodes),
                                               network |-> NetworkOf[nodes[i]]]]
    BY <1>3 DEF NetworkIdAnswered
  <2> DEFINE call == [state |-> "nativeToken", since |-> Len(nodes), network |-> NetworkOf[nodes[i]]]
  <2>2. i \in 1..Len(nodes) /\ i >= connects[c].since
    BY <1>1, <1>2 DEF Asked
  <2>3. NetworkOf[nodes[i]] \in Networks
    BY <1>1, <2>2, ElementOfSeq, SessionAssumption
  <2>4. call \in ConnectRecord
    BY <1>1, <2>2, <2>3 DEF ConnectRecord
  <2>5. ASSUME waits PROVE nodes[i] = Last(nodes)
    <3>1. connects[c].since = Len(nodes)
      BY <1>1, <1>3, <2>5 DEF SessionInv, WaitingOK, OneConnect, NetworkIdAnswered
    <3> QED
      BY <1>1, <2>2, <3>1 DEF Last
  <2>6. connects' = [connects EXCEPT ![c] = call]
    BY <2>1
  <2>7. call.state = "nativeToken" /\ call.since = Len(nodes) /\ call.network = NetworkOf[nodes[i]]
    OBVIOUS
  <2> HIDE DEF call
  <2>8. connects[c].state \in {"networkId", "nativeToken"} /\ call.since <= Len(nodes)
    BY <1>1, <1>3, <2>7 DEF NetworkIdAnswered
  <2>9. UNCHANGED <<nodes, networks, login, waits>> /\ UNCHANGED <<active, hardware, fetching>>
    BY <1>3 DEF NetworkIdAnswered
  <2> QED
    BY <2>3, <2>4, <2>5, <2>6, <2>7, <2>8, <2>9, CallGoesOn
<1>4. CASE ConnectFailed(c)
  <2> DEFINE call == [connects[c] EXCEPT !.state = "failed"]
  <2>1. call \in ConnectRecord /\ call.state = "failed" /\ call.since = connects[c].since
    BY <1>2 DEF ConnectRecord
  <2>2. connects' = [connects EXCEPT ![c] = call]
    BY <1>4 DEF ConnectFailed
  <2> HIDE DEF call
  <2>3. connects[c].state \in {"networkId", "nativeToken"} /\ call.since <= Len(nodes)
    BY <1>2, <1>4, <2>1 DEF ConnectFailed
  <2>4. UNCHANGED <<nodes, networks, login, waits>> /\ UNCHANGED <<active, hardware, fetching>>
    BY <1>4 DEF ConnectFailed
  <2> QED
    BY <2>1, <2>2, <2>3, <2>4, CallGoesOn
<1> QED
  BY <1>3, <1>4

-----------------------------------------------------------------------------
(* Emissions.                                                              *)

\* The active account is the last wallet of its login, of any wallets.
ActiveIsLast(account, made, keys) ==
  Positions(made, account.login) # {}
    /\ account = Account(LastMade(made, account.login), keys[account.login])

LEMMA ActiveByPositions ==
  ASSUME SessionInv, active # None
  PROVE  ActiveIsLast(active, wallets, activeKey) /\ Opened(active.login)
<1>1. WalletsOf(active.login) # {} /\ active = Account(LastWalletOf(active.login), activeKey[active.login])
  BY DEF SessionInv, ActiveOK, ActiveAccountIsCurrent
<1>2. Opened(active.login)
  BY <1>1 DEF SessionInv, WalletsOK, WalletsOf
<1> QED
  BY <1>1, <1>2 DEF ActiveIsLast, WalletsOf, LastWalletOf, Positions, LastMade

LEMMA ActiveKept ==
  ASSUME wallets' # <<>> => active' # None,
         active' # None => ActiveIsLast(active', wallets', activeKey'),
         (active' # None /\ deriving' = "none") => active'.login = Last(wallets').login
  PROVE  ActiveOK'
BY DEF ActiveOK, ActiveAccountIsCurrent, ActiveIsLast, WalletsOf, LastWalletOf, Positions, LastMade

LEMMA AccountTyped ==
  ASSUME NEW wallet \in WalletRecord, NEW key \in Keys
  PROVE  /\ Account(wallet, key) \in AccountRecord /\ Account(wallet, key) # None
         /\ Account(wallet, key).login = wallet.login
<1>1. Account(wallet, key) \in AccountRecord /\ Account(wallet, key).login = wallet.login
  BY DEF Account, AccountRecord, WalletRecord
<1>2. wallet.login # 0
  BY SessionAssumption DEF WalletRecord
<1>3. None.login = 0
  BY DEF None
<1> QED
  BY <1>1, <1>2, <1>3

\* What is emitted is fetched for.
LEMMA Emits ==
  ASSUME SessionInv, NEW account \in AccountRecord, Emit(account), nodes # <<>>
  PROVE  /\ active' = account /\ balances' = balances
         /\ fetch' \in FetchRecord
         /\ BalancesFollowActiveAccount'
<1>1. Len(nodes) \in 1..MaxConnects
  BY EmptySeq, LenProperties, SessionAssumption DEF SessionInv, TypesOK, TypeOK
<1> QED
  BY <1>1 DEF Emit, StartFetch, FetchRecord, BalancesFollowActiveAccount

\* A device is asked once for each new wallet.
LEMMA AsksDevice ==
  ASSUME SessionInv, NEW new \in Seq(WalletRecord), AskDevice(new)
  PROVE  /\ derivations' \in Seq({"asked", "made"})
         /\ Len(derivations') = IF deriving = "subscribed" THEN Len(derivations) + Len(new)
                                                           ELSE Len(derivations)
<1> DEFINE asked == [i \in DOMAIN new |-> "asked"]
<1>1. DOMAIN new = 1..Len(new) /\ Len(new) \in Nat
  BY LenProperties
<1>2. asked \in [1..Len(new) -> {"asked", "made"}]
  BY <1>1
<1>3. \A n \in Nat : \A s \in [1..n -> {"asked", "made"}] : s \in Seq({"asked", "made"}) /\ Len(s) = n
  OBVIOUS
<1>4. asked \in Seq({"asked", "made"}) /\ Len(asked) = Len(new)
  BY <1>1, <1>2, <1>3
<1>5. derivations \in Seq({"asked", "made"})
  BY DEF SessionInv, TypesOK, TypeOK
<1>6. derivations' = IF deriving = "subscribed" THEN derivations \o asked ELSE derivations
  BY DEF AskDevice
<1> HIDE DEF asked
<1>7. /\ derivations \o asked \in Seq({"asked", "made"})
      /\ Len(derivations \o asked) = Len(derivations) + Len(asked)
  BY <1>4, <1>5, ConcatProperties
<1> QED
  BY <1>4, <1>5, <1>6, <1>7

\* New wallets of logins that are open, with the keys their keychains have.
LEMMA EmitsWallets ==
  ASSUME SessionInv, NEW new \in Seq(WalletRecord), EmitWallets(new),
         \A i \in DOMAIN new : new[i].login \in DOMAIN logins /\ activeKey'[new[i].login] \in Keys,
         \A l : Opened(l) => activeKey'[l] = activeKey[l],
         new # <<>> => nodes # <<>>, deriving' = deriving
  PROVE  /\ wallets' = wallets \o new /\ wallets' \in Seq(WalletRecord)
         /\ wallets' # <<>> => wallets # <<>> \/ new # <<>>
         /\ new # <<>> => wallets' # <<>> /\ Last(wallets') = Last(new)
         /\ new = <<>> => wallets' = wallets
         /\ derivations' \in Seq({"asked", "made"}) /\ Len(derivations') <= Len(wallets')
         /\ deriving' = "subscribed" => Len(derivations') = Len(wallets')
         /\ active' \in AccountRecord \cup {None} /\ balances' = balances
         /\ fetch' = fetch \/ fetch' \in FetchRecord
         /\ ActiveOK' /\ BalancesFollowActiveAccount'
<1>1. /\ wallets \in Seq(WalletRecord) /\ wallets' = wallets \o new /\ AskDevice(new)
      /\ active \in AccountRecord \cup {None}
  BY DEF SessionInv, TypesOK, TypeOK, EmitWallets, WalletRecord
<1>2. /\ wallets' \in Seq(WalletRecord) /\ Len(wallets') = Len(wallets) + Len(new)
      /\ new # <<>> => wallets' # <<>> /\ Last(wallets') = Last(new)
      /\ new = <<>> => wallets' = wallets
  BY <1>1, ConcatProperties, ConcatLast, ConcatEmptySeq
<1>3. Len(wallets) \in Nat /\ Len(new) \in Nat /\ Len(derivations) \in Nat
  BY <1>1, LenProperties DEF SessionInv, TypesOK, TypeOK
<1>4. /\ derivations' \in Seq({"asked", "made"}) /\ Len(derivations') <= Len(wallets')
      /\ deriving' = "subscribed" => Len(derivations') = Len(wallets')
  BY <1>1, <1>2, <1>3, AsksDevice DEF SessionInv, WalletsOK
<1>5. CASE new = <<>>
  <2>1. active' = active /\ fetch' = fetch /\ balances' = balances /\ wallets' = wallets
    BY <1>2, <1>5 DEF EmitWallets, fetching
  <2>2. active # None => ActiveIsLast(active, wallets, activeKey) /\ Opened(active.login)
    BY ActiveByPositions
  <2>3. active' # None => ActiveIsLast(active', wallets', activeKey')
    BY <2>1, <2>2 DEF ActiveIsLast
  <2>4. ActiveOK'
    <3>1. wallets' # <<>> => active' # None
      BY <2>1 DEF SessionInv, ActiveOK
    <3>2. (active' # None /\ deriving' = "none") => active'.login = Last(wallets').login
      BY <2>1 DEF SessionInv, ActiveOK, ActiveAccountIsCurrent
    <3> QED
      BY <2>3, <3>1, <3>2, ActiveKept
  <2>5. BalancesFollowActiveAccount'
    BY <2>1 DEF SessionInv, BalancesFollowActiveAccount
  <2> QED
    BY <1>1, <1>2, <1>4, <2>1, <2>4, <2>5, <1>5
<1>6. CASE new # <<>>
  <2> DEFINE last    == Last(new)
             account == Account(last, activeKey'[last.login])
  <2>1. last \in WalletRecord /\ last = new[Len(new)] /\ Len(new) \in DOMAIN new
    BY <1>6, LastMadeAtEnd, EmptySeq, LenProperties DEF Last
  <2>2. activeKey'[last.login] \in Keys
    BY <2>1
  <2>3. /\ Last(wallets') = last /\ Positions(wallets', last.login) # {}
        /\ LastMade(wallets', last.login) = last
    BY <1>2, <1>6, LastMadeAtEnd
  <2>4. Emit(account)
    BY <1>6 DEF EmitWallets
  <2> HIDE DEF last
  <2>5. account \in AccountRecord /\ account # None /\ account.login = last.login
    BY <2>1, <2>2, AccountTyped
  <2>6. ActiveIsLast(account, wallets', activeKey')
    BY <2>3, <2>5 DEF ActiveIsLast
  <2> HIDE DEF account
  <2>7. active' = account /\ balances' = balances /\ fetch' \in FetchRecord /\ BalancesFollowActiveAccount'
    BY <1>6, <2>4, <2>5, Emits
  <2>8. ActiveOK'
    BY <2>3, <2>5, <2>6, <2>7, ActiveKept
  <2> QED
    BY <1>1, <1>2, <1>4, <2>5, <2>7, <2>8, <1>6
<1> QED
  BY <1>5, <1>6

\* Old and new wallets alike are of the logins they are said to be of.
LEMMA ConcatLogins ==
  ASSUME NEW made \in Seq(WalletRecord), NEW new \in Seq(WalletRecord), NEW of,
         \A i \in DOMAIN made : made[i].login \in of, \A i \in DOMAIN new : new[i].login \in of
  PROVE  \A i \in DOMAIN (made \o new) : (made \o new)[i].login \in of
<1>1. /\ Len(made) \in Nat /\ DOMAIN made = 1..Len(made)
      /\ Len(new) \in Nat /\ DOMAIN new = 1..Len(new)
  BY LenProperties
<1>2. /\ made \o new \in Seq(WalletRecord) /\ Len(made \o new) = Len(made) + Len(new)
      /\ \A i \in 1..(Len(made) + Len(new)) :
           (made \o new)[i] = IF i <= Len(made) THEN made[i] ELSE new[i - Len(made)]
  BY ConcatProperties
<1>3. ASSUME NEW i \in 1..(Len(made) + Len(new)) PROVE (made \o new)[i].login \in of
  <2>1. CASE i <= Len(made)
    BY <1>1, <1>2, <2>1
  <2>2. CASE ~(i <= Len(made))
    <3>1. i - Len(made) \in DOMAIN new /\ (made \o new)[i] = new[i - Len(made)]
      BY <1>1, <1>2, <2>2
    <3> QED
      BY <3>1
  <2> QED
    BY <2>1, <2>2
<1> QED
  BY <1>2, <1>3, LenProperties

\* A network comes: each login that is subscribed makes a wallet for it.
LEMMA NativeTokenStep ==
  ASSUME SessionInv, NEW c \in DOMAIN connects, NativeTokenAnswered(c)
  PROVE  SessionInv'
<1> DEFINE network == connects[c].network
           call    == [connects[c] EXCEPT !.state = "connected"]
           new     == [i \in DOMAIN subscribers |-> Wallet(subscribers[i], network)]
<1>1. /\ nodes \in Seq(Nodes) /\ connects \in Seq(ConnectRecord) /\ networks \in Seq(Networks)
      /\ Len(nodes) \in Nat /\ Len(connects) = Len(nodes) /\ DOMAIN connects = 1..Len(nodes)
      /\ subscribers \in Seq(1..MaxLogins) /\ DOMAIN subscribers = 1..Len(subscribers)
      /\ Len(subscribers) \in Nat
  BY LenProperties DEF SessionInv, TypesOK, TypeOK
<1>2. /\ connects[c] \in ConnectRecord /\ connects[c].state = "nativeToken"
      /\ network \in Networks /\ nodes # <<>>
  BY <1>1, ElementOfSeq, EmptySeq DEF SessionInv, CallsOK, ConnectOK, NativeTokenAnswered
<1>3. /\ call \in ConnectRecord /\ call.state = "connected" /\ call.network = network
      /\ call.since = connects[c].since
  BY <1>2 DEF ConnectRecord
<1>4. /\ connects' = [connects EXCEPT ![c] = call] /\ networks' = Append(networks, network)
      /\ EmitWallets(new)
      /\ UNCHANGED <<waits, nodes, logins, subscribers, walletSubscription, deriving, activeKey>>
  BY DEF NativeTokenAnswered
<1>5. new \in Seq(WalletRecord) /\ Len(new) = Len(subscribers)
      /\ \A i \in DOMAIN new : new[i].login = subscribers[i] /\ new[i] = Wallet(subscribers[i], network)
  <2>1. \A i \in 1..Len(subscribers) : new[i] \in WalletRecord /\ new[i].login = subscribers[i]
    <3>1. \A i \in 1..Len(subscribers) : subscribers[i] \in 1..MaxLogins
      BY <1>1, ElementOfSeq
    <3>2. \A l \in 1..MaxLogins : Wallet(l, network) \in WalletRecord /\ Wallet(l, network).login = l
      BY <1>2 DEF Wallet, WalletRecord
    <3> HIDE DEF network
    <3> QED
      BY <1>1, <3>1, <3>2
  <2>2. new \in [1..Len(subscribers) -> WalletRecord]
    BY <1>1, <2>1
  <2>3. \A n \in Nat : \A s \in [1..n -> WalletRecord] : s \in Seq(WalletRecord) /\ Len(s) = n
    OBVIOUS
  <2> QED
    BY <1>1, <2>1, <2>2, <2>3
<1>6. DOMAIN new = DOMAIN subscribers
  OBVIOUS
<1> HIDE DEF network, call, new
<1>7. \A i \in DOMAIN new : Opened(new[i].login) /\ activeKey'[new[i].login] \in Keys
  BY <1>4, <1>5, <1>6 DEF SessionInv, SubscribersOK, Opened, CallsOK
<1>8. /\ wallets' = wallets \o new /\ wallets' \in Seq(WalletRecord)
      /\ new # <<>> => wallets' # <<>> /\ Last(wallets') = Last(new)
      /\ derivations' \in Seq({"asked", "made"}) /\ Len(derivations') <= Len(wallets')
      /\ deriving' = "subscribed" => Len(derivations') = Len(wallets')
      /\ active' \in AccountRecord \cup {None} /\ balances' = balances
      /\ fetch' = fetch \/ fetch' \in FetchRecord
      /\ ActiveOK' /\ BalancesFollowActiveAccount'
  <2>1. \A i \in DOMAIN new : new[i].login \in DOMAIN logins /\ activeKey'[new[i].login] \in Keys
    BY <1>7 DEF Opened
  <2>2. \A l : Opened(l) => activeKey'[l] = activeKey[l]
    BY <1>4
  <2> QED
    BY <1>2, <1>4, <1>5, <2>1, <2>2, EmitsWallets
<1>9. /\ connects' \in Seq(ConnectRecord) /\ Len(connects') = Len(nodes)
      /\ DOMAIN connects' = DOMAIN connects
      /\ \A d \in DOMAIN connects : connects'[d] = IF d = c THEN call ELSE connects[d]
  BY <1>1, <1>3, <1>4, ExceptSeq
<1>10. networks' \in Seq(Networks) /\ networks' # <<>> /\ Last(networks') = network
  BY <1>1, <1>2, <1>4, AppendProperties DEF Last
<1>11. TypesOK'
  BY <1>1, <1>4, <1>8, <1>9, <1>10
     DEF SessionInv, TypesOK, TypeOK, WalletRecord, FetchRecord
<1>12. CallsOK'
  <2>1. ASSUME NEW d \in DOMAIN connects' PROVE ConnectOK(d)'
    BY <1>2, <1>3, <1>4, <1>9 DEF SessionInv, CallsOK, ConnectOK
  <2> QED
    BY <1>4, <2>1 DEF SessionInv, CallsOK
<1>13. SubscribersOK'
  BY <1>4 DEF SessionInv, SubscribersOK, Opened
<1>14. WalletsOK'
  <2>1. \A i \in DOMAIN wallets' : wallets'[i].login \in {l \in DOMAIN logins : logins[l] = "opened"}
    <3> DEFINE of == {l \in DOMAIN logins : logins[l] = "opened"}
    <3>1. \A i \in DOMAIN wallets : wallets[i].login \in of
      BY DEF SessionInv, WalletsOK, Opened
    <3>2. \A i \in DOMAIN new : new[i].login \in of
      BY <1>7 DEF Opened
    <3>3. wallets \in Seq(WalletRecord)
      BY DEF SessionInv, TypesOK, TypeOK, WalletRecord
    <3> HIDE DEF of
    <3>4. \A i \in DOMAIN wallets' : wallets'[i].login \in of
      BY <1>5, <1>8, <3>1, <3>2, <3>3, ConcatLogins
    <3> QED
      BY <3>4 DEF of
  <2>2. WalletIsCurrent'
    <3>1. ASSUME Contains(subscribers, walletSubscription)
          PROVE  wallets' # <<>> /\ Last(wallets') = Wallet(walletSubscription, network)
      <4>1. PICK i \in DOMAIN subscribers : subscribers[i] = walletSubscription
        BY <1>1, <3>1 DEF Contains
      <4>2. i = Len(subscribers)
        BY <4>1 DEF SessionInv, SubscribersOK
      <4>3. Len(new) \in DOMAIN new /\ new # <<>> /\ Last(new) = new[Len(new)]
        BY <1>5, <1>6, <4>1, <4>2, EmptySeq DEF Last
      <4>4. new[Len(new)] = Wallet(walletSubscription, network)
        BY <1>5, <4>1, <4>2, <4>3
      <4> QED
        BY <1>8, <4>3, <4>4
    <3> QED
      BY <1>4, <1>10, <3>1 DEF WalletIsCurrent, Contains
  <2> QED
    BY <1>2, <1>4, <1>8, <1>10, <2>1, <2>2 DEF WalletsOK, Opened
<1>15. WaitingOK'
  <2>1. ASSUME waits PROVE OneLogin'
    BY <1>4, <2>1 DEF SessionInv, WaitingOK, OneLogin
  <2>2. ASSUME waits PROVE OneConnect'
    <3>1. c = Len(connects) /\ OneConnect
      BY <1>2, <2>2 DEF SessionInv, WaitingOK, OneConnect
    <3>2. Last(connects) = connects[c] /\ Last(connects') = call /\ Last(nodes') = Last(nodes)
      BY <1>1, <1>4, <1>9, <3>1 DEF Last
    <3>3. connects # <<>> /\ network = NetworkOf[Last(nodes)]
      BY <1>1, <1>2, <3>1, <3>2, EmptySeq DEF OneConnect, network
    <3>4. \A d \in DOMAIN connects' :
            connects'[d].state \in {"networkId", "nativeToken"}
              => d = Len(connects') /\ connects'[d].since = Len(connects')
      BY <1>1, <1>3, <1>9, <3>1 DEF OneConnect
    <3> QED
      BY <1>3, <1>10, <3>2, <3>3, <3>4 DEF OneConnect
  <2> QED
    BY <1>4, <2>1, <2>2 DEF WaitingOK
<1> QED
  BY <1>8, <1>11, <1>12, <1>13, <1>14, <1>15 DEF SessionInv

-----------------------------------------------------------------------------
(* Logging in.                                                             *)

\* The login remembered was the last to subscribe: the others keep their
\* positions when it is unsubscribed.
LEMMA UnsubscribedIs ==
  ASSUME SessionInv, NEW rest, rest = Unsubscribed(walletSubscription)
  PROVE  /\ rest \in Seq(1..MaxLogins) /\ Len(rest) <= Len(subscribers)
         /\ \A i \in DOMAIN rest : rest[i] = subscribers[i] /\ rest[i] # walletSubscription
         /\ Contains(subscribers, walletSubscription) => Len(rest) = Len(subscribers) - 1
         /\ ~Contains(subscribers, walletSubscription) => rest = subscribers
<1> DEFINE last == Len(subscribers)
<1>1. /\ subscribers \in Seq(1..MaxLogins) /\ last \in Nat /\ DOMAIN subscribers = 1..last
      /\ subscribers \in [1..last -> 1..MaxLogins]
  BY LenProperties DEF SessionInv, TypesOK, TypeOK
<1>2. CASE Contains(subscribers, walletSubscription)
  <2> DEFINE place == CHOOSE i \in DOMAIN subscribers : subscribers[i] = walletSubscription
             front == SubSeq(subscribers, 1, last - 1)
  <2>1. place \in DOMAIN subscribers /\ subscribers[place] = walletSubscription
    BY <1>1, <1>2 DEF Contains
  <2>2. place = last
    BY <2>1 DEF SessionInv, SubscribersOK
  <2>3. last \in 1..last /\ last - 1 \in Nat
    BY <1>1, <2>1, <2>2
  <2>4. Unsubscribed(walletSubscription) = front \o SubSeq(subscribers, last + 1, last)
    BY <1>2, <2>2 DEF Unsubscribed, RemoveAt
  <2>5. SubSeq(subscribers, last + 1, last) = <<>>
    BY <1>1, SubSeqEmpty
  <2>6. \A i \in 1..(last - 1) : subscribers[i] \in 1..MaxLogins
    BY <1>1
  <2>7. /\ front \in Seq(1..MaxLogins) /\ Len(front) = last - 1
        /\ \A i \in 1..(last - 1) : front[i] = subscribers[i]
    <3> HIDE DEF last
    <3>1. /\ front \in Seq(1..MaxLogins) /\ Len(front) = IF 1 <= last - 1 THEN (last - 1) - 1 + 1 ELSE 0
          /\ \A i \in 1..((last - 1) - 1 + 1) : front[i] = subscribers[1 + i - 1]
      BY <1>1, <2>3, <2>6, SubSeqProperties
    <3>2. \A i \in Nat : 1 + i - 1 = i
      OBVIOUS
    <3> QED
      BY <1>1, <2>3, <3>1, <3>2
  <2> HIDE DEF front, place
  <2>8. Unsubscribed(walletSubscription) = front
    BY <2>4, <2>5, <2>7, ConcatEmptySeq
  <2>9. \A i \in 1..(last - 1) : subscribers[i] # walletSubscription
    BY <1>1 DEF SessionInv, SubscribersOK
  <2>10. DOMAIN front = 1..(last - 1)
    BY <2>7, LenProperties
  <2>11. \A i \in DOMAIN front : front[i] = subscribers[i] /\ front[i] # walletSubscription
    BY <2>7, <2>9, <2>10
  <2>12. Len(front) <= Len(subscribers) /\ Len(front) = Len(subscribers) - 1
    BY <1>1, <2>7
  <2> QED
    BY <1>2, <2>7, <2>8, <2>11, <2>12
<1>3. CASE ~Contains(subscribers, walletSubscription)
  <2>1. Unsubscribed(walletSubscription) = subscribers
    BY <1>3 DEF Unsubscribed
  <2>2. \A i \in DOMAIN subscribers : subscribers[i] # walletSubscription
    BY <1>1, <1>3 DEF Contains
  <2>3. Len(subscribers) <= Len(subscribers)
    BY <1>1
  <2> QED
    BY <1>1, <1>3, <2>1, <2>2, <2>3
<1> QED
  BY <1>2, <1>3

LEMMA LoginStep ==
  ASSUME SessionInv, Login
  PROVE  SessionInv'
<1> DEFINE LoginState == {"decrypting", "opened", "failed"}
<1>1. /\ logins \in Seq(LoginState) /\ activeKey \in Seq(0..MaxKeys) /\ Len(activeKey) = Len(logins)
      /\ Len(logins) \in Nat /\ DOMAIN logins = 1..Len(logins) /\ Len(logins) < MaxLogins
      /\ subscribers \in Seq(1..MaxLogins) /\ DOMAIN subscribers = 1..Len(subscribers)
      /\ Len(subscribers) \in Nat /\ MaxLogins \in Nat /\ MaxKeys \in Nat
  BY LenProperties, SessionAssumption DEF SessionInv, TypesOK, TypeOK, Login
<1>2. /\ logins' = Append(logins, "decrypting") /\ activeKey' = Append(activeKey, 0)
      /\ subscribers' = Unsubscribed(walletSubscription)
      /\ UNCHANGED <<waits, connection, walletSubscription, wallets, active, hardware, fetching>>
  BY DEF Login
<1>3. /\ logins' \in Seq(LoginState) /\ Len(logins') = Len(logins) + 1 /\ logins' # <<>>
      /\ \A l \in 1..Len(logins) : logins'[l] = logins[l]
      /\ logins'[Len(logins) + 1] = "decrypting"
      /\ DOMAIN logins' = 1..(Len(logins) + 1)
  <2>1. "decrypting" \in LoginState
    OBVIOUS
  <2> HIDE DEF LoginState
  <2> QED
    <3>1. /\ logins' \in Seq(LoginState) /\ Len(logins') = Len(logins) + 1 /\ logins' # <<>>
          /\ \A l \in 1..Len(logins) : logins'[l] = logins[l]
          /\ logins'[Len(logins) + 1] = "decrypting"
      <4>1. logins \in Seq(LoginState) /\ logins' = Append(logins, "decrypting")
        BY <1>1, <1>2
      <4> QED
        BY <2>1, <4>1, AppendProperties
    <3>2. DOMAIN logins' = 1..Len(logins')
      BY <3>1, LenProperties
    <3> QED
      BY <3>1, <3>2
<1>4. /\ activeKey' \in Seq(0..MaxKeys) /\ Len(activeKey') = Len(logins) + 1
      /\ \A l \in 1..Len(logins) : activeKey'[l] = activeKey[l]
  <2>1. 0 \in 0..MaxKeys
    BY <1>1
  <2> QED
    BY <1>1, <1>2, <2>1, AppendProperties
<1>5. /\ subscribers' \in Seq(1..MaxLogins) /\ Len(subscribers') <= Len(subscribers)
      /\ \A i \in DOMAIN subscribers' :
           subscribers'[i] = subscribers[i] /\ subscribers'[i] # walletSubscription
      /\ Contains(subscribers, walletSubscription) => Len(subscribers') = Len(subscribers) - 1
      /\ ~Contains(subscribers, walletSubscription) => subscribers' = subscribers
  BY <1>2, UnsubscribedIs
<1>6. DOMAIN subscribers' = 1..Len(subscribers') /\ Len(subscribers') \in Nat
      /\ DOMAIN subscribers' \subseteq DOMAIN subscribers
  <2>1. DOMAIN subscribers' = 1..Len(subscribers') /\ Len(subscribers') \in Nat
    BY <1>5, LenProperties
  <2>2. Len(subscribers') <= Len(subscribers)
    BY <1>5
  <2> QED
    BY <1>1, <2>1, <2>2
<1>7. TypesOK'
  <2>1. Len(logins') <= MaxLogins /\ Len(activeKey') = Len(logins')
    BY <1>1, <1>3, <1>4
  <2>2. logins' \in Seq({"decrypting", "opened", "failed"}) /\ activeKey' \in Seq(0..MaxKeys)
        /\ subscribers' \in Seq(1..MaxLogins)
    BY <1>3, <1>4, <1>5
  <2>3. TypesOK
    BY DEF SessionInv
  <2> QED
    BY <1>2, <2>1, <2>2, <2>3 DEF TypesOK, TypeOK, connection, hardware, fetching
<1>8. CallsOK'
  <2>1. \A c \in DOMAIN connects' : ConnectOK(c)'
    BY <1>2 DEF SessionInv, CallsOK, ConnectOK, connection
  <2>2. ASSUME NEW l \in DOMAIN logins', logins'[l] = "opened" PROVE activeKey'[l] \in Keys
    <3>1. l \in DOMAIN logins
      BY <1>1, <1>3, <2>2
    <3>2. logins[l] = "opened" /\ activeKey'[l] = activeKey[l]
      BY <1>1, <1>3, <1>4, <2>2, <3>1
    <3> QED
      BY <3>1, <3>2 DEF SessionInv, CallsOK
  <2> QED
    BY <2>1, <2>2 DEF CallsOK
<1>9. \A l : Opened(l) => Opened(l)' /\ activeKey'[l] = activeKey[l]
  BY <1>1, <1>3, <1>4 DEF Opened
<1>10. SubscribersOK'
  <2>1. \A i \in DOMAIN subscribers' : Opened(subscribers[i])
    BY <1>6 DEF SessionInv, SubscribersOK
  <2>2. \A i \in DOMAIN subscribers' : Opened(subscribers[i])'
    BY <1>1, <1>3, <1>5, <1>9, <2>1 DEF Opened
  <2>3. \A i, j \in DOMAIN subscribers' : subscribers'[i] = subscribers'[j] => i = j
    BY <1>5, <1>6 DEF SessionInv, SubscribersOK
  <2> QED
    BY <1>2, <1>5, <2>2, <2>3 DEF SubscribersOK
<1>11. WalletsOK'
  <2>1. ~Contains(subscribers, walletSubscription)'
    BY <1>2, <1>5, <1>6 DEF Contains
  <2>2. \A i \in DOMAIN wallets : Opened(wallets[i].login)
    BY DEF SessionInv, WalletsOK
  <2>3. \A i \in DOMAIN wallets' : Opened(wallets[i].login)'
    BY <1>1, <1>2, <1>3, <2>2 DEF Opened
  <2> QED
    BY <1>2, <2>1, <2>3 DEF SessionInv, WalletsOK, WalletIsCurrent, connection, hardware
<1>12. ActiveOK' /\ BalancesFollowActiveAccount'
  <2>1. active # None => ActiveIsLast(active, wallets, activeKey) /\ Opened(active.login)
    BY ActiveByPositions
  <2>2. active' # None => ActiveIsLast(active', wallets', activeKey')
    BY <1>2, <1>9, <2>1 DEF ActiveIsLast
  <2>3. wallets' # <<>> => active' # None
    BY <1>2 DEF SessionInv, ActiveOK
  <2>4. (active' # None /\ deriving' = "none") => active'.login = Last(wallets').login
    BY <1>2 DEF SessionInv, ActiveOK, ActiveAccountIsCurrent, hardware
  <2>5. BalancesFollowActiveAccount'
    BY <1>2 DEF SessionInv, BalancesFollowActiveAccount, fetching
  <2> QED
    BY <2>2, <2>3, <2>4, <2>5, ActiveKept
<1>13. WaitingOK'
  <2>1. ASSUME waits PROVE OneLogin'
    <3>1. OneLogin /\ \A l \in DOMAIN logins : logins[l] # "decrypting"
      BY <2>1 DEF SessionInv, WaitingOK, Login
    <3>2. \A l \in DOMAIN logins' : logins'[l] = "decrypting" => l = Len(logins')
      BY <1>1, <1>3, <3>1
    <3>3. Last(logins') = "decrypting"
      BY <1>3 DEF Last
    <3>4. subscribers' = <<>>
      <4>1. CASE subscribers = <<>>
        <5>1. Len(subscribers) = 0
          BY <4>1, EmptySeq
        <5> QED
          BY <1>1, <1>5, <1>6, <5>1, EmptySeq
      <4>2. CASE subscribers # <<>>
        <5>1. subscribers = <<walletSubscription>>
          BY <3>1, <4>2 DEF OneLogin
        <5>2. Len(subscribers) = 1 /\ Contains(subscribers, walletSubscription)
          BY <5>1 DEF Contains
        <5> QED
          BY <1>5, <5>2, EmptySeq
      <4> QED
        BY <4>1, <4>2
    <3> QED
      BY <3>2, <3>3, <3>4 DEF OneLogin
  <2>2. ASSUME waits PROVE OneConnect'
    BY <1>2, <2>2 DEF SessionInv, WaitingOK, OneConnect, connection
  <2> QED
    BY <1>2, <2>1, <2>2 DEF WaitingOK
<1> QED
  BY <1>7, <1>8, <1>10, <1>11, <1>12, <1>13 DEF SessionInv

\* A login whose keystore could not be opened leaves everything else alone.
LEMMA LoginFailedStep ==
  ASSUME SessionInv, NEW l \in DOMAIN logins, LoginFailed(l)
  PROVE  SessionInv'
<1> DEFINE LoginState == {"decrypting", "opened", "failed"}
<1>1. logins \in Seq(LoginState) /\ Len(logins) \in Nat /\ DOMAIN logins = 1..Len(logins)
  BY LenProperties DEF SessionInv, TypesOK, TypeOK
<1>2. /\ logins[l] = "decrypting" /\ logins' = [logins EXCEPT ![l] = "failed"]
      /\ UNCHANGED <<waits, connection, activeKey, subscribers, walletSubscription, wallets, active,
                     hardware, fetching>>
  BY DEF LoginFailed
<1>3. /\ logins' \in Seq(LoginState) /\ Len(logins') = Len(logins) /\ DOMAIN logins' = DOMAIN logins
      /\ \A m \in DOMAIN logins : logins'[m] = IF m = l THEN "failed" ELSE logins[m]
  <2>1. "failed" \in LoginState
    OBVIOUS
  <2> HIDE DEF LoginState
  <2>2. l \in 1..Len(logins)
    BY <1>1
  <2> QED
    BY <1>1, <1>2, <2>1, <2>2, ExceptSeq
<1>4. TypesOK'
  <2>1. TypesOK
    BY DEF SessionInv
  <2> QED
    BY <1>2, <1>3, <2>1 DEF TypesOK, TypeOK, connection, hardware, fetching
<1>5. \A m : Opened(m) <=> Opened(m)'
  BY <1>2, <1>3 DEF Opened
<1>6. CallsOK'
  <2>1. \A c \in DOMAIN connects' : ConnectOK(c)'
    BY <1>2 DEF SessionInv, CallsOK, ConnectOK, connection
  <2>2. \A m \in DOMAIN logins' : logins'[m] = "opened" => activeKey'[m] \in Keys
    BY <1>2, <1>3 DEF SessionInv, CallsOK
  <2> QED
    BY <2>1, <2>2 DEF CallsOK
<1>7. SubscribersOK'
  <2>1. \A i \in DOMAIN subscribers : Opened(subscribers[i])
    BY DEF SessionInv, SubscribersOK
  <2>2. \A i \in DOMAIN subscribers' : Opened(subscribers[i])'
    BY <1>2, <1>3, <2>1 DEF Opened
  <2> QED
    BY <1>2, <2>2 DEF SessionInv, SubscribersOK
<1>8. WalletsOK'
  <2>1. \A i \in DOMAIN wallets : Opened(wallets[i].login)
    BY DEF SessionInv, WalletsOK
  <2>2. \A i \in DOMAIN wallets' : Opened(wallets[i].login)'
    BY <1>2, <1>3, <2>1 DEF Opened
  <2> QED
    BY <1>2, <2>2 DEF SessionInv, WalletsOK, WalletIsCurrent, connection, hardware
<1>9. ActiveOK' /\ BalancesFollowActiveAccount'
  BY <1>2 DEF SessionInv, ActiveOK, ActiveAccountIsCurrent, BalancesFollowActiveAccount,
              WalletsOf, LastWalletOf, hardware, fetching
<1>10. WaitingOK'
  <2>1. ASSUME waits PROVE OneLogin'
    <3>1. OneLogin /\ l = Len(logins)
      BY <1>2, <2>1 DEF SessionInv, WaitingOK, OneLogin
    <3>2. Last(logins) = "decrypting" /\ Last(logins') = "failed"
      BY <1>1, <1>2, <1>3, <3>1 DEF Last
    <3>3. \A m \in DOMAIN logins' : logins'[m] # "decrypting"
      BY <1>3, <3>1 DEF OneLogin
    <3> QED
      BY <1>2, <3>1, <3>2, <3>3 DEF OneLogin
  <2>2. ASSUME waits PROVE OneConnect'
    BY <1>2, <2>2 DEF SessionInv, WaitingOK, OneConnect, connection
  <2> QED
    BY <1>2, <2>1, <2>2 DEF WaitingOK
<1> QED
  BY <1>4, <1>6, <1>7, <1>8, <1>9, <1>10 DEF SessionInv

\* The keychain of a login makes a wallet for each network there is.
LEMMA LoginOpenedStep ==
  ASSUME SessionInv, NEW l \in DOMAIN logins, LoginOpened(l)
  PROVE  SessionInv'
<1> DEFINE LoginState == {"decrypting", "opened", "failed"}
           new == [i \in DOMAIN networks |-> Wallet(l, networks[i])]
<1>1. /\ logins \in Seq(LoginState) /\ Len(logins) \in Nat /\ DOMAIN logins = 1..Len(logins)
      /\ activeKey \in Seq(0..MaxKeys) /\ Len(activeKey) = Len(logins)
      /\ subscribers \in Seq(1..MaxLogins) /\ Len(subscribers) \in Nat
      /\ DOMAIN subscribers = 1..Len(subscribers) /\ DOMAIN subscribers' = 1..Len(subscribers')
      /\ networks \in Seq(Networks) /\ Len(networks) \in Nat /\ DOMAIN networks = 1..Len(networks)
      /\ Len(logins) <= MaxLogins /\ MaxLogins \in Nat /\ MaxKeys \in Nat \ {0}
      /\ l \in 1..MaxLogins /\ l \in 1..Len(logins)
  <2>1. /\ logins \in Seq(LoginState) /\ activeKey \in Seq(0..MaxKeys) /\ Len(activeKey) = Len(logins)
        /\ subscribers \in Seq(1..MaxLogins) /\ networks \in Seq(Networks)
        /\ Len(logins) <= MaxLogins /\ MaxLogins \in Nat /\ MaxKeys \in Nat \ {0}
    BY SessionAssumption DEF SessionInv, TypesOK, TypeOK
  <2>2. /\ Len(logins) \in Nat /\ DOMAIN logins = 1..Len(logins)
        /\ Len(subscribers) \in Nat /\ DOMAIN subscribers = 1..Len(subscribers)
        /\ Len(networks) \in Nat /\ DOMAIN networks = 1..Len(networks)
    BY <2>1, LenProperties
  <2>3. l \in 1..MaxLogins /\ l \in 1..Len(logins)
    BY <2>1, <2>2
  <2>4. subscribers' = Append(subscribers, l)
    BY DEF LoginOpened
  <2>5. subscribers' \in Seq(1..MaxLogins)
    BY <2>1, <2>3, <2>4, AppendProperties
  <2> QED
    BY <2>1, <2>2, <2>3, <2>5, LenProperties
<1>2. /\ logins[l] = "decrypting" /\ logins' = [logins EXCEPT ![l] = "opened"]
      /\ activeKey' = [activeKey EXCEPT ![l] = 1] /\ subscribers' = Append(subscribers, l)
      /\ walletSubscription' = l /\ EmitWallets(new)
      /\ UNCHANGED <<waits, connection, deriving>>
  BY DEF LoginOpened
<1>3. /\ logins' \in Seq(LoginState) /\ Len(logins') = Len(logins) /\ DOMAIN logins' = DOMAIN logins
      /\ \A m \in DOMAIN logins : logins'[m] = IF m = l THEN "opened" ELSE logins[m]
  <2>1. "opened" \in LoginState
    OBVIOUS
  <2> HIDE DEF LoginState, new
  <2>2. logins \in Seq(LoginState) /\ l \in 1..Len(logins) /\ logins' = [logins EXCEPT ![l] = "opened"]
    BY <1>1, <1>2
  <2> QED
    BY <1>1, <2>1, <2>2, ExceptSeq, LenProperties
<1>4. /\ activeKey' \in Seq(0..MaxKeys) /\ Len(activeKey') = Len(logins)
      /\ \A m \in DOMAIN logins : activeKey'[m] = IF m = l THEN 1 ELSE activeKey[m]
      /\ 1 \in Keys
  <2>1. 1 \in 0..MaxKeys /\ 1 \in Keys
    BY <1>1 DEF Keys
  <2>2. activeKey \in Seq(0..MaxKeys) /\ l \in 1..Len(activeKey) /\ activeKey' = [activeKey EXCEPT ![l] = 1]
    BY <1>1, <1>2
  <2> HIDE DEF new
  <2> QED
    BY <1>1, <2>1, <2>2, ExceptSeq
<1>5. /\ subscribers' \in Seq(1..MaxLogins) /\ Len(subscribers') = Len(subscribers) + 1
      /\ \A i \in DOMAIN subscribers : subscribers'[i] = subscribers[i]
      /\ subscribers'[Len(subscribers) + 1] = l
  <2>1. subscribers \in Seq(1..MaxLogins) /\ l \in 1..MaxLogins /\ subscribers' = Append(subscribers, l)
    BY <1>1, <1>2
  <2> QED
    BY <1>1, <2>1, AppendProperties
<1>6. /\ new \in Seq(WalletRecord) /\ Len(new) = Len(networks) /\ DOMAIN new = 1..Len(networks)
      /\ \A i \in DOMAIN new : new[i].login = l /\ new[i] = Wallet(l, networks[i])
  <2>1. \A i \in 1..Len(networks) : networks[i] \in Networks
    BY <1>1, ElementOfSeq
  <2>2. \A i \in 1..Len(networks) : new[i] \in WalletRecord /\ new[i].login = l
    BY <1>1, <2>1 DEF Wallet, WalletRecord
  <2>3. new \in [1..Len(networks) -> WalletRecord]
    BY <1>1, <2>2
  <2>4. \A n \in Nat : \A s \in [1..n -> WalletRecord] : s \in Seq(WalletRecord) /\ Len(s) = n
    OBVIOUS
  <2> QED
    BY <1>1, <2>2, <2>3, <2>4
<1> HIDE DEF new
<1>7. /\ wallets' = wallets \o new /\ wallets' \in Seq(WalletRecord)
      /\ wallets' # <<>> => wallets # <<>> \/ new # <<>>
      /\ new # <<>> => wallets' # <<>> /\ Last(wallets') = Last(new)
      /\ derivations' \in Seq({"asked", "made"}) /\ Len(derivations') <= Len(wallets')
      /\ deriving' = "subscribed" => Len(derivations') = Len(wallets')
      /\ active' \in AccountRecord \cup {None} /\ balances' = balances
      /\ fetch' = fetch \/ fetch' \in FetchRecord
      /\ ActiveOK' /\ BalancesFollowActiveAccount'
  <2>1. \A i \in DOMAIN new : new[i].login \in DOMAIN logins /\ activeKey'[new[i].login] \in Keys
    BY <1>4, <1>6
  <2>2. \A m : Opened(m) => activeKey'[m] = activeKey[m]
    BY <1>2, <1>4 DEF Opened
  <2>3. new # <<>> => nodes # <<>>
    <3>1. new # <<>> => networks # <<>>
      BY <1>1, <1>6, EmptySeq
    <3> QED
      BY <3>1 DEF SessionInv, WalletsOK
  <2> QED
    BY <1>2, <1>6, <2>1, <2>2, <2>3, EmitsWallets
<1>8. TypesOK'
  <2>1. TypesOK
    BY DEF SessionInv
  <2>2. /\ Len(logins') <= MaxLogins /\ Len(activeKey') = Len(logins')
        /\ walletSubscription' \in 0..MaxLogins
    BY <1>1, <1>2, <1>3, <1>4
  <2> QED
    BY <1>2, <1>3, <1>4, <1>5, <1>7, <2>1, <2>2
       DEF TypesOK, TypeOK, connection, WalletRecord, FetchRecord
<1>9. CallsOK'
  <2>1. \A c \in DOMAIN connects' : ConnectOK(c)'
    BY <1>2 DEF SessionInv, CallsOK, ConnectOK, connection
  <2>2. \A m \in DOMAIN logins' : logins'[m] = "opened" => activeKey'[m] \in Keys
    BY <1>2, <1>3, <1>4 DEF SessionInv, CallsOK
  <2> QED
    BY <2>1, <2>2 DEF CallsOK
<1>10. \A i \in DOMAIN subscribers : Opened(subscribers[i]) /\ subscribers[i] # l
  BY <1>2 DEF SessionInv, SubscribersOK, Opened
<1>11. SubscribersOK'
  <2>1. ASSUME NEW i \in DOMAIN subscribers' PROVE Opened(subscribers[i])'
    <3>1. CASE i = Len(subscribers) + 1
      BY <1>3, <1>5, <3>1 DEF Opened
    <3>2. CASE i # Len(subscribers) + 1
      <4>1. i \in DOMAIN subscribers
        BY <1>1, <1>5, <3>2
      <4> QED
        BY <1>3, <1>5, <1>10, <4>1 DEF Opened
    <3> QED
      BY <3>1, <3>2
  <2>2. \A i \in DOMAIN subscribers' : i \in DOMAIN subscribers \/ i = Len(subscribers')
    BY <1>1, <1>5
  <2>3. subscribers'[Len(subscribers')] = l
    BY <1>5
  <2>4. \A i, j \in DOMAIN subscribers' : subscribers'[i] = subscribers'[j] => i = j
    BY <1>5, <1>10, <2>2, <2>3 DEF SessionInv, SubscribersOK
  <2>5. \A i \in DOMAIN subscribers' : subscribers'[i] = walletSubscription' => i = Len(subscribers')
    BY <1>2, <1>5, <1>10, <2>2
  <2> QED
    BY <2>1, <2>4, <2>5 DEF SubscribersOK
<1>12. WalletsOK'
  <2>1. \A i \in DOMAIN wallets' : wallets'[i].login \in {m \in DOMAIN logins' : logins'[m] = "opened"}
    <3> DEFINE of == {m \in DOMAIN logins' : logins'[m] = "opened"}
    <3>1. \A i \in DOMAIN wallets : wallets[i].login \in of
      BY <1>3 DEF SessionInv, WalletsOK, Opened
    <3>2. \A i \in DOMAIN new : new[i].login \in of
      BY <1>3, <1>6
    <3>3. wallets \in Seq(WalletRecord)
      BY DEF SessionInv, TypesOK, TypeOK, WalletRecord
    <3> HIDE DEF of
    <3>4. \A i \in DOMAIN wallets' : wallets'[i].login \in of
      BY <1>6, <1>7, <3>1, <3>2, <3>3, ConcatLogins
    <3> QED
      BY <3>4 DEF of
  <2>2. new # <<>> => networks # <<>>
    BY <1>1, <1>6, EmptySeq
  <2>3. networks # <<>> => wallets' # <<>> /\ Last(wallets') = Wallet(l, Last(networks))
    <3> SUFFICES ASSUME networks # <<>> PROVE wallets' # <<>> /\ Last(wallets') = Wallet(l, Last(networks))
      OBVIOUS
    <3>1. Len(networks) \in DOMAIN new /\ new # <<>>
      BY <1>1, <1>6, EmptySeq
    <3>2. Last(new) = Wallet(l, Last(networks))
      BY <1>6, <3>1 DEF Last
    <3> QED
      BY <1>7, <3>1, <3>2
  <2>4. WalletIsCurrent'
    BY <1>2, <2>3 DEF WalletIsCurrent, connection
  <2>5. /\ wallets' # <<>> => networks' # <<>>
        /\ networks' # <<>> => nodes' # <<>>
    BY <1>2, <1>7, <2>2 DEF SessionInv, WalletsOK, connection
  <2> QED
    BY <1>7, <2>1, <2>4, <2>5 DEF WalletsOK, Opened
<1>13. WaitingOK'
  <2>1. ASSUME waits PROVE OneLogin'
    <3>1. OneLogin /\ l = Len(logins)
      BY <1>2, <2>1 DEF SessionInv, WaitingOK, OneLogin
    <3>2. Last(logins) = "decrypting" /\ Last(logins') = "opened"
      BY <1>1, <1>2, <1>3, <3>1 DEF Last
    <3>3. \A m \in DOMAIN logins' : logins'[m] # "decrypting"
      BY <1>3, <3>1 DEF OneLogin
    <3>4. subscribers = <<>>
      BY <3>1, <3>2 DEF OneLogin
    <3>5. subscribers' = <<l>>
      BY <1>2, <3>4
    <3>6. logins' # <<>> /\ l = Len(logins')
      BY <1>1, <1>3, <3>1, EmptySeq
    <3> QED
      BY <1>2, <3>2, <3>3, <3>5, <3>6 DEF OneLogin
  <2>2. ASSUME waits PROVE OneConnect'
    BY <1>2, <2>2 DEF SessionInv, WaitingOK, OneConnect, connection
  <2> QED
    BY <1>2, <2>1, <2>2 DEF WaitingOK
<1> QED
  BY <1>7, <1>8, <1>9, <1>11, <1>12, <1>13 DEF SessionInv

-----------------------------------------------------------------------------
(* The active account and its balances.                                    *)

\* Steps that leave the calls and the wallets alone.
LEMMA CallsUntouched ==
  ASSUME CallsOK, SubscribersOK, WaitingOK,
         UNCHANGED <<waits, connection, logins, subscribers, walletSubscription>>,
         \A l : Opened(l) => activeKey'[l] \in Keys
  PROVE  CallsOK' /\ SubscribersOK' /\ WaitingOK'
<1> USE DEF connection
<1>1. CallsOK'
  BY DEF CallsOK, ConnectOK, Opened
<1>2. SubscribersOK'
  BY DEF SubscribersOK, Opened
<1>3. WaitingOK'
  BY DEF WaitingOK, OneLogin, OneConnect
<1> QED
  BY <1>1, <1>2, <1>3

\* A keychain with a wallet emits a key: its last wallet has the active account.
LEMMA KeyStep ==
  ASSUME SessionInv, NEW l, NEW key \in Keys, SetActiveKey(l, key), Positions(wallets, l) # {},
         UNCHANGED <<waits, connection, logins, subscribers, walletSubscription, wallets, deriving>>,
         derivations' \in Seq({"asked", "made"}), Len(derivations') = Len(derivations),
         deriving = "none" => l = Last(wallets).login
  PROVE  SessionInv'
<1> DEFINE wallet  == LastMade(wallets, l)
           account == Account(wallet, key)
<1>1. wallets \in Seq(WalletRecord) /\ wallets # <<>>
  <2>1. wallets \in Seq(WalletRecord)
    BY DEF SessionInv, TypesOK, TypeOK, WalletRecord
  <2>2. \E i \in DOMAIN wallets : TRUE
    BY DEF Positions
  <2> QED
    BY <2>1, <2>2
<1>2. wallet \in WalletRecord /\ wallet.login = l
  BY <1>1, LastMadeIsOfLogin
<1>3. Opened(l)
  BY DEF Positions, SessionInv, WalletsOK
<1>4. /\ activeKey' = [activeKey EXCEPT ![l] = key] /\ Emit(account)
  BY DEF SetActiveKey, LastWalletOf, WalletsOf, LastMade, Positions
<1> HIDE DEF wallet
<1>5. account \in AccountRecord /\ account # None /\ account.login = l
  BY <1>2, AccountTyped
<1>6. nodes # <<>>
  BY <1>1 DEF SessionInv, WalletsOK
<1>7. active' = account /\ balances' = balances /\ fetch' \in FetchRecord /\ BalancesFollowActiveAccount'
  <2> HIDE DEF account
  <2> QED
    BY <1>4, <1>5, <1>6, Emits
<1>8. /\ activeKey' \in Seq(0..MaxKeys) /\ Len(activeKey') = Len(activeKey)
      /\ activeKey'[l] = key
      /\ \A m \in DOMAIN logins : m # l => activeKey'[m] = activeKey[m]
  <2>1. activeKey \in Seq(0..MaxKeys) /\ l \in 1..Len(activeKey) /\ DOMAIN logins = 1..Len(activeKey)
    BY <1>3, LenProperties DEF Opened, SessionInv, TypesOK, TypeOK
  <2>2. key \in 0..MaxKeys
    BY SessionAssumption DEF Keys
  <2> QED
    BY <1>4, <2>1, <2>2, ExceptSeq
<1>9. TypesOK'
  <2>1. TypesOK
    BY DEF SessionInv
  <2> QED
    BY <1>5, <1>7, <1>8, <2>1 DEF TypesOK, TypeOK, connection, FetchRecord
<1>10. CallsOK' /\ SubscribersOK' /\ WaitingOK'
  <2>1. \A m : Opened(m) => activeKey'[m] \in Keys
    BY <1>8 DEF Opened, SessionInv, CallsOK
  <2> QED
    BY <2>1, CallsUntouched DEF SessionInv
<1>11. WalletsOK'
  BY DEF SessionInv, WalletsOK, Opened, WalletIsCurrent, connection
<1>12. ActiveOK'
  <2>1. ActiveIsLast(account, wallets', activeKey')
    BY <1>5, <1>8 DEF ActiveIsLast, wallet
  <2> HIDE DEF account
  <2> QED
    BY <1>5, <1>7, <2>1, ActiveKept
<1> QED
  BY <1>7, <1>9, <1>10, <1>11, <1>12 DEF SessionInv

LEMMA SwitchAccountStep ==
  ASSUME SessionInv, NEW key \in Keys, SwitchAccount(key)
  PROVE  SessionInv'
<1>1. wallets \in Seq(WalletRecord) /\ wallets # <<>>
  BY DEF SessionInv, TypesOK, TypeOK, WalletRecord, SwitchAccount
<1>2. Positions(wallets, Last(wallets).login) # {}
  BY <1>1, LastMadeAtEnd
<1>3. derivations \in Seq({"asked", "made"})
  BY DEF SessionInv, TypesOK, TypeOK
<1> QED
  BY <1>2, <1>3, KeyStep DEF SwitchAccount, hardware

LEMMA HWAccountStep ==
  ASSUME SessionInv, NEW i \in DOMAIN derivations, NEW key \in Keys, HWAccountMade(i, key)
  PROVE  SessionInv'
<1>1. /\ deriving = "subscribed" /\ derivations' = [derivations EXCEPT ![i] = "made"]
      /\ SetActiveKey(wallets[i].login, key)
      /\ UNCHANGED <<waits, connection, logins, subscribers, walletSubscription, wallets, deriving>>
  BY DEF HWAccountMade
<1>2. derivations \in Seq({"asked", "made"}) /\ i \in 1..Len(derivations) /\ "made" \in {"asked", "made"}
  BY LenProperties DEF SessionInv, TypesOK, TypeOK
<1>3. derivations' \in Seq({"asked", "made"}) /\ Len(derivations') = Len(derivations)
  BY <1>1, <1>2, ExceptSeq
<1>4. DOMAIN wallets = 1..Len(wallets)
  BY LenProperties DEF SessionInv, TypesOK, TypeOK
<1>5. i \in DOMAIN wallets
  BY <1>1, <1>2, <1>4 DEF SessionInv, WalletsOK
<1>6. Positions(wallets, wallets[i].login) # {}
  BY <1>5 DEF Positions
<1> QED
  BY <1>1, <1>3, <1>6, KeyStep

\* Asking the device for an account changes no account.
LEMMA DerivingSteps ==
  ASSUME SessionInv, DeriveHWAccount \/ DerivingEnds
  PROVE  SessionInv'
<1>1. UNCHANGED <<waits, connection, login, active, fetching>>
  BY DEF DeriveHWAccount, DerivingEnds
<1>2. /\ derivations' \in Seq({"asked", "made"}) /\ deriving' \in {"subscribed", "ended"}
      /\ Len(derivations') <= Len(wallets)
      /\ deriving' = "subscribed" => Len(derivations') = Len(wallets)
  <2>1. wallets \in Seq(WalletRecord) /\ derivations \in Seq({"asked", "made"})
    BY DEF SessionInv, TypesOK, TypeOK, WalletRecord
  <2>2. Len(wallets) \in Nat /\ DOMAIN wallets = 1..Len(wallets)
    BY <2>1, LenProperties
  <2>3. CASE DeriveHWAccount
    <3> DEFINE asked == [i \in DOMAIN wallets |-> "asked"]
    <3>1. asked \in [1..Len(wallets) -> {"asked", "made"}]
      BY <2>2
    <3>2. \A n \in Nat : \A s \in [1..n -> {"asked", "made"}] : s \in Seq({"asked", "made"}) /\ Len(s) = n
      OBVIOUS
    <3>3. asked \in Seq({"asked", "made"}) /\ Len(asked) = Len(wallets)
      BY <2>2, <3>1, <3>2
    <3>4. derivations' = asked /\ deriving' = "subscribed"
      BY <2>3 DEF DeriveHWAccount
    <3> HIDE DEF asked
    <3> QED
      BY <2>2, <3>3, <3>4
  <2>4. CASE DerivingEnds
    BY <2>1, <2>4 DEF DerivingEnds, SessionInv, WalletsOK
  <2> QED
    BY <2>3, <2>4
<1>3. TypesOK'
  BY <1>1, <1>2 DEF SessionInv, TypesOK, TypeOK, connection, login, fetching
<1>4. CallsOK' /\ SubscribersOK' /\ WaitingOK'
  <2>1. \A m : Opened(m) => activeKey'[m] \in Keys
    BY <1>1 DEF login, Opened, SessionInv, CallsOK
  <2> QED
    BY <1>1, <2>1, CallsUntouched DEF SessionInv, login
<1>5. WalletsOK'
  BY <1>1, <1>2 DEF SessionInv, WalletsOK, Opened, WalletIsCurrent, connection, login
<1>6. ActiveOK' /\ BalancesFollowActiveAccount'
  BY <1>1, <1>2 DEF SessionInv, ActiveOK, ActiveAccountIsCurrent, BalancesFollowActiveAccount,
                    WalletsOf, LastWalletOf, login, fetching
<1> QED
  BY <1>3, <1>4, <1>5, <1>6 DEF SessionInv

\* A fetch that starts is for the active address, and ends as that one.
LEMMA FetchSteps ==
  ASSUME SessionInv, TriggerFetch \/ FetchAnswered \/ FetchFailed
  PROVE  SessionInv'
<1>1. UNCHANGED <<waits, connection, login, active, hardware>>
  BY DEF TriggerFetch, FetchAnswered, FetchFailed
<1>2. /\ fetch' \in FetchRecord /\ balances' \in AccountRecord \cup {None}
      /\ BalancesFollowActiveAccount'
  <2>1. CASE TriggerFetch
    <3>1. active \in AccountRecord /\ nodes # <<>>
      <4>1. active # None /\ WalletsOf(active.login) # {}
        BY <2>1 DEF TriggerFetch, SessionInv, ActiveOK
      <4>2. wallets # <<>>
        BY <4>1 DEF WalletsOf
      <4> QED
        BY <4>1, <4>2 DEF SessionInv, TypesOK, TypeOK, WalletsOK
    <3>2. Len(nodes) \in 1..MaxConnects
      BY <3>1, EmptySeq, LenProperties, SessionAssumption DEF SessionInv, TypesOK, TypeOK
    <3> QED
      BY <2>1, <3>1, <3>2
         DEF TriggerFetch, StartFetch, FetchRecord, BalancesFollowActiveAccount, SessionInv, TypesOK, TypeOK
  <2>2. CASE FetchAnswered \/ FetchFailed
    <3>1. fetch \in FetchRecord /\ fetch.state = "asked"
      BY <2>2 DEF FetchAnswered, FetchFailed, SessionInv, TypesOK, TypeOK, FetchRecord
    <3>2. CASE FetchAnswered
      BY <1>1, <3>1, <3>2 DEF FetchAnswered, FetchRecord, BalancesFollowActiveAccount, SessionInv
    <3>3. CASE FetchFailed
      BY <1>1, <3>1, <3>3
         DEF FetchFailed, FetchRecord, BalancesFollowActiveAccount, SessionInv, TypesOK, TypeOK
    <3> QED
      BY <2>2, <3>2, <3>3
  <2> QED
    BY <2>1, <2>2
<1>3. TypesOK'
  BY <1>1, <1>2 DEF SessionInv, TypesOK, TypeOK, connection, login, hardware, FetchRecord
<1>4. CallsOK' /\ SubscribersOK' /\ WaitingOK'
  <2>1. \A m : Opened(m) => activeKey'[m] \in Keys
    BY <1>1 DEF login, Opened, SessionInv, CallsOK
  <2> QED
    BY <1>1, <2>1, CallsUntouched DEF SessionInv, login
<1>5. WalletsOK'
  BY <1>1 DEF SessionInv, WalletsOK, Opened, WalletIsCurrent, connection, login, hardware
<1>6. ActiveOK'
  BY <1>1 DEF SessionInv, ActiveOK, ActiveAccountIsCurrent, WalletsOf, LastWalletOf, login, hardware
<1> QED
  BY <1>2, <1>3, <1>4, <1>5, <1>6 DEF SessionInv

-----------------------------------------------------------------------------
(* The theorems.                                                           *)

LEMMA SessionInit == Init => SessionInv
<1> SUFFICES ASSUME Init PROVE SessionInv
  OBVIOUS
<1> USE DEF Init
<1>1. TypesOK
  BY EmptySeq, SessionAssumption DEF TypesOK, TypeOK
<1>2. CallsOK /\ SubscribersOK
  BY DEF CallsOK, SubscribersOK
<1>3. WalletsOK
  BY EmptySeq DEF WalletsOK, WalletIsCurrent
<1>4. ActiveOK /\ BalancesFollowActiveAccount
  BY DEF ActiveOK, ActiveAccountIsCurrent, BalancesFollowActiveAccount
<1>5. WaitingOK
  BY DEF WaitingOK, OneLogin, OneConnect
<1> QED
  BY <1>1, <1>2, <1>3, <1>4, <1>5 DEF SessionInv

LEMMA SessionStutters ==
  ASSUME SessionInv, UNCHANGED vars
  PROVE  SessionInv'
<1> USE DEF vars, connection, login, hardware, fetching
<1>1. TypesOK'
  BY DEF SessionInv, TypesOK, TypeOK
<1>2. CallsOK' /\ SubscribersOK' /\ WalletsOK'
  BY DEF SessionInv, CallsOK, ConnectOK, SubscribersOK, WalletsOK, Opened, WalletIsCurrent
<1>3. ActiveOK' /\ BalancesFollowActiveAccount'
  BY DEF SessionInv, ActiveOK, ActiveAccountIsCurrent, BalancesFollowActiveAccount, WalletsOf, LastWalletOf
<1>4. WaitingOK'
  BY DEF SessionInv, WaitingOK, OneLogin, OneConnect
<1> QED
  BY <1>1, <1>2, <1>3, <1>4 DEF SessionInv

\* However the calls of connect and login overlap or fail, whatever node answers
\* and whatever the device does, the session keeps its invariant.
THEOREM SessionInvariant == Spec => []SessionInv
<1>1. ASSUME SessionInv, [Next]_vars PROVE SessionInv'
  BY <1>1, ConnectStep, NetworkIdStep, NativeTokenStep, LoginStep, LoginOpenedStep, LoginFailedStep,
     SwitchAccountStep, DerivingSteps, HWAccountStep, FetchSteps, SessionStutters DEF Next
<1> QED
  BY <1>1, SessionInit, PTL DEF Spec

\* The variables have their types.
THEOREM TypeCorrect == Spec => []TypeOK
<1>1. SessionInv => TypeOK
  BY DEF SessionInv, TypesOK
<1> QED
  BY <1>1, SessionInvariant, PTL

\* The wallet in use is of the login that opened last and the network that came
\* last, unless that login has been ended by another.
THEOREM WalletsAreCurrent == Spec => []WalletIsCurrent
<1>1. SessionInv => WalletIsCurrent
  BY DEF SessionInv, WalletsOK
<1> QED
  BY <1>1, SessionInvariant, PTL

\* The active account is the key made active last by its keychain, on the
\* network its last wallet is of.
THEOREM ActiveAccountsAreCurrent == Spec => []ActiveAccountIsCurrent
<1>1. SessionInv => ActiveAccountIsCurrent
  BY DEF SessionInv, ActiveOK
<1> QED
  BY <1>1, SessionInvariant, PTL

\* Balances of an account that is no longer active never stand.
THEOREM BalancesAreOfActiveAccount == Spec => []BalancesFollowActiveAccount
<1>1. SessionInv => BalancesFollowActiveAccount
  BY DEF SessionInv
<1> QED
  BY <1>1, SessionInvariant, PTL

\* A caller who waits for each call ends with one subscription and the account
\* of the last login on the network of the last node.
THEOREM WaitingSettles == Spec => []SettledSession
<1>1. ASSUME SessionInv PROVE SettledSession
  <2> SUFFICES ASSUME waits, logins # <<>>, connects # <<>>, Last(logins) = "opened",
                      Last(connects).state = "connected"
               PROVE  /\ subscribers = <<Len(logins)>>
                      /\ Last(wallets) = Wallet(Len(logins), NetworkOf[Last(nodes)])
                      /\ deriving = "none" => active = Account(Last(wallets), activeKey[Len(logins)])
    BY DEF SettledSession
  <2>1. OneLogin /\ OneConnect
    BY <1>1 DEF SessionInv, WaitingOK
  <2>2. subscribers = <<Len(logins)>> /\ walletSubscription = Len(logins)
    BY <2>1 DEF OneLogin
  <2>3. networks # <<>> /\ Last(networks) = NetworkOf[Last(nodes)]
    BY <2>1 DEF OneConnect
  <2>4. Contains(subscribers, walletSubscription)
    BY <2>2 DEF Contains
  <2>5. wallets # <<>> /\ Last(wallets) = Wallet(Len(logins), NetworkOf[Last(nodes)])
    BY <1>1, <2>2, <2>3, <2>4 DEF SessionInv, WalletsOK, WalletIsCurrent
  <2>6. ASSUME deriving = "none" PROVE active = Account(Last(wallets), activeKey[Len(logins)])
    <3>1. active # None /\ active.login = Last(wallets).login
      BY <1>1, <2>5, <2>6 DEF SessionInv, ActiveOK, ActiveAccountIsCurrent
    <3>2. active = Account(LastMade(wallets, active.login), activeKey[active.login])
      BY <1>1, <3>1, ActiveByPositions DEF ActiveIsLast
    <3>3. wallets \in Seq(WalletRecord)
      BY <1>1 DEF SessionInv, TypesOK, TypeOK, WalletRecord
    <3>4. LastMade(wallets, Last(wallets).login) = Last(wallets)
      BY <2>5, <3>3, LastMadeAtEnd
    <3>5. Last(wallets).login = Len(logins)
      BY <2>5 DEF Wallet
    <3> QED
      BY <3>1, <3>2, <3>4, <3>5
  <2> QED
    BY <2>2, <2>5, <2>6
<1>2. SessionInv => SettledSession
  BY <1>1
<1> QED
  BY <1>2, SessionInvariant, PTL
=============================================================================
