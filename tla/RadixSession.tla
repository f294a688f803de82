----------------------------- MODULE RadixSession -----------------------------
(***************************************************************************)
(* The session of packages/application (radix.ts): connect and login, the  *)
(* wallets they make together, the active account, and the balances that   *)
(* are fetched for it.                                                     *)
(*                                                                         *)
(* What the streams of the code amount to:                                 *)
(*  - nodeSubject, networkSubject and walletSubject replay all they ever   *)
(*    emitted, and are sequences;                                          *)
(*  - a call to the API is made to the node in use and, while it is not    *)
(*    answered, to each node connected to later; the first answer counts;  *)
(*  - every wallet stays observed (mergeMap): when the key of a keychain   *)
(*    changes, all its wallets emit, in order, and the last one stands;    *)
(*  - a fetch is replaced by the next one (switchMap).                     *)
(* The application observes activeAccount and tokenBalances from the start.*)
(***************************************************************************)
EXTENDS Integers, Sequences, FiniteSets, SequencesExt

CONSTANTS
  Nodes,        \* nodes that can be connected to
  Networks,     \* networks
  NetworkOf,    \* the network each node serves
  MaxConnects,  \* bound: calls of connect
  MaxLogins,    \* bound: calls of login
  MaxKeys       \* bound: keys of a keychain

ASSUME SessionAssumption ==
  /\ NetworkOf \in [Nodes -> Networks]
  /\ MaxConnects \in Nat
  /\ MaxLogins \in Nat
  /\ MaxKeys \in Nat \ {0}

VARIABLES
  waits,         \* the caller waits for a connect or login before the next
  nodes,         \* what nodeSubject has emitted: one node for each connect
  connects,      \* the calls of connect, at the position of their node
  networks,      \* what networkSubject has emitted
  logins,        \* the calls of login
  activeKey,     \* per login: the active key of its keychain, 0 before
  subscribers,   \* logins subscribed to networkSubject, in order
  walletSubscription,  \* the login it was assigned for last, 0 for none
  wallets,       \* what walletSubject has emitted
  active,        \* what activeAccount has emitted last
  deriving,      \* the call of deriveHWAccount
  derivations,   \* per wallet: the hardware derivation asked of it
  fetch,         \* the last fetch of balances
  balances       \* what tokenBalances has emitted last: whose they are

connection == <<nodes, connects, networks>>
login == <<logins, activeKey, subscribers, walletSubscription, wallets>>
hardware == <<deriving, derivations>>
fetching == <<fetch, balances>>

vars == <<waits, connection, login, active, hardware, fetching>>

Keys == 1..MaxKeys
None == [login |-> 0]

Wallet(l, network) == [login |-> l, network |-> network]
Account(wallet, key) == [login |-> wallet.login, network |-> wallet.network, key |-> key]

-----------------------------------------------------------------------------
(* Emissions.                                                              *)

\* A slip: a fetch under way is let through first (exhaustMap).
StartFetchUnlessBusy(account) ==
  fetch' = IF fetch.state = "asked" THEN fetch
           ELSE [state |-> "asked", address |-> account, node |-> Len(nodes)]

\* activeAddress or the trigger emits: the node in use is asked.
StartFetch(account) ==
  fetch' = [state |-> "asked", address |-> account, node |-> Len(nodes)]

Emit(account) == active' = account /\ StartFetch(account) /\ UNCHANGED balances

\* A call of deriveHWAccount is subscribed to wallet$ and asks every wallet.
AskDevice(new) ==
  derivations' = IF deriving = "subscribed"
                 THEN derivations \o [i \in DOMAIN new |-> "asked"] ELSE derivations

\* walletSubject emits: each wallet emits its active account.
EmitWallets(new) ==
  /\ wallets' = wallets \o new
  /\ AskDevice(new)
  /\ IF new = <<>> THEN UNCHANGED <<active, fetching>>
                   ELSE Emit(Account(Last(new), activeKey'[Last(new).login]))

WalletsOf(l) == {i \in DOMAIN wallets : wallets[i].login = l}

\* A slip: the first wallet of the login.
FirstWalletOf(l) == wallets[Min(WalletsOf(l))]

LastWalletOf(l) == wallets[Max(WalletsOf(l))]

\* The keychain of a login emits a key: all its wallets emit an account.
SetActiveKey(l, key) ==
  /\ activeKey' = [activeKey EXCEPT ![l] = key]
  /\ Emit(Account(LastWalletOf(l), key))

-----------------------------------------------------------------------------
(* Connecting.                                                             *)

Connecting == \E c \in DOMAIN connects : connects[c].state \in {"networkId", "nativeToken"}

Connect(node) ==
  /\ Len(nodes) < MaxConnects /\ (waits => ~Connecting)
  /\ nodes' = Append(nodes, node)
  /\ connects' = Append(connects, [state |-> "networkId", since |-> Len(nodes) + 1,
                                   network |-> "none"])
  /\ UNCHANGED <<waits, networks, login, active, hardware, fetching>>

\* The nodes that the call under way was made to.
Asked(c) == connects[c].since..Len(nodes)

NetworkIdAnswered(c) ==
  /\ connects[c].state = "networkId"
  /\ \E i \in Asked(c) :
       connects' = [connects EXCEPT ![c] = [state |-> "nativeToken", since |-> Len(nodes),
                                            network |-> NetworkOf[nodes[i]]]]
  /\ UNCHANGED <<waits, nodes, networks, login, active, hardware, fetching>>

\* A node knows the native token of its own network. Each login subscribed
\* makes a wallet for the network.
NativeTokenAnswered(c) ==
  /\ connects[c].state = "nativeToken"
  /\ \E i \in Asked(c) : NetworkOf[nodes[i]] = connects[c].network
  /\ connects' = [connects EXCEPT ![c].state = "connected"]
  /\ networks' = Append(networks, connects[c].network)
  /\ UNCHANGED activeKey
  /\ EmitWallets([i \in DOMAIN subscribers |-> Wallet(subscribers[i], connects[c].network)])
  /\ UNCHANGED <<waits, nodes, logins, subscribers, walletSubscription, deriving>>

ConnectFailed(c) ==
  /\ connects[c].state \in {"networkId", "nativeToken"}
  /\ connects' = [connects EXCEPT ![c].state = "failed"]
  /\ UNCHANGED <<waits, nodes, networks, login, active, hardware, fetching>>

-----------------------------------------------------------------------------
(* Logging in.                                                             *)

\* A slip: the previous login keeps its subscription.
LoginKeepingPrevious ==
  /\ Len(logins) < MaxLogins /\ (waits => ~(\E l \in DOMAIN logins : logins[l] = "decrypting"))
  /\ logins' = Append(logins, "decrypting")
  /\ activeKey' = Append(activeKey, 0)
  /\ UNCHANGED <<waits, connection, subscribers, walletSubscription, wallets, active, hardware,
                 fetching>>

\* A login subscribes once, and has one position.
Unsubscribed(l) ==
  IF Contains(subscribers, l)
  THEN RemoveAt(subscribers, CHOOSE i \in DOMAIN subscribers : subscribers[i] = l)
  ELSE subscribers

\* The subscription remembered last is ended while the keystore is decrypted.
Login ==
  /\ Len(logins) < MaxLogins /\ (waits => ~(\E l \in DOMAIN logins : logins[l] = "decrypting"))
  /\ logins' = Append(logins, "decrypting")
  /\ activeKey' = Append(activeKey, 0)
  /\ subscribers' = Unsubscribed(walletSubscription)
  /\ UNCHANGED <<waits, connection, walletSubscription, wallets, active, hardware, fetching>>

\* Slips: a keychain without its initial key, and a login that takes part in
\* the networks to come only.
LoginOpenedEmpty(l) ==
  /\ logins[l] = "decrypting"
  /\ logins' = [logins EXCEPT ![l] = "opened"]
  /\ subscribers' = Append(subscribers, l)
  /\ walletSubscription' = l
  /\ UNCHANGED activeKey
  /\ EmitWallets([i \in DOMAIN networks |-> Wallet(l, networks[i])])
  /\ UNCHANGED <<waits, connection, deriving>>

LoginOpenedLate(l) ==
  /\ logins[l] = "decrypting"
  /\ logins' = [logins EXCEPT ![l] = "opened"]
  /\ activeKey' = [activeKey EXCEPT ![l] = 1]
  /\ subscribers' = Append(subscribers, l)
  /\ walletSubscription' = l
  /\ UNCHANGED <<waits, connection, wallets, active, hardware, fetching>>

\* The keychain, with its first key, makes a wallet for each network.
LoginOpened(l) ==
  /\ logins[l] = "decrypting"
  /\ logins' = [logins EXCEPT ![l] = "opened"]
  /\ activeKey' = [activeKey EXCEPT ![l] = 1]
  /\ subscribers' = Append(subscribers, l)
  /\ walletSubscription' = l
  /\ EmitWallets([i \in DOMAIN networks |-> Wallet(l, networks[i])])
  /\ UNCHANGED <<waits, connection, deriving>>

\* The keystore could not be loaded, or the password is wrong.
LoginFailed(l) ==
  /\ logins[l] = "decrypting"
  /\ logins' = [logins EXCEPT ![l] = "failed"]
  /\ UNCHANGED <<waits, connection, activeKey, subscribers, walletSubscription, wallets, active,
                 hardware, fetching>>

-----------------------------------------------------------------------------
(* The active account and its balances.                                    *)

\* switchAccount, deriveNextAccount or addAccountFromPrivateKey makes a key of
\* the wallet in use active.
SwitchAccount(key) ==
  /\ wallets # <<>>
  /\ SetActiveKey(Last(wallets).login, key)
  /\ UNCHANGED <<waits, connection, logins, subscribers, walletSubscription, wallets, hardware>>

\* deriveHWAccount, with alsoSwitchTo, asks every wallet there was.
DeriveHWAccount ==
  /\ deriving = "none"
  /\ deriving' = "subscribed"
  /\ derivations' = [i \in DOMAIN wallets |-> "asked"]
  /\ UNCHANGED <<waits, connection, login, active, fetching>>

HWAccountMade(i, key) ==
  /\ deriving = "subscribed" /\ derivations[i] = "asked"
  /\ derivations' = [derivations EXCEPT ![i] = "made"]
  /\ SetActiveKey(wallets[i].login, key)
  /\ UNCHANGED <<waits, connection, logins, subscribers, walletSubscription, wallets, deriving>>

\* The device refuses, which ends the stream, or the caller unsubscribes.
DerivingEnds ==
  /\ deriving = "subscribed"
  /\ deriving' = "ended"
  /\ UNCHANGED <<waits, connection, login, active, derivations, fetching>>

TriggerFetch ==
  /\ active # None
  /\ StartFetch(active)
  /\ UNCHANGED <<waits, connection, login, active, hardware, balances>>

\* A node knows the balances of the addresses of its own network.
FetchAnswered ==
  /\ fetch.state = "asked"
  /\ NetworkOf[nodes[fetch.node]] = fetch.address.network
  /\ fetch' = [fetch EXCEPT !.state = "answered"]
  /\ balances' = fetch.address
  /\ UNCHANGED <<waits, connection, login, active, hardware>>

\* The error goes to `errors`; the stream survives it.
FetchFailed ==
  /\ fetch.state = "asked"
  /\ fetch' = [fetch EXCEPT !.state = "failed"]
  /\ UNCHANGED <<waits, connection, login, active, hardware, balances>>

-----------------------------------------------------------------------------
Init ==
  /\ waits \in BOOLEAN
  /\ nodes = <<>> /\ connects = <<>> /\ networks = <<>>
  /\ logins = <<>> /\ activeKey = <<>>
  /\ subscribers = <<>> /\ walletSubscription = 0
  /\ wallets = <<>>
  /\ active = None
  /\ deriving = "none" /\ derivations = <<>>
  /\ fetch = [state |-> "none"]
  /\ balances = None

Next ==
  \/ \E node \in Nodes : Connect(node)
  \/ \E c \in DOMAIN connects : NetworkIdAnswered(c) \/ NativeTokenAnswered(c) \/ ConnectFailed(c)
  \/ Login
  \/ \E l \in DOMAIN logins : LoginOpened(l) \/ LoginFailed(l)
  \/ \E key \in Keys : SwitchAccount(key)
  \/ DeriveHWAccount
  \/ \E i \in DOMAIN derivations, key \in Keys : HWAccountMade(i, key)
  \/ DerivingEnds
  \/ TriggerFetch
  \/ FetchAnswered
  \/ FetchFailed

Spec == Init /\ [][Next]_vars

-----------------------------------------------------------------------------
(* Properties.                                                             *)

ConnectRecord ==
  [state : {"networkId", "nativeToken", "connected", "failed"},
   since : 1..MaxConnects,
   network : Networks \cup {"none"}]

AccountRecord == [login : 1..MaxLogins, network : Networks, key : Keys]

\* The variables stay within the values the code can give them.
TypeOK ==
  /\ waits \in BOOLEAN
  /\ nodes \in Seq(Nodes) /\ networks \in Seq(Networks)
  /\ connects \in Seq(ConnectRecord) /\ Len(connects) = Len(nodes)
  /\ logins \in Seq({"decrypting", "opened", "failed"})
  /\ activeKey \in Seq(0..MaxKeys) /\ Len(activeKey) = Len(logins)
  /\ subscribers \in Seq(1..MaxLogins) /\ walletSubscription \in 0..MaxLogins
  /\ wallets \in Seq([login : 1..MaxLogins, network : Networks])
  /\ active \in AccountRecord \cup {None}
  /\ deriving \in {"none", "subscribed", "ended"}
  /\ derivations \in Seq({"asked", "made"})
  /\ \/ fetch = [state |-> "none"]
     \/ fetch \in [state : {"asked", "answered", "failed"}, address : AccountRecord,
                   node : 1..MaxConnects]
  /\ balances \in AccountRecord \cup {None}

\* Whichever of login and connect ends first, and however their calls overlap:
\* the wallet in use is the one of the login that opened last, on the network
\* that came last, unless that login has been ended by another call of login.
WalletIsCurrent ==
  networks # <<>> /\ Contains(subscribers, walletSubscription)
    => wallets # <<>> /\ Last(wallets) = Wallet(walletSubscription, Last(networks))

\* The active account is the key its keychain made active last, never one of an
\* earlier network of that login, and of the wallet in use as long as no
\* hardware account was derived.
ActiveAccountIsCurrent ==
  active # None =>
    /\ active = Account(LastWalletOf(active.login), activeKey[active.login])
    /\ deriving = "none" => active.login = Last(wallets).login

\* A caller who waits for each connect and login, and whose last ones were
\* successful, has one wallet subscription, and an active account of that
\* login on the network that the node in use serves.
SettledSession ==
  waits /\ logins # <<>> /\ connects # <<>>
        /\ Last(logins) = "opened" /\ Last(connects).state = "connected"
    => /\ subscribers = <<Len(logins)>>
       /\ Last(wallets) = Wallet(Len(logins), NetworkOf[Last(nodes)])
       /\ deriving = "none" =>
            active = Account(Last(wallets), activeKey[Len(logins)])

\* The balances on show are those of the active address, or a fetch for it is
\* under way or has failed: a late answer for an earlier address is dropped.
BalancesFollowActiveAccount ==
  active # None =>
    /\ fetch.state # "none" /\ fetch.address = active
    /\ fetch.state = "answered" => balances = active
=============================================================================
