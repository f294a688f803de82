--------------------------- MODULE MCNodeAnswers ---------------------------
(* A small instance of NodeAnswers for TLC: short fields, and transactions *)
(* with every instruction and every substate that is parsed.               *)
EXTENDS NodeAnswers

\* Keys are a sign and an x modulo 238, which some bytes exceed.
Modulus == 238
Curve ==
  [key \in {<<sign, x>> : sign \in {2, 3}, x \in {17, 4, 17 + Modulus, 4 + Modulus}} |->
     <<key[1], key[2] % Modulus>>]

System == <<<<0>>>>
Token  == <<<<1>>>>
Hashed == <<<<3>>, <<4, 9>>>>
Owner  == <<<<4>>, <<3, 4>>>>

UpOf(type, fields) == <<<<2>>, <<0, 7, type>>>> \o fields

Ups ==
  {UpOf(6, <<<<0>>>> \o owner \o resource \o <<<<1, 2>>>>)
     : owner \in {Hashed, Owner}, resource \in {Token}}
  \cup {UpOf(type, <<<<0>>, <<2, 17>>>> \o Owner \o <<<<0, 5>>>>) : type \in {7, 8, 9}}
  \cup {UpOf(14, <<<<0>>, <<2, 17>>, <<flag>>>>) : flag \in {0, 1}}
  \cup {UpOf(17, <<<<0>>, <<2, 17>>>> \o System)}

Others ==
  {<<<<0>>>>, <<<<3>>, <<7>>, <<0>>>>, <<<<7>>, <<8>>, <<1>>>>, <<<<8>>, <<0, 1>>>>,
   <<<<11>>, <<1>>, <<3, 4>>, <<5, 6>>>>, <<<<13>>, <<10>>, <<1>>>>}
  \cup {<<<<type>>, <<0, Len(data)>>, data>> : type \in {1, 5, 9, 12}, data \in {<<2, 0>>}}
  \cup {<<<<12>>, <<0, 0>>, <<>>>>}

Built2 ==
  {<<header, down, up, end>> : header \in {<<<<13>>, <<10>>, <<1>>>>}, down \in {<<<<7>>, <<8>>, <<1>>>>},
                               up \in Ups, end \in {<<<<0>>>>}}

SomeTransactions == {<<instruction>> : instruction \in Ups \cup Others} \cup Built2
=============================================================================
