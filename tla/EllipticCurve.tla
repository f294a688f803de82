--------------------------- MODULE EllipticCurve ---------------------------
(***************************************************************************)
(* Keys and points of secp256k1 (packages/crypto, elliptic-curve), ideal:  *)
(* a public key stands for the pair it is of, what two pairs agree on is   *)
(* the set of both, and a sum of points is of the two and of no others.    *)
(***************************************************************************)

CONSTANT NotAKey   \* bytes that are no point of the curve

IsPublicKey(bytes) == bytes # NotAKey

DiffieHellman(mine, theirs) == {mine, theirs}

AddPoints(point, other) == <<point, other>>
=============================================================================
