------------------------------ MODULE MCShield ------------------------------
(* Shield with centrals that keep their address, a1 and a2, one of which    *)
(* also comes behind the resolvable private address r.                      *)
EXTENDS Shield, TLC

CONSTANTS a1, a2, r, torn

MCAddr == {a1, a2, r}
MCRpa == {r}
MCIdentity == (a1 :> a1) @@ (a2 :> a2) @@ (r :> a2)

SmallAddr == {a1, r}
SmallIdentity == (a1 :> a1) @@ (r :> a1)

MCCleared == {ZeroAddr, torn}

MCEdiv == {7, 65535}
=============================================================================
