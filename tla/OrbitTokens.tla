----------------------------- MODULE OrbitTokens -----------------------------
(***************************************************************************)
(* What terminal credentials promise, whatever requests overlap: a token   *)
(* is granted only on the user's present password and only while the user  *)
(* is enabled, and the very step that changes a password or disables a     *)
(* user withdraws every token of that user.  A token is a record that      *)
(* names its user and the password it was granted on (its proof).          *)
(***************************************************************************)
CONSTANT Users

VARIABLES secret,   \* user -> the identity of the present password
          enabled,  \* the users who may log in
          granted   \* the tokens that are accepted

TokensInit == granted = {}

WithdrawAll(u) == granted' = {k \in granted : k.user # u}

(* The password of u becomes another one.                                  *)
Revise(u) ==
    /\ secret'[u] # secret[u]
    /\ \A v \in Users \ {u} : secret'[v] = secret[v]
    /\ WithdrawAll(u)
    /\ UNCHANGED enabled

Disable(u) ==
    /\ enabled' = enabled \ {u}
    /\ WithdrawAll(u)
    /\ UNCHANGED secret

Enable(u) ==
    /\ enabled' = enabled \cup {u}
    /\ UNCHANGED <<secret, granted>>

Grant ==
    /\ granted \subseteq granted'
    /\ \A k \in granted' \ granted : k.user \in enabled /\ k.proof = secret[k.user]
    /\ UNCHANGED <<secret, enabled>>

(* Logging out, or the token expires.                                      *)
Withdraw ==
    /\ granted' \subseteq granted
    /\ UNCHANGED <<secret, enabled>>

TokensNext ==
    \/ \E u \in Users : Revise(u) \/ Disable(u) \/ Enable(u)
    \/ Grant \/ Withdraw

TokensSpec == TokensInit /\ [][TokensNext]_<<secret, enabled, granted>>
=============================================================================
