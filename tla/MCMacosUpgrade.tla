-------------------------- MODULE MCMacosUpgrade --------------------------
(***************************************************************************)
(* One run of either program for TLC, with two Keychain accounts.           *)
(***************************************************************************)
EXTENDS MacosUpgrade, TLC

CONSTANTS accessToken, refreshToken
MCAccounts == {accessToken, refreshToken}
AccountSymmetry == Permutations(MCAccounts)
=============================================================================
