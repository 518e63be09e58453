----------------------------- MODULE MCInstalls -----------------------------
(* Two runs over the two ends of the shared secret, on a host that is      *)
(* empty or has the gateway, which is to serve no name or one; the chat is *)
(* to serve the same one with a mirror.                                    *)
EXTENDS Installs, TLC

CONSTANTS gateway, chat, a, b

MCServices == {gateway, chat}
MCBefore   == {{}, {gateway}}
MCHeaders  == gateway :> {{}, {a}} @@ chat :> {{a, b}}

InstallsSymmetry == Permutations(Runs) \cup Permutations(Secrets)
=============================================================================
