---------------------------- MODULE MCServerApp ----------------------------
(* Small instances of ServerApp for TLC: each of two connections may come  *)
(* from either of two users, and both are used again.                      *)
EXTENDS ServerApp

=============================================================================
