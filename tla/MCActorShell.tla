---------------------------- MODULE MCActorShell ----------------------------
(* Instances of ActorShell for TLC.                                          *)
EXTENDS ActorShell

CONSTANTS alice, chat \* an account, a chat of its
=============================================================================
