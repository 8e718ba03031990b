------------------------- MODULE MCProtocolOutbound -------------------------
(* Instances of ProtocolOutbound for TLC. *)
EXTENDS ProtocolOutbound

CONSTANTS d1,  \* the peer's device
          s1   \* another device of the user
=============================================================================
