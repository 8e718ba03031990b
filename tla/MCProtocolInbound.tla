-------------------------- MODULE MCProtocolInbound --------------------------
(* Instances of ProtocolInbound for TLC.                                    *)
EXTENDS ProtocolInbound

CONSTANTS text, reaction, alice, bob  \* a text, a reaction, the devices that sent them

\* One sender's message may overtake the other's, and wait beside it.
MCSender == [x \in Events |-> IF x = text THEN alice ELSE bob]
=============================================================================
