----------------------------- MODULE MCQos2Flow -----------------------------
(* An instance of Qos2Flow for TLC.                                        *)
EXTENDS Qos2Flow

CONSTANTS c1, c2

\* One client goes on to a second message, and its connection may break.
MCMessages == [c \in Clients |-> IF c = c1 THEN 2 ELSE 1]
MCReconnects == [c \in Clients |-> IF c = c1 THEN 1 ELSE 0]
=============================================================================
