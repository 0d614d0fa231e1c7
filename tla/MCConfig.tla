------------------------------ MODULE MCConfig ------------------------------
(* Instances of Config for TLC.                                            *)
EXTENDS Config

\* The settings with a flag of their own, those without, and the miswired.
SmallFiles == {s \in SUBSET {"TcpPort", "TcpTls", "ClusterTls", "Websocket", "WsTls", "Clusters",
                             "Debug"} : \A a, b, c \in s : a = b \/ b = c \/ a = c}
=============================================================================
