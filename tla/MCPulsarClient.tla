--------------------------- MODULE MCPulsarClient ---------------------------
\* The Pulsar client on one topic, one of two messages sent with SendAsync.
EXTENDS PulsarClient
CONSTANTS m2, t
OneTopic == [m \in Messages |-> t]
Second == {m2}
=============================================================================
