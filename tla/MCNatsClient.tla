---------------------------- MODULE MCNatsClient ----------------------------
\* The NATS client with two pull loops, one of two messages sent with SendAsync.
EXTENDS NatsClient
CONSTANTS m2, p1
Second == {m2}
First == p1
=============================================================================
