--------------------------- MODULE MCNacosConfig ---------------------------
\* The configuration centre with four versions, one unreadable and one empty.
EXTENDS NacosConfig
CONSTANTS s1, s2
Unreadable == {2}
Textless == {3}
SetBase == {s2}
=============================================================================
