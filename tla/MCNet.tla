------------------------------- MODULE MCNet -------------------------------
EXTENDS Net

MCHosts == {"gw", "ns"}
MCFar == {"far"}
MCAddressOf == [n \in {"a", "1.2.3.4", "none", "bad"} |->
                   CASE n = "a" -> "far" [] n = "1.2.3.4" -> "gw" [] OTHER -> NoIp]

\* Echo requests of one station; of two, for the limit described in README.md.
OneAsks == [ip \in MCFar |-> 2]
TwoAsk == [ip \in {"far", "ns"} |-> 1]
=============================================================================
