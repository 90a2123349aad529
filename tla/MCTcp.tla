------------------------------- MODULE MCTcp -------------------------------
EXTENDS Tcp

\* Request and response lengths of the instances.
TwoAndOne == [h \in Hosts |-> IF h = Client THEN 2 ELSE 1]
ThreeAndNone == [h \in Hosts |-> IF h = Client THEN 3 ELSE 0]
FourAndNone == [h \in Hosts |-> IF h = Client THEN 4 ELSE 0]
OneAndOne == [h \in Hosts |-> 1]
=============================================================================
