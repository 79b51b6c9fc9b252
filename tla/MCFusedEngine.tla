---- MODULE MCFusedEngine ----
EXTENDS FusedEngine
MCSpecialists == << "PortScan", "ZeroDay" >>
MCAnswers == {[validated |-> TRUE, confidence |-> 70], [validated |-> TRUE, confidence |-> 90],
              [validated |-> FALSE, confidence |-> 95]}
====
