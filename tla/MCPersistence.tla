---- MODULE MCPersistence ----
EXTENDS Persistence
MCRules == {[threshold |-> 90, sources |-> {}]}
MCConfigured == {[alert |-> 70, block |-> 85, escalate |-> 95], Defaults}
====
