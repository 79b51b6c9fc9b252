---- MODULE MCBackend ----
EXTENDS Backend
====
