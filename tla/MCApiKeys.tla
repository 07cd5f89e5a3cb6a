---- MODULE MCApiKeys ----
EXTENDS ApiKeys
====
