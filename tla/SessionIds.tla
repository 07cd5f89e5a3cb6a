----------------------------- MODULE SessionIds -----------------------------
\* The session identifiers that the cost ledger and the session table share.
CONSTANT Sids

ASSUME SidsAssumption == Sids # {}
=============================================================================
