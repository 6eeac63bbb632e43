--------------------------- MODULE IdentityConstants ---------------------------
\* The instance Identity is about.
EXTENDS Integers

CONSTANTS
  People,       \* numbered from 1 for the order they come in
  MaxSessions,  \* bound: sessions ever opened
  Nobody,
  Unread        \* a query with no data

ASSUME IdentityAssumption ==
  /\ MaxSessions \in Nat
  /\ Nobody \notin People /\ Unread \notin People /\ Unread # Nobody
=============================================================================
