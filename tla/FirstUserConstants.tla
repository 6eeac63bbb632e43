--------------------------- MODULE FirstUserConstants ---------------------------
\* The instance FirstUser is about.
EXTENDS Integers

CONSTANTS
  Instances,  \* API processes
  Emails,     \* addresses an environment or a visitor may have
  NoOne,      \* no credentials, and nobody
  MaxUsers    \* bound: users ever made

ASSUME StartAssumption ==
  /\ NoOne \notin Instances /\ NoOne \notin Emails
  /\ MaxUsers \in Nat
=============================================================================
