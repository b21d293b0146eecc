---------------------------- MODULE MCGuestCalls ----------------------------
EXTENDS GuestCalls

CONSTANTS v1, v2

\* Every list of at most three steps.
AllProvisions ==
  UNION {[1..n -> {"exec", "service", "upload", "bad"}] : n \in 0..2}
    \cup [1..3 -> {"exec", "upload"}]
=============================================================================
