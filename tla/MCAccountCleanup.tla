---------------------------- MODULE MCAccountCleanup ----------------------------
EXTENDS AccountCleanup

CONSTANTS a, b, t1, t2

\* A submission or a guidebook beside a guidebook or a submitted file.
MCKinds == [t \in Transfer |-> IF t = t1 THEN {"submit", "guidebook"} ELSE {"guidebook", "file"}]
MCFiles == [t \in Transfer |-> {"file"}]
=============================================================================
