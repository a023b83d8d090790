---------------------------- MODULE TokenFamily ----------------------------
(***************************************************************************)
(* What the session server promises about a mobile login: its tokens form  *)
(* one chain, only the newest can be exchanged, each is exchanged once,    *)
(* and a login that was closed stays closed.                               *)
(***************************************************************************)
EXTENDS Naturals

CONSTANT Login

VARIABLES
  family,   \* whether a login exists and its tokens may still be exchanged
  newest    \* generation of the newest token of a login

Init ==
  /\ family = [s \in Login |-> "none"]
  /\ newest = [s \in Login |-> 0]

Open(s) ==
  /\ family[s] = "none"
  /\ family' = [family EXCEPT ![s] = "open"]
  /\ newest' = [newest EXCEPT ![s] = 1]

\* The newest token of s buys the next one.
Exchange(s) ==
  /\ family[s] = "open"
  /\ newest' = [newest EXCEPT ![s] = newest[s] + 1]
  /\ UNCHANGED family

Close(S) ==
  /\ \A s \in S : family[s] # "none"
  /\ family' = [s \in Login |-> IF s \in S THEN "closed" ELSE family[s]]
  /\ UNCHANGED newest

Next ==
  \/ \E s \in Login : Open(s) \/ Exchange(s)
  \/ \E S \in SUBSET Login : Close(S)

Spec == Init /\ [][Next]_<<family, newest>>
=============================================================================
