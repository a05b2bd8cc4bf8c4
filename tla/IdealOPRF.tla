------------------------------ MODULE IdealOPRF ------------------------------
(***************************************************************************)
(* What a session promises the client: one evaluation of the PRF that the  *)
(* server's key fixed before the client asked, or no output at all.  A     *)
(* server that sends symbols of another key can change e only at positions *)
(* the client leaves unchallenged.                                         *)
(***************************************************************************)
EXTENDS FiniteSets, Integers

CONSTANT K       \* how many positions of e are challenged
VARIABLES prf,   \* the transcript of the PRF: [e, ePrime, x]
          wrongSymbols, \* whether the server sends symbols of another key
          challenged, client, out, report
vars == <<prf, wrongSymbols, challenged, client, out, report>>

Init == challenged = {} /\ client = "running" /\ out = <<>> /\ report = "none"

Challenge ==
  /\ client = "running" /\ challenged = {}
  /\ Cardinality(challenged') = K /\ challenged' \subseteq DOMAIN prf.e
  /\ UNCHANGED <<prf, wrongSymbols, client, out, report>>

Evaluate ==
  /\ client = "running" /\ client' = "done"
  /\ challenged # {}
  /\ out'.ePrime = prf.ePrime /\ out'.x = prf.x /\ DOMAIN out'.e = DOMAIN prf.e
  /\ \A i \in DOMAIN prf.e : i \in challenged \/ ~ wrongSymbols => out'.e[i] = prf.e[i]
  /\ UNCHANGED <<prf, wrongSymbols, challenged, report>>

Abort == /\ client = "running" /\ client' = "aborted"
         /\ UNCHANGED <<prf, wrongSymbols, challenged, out, report>>

Report == /\ client # "running" /\ report = "none"
          /\ report' = IF client = "done" THEN "successful" ELSE "failed"
          /\ UNCHANGED <<prf, wrongSymbols, challenged, client, out>>

Next == Challenge \/ Evaluate \/ Abort \/ Report
Spec == Init /\ [][Next]_vars
=============================================================================
