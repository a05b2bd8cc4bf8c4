------------------------------ MODULE IdealVole ------------------------------
(***************************************************************************)
(* What VolePlus promises to the session: the receiver gets o = u + h*v    *)
(* and the inner products of u and v with a gamma it drew itself.  From a  *)
(* sender that deviated it gets nothing, unless the deviation is hidden by *)
(* what the receiver drew or comes after the check: then o and cv may be   *)
(* anything, but cu still ties them together.  It does not wait for ever.  *)
(***************************************************************************)
EXTENDS Integers

CONSTANTS P, Length, Gammas
VARIABLES input, h, corrupted, \* the sender's [u, v], the receiver's h
          phase, gamma, hidden, out
vars == <<input, h, corrupted, phase, gamma, hidden, out>>

J == 0 .. Length
F == 0 .. (P - 1)
Sum(t, n) == LET acc[j \in 0 .. n] == IF j = 0 THEN t[0] ELSE acc[j - 1] + t[j] IN acc[n]
Inner(g, w) == Sum([j \in J |-> g[j] * w[j]], Length) % P
NoDelivery == [o |-> <<>>, cu |-> 0, cv |-> 0]
Delivery(o, cv) == [o |-> o, cu |-> (Inner(gamma, o) - h * cv) % P, cv |-> cv]
Wanted == [j \in J |-> (input.u[j] + h * input.v[j]) % P]

Init == phase = "waiting" /\ gamma = <<>> /\ ~ hidden /\ out = NoDelivery

\* What is drawn decides whether a deviation shows.
DrawGamma ==
  /\ phase = "waiting" /\ gamma = <<>>
  /\ gamma' \in Gammas
  /\ hidden' \in BOOLEAN /\ (hidden' => corrupted)
  /\ UNCHANGED <<input, h, corrupted, phase, out>>

Deliver ==
  /\ phase = "waiting" /\ gamma # <<>> /\ ~ corrupted /\ phase' = "delivered"
  /\ out' = Delivery(Wanted, Inner(gamma, input.v))
  /\ UNCHANGED <<input, h, corrupted, gamma, hidden>>

DeliverSpoiled ==
  /\ phase = "waiting" /\ hidden /\ phase' = "delivered"
  /\ \E o \in [J -> F], cv \in F : out' = Delivery(o, cv)
  /\ UNCHANGED <<input, h, corrupted, gamma, hidden>>

Refuse ==
  /\ phase = "waiting" /\ gamma # <<>> /\ corrupted /\ ~ hidden /\ phase' = "refused"
  /\ UNCHANGED <<input, h, corrupted, gamma, hidden, out>>

Next == DrawGamma \/ Deliver \/ DeliverSpoiled \/ Refuse
Spec == Init /\ [][Next]_vars /\ WF_vars(Next)
=============================================================================
