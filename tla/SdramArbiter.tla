----------------------------- MODULE SdramArbiter -----------------------------
(***************************************************************************)
(* SdramArbiter3.scala: one SDRAM controller for the framebuffer writer     *)
(* (port b), the framebuffer reader (c) and the loader (d). Port A is tied  *)
(* off on this board. A rising edge of a port's request is remembered until *)
(* the port is served; the port then owns the controller to the completion. *)
(***************************************************************************)
EXTENDS Naturals, FiniteSets

Ports == {"b", "c", "d"}
Nobody == "nobody"

VARIABLES
  pending,  \* bPending, cPending, dPending
  active,   \* bActive, cActive, dActive: at most one is ever set
  ahead     \* history: transactions started while a port has been waiting

arbiter == <<pending, active, ahead>>

ArbiterType ==
  /\ pending \subseteq Ports
  /\ active \in Ports \cup {Nobody}
  /\ ahead \in [Ports -> Nat]

ArbiterInit ==
  /\ pending = {}
  /\ active = Nobody
  /\ ahead = [p \in Ports |-> 0]

ArbiterReset == pending' = {} /\ active' = Nobody /\ ahead' = [p \in Ports |-> 0]

\* Port C has priority over B, and the loader's port is the last of the three.
WritesBefore(p, q) == <<p, q>> \in {<<"b", "c">>, <<"b", "d">>, <<"c", "d">>}
Before(p, q) == <<p, q>> \in {<<"c", "b">>, <<"c", "d">>, <<"b", "d">>}

CanServe == active = Nobody /\ pending # {}

\* A request is served in the cycle the controller is free, so nothing is
\* asked between a completion and the next start. Left out: a refresh that
\* keeps the controller busy between two accesses (sdramCompleteReg low),
\* during which a port of higher priority may ask again.
Request(p) ==
  /\ ~CanServe
  /\ pending' = pending \cup {p}
  /\ UNCHANGED <<active, ahead>>

Serve(p) ==
  /\ CanServe /\ p \in pending
  /\ \A q \in pending : ~Before(q, p)
  /\ pending' = pending \ {p}
  /\ active' = p
  /\ ahead' = [q \in Ports |-> IF q \in pending \ {p} THEN ahead[q] + 1 ELSE 0]

Complete(p) ==
  /\ active = p
  /\ active' = Nobody
  /\ UNCHANGED <<pending, ahead>>
=============================================================================
