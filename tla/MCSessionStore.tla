---- MODULE MCSessionStore ----
(* Small instances of SessionStore for TLC. *)
EXTENDS SessionStore

CONSTANTS ue1, ue2, gnb1, gnb2

\* Each session has a UE and a CP-SEID of its own; either may be sent twice.
TwoSessions == {[ue |-> ue1, tun |-> gnb1, cp |-> 11], [ue |-> ue2, tun |-> gnb1, cp |-> 12]}
====
