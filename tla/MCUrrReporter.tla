---- MODULE MCUrrReporter ----
(* Small instances of UrrReporter for TLC. *)
EXTENDS UrrReporter, TLC

CONSTANTS smfA, urr1

OwnerSolo == urr1 :> smfA

\* Periodic reporting, volume reporting, and both as smf-sim asks for.
SettingsAll ==
    urr1 :> {[trig |-> 1, threshold |-> None, period |-> 1],
             [trig |-> 2, threshold |-> 2, period |-> None],
             [trig |-> 3, threshold |-> 1, period |-> 2]}
\* A periodic URR that also carries a Volume Threshold.
SettingsPerio == urr1 :> {[trig |-> 1, threshold |-> 1, period |-> 1]}
====
