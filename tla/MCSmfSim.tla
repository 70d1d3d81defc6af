---- MODULE MCSmfSim ----
(* Small instances of SmfSim for TLC. *)
EXTENDS SmfSim

\* Keepalive and UPF restarts get their room in the scenario, the commands of
\* the user in the menu, reports in the single-message commands.
Retries == [run |-> 1, interactive |-> 0, send |-> 1]
KaSeqs == [run |-> 2, interactive |-> 1, send |-> 0]
Epochs == [run |-> 2, interactive |-> 1, send |-> 2]
UpfRequestsSent == [run |-> 0, interactive |-> 0, send |-> 1]
ClockReadings == [run |-> 2, interactive |-> 2, send |-> 3]
====
