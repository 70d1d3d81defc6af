---- MODULE MCPfcpServer ----
(* Small instances of PfcpServer for TLC. *)
EXTENDS PfcpServer, TLC

CONSTANTS smfA, smfB, nodeA, nodeB, ue1, ue2, gnb1, gnb2

\* Two SMFs on hosts of their own, and their Node IDs.
NodeOfPeer == smfA :> nodeA @@ smfB :> nodeB
\* Each SMF chooses CP-SEIDs of its own ...
CpOfDisjoint == smfA :> {1} @@ smfB :> {2}
\* ... or both count from 1, as two smf-sim instances do.
CpOfShared == smfA :> {1} @@ smfB :> {1}

\* One SMF alone.
NodeOfSolo == smfA :> nodeA
CpOfSolo == smfA :> {1, 2}

\* More PDRs than SessionInfo keeps: a Deletion leaves PDR 3 and FAR 2 behind.
Oversized == [pdrs |-> <<[id |-> 1, far |-> 1, urr |-> 1], [id |-> 2, far |-> 1, urr |-> 0],
                         [id |-> 3, far |-> 2, urr |-> 0]>>,
              fars |-> {1, 2}, access |-> 2, urrs |-> {1}]
\* Two PDRs through FAR 1, all of it reclaimable; FAR 2 is one the session does not have.
Compact == [pdrs |-> <<[id |-> 1, far |-> 1, urr |-> 1], [id |-> 2, far |-> 1, urr |-> 0]>>,
            fars |-> {1}, access |-> 1, urrs |-> {1}]
OversizedOnly == {Oversized}
CompactOnly == {Compact}

\* A UPF that starts without sessions ...
NothingStored == [s \in Seids |-> None]
\* ... and one to which Redis gives back the last SEID, of an earlier life.
LastStored == [NothingStored EXCEPT ![MaxSeid] = [ue |-> ue1, cp |-> 1, tun |-> GnbTeid(gnb1)]]

TaskSymmetry == Permutations(Tasks)
====
