------------------------ MODULE PfcpDisciplinedProofs ------------------------
(***************************************************************************)
(* What the control plane guarantees to SMFs that use a UE address or a    *)
(* CP-SEID again only when it is free: the Deletions that clean the maps   *)
(* without the mutex never meet the session that has the address next, and *)
(* they find everything they have to remove.                               *)
(*                                                                         *)
(* The guarantees are proved on top of the inductive invariant IInv of     *)
(* PfcpServerProofs.  Map inserts and ip commands may fail here too, and   *)
(* but for EverySessionOwned the SMFs may restart.  They are guarantees of *)
(* a UPF to which Redis gave no sessions (NothingRestored), so that every  *)
(* SEID is one of the properties' own (Unrestored = Seids).                *)
(***************************************************************************)
EXTENDS PfcpRefinementProofs

(* A UE address has one user: a session, a clean-up or an Establishment.   *)
LiveAlone ==
    \A s1, s2 \in Seids : Live(s1) /\ Live(s2) /\ sessions[s1].ue = sessions[s2].ue => s1 = s2

DelAlone ==
    \A t \in Tasks : del[t] # None =>
        /\ \A s \in Seids : Live(s) => sessions[s].ue # del[t].ue
        /\ \A t2 \in Tasks : del[t2] # None /\ del[t2].ue = del[t].ue => t2 = t

EstAlone ==
    est # None =>
        /\ \A s \in Seids : Live(s) => sessions[s].ue # request[est.seid].ue
        /\ \A t \in Tasks : del[t] # None => del[t].ue # request[est.seid].ue

(* The entry an Establishment has written is there when it commits. *)
EstEntry ==
    est # None /\ est.step # "session" =>
        session_map[request[est.seid].ue] =
            [seid |-> est.seid, tun |-> OwnTeid(request[est.seid].tun, est.seid),
             pdrs |-> KeptPdrIds(request[est.seid].rules)]

(* How far a clean-up has come, and that what it collects is everything    *)
(* there is under its SEID.                                                *)
Collected(t) ==
    LET r == request[del[t].seid].rules IN
    /\ del[t].step = "lookup" => /\ session_map[del[t].ue] # None
                                 /\ session_map[del[t].ue].pdrs = KeptPdrIds(r)
    /\ del[t].step # "lookup" => del[t].pdrs = KeptPdrIds(r)
    /\ del[t].step \notin {"lookup", "collect"} => r.fars \subseteq del[t].fars /\ r.urrs \subseteq del[t].urrs

Removed(t) ==
    LET s == del[t].seid
        r == request[s].rules IN
    /\ pdr_map[s] = IF del[t].step \in {"lookup", "collect", "pdr"} THEN PdrsOf(r) ELSE {}
    /\ IF del[t].step \in {"lookup", "collect", "pdr", "far"}
       THEN {v.id : v \in far_map[s]} = r.fars ELSE far_map[s] = {}
    /\ InstalledUrrs(s) = IF del[t].step \in {"lookup", "collect", "pdr", "far", "urr"} THEN r.urrs ELSE {}

ProgressOf(t) ==
    del[t] # None =>
        /\ del[t].seid \notin aborted
        /\ Reclaimable(request[del[t].seid].rules) => Collected(t) /\ Removed(t)
DelProgress == \A t \in Tasks : ProgressOf(t)

DInv == /\ LiveAlone /\ DelAlone /\ EstAlone /\ EstEntry /\ DelProgress
        /\ LiveForwardable /\ LiveRouted /\ ReclaimedAfterDeletion

-----------------------------------------------------------------------------
(* The ownership of sessions, as long as no SMF restarts. *)
NodesOfPeers == \A n \in Nodes : associations[n] # None => NodeOf[associations[n].peer] = n

CpAlone ==
    \A s1, s2 \in Seids :
        /\ Live(s1) /\ Live(s2) /\ request[s1].src = request[s2].src
        /\ sessions[s1].cp = sessions[s2].cp
        => s1 = s2

EstCpAlone ==
    est # None =>
        \A s \in Seids : Live(s) /\ request[s].src = request[est.seid].src => sessions[s].cp # request[est.seid].cp

OInv == NodesOfPeers /\ CpAlone /\ EstCpAlone /\ EverySessionOwned

-----------------------------------------------------------------------------
(* A clean-up that a step does not touch is as far as it was. *)
LEMMA ProgressKept ==
    ASSUME NEW t, ProgressOf(t), del'[t] = del[t],
           del[t] # None =>
               /\ request'[del[t].seid] = request[del[t].seid]
               /\ pdr_map'[del[t].seid] = pdr_map[del[t].seid]
               /\ far_map'[del[t].seid] = far_map[del[t].seid]
               /\ \A s \in {del[t].seid} : InstalledUrrs(s)' = InstalledUrrs(s)
               /\ session_map'[del[t].ue] = session_map[del[t].ue]
               /\ del[t].seid \notin aborted => del[t].seid \notin aborted'
    PROVE  ProgressOf(t)'
<1>1. del[t] # None => InstalledUrrs(del[t].seid)' = InstalledUrrs(del[t].seid)
  BY DEF InstalledUrrs
<1>2. QED BY <1>1 DEF ProgressOf, Collected, Removed

(* The SEIDs that ReclaimedAfterDeletion is about. *)
Gone(s) ==
    /\ request[s] # None /\ ~Live(s) /\ ~Installing(s) /\ s \notin aborted
    /\ \A t \in Tasks : ~Deleting(t, s)

(* What is reclaimed stays so, as no handler writes under a dead SEID. *)
LEMMA ReclaimedKept ==
    ASSUME NothingRestored, IInv, Next, ReclaimedAfterDeletion, NEW s \in Seids, Gone(s),
           InstalledUrrs(s)' \subseteq InstalledUrrs(s), Reclaimable(request'[s].rules)
    PROVE  pdr_map'[s] = {} /\ far_map'[s] = {} /\ InstalledUrrs(s)' = {}
<1>1. SeidKept(s)
  BY SeidStep DEF NothingRestored
<1>2. request'[s] = request[s]
  BY <1>1 DEF SeidKept, Gone
<1>3. pdr_map[s] = {} /\ far_map[s] = {} /\ InstalledUrrs(s) = {}
  BY <1>2 DEF ReclaimedAfterDeletion, Gone, NothingRestored
<1>4. QED BY <1>1, <1>3 DEF SeidKept, Gone

(* A step after which no other SEID is gone keeps ReclaimedAfterDeletion. *)
LEMMA ReclaimedStep ==
    ASSUME NothingRestored, IInv, Next, ReclaimedAfterDeletion,
           \A s \in Seids : Gone(s)' => Gone(s) /\ InstalledUrrs(s)' \subseteq InstalledUrrs(s)
    PROVE  ReclaimedAfterDeletion'
<1> SUFFICES ASSUME NEW s \in Seids, Gone(s)', Reclaimable(request'[s].rules)
             PROVE  pdr_map'[s] = {} /\ far_map'[s] = {} /\ InstalledUrrs(s)' = {}
  BY DEF ReclaimedAfterDeletion, Gone, NothingRestored
<1>1. QED BY ReclaimedKept

(* A step that leaves routes and the results of ip commands alone, and     *)
(* sessions their UE addresses, keeps LiveRouted.                          *)
LEMMA RoutesUntouched ==
    ASSUME LiveRouted, UNCHANGED <<routes, ip_failed>>,
           \A s \in Seids : Live(s)' => Live(s) /\ sessions'[s].ue = sessions[s].ue
    PROVE  LiveRouted'
BY UnrestoredSeids DEF LiveRouted

(* Association Setup, heartbeats and refused requests leave sessions, maps *)
(* and clean-ups alone.                                                    *)
LEMMA DQuiet ==
    ASSUME DInv, UNCHANGED <<sessions, maps, est, del, request, aborted>>
    PROVE  DInv'
BY DEF DInv, maps, LiveAlone, DelAlone, EstAlone, EstEntry, DelProgress, ProgressOf, Collected, Removed,
       LiveForwardable, LiveRouted, ReclaimedAfterDeletion, Live, Installing, Deleting, InstalledUrrs

(* An Establishment that begins has a UE address nobody else has. *)
LEMMA DBegin ==
    ASSUME NothingRestored, Disciplined, IInv, DInv, NEW p \in Peers, NEW q \in Request, EstBegin(p, q)
    PROVE  DInv'
<1> Unrestored = Seids
  BY DEF NothingRestored
<1>1. /\ next_seid \in Seids /\ FreeUe(q.ue)
      /\ UNCHANGED <<sessions, maps, del, aborted>>
  BY DEF EstBegin
<1>2. est' # None /\ est'.seid = next_seid /\ est'.step = "session"
  BY <1>1, NoneAssumption DEF EstBegin, AssociationsFrom, Establishment
<1>3. request'[next_seid] = q /\ \A s \in Seids : s # next_seid => request'[s] = request[s]
  BY <1>1 DEF EstBegin, IInv, TypeOK
<1>4. /\ request[next_seid] = None /\ ~Live(next_seid)
      /\ \A t \in Tasks : ~Deleting(t, next_seid)
  BY <1>1 DEF IInv, FreshSeids, TypeOK
<1>5. LiveAlone' /\ DelAlone' /\ EstAlone' /\ EstEntry'
  BY <1>1, <1>2, <1>3 DEF DInv, LiveAlone, DelAlone, EstAlone, EstEntry, FreeUe, Live
<1>6. LiveForwardable' /\ LiveRouted'
  BY <1>1, <1>3, <1>4 DEF DInv, LiveForwardable, LiveRouted, Live, maps
<1>7. DelProgress'
  <2> SUFFICES ASSUME NEW t \in Tasks PROVE ProgressOf(t)'
    BY DEF DelProgress
  <2>1. del[t] # None => del[t].seid \in Seids /\ del[t].seid # next_seid
    BY <1>4 DEF IInv, TypeOK, Deleting, Deletion
  <2>2. ProgressOf(t)
    BY DEF DInv, DelProgress
  <2>3. \A s : InstalledUrrs(s)' = InstalledUrrs(s)
    BY <1>1 DEF InstalledUrrs, maps
  <2>4. QED BY <1>1, <1>3, <2>1, <2>2, <2>3, ProgressKept DEF maps
<1>8. ReclaimedAfterDeletion'
  <2>1. \A s \in Seids : Gone(s)' => Gone(s)
    BY <1>1, <1>2, <1>3, <1>4 DEF Gone, Live, Installing, Deleting, EstBegin, ServerUnlocked
  <2>2. \A s : InstalledUrrs(s)' = InstalledUrrs(s)
    BY <1>1 DEF InstalledUrrs, maps
  <2>3. QED BY <2>1, <2>2, ReclaimedStep DEF DInv, Next
<1>9. QED BY <1>5, <1>6, <1>7, <1>8 DEF DInv

(* The inserts write under the Establishment's own SEID and UE address. *)
LEMMA DInsert ==
    ASSUME NothingRestored, IInv, DInv, EstSession \/ EstPdrs \/ EstFars \/ EstUrrs
    PROVE  DInv'
<1> Unrestored = Seids
  BY DEF NothingRestored
<1>1. /\ est # None /\ est \in Establishment /\ est.seid \in Seids /\ ~Live(est.seid)
      /\ Req \in Request /\ Req = request[est.seid] /\ \A t \in Tasks : ~Deleting(t, est.seid)
  BY EstFacts DEF EstStep
<1>2. UNCHANGED <<sessions, request, del, aborted, routes, ip_failed>>
  BY DEF EstSession, EstPdrs, EstFars, EstUrrs, server
<1>3. est' # None /\ est'.seid = est.seid /\ (est.step = "session" => EstSession)
  <2>1. \A step \in {"pdr", "far", "urr", "commit"} :
          [est EXCEPT !.step = step] \in Establishment /\ [est EXCEPT !.step = step].seid = est.seid
    BY <1>1 DEF Establishment
  <2>2. est' # None /\ est'.seid = est.seid
    BY <2>1, NoneAssumption DEF EstSession, EstPdrs, EstFars, EstUrrs
  <2>3. est.step = "session" => EstSession
    BY DEF EstPdrs, EstFars, EstUrrs, InStep
  <2>4. QED BY <2>2, <2>3
<1>4. \A s \in Seids : s # est.seid =>
        pdr_map'[s] = pdr_map[s] /\ far_map'[s] = far_map[s] /\ InstalledUrrs(s)' = InstalledUrrs(s)
  <2>1. CASE EstUrrs
    BY <2>1, <1>1 DEF IInv, TypeOK, EstUrrs, InstalledUrrs, UrrKeys
  <2>2. CASE EstSession \/ EstPdrs \/ EstFars
    BY <2>2, <1>1 DEF IInv, TypeOK, EstSession, EstPdrs, EstFars, InstalledUrrs
  <2>3. QED BY <2>1, <2>2
<1>5. Req.ue \in Ues
  BY <1>1 DEF Request
<1>6. /\ \A u \in Ues : u # Req.ue => session_map'[u] = session_map[u]
      /\ session_map'[Req.ue] = [seid |-> est.seid, tun |-> OwnTeid(Req.tun, est.seid), pdrs |-> KeptPdrIds(Req.rules)]
  <2>1. CASE EstSession
    BY <1>5, <2>1 DEF IInv, TypeOK, EstSession
  <2>2. CASE ~EstSession
    <3>1. session_map' = session_map
      BY <2>2 DEF EstPdrs, EstFars, EstUrrs
    <3>2. QED BY <1>1, <1>3, <2>2, <3>1 DEF DInv, EstEntry
  <2>3. QED BY <2>1, <2>2
<1>7. LiveAlone' /\ DelAlone' /\ EstAlone'
  BY <1>1, <1>2, <1>3 DEF DInv, LiveAlone, DelAlone, EstAlone, Live
<1>8. EstEntry'
  BY <1>1, <1>2, <1>3, <1>6 DEF EstEntry
<1>9. LiveForwardable' /\ LiveRouted'
  <2>1. \A s \in Seids : Live(s) => sessions[s].ue \in Ues /\ sessions[s].ue # Req.ue
    BY <1>1 DEF IInv, TypeOK, Live, SessionData, DInv, EstAlone
  <2>2. LiveForwardable'
    BY <1>2, <1>6, <2>1 DEF DInv, LiveForwardable, Live
  <2>3. LiveRouted'
    BY <1>2, RoutesUntouched DEF DInv, Live
  <2>4. QED BY <2>2, <2>3
<1>10. DelProgress'
  <2> SUFFICES ASSUME NEW t \in Tasks PROVE ProgressOf(t)'
    BY DEF DelProgress
  <2>1. del[t] # None => /\ del[t].seid \in Seids /\ del[t].seid # est.seid
                         /\ del[t].ue \in Ues /\ del[t].ue # Req.ue
    BY <1>1 DEF IInv, TypeOK, Deleting, Deletion, DInv, EstAlone
  <2>2. ProgressOf(t)
    BY DEF DInv, DelProgress
  <2>3. QED BY <1>2, <1>4, <1>6, <2>1, <2>2, ProgressKept
<1>11. ReclaimedAfterDeletion'
  <2>1. \A s \in Seids : Gone(s)' => Gone(s) /\ s # est.seid
    BY <1>1, <1>2, <1>3 DEF Gone, Live, Installing, Deleting
  <2>2. QED BY <1>4, <2>1, ReclaimedStep DEF DInv, Next, EstStep
<1>12. QED BY <1>7, <1>8, <1>9, <1>10, <1>11 DEF DInv

(* A failed insert leaves its rules under a SEID no Deletion will have. *)
LEMMA DAbort ==
    ASSUME NothingRestored, IInv, DInv, EstAbort
    PROVE  DInv'
<1> Unrestored = Seids
  BY DEF NothingRestored
<1>1. est # None /\ est.seid \in Seids /\ ~Live(est.seid) /\ \A t \in Tasks : ~Deleting(t, est.seid)
  BY EstFacts DEF EstStep
<1>2. /\ UNCHANGED <<sessions, request, del, session_map, routes, ip_failed>>
      /\ est' = None /\ aborted' = aborted \cup {est.seid}
  BY DEF EstAbort
<1>3. \A s \in Seids : s # est.seid =>
        pdr_map'[s] = pdr_map[s] /\ far_map'[s] = far_map[s] /\ InstalledUrrs(s)' = InstalledUrrs(s)
  BY <1>1 DEF IInv, TypeOK, EstAbort, InstalledUrrs, UrrKeys
<1>4. LiveAlone' /\ DelAlone' /\ EstAlone' /\ EstEntry' /\ LiveForwardable' /\ LiveRouted'
  BY <1>2 DEF DInv, LiveAlone, DelAlone, EstAlone, EstEntry, LiveForwardable, LiveRouted, Live
<1>5. DelProgress'
  <2> SUFFICES ASSUME NEW t \in Tasks PROVE ProgressOf(t)'
    BY DEF DelProgress
  <2>1. del[t] # None => del[t].seid \in Seids /\ del[t].seid # est.seid
    BY <1>1 DEF IInv, TypeOK, Deleting, Deletion
  <2>2. ProgressOf(t)
    BY DEF DInv, DelProgress
  <2>3. QED BY <1>2, <1>3, <2>1, <2>2, ProgressKept
<1>6. ReclaimedAfterDeletion'
  <2>1. \A s \in Seids : Gone(s)' => Gone(s) /\ s # est.seid
    BY <1>1, <1>2 DEF Gone, Live, Installing, Deleting
  <2>2. QED BY <1>3, <2>1, ReclaimedStep DEF DInv, Next, EstStep
<1>7. QED BY <1>4, <1>5, <1>6 DEF DInv

(* The session that is recorded has the entry of its UE address. *)
LEMMA DCommit ==
    ASSUME NothingRestored, IInv, DInv, EstCommit
    PROVE  DInv'
<1> Unrestored = Seids
  BY DEF NothingRestored
<1> DEFINE s0 == est.seid
<1> DEFINE new == [ue |-> Req.ue, cp |-> Req.cp, tun |-> OwnTeid(Req.tun, s0)]
<1>1. /\ est # None /\ s0 \in Seids /\ ~Live(s0) /\ est.step = "commit"
      /\ Req \in Request /\ Req = request[s0] /\ \A t \in Tasks : ~Deleting(t, s0)
  BY EstFacts DEF EstStep, EstCommit, InStep
<1>2. /\ UNCHANGED <<request, del, aborted, session_map, pdr_map, far_map>> /\ est' = None
      /\ \A s : InstalledUrrs(s)' = InstalledUrrs(s)
  BY DEF EstCommit, InstalledUrrs
<1>3. sessions'[s0] = new /\ \A s \in Seids : s # s0 => sessions'[s] = sessions[s]
  BY <1>1 DEF IInv, TypeOK, EstCommit
<1>4. sessions'[s0] # None
  <2>1. new \in SessionData
    BY <1>1 DEF SessionData, OwnTeid, EndPoint, Request
  <2>2. QED BY <1>3, <2>1, NoneAssumption
<1>5. LiveAlone' /\ DelAlone'
  BY <1>1, <1>2, <1>3, <1>4 DEF DInv, LiveAlone, DelAlone, EstAlone, Live
<1>6. EstAlone' /\ EstEntry'
  BY <1>2 DEF EstAlone, EstEntry
<1>7. LiveForwardable'
  <2>1. session_map[Req.ue] = [seid |-> s0, tun |-> OwnTeid(Req.tun, s0), pdrs |-> KeptPdrIds(Req.rules)]
    BY <1>1 DEF DInv, EstEntry
  <2>2. QED BY <1>1, <1>2, <1>3, <2>1 DEF DInv, LiveForwardable, Live
<1>8. DelProgress'
  BY <1>2, ProgressKept DEF DInv, DelProgress
<1>9. ReclaimedAfterDeletion'
  <2>1. \A s \in Seids : Gone(s)' => Gone(s)
    BY <1>1, <1>2, <1>3, <1>4 DEF Gone, Live, Installing, Deleting
  <2>2. QED BY <1>2, <2>1, ReclaimedStep DEF DInv, Next, EstStep
<1>10. LiveRouted'
  <2>1. Req.ue \notin ip_failed' => Req.ue \in routes'
    BY DEF EstCommit, SetupUeRoute, IpCommand
  <2>2. \A u : u # Req.ue => (u \in routes => u \in routes') /\ (u \notin ip_failed' => u \notin ip_failed)
    BY DEF EstCommit, SetupUeRoute, IpCommand
  <2>3. \A s \in Seids : s # s0 /\ Live(s) => sessions[s].ue # Req.ue
    BY <1>1 DEF DInv, EstAlone
  <2>4. QED BY <1>3, <2>1, <2>2, <2>3 DEF DInv, LiveRouted, Live
<1>11. QED BY <1>5, <1>6, <1>7, <1>8, <1>9, <1>10 DEF DInv

(* A Modification moves the session and the entry of its UE address to the *)
(* same end point; the entry is the session's own.                         *)
LEMMA DModification ==
    ASSUME NothingRestored, IInv, DInv, NEW p \in Peers, NEW s0 \in Seids, NEW f \in FarIds, NEW tun \in Tunnels,
           NEW access \in BOOLEAN, HandleModification(p, s0, f, tun, access)
    PROVE  DInv'
<1> Unrestored = Seids
  BY DEF NothingRestored
<1> DEFINE u0 == sessions[s0].ue
<1>1. Live(s0) /\ sessions[s0] \in SessionData /\ u0 \in Ues
  BY DEF HandleModification, Owns, Live, IInv, TypeOK, SessionData
<1>2. /\ est = None /\ est' = None /\ UNCHANGED <<pdr_map, request, del, aborted, routes, ip_failed>>
      /\ \A s : InstalledUrrs(s)' = InstalledUrrs(s)
  BY DEF HandleModification, ServerUnlocked, InstalledUrrs
<1>3. \A s \in Seids : s # s0 => far_map'[s] = far_map[s]
  BY DEF HandleModification, IInv, TypeOK
<1>4. /\ sessions'[s0] # None /\ sessions'[s0].ue = u0
      /\ \A s \in Seids : s # s0 => sessions'[s] = sessions[s]
      /\ \A u \in Ues : u # u0 => session_map'[u] = session_map[u]
      /\ session_map'[u0] = [seid |-> s0, tun |-> sessions'[s0].tun, pdrs |-> KeptPdrIds(request[s0].rules)]
  <2>1. session_map[u0] = [seid |-> s0, tun |-> sessions[s0].tun, pdrs |-> KeptPdrIds(request[s0].rules)]
    BY <1>1 DEF DInv, LiveForwardable
  <2>2. CASE access
    <3> DEFINE end == GnbTeid(tun)
    <3> DEFINE entry == session_map[u0]
    <3>1. end \in EndPoint
      BY DEF GnbTeid, EndPoint
    <3>2. /\ sessions' = [sessions EXCEPT ![s0] = [sessions[s0] EXCEPT !.tun = end]]
          /\ session_map' = [session_map EXCEPT ![u0] = IF entry = None THEN None ELSE [entry EXCEPT !.tun = end]]
      BY <2>2 DEF HandleModification
    <3> HIDE DEF end
    <3>3. LET d == [sessions[s0] EXCEPT !.tun = end] IN d \in SessionData /\ d.ue = u0 /\ d.tun = end
      BY <1>1, <3>1 DEF SessionData
    <3>4. /\ sessions'[s0] # None /\ sessions'[s0].ue = u0 /\ sessions'[s0].tun = end
          /\ \A s \in Seids : s # s0 => sessions'[s] = sessions[s]
      BY <3>2, <3>3, NoneAssumption DEF IInv, TypeOK
    <3>5. request[s0] \in Request /\ KeptPdrIds(request[s0].rules) \subseteq PdrIds
      BY <1>1, RuleTypes DEF IInv, TypeOK, LiveAsRequested
    <3>6. entry \in SessionInfo /\ entry.seid = s0 /\ entry.pdrs = KeptPdrIds(request[s0].rules)
      BY <1>1, <2>1, <3>5 DEF SessionInfo, SessionData
    <3>7. entry # None
      BY <3>6, NoneAssumption
    <3>8. session_map'[u0] = [entry EXCEPT !.tun = end] /\ \A u \in Ues : u # u0 => session_map'[u] = session_map[u]
      BY <1>1, <3>2, <3>7 DEF IInv, TypeOK
    <3> HIDE DEF entry
    <3>9. [entry EXCEPT !.tun = end] = [seid |-> entry.seid, tun |-> end, pdrs |-> entry.pdrs]
      BY <3>1, <3>6 DEF SessionInfo
    <3>10. QED BY <3>4, <3>6, <3>8, <3>9
  <2>3. CASE ~access
    <3>1. UNCHANGED <<sessions, session_map>>
      BY <2>3 DEF HandleModification
    <3>2. QED BY <1>1, <2>1, <3>1 DEF Live
  <2>4. QED BY <2>2, <2>3
<1>5. LiveAlone' /\ DelAlone' /\ EstAlone' /\ EstEntry'
  BY <1>1, <1>2, <1>4 DEF DInv, LiveAlone, DelAlone, EstAlone, EstEntry, Live
<1>6. LiveForwardable'
  <2> SUFFICES ASSUME NEW s \in Seids, Live(s)'
               PROVE  session_map'[sessions'[s].ue] =
                         [seid |-> s, tun |-> sessions'[s].tun, pdrs |-> KeptPdrIds(request'[s].rules)]
    BY DEF LiveForwardable
  <2>1. CASE s = s0
    BY <1>2, <1>4, <2>1
  <2>2. CASE s # s0
    <3>1. Live(s) /\ sessions[s].ue \in Ues /\ sessions[s].ue # u0
      BY <1>1, <1>4, <2>2 DEF IInv, TypeOK, DInv, LiveAlone, Live, SessionData
    <3>2. QED BY <1>2, <1>4, <2>2, <3>1 DEF DInv, LiveForwardable
  <2>3. QED BY <2>1, <2>2
<1>7. DelProgress'
  <2> SUFFICES ASSUME NEW t \in Tasks PROVE ProgressOf(t)'
    BY DEF DelProgress
  <2>1. del[t] # None => /\ del[t].seid \in Seids /\ del[t].seid # s0
                         /\ del[t].ue \in Ues /\ del[t].ue # u0
    BY <1>1 DEF IInv, TypeOK, DelContext, Deletion, DInv, DelAlone
  <2>2. ProgressOf(t)
    BY DEF DInv, DelProgress
  <2>3. QED BY <1>2, <1>3, <1>4, <2>1, <2>2, ProgressKept
<1>8. ReclaimedAfterDeletion'
  <2>1. \A s \in Seids : Gone(s)' => Gone(s)
    BY <1>1, <1>2, <1>4 DEF Gone, Live, Installing, Deleting
  <2>2. QED BY <1>2, <2>1, ReclaimedStep DEF DInv, Next
<1>9. LiveRouted'
  BY <1>1, <1>2, <1>4, RoutesUntouched DEF DInv, Live
<1>10. QED BY <1>5, <1>6, <1>7, <1>8, <1>9 DEF DInv

(* A Deletion begins with all the session's rules in place and the entry   *)
(* of its UE address still its own.                                        *)
LEMMA DDelLocked ==
    ASSUME NothingRestored, IInv, DInv, NEW t0 \in Tasks, NEW p \in Peers, NEW s0 \in Seids, DelLocked(t0, p, s0)
    PROVE  DInv'
<1> Unrestored = Seids
  BY DEF NothingRestored
<1> DEFINE u0 == sessions[s0].ue
<1>1. Live(s0) /\ sessions[s0] \in SessionData /\ u0 \in Ues /\ request[s0] \in Request /\ s0 \notin aborted
  BY DEF DelLocked, Owns, Live, IInv, TypeOK, SessionData, LiveAsRequested
<1>2. /\ est = None /\ est' = None /\ UNCHANGED <<maps, request, aborted>>
      /\ \A s : InstalledUrrs(s)' = InstalledUrrs(s)
  BY DEF DelLocked, ServerUnlocked, maps, InstalledUrrs
<1>3. sessions'[s0] = None /\ \A s \in Seids : s # s0 => sessions'[s] = sessions[s]
  BY DEF DelLocked, IInv, TypeOK
<1>4. /\ del[t0] = None
      /\ del'[t0] = [step |-> "lookup", seid |-> s0, ue |-> u0, pdrs |-> {}, fars |-> {}, urrs |-> {}]
      /\ \A t \in Tasks : t # t0 => del'[t] = del[t]
  BY DEF DelLocked, IInv, TypeOK
<1>5. del'[t0] # None /\ del'[t0].step = "lookup" /\ del'[t0].seid = s0 /\ del'[t0].ue = u0
  <2>1. del'[t0] \in Deletion
    BY <1>1, <1>4 DEF Deletion
  <2>2. QED BY <1>4, <2>1, NoneAssumption
<1>6. LiveAlone' /\ EstAlone' /\ EstEntry'
  BY <1>2, <1>3 DEF DInv, LiveAlone, EstAlone, EstEntry, Live
<1>7. DelAlone'
  BY <1>1, <1>3, <1>4, <1>5 DEF DInv, LiveAlone, DelAlone, Live
<1>8. LiveForwardable' /\ LiveRouted'
  BY <1>2, <1>3 DEF DInv, LiveForwardable, LiveRouted, Live, maps
<1>9. DelProgress'
  <2> SUFFICES ASSUME NEW t \in Tasks PROVE ProgressOf(t)'
    BY DEF DelProgress
  <2>1. CASE t = t0
    <3>1. session_map[u0] = [seid |-> s0, tun |-> sessions[s0].tun, pdrs |-> KeptPdrIds(request[s0].rules)]
      BY <1>1 DEF DInv, LiveForwardable
    <3>2. session_map[u0] # None /\ session_map[u0].pdrs = KeptPdrIds(request[s0].rules)
      <4>1. session_map[u0] \in SessionInfo
        BY <1>1, <3>1, RuleTypes DEF SessionInfo, SessionData
      <4>2. QED BY <3>1, <4>1, NoneAssumption
    <3>3. Collected(t0)'
      BY <1>2, <1>5, <3>2 DEF Collected, maps
    <3>4. Removed(t0)'
      <4>1. InstalledUrrs(del[t0].seid)' = InstalledUrrs(s0)
        BY <1>2, <1>5 DEF InstalledUrrs, maps
      <4>2. QED BY <1>1, <1>2, <1>5, <4>1 DEF Removed, maps, IInv, LiveRulesInstalled
    <3>5. QED BY <1>1, <1>2, <1>5, <2>1, <3>3, <3>4 DEF ProgressOf
  <2>2. CASE t # t0
    BY <1>2, <1>4, <2>2, ProgressKept DEF DInv, DelProgress, maps
  <2>3. QED BY <2>1, <2>2
<1>10. ReclaimedAfterDeletion'
  <2>1. \A s \in Seids : Gone(s)' => Gone(s)
    <3> SUFFICES ASSUME NEW s \in Seids, Gone(s)' PROVE Gone(s)
      OBVIOUS
    <3>1. s # s0
      BY <1>5 DEF Gone, Deleting
    <3>2. \A t \in Tasks : ~Deleting(t, s)
      BY <1>4 DEF Gone, Deleting
    <3>3. QED BY <1>2, <1>3, <3>1, <3>2 DEF Gone, Live, Installing
  <2>2. QED BY <1>2, <2>1, ReclaimedStep DEF DInv, Next
<1>11. QED BY <1>6, <1>7, <1>8, <1>9, <1>10 DEF DInv

(* Of a request within the limits, all PDR IDs were kept, and the PDRs     *)
(* name all FARs and URRs.                                                 *)
LEMMA AllFound ==
    ASSUME NEW r \in Rules, Reclaimable(r)
    PROVE  /\ \A v \in PdrsOf(r) : v.id \in KeptPdrIds(r)
           /\ r.fars \subseteq {v.far : v \in PdrsOf(r)}
           /\ r.urrs \subseteq {v.urr : v \in PdrsOf(r)} \ {0}
<1>1. r.pdrs \in Seq(Pdr) /\ Len(r.pdrs) \in Nat /\ Len(r.pdrs) <= MaxPdr
  BY RulesAssumption DEF RuleSet, Reclaimable
<1>2. \A j \in 1..Len(r.pdrs) : j <= MaxPdr
  BY <1>1, BoundsAssumption
<1>3. \A v \in PdrsOf(r) : v.id \in KeptPdrIds(r)
  BY <1>2 DEF PdrsOf, KeptPdrIds
<1>4. QED BY <1>3 DEF Reclaimable, NamedUrrs

(* The clean-up removes what it has collected, and collects everything. *)
LEMMA OwnProgress ==
    ASSUME NothingRestored, IInv, NEW t0 \in Tasks, DelStep(t0), ~DelRoute(t0), ProgressOf(t0)
    PROVE  ProgressOf(t0)'
<1> Unrestored = Seids
  BY DEF NothingRestored
<1> DEFINE s0 == del[t0].seid
<1> DEFINE u0 == del[t0].ue
<1> DEFINE r == request[s0].rules
<1>1. /\ del[t0] # None /\ del[t0] \in Deletion /\ s0 \in Seids /\ u0 \in Ues /\ request[s0] # None
      /\ UNCHANGED <<request, aborted>>
  BY CleanupEffect
<1>2. del'[t0] # None /\ del'[t0].seid = s0 /\ del'[t0].ue = u0
  BY CleanupEffect
<1>3. s0 \notin aborted'
  BY <1>1 DEF ProgressOf
<1> SUFFICES ASSUME Reclaimable(r) PROVE Collected(t0)' /\ Removed(t0)'
  BY <1>1, <1>2, <1>3 DEF ProgressOf
<1>4. Collected(t0) /\ Removed(t0)
  BY <1>1 DEF ProgressOf
<1>5. r \in Rules
  BY <1>1 DEF IInv, TypeOK, Request
<1> DEFINE installed == InstalledUrrs(s0)
<1> DEFINE left == {u \in urr_map'[s0] : <<s0, u>> \notin recreated'}
<1>13. InstalledUrrs(del[t0].seid)' = left
  BY <1>2 DEF InstalledUrrs
<1>14. UNCHANGED <<urr_map, recreated>> => left = installed
  BY DEF InstalledUrrs
<1>6. CASE DelLookup(t0)
  <2>1. del[t0].step = "lookup" /\ UNCHANGED maps
    BY <1>6 DEF DelLookup, DelIn
  <2>2. session_map[u0] # None /\ session_map[u0].pdrs = KeptPdrIds(r)
    BY <1>4, <2>1 DEF Collected
  <2>3. del'[t0].step = "collect" /\ del'[t0].pdrs = KeptPdrIds(r)
    BY <1>1, <1>6, <2>2 DEF DelLookup, IInv, TypeOK, Deletion
  <2>4. Collected(t0)'
    BY <1>1, <1>2, <2>3 DEF Collected
  <2>5. Removed(t0)'
    BY <1>1, <1>2, <1>4, <1>13, <1>14, <2>1, <2>3 DEF Removed, maps
  <2>6. QED BY <2>4, <2>5
<1>7. CASE DelCollect(t0)
  <2> DEFINE found == {v \in pdr_map[s0] : v.id \in del[t0].pdrs}
  <2>1. del[t0].step = "collect" /\ UNCHANGED maps
    BY <1>7 DEF DelCollect, DelIn
  <2>2. del'[t0].step = "pdr" /\ del'[t0].pdrs = del[t0].pdrs
    BY <1>1, <1>7 DEF DelCollect, IInv, TypeOK, Deletion
  <2>3. del'[t0].fars = {v.far : v \in found} /\ del'[t0].urrs = {v.urr : v \in found} \ {0}
    BY <1>1, <1>7 DEF DelCollect, IInv, TypeOK, Deletion
  <2>4. pdr_map[s0] = PdrsOf(r) /\ del[t0].pdrs = KeptPdrIds(r)
    BY <1>4, <2>1 DEF Collected, Removed
  <2>5. found = PdrsOf(r)
    BY <1>5, <2>4, AllFound
  <2> HIDE DEF found
  <2>6. r.fars \subseteq del'[t0].fars /\ r.urrs \subseteq del'[t0].urrs
    BY <1>5, <2>3, <2>5, AllFound
  <2>7. Collected(t0)'
    BY <1>1, <1>2, <2>2, <2>4, <2>6 DEF Collected
  <2>8. Removed(t0)'
    BY <1>1, <1>2, <1>4, <1>13, <1>14, <2>1, <2>2 DEF Removed, maps
  <2>9. QED BY <2>7, <2>8
<1>8. CASE DelPdrs(t0)
  <2>1. del[t0].step = "pdr" /\ UNCHANGED <<far_map, urr_map, recreated>>
    BY <1>8 DEF DelPdrs, DelIn
  <2>2. /\ del'[t0].step = "far" /\ del'[t0].pdrs = del[t0].pdrs
        /\ del'[t0].fars = del[t0].fars /\ del'[t0].urrs = del[t0].urrs
    BY <1>1, <1>8 DEF DelPdrs, IInv, TypeOK, Deletion
  <2>3. pdr_map'[s0] = {}
    <3>1. pdr_map'[s0] = {v \in pdr_map[s0] : v.id \notin del[t0].pdrs}
      BY <1>1, <1>8 DEF DelPdrs, IInv, TypeOK
    <3>2. pdr_map[s0] = PdrsOf(r) /\ del[t0].pdrs = KeptPdrIds(r)
      BY <1>4, <2>1 DEF Collected, Removed
    <3>3. QED BY <1>5, <3>1, <3>2, AllFound
  <2>4. Collected(t0)'
    BY <1>1, <1>2, <1>4, <2>1, <2>2 DEF Collected
  <2>5. Removed(t0)'
    BY <1>1, <1>2, <1>4, <1>13, <1>14, <2>1, <2>2, <2>3 DEF Removed
  <2>6. QED BY <2>4, <2>5
<1>9. CASE DelFars(t0)
  <2>1. del[t0].step = "far" /\ UNCHANGED <<pdr_map, urr_map, recreated>>
    BY <1>9 DEF DelFars, DelIn
  <2>2. /\ del'[t0].step = "urr" /\ del'[t0].pdrs = del[t0].pdrs
        /\ del'[t0].fars = del[t0].fars /\ del'[t0].urrs = del[t0].urrs
    BY <1>1, <1>9 DEF DelFars, IInv, TypeOK, Deletion
  <2>3. far_map'[s0] = {}
    <3>1. far_map'[s0] = {v \in far_map[s0] : v.id \notin del[t0].fars}
      BY <1>1, <1>9 DEF DelFars, IInv, TypeOK
    <3>2. {v.id : v \in far_map[s0]} = r.fars /\ r.fars \subseteq del[t0].fars
      BY <1>4, <2>1 DEF Collected, Removed
    <3>3. \A v \in far_map[s0] : v.id \in del[t0].fars
      BY <3>2
    <3>4. QED BY <3>1, <3>3
  <2>4. Collected(t0)'
    BY <1>1, <1>2, <1>4, <2>1, <2>2 DEF Collected
  <2>5. Removed(t0)'
    BY <1>1, <1>2, <1>4, <1>13, <1>14, <2>1, <2>2, <2>3 DEF Removed
  <2>6. QED BY <2>4, <2>5
<1>10. CASE DelUrrs(t0)
  <2>1. del[t0].step = "urr" /\ UNCHANGED <<pdr_map, far_map>>
    BY <1>10 DEF DelUrrs, DelIn
  <2>2. /\ del'[t0].step = "session" /\ del'[t0].pdrs = del[t0].pdrs
        /\ del'[t0].fars = del[t0].fars /\ del'[t0].urrs = del[t0].urrs
    BY <1>1, <1>10 DEF DelUrrs, IInv, TypeOK, Deletion
  <2>3. left = {}
    <3>1. /\ urr_map'[s0] = urr_map[s0] \ del[t0].urrs
          /\ recreated' = recreated \ UrrKeys(s0, del[t0].urrs)
      BY <1>1, <1>10 DEF DelUrrs, IInv, TypeOK
    <3>2. installed = r.urrs /\ r.urrs \subseteq del[t0].urrs
      BY <1>4, <2>1 DEF Collected, Removed
    <3>3. \A u \in left : u \in installed /\ u \notin del[t0].urrs
      BY <3>1 DEF InstalledUrrs, UrrKeys
    <3>4. QED BY <3>2, <3>3
  <2>4. Collected(t0)'
    BY <1>1, <1>2, <1>4, <2>1, <2>2 DEF Collected
  <2>5. Removed(t0)'
    BY <1>1, <1>2, <1>4, <1>13, <1>14, <2>1, <2>2, <2>3 DEF Removed
  <2>6. QED BY <2>4, <2>5
<1>11. CASE DelSession(t0)
  <2>1. del[t0].step = "session" /\ UNCHANGED <<pdr_map, far_map, urr_map, recreated>>
    BY <1>11 DEF DelSession, DelIn
  <2>2. /\ del'[t0].step = "route" /\ del'[t0].pdrs = del[t0].pdrs
        /\ del'[t0].fars = del[t0].fars /\ del'[t0].urrs = del[t0].urrs
    BY <1>1, <1>11 DEF DelSession, IInv, TypeOK, Deletion
  <2>3. Collected(t0)'
    BY <1>1, <1>2, <1>4, <2>1, <2>2 DEF Collected
  <2>4. Removed(t0)'
    BY <1>1, <1>2, <1>4, <1>13, <1>14, <2>1, <2>2 DEF Removed
  <2>5. QED BY <2>3, <2>4
<1>12. QED BY <1>6, <1>7, <1>8, <1>9, <1>10, <1>11 DEF DelStep

(* A clean-up takes the entry of a UE address nobody else uses, and when   *)
(* it ends nothing is left under its SEID.                                 *)
LEMMA DCleanup ==
    ASSUME NothingRestored, IInv, DInv, NEW t0 \in Tasks, DelStep(t0)
    PROVE  DInv'
<1> Unrestored = Seids
  BY DEF NothingRestored
<1> DEFINE s0 == del[t0].seid
<1> DEFINE u0 == del[t0].ue
<1>1. /\ del[t0] # None /\ s0 \in Seids /\ u0 \in Ues /\ ~Live(s0)
      /\ \A t \in Tasks : Deleting(t, s0) => t = t0
  BY CleanupEffect
<1>2. UNCHANGED <<sessions, est, request, aborted>>
  BY CleanupEffect
<1>3. \A s \in Seids : s # s0 => /\ pdr_map'[s] = pdr_map[s] /\ far_map'[s] = far_map[s]
                                 /\ InstalledUrrs(s)' = InstalledUrrs(s)
  BY CleanupEffect
<1>4. /\ \A t \in Tasks : t # t0 => del'[t] = del[t]
      /\ \/ DelRoute(t0) /\ del'[t0] = None
         \/ ~DelRoute(t0) /\ del'[t0] # None /\ del'[t0].seid = s0 /\ del'[t0].ue = u0
  <2>1. DelRoute(t0) => del'[t0] = None
    BY DEF DelRoute, IInv, TypeOK
  <2>2. QED BY <2>1, CleanupEffect
<1>5. \A u \in Ues : u # u0 => session_map'[u] = session_map[u]
  <2>1. CASE DelSession(t0)
    BY <1>1, <2>1 DEF DelSession, IInv, TypeOK
  <2>2. CASE ~DelSession(t0)
    <3>1. session_map' = session_map
      BY <2>2 DEF DelStep, DelLookup, DelCollect, DelPdrs, DelFars, DelUrrs, DelRoute, maps
    <3>2. QED BY <3>1
  <2>3. QED BY <2>1, <2>2
<1>6. LiveAlone' /\ DelAlone' /\ EstAlone'
  BY <1>1, <1>2, <1>4 DEF DInv, LiveAlone, DelAlone, EstAlone, Live
<1>7. EstEntry'
  <2>1. est # None => request[est.seid].ue \in Ues /\ request[est.seid].ue # u0
    BY <1>1 DEF DInv, EstAlone, IInv, TypeOK, EstContext, Establishment, Request
  <2>2. QED BY <1>2, <1>5, <2>1 DEF DInv, EstEntry
<1>8. LiveForwardable'
  <2>1. \A s \in Seids : Live(s) => sessions[s].ue \in Ues /\ sessions[s].ue # u0
    BY <1>1 DEF DInv, DelAlone, IInv, TypeOK, Live, SessionData
  <2>2. QED BY <1>2, <1>5, <2>1 DEF DInv, LiveForwardable, Live
<1>9. DelProgress'
  <2> SUFFICES ASSUME NEW t \in Tasks PROVE ProgressOf(t)'
    BY DEF DelProgress
  <2>1. ProgressOf(t)
    BY DEF DInv, DelProgress
  <2>2. CASE t # t0
    <3>1. del[t] # None => /\ del[t].seid \in Seids /\ del[t].seid # s0
                           /\ del[t].ue \in Ues /\ del[t].ue # u0
      BY <1>1, <2>2 DEF DInv, DelAlone, Deleting, IInv, TypeOK, Deletion
    <3>2. QED BY <1>2, <1>3, <1>4, <1>5, <2>1, <2>2, <3>1, ProgressKept
  <2>3. CASE t = t0 /\ DelRoute(t0)
    BY <1>4, <2>3 DEF ProgressOf
  <2>4. CASE t = t0 /\ ~DelRoute(t0)
    BY <2>1, <2>4, OwnProgress
  <2>5. QED BY <2>2, <2>3, <2>4
<1>10. ReclaimedAfterDeletion'
  <2> SUFFICES ASSUME NEW s \in Seids, Gone(s)', Reclaimable(request'[s].rules)
               PROVE  pdr_map'[s] = {} /\ far_map'[s] = {} /\ InstalledUrrs(s)' = {}
    BY DEF ReclaimedAfterDeletion, Gone
  <2>1. CASE s = s0
    <3>1. DelRoute(t0)
      BY <1>4, <2>1 DEF Gone, Deleting
    <3>2. /\ del[t0].step = "route" /\ UNCHANGED <<pdr_map, far_map>>
          /\ InstalledUrrs(s)' = InstalledUrrs(s)
      BY <3>1 DEF DelRoute, DelIn, InstalledUrrs
    <3>3. ProgressOf(t0)
      BY DEF DInv, DelProgress
    <3>4. Removed(t0)
      BY <1>1, <1>2, <2>1, <3>3 DEF ProgressOf
    <3>5. QED BY <2>1, <3>2, <3>4 DEF Removed
  <2>2. CASE s # s0
    <3>1. Gone(s)
      BY <1>1, <1>2, <1>4, <2>2 DEF Gone, Live, Installing, Deleting
    <3>2. QED BY <1>3, <2>2, <3>1, ReclaimedKept DEF DInv, Next
  <2>3. QED BY <2>1, <2>2
<1>11. LiveRouted'
  <2>1. CASE DelRoute(t0)
    <3>1. \A u : u # u0 => (u \in routes => u \in routes') /\ (u \notin ip_failed' => u \notin ip_failed)
      BY <2>1 DEF DelRoute, TeardownUeRoute, IpCommand
    <3>2. \A s \in Seids : Live(s) => sessions[s].ue # u0
      BY <1>1 DEF DInv, DelAlone
    <3>3. QED BY <1>2, <3>1, <3>2 DEF DInv, LiveRouted, Live
  <2>2. CASE ~DelRoute(t0)
    <3>1. UNCHANGED <<routes, ip_failed>>
      BY <2>2 DEF DelStep, DelLookup, DelCollect, DelPdrs, DelFars, DelUrrs, DelSession, maps
    <3>2. QED BY <1>2, <3>1, RoutesUntouched DEF DInv, Live
  <2>3. QED BY <2>1, <2>2
<1>12. QED BY <1>6, <1>7, <1>8, <1>9, <1>10, <1>11 DEF DInv

(* XDP adds no entry that counts as a session's own. *)
LEMMA DXdp ==
    ASSUME NothingRestored, IInv, DInv, NEW c \in Cpus, (\E s \in Seids : XdpMatch(c, s)) \/ UrrCount(c)
    PROVE  DInv'
<1> Unrestored = Seids
  BY DEF NothingRestored
<1>1. UNCHANGED <<sessions, session_map, pdr_map, far_map, routes, ip_failed, est, del, request, aborted>>
  BY XdpEffect DEF server
<1>2. \A s \in Seids : InstalledUrrs(s)' = InstalledUrrs(s)
  BY XdpEffect
<1>3. LiveAlone' /\ DelAlone' /\ EstAlone' /\ EstEntry' /\ LiveForwardable' /\ LiveRouted'
  BY <1>1 DEF DInv, LiveAlone, DelAlone, EstAlone, EstEntry, LiveForwardable, LiveRouted, Live
<1>4. DelProgress'
  <2> SUFFICES ASSUME NEW t \in Tasks PROVE ProgressOf(t)'
    BY DEF DelProgress
  <2>1. del[t] # None => del[t].seid \in Seids
    BY DEF IInv, TypeOK, Deletion
  <2>2. ProgressOf(t)
    BY DEF DInv, DelProgress
  <2>3. QED BY <1>1, <1>2, <2>1, <2>2, ProgressKept
<1>5. ReclaimedAfterDeletion'
  <2>1. \A s \in Seids : Gone(s)' => Gone(s)
    BY <1>1 DEF Gone, Live, Installing, Deleting
  <2>2. QED BY <1>2, <2>1, ReclaimedStep DEF DInv, Next
<1>6. QED BY <1>3, <1>4, <1>5 DEF DInv

(* Nobody is there at first. *)
LEMMA DInit == ASSUME NothingRestored PROVE Init => DInv
<1> SUFFICES ASSUME Init PROVE DInv
  OBVIOUS
<1>1. \A s \in Seids : ~Live(s)
  BY DEF Init, Live, NothingRestored, Unrestored
<1>2. est = None /\ (\A t \in Tasks : del[t] = None) /\ \A s \in Seids : request[s] = None
  BY DEF Init
<1>3. QED
  BY <1>1, <1>2, UnrestoredSeids DEF DInv, LiveAlone, DelAlone, EstAlone, EstEntry, DelProgress, ProgressOf,
     LiveForwardable, LiveRouted, ReclaimedAfterDeletion

(* Every step of every handler keeps the invariant, if the SMFs take only  *)
(* UE addresses that are free.                                             *)
LEMMA DStep == ASSUME Disciplined, NothingRestored PROVE IInv /\ DInv /\ [Next]_vars => DInv'
<1> SUFFICES ASSUME IInv, DInv, [Next]_vars PROVE DInv'
  OBVIOUS
<1>1. CASE UNCHANGED vars
  BY <1>1, DQuiet DEF vars, maps
<1>2. CASE Next
  <2>1. ASSUME NEW p \in Peers, NEW ts \in Timestamps, HandleAssociation(p, ts) \/ HandleHeartbeat(p, ts)
        PROVE  DInv'
    BY <2>1, DQuiet DEF HandleAssociation, HandleHeartbeat
  <2>2. ASSUME NEW p \in Peers, EstReject(p)
        PROVE  DInv'
    BY <2>2, DQuiet DEF EstReject
  <2>3. QED
    BY <1>2, <2>1, <2>2, DBegin, DInsert, DAbort, DCommit, DModification, DDelLocked, DCleanup, DXdp
       DEF Next, EstStep
<1>3. QED BY <1>1, <1>2

(* The invariant holds in every reachable state. *)
LEMMA DInvariance == ASSUME Disciplined, NothingRestored PROVE Spec => []DInv
<1>1. IInv /\ DInv /\ [Next]_vars => DInv'
  BY DStep
<1>2. QED BY <1>1, DInit, Invariance, PTL DEF Spec

(* A UE address resolves to the established session that has it, with the  *)
(* end point and the PDR IDs on record, at every moment of every other     *)
(* session's clean-up: a Deletion that has given the mutex back never      *)
(* takes the entry of the address's next user.                             *)
THEOREM Forwarding == ASSUME Disciplined, NothingRestored PROVE Spec => []LiveForwardable
<1>1. DInv => LiveForwardable
  BY DEF DInv
<1>2. QED BY <1>1, DInvariance, PTL

(* An established session keeps the route of its UE address, unless the ip *)
(* command that had to set it up failed: a clean-up, whose teardown runs   *)
(* without the mutex as its last step, is never of an address that a live  *)
(* session has.                                                            *)
THEOREM RoutesKept == ASSUME Disciplined, NothingRestored PROVE Spec => []LiveRouted
<1>1. DInv => LiveRouted
  BY DEF DInv
<1>2. QED BY <1>1, DInvariance, PTL

(* A Deletion that has been answered has removed everything the handlers   *)
(* wrote: the PDR IDs it reads without the mutex are those of the session  *)
(* it deletes, and they lead to all FARs and URRs.  What XDP counts for a  *)
(* packet in flight is all that can be found under the SEID again.         *)
THEOREM Reclaiming == ASSUME Disciplined, NothingRestored PROVE Spec => []ReclaimedAfterDeletion
<1>1. DInv => ReclaimedAfterDeletion
  BY DEF DInv
<1>2. QED BY <1>1, DInvariance, PTL

-----------------------------------------------------------------------------
(* The premises under which sessions keep their owner: SMFs that take only *)
(* free CP-SEIDs, each from numbers of its own, and never restart.         *)
Steady ==
    /\ Disciplined /\ NothingRestored
    /\ \A p1, p2 \in Peers : p1 # p2 => CpOf[p1] \cap CpOf[p2] = {}
    /\ \A ts1, ts2 \in Timestamps : ts1 = ts2

(* Sessions, associations and the Establishment as they were. *)
LEMMA OQuiet ==
    ASSUME OInv, UNCHANGED <<sessions, associations, est, request>>
    PROVE  OInv'
BY UnrestoredSeids
   DEF OInv, NodesOfPeers, CpAlone, EstCpAlone, EverySessionOwned, Owns, AssociationsFrom, Live

(* Without restarts an association is only ever set up once. *)
LEMMA OAssociation ==
    ASSUME Steady, IInv, OInv, NEW p \in Peers, NEW ts \in Timestamps,
           HandleAssociation(p, ts) \/ HandleHeartbeat(p, ts)
    PROVE  OInv'
<1> Unrestored = Seids
  BY DEF Steady, NothingRestored
<1>1. \A n \in Nodes : associations[n] # None => associations[n].ts = ts
  <2>1. \A n \in Nodes : associations[n] # None => associations[n].ts \in Timestamps
    BY DEF IInv, TypeOK, SmfAssociation
  <2>2. QED BY <2>1 DEF Steady
<1>2. /\ HandleAssociation(p, ts) /\ NodeOf[p] \in Nodes /\ associations[NodeOf[p]] = None
      /\ UNCHANGED <<sessions, est, request>>
  BY <1>1, PeersAssumption DEF HandleAssociation, HandleHeartbeat, AssociationsFrom
<1>3. /\ associations'[NodeOf[p]] = [peer |-> p, ts |-> ts, sessions |-> {}]
      /\ \A n \in Nodes : n # NodeOf[p] => associations'[n] = associations[n]
  BY <1>2 DEF HandleAssociation, IInv, TypeOK
<1>4. NodesOfPeers'
  BY <1>2, <1>3 DEF OInv, NodesOfPeers
<1>5. CpAlone' /\ EstCpAlone'
  BY <1>2 DEF OInv, CpAlone, EstCpAlone, Live
<1>6. EverySessionOwned'
  <2> SUFFICES ASSUME NEW s \in Seids, Live(s)
               PROVE  \E n \in Nodes : Owns(request[s].src, n, s)'
    BY <1>2 DEF EverySessionOwned, Live
  <2>1. PICK n \in Nodes : Owns(request[s].src, n, s)
    BY DEF OInv, EverySessionOwned
  <2>2. associations'[n] = associations[n] /\ associations[n] # None
    BY <1>2, <1>3, <2>1 DEF Owns, AssociationsFrom
  <2>3. Owns(request[s].src, n, s)'
    BY <1>2, <2>1, <2>2 DEF Owns, AssociationsFrom, Live
  <2>4. QED BY <2>3
<1>7. QED BY <1>4, <1>5, <1>6 DEF OInv

(* An Establishment begins with a CP-SEID its SMF does not use. *)
LEMMA OBegin ==
    ASSUME Steady, IInv, OInv, NEW p \in Peers, NEW q \in Request, EstBegin(p, q)
    PROVE  OInv'
<1> Unrestored = Seids
  BY DEF Steady, NothingRestored
<1>1. /\ next_seid \in Seids /\ q.src = p /\ FreeCp(p, q.cp)
      /\ UNCHANGED <<associations, sessions>>
  BY DEF EstBegin, Steady
<1>2. est' # None /\ est'.seid = next_seid
  BY <1>1, NoneAssumption DEF EstBegin, AssociationsFrom, Establishment
<1>3. request'[next_seid] = q /\ \A s \in Seids : s # next_seid => request'[s] = request[s]
  BY <1>1 DEF EstBegin, IInv, TypeOK
<1>4. ~Live(next_seid)
  BY <1>1 DEF IInv, FreshSeids, TypeOK
<1>5. \A s \in Seids : Live(s) => request'[s] = request[s]
  BY <1>3, <1>4
<1>6. NodesOfPeers' /\ CpAlone' /\ EverySessionOwned'
  BY <1>1, <1>5 DEF OInv, NodesOfPeers, CpAlone, EverySessionOwned, Owns, AssociationsFrom, Live
<1>7. EstCpAlone'
  BY <1>1, <1>2, <1>3, <1>5 DEF EstCpAlone, FreeCp, Live
<1>8. QED BY <1>6, <1>7 DEF OInv

(* The recorded session is entered with the association of its SMF. *)
LEMMA OCommit ==
    ASSUME Steady, IInv, OInv, EstCommit
    PROVE  OInv'
<1> Unrestored = Seids
  BY DEF Steady, NothingRestored
<1> DEFINE s0 == est.seid
<1> DEFINE n0 == est.node
<1>1. /\ est # None /\ s0 \in Seids /\ n0 \in Nodes /\ ~Live(s0)
      /\ Req \in Request /\ Req = request[s0]
  BY EstFacts DEF EstStep
<1>2. est' = None /\ request' = request
  BY DEF EstCommit
<1>3. associations[n0] # None /\ associations[n0] \in SmfAssociation /\ associations[n0].peer = Req.src
  BY <1>1 DEF IInv, EstContext, TypeOK
<1>4. /\ associations'[n0] # None /\ associations'[n0].peer = Req.src
      /\ associations'[n0].sessions = associations[n0].sessions \cup {Req.cp}
      /\ \A n \in Nodes : n # n0 => associations'[n] = associations[n]
  <2> DEFINE a1 == [associations[n0] EXCEPT !.sessions = associations[n0].sessions \cup {Req.cp}]
  <2>1. associations' = [associations EXCEPT ![n0] = a1]
    BY <1>1 DEF EstCommit
  <2>2. a1 \in SmfAssociation /\ a1.peer = Req.src /\ a1.sessions = associations[n0].sessions \cup {Req.cp}
    BY <1>1, <1>3 DEF SmfAssociation, Request
  <2> HIDE DEF a1
  <2>3. associations'[n0] = a1 /\ \A n \in Nodes : n # n0 => associations'[n] = associations[n]
    BY <1>1, <2>1 DEF IInv, TypeOK
  <2>4. QED BY <2>2, <2>3, NoneAssumption
<1>5. /\ sessions'[s0].cp = Req.cp /\ sessions'[s0] # None
      /\ \A s \in Seids : s # s0 => sessions'[s] = sessions[s]
  <2>1. [ue |-> Req.ue, cp |-> Req.cp, tun |-> OwnTeid(Req.tun, s0)] \in SessionData
    BY <1>1 DEF SessionData, OwnTeid, EndPoint, Request
  <2>2. QED BY <1>1, <2>1, NoneAssumption DEF IInv, TypeOK, EstCommit
<1>6. NodesOfPeers'
  BY <1>3, <1>4 DEF OInv, NodesOfPeers
<1>7. CpAlone' /\ EstCpAlone'
  BY <1>1, <1>2, <1>5 DEF OInv, CpAlone, EstCpAlone, Live
<1>8. EverySessionOwned'
  <2> SUFFICES ASSUME NEW s \in Seids, Live(s)'
               PROVE  \E n \in Nodes : Owns(request[s].src, n, s)'
    BY <1>2 DEF EverySessionOwned
  <2>1. CASE s = s0
    BY <1>1, <1>2, <1>4, <1>5, <2>1 DEF Owns, AssociationsFrom, Live
  <2>2. CASE s # s0
    <3>1. Live(s) /\ sessions'[s] = sessions[s]
      BY <1>5, <2>2 DEF Live
    <3>2. PICK n \in Nodes : Owns(request[s].src, n, s)
      BY <3>1 DEF OInv, EverySessionOwned
    <3>3. /\ associations'[n] # None /\ associations'[n].peer = associations[n].peer
          /\ associations[n].sessions \subseteq associations'[n].sessions
      BY <1>3, <1>4, <3>2 DEF Owns, AssociationsFrom
    <3>4. Owns(request[s].src, n, s)'
      BY <1>2, <3>1, <3>2, <3>3 DEF Owns, AssociationsFrom, Live
    <3>5. QED BY <3>4
  <2>3. QED BY <2>1, <2>2
<1>9. QED BY <1>6, <1>7, <1>8 DEF OInv

(* The inserts, successful or not, leave sessions and associations alone. *)
LEMMA OInsert ==
    ASSUME Steady, IInv, OInv, EstSession \/ EstPdrs \/ EstFars \/ EstUrrs \/ EstAbort
    PROVE  OInv'
<1> Unrestored = Seids
  BY DEF Steady, NothingRestored
<1>1. est # None /\ est \in Establishment
  BY EstFacts DEF EstStep
<1>2. UNCHANGED <<sessions, associations, request>>
  BY DEF EstSession, EstPdrs, EstFars, EstUrrs, EstAbort, server
<1>3. est' # None => est'.seid = est.seid
  <2>1. \A step \in {"pdr", "far", "urr", "commit"} :
          [est EXCEPT !.step = step] \in Establishment /\ [est EXCEPT !.step = step].seid = est.seid
    BY <1>1 DEF Establishment
  <2>2. CASE EstAbort
    <3>1. est' = None
      BY <2>2 DEF EstAbort
    <3>2. QED BY <3>1
  <2>3. CASE EstSession \/ EstPdrs \/ EstFars \/ EstUrrs
    <3>1. est' # None /\ est'.seid = est.seid
      BY <2>1, <2>3, NoneAssumption DEF EstSession, EstPdrs, EstFars, EstUrrs
    <3>2. QED BY <3>1
  <2>4. QED BY <2>2, <2>3
<1>4. EstCpAlone'
  BY <1>1, <1>2, <1>3 DEF OInv, EstCpAlone, Live
<1>5. NodesOfPeers' /\ CpAlone' /\ EverySessionOwned'
  BY <1>2 DEF OInv, NodesOfPeers, CpAlone, EverySessionOwned, Owns, AssociationsFrom, Live
<1>6. QED BY <1>4, <1>5 DEF OInv

(* A Modification changes neither CP-SEIDs nor owners. *)
LEMMA OModification ==
    ASSUME Steady, IInv, OInv, NEW p \in Peers, NEW s0 \in Seids, NEW f \in FarIds, NEW tun \in Tunnels,
           NEW access \in BOOLEAN, HandleModification(p, s0, f, tun, access)
    PROVE  OInv'
<1> Unrestored = Seids
  BY DEF Steady, NothingRestored
<1>1. UNCHANGED <<associations, est, request>> /\ est = None
  BY DEF HandleModification, ServerUnlocked
<1>2. Live(s0) /\ sessions[s0] \in SessionData
  BY DEF HandleModification, Owns, Live, IInv, TypeOK
<1>3. \A s \in Seids : (Live(s)' => Live(s)) /\ (Live(s) => sessions'[s].cp = sessions[s].cp)
  <2>1. CASE access
    <3>1. sessions' = [sessions EXCEPT ![s0] = [sessions[s0] EXCEPT !.tun = GnbTeid(tun)]]
      BY <2>1 DEF HandleModification
    <3>2. [sessions[s0] EXCEPT !.tun = GnbTeid(tun)].cp = sessions[s0].cp
      BY <1>2 DEF SessionData
    <3>3. QED BY <1>2, <3>1, <3>2 DEF IInv, TypeOK, Live
  <2>2. CASE ~access
    BY <2>2 DEF HandleModification, Live
  <2>3. QED BY <2>1, <2>2
<1>4. NodesOfPeers' /\ CpAlone' /\ EstCpAlone'
  BY <1>1, <1>3 DEF OInv, NodesOfPeers, CpAlone, EstCpAlone
<1>5. EverySessionOwned'
  BY <1>1, <1>3 DEF OInv, EverySessionOwned, Owns, AssociationsFrom
<1>6. QED BY <1>4, <1>5 DEF OInv

(* A Deletion takes out the CP-SEID of its own session only: the CP-SEIDs  *)
(* of an SMF's sessions differ, and other SMFs have others.                *)
LEMMA ODelLocked ==
    ASSUME Steady, IInv, OInv, NEW t0 \in Tasks, NEW p \in Peers, NEW s0 \in Seids, DelLocked(t0, p, s0)
    PROVE  OInv'
<1> Unrestored = Seids
  BY DEF Steady, NothingRestored
<1>1. PICK n0 \in Nodes : /\ Owns(p, n0, s0)
                          /\ associations' = [associations EXCEPT ![n0].sessions = @ \ {sessions[s0].cp}]
  BY DEF DelLocked
<1>2. /\ Live(s0) /\ associations[n0] # None /\ associations[n0] \in SmfAssociation
      /\ associations[n0].peer = p /\ sessions[s0].cp \in associations[n0].sessions
  BY <1>1 DEF Owns, AssociationsFrom, IInv, TypeOK
<1>3. est = None /\ est' = None /\ request' = request
  BY DEF DelLocked, ServerUnlocked
<1>4. sessions'[s0] = None /\ \A s \in Seids : s # s0 => sessions'[s] = sessions[s]
  BY DEF DelLocked, IInv, TypeOK
<1>5. /\ associations'[n0] # None /\ associations'[n0].peer = p
      /\ associations'[n0].sessions = associations[n0].sessions \ {sessions[s0].cp}
      /\ \A n \in Nodes : n # n0 => associations'[n] = associations[n]
  <2> DEFINE a1 == [associations[n0] EXCEPT !.sessions = associations[n0].sessions \ {sessions[s0].cp}]
  <2>1. associations' = [associations EXCEPT ![n0] = a1]
    BY <1>1
  <2>2. a1 \in SmfAssociation /\ a1.peer = p /\ a1.sessions = associations[n0].sessions \ {sessions[s0].cp}
    BY <1>2 DEF SmfAssociation
  <2> HIDE DEF a1
  <2>3. associations'[n0] = a1 /\ \A n \in Nodes : n # n0 => associations'[n] = associations[n]
    BY <2>1 DEF IInv, TypeOK
  <2>4. QED BY <2>2, <2>3, NoneAssumption
<1>6. request[s0].src = p
  <2>1. sessions[s0].cp \in CpOf[p]
    BY <1>2 DEF IInv, CpSeidsOfPeer
  <2>2. request[s0].src \in Peers /\ sessions[s0].cp \in CpOf[request[s0].src]
    BY <1>2 DEF IInv, TypeOK, LiveAsRequested, CpSeidsOfPeer, Request
  <2>3. QED BY <2>1, <2>2 DEF Steady
<1>7. NodesOfPeers'
  BY <1>2, <1>5 DEF OInv, NodesOfPeers
<1>8. CpAlone' /\ EstCpAlone'
  BY <1>3, <1>4 DEF OInv, CpAlone, EstCpAlone, Live
<1>9. EverySessionOwned'
  <2> SUFFICES ASSUME NEW s \in Seids, Live(s)'
               PROVE  \E n \in Nodes : Owns(request[s].src, n, s)'
    BY <1>3 DEF EverySessionOwned
  <2>1. s # s0 /\ Live(s) /\ sessions'[s] = sessions[s]
    BY <1>4 DEF Live
  <2>2. PICK n \in Nodes : Owns(request[s].src, n, s)
    BY <2>1 DEF OInv, EverySessionOwned
  <2>3. n = n0 => request[s].src = p /\ sessions[s].cp # sessions[s0].cp
    BY <1>2, <1>6, <2>1, <2>2 DEF Owns, AssociationsFrom, OInv, CpAlone
  <2>4. /\ associations'[n] # None /\ associations'[n].peer = request[s].src
        /\ sessions[s].cp \in associations'[n].sessions
    BY <1>2, <1>5, <2>2, <2>3 DEF Owns, AssociationsFrom
  <2>5. Owns(request[s].src, n, s)'
    BY <1>3, <2>1, <2>4 DEF Owns, AssociationsFrom, Live
  <2>6. QED BY <2>5
<1>10. QED BY <1>7, <1>8, <1>9 DEF OInv

(* Every step keeps the owners. *)
LEMMA OStep == ASSUME Steady PROVE IInv /\ OInv /\ [Next]_vars => OInv'
<1> SUFFICES ASSUME IInv, OInv, [Next]_vars PROVE OInv'
  OBVIOUS
<1>1. CASE UNCHANGED vars
  BY <1>1, OQuiet DEF vars
<1>2. CASE Next
  <2>1. ASSUME NEW p \in Peers, EstReject(p)
        PROVE  OInv'
    BY <2>1, OQuiet DEF EstReject
  <2>2. ASSUME NEW t \in Tasks, DelStep(t)
        PROVE  OInv'
    <3>1. UNCHANGED <<associations, sessions, est, request>>
      BY <2>2, CleanupEffect
    <3>2. QED BY <3>1, OQuiet
  <2>3. ASSUME NEW c \in Cpus, (\E s \in Seids : XdpMatch(c, s)) \/ UrrCount(c)
        PROVE  OInv'
    <3>1. UNCHANGED <<associations, sessions, est, request>>
      BY <2>3, XdpEffect DEF server
    <3>2. QED BY <3>1, OQuiet
  <2>4. QED
    BY <1>2, <2>1, <2>2, <2>3, OAssociation, OBegin, OInsert, OCommit, OModification, ODelLocked DEF Next, EstStep
<1>3. QED BY <1>1, <1>2

(* The SMF that established a session can modify and delete it as long as  *)
(* it lives, if SMFs do not restart (the restart is the exception that run *)
(* smf_restart shows), and if they choose CP-SEIDs that are free and their *)
(* own: the association's table of CP-SEIDs, from which a Deletion strikes *)
(* one entry, never loses that of another live session.                    *)
THEOREM OwnersStay == ASSUME Steady PROVE Spec => []EverySessionOwned
<1>1. Init => OInv
  <2> SUFFICES ASSUME Init PROVE OInv
    OBVIOUS
  <2>1. \A s \in Seids : ~Live(s)
    BY DEF Init, Live, Steady, NothingRestored, Unrestored
  <2>2. est = None /\ \A n \in Nodes : associations[n] = None
    BY DEF Init
  <2>3. QED BY <2>1, <2>2, UnrestoredSeids DEF OInv, NodesOfPeers, CpAlone, EstCpAlone, EverySessionOwned
<1>2. IInv /\ OInv /\ [Next]_vars => OInv'
  BY OStep
<1>3. OInv => EverySessionOwned
  BY DEF OInv
<1>4. QED BY <1>1, <1>2, <1>3, Invariance, PTL DEF Spec
=============================================================================
