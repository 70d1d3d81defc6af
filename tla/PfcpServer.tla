----------------------------- MODULE PfcpServer -----------------------------
(***************************************************************************)
(* The control plane of upf-edge: the PFCP server state behind one mutex   *)
(* (pfcp_server.rs), the five request handlers (handle_msg.rs), the        *)
(* associations (association.rs) and the eBPF rule maps they write.  One   *)
(* life of the process: it begins with the sessions Redis gave back.       *)
(*                                                                         *)
(* Every packet is handled in a task of its own (pfcp_server.rs:347).      *)
(* Heartbeat, Association Setup and Session Modification do all their work *)
(* under the server mutex and are one action each.  Session Establishment  *)
(* also keeps the mutex, but the kernel, a deletion in progress and a      *)
(* failing map insert can observe it half way: it is split at every kind   *)
(* of map it writes, and est # None means that it holds the mutex.         *)
(* Session Deletion gives the mutex back BEFORE it cleans the maps: its    *)
(* clean-up is one action per map lock it takes and interleaves with every *)
(* other handler.                                                          *)
(*                                                                         *)
(* A tunnel stands for a gNB address and TEID.  next_teid is advanced with *)
(* next_seid, at the same place only: the TEID allocated for a session is  *)
(* named by its SEID.  The contents of a URR and of its UrrConfig are left *)
(* to the usage-reporting model; here only the keys count, which the XDP   *)
(* program inserts too (upf-edge-ebpf/src/main.rs).                        *)
(***************************************************************************)
EXTENDS Naturals, Sequences

CONSTANTS
    Peers,       \* source SocketAddrs of the SMFs
    Nodes,       \* SMF Node IDs
    NodeOf,      \* [Peers -> Nodes], the Node ID a peer announces
    CpOf,        \* [Peers -> SUBSET CpSeids], the CP-SEIDs a peer chooses from
    CpSeids,
    Ues,         \* UE addresses
    Tunnels,     \* gNB tunnel end points
    PdrIds, FarIds, UrrIds,
    Rules,       \* the rule sets an Establishment Request can carry
    MaxPdr,      \* MAX_PDR_PER_SESSION
    Tasks,       \* tasks that may be deleting at the same time
    Cpus,        \* CPUs that run the XDP program
    Restored,    \* [Seids -> SessionData \cup {None}], the sessions Redis held
    LeftRoutes,  \* UE addresses with a route of an earlier life of the process
    MaxSeid,     \* bound on next_seid
    Timestamps,  \* Recovery Time Stamps
    Disciplined, \* SMFs reuse a UE address or a CP-SEID only when it is free
    MapsMayFill, \* an eBPF map insert may fail
    None

Seids == 1..MaxSeid

Pdr == [id : PdrIds, far : FarIds, urr : UrrIds \cup {0}]
RuleSet == [pdrs : Seq(Pdr), fars : SUBSET FarIds, access : FarIds, urrs : SUBSET UrrIds]

(* Where a session's own record sends the downlink: gnb_ip and teid. *)
EndPoint == [gnb : Tunnels, teid : Tunnels \cup Seids]
FarValue == [id : FarIds, tun : Tunnels \cup {None}]
SessionData == [ue : Ues, cp : CpSeids, tun : EndPoint]
SessionInfo == [seid : Seids, tun : EndPoint, pdrs : SUBSET PdrIds]
SmfAssociation == [peer : Peers, ts : Timestamps, sessions : SUBSET CpSeids]
Request == [src : Peers, cp : CpSeids, ue : Ues, tun : Tunnels, rules : Rules]
Establishment == [step : {"session", "pdr", "far", "urr", "commit"}, seid : Seids, node : Nodes]
UrrKey == Seids \X UrrIds
Deletion == [step : {"lookup", "collect", "pdr", "far", "urr", "session", "route"},
             seid : Seids, ue : Ues,
             pdrs : SUBSET PdrIds, fars : SUBSET FarIds, urrs : SUBSET UrrIds]

(* A session as the SMFs know it, see AbstractSession. *)
SessionView == [ue : Ues, cp : CpSeids,
                content : [tun : EndPoint, pdrs : SUBSET Pdr, fars : SUBSET FarValue,
                           urrs : SUBSET UrrIds]]

ASSUME PeersAssumption ==
    /\ NodeOf \in [Peers -> Nodes]
    /\ CpOf \in [Peers -> SUBSET CpSeids]

ASSUME BoundsAssumption ==
    /\ MaxSeid \in Nat /\ MaxPdr \in Nat
    /\ Timestamps \subseteq Nat
    /\ Disciplined \in BOOLEAN /\ MapsMayFill \in BOOLEAN

ASSUME RestoredAssumption ==
    /\ Restored \in [Seids -> SessionData \cup {None}]
    /\ LeftRoutes \subseteq Ues

(* A request without an Outer Header Creation is refused, and a request    *)
(* names a PDR only once.                                                  *)
ASSUME RulesAssumption ==
    /\ Rules \subseteq RuleSet
    /\ \A r \in Rules : /\ r.access \in r.fars
                        /\ \A i, j \in 1..Len(r.pdrs) : r.pdrs[i].id = r.pdrs[j].id => i = j

(* None is the absent value of the maps and of the optional fields. *)
ASSUME NoneAssumption ==
    /\ None \notin Nodes
    /\ None \notin Tunnels
    /\ None \notin SessionData
    /\ None \notin SessionInfo
    /\ None \notin SessionView
    /\ None \notin SmfAssociation
    /\ None \notin Request
    /\ None \notin Establishment
    /\ None \notin Deletion
    /\ None \notin UrrKey

(* The SEIDs under which Redis held no session.  SEIDs are allocated from  *)
(* 1 again after a restart: under any other SEID a new session meets the   *)
(* restored one, and the properties leave these SEIDs out (the session     *)
(* store's own model shows what becomes of the restored session).          *)
Unrestored == {s \in Seids : Restored[s] = None}
NothingRestored == Unrestored = Seids

VARIABLES
    associations,  \* PfcpServer::associations, by Node ID
    sessions,      \* PfcpServer::sessions, by local SEID
    next_seid,     \* PfcpServer::next_seid
    urr_configs,   \* the keys of PfcpServer::urr_configs
    peer_addr,     \* PfcpServer::peer_addr (a Node ID, at port 8805)
    session_map,   \* SESSION_MAP, by UE address
    pdr_map,       \* PDR_MAP, by SEID
    far_map,       \* FAR_MAP, by SEID
    urr_map,       \* the keys of URR_MAP, by SEID
    recreated,     \* history: the keys of URR_MAP that XDP put there
    routes,        \* UE addresses with a kernel route and neighbour
    ip_failed,     \* history: UE addresses whose route is not as the last ip
                   \* command should have left it, or is of an earlier life
    est,           \* the Establishment that holds the server mutex
    del,           \* the clean-ups of the Deletions in progress, by task
    request,       \* by SEID: the Establishment Request it was allocated for
                   \* (the handler's locals while it runs, history afterwards)
    aborted,       \* history: SEIDs whose Establishment ended in an error
    xdp            \* by CPU: the URR of the packet that has matched a PDR and
                   \* is not counted yet

server == <<associations, sessions, next_seid, urr_configs, peer_addr>>
maps == <<session_map, pdr_map, far_map, urr_map, recreated, routes, ip_failed>>
vars == <<associations, sessions, next_seid, urr_configs, peer_addr,
          session_map, pdr_map, far_map, urr_map, recreated, routes, ip_failed,
          est, del, request, aborted, xdp>>

TypeOK ==
    /\ associations \in [Nodes -> SmfAssociation \cup {None}]
    /\ sessions \in [Seids -> SessionData \cup {None}]
    /\ next_seid \in 1..MaxSeid + 1
    /\ urr_configs \subseteq Seids \X UrrIds
    /\ peer_addr \in Nodes \cup {None}
    /\ session_map \in [Ues -> SessionInfo \cup {None}]
    /\ pdr_map \in [Seids -> SUBSET Pdr]
    /\ far_map \in [Seids -> SUBSET FarValue]
    /\ urr_map \in [Seids -> SUBSET UrrIds]
    /\ recreated \subseteq UrrKey
    /\ routes \subseteq Ues
    /\ ip_failed \subseteq Ues
    /\ est \in Establishment \cup {None}
    /\ del \in [Tasks -> Deletion \cup {None}]
    /\ request \in [Seids -> Request \cup {None}]
    /\ aborted \subseteq Seids
    /\ xdp \in [Cpus -> UrrKey \cup {None}]

(* PfcpServer::new, the sessions Redis gives back, and the empty maps of a *)
(* freshly loaded XDP program.  Neither the maps nor the associations nor  *)
(* next_seid learn of the restored sessions; kernel routes outlive the     *)
(* process.                                                                *)
Init ==
    /\ associations = [n \in Nodes |-> None]
    /\ sessions = Restored
    /\ next_seid = 1
    /\ urr_configs = {}
    /\ peer_addr = None
    /\ session_map = [u \in Ues |-> None]
    /\ pdr_map = [s \in Seids |-> {}]
    /\ far_map = [s \in Seids |-> {}]
    /\ urr_map = [s \in Seids |-> {}]
    /\ recreated = {}
    /\ routes = LeftRoutes
    /\ ip_failed = LeftRoutes
    /\ est = None
    /\ del = [t \in Tasks |-> None]
    /\ request = [s \in Seids |-> None]
    /\ aborted = {}
    /\ xdp = [c \in Cpus |-> None]

-----------------------------------------------------------------------------
(* The server mutex: Establishment is the only handler that keeps it over  *)
(* several steps.                                                          *)
ServerUnlocked == est = None

Live(s) == sessions[s] # None

(* The associations found by source address. *)
AssociationsFrom(p) == {n \in Nodes : associations[n] # None /\ associations[n].peer = p}

\* Mutant: the check asks only for an association, not for the CP-SEID.
OwnsByPeerOnly(p, n, s) == n \in AssociationsFrom(p) /\ Live(s)

(* The ownership check of Modification and Deletion: p's association n     *)
(* holds the CP-SEID of session s.                                         *)
Owns(p, n, s) ==
    /\ n \in AssociationsFrom(p)
    /\ Live(s)
    /\ sessions[s].cp \in associations[n].sessions

PdrsOf(r) == {r.pdrs[i] : i \in 1..Len(r.pdrs)}

\* Mutant: the copy loop stops one PDR too early.
KeptPdrIdsOffByOne(r) == {r.pdrs[i].id : i \in {j \in 1..Len(r.pdrs) : j < MaxPdr}}

(* SessionInfo.pdr_ids: the first MAX_PDR_PER_SESSION PDR IDs only. *)
KeptPdrIds(r) == {r.pdrs[i].id : i \in {j \in 1..Len(r.pdrs) : j <= MaxPdr}}

(* Only the FARs with an Outer Header Creation carry a tunnel. *)
FarsOf(q) == {[id |-> f, tun |-> IF f = q.rules.access THEN q.tun ELSE None] : f \in q.rules.fars}

UrrKeys(s, ids) == {<<s, u>> : u \in ids}

(* The URRs the PDRs refer to; URR ID 0 means none. *)
NamedUrrs(r) == {v.urr : v \in PdrsOf(r)} \ {0}

(* The URR_MAP entries of a session that its handler wrote. *)
InstalledUrrs(s) == {u \in urr_map[s] : <<s, u>> \notin recreated}

-----------------------------------------------------------------------------
(* Heartbeat Request with a Recovery Time Stamp: a time stamp other than   *)
(* the association's own is taken for an SMF restart.                      *)
HandleHeartbeat(p, ts) ==
    /\ ServerUnlocked
    /\ \E n \in AssociationsFrom(p) :
         /\ associations[n].ts # ts
         /\ associations' = [associations EXCEPT ![n] = [@ EXCEPT !.sessions = {}, !.ts = ts]]
    /\ UNCHANGED <<sessions, next_seid, urr_configs, peer_addr, maps, est, del, request, aborted, xdp>>

(* Association Setup Request.  The same time stamp is answered and changes *)
(* nothing; a newer one, and an older one too, replaces the association.   *)
HandleAssociation(p, ts) ==
    LET n == NodeOf[p] IN
    /\ ServerUnlocked
    /\ associations[n] # None => associations[n].ts # ts
    /\ associations' = [associations EXCEPT ![n] = [peer |-> p, ts |-> ts, sessions |-> {}]]
    /\ peer_addr' = n
    /\ UNCHANGED <<sessions, next_seid, urr_configs, maps, est, del, request, aborted, xdp>>

-----------------------------------------------------------------------------
(* What a disciplined SMF knows to be free: nobody answers for the UE      *)
(* address, and no session of its own, or of the UPF's earlier life, has   *)
(* the CP-SEID.                                                            *)
FreeUe(u) ==
    /\ \A s \in Seids : Live(s) => sessions[s].ue # u
    /\ \A t \in Tasks : del[t] # None => del[t].ue # u
FreeCp(p, cp) ==
    \A s \in Seids : Live(s) /\ sessions[s].cp = cp => request[s] # None /\ request[s].src # p

\* Mutant: the SEID is read and not advanced.
EstBeginNoIncrement(p, q) ==
    /\ ServerUnlocked
    /\ next_seid \in Seids
    /\ q.src = p /\ q.cp \in CpOf[p]
    /\ \E n \in AssociationsFrom(p) :
         est' = [step |-> "session", seid |-> next_seid, node |-> n]
    /\ request' = [request EXCEPT ![next_seid] = q]
    /\ UNCHANGED <<server, maps, del, aborted, xdp>>

(* handle_session_establishment: association lookup and SEID allocation. *)
EstBegin(p, q) ==
    /\ ServerUnlocked
    /\ next_seid \in Seids
    /\ q.src = p /\ q.cp \in CpOf[p]
    /\ Disciplined => FreeUe(q.ue) /\ FreeCp(p, q.cp)
    /\ \E n \in AssociationsFrom(p) :
         est' = [step |-> "session", seid |-> next_seid, node |-> n]
    /\ next_seid' = next_seid + 1
    /\ request' = [request EXCEPT ![next_seid] = q]
    /\ UNCHANGED <<associations, sessions, urr_configs, peer_addr, maps, del, aborted, xdp>>

(* A request without a UE address or an Outer Header Creation is refused   *)
(* after its SEID was allocated.                                           *)
EstReject(p) ==
    /\ ServerUnlocked
    /\ next_seid \in Seids
    /\ AssociationsFrom(p) # {}
    /\ next_seid' = next_seid + 1
    /\ UNCHANGED <<associations, sessions, urr_configs, peer_addr, maps, est, del, request, aborted, xdp>>

(* At establishment the session record takes the gNB address of the FAR    *)
(* and the TEID the UPF itself allocated; a Modification replaces both by  *)
(* the gNB's.                                                              *)
OwnTeid(tun, s) == [gnb |-> tun, teid |-> s]
GnbTeid(tun) == [gnb |-> tun, teid |-> tun]

InStep(step) == est # None /\ est.step = step
Req == request[est.seid]

\* Mutant: the route is set up before the rules are in place.
EstSessionWithRoute ==
    /\ InStep("session")
    /\ session_map' = [session_map EXCEPT ![Req.ue] =
                         [seid |-> est.seid, tun |-> OwnTeid(Req.tun, est.seid), pdrs |-> KeptPdrIds(Req.rules)]]
    /\ routes' = routes \cup {Req.ue}
    /\ est' = [est EXCEPT !.step = "pdr"]
    /\ UNCHANGED <<server, pdr_map, far_map, urr_map, recreated, ip_failed, del, request, aborted, xdp>>

EstSession ==
    /\ InStep("session")
    /\ session_map' = [session_map EXCEPT ![Req.ue] =
                         [seid |-> est.seid, tun |-> OwnTeid(Req.tun, est.seid), pdrs |-> KeptPdrIds(Req.rules)]]
    /\ est' = [est EXCEPT !.step = "pdr"]
    /\ UNCHANGED <<server, pdr_map, far_map, urr_map, recreated, routes, ip_failed, del, request, aborted, xdp>>

EstPdrs ==
    /\ InStep("pdr")
    /\ pdr_map' = [pdr_map EXCEPT ![est.seid] = @ \cup PdrsOf(Req.rules)]
    /\ est' = [est EXCEPT !.step = "far"]
    /\ UNCHANGED <<server, session_map, far_map, urr_map, recreated, routes, ip_failed, del, request, aborted, xdp>>

EstFars ==
    /\ InStep("far")
    /\ far_map' = [far_map EXCEPT ![est.seid] = @ \cup FarsOf(Req)]
    /\ est' = [est EXCEPT !.step = "urr"]
    /\ UNCHANGED <<server, session_map, pdr_map, urr_map, recreated, routes, ip_failed, del, request, aborted, xdp>>

EstUrrs ==
    /\ InStep("urr")
    /\ urr_map' = [urr_map EXCEPT ![est.seid] = @ \cup Req.rules.urrs]
    /\ recreated' = recreated \ UrrKeys(est.seid, Req.rules.urrs)
    /\ urr_configs' = urr_configs \cup UrrKeys(est.seid, Req.rules.urrs)
    /\ est' = [est EXCEPT !.step = "commit"]
    /\ UNCHANGED <<associations, sessions, next_seid, peer_addr,
                   session_map, pdr_map, far_map, routes, ip_failed, del, request, aborted, xdp>>

(* A map insert fails: the rules inserted so far stay in their maps and    *)
(* the handler returns its error; the mutex is free again.                 *)
EstAbort ==
    /\ MapsMayFill
    /\ est # None
    /\ \/ /\ est.step = "session"
          /\ UNCHANGED <<pdr_map, far_map, urr_map, recreated, urr_configs>>
       \/ /\ est.step = "pdr"
          /\ \E done \in SUBSET PdrsOf(Req.rules) :
               /\ done # PdrsOf(Req.rules)
               /\ pdr_map' = [pdr_map EXCEPT ![est.seid] = @ \cup done]
          /\ UNCHANGED <<far_map, urr_map, recreated, urr_configs>>
       \/ /\ est.step = "far"
          /\ \E done \in SUBSET FarsOf(Req) :
               /\ done # FarsOf(Req)
               /\ far_map' = [far_map EXCEPT ![est.seid] = @ \cup done]
          /\ UNCHANGED <<pdr_map, urr_map, recreated, urr_configs>>
       \/ /\ est.step = "urr"
          /\ \E done \in SUBSET Req.rules.urrs :
               /\ done # Req.rules.urrs
               /\ urr_map' = [urr_map EXCEPT ![est.seid] = @ \cup done]
               /\ recreated' = recreated \ UrrKeys(est.seid, done)
               /\ urr_configs' = urr_configs \cup UrrKeys(est.seid, done)
          /\ UNCHANGED <<pdr_map, far_map>>
    /\ est' = None
    /\ aborted' = aborted \cup {est.seid}
    /\ UNCHANGED <<associations, sessions, next_seid, peer_addr, session_map, routes, ip_failed, del, request, xdp>>

(* Route and neighbour of a UE; an ip command may fail, and nobody is told. *)
IpCommand(u, result) ==
    \/ routes' = result /\ ip_failed' = ip_failed \ {u}
    \/ routes' = routes /\ ip_failed' = ip_failed \cup {u}
SetupUeRoute(u) == IpCommand(u, routes \cup {u})
TeardownUeRoute(u) == IpCommand(u, routes \ {u})

(* The session is recorded with the server and with its association, the   *)
(* route is set up and the response sent.                                  *)
EstCommit ==
    /\ InStep("commit")
    /\ sessions' = [sessions EXCEPT ![est.seid] =
                      [ue |-> Req.ue, cp |-> Req.cp, tun |-> OwnTeid(Req.tun, est.seid)]]
    /\ associations' = [associations EXCEPT ![est.node].sessions = @ \cup {Req.cp}]
    /\ SetupUeRoute(Req.ue)
    /\ est' = None
    /\ UNCHANGED <<next_seid, urr_configs, peer_addr,
                   session_map, pdr_map, far_map, urr_map, recreated, del, request, aborted, xdp>>

-----------------------------------------------------------------------------
\* Mutant: the maps are updated and the server's own record is forgotten.
ModificationForgetsRecord(p, s, f, tun, access) ==
    /\ ServerUnlocked
    /\ \E n \in Nodes : Owns(p, n, s)
    /\ far_map' = [far_map EXCEPT ![s] =
                     {IF v.id = f THEN [v EXCEPT !.tun = tun] ELSE v : v \in @}]
    /\ access /\ session_map[sessions[s].ue] # None
    /\ session_map' = [session_map EXCEPT ![sessions[s].ue].tun = GnbTeid(tun)]
    /\ UNCHANGED <<server, pdr_map, urr_map, recreated, routes, ip_failed, est, del, request, aborted, xdp>>

(* Session Modification with one Update FAR that has an Outer Header       *)
(* Creation; access tells whether its destination interface is Access.     *)
(* A request with several is several of these in a row (the mutex is kept  *)
(* and each writes only its own FAR, the session and the UE's entry).  An  *)
(* FAR ID the session does not have is skipped in FAR_MAP but still moves  *)
(* the session, and the entry of the UE is written whoever it belongs to.  *)
HandleModification(p, s, f, tun, access) ==
    /\ ServerUnlocked
    /\ \E n \in Nodes : Owns(p, n, s)
    /\ far_map' = [far_map EXCEPT ![s] =
                     {IF v.id = f THEN [v EXCEPT !.tun = tun] ELSE v : v \in @}]
    /\ IF access
       THEN /\ session_map' = [session_map EXCEPT ![sessions[s].ue] =
                                 IF @ = None THEN None ELSE [@ EXCEPT !.tun = GnbTeid(tun)]]
            /\ sessions' = [sessions EXCEPT ![s].tun = GnbTeid(tun)]
       ELSE UNCHANGED <<session_map, sessions>>
    /\ UNCHANGED <<associations, next_seid, urr_configs, peer_addr,
                   pdr_map, urr_map, recreated, routes, ip_failed, est, del, request, aborted, xdp>>

-----------------------------------------------------------------------------
\* Mutant: the association forgets all its sessions instead of one.
DelLockedClearsAll(t, p, s) ==
    /\ ServerUnlocked
    /\ del[t] = None
    /\ \E n \in Nodes :
         /\ Owns(p, n, s)
         /\ associations' = [associations EXCEPT ![n].sessions = {}]
    /\ sessions' = [sessions EXCEPT ![s] = None]
    /\ del' = [del EXCEPT ![t] = [step |-> "lookup", seid |-> s, ue |-> sessions[s].ue,
                                  pdrs |-> {}, fars |-> {}, urrs |-> {}]]
    /\ UNCHANGED <<next_seid, urr_configs, peer_addr, maps, est, request, aborted, xdp>>

(* Session Deletion, under the mutex: ownership check, then the session    *)
(* leaves the server and its association.                                  *)
DelLocked(t, p, s) ==
    /\ ServerUnlocked
    /\ del[t] = None
    /\ \E n \in Nodes :
         /\ Owns(p, n, s)
         /\ associations' = [associations EXCEPT ![n].sessions = @ \ {sessions[s].cp}]
    /\ sessions' = [sessions EXCEPT ![s] = None]
    /\ del' = [del EXCEPT ![t] = [step |-> "lookup", seid |-> s, ue |-> sessions[s].ue,
                                  pdrs |-> {}, fars |-> {}, urrs |-> {}]]
    /\ UNCHANGED <<next_seid, urr_configs, peer_addr, maps, est, request, aborted, xdp>>

DelIn(t, step) == del[t] # None /\ del[t].step = step

(* The PDR IDs come from the UE's SESSION_MAP entry, whoever owns it now. *)
DelLookup(t) ==
    LET info == session_map[del[t].ue] IN
    /\ DelIn(t, "lookup")
    /\ del' = [del EXCEPT ![t].step = "collect",
                          ![t].pdrs = IF info = None THEN {} ELSE info.pdrs]
    /\ UNCHANGED <<server, maps, est, request, aborted, xdp>>

\* Mutant: URR ID 0 is taken for a URR.
DelCollectKeepsZero(t) ==
    LET found == {v \in pdr_map[del[t].seid] : v.id \in del[t].pdrs} IN
    /\ DelIn(t, "collect")
    /\ del' = [del EXCEPT ![t].step = "pdr",
                          ![t].fars = {v.far : v \in found},
                          ![t].urrs = {v.urr : v \in found}]
    /\ UNCHANGED <<server, maps, est, request, aborted, xdp>>

(* FAR and URR IDs come from the PDRs; URR ID 0 means no URR. *)
DelCollect(t) ==
    LET found == {v \in pdr_map[del[t].seid] : v.id \in del[t].pdrs} IN
    /\ DelIn(t, "collect")
    /\ del' = [del EXCEPT ![t].step = "pdr",
                          ![t].fars = {v.far : v \in found},
                          ![t].urrs = {v.urr : v \in found} \ {0}]
    /\ UNCHANGED <<server, maps, est, request, aborted, xdp>>

DelPdrs(t) ==
    /\ DelIn(t, "pdr")
    /\ pdr_map' = [pdr_map EXCEPT ![del[t].seid] = {v \in @ : v.id \notin del[t].pdrs}]
    /\ del' = [del EXCEPT ![t].step = "far"]
    /\ UNCHANGED <<server, session_map, far_map, urr_map, recreated, routes, ip_failed, est, request, aborted, xdp>>

\* Mutant: FAR keys are not namespaced by SEID.
DelFarsOfAll(t) ==
    /\ DelIn(t, "far")
    /\ far_map' = [s \in Seids |-> {v \in far_map[s] : v.id \notin del[t].fars}]
    /\ del' = [del EXCEPT ![t].step = "urr"]
    /\ UNCHANGED <<server, session_map, pdr_map, urr_map, recreated, routes, ip_failed, est, request, aborted, xdp>>

DelFars(t) ==
    /\ DelIn(t, "far")
    /\ far_map' = [far_map EXCEPT ![del[t].seid] = {v \in @ : v.id \notin del[t].fars}]
    /\ del' = [del EXCEPT ![t].step = "urr"]
    /\ UNCHANGED <<server, session_map, pdr_map, urr_map, recreated, routes, ip_failed, est, request, aborted, xdp>>

\* Mutant: step 4.b is missing.
DelUrrsForgets(t) ==
    /\ DelIn(t, "urr")
    /\ del' = [del EXCEPT ![t].step = "session"]
    /\ UNCHANGED <<server, maps, est, request, aborted, xdp>>

DelUrrs(t) ==
    /\ DelIn(t, "urr")
    /\ urr_map' = [urr_map EXCEPT ![del[t].seid] = @ \ del[t].urrs]
    /\ recreated' = recreated \ UrrKeys(del[t].seid, del[t].urrs)
    /\ del' = [del EXCEPT ![t].step = "session"]
    /\ UNCHANGED <<server, session_map, pdr_map, far_map, routes, ip_failed, est, request, aborted, xdp>>

\* Mutant: step 5 is missing.
DelSessionForgets(t) ==
    /\ DelIn(t, "session")
    /\ del' = [del EXCEPT ![t].step = "route"]
    /\ UNCHANGED <<server, maps, est, request, aborted, xdp>>

DelSession(t) ==
    /\ DelIn(t, "session")
    /\ session_map' = [session_map EXCEPT ![del[t].ue] = None]
    /\ del' = [del EXCEPT ![t].step = "route"]
    /\ UNCHANGED <<server, pdr_map, far_map, urr_map, recreated, routes, ip_failed, est, request, aborted, xdp>>

\* Mutant: the routes of the N6 interface are flushed.
DelRouteFlushes(t) ==
    /\ DelIn(t, "route")
    /\ routes' = {}
    /\ del' = [del EXCEPT ![t] = None]
    /\ UNCHANGED <<server, session_map, pdr_map, far_map, urr_map, recreated, ip_failed, est, request, aborted, xdp>>

(* Route and neighbour go, the response is sent and the task ends. *)
DelRoute(t) ==
    /\ DelIn(t, "route")
    /\ TeardownUeRoute(del[t].ue)
    /\ del' = [del EXCEPT ![t] = None]
    /\ UNCHANGED <<server, session_map, pdr_map, far_map, urr_map, recreated, est, request, aborted, xdp>>

-----------------------------------------------------------------------------
(* The second writer of URR_MAP.  A packet has been matched to a PDR of    *)
(* session s and to its FAR.  The PDR IDs are those of the SESSION_MAP     *)
(* entry it read, which may have gone since.  PDRs are written before and  *)
(* removed before FARs, so that reading the two at different times sees no *)
(* more than reading them together.  Direction and Apply Action are not    *)
(* told apart here: any PDR may be the one that is counted.                *)
XdpMatch(c, s) ==
    /\ xdp[c] = None
    /\ request[s] # None
    /\ \E v \in pdr_map[s] :
         /\ v.urr # 0 /\ v.id \in KeptPdrIds(request[s].rules)
         /\ \E w \in far_map[s] : w.id = v.far
         /\ xdp' = [xdp EXCEPT ![c] = <<s, v.urr>>]
    /\ UNCHANGED <<server, maps, est, del, request, aborted>>

(* The packet is counted.  A key that URR_MAP does not have is inserted,   *)
(* unless the map is full, also when a Deletion has just removed it.       *)
UrrCount(c) ==
    /\ xdp[c] # None
    /\ LET s == xdp[c][1]
           u == xdp[c][2] IN
       \/ /\ u \in urr_map[s] \/ MapsMayFill
          /\ UNCHANGED <<urr_map, recreated>>
       \/ /\ u \notin urr_map[s]
          /\ urr_map' = [urr_map EXCEPT ![s] = @ \cup {u}]
          /\ recreated' = recreated \cup {xdp[c]}
    /\ xdp' = [xdp EXCEPT ![c] = None]
    /\ UNCHANGED <<server, session_map, pdr_map, far_map, routes, ip_failed, est, del, request, aborted>>

-----------------------------------------------------------------------------
EstStep == EstSession \/ EstPdrs \/ EstFars \/ EstUrrs \/ EstAbort \/ EstCommit
DelStep(t) == \/ DelLookup(t) \/ DelCollect(t) \/ DelPdrs(t) \/ DelFars(t)
              \/ DelUrrs(t) \/ DelSession(t) \/ DelRoute(t)

Next ==
    \/ \E p \in Peers, ts \in Timestamps : HandleAssociation(p, ts)
    \/ \E p \in Peers, ts \in Timestamps : HandleHeartbeat(p, ts)
    \/ \E p \in Peers, q \in Request : EstBegin(p, q)
    \/ \E p \in Peers : EstReject(p)
    \/ EstStep
    \/ \E p \in Peers, s \in Seids, f \in FarIds, tun \in Tunnels, access \in BOOLEAN :
         HandleModification(p, s, f, tun, access)
    \/ \E t \in Tasks, p \in Peers, s \in Seids : DelLocked(t, p, s)
    \/ \E t \in Tasks : DelStep(t)
    \/ \E c \in Cpus, s \in Seids : XdpMatch(c, s)
    \/ \E c \in Cpus : UrrCount(c)

(* A task that has been spawned runs to its end: no handler waits for      *)
(* anything but a mutex, and no mutex is held for ever.  Requests are the  *)
(* SMFs' choice and get no fairness.                                       *)
Fairness == WF_vars(EstStep) /\ \A t \in Tasks : WF_vars(DelStep(t))

Spec == Init /\ [][Next]_vars /\ Fairness

-----------------------------------------------------------------------------
(* The rules of r are all found again by a Deletion: no PDR beyond         *)
(* MAX_PDR_PER_SESSION, every FAR and URR referenced by a PDR.             *)
Reclaimable(r) ==
    /\ Len(r.pdrs) <= MaxPdr
    /\ r.fars \subseteq {v.far : v \in PdrsOf(r)}
    /\ r.urrs \subseteq NamedUrrs(r)

Installing(s) == est # None /\ est.seid = s
Deleting(t, s) == del[t] # None /\ del[t].seid = s

(* A session the server reports as established has exactly the rules of    *)
(* its own request in PDR_MAP, FAR_MAP and URR_MAP: no concurrent deletion *)
(* of another session, whatever UE address or rule IDs it shares with this *)
(* one, takes one of them away, and none is left half installed.  The XDP  *)
(* program adds no URR but one that a PDR of the session refers to.        *)
LiveRulesInstalled ==
    \A s \in Unrestored : Live(s) =>
        /\ pdr_map[s] = PdrsOf(request[s].rules)
        /\ {v.id : v \in far_map[s]} = request[s].rules.fars
        /\ InstalledUrrs(s) = request[s].rules.urrs
        /\ urr_map[s] \subseteq request[s].rules.urrs \cup NamedUrrs(request[s].rules)

(* The kernel resolves a UE address only to a session that is established  *)
(* for that address, being established, still being cleaned up by the task *)
(* that deletes it, or left over by a failed map insert.  A Modification   *)
(* or a slow clean-up never brings a deleted session back.                 *)
NoStaleSessionEntry ==
    \A u \in Ues : session_map[u] # None /\ session_map[u].seid \in Unrestored =>
        LET s == session_map[u].seid IN
        /\ request[s] # None /\ request[s].ue = u
        /\ \/ Live(s) \/ Installing(s) \/ s \in aborted
           \/ \E t \in Tasks : Deleting(t, s) /\ del[t].step # "route"

(* A kernel route for a UE address exists only while some session of that  *)
(* address, established in this life of the process, is live or being      *)
(* cleaned up ("installed on Session Establishment, removed on Deletion"). *)
(* The exception is an address whose last ip command failed, or whose      *)
(* route an earlier life left behind: nobody looks at the result, and the  *)
(* route stays until the next command for that address succeeds.           *)
NoStaleRoute ==
    \A u \in routes \ ip_failed :
        \/ \E s \in Seids : /\ Live(s) /\ request[s] # None /\ ~Installing(s)
                            /\ sessions[s].ue = u
        \/ \E t \in Tasks : del[t] # None /\ del[t].ue = u

(* The UE address of an established session has its route: no clean-up of  *)
(* another session takes it away.                                          *)
LiveRouted ==
    \A s \in Unrestored : Live(s) /\ sessions[s].ue \notin ip_failed => sessions[s].ue \in routes

(* The ownership check lets only the SMF that established a session modify *)
(* or delete it ("exclusive session ownership").                           *)
ExclusiveOwnership ==
    \A p \in Peers, n \in Nodes, s \in Unrestored : Owns(p, n, s) => request[s].src = p

(* The SMF that established a session can still modify and delete it.      *)
EverySessionOwned ==
    \A s \in Unrestored : Live(s) => \E n \in Nodes : Owns(request[s].src, n, s)

(* An established session is reachable: the kernel resolves its UE address *)
(* to it, with the tunnel the server has on record and every PDR ID it     *)
(* kept, although clean-ups of other sessions run without the mutex.       *)
LiveForwardable ==
    \A s \in Unrestored : Live(s) =>
        session_map[sessions[s].ue] = [seid |-> s, tun |-> sessions[s].tun,
                                       pdrs |-> KeptPdrIds(request[s].rules)]

(* When a Deletion has been answered, no rule of the session is left in    *)
(* the maps (for requests whose rules a Deletion can find).  A URR entry   *)
(* may be there all the same: one that XDP has put in again for a packet   *)
(* it had matched before.                                                  *)
ReclaimedAfterDeletion ==
    \A s \in Unrestored :
        /\ request[s] # None /\ Reclaimable(request[s].rules)
        /\ ~Live(s) /\ ~Installing(s) /\ s \notin aborted
        /\ \A t \in Tasks : ~Deleting(t, s)
        => pdr_map[s] = {} /\ far_map[s] = {} /\ InstalledUrrs(s) = {}

(* In one life of the process a SEID is allocated for one request only,    *)
(* and a released SEID stays released: no session returns under it, no PDR *)
(* and no FAR is written under it, and a URR entry only by the XDP         *)
(* program, for a packet in flight that had matched one of its PDRs.       *)
SeidsNeverReused ==
    [][\A s \in Unrestored :
        /\ request[s] # None => request'[s] = request[s]
        /\ ~Live(s) /\ ~Installing(s) =>
             /\ sessions'[s] = None
             /\ pdr_map'[s] \subseteq pdr_map[s]
             /\ {v.id : v \in far_map'[s]} \subseteq {v.id : v \in far_map[s]}
             /\ \A u \in urr_map'[s] \ urr_map[s] : \E c \in Cpus : xdp[c] = <<s, u>>]_vars

(* Every Deletion that was accepted is carried through: the session's      *)
(* rules disappear from the maps (but for what XDP counts once more).      *)
DeletionReclaims ==
    \A t \in Tasks, s \in Unrestored :
        Deleting(t, s) /\ Reclaimable(request[s].rules)
            ~> pdr_map[s] = {} /\ far_map[s] = {} /\ InstalledUrrs(s) = {} /\ ~Deleting(t, s)

-----------------------------------------------------------------------------
(* The state of a session as the SMFs know it: where its traffic goes and  *)
(* the rules in the maps under its SEID.                                   *)
ContentOf(q, s) == [tun |-> OwnTeid(q.tun, s), pdrs |-> PdrsOf(q.rules),
                    fars |-> FarsOf(q), urrs |-> q.rules.urrs]

Change(c, f, tun, access) ==
    [c EXCEPT !.fars = {IF v.id = f THEN [v EXCEPT !.tun = tun] ELSE v : v \in @},
              !.tun = IF access THEN GnbTeid(tun) ELSE @]
Changes(c) == {Change(c, f, tun, access) : f \in FarIds, tun \in Tunnels, access \in BOOLEAN}

AbstractSession ==
    [s \in Seids |-> IF Live(s)
                     THEN [ue |-> sessions[s].ue, cp |-> sessions[s].cp,
                           content |-> [tun |-> sessions[s].tun, pdrs |-> pdr_map[s],
                                        fars |-> far_map[s], urrs |-> InstalledUrrs(s)]]
                     ELSE None]

(* The SEIDs that were established and are no longer. *)
ReleasedSeids ==
    {s \in Seids : request[s] # None /\ ~Live(s) /\ ~Installing(s) /\ s \notin aborted}

Lifecycle == INSTANCE SessionLifecycle WITH
    Requests <- Request, assoc <- associations, session <- AbstractSession,
    released <- ReleasedSeids

(* The handlers implement the atomic life cycle: although Establishment    *)
(* writes map by map and may fail, and Deletion cleans up without the      *)
(* mutex, a session appears with all its rules at once, under a SEID never *)
(* used before, changes only by a Modification of a peer that owns it, and *)
(* nothing of it changes otherwise until it is released.  The life cycle   *)
(* is that of a UPF to which Redis gave no sessions.                       *)
ImplementsLifecycle == Lifecycle!Spec
=============================================================================
