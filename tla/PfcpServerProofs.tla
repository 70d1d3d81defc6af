-------------------------- MODULE PfcpServerProofs --------------------------
(***************************************************************************)
(* Machine-checked proofs about PfcpServer, for any number of SMFs, UEs,   *)
(* rules, tasks and sessions.                                              *)
(***************************************************************************)
EXTENDS PfcpServer, TLAPS

-----------------------------------------------------------------------------
(* The inductive invariant.                                                *)

(* An Establishment in progress works on a request of an association that  *)
(* cannot go away while it holds the mutex, under a SEID nobody else uses, *)
(* and has filled the maps exactly up to its step.                         *)
EstContext ==
    est # None =>
        /\ request[est.seid] # None
        /\ associations[est.node] # None
        /\ associations[est.node].peer = request[est.seid].src

EstProgress ==
    est # None /\ est.seid \in Unrestored =>
        /\ ~Live(est.seid) /\ est.seid \notin aborted
        /\ \A t \in Tasks : ~Deleting(t, est.seid)
        /\ pdr_map[est.seid] = IF est.step \in {"session", "pdr"}
                               THEN {} ELSE PdrsOf(request[est.seid].rules)
        /\ far_map[est.seid] = IF est.step \in {"session", "pdr", "far"}
                               THEN {} ELSE FarsOf(request[est.seid])
        /\ InstalledUrrs(est.seid) = IF est.step # "commit"
                                     THEN {} ELSE request[est.seid].rules.urrs

(* Nothing exists under a SEID that has not been allocated, but for what   *)
(* becomes of a restored session.                                          *)
FreshSeids ==
    \A s \in Seids : s >= next_seid =>
        /\ request[s] = None /\ ~Installing(s) /\ s \notin aborted
        /\ s \in Unrestored => ~Live(s) /\ \A t \in Tasks : ~Deleting(t, s)
        /\ pdr_map[s] = {} /\ far_map[s] = {} /\ urr_map[s] = {}

(* An established session is the one that was requested. *)
LiveAsRequested ==
    \A s \in Unrestored : Live(s) =>
        /\ request[s] # None /\ s \notin aborted
        /\ sessions[s].ue = request[s].ue /\ sessions[s].cp = request[s].cp

(* A SEID is cleaned up by one task, after its session has gone. *)
DelContext ==
    \A t \in Tasks : del[t] # None /\ del[t].seid \in Unrestored =>
        /\ ~Live(del[t].seid) /\ request[del[t].seid] # None
        /\ request[del[t].seid].ue = del[t].ue
        /\ \A t2 \in Tasks : Deleting(t2, del[t].seid) => t2 = t

(* CP-SEIDs come from the SMF that uses them. *)
CpSeidsOfPeer ==
    /\ \A s \in Seids : request[s] # None => request[s].cp \in CpOf[request[s].src]
    /\ \A n \in Nodes : associations[n] # None =>
           associations[n].sessions \subseteq CpOf[associations[n].peer]

(* XDP meets only PDRs that were asked for, and counts, and puts into      *)
(* URR_MAP, only URRs these refer to.                                      *)
NamedInRequest(s, u) == request[s] # None /\ u \in NamedUrrs(request[s].rules)
XdpContext ==
    /\ \A s \in Seids : pdr_map[s] # {} =>
           request[s] # None /\ pdr_map[s] \subseteq PdrsOf(request[s].rules)
    /\ \A c \in Cpus : xdp[c] # None => NamedInRequest(xdp[c][1], xdp[c][2])
    /\ \A s \in Seids, u \in UrrIds : <<s, u>> \in recreated => NamedInRequest(s, u)

IInv ==
    /\ TypeOK /\ EstContext /\ EstProgress /\ FreshSeids
    /\ LiveAsRequested /\ DelContext /\ CpSeidsOfPeer /\ XdpContext
    /\ LiveRulesInstalled /\ NoStaleSessionEntry /\ NoStaleRoute

LEMMA UnrestoredSeids == Unrestored \subseteq Seids
BY DEF Unrestored

-----------------------------------------------------------------------------
(* The typing of the values the handlers build. *)
LEMMA RuleTypes ==
    ASSUME NEW q \in Request
    PROVE  /\ PdrsOf(q.rules) \subseteq Pdr
           /\ KeptPdrIds(q.rules) \subseteq PdrIds
           /\ FarsOf(q) \subseteq FarValue
           /\ q.rules.urrs \subseteq UrrIds
<1>1. q.rules \in RuleSet
  BY RulesAssumption DEF Request
<1>2. /\ q.rules.pdrs \in Seq(Pdr) /\ q.rules.fars \subseteq FarIds /\ q.rules.urrs \subseteq UrrIds
  BY <1>1 DEF RuleSet
<1>3. \A i \in 1..Len(q.rules.pdrs) : q.rules.pdrs[i] \in Pdr
  BY <1>2
<1>4. PdrsOf(q.rules) \subseteq Pdr
  BY <1>3 DEF PdrsOf
<1>5. KeptPdrIds(q.rules) \subseteq PdrIds
  BY <1>3 DEF KeptPdrIds, Pdr
<1>6. q.tun \in Tunnels
  BY DEF Request
<1>7. FarsOf(q) \subseteq FarValue
  BY <1>2, <1>6 DEF FarsOf, FarValue
<1> QED
  BY <1>2, <1>4, <1>5, <1>7

(* Every step of the control plane keeps its state well typed; in          *)
(* particular an Establishment always works on a request that exists.      *)
LEMMA TypeStep == TypeOK /\ EstContext /\ [Next]_vars => TypeOK'
<1> SUFFICES ASSUME TypeOK, EstContext, [Next]_vars
             PROVE  TypeOK'
  OBVIOUS
<1> USE DEF TypeOK
<1>1. ASSUME NEW p \in Peers, NEW ts \in Timestamps, HandleHeartbeat(p, ts)
      PROVE  TypeOK'
  <2>1. PICK n \in Nodes : associations[n] # None
                 /\ associations' = [associations EXCEPT ![n] = [@ EXCEPT !.sessions = {}, !.ts = ts]]
    BY <1>1 DEF HandleHeartbeat, AssociationsFrom
  <2>2. associations' \in [Nodes -> SmfAssociation \cup {None}]
    BY <2>1 DEF SmfAssociation
  <2> QED
    BY <1>1, <2>2 DEF HandleHeartbeat, maps
<1>2. ASSUME NEW p \in Peers, NEW ts \in Timestamps, HandleAssociation(p, ts)
      PROVE  TypeOK'
  BY <1>2, PeersAssumption DEF HandleAssociation, SmfAssociation, maps
<1>3. ASSUME NEW p \in Peers, NEW q \in Request, EstBegin(p, q)
      PROVE  TypeOK'
  <2>1. est' \in Establishment \cup {None}
    BY <1>3 DEF EstBegin, AssociationsFrom, Establishment
  <2>2. request' \in [Seids -> Request \cup {None}]
    BY <1>3 DEF EstBegin
  <2>3. next_seid' \in 1..MaxSeid + 1
    BY <1>3, BoundsAssumption DEF EstBegin, Seids
  <2> QED
    BY <1>3, <2>1, <2>2, <2>3 DEF EstBegin, maps
<1>4. ASSUME NEW p \in Peers, EstReject(p)
      PROVE  TypeOK'
  <2>1. next_seid' \in 1..MaxSeid + 1
    BY <1>4, BoundsAssumption DEF EstReject, Seids
  <2> QED
    BY <1>4, <2>1 DEF EstReject, maps
<1>5. ASSUME EstStep
      PROVE  TypeOK'
  <2>1. /\ est \in Establishment /\ est.seid \in Seids /\ est.node \in Nodes
        /\ Req \in Request /\ associations[est.node] \in SmfAssociation
    BY <1>5 DEF EstContext, EstStep, EstSession, EstPdrs, EstFars, EstUrrs, EstAbort, EstCommit, InStep,
                Req, Establishment
  <2>2. /\ Req.src \in Peers /\ Req.cp \in CpSeids /\ Req.ue \in Ues /\ Req.tun \in Tunnels
    BY <2>1 DEF Request
  <2>3. /\ PdrsOf(Req.rules) \subseteq Pdr /\ KeptPdrIds(Req.rules) \subseteq PdrIds
        /\ FarsOf(Req) \subseteq FarValue /\ Req.rules.urrs \subseteq UrrIds
    BY <2>1, RuleTypes
  <2>4. \A step \in {"pdr", "far", "urr", "commit"} : [est EXCEPT !.step = step] \in Establishment
    BY <2>1 DEF Establishment
  <2>5. CASE EstSession
    <3>1. [seid |-> est.seid, tun |-> OwnTeid(Req.tun, est.seid), pdrs |-> KeptPdrIds(Req.rules)] \in SessionInfo
      BY <2>1, <2>2, <2>3 DEF SessionInfo, OwnTeid, EndPoint
    <3> QED
      BY <2>5, <3>1, <2>2, <2>4 DEF EstSession, server
  <2>6. CASE EstPdrs
    BY <2>6, <2>1, <2>3, <2>4 DEF EstPdrs, server
  <2>7. CASE EstFars
    BY <2>7, <2>1, <2>3, <2>4 DEF EstFars, server
  <2>8. CASE EstUrrs
    BY <2>8, <2>1, <2>3, <2>4 DEF EstUrrs, UrrKeys
  <2>9. CASE EstAbort
    <3>1. /\ pdr_map' \in [Seids -> SUBSET Pdr]
          /\ far_map' \in [Seids -> SUBSET FarValue]
          /\ urr_map' \in [Seids -> SUBSET UrrIds]
          /\ urr_configs' \subseteq Seids \X UrrIds
          /\ recreated' \subseteq UrrKey
      BY <2>9, <2>1, <2>3 DEF EstAbort, UrrKeys, UrrKey
    <3> QED
      BY <2>9, <2>1, <3>1 DEF EstAbort
  <2>10. CASE EstCommit
    <3>1. [ue |-> Req.ue, cp |-> Req.cp, tun |-> OwnTeid(Req.tun, est.seid)] \in SessionData
      BY <2>1, <2>2 DEF SessionData, OwnTeid, EndPoint
    <3>2. associations' \in [Nodes -> SmfAssociation \cup {None}]
      BY <2>10, <2>1, <2>2 DEF EstCommit, SetupUeRoute, IpCommand, SmfAssociation
    <3> QED
      BY <2>10, <2>1, <2>2, <3>1, <3>2 DEF EstCommit, SetupUeRoute, IpCommand
  <2> QED
    BY <1>5, <2>5, <2>6, <2>7, <2>8, <2>9, <2>10 DEF EstStep
<1>6. ASSUME NEW p \in Peers, NEW s \in Seids, NEW f \in FarIds, NEW tun \in Tunnels,
             NEW access \in BOOLEAN, HandleModification(p, s, f, tun, access)
      PROVE  TypeOK'
  <2>1. sessions[s] \in SessionData
    BY <1>6 DEF HandleModification, Owns, Live
  <2>2. far_map' \in [Seids -> SUBSET FarValue]
    BY <1>6 DEF HandleModification, FarValue
  <2>3. sessions' \in [Seids -> SessionData \cup {None}]
    BY <1>6, <2>1 DEF HandleModification, SessionData, GnbTeid, EndPoint
  <2>4. session_map' \in [Ues -> SessionInfo \cup {None}]
    BY <1>6, <2>1 DEF HandleModification, SessionData, SessionInfo, GnbTeid, EndPoint
  <2> QED
    BY <1>6, <2>2, <2>3, <2>4 DEF HandleModification
<1>7. ASSUME NEW t \in Tasks, NEW p \in Peers, NEW s \in Seids, DelLocked(t, p, s)
      PROVE  TypeOK'
  <2>1. sessions[s] \in SessionData
    BY <1>7 DEF DelLocked, Owns, Live
  <2>2. associations' \in [Nodes -> SmfAssociation \cup {None}]
    BY <1>7 DEF DelLocked, Owns, AssociationsFrom, SmfAssociation
  <2>3. del' \in [Tasks -> Deletion \cup {None}]
    BY <1>7, <2>1 DEF DelLocked, Deletion, SessionData
  <2> QED
    BY <1>7, <2>1, <2>2, <2>3 DEF DelLocked, maps
<1>8. ASSUME NEW t \in Tasks, DelStep(t)
      PROVE  TypeOK'
  <2>1. del[t] \in Deletion
    BY <1>8 DEF DelStep, DelLookup, DelCollect, DelPdrs, DelFars, DelUrrs, DelSession, DelRoute, DelIn
  <2>2. del[t].seid \in Seids /\ del[t].ue \in Ues
    BY <2>1 DEF Deletion
  <2>3. CASE DelLookup(t)
    BY <2>3, <2>1, <2>2 DEF DelLookup, Deletion, SessionInfo, server, maps
  <2>4. CASE DelCollect(t)
    <3>1. pdr_map[del[t].seid] \subseteq Pdr
      BY <2>2
    <3>2. /\ {v.far : v \in {w \in pdr_map[del[t].seid] : w.id \in del[t].pdrs}} \subseteq FarIds
          /\ {v.urr : v \in {w \in pdr_map[del[t].seid] : w.id \in del[t].pdrs}} \ {0} \subseteq UrrIds
      BY <3>1 DEF Pdr
    <3> QED
      BY <2>4, <2>1, <3>2 DEF DelCollect, Deletion, server, maps
  <2>5. CASE DelPdrs(t)
    BY <2>5, <2>1, <2>2 DEF DelPdrs, Deletion, server
  <2>6. CASE DelFars(t)
    BY <2>6, <2>1, <2>2 DEF DelFars, Deletion, server
  <2>7. CASE DelUrrs(t)
    BY <2>7, <2>1, <2>2 DEF DelUrrs, Deletion, server
  <2>8. CASE DelSession(t)
    BY <2>8, <2>1, <2>2 DEF DelSession, Deletion, server
  <2>9. CASE DelRoute(t)
    BY <2>9, <2>1, <2>2 DEF DelRoute, TeardownUeRoute, IpCommand, server
  <2> QED
    BY <1>8, <2>3, <2>4, <2>5, <2>6, <2>7, <2>8, <2>9 DEF DelStep
<1>9. ASSUME NEW c \in Cpus, NEW s \in Seids, XdpMatch(c, s)
      PROVE  TypeOK'
  <2>1. PICK v \in pdr_map[s] : v.urr # 0 /\ xdp' = [xdp EXCEPT ![c] = <<s, v.urr>>]
    BY <1>9 DEF XdpMatch
  <2>2. <<s, v.urr>> \in UrrKey
    BY <2>1 DEF Pdr, UrrKey
  <2> QED
    BY <1>9, <2>1, <2>2 DEF XdpMatch, server, maps
<1>10. ASSUME NEW c \in Cpus, UrrCount(c)
       PROVE  TypeOK'
  <2>1. xdp[c] \in UrrKey /\ xdp[c][1] \in Seids /\ xdp[c][2] \in UrrIds
    BY <1>10 DEF UrrCount, UrrKey
  <2>2. urr_map' \in [Seids -> SUBSET UrrIds] /\ recreated' \subseteq UrrKey
    BY <1>10, <2>1 DEF UrrCount
  <2> QED
    BY <1>10, <2>2 DEF UrrCount, server
<1>11. CASE UNCHANGED vars
  BY <1>11 DEF vars
<1> QED
  BY <1>1, <1>2, <1>3, <1>4, <1>5, <1>6, <1>7, <1>8, <1>9, <1>10, <1>11 DEF Next

-----------------------------------------------------------------------------
(* The conjuncts of IInv other than its typing. *)
Core ==
    /\ EstContext /\ EstProgress /\ FreshSeids
    /\ LiveAsRequested /\ DelContext /\ CpSeidsOfPeer /\ XdpContext
    /\ LiveRulesInstalled /\ NoStaleSessionEntry /\ NoStaleRoute

(* A freshly loaded server satisfies the inductive invariant. *)
LEMMA InitIInv == Init => IInv
<1> SUFFICES ASSUME Init PROVE IInv
  OBVIOUS
<1>1. TypeOK
  BY BoundsAssumption, RestoredAssumption DEF Init, TypeOK
<1>2. \A s \in Unrestored : ~Live(s)
  BY DEF Init, Unrestored, Live
<1> QED
  BY <1>1, <1>2 DEF Init, IInv, EstContext, EstProgress, FreshSeids, LiveAsRequested, DelContext,
              CpSeidsOfPeer, XdpContext, LiveRulesInstalled, NoStaleSessionEntry, NoStaleRoute,
              Installing, Deleting

(* A step that leaves the SEIDs, their sessions and rules, the routes and  *)
(* the tasks alone can disturb the associations' CP-SEIDs only.            *)
LEMMA OtherwiseUnchanged ==
    ASSUME IInv, est = None, CpSeidsOfPeer',
           UNCHANGED <<sessions, next_seid, maps, est, del, request, aborted, xdp>>
    PROVE  Core'
<1>1. EstContext' /\ EstProgress'
  BY DEF EstContext, EstProgress
<1>2. FreshSeids' /\ LiveAsRequested' /\ DelContext'
  BY DEF IInv, FreshSeids, LiveAsRequested, DelContext, Live, Installing, Deleting, maps
<1>3. XdpContext' /\ LiveRulesInstalled'
  BY DEF IInv, XdpContext, NamedInRequest, LiveRulesInstalled, InstalledUrrs, Live, maps
<1>4. NoStaleSessionEntry' /\ NoStaleRoute'
  BY DEF IInv, NoStaleSessionEntry, NoStaleRoute, Live, Installing, Deleting, maps
<1> QED
  BY <1>1, <1>2, <1>3, <1>4 DEF Core

(* Heartbeats touch nothing but an association, and only with the mutex free. *)
LEMMA HeartbeatStep ==
    ASSUME IInv, NEW p \in Peers, NEW ts \in Timestamps, HandleHeartbeat(p, ts)
    PROVE  Core'
<1>1. PICK n \in Nodes : associations[n] # None
         /\ associations' = [associations EXCEPT ![n] = [@ EXCEPT !.sessions = {}, !.ts = ts]]
  BY DEF HandleHeartbeat, AssociationsFrom
<1>2. associations[n] \in SmfAssociation
  BY <1>1 DEF IInv, TypeOK
<1>3. \A m \in Nodes : associations'[m] # None =>
         /\ associations[m] # None /\ associations'[m].peer = associations[m].peer
         /\ associations'[m].sessions \subseteq associations[m].sessions
  BY <1>1, <1>2 DEF IInv, TypeOK, SmfAssociation
<1>4. CpSeidsOfPeer'
  BY <1>3 DEF IInv, CpSeidsOfPeer, HandleHeartbeat
<1> QED
  BY <1>4, OtherwiseUnchanged DEF HandleHeartbeat, ServerUnlocked

(* Association Setup replaces one association, and nothing else. *)
LEMMA AssociationStep ==
    ASSUME IInv, NEW p \in Peers, NEW ts \in Timestamps, HandleAssociation(p, ts)
    PROVE  Core'
<1>1. CpSeidsOfPeer'
  BY PeersAssumption DEF IInv, TypeOK, CpSeidsOfPeer, HandleAssociation
<1> QED
  BY <1>1, OtherwiseUnchanged DEF HandleAssociation, ServerUnlocked

(* Allocating a SEID. *)
LEMMA BeginStep ==
    ASSUME IInv, NEW p \in Peers, NEW q \in Request, EstBegin(p, q)
    PROVE  Core'
<1> DEFINE s0 == next_seid
<1>1. /\ s0 \in Seids /\ next_seid' = s0 + 1 /\ q.src = p /\ q.cp \in CpOf[p]
      /\ request' = [request EXCEPT ![s0] = q]
      /\ UNCHANGED <<associations, sessions, session_map, pdr_map, far_map, urr_map, recreated,
                     routes, ip_failed, del, aborted, xdp>>
      /\ est = None
  BY DEF EstBegin, maps, ServerUnlocked
<1>2. PICK n \in Nodes : /\ associations[n] # None /\ associations[n].peer = p
                         /\ est' = [step |-> "session", seid |-> s0, node |-> n]
  BY DEF EstBegin, AssociationsFrom
<1>3. /\ request[s0] = None /\ s0 \notin aborted
      /\ s0 \in Unrestored => sessions[s0] = None /\ \A t \in Tasks : ~Deleting(t, s0)
      /\ pdr_map[s0] = {} /\ far_map[s0] = {} /\ urr_map[s0] = {}
  BY <1>1, BoundsAssumption DEF IInv, TypeOK, FreshSeids, Live, Seids
<1>4. q # None /\ request \in [Seids -> Request \cup {None}]
  BY NoneAssumption DEF IInv, TypeOK
<1>5. /\ request'[s0] = q
      /\ \A s \in Seids : s # s0 => request'[s] = request[s]
      /\ est'.seid = s0 /\ est'.step = "session" /\ est'.node = n /\ est' # None
  BY <1>1, <1>2, <1>4, NoneAssumption DEF Establishment
<1>6. EstContext'
  BY <1>1, <1>2, <1>4, <1>5 DEF EstContext
<1>7. EstProgress'
  BY <1>1, <1>3, <1>5 DEF EstProgress, InstalledUrrs, Live, Deleting
<1>8. FreshSeids'
  BY <1>1, <1>5, BoundsAssumption DEF IInv, FreshSeids, Live, Installing, Deleting, Seids
<1>9. LiveAsRequested' /\ LiveRulesInstalled'
  BY <1>1, <1>3, <1>5, UnrestoredSeids DEF IInv, LiveAsRequested, LiveRulesInstalled, InstalledUrrs, Live
<1>10. DelContext'
  BY <1>1, <1>3, <1>5, UnrestoredSeids DEF IInv, TypeOK, DelContext, Deletion, Deleting, Live
<1>11. CpSeidsOfPeer'
  BY <1>1, <1>5 DEF IInv, CpSeidsOfPeer
<1>12. NoStaleSessionEntry'
  BY <1>1, <1>3, <1>5 DEF IInv, TypeOK, NoStaleSessionEntry, SessionInfo, Live, Installing, Deleting
<1>13. NoStaleRoute'
  BY <1>1, <1>3, <1>5 DEF IInv, NoStaleRoute, Installing, Live
<1>14. XdpContext'
  <2>1. \A s \in Seids, u \in UrrIds : NamedInRequest(s, u) => NamedInRequest(s, u)'
    BY <1>3, <1>5 DEF NamedInRequest
  <2>2. \A c \in Cpus : xdp[c] # None => xdp[c][1] \in Seids /\ xdp[c][2] \in UrrIds
    BY DEF IInv, TypeOK, UrrKey
  <2> QED
    BY <1>1, <1>3, <1>5, <2>1, <2>2 DEF IInv, XdpContext
<1> QED
  BY <1>6, <1>7, <1>8, <1>9, <1>10, <1>11, <1>12, <1>13, <1>14 DEF Core

(* A refused request uses up a SEID under which nothing is ever written. *)
LEMMA RejectStep ==
    ASSUME IInv, NEW p \in Peers, EstReject(p)
    PROVE  Core'
<1>1. FreshSeids'
  BY BoundsAssumption DEF IInv, TypeOK, EstReject, maps, FreshSeids, Live, Installing, Deleting, Seids
<1>2. EstContext' /\ EstProgress' /\ LiveAsRequested' /\ DelContext' /\ CpSeidsOfPeer'
  BY DEF IInv, EstReject, ServerUnlocked, EstContext, EstProgress, LiveAsRequested, DelContext,
         CpSeidsOfPeer, Live, Deleting
<1>3. XdpContext' /\ LiveRulesInstalled'
  BY DEF IInv, EstReject, maps, XdpContext, NamedInRequest, LiveRulesInstalled, InstalledUrrs, Live
<1>4. NoStaleSessionEntry' /\ NoStaleRoute'
  BY DEF IInv, EstReject, maps, NoStaleSessionEntry, NoStaleRoute, Live, Installing, Deleting
<1> QED
  BY <1>1, <1>2, <1>3, <1>4 DEF Core

(* What every step of an Establishment finds. *)
LEMMA EstFacts ==
    ASSUME IInv, EstStep
    PROVE  /\ est # None /\ est \in Establishment /\ est.seid \in Seids /\ est.node \in Nodes
           /\ Req \in Request /\ Req = request[est.seid] /\ Req # None
           /\ est.seid \in Unrestored => /\ ~Live(est.seid) /\ est.seid \notin aborted
                                         /\ \A t \in Tasks : ~Deleting(t, est.seid)
           /\ est.seid < next_seid
<1>1. est # None
  BY DEF EstStep, EstSession, EstPdrs, EstFars, EstUrrs, EstAbort, EstCommit, InStep
<1>2. est \in Establishment /\ est.seid \in Seids /\ est.node \in Nodes
  BY <1>1 DEF IInv, TypeOK, Establishment
<1>3. Req \in Request /\ Req # None /\ Req = request[est.seid]
  BY <1>1, <1>2 DEF IInv, TypeOK, EstContext, Req
<1>4. est.seid \in Unrestored => /\ ~Live(est.seid) /\ est.seid \notin aborted
                                /\ \A t \in Tasks : ~Deleting(t, est.seid)
  BY <1>1 DEF IInv, EstProgress
<1>5. est.seid < next_seid
  BY <1>1, <1>2, <1>3, BoundsAssumption DEF IInv, TypeOK, FreshSeids, Seids
<1> QED
  BY <1>1, <1>2, <1>3, <1>4, <1>5

(* The inserts: only the maps of the SEID being installed change. *)
LEMMA InsertStep ==
    ASSUME IInv, EstSession \/ EstPdrs \/ EstFars \/ EstUrrs
    PROVE  Core'
<1> DEFINE s0 == est.seid
<1>1. EstStep
  BY DEF EstStep
<1>2. /\ est # None /\ est \in Establishment /\ s0 \in Seids /\ Req = request[s0]
      /\ s0 < next_seid /\ Req \in Request /\ Req # None
      /\ s0 \in Unrestored => ~Live(s0) /\ \A t \in Tasks : ~Deleting(t, s0)
  BY <1>1, EstFacts
<1>3. /\ UNCHANGED <<associations, sessions, next_seid, routes, ip_failed, del, request, aborted, xdp>>
      /\ est' = [est EXCEPT !.step = IF est.step = "session" THEN "pdr"
                                     ELSE IF est.step = "pdr" THEN "far"
                                     ELSE IF est.step = "far" THEN "urr" ELSE "commit"]
      /\ \A s \in Seids : s # s0 => /\ pdr_map'[s] = pdr_map[s] /\ far_map'[s] = far_map[s]
                                    /\ urr_map'[s] = urr_map[s]
                                    /\ InstalledUrrs(s)' = InstalledUrrs(s)
      /\ recreated' \subseteq recreated
      /\ pdr_map'[s0] \subseteq pdr_map[s0] \cup PdrsOf(Req.rules)
  <2>1. CASE EstUrrs
    BY <2>1, <1>2 DEF IInv, TypeOK, EstUrrs, InStep, InstalledUrrs, UrrKeys
  <2>2. CASE EstSession \/ EstPdrs \/ EstFars
    BY <2>2, <1>2 DEF IInv, TypeOK, EstSession, EstPdrs, EstFars, InStep, InstalledUrrs, server
  <2> QED
    BY <2>1, <2>2
<1>4. est'.seid = s0 /\ est' # None /\ est'.node = est.node
  BY <1>2, <1>3, NoneAssumption DEF Establishment
<1>5. EstContext'
  BY <1>2, <1>3, <1>4 DEF IInv, EstContext
<1>6. EstProgress'
  <2>1. CASE EstSession
    BY <2>1, <1>2, <1>3, <1>4 DEF IInv, EstProgress, EstSession, InStep, InstalledUrrs, Live, Deleting, Establishment
  <2>2. CASE EstPdrs
    BY <2>2, <1>2, <1>3, <1>4 DEF IInv, TypeOK, EstProgress, EstPdrs, InStep, InstalledUrrs, Live, Deleting, Establishment
  <2>3. CASE EstFars
    BY <2>3, <1>2, <1>3, <1>4 DEF IInv, TypeOK, EstProgress, EstFars, InStep, InstalledUrrs, Live, Deleting, Establishment
  <2>4. CASE EstUrrs
    <3>1. InstalledUrrs(s0)' = InstalledUrrs(s0) \cup Req.rules.urrs
      BY <2>4, <1>2, RuleTypes DEF IInv, TypeOK, EstUrrs, InstalledUrrs, UrrKeys
    <3>2. /\ est'.step = "commit" /\ est.step = "urr" /\ UNCHANGED <<pdr_map, far_map>>
      BY <2>4, <1>2 DEF EstUrrs, InStep, Establishment
    <3>3. s0 \in Unrestored => InstalledUrrs(s0)' = Req.rules.urrs
      BY <3>1, <3>2, <1>2 DEF IInv, EstProgress
    <3> QED
      BY <3>2, <3>3, <1>2, <1>3, <1>4 DEF IInv, EstProgress, Live, Deleting
  <2> QED
    BY <2>1, <2>2, <2>3, <2>4
<1>7. FreshSeids'
  BY <1>2, <1>3, <1>4, BoundsAssumption DEF IInv, TypeOK, FreshSeids, Live, Installing, Deleting, Seids
<1>8. LiveAsRequested' /\ LiveRulesInstalled' /\ DelContext' /\ CpSeidsOfPeer' /\ NoStaleRoute'
  <2>1. LiveAsRequested' /\ DelContext' /\ CpSeidsOfPeer' /\ NoStaleRoute'
    BY <1>2, <1>3, <1>4 DEF IInv, LiveAsRequested, DelContext, CpSeidsOfPeer,
                            NoStaleRoute, Live, Installing, Deleting
  <2>2. LiveRulesInstalled'
    BY <1>2, <1>3, UnrestoredSeids DEF IInv, LiveRulesInstalled, Live
  <2> QED
    BY <2>1, <2>2
<1>10. XdpContext'
  BY <1>2, <1>3 DEF IInv, XdpContext, NamedInRequest
<1>9. NoStaleSessionEntry'
  <2>1. CASE EstSession
    <3>1. /\ Req.ue \in Ues
          /\ session_map' = [session_map EXCEPT ![Req.ue] =
               [seid |-> s0, tun |-> OwnTeid(Req.tun, s0), pdrs |-> KeptPdrIds(Req.rules)]]
      BY <2>1, <1>2 DEF EstSession, Request
    <3>2. session_map'[Req.ue].seid = s0 /\ \A u \in Ues : u # Req.ue => session_map'[u] = session_map[u]
      BY <3>1 DEF IInv, TypeOK
    <3> QED
      BY <3>1, <3>2, <1>2, <1>3, <1>4 DEF IInv, NoStaleSessionEntry, Live, Installing, Deleting
  <2>2. CASE session_map' = session_map
    BY <2>2, <1>3, <1>4 DEF IInv, NoStaleSessionEntry, Live, Installing, Deleting
  <2> QED
    BY <2>1, <2>2 DEF EstPdrs, EstFars, EstUrrs
<1> QED
  BY <1>5, <1>6, <1>7, <1>8, <1>9, <1>10 DEF Core

(* A failed insert leaves a dead SEID behind, and touches no other. *)
LEMMA AbortStep ==
    ASSUME IInv, EstAbort
    PROVE  Core'
<1> DEFINE s0 == est.seid
<1>1. EstStep
  BY DEF EstStep
<1>2. /\ est # None /\ est \in Establishment /\ s0 \in Seids
      /\ s0 < next_seid /\ request[s0] # None /\ Req = request[s0]
      /\ s0 \in Unrestored => ~Live(s0) /\ \A t \in Tasks : ~Deleting(t, s0)
  BY <1>1, EstFacts
<1>3. /\ UNCHANGED <<associations, sessions, next_seid, session_map, routes, ip_failed, del, request, xdp>>
      /\ est' = None /\ aborted' = aborted \cup {s0}
      /\ \A s \in Seids : s # s0 => /\ pdr_map'[s] = pdr_map[s] /\ far_map'[s] = far_map[s]
                                    /\ urr_map'[s] = urr_map[s]
                                    /\ InstalledUrrs(s)' = InstalledUrrs(s)
      /\ recreated' \subseteq recreated
      /\ pdr_map'[s0] \subseteq pdr_map[s0] \cup PdrsOf(Req.rules)
  BY <1>2 DEF IInv, TypeOK, EstAbort, InstalledUrrs, UrrKeys
<1>4. EstContext' /\ EstProgress'
  BY <1>3 DEF EstContext, EstProgress
<1>5. FreshSeids'
  BY <1>2, <1>3, BoundsAssumption DEF IInv, TypeOK, FreshSeids, Live, Installing, Deleting, Seids
<1>6. LiveAsRequested' /\ LiveRulesInstalled' /\ DelContext' /\ CpSeidsOfPeer' /\ NoStaleRoute'
  <2>1. LiveAsRequested' /\ DelContext' /\ CpSeidsOfPeer' /\ NoStaleRoute'
    BY <1>2, <1>3 DEF IInv, LiveAsRequested, DelContext, CpSeidsOfPeer,
                      NoStaleRoute, Live, Installing, Deleting
  <2>2. LiveRulesInstalled'
    BY <1>2, <1>3, UnrestoredSeids DEF IInv, LiveRulesInstalled, Live
  <2> QED
    BY <2>1, <2>2
<1>7. NoStaleSessionEntry'
  BY <1>3 DEF IInv, NoStaleSessionEntry, Live, Installing, Deleting
<1>8. XdpContext'
  BY <1>2, <1>3 DEF IInv, XdpContext, NamedInRequest
<1> QED
  BY <1>4, <1>5, <1>6, <1>7, <1>8 DEF Core

(* A FAR ID set is what was asked for. *)
LEMMA FarIdsOfRequest ==
    ASSUME NEW q PROVE {v.id : v \in FarsOf(q)} = q.rules.fars
<1>1. \A v \in FarsOf(q) : v.id \in q.rules.fars
  BY DEF FarsOf
<1>2. ASSUME NEW f \in q.rules.fars PROVE \E v \in FarsOf(q) : v.id = f
  <2> DEFINE v == [id |-> f, tun |-> IF f = q.rules.access THEN q.tun ELSE None]
  <2>1. v \in FarsOf(q) /\ v.id = f
    BY DEF FarsOf
  <2> QED
    BY <2>1
<1> QED
  BY <1>1, <1>2

(* EstCommit makes a session live: all its rules are in the maps by then. *)
LEMMA CommitStep ==
    ASSUME IInv, EstCommit
    PROVE  Core'
<1> DEFINE s0 == est.seid
<1> DEFINE q == request[s0]
<1> DEFINE data == [ue |-> q.ue, cp |-> q.cp, tun |-> OwnTeid(q.tun, s0)]
<1>1. EstStep
  BY DEF EstStep
<1>2. /\ est # None /\ est \in Establishment /\ s0 \in Seids /\ est.node \in Nodes /\ Req = q
      /\ s0 < next_seid /\ q \in Request /\ q # None
      /\ s0 \in Unrestored => ~Live(s0) /\ s0 \notin aborted /\ \A t \in Tasks : ~Deleting(t, s0)
  BY <1>1, EstFacts
<1>3. data \in SessionData /\ data # None
  BY <1>1, <1>2, NoneAssumption DEF Request, SessionData, OwnTeid, EndPoint
<1>4. /\ UNCHANGED <<next_seid, session_map, pdr_map, far_map, urr_map, recreated, del, request, aborted, xdp>>
      /\ est' = None
      /\ sessions' = [sessions EXCEPT ![s0] = data]
      /\ routes' \ ip_failed' \subseteq (routes \ ip_failed) \cup {q.ue}
  BY <1>2 DEF EstCommit, SetupUeRoute, IpCommand
<1>5. sessions'[s0] = data /\ \A s \in Seids : s # s0 => sessions'[s] = sessions[s]
  BY <1>2, <1>4 DEF IInv, TypeOK
<1>6. EstContext' /\ EstProgress'
  BY <1>4 DEF EstContext, EstProgress
<1>7. FreshSeids'
  BY <1>2, <1>4, <1>5, BoundsAssumption DEF IInv, TypeOK, FreshSeids, Live, Installing, Deleting, Seids
<1>8. LiveAsRequested'
  BY <1>2, <1>4, <1>5, UnrestoredSeids DEF IInv, LiveAsRequested, Live
<1>9. DelContext'
  BY <1>2, <1>4, <1>5 DEF IInv, TypeOK, DelContext, Deletion, Deleting, Live
<1>10. CpSeidsOfPeer'
  <2>1. /\ associations[est.node] \in SmfAssociation
        /\ associations[est.node].peer = q.src /\ q.cp \in CpOf[q.src]
    BY <1>2 DEF IInv, TypeOK, EstContext, CpSeidsOfPeer
  <2>2. associations' = [associations EXCEPT ![est.node] =
                           [associations[est.node] EXCEPT !.sessions = associations[est.node].sessions \cup {q.cp}]]
    BY <1>2 DEF EstCommit, SetupUeRoute, IpCommand
  <2>3. /\ associations'[est.node].peer = q.src
        /\ associations'[est.node].sessions = associations[est.node].sessions \cup {q.cp}
        /\ \A n \in Nodes : n # est.node => associations'[n] = associations[n]
    BY <1>2, <2>1, <2>2 DEF IInv, TypeOK, SmfAssociation
  <2> QED
    BY <1>2, <1>4, <2>1, <2>3, NoneAssumption DEF IInv, CpSeidsOfPeer
<1>11. LiveRulesInstalled'
  <2>1. s0 \in Unrestored => /\ pdr_map[s0] = PdrsOf(q.rules) /\ far_map[s0] = FarsOf(q)
                             /\ InstalledUrrs(s0) = q.rules.urrs
    BY <1>2 DEF IInv, EstProgress, EstCommit, InStep
  <2>2. s0 \in Unrestored => {v.id : v \in far_map[s0]} = q.rules.fars
    BY <2>1, FarIdsOfRequest
  <2>3. s0 \in Unrestored => urr_map[s0] \subseteq q.rules.urrs \cup NamedUrrs(q.rules)
    <3>1. \A u \in urr_map[s0] : u \in InstalledUrrs(s0) \/ u \in NamedUrrs(q.rules)
      BY <1>2 DEF IInv, TypeOK, XdpContext, NamedInRequest, InstalledUrrs
    <3> QED
      BY <2>1, <3>1
  <2>4. \A s \in Seids : InstalledUrrs(s)' = InstalledUrrs(s)
    BY <1>4 DEF InstalledUrrs
  <2> QED
    BY <1>4, <1>5, <2>1, <2>2, <2>3, <2>4, UnrestoredSeids DEF IInv, LiveRulesInstalled, Live
<1>12. NoStaleSessionEntry'
  BY <1>2, <1>3, <1>4, <1>5 DEF IInv, TypeOK, NoStaleSessionEntry, SessionInfo, Live, Installing, Deleting
<1>13. NoStaleRoute'
  <2>1. sessions'[s0] # None /\ request'[s0] # None /\ sessions'[s0].ue = q.ue
    BY <1>2, <1>3, <1>4, <1>5
  <2>2. \A s \in Seids : ~Installing(s) => s # s0
    BY <1>2 DEF Installing
  <2> QED
    BY <1>2, <1>4, <1>5, <2>1, <2>2 DEF IInv, NoStaleRoute, Installing, Live
<1>14. XdpContext'
  BY <1>4 DEF IInv, XdpContext, NamedInRequest
<1> QED
  BY <1>6, <1>7, <1>8, <1>9, <1>10, <1>11, <1>12, <1>13, <1>14 DEF Core

(* A Modification writes tunnels only: no key appears or disappears. *)
LEMMA ModificationStep ==
    ASSUME IInv, NEW p \in Peers, NEW s0 \in Seids, NEW f \in FarIds, NEW tun \in Tunnels,
           NEW access \in BOOLEAN, HandleModification(p, s0, f, tun, access)
    PROVE  Core'
<1>1. /\ est = None /\ est' = None
      /\ UNCHANGED <<associations, next_seid, pdr_map, urr_map, recreated, routes, ip_failed, del,
                     request, aborted, xdp>>
      /\ sessions[s0] \in SessionData /\ sessions[s0].ue \in Ues
  BY DEF IInv, TypeOK, HandleModification, ServerUnlocked, Owns, Live, SessionData
<1>2. \A s \in Seids : {v.id : v \in far_map'[s]} = {v.id : v \in far_map[s]}
  <2>1. far_map' = [far_map EXCEPT ![s0] =
                      {IF v.id = f THEN [v EXCEPT !.tun = tun] ELSE v : v \in far_map[s0]}]
    BY DEF HandleModification
  <2>2. \A v \in far_map[s0] : (IF v.id = f THEN [v EXCEPT !.tun = tun] ELSE v).id = v.id
    BY DEF IInv, TypeOK, FarValue
  <2>3. {v.id : v \in {IF w.id = f THEN [w EXCEPT !.tun = tun] ELSE w : w \in far_map[s0]}}
          = {v.id : v \in far_map[s0]}
    BY <2>2
  <2>4. far_map'[s0] = {IF w.id = f THEN [w EXCEPT !.tun = tun] ELSE w : w \in far_map[s0]}
        /\ \A s \in Seids : s # s0 => far_map'[s] = far_map[s]
    BY <2>1 DEF IInv, TypeOK
  <2> QED
    BY <2>3, <2>4
<1>3. \A s \in Seids : far_map[s] = {} => far_map'[s] = {}
  BY DEF HandleModification, IInv, TypeOK
<1>4. \A s \in Seids : /\ (sessions'[s] # None) <=> (sessions[s] # None)
                       /\ sessions[s] # None => /\ sessions'[s].ue = sessions[s].ue
                                                /\ sessions'[s].cp = sessions[s].cp
  <2>1. sessions' = sessions \/ sessions' = [sessions EXCEPT ![s0] = [sessions[s0] EXCEPT !.tun = GnbTeid(tun)]]
    BY DEF HandleModification
  <2>2. LET d == [sessions[s0] EXCEPT !.tun = GnbTeid(tun)] IN
          d \in SessionData /\ d # None /\ d.ue = sessions[s0].ue /\ d.cp = sessions[s0].cp
    BY <1>1, NoneAssumption DEF SessionData, GnbTeid, EndPoint
  <2> QED
    BY <2>1, <2>2, <1>1, NoneAssumption DEF IInv, TypeOK
<1>5. \A u \in Ues : session_map'[u] # None =>
         session_map[u] # None /\ session_map'[u].seid = session_map[u].seid
  <2>1. \/ session_map' = session_map
        \/ /\ session_map[sessions[s0].ue] = None
           /\ session_map' = [session_map EXCEPT ![sessions[s0].ue] = None]
        \/ /\ session_map[sessions[s0].ue] # None
           /\ session_map' = [session_map EXCEPT ![sessions[s0].ue] =
                                [session_map[sessions[s0].ue] EXCEPT !.tun = GnbTeid(tun)]]
    BY DEF HandleModification
  <2> QED
    BY <2>1, <1>1 DEF IInv, TypeOK, SessionInfo
<1>6. EstContext' /\ EstProgress'
  BY <1>1 DEF EstContext, EstProgress
<1>7. FreshSeids'
  BY <1>1, <1>3, <1>4 DEF IInv, FreshSeids, Live, Installing, Deleting
<1>8. LiveAsRequested' /\ DelContext' /\ CpSeidsOfPeer' /\ NoStaleRoute'
  <2>1. LiveAsRequested' /\ CpSeidsOfPeer' /\ NoStaleRoute'
    BY <1>1, <1>4, UnrestoredSeids DEF IInv, LiveAsRequested, CpSeidsOfPeer, NoStaleRoute, Installing, Live
  <2>2. DelContext'
    BY <1>1, <1>4, UnrestoredSeids DEF IInv, TypeOK, DelContext, Deletion, Live, Deleting
  <2> QED
    BY <2>1, <2>2
<1>9. LiveRulesInstalled'
  BY <1>1, <1>2, <1>4, UnrestoredSeids DEF IInv, LiveRulesInstalled, InstalledUrrs, Live
<1>11. XdpContext'
  BY <1>1 DEF IInv, XdpContext, NamedInRequest
<1>10. NoStaleSessionEntry'
  BY <1>1, <1>4, <1>5 DEF IInv, TypeOK, NoStaleSessionEntry, SessionInfo, Live, Installing, Deleting
<1> QED
  BY <1>6, <1>7, <1>8, <1>9, <1>10, <1>11 DEF Core

(* A session leaves the server; the task that took it out cleans up. *)
LEMMA DelLockedStep ==
    ASSUME IInv, NEW t0 \in Tasks, NEW p \in Peers, NEW s0 \in Seids, DelLocked(t0, p, s0)
    PROVE  Core'
<1>1. /\ est = None /\ est' = None /\ del[t0] = None
      /\ UNCHANGED <<next_seid, session_map, pdr_map, far_map, urr_map, recreated, routes, ip_failed,
                     request, aborted, xdp>>
      /\ sessions[s0] \in SessionData /\ sessions[s0].ue \in Ues /\ Live(s0)
  BY DEF IInv, TypeOK, DelLocked, ServerUnlocked, Owns, Live, SessionData, maps
<1>2. sessions'[s0] = None /\ \A s \in Seids : s # s0 => sessions'[s] = sessions[s]
  BY DEF IInv, TypeOK, DelLocked
<1>3. /\ del'[t0] \in Deletion /\ del'[t0] # None
      /\ del'[t0].seid = s0 /\ del'[t0].ue = sessions[s0].ue /\ del'[t0].step = "lookup"
      /\ \A t \in Tasks : t # t0 => del'[t] = del[t]
  BY <1>1, NoneAssumption DEF IInv, TypeOK, DelLocked, Deletion
<1>4. s0 \in Unrestored => request[s0] # None /\ request[s0].ue = sessions[s0].ue /\ s0 \notin aborted
  BY <1>1 DEF IInv, LiveAsRequested
<1>5. EstContext' /\ EstProgress'
  BY <1>1 DEF EstContext, EstProgress
<1>6. FreshSeids'
  BY <1>1, <1>2, <1>3, <1>4 DEF IInv, FreshSeids, Live, Installing, Deleting
<1>7. LiveAsRequested' /\ LiveRulesInstalled'
  BY <1>1, <1>2, UnrestoredSeids DEF IInv, LiveAsRequested, LiveRulesInstalled, InstalledUrrs, Live
<1>8. DelContext'
  <2>1. s0 \in Unrestored => \A t \in Tasks : ~Deleting(t, s0)
    BY <1>1 DEF IInv, DelContext, Deleting
  <2>2. \A t \in Tasks : del[t] # None => del[t].seid \in Seids
    BY DEF IInv, TypeOK, Deletion
  <2> QED
    BY <1>1, <1>2, <1>3, <1>4, <2>1, <2>2 DEF IInv, DelContext, Deleting, Live
<1>9. CpSeidsOfPeer'
  <2>1. PICK n \in Nodes : /\ Owns(p, n, s0)
                           /\ associations' = [associations EXCEPT ![n] = [associations[n] EXCEPT
                                 !.sessions = associations[n].sessions \ {sessions[s0].cp}]]
    BY DEF DelLocked
  <2>2. associations[n] \in SmfAssociation
    BY <2>1 DEF IInv, TypeOK, Owns, AssociationsFrom
  <2>3. \A m \in Nodes : associations'[m] # None =>
           /\ associations[m] # None /\ associations'[m].peer = associations[m].peer
           /\ associations'[m].sessions \subseteq associations[m].sessions
    BY <2>1, <2>2, NoneAssumption DEF IInv, TypeOK, SmfAssociation
  <2> QED
    BY <1>1, <2>3 DEF IInv, CpSeidsOfPeer
<1>10. NoStaleSessionEntry'
  BY <1>1, <1>2, <1>3 DEF IInv, TypeOK, NoStaleSessionEntry, SessionInfo, Live, Installing, Deleting
<1>11. NoStaleRoute'
  BY <1>1, <1>2, <1>3 DEF IInv, NoStaleRoute, Installing, Live
<1>12. XdpContext'
  BY <1>1 DEF IInv, XdpContext, NamedInRequest
<1> QED
  BY <1>5, <1>6, <1>7, <1>8, <1>9, <1>10, <1>11, <1>12 DEF Core

(* What a step of a clean-up (handle_msg.rs, without the server mutex)     *)
(* leaves alone: the server's own state, the rules of every other SEID and *)
(* the other clean-ups.                                                    *)
LEMMA CleanupEffect ==
    ASSUME IInv, NEW t0 \in Tasks, DelStep(t0)
    PROVE  LET s0 == del[t0].seid
               u0 == del[t0].ue IN
           /\ del[t0] # None /\ del[t0] \in Deletion /\ s0 \in Seids /\ u0 \in Ues
           /\ s0 \in Unrestored => /\ ~Live(s0) /\ request[s0] # None /\ request[s0].ue = u0
                                   /\ \A t \in Tasks : Deleting(t, s0) => t = t0
           /\ UNCHANGED <<associations, sessions, next_seid, est, request, aborted, xdp>>
           /\ \A s \in Seids : s # s0 => /\ pdr_map'[s] = pdr_map[s] /\ far_map'[s] = far_map[s]
                                         /\ urr_map'[s] = urr_map[s]
                                         /\ InstalledUrrs(s)' = InstalledUrrs(s)
           /\ pdr_map'[s0] \subseteq pdr_map[s0] /\ far_map'[s0] \subseteq far_map[s0]
           /\ urr_map'[s0] \subseteq urr_map[s0]
           /\ \A s \in Seids : InstalledUrrs(s)' \subseteq InstalledUrrs(s)
           /\ recreated' \subseteq recreated
           /\ \A t \in Tasks : t # t0 => del'[t] = del[t]
           /\ \/ DelRoute(t0) /\ del'[t0] = None
              \/ /\ del'[t0] \in Deletion /\ del'[t0] # None
                 /\ del'[t0].seid = s0 /\ del'[t0].ue = u0
                 /\ del'[t0].step = "route" => DelSession(t0)
<1> DEFINE s0 == del[t0].seid
<1> DEFINE u0 == del[t0].ue
<1>1. del[t0] # None /\ del[t0] \in Deletion /\ s0 \in Seids /\ u0 \in Ues
  BY DEF IInv, TypeOK, Deletion, DelStep, DelLookup, DelCollect, DelPdrs, DelFars, DelUrrs,
         DelSession, DelRoute, DelIn
<1>2. s0 \in Unrestored => /\ ~Live(s0) /\ request[s0] # None /\ request[s0].ue = u0
                           /\ \A t \in Tasks : Deleting(t, s0) => t = t0
  BY <1>1 DEF IInv, DelContext
<1>3. UNCHANGED <<associations, sessions, next_seid, est, request, aborted, xdp>>
  BY DEF DelStep, DelLookup, DelCollect, DelPdrs, DelFars, DelUrrs, DelSession, DelRoute, server
<1>4. /\ \A s \in Seids : s # s0 => /\ pdr_map'[s] = pdr_map[s] /\ far_map'[s] = far_map[s]
                                    /\ urr_map'[s] = urr_map[s]
                                    /\ InstalledUrrs(s)' = InstalledUrrs(s)
      /\ pdr_map'[s0] \subseteq pdr_map[s0] /\ far_map'[s0] \subseteq far_map[s0]
      /\ urr_map'[s0] \subseteq urr_map[s0]
      /\ \A s \in Seids : InstalledUrrs(s)' \subseteq InstalledUrrs(s)
      /\ recreated' \subseteq recreated
  <2>1. CASE DelPdrs(t0)
    BY <2>1, <1>1 DEF IInv, TypeOK, DelPdrs, InstalledUrrs
  <2>2. CASE DelFars(t0)
    BY <2>2, <1>1 DEF IInv, TypeOK, DelFars, InstalledUrrs
  <2>3. CASE DelUrrs(t0)
    <3>1. /\ urr_map' = [urr_map EXCEPT ![s0] = urr_map[s0] \ del[t0].urrs]
          /\ recreated' = recreated \ UrrKeys(s0, del[t0].urrs)
          /\ UNCHANGED <<pdr_map, far_map>>
      BY <2>3 DEF DelUrrs
    <3>2. urr_map'[s0] = urr_map[s0] \ del[t0].urrs /\ \A s \in Seids : s # s0 => urr_map'[s] = urr_map[s]
      BY <3>1, <1>1 DEF IInv, TypeOK
    <3>3. \A s \in Seids, u \in UrrIds : <<s, u>> \in UrrKeys(s0, del[t0].urrs) => s = s0 /\ u \in del[t0].urrs
      BY DEF UrrKeys
    <3>4. \A s \in Seids : urr_map[s] \subseteq UrrIds
      BY DEF IInv, TypeOK
    <3>5. ASSUME NEW s \in Seids PROVE InstalledUrrs(s)' \subseteq InstalledUrrs(s)
      BY <3>1, <3>2, <3>3, <3>4 DEF InstalledUrrs
    <3>6. ASSUME NEW s \in Seids, s # s0 PROVE InstalledUrrs(s) \subseteq InstalledUrrs(s)'
      BY <3>1, <3>2, <3>6 DEF InstalledUrrs
    <3> QED
      BY <3>1, <3>2, <3>5, <3>6, <1>1
  <2>4. CASE UNCHANGED <<pdr_map, far_map, urr_map, recreated>>
    BY <2>4 DEF InstalledUrrs
  <2> QED
    BY <2>1, <2>2, <2>3, <2>4 DEF DelStep, DelLookup, DelCollect, DelSession, DelRoute, maps
<1>5. /\ \A t \in Tasks : t # t0 => del'[t] = del[t]
      /\ \/ DelRoute(t0) /\ del'[t0] = None
         \/ /\ del'[t0] \in Deletion /\ del'[t0] # None
            /\ del'[t0].seid = s0 /\ del'[t0].ue = u0
            /\ del'[t0].step = "route" => DelSession(t0)
  <2>1. \A t \in Tasks : t # t0 => del'[t] = del[t]
    BY DEF IInv, TypeOK, DelStep, DelLookup, DelCollect, DelPdrs, DelFars, DelUrrs,
           DelSession, DelRoute
  <2>2. CASE DelRoute(t0)
    BY <2>1, <2>2 DEF IInv, TypeOK, DelRoute
  <2>3. CASE ~DelRoute(t0)
    <3>1. TypeOK'
      BY TypeStep DEF IInv, Next
    <3>2. /\ del'[t0] # None /\ del'[t0].seid = s0 /\ del'[t0].ue = u0
          /\ del'[t0].step = "route" => DelSession(t0)
      <4>1. CASE DelLookup(t0)
        BY <4>1, <1>1, NoneAssumption DEF IInv, TypeOK, DelLookup, Deletion, SessionInfo
      <4>2. CASE DelCollect(t0)
        <5>1. /\ del'[t0].seid = s0 /\ del'[t0].ue = u0 /\ del'[t0].step = "pdr"
              /\ del'[t0].pdrs = del[t0].pdrs
          BY <4>2, <1>1 DEF IInv, TypeOK, DelCollect, Deletion
        <5>2. del'[t0] # None
          <6> DEFINE found == {v \in pdr_map[s0] : v.id \in del[t0].pdrs}
          <6>1. {v.far : v \in found} \subseteq FarIds /\ {v.urr : v \in found} \ {0} \subseteq UrrIds
            BY <1>1 DEF IInv, TypeOK, Pdr
          <6>2. del'[t0] \in Deletion
            BY <4>2, <1>1, <6>1 DEF IInv, TypeOK, DelCollect, Deletion
          <6> QED
            BY <6>2, NoneAssumption
        <5> QED
          BY <5>1, <5>2
      <4>3. CASE DelPdrs(t0)
        BY <4>3, <1>1, NoneAssumption DEF IInv, TypeOK, DelPdrs, Deletion
      <4>4. CASE DelFars(t0)
        BY <4>4, <1>1, NoneAssumption DEF IInv, TypeOK, DelFars, Deletion
      <4>5. CASE DelUrrs(t0)
        BY <4>5, <1>1, NoneAssumption DEF IInv, TypeOK, DelUrrs, Deletion
      <4>6. CASE DelSession(t0)
        BY <4>6, <1>1, NoneAssumption DEF IInv, TypeOK, DelSession, Deletion
      <4> QED
        BY <2>3, <4>1, <4>2, <4>3, <4>4, <4>5, <4>6 DEF DelStep
    <3> QED
      BY <2>1, <3>1, <3>2 DEF TypeOK
  <2> QED
    BY <2>2, <2>3
<1> QED
  BY <1>1, <1>2, <1>3, <1>4, <1>5

(* The clean-up touches the rules of its own, dead SEID, and the entry and *)
(* the route of its UE address.                                            *)
LEMMA CleanupStep ==
    ASSUME IInv, NEW t0 \in Tasks, DelStep(t0)
    PROVE  Core'
<1> DEFINE s0 == del[t0].seid
<1> DEFINE u0 == del[t0].ue
<1>1. del[t0] # None /\ del[t0] \in Deletion /\ s0 \in Seids /\ u0 \in Ues
  BY CleanupEffect
<1>2. s0 \in Unrestored => /\ ~Live(s0) /\ request[s0] # None /\ request[s0].ue = u0
                           /\ \A t \in Tasks : Deleting(t, s0) => t = t0
  BY CleanupEffect
<1>3. UNCHANGED <<associations, sessions, next_seid, est, request, aborted, xdp>>
  BY CleanupEffect
<1>4. /\ \A s \in Seids : s # s0 => /\ pdr_map'[s] = pdr_map[s] /\ far_map'[s] = far_map[s]
                                    /\ urr_map'[s] = urr_map[s]
                                    /\ InstalledUrrs(s)' = InstalledUrrs(s)
      /\ pdr_map'[s0] \subseteq pdr_map[s0] /\ far_map'[s0] \subseteq far_map[s0]
      /\ urr_map'[s0] \subseteq urr_map[s0]
      /\ \A s \in Seids : InstalledUrrs(s)' \subseteq InstalledUrrs(s)
      /\ recreated' \subseteq recreated
  BY CleanupEffect
<1>5. /\ \A t \in Tasks : t # t0 => del'[t] = del[t]
      /\ \/ DelRoute(t0) /\ del'[t0] = None
         \/ /\ del'[t0] \in Deletion /\ del'[t0] # None
            /\ del'[t0].seid = s0 /\ del'[t0].ue = u0
            /\ del'[t0].step = "route" => DelSession(t0)
  BY CleanupEffect
<1>6. EstContext' /\ EstProgress'
  <2>1. est # None /\ est.seid \in Unrestored => est.seid \in Seids /\ est.seid # s0
    BY <1>1 DEF IInv, TypeOK, EstProgress, Deleting, Establishment
  <2> QED
    BY <1>3, <1>4, <1>5, <2>1 DEF IInv, EstContext, EstProgress, Live, Deleting
<1>7. FreshSeids'
  BY <1>2, <1>3, <1>4, <1>5 DEF IInv, FreshSeids, Live, Installing, Deleting
<1>8. LiveAsRequested' /\ CpSeidsOfPeer' /\ LiveRulesInstalled'
  BY <1>2, <1>3, <1>4, UnrestoredSeids DEF IInv, LiveAsRequested, CpSeidsOfPeer, LiveRulesInstalled, Live
<1>9. DelContext'
  BY <1>2, <1>3, <1>5 DEF IInv, DelContext, Deleting, Live
<1>12. XdpContext'
  BY <1>1, <1>3, <1>4 DEF IInv, XdpContext, NamedInRequest
<1>10. NoStaleSessionEntry'
  <2>1. CASE DelSession(t0)
    <3>1. session_map'[u0] = None /\ \A u \in Ues : u # u0 => session_map'[u] = session_map[u]
      BY <2>1, <1>1 DEF IInv, TypeOK, DelSession
    <3> QED
      BY <3>1, <1>2, <1>3, <1>5 DEF IInv, NoStaleSessionEntry, Live, Installing, Deleting
  <2>2. CASE ~DelSession(t0)
    <3>1. session_map' = session_map
      BY <2>2 DEF DelStep, DelLookup, DelCollect, DelPdrs, DelFars, DelUrrs, DelRoute, maps
    <3>2. DelRoute(t0) => del[t0].step = "route"
      BY DEF DelRoute, DelIn
    <3> QED
      BY <2>2, <3>1, <3>2, <1>2, <1>3, <1>5 DEF IInv, NoStaleSessionEntry, Live, Installing, Deleting
  <2> QED
    BY <2>1, <2>2
<1>11. NoStaleRoute'
  <2>1. CASE DelRoute(t0)
    BY <2>1, <1>3, <1>5 DEF IInv, NoStaleRoute, Installing, Live, DelRoute, TeardownUeRoute, IpCommand
  <2>2. CASE ~DelRoute(t0)
    <3>1. routes' = routes /\ ip_failed' = ip_failed
      BY <2>2 DEF DelStep, DelLookup, DelCollect, DelPdrs, DelFars, DelUrrs, DelSession, maps
    <3> QED
      BY <2>2, <3>1, <1>1, <1>3, <1>5 DEF IInv, NoStaleRoute, Installing, Live
  <2> QED
    BY <2>1, <2>2
<1> QED
  BY <1>6, <1>7, <1>8, <1>9, <1>10, <1>11, <1>12 DEF Core

(* What a packet does: it changes no map but URR_MAP, and there adds no    *)
(* URR but one that a PDR of the session refers to.                        *)
LEMMA XdpEffect ==
    ASSUME IInv, NEW c0 \in Cpus, (\E s \in Seids : XdpMatch(c0, s)) \/ UrrCount(c0)
    PROVE  /\ UNCHANGED <<server, session_map, pdr_map, far_map, routes, ip_failed, est, del, request, aborted>>
           /\ XdpContext'
           /\ \A s \in Seids : /\ InstalledUrrs(s)' = InstalledUrrs(s)
                               /\ urr_map'[s] \subseteq urr_map[s] \cup NamedUrrs(request[s].rules)
                               /\ request[s] = None => urr_map'[s] = urr_map[s]
                               /\ \A u \in urr_map'[s] \ urr_map[s] : \E c \in Cpus : xdp[c] = <<s, u>>
<1>1. UNCHANGED <<server, session_map, pdr_map, far_map, routes, ip_failed, est, del, request, aborted>>
  BY DEF XdpMatch, UrrCount, maps
<1>2. ASSUME NEW s0 \in Seids, XdpMatch(c0, s0)
      PROVE  XdpContext' /\ UNCHANGED <<urr_map, recreated>>
  <2>1. UNCHANGED <<urr_map, recreated, pdr_map, request>>
    BY <1>2 DEF XdpMatch, maps
  <2>2. PICK v \in pdr_map[s0] : v.urr # 0 /\ xdp' = [xdp EXCEPT ![c0] = <<s0, v.urr>>]
    BY <1>2 DEF XdpMatch
  <2>3. NamedInRequest(s0, v.urr)
    BY <2>2 DEF IInv, XdpContext, NamedInRequest, NamedUrrs
  <2> QED
    BY <2>1, <2>2, <2>3 DEF IInv, TypeOK, XdpContext, NamedInRequest
<1>3. ASSUME UrrCount(c0)
      PROVE  /\ XdpContext'
             /\ \A s \in Seids : /\ InstalledUrrs(s)' = InstalledUrrs(s)
                                 /\ urr_map'[s] \subseteq urr_map[s] \cup NamedUrrs(request[s].rules)
                                 /\ request[s] = None => urr_map'[s] = urr_map[s]
                                 /\ \A u \in urr_map'[s] \ urr_map[s] : xdp[c0] = <<s, u>>
  <2> DEFINE s0 == xdp[c0][1]
  <2> DEFINE u0 == xdp[c0][2]
  <2>1. xdp[c0] = <<s0, u0>> /\ s0 \in Seids /\ u0 \in UrrIds /\ NamedInRequest(s0, u0)
    BY <1>3 DEF IInv, TypeOK, UrrCount, UrrKey, XdpContext
  <2>2. UNCHANGED <<pdr_map, request>> /\ xdp' = [xdp EXCEPT ![c0] = None]
    BY <1>3 DEF UrrCount
  <2>3. \/ UNCHANGED <<urr_map, recreated>>
        \/ /\ urr_map' = [urr_map EXCEPT ![s0] = urr_map[s0] \cup {u0}]
           /\ u0 \notin urr_map[s0]
           /\ recreated' = recreated \cup {<<s0, u0>>}
    BY <1>3, <2>1 DEF UrrCount
  <2>4. XdpContext'
    BY <2>1, <2>2, <2>3 DEF IInv, TypeOK, XdpContext, NamedInRequest
  <2>5. \A s \in Seids : InstalledUrrs(s)' = InstalledUrrs(s)
    BY <2>1, <2>3 DEF IInv, TypeOK, InstalledUrrs
  <2> QED
    BY <2>1, <2>3, <2>4, <2>5 DEF IInv, TypeOK, NamedInRequest
<1> QED
  BY <1>1, <1>2, <1>3 DEF InstalledUrrs

(* The XDP program keeps the inductive invariant. *)
LEMMA XdpStep ==
    ASSUME IInv, NEW c0 \in Cpus, (\E s \in Seids : XdpMatch(c0, s)) \/ UrrCount(c0)
    PROVE  Core'
<1>1. UNCHANGED <<associations, sessions, next_seid, session_map, pdr_map, far_map, routes, ip_failed,
                  est, del, request, aborted>>
  BY XdpEffect DEF server
<1>2. XdpContext'
  BY XdpEffect
<1>3. \A s \in Seids : /\ InstalledUrrs(s)' = InstalledUrrs(s)
                       /\ urr_map'[s] \subseteq urr_map[s] \cup NamedUrrs(request[s].rules)
                       /\ request[s] = None => urr_map'[s] = urr_map[s]
  BY XdpEffect
<1>4. EstContext' /\ EstProgress'
  BY <1>1, <1>3, UnrestoredSeids DEF IInv, EstContext, EstProgress, Live, Deleting
<1>5. FreshSeids' /\ LiveAsRequested' /\ DelContext' /\ CpSeidsOfPeer'
  BY <1>1, <1>3 DEF IInv, FreshSeids, LiveAsRequested, DelContext, CpSeidsOfPeer, Live, Installing, Deleting
<1>6. LiveRulesInstalled'
  BY <1>1, <1>3, UnrestoredSeids DEF IInv, LiveRulesInstalled, Live
<1>7. NoStaleSessionEntry' /\ NoStaleRoute'
  BY <1>1 DEF IInv, NoStaleSessionEntry, NoStaleRoute, Live, Installing, Deleting
<1> QED
  BY <1>2, <1>4, <1>5, <1>6, <1>7 DEF Core

(* Every step of every handler keeps the inductive invariant. *)
LEMMA StepIInv == IInv /\ [Next]_vars => IInv'
<1> SUFFICES ASSUME IInv, [Next]_vars PROVE IInv'
  OBVIOUS
<1>1. TypeOK'
  BY TypeStep DEF IInv
<1>2. CASE Next
  <2>1. Core'
    BY <1>2, HeartbeatStep, AssociationStep, BeginStep, RejectStep, InsertStep, AbortStep,
       CommitStep, ModificationStep, DelLockedStep, CleanupStep, XdpStep DEF Next, EstStep
  <2> QED
    BY <1>1, <2>1 DEF IInv, Core
<1>3. CASE UNCHANGED vars
  BY <1>1, <1>3 DEF vars, IInv, EstContext, EstProgress, FreshSeids, LiveAsRequested, DelContext,
              CpSeidsOfPeer, XdpContext, NamedInRequest, LiveRulesInstalled, NoStaleSessionEntry,
              NoStaleRoute, InstalledUrrs, Live, Installing, Deleting
<1> QED
  BY <1>2, <1>3

(* The inductive invariant holds in every reachable state. *)
LEMMA Invariance == Spec => []IInv
<1> QED
  BY InitIInv, StepIInv, PTL DEF Spec

-----------------------------------------------------------------------------
(* The control plane's state is well typed in every reachable state: in    *)
(* particular no handler ever dereferences an absent session, association  *)
(* or request.                                                             *)
THEOREM TypeCorrect == Spec => []TypeOK
BY Invariance, PTL DEF IInv

(* An established session keeps exactly the rules it asked for, whatever   *)
(* else is being deleted at the same time.                                 *)
THEOREM RulesStayInstalled == Spec => []LiveRulesInstalled
BY Invariance, PTL DEF IInv

(* The kernel never resolves a UE address to a session that is gone.       *)
THEOREM SessionMapSound == Spec => []NoStaleSessionEntry
BY Invariance, PTL DEF IInv

(* No route outlives the sessions of its UE address, unless the ip command *)
(* that should have removed it failed, or an earlier life left it behind.  *)
THEOREM RoutesSound == Spec => []NoStaleRoute
BY Invariance, PTL DEF IInv

(* If no two SMFs use the same CP-SEID, the ownership check is exact: the  *)
(* hypothesis is what the code relies on and does not enforce.             *)
THEOREM OwnershipIfDisjoint ==
    ASSUME \A p1, p2 \in Peers : p1 # p2 => CpOf[p1] \cap CpOf[p2] = {}
    PROVE  Spec => []ExclusiveOwnership
<1>1. IInv => ExclusiveOwnership
  <2> SUFFICES ASSUME IInv, NEW p \in Peers, NEW n \in Nodes, NEW s \in Unrestored, Owns(p, n, s)
               PROVE  request[s].src = p
    BY DEF ExclusiveOwnership
  <2>1. /\ Live(s) /\ associations[n] # None /\ associations[n].peer = p
        /\ sessions[s].cp \in associations[n].sessions
    BY DEF Owns, AssociationsFrom
  <2>2. sessions[s].cp \in CpOf[p]
    BY <2>1 DEF IInv, CpSeidsOfPeer
  <2>3. request[s] \in Request /\ sessions[s].cp \in CpOf[request[s].src]
    BY <2>1, UnrestoredSeids DEF IInv, TypeOK, LiveAsRequested, CpSeidsOfPeer
  <2>4. request[s].src \in Peers
    BY <2>3 DEF Request
  <2> QED
    BY <2>2, <2>3, <2>4
<1> QED
  BY <1>1, Invariance, PTL
=============================================================================
