------------------------ MODULE PfcpRefinementProofs ------------------------
(***************************************************************************)
(* PfcpServer implements SessionLifecycle, when Redis gave it no session,  *)
(* and never uses a SEID twice in one life.                                *)
(*                                                                         *)
(* The inductive invariant IInv of PfcpServerProofs carries both: it says  *)
(* what is in the maps under a SEID that is being established, and that a  *)
(* clean-up works under a SEID whose session has gone.                     *)
(***************************************************************************)
EXTENDS PfcpServerProofs

(* An established session, seen from outside, is a session. *)
LEMMA ViewOfLive ==
    ASSUME TypeOK, NEW s \in Seids
    PROVE  /\ Live(s) => AbstractSession[s] = [ue |-> sessions[s].ue, cp |-> sessions[s].cp,
                              content |-> [tun |-> sessions[s].tun, pdrs |-> pdr_map[s],
                                           fars |-> far_map[s], urrs |-> InstalledUrrs(s)]]
           /\ ~Live(s) => AbstractSession[s] = None
           /\ Live(s) <=> AbstractSession[s] # None
<1>1. CASE Live(s)
  <2>1. /\ sessions[s].ue \in Ues /\ sessions[s].cp \in CpSeids /\ sessions[s].tun \in EndPoint
        /\ pdr_map[s] \subseteq Pdr /\ far_map[s] \subseteq FarValue
        /\ InstalledUrrs(s) \subseteq UrrIds
    BY <1>1 DEF TypeOK, Live, SessionData, InstalledUrrs
  <2>2. [ue |-> sessions[s].ue, cp |-> sessions[s].cp,
         content |-> [tun |-> sessions[s].tun, pdrs |-> pdr_map[s],
                      fars |-> far_map[s], urrs |-> InstalledUrrs(s)]] \in SessionView
    BY <2>1 DEF SessionView
  <2>3. QED BY <1>1, <2>2, NoneAssumption DEF AbstractSession
<1>2. CASE ~Live(s)
  BY <1>2 DEF AbstractSession
<1>3. QED BY <1>1, <1>2

(* The sessions look the same when no established one has changed. *)
LEMMA ViewUnchanged ==
    ASSUME sessions' = sessions,
           \A s \in Seids : Live(s) => /\ pdr_map'[s] = pdr_map[s] /\ far_map'[s] = far_map[s]
                                       /\ InstalledUrrs(s)' = InstalledUrrs(s)
    PROVE  AbstractSession' = AbstractSession
BY DEF AbstractSession, Live

Released(s) == request[s] # None /\ ~Live(s) /\ ~Installing(s) /\ s \notin aborted

(* So do the released SEIDs, when each of them stays what it is. *)
LEMMA ReleasedUnchanged ==
    ASSUME \A s \in Seids : Released(s)' <=> Released(s)
    PROVE  ReleasedSeids' = ReleasedSeids
BY DEF ReleasedSeids, Released

(* The empty server of PfcpServer::new. *)
LEMMA InitRefines == ASSUME NothingRestored PROVE Init => Lifecycle!Init
<1> SUFFICES ASSUME Init PROVE Lifecycle!Init
  OBVIOUS
<1>1. AbstractSession = [s \in Seids |-> None]
  BY DEF Init, AbstractSession, Live, NothingRestored, Unrestored
<1>2. ReleasedSeids = {}
  BY DEF Init, ReleasedSeids
<1>3. QED BY <1>1, <1>2 DEF Init, Lifecycle!Init

(* Association Setup and a heartbeat that tells of a restart are steps of  *)
(* the abstract specification of their own.                                *)
LEMMA AssociationRefines ==
    ASSUME NEW p \in Peers, NEW ts \in Timestamps, HandleAssociation(p, ts) \/ HandleHeartbeat(p, ts)
    PROVE  Lifecycle!Next
<1>1. AbstractSession' = AbstractSession
  BY ViewUnchanged DEF HandleAssociation, HandleHeartbeat, maps, InstalledUrrs
<1>2. ReleasedSeids' = ReleasedSeids
  BY DEF ReleasedSeids, Live, Installing, HandleAssociation, HandleHeartbeat
<1>3. CASE HandleAssociation(p, ts)
  <2>1. Lifecycle!Associate(p, ts)
    BY <1>1, <1>2, <1>3 DEF HandleAssociation, Lifecycle!Associate
  <2>2. QED BY <2>1 DEF Lifecycle!Next
<1>4. CASE HandleHeartbeat(p, ts)
  <2>1. PICK n \in Nodes : Lifecycle!PeerRestarted(p, n, ts)
    BY <1>1, <1>2, <1>4 DEF HandleHeartbeat, AssociationsFrom, Lifecycle!PeerRestarted, Lifecycle!Associated
  <2>2. QED BY <2>1 DEF Lifecycle!Next
<1>5. QED BY <1>3, <1>4

(* An Establishment that begins is not seen: its SEID is neither a session *)
(* nor released while it is being installed.                               *)
LEMMA BeginUnseen ==
    ASSUME IInv, NEW p \in Peers, NEW q \in Request, EstBegin(p, q)
    PROVE  UNCHANGED Lifecycle!vars
<1>1. est = None /\ next_seid \in Seids /\ UNCHANGED <<associations, sessions, maps, aborted>>
  BY DEF EstBegin, ServerUnlocked
<1>2. est' # None /\ est'.seid = next_seid
  BY <1>1, NoneAssumption DEF EstBegin, AssociationsFrom, Establishment
<1>3. \A s \in Seids : s # next_seid => request'[s] = request[s]
  BY <1>1 DEF EstBegin, IInv, TypeOK
<1>4. request[next_seid] = None
  BY <1>1 DEF IInv, FreshSeids, TypeOK
<1>5. AbstractSession' = AbstractSession
  BY <1>1, ViewUnchanged DEF maps, InstalledUrrs
<1>6. ASSUME NEW s \in Seids PROVE Released(s)' <=> Released(s)
  <2>1. CASE s = next_seid
    BY <1>2, <1>4, <2>1 DEF Released, Installing
  <2>2. CASE s # next_seid
    BY <1>1, <1>2, <1>3, <2>2 DEF Released, Installing, Live
  <2>3. QED BY <2>1, <2>2
<1>7. QED BY <1>1, <1>5, <1>6, ReleasedUnchanged DEF Lifecycle!vars

(* Nor is a request that is refused, though it uses up a SEID. *)
LEMMA RejectUnseen ==
    ASSUME NEW p \in Peers, EstReject(p)
    PROVE  UNCHANGED Lifecycle!vars
<1>1. UNCHANGED <<associations, sessions, maps, est, request, aborted>>
  BY DEF EstReject
<1>2. AbstractSession' = AbstractSession
  BY <1>1, ViewUnchanged DEF maps, InstalledUrrs
<1>3. ReleasedSeids' = ReleasedSeids
  BY <1>1 DEF ReleasedSeids, Live, Installing
<1>4. QED BY <1>1, <1>2, <1>3 DEF Lifecycle!vars

(* Nor are the inserts, map by map, before the session is recorded. *)
LEMMA InsertUnseen ==
    ASSUME NothingRestored, IInv, EstSession \/ EstPdrs \/ EstFars \/ EstUrrs
    PROVE  UNCHANGED Lifecycle!vars
<1>1. est # None /\ est \in Establishment /\ est.seid \in Seids /\ ~Live(est.seid)
  BY EstFacts DEF EstStep, NothingRestored
<1>2. UNCHANGED <<associations, sessions, request, aborted>>
  BY DEF EstSession, EstPdrs, EstFars, EstUrrs, server
<1>3. est' # None /\ est'.seid = est.seid
  <2>1. \A step \in {"pdr", "far", "urr", "commit"} :
          [est EXCEPT !.step = step] \in Establishment /\ [est EXCEPT !.step = step].seid = est.seid
    BY <1>1 DEF Establishment
  <2>2. QED BY <2>1, NoneAssumption DEF EstSession, EstPdrs, EstFars, EstUrrs
<1>4. \A s \in Seids : s # est.seid =>
        pdr_map'[s] = pdr_map[s] /\ far_map'[s] = far_map[s] /\ InstalledUrrs(s)' = InstalledUrrs(s)
  <2>1. CASE EstUrrs
    BY <2>1, <1>1 DEF IInv, TypeOK, EstUrrs, InstalledUrrs, UrrKeys
  <2>2. CASE EstSession \/ EstPdrs \/ EstFars
    BY <2>2, <1>1 DEF IInv, TypeOK, EstSession, EstPdrs, EstFars, InstalledUrrs
  <2>3. QED BY <2>1, <2>2
<1>5. AbstractSession' = AbstractSession
  BY <1>1, <1>2, <1>4, ViewUnchanged
<1>6. ReleasedSeids' = ReleasedSeids
  BY <1>1, <1>2, <1>3 DEF ReleasedSeids, Live, Installing
<1>7. QED BY <1>2, <1>5, <1>6 DEF Lifecycle!vars

(* Nor is a failed map insert: its leftovers stay under a SEID that is     *)
(* neither established nor released.                                       *)
LEMMA AbortUnseen ==
    ASSUME NothingRestored, IInv, EstAbort
    PROVE  UNCHANGED Lifecycle!vars
<1>1. est # None /\ est.seid \in Seids /\ ~Live(est.seid)
  BY EstFacts DEF EstStep, NothingRestored
<1>2. UNCHANGED <<associations, sessions, request>> /\ est' = None /\ aborted' = aborted \cup {est.seid}
  BY DEF EstAbort
<1>3. \A s \in Seids : s # est.seid =>
        pdr_map'[s] = pdr_map[s] /\ far_map'[s] = far_map[s] /\ InstalledUrrs(s)' = InstalledUrrs(s)
  BY <1>1 DEF IInv, TypeOK, EstAbort, InstalledUrrs, UrrKeys
<1>4. AbstractSession' = AbstractSession
  BY <1>1, <1>2, <1>3, ViewUnchanged
<1>5. \A s \in Seids : Released(s)' <=> Released(s)
  BY <1>1, <1>2 DEF Released, Live, Installing
<1>6. QED BY <1>2, <1>4, <1>5, ReleasedUnchanged DEF Lifecycle!vars

(* Nor are the clean-ups: the session has been released before.            *)
LEMMA CleanupUnseen ==
    ASSUME NothingRestored, IInv, NEW t \in Tasks, DelStep(t)
    PROVE  UNCHANGED Lifecycle!vars
<1>1. UNCHANGED <<associations, sessions, est, request, aborted>>
  BY CleanupEffect
<1>2. AbstractSession' = AbstractSession
  <2>1. \A s \in Seids : s # del[t].seid => /\ pdr_map'[s] = pdr_map[s] /\ far_map'[s] = far_map[s]
                                            /\ InstalledUrrs(s)' = InstalledUrrs(s)
    BY CleanupEffect
  <2>2. ~Live(del[t].seid)
    BY CleanupEffect DEF NothingRestored
  <2>3. QED BY <1>1, <2>1, <2>2, ViewUnchanged
<1>3. ReleasedSeids' = ReleasedSeids
  BY <1>1 DEF ReleasedSeids, Live, Installing
<1>4. QED BY <1>1, <1>2, <1>3 DEF Lifecycle!vars

(* Nor is a packet that is counted: what XDP puts into URR_MAP is no rule  *)
(* of the session.                                                         *)
LEMMA XdpUnseen ==
    ASSUME IInv, NEW c \in Cpus, (\E s \in Seids : XdpMatch(c, s)) \/ UrrCount(c)
    PROVE  UNCHANGED Lifecycle!vars
<1>1. UNCHANGED <<associations, sessions, pdr_map, far_map, est, request, aborted>>
  BY XdpEffect DEF server
<1>2. \A s \in Seids : InstalledUrrs(s)' = InstalledUrrs(s)
  BY XdpEffect
<1>3. AbstractSession' = AbstractSession
  BY <1>1, <1>2, ViewUnchanged
<1>4. ReleasedSeids' = ReleasedSeids
  BY <1>1 DEF ReleasedSeids, Live, Installing
<1>5. QED BY <1>1, <1>3, <1>4 DEF Lifecycle!vars

(* With the session recorded, it is there with all its rules at once, for  *)
(* the peer of an association that still exists.                           *)
LEMMA CommitRefines ==
    ASSUME NothingRestored, IInv, EstCommit
    PROVE  Lifecycle!Next
<1> DEFINE s0 == est.seid
<1> DEFINE n0 == est.node
<1> DEFINE new == [ue |-> Req.ue, cp |-> Req.cp, content |-> ContentOf(Req, s0)]
<1>1. /\ est # None /\ s0 \in Seids /\ n0 \in Nodes /\ Req \in Request /\ Req = request[s0] /\ Req # None
      /\ ~Live(s0) /\ s0 \notin aborted
  BY EstFacts DEF EstStep, NothingRestored
<1>2. associations[n0] # None /\ associations[n0].peer = Req.src
  BY <1>1 DEF IInv, EstContext
<1>3. /\ pdr_map[s0] = PdrsOf(Req.rules) /\ far_map[s0] = FarsOf(Req) /\ InstalledUrrs(s0) = Req.rules.urrs
  BY <1>1 DEF IInv, EstProgress, EstCommit, InStep, NothingRestored
<1>4. /\ sessions' = [sessions EXCEPT ![s0] = [ue |-> Req.ue, cp |-> Req.cp, tun |-> OwnTeid(Req.tun, s0)]]
      /\ associations' = [associations EXCEPT ![n0].sessions = @ \cup {Req.cp}]
      /\ est' = None
      /\ UNCHANGED <<pdr_map, far_map, urr_map, recreated, request, aborted>>
  BY DEF EstCommit
<1>5. TypeOK'
  BY TypeStep DEF IInv, Next, EstStep
<1>6. /\ sessions'[s0] = [ue |-> Req.ue, cp |-> Req.cp, tun |-> OwnTeid(Req.tun, s0)]
      /\ \A s \in Seids : s # s0 => sessions'[s] = sessions[s]
  BY <1>1, <1>4 DEF IInv, TypeOK
<1>7. sessions'[s0] # None
  <2>1. [ue |-> Req.ue, cp |-> Req.cp, tun |-> OwnTeid(Req.tun, s0)] \in SessionData
    BY <1>1 DEF SessionData, OwnTeid, EndPoint, Request
  <2>2. QED BY <1>6, <2>1, NoneAssumption
<1>8. AbstractSession' = [AbstractSession EXCEPT ![s0] = new]
  <2>0. \A s \in Seids : InstalledUrrs(s)' = InstalledUrrs(s)
    BY <1>4 DEF InstalledUrrs
  <2>1. AbstractSession'[s0] = new
    BY <1>1, <1>3, <1>4, <1>6, <1>7, <2>0 DEF AbstractSession, Live, ContentOf
  <2>2. \A s \in Seids : s # s0 => AbstractSession'[s] = AbstractSession[s]
    BY <1>4, <1>6, <2>0 DEF AbstractSession, Live
  <2>3. QED BY <1>1, <2>1, <2>2 DEF AbstractSession
<1>9. ~Released(s0) /\ s0 \notin ReleasedSeids
  BY <1>1 DEF Released, ReleasedSeids, Installing
<1>10. \A s \in Seids : Released(s)' <=> Released(s)
  BY <1>1, <1>4, <1>6, <1>7, <1>9 DEF Released, Live, Installing
<1>11. AbstractSession[s0] = None
  BY <1>1 DEF AbstractSession
<1>12. Lifecycle!Establish(Req, n0, s0)
  BY <1>2, <1>4, <1>8, <1>9, <1>10, <1>11, ReleasedUnchanged
     DEF Lifecycle!Establish, Lifecycle!Associated, Lifecycle!Established
<1>13. QED BY <1>1, <1>12 DEF Lifecycle!Next

(* One Update FAR is one of the changes a Modification may make.           *)
LEMMA ChangeOfContent ==
    ASSUME NEW a \in EndPoint, NEW b \in SUBSET Pdr, NEW c \in SUBSET FarValue, NEW d \in SUBSET UrrIds,
           NEW f \in FarIds, NEW tun \in Tunnels, NEW access \in BOOLEAN
    PROVE  [tun |-> IF access THEN GnbTeid(tun) ELSE a, pdrs |-> b,
            fars |-> {IF v.id = f THEN [v EXCEPT !.tun = tun] ELSE v : v \in c}, urrs |-> d]
              \in Changes([tun |-> a, pdrs |-> b, fars |-> c, urrs |-> d])
<1> DEFINE Content == [tun : EndPoint, pdrs : SUBSET Pdr, fars : SUBSET FarValue, urrs : SUBSET UrrIds]
<1> DEFINE old == [tun |-> a, pdrs |-> b, fars |-> c, urrs |-> d]
<1> DEFINE x == {IF v.id = f THEN [v EXCEPT !.tun = tun] ELSE v : v \in c}
<1> DEFINE y == IF access THEN GnbTeid(tun) ELSE a
<1> SUFFICES [tun |-> y, pdrs |-> b, fars |-> x, urrs |-> d] \in Changes(old)
  OBVIOUS
<1>1. old \in Content /\ old.fars = c /\ old.tun = a /\ old.pdrs = b /\ old.urrs = d
  OBVIOUS
<1>2. x \in SUBSET FarValue
  BY DEF FarValue
<1>3. y \in EndPoint
  BY DEF EndPoint, GnbTeid
<1> HIDE DEF old
<1>4. Change(old, f, tun, access) \in Changes(old)
  BY DEF Changes
<1>5. [old EXCEPT !.fars = x, !.tun = y] = Change(old, f, tun, access)
  <2>1. x = {IF v.id = f THEN [v EXCEPT !.tun = tun] ELSE v : v \in old.fars}
    BY <1>1
  <2>2. y = IF access THEN GnbTeid(tun) ELSE old.tun
    BY <1>1
  <2>3. [old EXCEPT !.fars = {IF v.id = f THEN [v EXCEPT !.tun = tun] ELSE v : v \in old.fars},
                    !.tun = IF access THEN GnbTeid(tun) ELSE old.tun] = Change(old, f, tun, access)
    BY Zenon DEF Change
  <2> HIDE DEF x, y
  <2>4. QED BY <2>1, <2>2, <2>3, Zenon
<1> HIDE DEF x, y
<1> DEFINE excepted == [old EXCEPT !.fars = x, !.tun = y]
<1> DEFINE new == [tun |-> y, pdrs |-> b, fars |-> x, urrs |-> d]
<1>6. /\ excepted \in Content
      /\ excepted.fars = x /\ excepted.tun = y /\ excepted.pdrs = b /\ excepted.urrs = d
  BY <1>1, <1>2, <1>3
<1>7. new \in Content /\ new.fars = x /\ new.tun = y /\ new.pdrs = b /\ new.urrs = d
  BY <1>2, <1>3
<1> HIDE DEF excepted, new
<1>8. excepted = new
  BY <1>6, <1>7
<1>9. excepted = Change(old, f, tun, access)
  BY <1>5 DEF excepted
<1>10. new \in Changes(old)
  BY <1>4, <1>8, <1>9
<1>11. QED BY <1>10 DEF new

(* A Modification is one change of the session by a peer that may touch    *)
(* it: the tunnel of one FAR, and the end point on the Access side.        *)
LEMMA ModificationRefines ==
    ASSUME IInv, NEW p \in Peers, NEW s0 \in Seids, NEW f \in FarIds, NEW tun \in Tunnels,
           NEW access \in BOOLEAN, HandleModification(p, s0, f, tun, access)
    PROVE  Lifecycle!Next
<1> DEFINE far1 == {IF v.id = f THEN [v EXCEPT !.tun = tun] ELSE v : v \in far_map[s0]}
<1> DEFINE tun1 == IF access THEN GnbTeid(tun) ELSE sessions[s0].tun
<1> DEFINE old == [tun |-> sessions[s0].tun, pdrs |-> pdr_map[s0], fars |-> far_map[s0], urrs |-> InstalledUrrs(s0)]
<1> DEFINE new == [tun |-> tun1, pdrs |-> pdr_map[s0], fars |-> far1, urrs |-> InstalledUrrs(s0)]
<1>1. PICK n \in Nodes : Owns(p, n, s0)
  BY DEF HandleModification
<1>2. /\ Live(s0) /\ sessions[s0] \in SessionData
      /\ associations[n] # None /\ associations[n].peer = p /\ sessions[s0].cp \in associations[n].sessions
  BY <1>1 DEF Owns, Live, AssociationsFrom, IInv, TypeOK
<1>3. UNCHANGED <<associations, pdr_map, urr_map, recreated, est, request, aborted>>
  BY DEF HandleModification
<1>4. far_map'[s0] = far1 /\ \A s \in Seids : s # s0 => far_map'[s] = far_map[s]
  BY DEF HandleModification, IInv, TypeOK
<1>5. /\ sessions'[s0] # None /\ sessions'[s0].ue = sessions[s0].ue /\ sessions'[s0].cp = sessions[s0].cp
      /\ sessions'[s0].tun = tun1
      /\ \A s \in Seids : s # s0 => sessions'[s] = sessions[s]
  <2>1. CASE access
    <3>1. sessions' = [sessions EXCEPT ![s0] = [sessions[s0] EXCEPT !.tun = GnbTeid(tun)]]
      BY <2>1 DEF HandleModification
    <3>2. GnbTeid(tun) \in EndPoint
      BY DEF GnbTeid, EndPoint
    <3>3. [sessions[s0] EXCEPT !.tun = GnbTeid(tun)] \in SessionData
      BY <1>2, <3>2 DEF SessionData
    <3>4. LET d == [sessions[s0] EXCEPT !.tun = GnbTeid(tun)] IN
          d.ue = sessions[s0].ue /\ d.cp = sessions[s0].cp /\ d.tun = GnbTeid(tun)
      BY <1>2 DEF SessionData
    <3>5. /\ sessions'[s0] = [sessions[s0] EXCEPT !.tun = GnbTeid(tun)]
          /\ \A s \in Seids : s # s0 => sessions'[s] = sessions[s]
      BY <3>1 DEF IInv, TypeOK
    <3>6. QED BY <2>1, <3>3, <3>4, <3>5, NoneAssumption
  <2>2. CASE ~access
    BY <1>2, <2>2 DEF HandleModification, Live
  <2>3. QED BY <2>1, <2>2
<1>6. /\ AbstractSession[s0] = [ue |-> sessions[s0].ue, cp |-> sessions[s0].cp, content |-> old]
      /\ AbstractSession[s0] # None
  BY <1>2, ViewOfLive DEF IInv
<1>7. new \in Changes(old)
  <2>1. /\ sessions[s0].tun \in EndPoint /\ pdr_map[s0] \in SUBSET Pdr
        /\ far_map[s0] \in SUBSET FarValue /\ InstalledUrrs(s0) \in SUBSET UrrIds
    BY <1>2 DEF SessionData, IInv, TypeOK, InstalledUrrs
  <2>2. QED BY <2>1, ChangeOfContent, Zenon
<1>8. AbstractSession'[s0] = [ue |-> sessions[s0].ue, cp |-> sessions[s0].cp, content |-> new]
  BY <1>3, <1>4, <1>5 DEF AbstractSession, Live, InstalledUrrs
<1>9. \A s \in Seids : s # s0 => AbstractSession'[s] = AbstractSession[s]
  BY <1>3, <1>4, <1>5 DEF AbstractSession, Live, InstalledUrrs
<1>10. AbstractSession' = [AbstractSession EXCEPT ![s0].content = new]
  <2> DEFINE Content == [tun : EndPoint, pdrs : SUBSET Pdr, fars : SUBSET FarValue, urrs : SUBSET UrrIds]
  <2>a. tun1 \in EndPoint /\ far1 \in SUBSET FarValue
    BY <1>2 DEF EndPoint, GnbTeid, SessionData, FarValue, IInv, TypeOK
  <2>b. new \in Content /\ old \in Content
    <3> HIDE DEF tun1, far1
    <3>1. QED BY <1>2, <2>a DEF SessionData, IInv, TypeOK, InstalledUrrs
  <2>1. [AbstractSession[s0] EXCEPT !.content = new]
          = [ue |-> sessions[s0].ue, cp |-> sessions[s0].cp, content |-> new]
    <3> DEFINE view == AbstractSession[s0]
    <3> HIDE DEF new, old
    <3>1. /\ view \in [ue : Ues, cp : CpSeids, content : Content]
          /\ view.ue = sessions[s0].ue /\ view.cp = sessions[s0].cp
      <4> HIDE DEF Content
      <4>1. QED BY <1>2, <1>6, <2>b DEF SessionData
    <3> HIDE DEF view, Content
    <3>2. [view EXCEPT !.content = new] = [ue |-> view.ue, cp |-> view.cp, content |-> new]
      BY <2>b, <3>1
    <3>3. QED BY <3>1, <3>2 DEF view
  <2>2. AbstractSession' = [AbstractSession EXCEPT ![s0] = [AbstractSession[s0] EXCEPT !.content = new]]
    BY <1>8, <1>9, <2>1 DEF AbstractSession
  <2>3. QED BY <2>2
<1>11. new \in Changes(AbstractSession[s0].content)
  <2>1. AbstractSession[s0].content = old
    BY <1>6
  <2>2. QED BY <1>7, <2>1
<1>12. ReleasedSeids' = ReleasedSeids
  <2>1. \A s \in Seids : Live(s)' <=> Live(s)
    BY <1>2, <1>5 DEF Live
  <2>2. QED BY <1>3, <2>1 DEF ReleasedSeids, Installing
<1>13. Lifecycle!Modify(p, n, s0)
  <2>1. Lifecycle!MayTouch(p, n, s0)
    BY <1>2, <1>6 DEF Lifecycle!MayTouch, Lifecycle!Associated, Lifecycle!Established
  <2>2. QED BY <1>3, <1>10, <1>11, <1>12, <2>1 DEF Lifecycle!Modify
<1>14. QED BY <1>13 DEF Lifecycle!Next

(* A Deletion releases the SEID under the mutex, by a peer that may touch  *)
(* the session.                                                            *)
LEMMA DelLockedRefines ==
    ASSUME NothingRestored, IInv, NEW t \in Tasks, NEW p \in Peers, NEW s0 \in Seids, DelLocked(t, p, s0)
    PROVE  Lifecycle!Next
<1>1. PICK n \in Nodes : /\ Owns(p, n, s0)
                         /\ associations' = [associations EXCEPT ![n].sessions = @ \ {sessions[s0].cp}]
  BY DEF DelLocked
<1>2. /\ Live(s0) /\ associations[n] # None /\ associations[n].peer = p
      /\ sessions[s0].cp \in associations[n].sessions
  BY <1>1 DEF Owns, AssociationsFrom
<1>3. est = None /\ est' = None /\ UNCHANGED <<maps, request, aborted>>
  BY DEF DelLocked, ServerUnlocked
<1>4. sessions'[s0] = None /\ \A s \in Seids : s # s0 => sessions'[s] = sessions[s]
  BY DEF DelLocked, IInv, TypeOK
<1>5. request[s0] # None /\ s0 \notin aborted
  BY <1>2 DEF IInv, LiveAsRequested, NothingRestored
<1>6. AbstractSession' = [AbstractSession EXCEPT ![s0] = None]
  <2>1. AbstractSession'[s0] = None
    BY <1>4 DEF AbstractSession, Live
  <2>2. \A s \in Seids : s # s0 => AbstractSession'[s] = AbstractSession[s]
    BY <1>3, <1>4 DEF AbstractSession, Live, maps, InstalledUrrs
  <2>3. QED BY <2>1, <2>2 DEF AbstractSession
<1>7. ReleasedSeids' = ReleasedSeids \cup {s0}
  BY <1>3, <1>4, <1>5 DEF ReleasedSeids, Live, Installing
<1>8. AbstractSession[s0] # None /\ AbstractSession[s0].cp = sessions[s0].cp
  <2>1. AbstractSession[s0] = [ue |-> sessions[s0].ue, cp |-> sessions[s0].cp,
                               content |-> [tun |-> sessions[s0].tun, pdrs |-> pdr_map[s0],
                                            fars |-> far_map[s0], urrs |-> InstalledUrrs(s0)]]
    BY <1>2, ViewOfLive DEF IInv
  <2>2. AbstractSession[s0] # None
    BY <1>2, ViewOfLive DEF IInv
  <2> DEFINE c == [tun |-> sessions[s0].tun, pdrs |-> pdr_map[s0], fars |-> far_map[s0], urrs |-> InstalledUrrs(s0)]
  <2> HIDE DEF c
  <2>3. AbstractSession[s0] = [ue |-> sessions[s0].ue, cp |-> sessions[s0].cp, content |-> c]
    BY <2>1 DEF c
  <2>4. QED BY <2>2, <2>3
<1>9. Lifecycle!Release(p, n, s0)
  BY <1>1, <1>2, <1>6, <1>7, <1>8
     DEF Lifecycle!Release, Lifecycle!MayTouch, Lifecycle!Associated, Lifecycle!Established
<1>10. QED BY <1>9 DEF Lifecycle!Next

(* Every step of the handlers is a step of the life cycle or none.         *)
LEMMA StepRefines ==
    ASSUME NothingRestored
    PROVE  IInv /\ [Next]_vars => [Lifecycle!Next]_Lifecycle!vars
<1> SUFFICES ASSUME IInv, [Next]_vars PROVE [Lifecycle!Next]_Lifecycle!vars
  OBVIOUS
<1>1. CASE UNCHANGED vars
  <2>1. UNCHANGED Lifecycle!vars
    BY <1>1 DEF vars, Lifecycle!vars, AbstractSession, ReleasedSeids, InstalledUrrs, Live, Installing
  <2>2. QED BY <2>1
<1>2. CASE Next
  BY <1>2, AssociationRefines, BeginUnseen, RejectUnseen, InsertUnseen, AbortUnseen, CommitRefines,
     ModificationRefines, DelLockedRefines, CleanupUnseen, XdpUnseen DEF Next, EstStep
<1>3. QED BY <1>1, <1>2

-----------------------------------------------------------------------------
(* The handlers of handle_msg.rs implement the atomic life cycle: although *)
(* Establishment writes map by map and may fail half way, and Deletion     *)
(* cleans up without the mutex, sessions appear whole, change and end only *)
(* by requests of a peer that may touch them, and never return.  The UPF   *)
(* is one to which Redis gave no session at its start.                     *)
THEOREM LifecycleImplemented ==
    ASSUME NothingRestored
    PROVE  Spec => ImplementsLifecycle
<1>1. QED
  BY InitRefines, StepRefines, Invariance, PTL DEF Spec, ImplementsLifecycle, Lifecycle!Spec

-----------------------------------------------------------------------------
(* What a step may do to one SEID: see SeidsNeverReused. *)
SeidKept(s) ==
    /\ request[s] # None => request'[s] = request[s]
    /\ ~Live(s) /\ ~Installing(s) =>
         /\ sessions'[s] = None
         /\ pdr_map'[s] \subseteq pdr_map[s]
         /\ {v.id : v \in far_map'[s]} \subseteq {v.id : v \in far_map[s]}
         /\ \A u \in urr_map'[s] \ urr_map[s] : \E c \in Cpus : xdp[c] = <<s, u>>

(* An Establishment writes under a SEID that is its own and new, a         *)
(* Modification under that of an established session; a clean-up only      *)
(* takes away, and XDP writes only for a packet in flight.                 *)
LEMMA SeidStep ==
    ASSUME IInv, Next, NEW s \in Unrestored
    PROVE  SeidKept(s)
<1> s \in Seids
  BY UnrestoredSeids
<1>1. ASSUME NEW p \in Peers, NEW ts \in Timestamps, HandleAssociation(p, ts) \/ HandleHeartbeat(p, ts)
      PROVE  SeidKept(s)
  BY <1>1 DEF HandleAssociation, HandleHeartbeat, maps, SeidKept, Live
<1>2. ASSUME NEW p \in Peers, NEW q \in Request, EstBegin(p, q)
      PROVE  SeidKept(s)
  <2>1. /\ next_seid \in Seids /\ request[next_seid] = None
        /\ \A s1 \in Seids : s1 # next_seid => request'[s1] = request[s1]
    BY <1>2 DEF EstBegin, IInv, TypeOK, FreshSeids
  <2>2. QED BY <1>2, <2>1 DEF EstBegin, maps, SeidKept, Live
<1>3. ASSUME NEW p \in Peers, EstReject(p)
      PROVE  SeidKept(s)
  BY <1>3 DEF EstReject, maps, SeidKept, Live
<1>4. ASSUME EstStep
      PROVE  SeidKept(s)
  <2>1. est # None /\ est.seid \in Seids /\ request' = request
    BY <1>4, EstFacts DEF EstStep, EstSession, EstPdrs, EstFars, EstUrrs, EstAbort, EstCommit
  <2>2. CASE s = est.seid
    BY <2>1, <2>2 DEF SeidKept, Installing
  <2>3. CASE s # est.seid
    <3>1. pdr_map'[s] = pdr_map[s] /\ far_map'[s] = far_map[s] /\ urr_map'[s] = urr_map[s]
      BY <1>4, <2>1, <2>3 DEF IInv, TypeOK, EstStep, EstSession, EstPdrs, EstFars, EstUrrs, EstAbort, EstCommit
    <3>2. sessions'[s] = sessions[s]
      BY <1>4, <2>1, <2>3
         DEF IInv, TypeOK, EstStep, EstSession, EstPdrs, EstFars, EstUrrs, EstAbort, EstCommit, server
    <3>3. QED BY <2>1, <3>1, <3>2 DEF SeidKept, Live
  <2>4. QED BY <2>2, <2>3
<1>5. ASSUME NEW p \in Peers, NEW s0 \in Seids, NEW f \in FarIds, NEW tun \in Tunnels, NEW access \in BOOLEAN,
             HandleModification(p, s0, f, tun, access)
      PROVE  SeidKept(s)
  <2>1. Live(s0) /\ UNCHANGED <<pdr_map, urr_map, request>>
    BY <1>5 DEF HandleModification, Owns
  <2>2. \A s1 \in Seids : s1 # s0 => far_map'[s1] = far_map[s1] /\ sessions'[s1] = sessions[s1]
    BY <1>5 DEF HandleModification, IInv, TypeOK
  <2>3. QED BY <2>1, <2>2 DEF SeidKept, Live
<1>6. ASSUME NEW t \in Tasks, NEW p \in Peers, NEW s0 \in Seids, DelLocked(t, p, s0)
      PROVE  SeidKept(s)
  <2>1. UNCHANGED <<pdr_map, far_map, urr_map, request>> /\ (sessions[s] = None => sessions'[s] = None)
    BY <1>6 DEF DelLocked, maps, IInv, TypeOK
  <2>2. QED BY <2>1 DEF SeidKept, Live
<1>7. ASSUME NEW t \in Tasks, DelStep(t)
      PROVE  SeidKept(s)
  <2>1. /\ UNCHANGED <<sessions, request>>
        /\ pdr_map'[s] \subseteq pdr_map[s] /\ far_map'[s] \subseteq far_map[s] /\ urr_map'[s] \subseteq urr_map[s]
    <3>1. LET s0 == del[t].seid IN
          /\ UNCHANGED <<sessions, request>>
          /\ \A s1 \in Seids : s1 # s0 => /\ pdr_map'[s1] = pdr_map[s1] /\ far_map'[s1] = far_map[s1]
                                          /\ urr_map'[s1] = urr_map[s1]
          /\ pdr_map'[s0] \subseteq pdr_map[s0] /\ far_map'[s0] \subseteq far_map[s0]
          /\ urr_map'[s0] \subseteq urr_map[s0]
      BY <1>7, CleanupEffect
    <3>2. QED BY <3>1
  <2>2. QED BY <2>1 DEF SeidKept, Live
<1>8. ASSUME NEW c0 \in Cpus, (\E s1 \in Seids : XdpMatch(c0, s1)) \/ UrrCount(c0)
      PROVE  SeidKept(s)
  <2>1. /\ UNCHANGED <<server, pdr_map, far_map, request>>
        /\ \A u \in urr_map'[s] \ urr_map[s] : \E c \in Cpus : xdp[c] = <<s, u>>
    BY <1>8, XdpEffect
  <2>2. QED BY <2>1 DEF SeidKept, Live, server
<1>9. QED BY <1>1, <1>2, <1>3, <1>4, <1>5, <1>6, <1>7, <1>8 DEF Next

(* In one life a SEID is allocated for one request only, and nothing is    *)
(* written under it once its session is gone, although handlers and        *)
(* clean-ups of many tasks interleave (next_seid only grows, and every map *)
(* key holds the SEID); the exception is a URR entry that XDP inserts for  *)
(* a packet that has matched before.                                       *)
THEOREM SeidsUsedOnce == Spec => SeidsNeverReused
<1>1. IInv /\ [Next]_vars => [\A s \in Unrestored : SeidKept(s)]_vars
  BY SeidStep
<1>2. IInv /\ [Next]_vars =>
        [\A s \in Unrestored :
            /\ request[s] # None => request'[s] = request[s]
            /\ ~Live(s) /\ ~Installing(s) =>
                 /\ sessions'[s] = None
                 /\ pdr_map'[s] \subseteq pdr_map[s]
                 /\ {v.id : v \in far_map'[s]} \subseteq {v.id : v \in far_map[s]}
                 /\ \A u \in urr_map'[s] \ urr_map[s] : \E c \in Cpus : xdp[c] = <<s, u>>]_vars
  BY <1>1 DEF SeidKept
<1>3. QED BY <1>2, Invariance, PTL DEF Spec, SeidsNeverReused
=============================================================================
