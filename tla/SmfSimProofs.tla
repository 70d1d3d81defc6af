---------------------------- MODULE SmfSimProofs ----------------------------
(***************************************************************************)
(* What holds of smf-sim and its UPF for any number of retries, datagrams, *)
(* commands, sessions and restarts.                                        *)
(***************************************************************************)
EXTENDS SmfSim, TLAPS

(* Each mode has its own tasks, and each task its own states. *)
TasksOfMode ==
    /\ mode = "run" =>
         /\ pc["user"] \in {"associate", "establish", "modify", "delete", "passed", "failed"}
         /\ pc["keepalive"] \in {"idle", "reassociate"} /\ pc["cmd"] = "off"
    /\ mode = "interactive" =>
         /\ pc["user"] \in {"connect", "ready"}
         /\ pc["keepalive"] \in {"idle", "reassociate"} /\ pc["cmd"] = "ready"
    /\ mode = "send" =>
         /\ pc["user"] \in {"shell", "command", "reports"}
         /\ pc["keepalive"] = "off" /\ pc["cmd"] = "off"

(* How far the scenario has come: the numbers it has used, and the session *)
(* it has (one, under the CP-SEID it allocated first).                     *)
ScenarioProgress ==
    mode = "run" =>
        LET u == pc["user"]
            sending == IF call["user"] = None THEN 0 ELSE 1 IN
        /\ u = "associate" => next_seq <= MaxTries + 1 /\ next_cp = 1
        /\ u = "establish" => /\ next_seq <= MaxTries + 1 + sending /\ next_cp = 1 + sending
                              /\ call["user"] # None => call["user"].kind = "establishment"
        /\ u = "modify" => next_seq <= MaxTries + 2 + sending
        /\ u = "delete" => /\ next_seq <= MaxTries + 3 + sending
                           /\ call["user"] # None => call["user"].kind = "deletion"
        /\ u \in {"modify", "delete"} => sessions[1] # None
        /\ \A c \in Cps : sessions[c] # None => c = 1

(* A request for a session has a CP-SEID; those of the scenario carry the  *)
(* one Recovery Time Stamp and the one CP-SEID the scenario has.           *)
WellFormed(r) ==
    /\ r.kind = "establishment" => r.cp \in Cps
    /\ mode = "run" =>
         /\ r.kind \in {"heartbeat", "association"} => r.ts = recovery_ts
         /\ r.kind = "establishment" => r.cp = 1 /\ next_cp = 2
         /\ r.kind = "deletion" => pc["user"] \in {"delete", "passed", "failed"}
RequestsWellFormed ==
    /\ \A r \in to_upf : WellFormed(r)
    /\ \A t \in Tasks : call[t] # None => WellFormed(call[t])

(* The SEIDs that were handed out, each with the life of the UPF it        *)
(* belongs to.                                                             *)
HandedOut(s, e) == s \in Seids /\ e \in Nat /\ e <= epoch /\ (e = epoch => s < next_seid)
ResponsesHandedOut ==
    /\ \A m \in to_smf : m.kind = "establishment" => HandedOut(m.seid, m.epoch)
    /\ \A c \in Cps : sessions[c] # None => HandedOut(sessions[c].seid, sessions[c].epoch)

TInv == TypeOK /\ TasksOfMode /\ ScenarioProgress /\ RequestsWellFormed /\ ResponsesHandedOut

-----------------------------------------------------------------------------
(* An answer is taken once, and no two answers hand out the same SEID. *)
AnswersApart ==
    \A m, n \in to_smf : m.kind = "establishment" /\ n.kind = "establishment"
                         /\ m.seid = n.seid /\ m.epoch = n.epoch => m = n
AnswersNew ==
    \A m \in to_smf, c \in Cps :
        m.kind = "establishment" /\ sessions[c] # None
            => m.seid # sessions[c].seid \/ m.epoch # sessions[c].epoch

NInv == AnswersApart /\ AnswersNew /\ DistinctUpfSeids

-----------------------------------------------------------------------------
(* The UPF as the scenario sees it before it deletes: all sessions of this *)
(* life of the UPF are its own to touch, and the one it knows or will hear *)
(* of is among them.                                                       *)
BeforeDeletion == pc["user"] \in {"associate", "establish", "modify"}
OneTimestamp == assoc[Smf] # None => assoc[Smf].ts = recovery_ts
OneCp == \A s \in Seids : Current(s) => session[s].cp = 1
AllTouchable ==
    \A s \in Seids : Current(s) => assoc[Smf] # None /\ 1 \in assoc[Smf].sessions
KnownEstablished ==
    /\ \A m \in to_smf : m.kind = "establishment" /\ m.epoch = epoch => session[m.seid] # None
    /\ \A c \in Cps : sessions[c] # None /\ sessions[c].epoch = epoch => session[sessions[c].seid] # None

RInv == mode = "run" => /\ OneTimestamp /\ OneCp
                        /\ BeforeDeletion => AllTouchable /\ KnownEstablished

-----------------------------------------------------------------------------
(* The one Establishment Request of a scenario that was not sent again: it *)
(* is under way, or answered, or was lost; what the UPF has established is *)
(* the session it was answered with, and nothing once a Deletion was.      *)
Clean == \A s \in Seids : ~Current(s)
RequestUnderWay ==
    \A r \in to_upf : r.kind = "establishment" =>
        /\ pc["user"] = "establish" /\ Clean
        /\ \A q \in to_upf : q.kind = "establishment" => q = r
        /\ \A m \in to_smf : m.kind # "establishment"
        /\ \A c \in Cps : sessions[c] = None
OneSession ==
    \A s \in Seids : Current(s) =>
        /\ \A r \in Seids : Current(r) => r = s
        /\ \A m \in to_smf : m.kind = "establishment" => m.seid = s /\ m.epoch = epoch
        /\ \A c \in Cps : sessions[c] # None => sessions[c].seid = s /\ sessions[c].epoch = epoch
NothingBefore ==
    next_cp = 1 => /\ Clean /\ \A m \in to_smf : m.kind # "establishment"
                   /\ \A c \in Cps : sessions[c] = None
DeletedClean ==
    /\ \A m \in to_smf : m.kind = "deletion" => Clean /\ pc["user"] \in {"delete", "passed"}
    /\ pc["user"] = "passed" => Clean
(* A Deletion is meant for that session, and not for one of an earlier     *)
(* life that Redis gave back.                                              *)
Meant(r) == r.kind = "deletion" => \A s \in Seids : Current(s) => r.seid = s
DeletionsMeant == /\ \A r \in to_upf : Meant(r)
                  /\ \A t \in Tasks : call[t] # None => Meant(call[t])
LeakFree == RequestUnderWay /\ OneSession /\ NothingBefore /\ DeletedClean /\ DeletionsMeant
LInv == mode = "run" /\ 1 \notin resent /\ pc["user"] # "failed" => LeakFree

IInv == TInv /\ NInv /\ RInv /\ LInv

-----------------------------------------------------------------------------
(* Messages.                                                               *)

(* The bounds of the mode, and that numbers are numbers. *)
LEMMA BoundFacts ==
    ASSUME mode \in Modes
    PROVE  /\ mode \in {"run", "interactive", "send"}
           /\ MaxRetries[mode] \in Nat /\ MaxKaSeq[mode] \in Nat /\ MaxUpfRequests[mode] \in Nat
           /\ MaxEpoch[mode] \in Nat \ {0} /\ MaxTs[mode] \in Nat \ {0}
           /\ MaxSeid \in Nat /\ PoolSize \in Nat \ {0} /\ Capacity \in Nat
           /\ MaxTries \in Nat /\ MaxCommands \in Nat
BY BoundsAssumption

(* Sequence numbers: those of the process, of the keepalive, and 99. *)
LEMMA SeqFacts ==
    ASSUME mode \in Modes
    PROVE  /\ Seqs \subseteq Nat /\ 99 \in Seqs
           /\ \A n \in 0..MaxTries + MaxCommands + 3 : n \in Seqs
           /\ \A n \in 0..MaxKaSeq[mode] : KaSeq(n) \in Seqs
BY BoundFacts DEF Seqs, MaxSeq, KaSeq

(* Zero, the Recovery Time Stamp and the SEIDs fit the fields of a         *)
(* request.                                                                *)
LEMMA NumberFacts ==
    ASSUME TypeOK
    PROVE  /\ 0 \in 0..PoolSize /\ 0 \in 0..MaxSeid /\ recovery_ts \in 0..MaxTs[mode] /\ 0 \in 0..MaxTs[mode]
           /\ Cps \subseteq 0..PoolSize /\ 1 \in Cps /\ Seids \subseteq 0..MaxSeid
           /\ next_seq \in Nat /\ next_cp \in Nat
<1>1. mode \in Modes /\ recovery_ts \in 1..MaxTs[mode]
  BY DEF TypeOK
<1>2. 0 \in 0..PoolSize /\ 0 \in 0..MaxSeid /\ recovery_ts \in 0..MaxTs[mode] /\ 0 \in 0..MaxTs[mode]
  BY <1>1, BoundFacts
<1>3. Cps \subseteq 0..PoolSize /\ 1 \in Cps /\ Seids \subseteq 0..MaxSeid
  BY <1>1, BoundFacts DEF Cps, Seids
<1>4. next_seq \in Nat /\ next_cp \in Nat
  BY <1>1, BoundFacts DEF TypeOK, MaxSeq
<1>5. QED BY <1>2, <1>3, <1>4

(* The mode does not change, nor do the sets of messages. *)
LEMMA SetsStay ==
    ASSUME mode' = mode
    PROVE  Requests' = Requests /\ Responses' = Responses /\ UpfRequests' = UpfRequests
BY DEF Requests, Responses, UpfRequests, Seqs

(* The fields of a request, which is never None. *)
LEMMA RequestFacts ==
    ASSUME mode \in Modes, NEW r \in Requests
    PROVE  /\ r.kind \in Kinds /\ r.seq \in Seqs /\ r.ts \in 0..MaxTs[mode] /\ r.cp \in 0..PoolSize
           /\ r.seid \in 0..MaxSeid /\ r.attempt \in 0..MaxRetries[mode]
           /\ r # None
<1>1. /\ r.kind \in Kinds /\ r.seq \in Seqs /\ r.ts \in 0..MaxTs[mode] /\ r.cp \in 0..PoolSize
      /\ r.seid \in 0..MaxSeid /\ r.attempt \in 0..MaxRetries[mode]
  BY DEF Requests
<1>2. Seqs \subseteq Nat /\ 0..MaxTs[mode] \subseteq Nat /\ 0..PoolSize \subseteq Nat
      /\ 0..MaxSeid \subseteq Nat /\ 0..MaxRetries[mode] \subseteq Nat
  BY SeqFacts, BoundFacts
<1>3. r \in [kind : Kinds, seq : Nat, ts : Nat, cp : Nat, seid : Nat, attempt : Nat]
  BY <1>2 DEF Requests
<1>4. QED BY <1>1, <1>3, NoneAssumption

(* The datagram of a request: only an Establishment keeps count. *)
LEMMA DatagramFacts ==
    ASSUME mode \in Modes, NEW r \in Requests
    PROVE  /\ Datagram(r) \in Requests
           /\ Datagram(r).kind = r.kind /\ Datagram(r).seq = r.seq /\ Datagram(r).ts = r.ts
           /\ Datagram(r).cp = r.cp /\ Datagram(r).seid = r.seid
           /\ r.attempt = 0 => Datagram(r).attempt = 0
<1>1. 0 \in 0..MaxRetries[mode]
  BY BoundFacts
<1>2. QED BY <1>1 DEF Datagram, Requests

(* A new request is well typed and has not been sent before. *)
LEMMA NewRequest ==
    ASSUME mode \in Modes, NEW kind \in Kinds, NEW seq \in Seqs, NEW ts \in 0..MaxTs[mode],
           NEW cp \in 0..PoolSize, NEW seid \in 0..MaxSeid
    PROVE  LET r == Request(kind, seq, ts, cp, seid) IN
           /\ r \in Requests
           /\ r.kind = kind /\ r.seq = seq /\ r.ts = ts /\ r.cp = cp /\ r.seid = seid /\ r.attempt = 0
<1>1. 0 \in 0..MaxRetries[mode]
  BY BoundFacts
<1>2. QED BY <1>1 DEF Request, Requests

(* A task that sends a request is in a call. *)
LEMMA RequestIsSome ==
    ASSUME NEW kind \in Kinds, NEW seq \in Nat, NEW cp \in Nat, NEW seid \in Nat
    PROVE  Request(kind, seq, 0, cp, seid) # None
<1>1. Request(kind, seq, 0, cp, seid) \in [kind : Kinds, seq : Nat, ts : Nat, cp : Nat, seid : Nat, attempt : Nat]
  BY DEF Request
<1>2. QED BY <1>1, NoneAssumption

(* send_and_recv sends a request ... *)
LEMMA SendFacts ==
    ASSUME TypeOK, NEW t \in Tasks, NEW r \in Requests, Send(t, r)
    PROVE  /\ Running /\ call[t] = None
           /\ call' \in [Tasks -> Requests \cup {None}] /\ call'[t] = r
           /\ \A u \in Tasks : u # t => call'[u] = call[u]
           /\ to_upf' \subseteq to_upf \cup {Datagram(r)} /\ to_upf' \subseteq Requests
<1>1. Datagram(r) \in Requests
  BY DatagramFacts DEF TypeOK
<1>2. QED BY <1>1 DEF Send, With, TypeOK

(* ... and returns with an answer of the same kind. *)
LEMMA ReturnsFacts ==
    ASSUME TypeOK, NEW t \in Tasks, NEW m \in to_smf, Returns(t, m)
    PROVE  /\ Running /\ call[t] \in Requests /\ call[t] # None
           /\ m \in Responses /\ m.kind = call[t].kind
           /\ m.seid \in 0..MaxSeid /\ m.epoch \in 1..MaxEpoch[mode]
           /\ call' \in [Tasks -> Requests \cup {None}] /\ call'[t] = None
           /\ \A u \in Tasks : u # t => call'[u] = call[u]
           /\ to_smf' = to_smf \ {m}
<1>1. call[t] \in Requests /\ call[t] # None /\ m.kind = call[t].kind
  BY DEF Returns, TypeOK
<1>2. m.kind \in Kinds
  BY <1>1, RequestFacts DEF TypeOK
<1>3. m \in Responses
  BY <1>2 DEF TypeOK, UpfRequests, Kinds
<1>4. m.seid \in 0..MaxSeid /\ m.epoch \in 1..MaxEpoch[mode]
  BY <1>3 DEF Responses
<1>5. QED BY <1>1, <1>3, <1>4 DEF Returns, TypeOK

(* The UPF answers. *)
LEMMA AnswerFacts ==
    ASSUME TypeOK, NEW r \in to_upf, NEW s \in 0..MaxSeid, Answer(r, s)
    PROVE  /\ r \in Requests
           /\ to_upf' \subseteq to_upf
           /\ \A m \in to_smf' : m \in to_smf \/ (m.kind = r.kind /\ m.seq = r.seq /\ m.seid = s /\ m.epoch = epoch)
           /\ to_smf' \subseteq Responses \cup UpfRequests
<1> DEFINE a == [kind |-> r.kind, seq |-> r.seq, seid |-> s, epoch |-> epoch]
<1>1. r \in Requests /\ r.kind \in Kinds /\ r.seq \in Seqs
  BY RequestFacts DEF TypeOK
<1>2. a \in Responses
  BY <1>1 DEF Responses, TypeOK
<1>3. a.kind = r.kind /\ a.seq = r.seq /\ a.seid = s /\ a.epoch = epoch
  OBVIOUS
<1>4. to_upf' \subseteq to_upf /\ to_smf' \subseteq to_smf \cup {a}
  BY DEF Answer, With
<1> HIDE DEF a
<1>5. QED BY <1>1, <1>2, <1>3, <1>4 DEF TypeOK

-----------------------------------------------------------------------------
(* The types. *)

(* smf-sim and the UPF start with empty tables and no message under way. *)
LEMMA InitTInv == Init => TInv
<1> SUFFICES ASSUME Init PROVE TInv
  OBVIOUS
<1>1. mode \in Modes /\ mode \in {"run", "interactive", "send"} /\ 0 \in Nat /\ 1 \in 1..PoolSize + 1
  BY BoundFacts DEF Init
<1>2. /\ assoc = [n \in {Smf} |-> None] /\ session = [s \in Seids |-> None] /\ released = {}
      /\ saved = [s \in Seids |-> {}]
  BY DEF Init, Upf!Init
<1>3. TypeOK
  BY <1>1, <1>2, BoundFacts DEF Init, TypeOK, Tasks, MaxSeq
<1>4. TasksOfMode /\ ScenarioProgress
  BY <1>1, BoundFacts DEF Init, TasksOfMode, ScenarioProgress, Tasks
<1>5. RequestsWellFormed /\ ResponsesHandedOut
  BY DEF Init, RequestsWellFormed, ResponsesHandedOut
<1>6. QED BY <1>3, <1>4, <1>5 DEF TInv

(* The keepalive's steps keep the types (keepalive::run). *)
LEMMA TypeKeepalive == ASSUME TInv, KeepaliveStep PROVE TypeOK' /\ mode' = mode
<1> USE DEF TInv
<1>1. mode \in Modes /\ mode' = mode /\ "keepalive" \in Tasks
  BY DEF TypeOK, KeepaliveStep, KaHeartbeat, KaReassociate, KaAnswered, KaReassociated, Tasks
<1>2. 0 \in 0..PoolSize /\ 0 \in 0..MaxSeid /\ recovery_ts \in 0..MaxTs[mode]
  BY <1>1, BoundFacts DEF TypeOK
<1>3. ka_seq < MaxKaSeq[mode] => KaSeq(ka_seq) \in Seqs /\ ka_seq + 1 \in 0..MaxKaSeq[mode]
  BY <1>1, BoundFacts, SeqFacts DEF TypeOK
<1>4. ASSUME NEW kind \in Kinds, KaHeartbeat \/ KaReassociate,
             Send("keepalive", Request(kind, KaSeq(ka_seq), recovery_ts, 0, 0))
      PROVE  TypeOK'
  <2>1. ka_seq < MaxKaSeq[mode]
    BY <1>4 DEF KaHeartbeat, KaReassociate
  <2>2. Request(kind, KaSeq(ka_seq), recovery_ts, 0, 0) \in Requests
    BY <1>1, <1>2, <1>3, <2>1, NewRequest
  <2>3. call' \in [Tasks -> Requests \cup {None}] /\ to_upf' \subseteq Requests
    BY <1>1, <1>4, <2>2, SendFacts
  <2>4. QED BY <1>1, <1>3, <1>4, <2>1, <2>3, SetsStay DEF TypeOK, KaHeartbeat, KaReassociate, upf
<1>5. ASSUME NEW m \in to_smf, KaAnswered(m) \/ KaReassociated(m) PROVE TypeOK'
  <2>1. /\ m.epoch \in 0..MaxEpoch[mode]
        /\ call' \in [Tasks -> Requests \cup {None}] /\ to_smf' = to_smf \ {m}
    BY <1>1, <1>5, ReturnsFacts, BoundFacts DEF KaAnswered, KaReassociated
  <2>2. QED BY <1>1, <1>5, <2>1, SetsStay DEF TypeOK, KaAnswered, KaReassociated, upf
<1>6. QED BY <1>1, <1>4, <1>5 DEF KeepaliveStep, KaHeartbeat, KaReassociate, Kinds

(* The scenario modifies and deletes the one session it has. *)
LEMMA MySeidFacts ==
    ASSUME TypeOK, ScenarioProgress, mode = "run", pc["user"] \in {"modify", "delete"}
    PROVE  /\ sessions[1] \in SimSession /\ sessions[1] # None
           /\ MySeid = sessions[1].seid /\ MySeid \in Seids /\ MySeid \in 0..MaxSeid /\ MySeid \in Nat
<1>1. 1 \in Cps /\ Seids \subseteq 0..MaxSeid
  BY NumberFacts
<1>2. sessions[1] # None /\ \A c \in Cps : sessions[c] # None => c = 1
  BY DEF ScenarioProgress
<1>3. PICK c \in Cps : sessions[c] # None /\ MySeid = sessions[c].seid
  BY <1>1, <1>2 DEF MySeid
<1>4. sessions[1] \in SimSession /\ MySeid = sessions[1].seid /\ MySeid \in Seids
  BY <1>1, <1>2, <1>3 DEF TypeOK, SimSession
<1>5. MySeid \in 0..MaxSeid /\ MySeid \in Nat
  BY <1>1, <1>4, BoundsAssumption
<1>6. QED BY <1>2, <1>4, <1>5

(* The scenario's steps keep the types (basic_lifecycle::run). *)
LEMMA TypeScenario == ASSUME TInv, ScenarioStep PROVE TypeOK' /\ mode' = mode
<1> USE DEF TInv
<1>1. mode \in Modes /\ mode' = mode /\ "user" \in Tasks
  BY DEF TypeOK, ScenarioStep, ScenarioAssociate, ScenarioEstablish, ScenarioModify, ScenarioDelete,
         ScenarioAssociated, ScenarioEstablished, ScenarioModified, ScenarioDeleted, Tasks
<1>2. /\ 0 \in 0..PoolSize /\ 0 \in 0..MaxSeid /\ recovery_ts \in 0..MaxTs[mode] /\ 0 \in 0..MaxTs[mode]
      /\ Cps \subseteq 0..PoolSize /\ 1 \in Cps /\ Seids \subseteq 0..MaxSeid
      /\ next_seq \in Nat /\ next_cp \in Nat
  BY NumberFacts
<1>3. ASSUME NEW kind \in Kinds, NEW ts \in 0..MaxTs[mode], NEW cp \in 0..PoolSize, NEW seid \in 0..MaxSeid,
             next_seq <= MaxTries + 3,
             Send("user", Request(kind, next_seq, ts, cp, seid))
      PROVE  /\ call' \in [Tasks -> Requests \cup {None}] /\ to_upf' \subseteq Requests
             /\ next_seq + 1 \in 1..MaxSeq + 1
  <2>1. next_seq \in Seqs
    BY <1>1, <1>2, <1>3, SeqFacts, BoundFacts
  <2>2. Request(kind, next_seq, ts, cp, seid) \in Requests
    BY <1>1, <1>3, <2>1, NewRequest
  <2>3. QED BY <1>1, <1>2, <1>3, <2>2, SendFacts, BoundFacts DEF MaxSeq
<1>4. ASSUME ScenarioAssociate PROVE TypeOK'
  <2>1. next_seq <= MaxTries + 3 /\ Send("user", Request("association", next_seq, recovery_ts, 0, 0))
    BY <1>1, <1>2, <1>4, BoundFacts DEF ScenarioAssociate
  <2>2. QED BY <1>1, <1>2, <1>3, <1>4, <2>1, SetsStay DEF TypeOK, ScenarioAssociate, upf, Kinds
<1>5. mode = "run" \/ pc["user"] \notin {"associate", "establish", "modify", "delete"}
  BY <1>1, BoundFacts DEF TasksOfMode
<1>6. ASSUME ScenarioEstablish PROVE TypeOK'
  <2>1. /\ Send("user", Request("establishment", next_seq, 0, next_cp, 0))
        /\ call["user"] = None /\ next_cp \in Cps
    BY <1>6 DEF ScenarioEstablish, Send
  <2>2. next_seq <= MaxTries + 3
    BY <1>1, <1>2, <1>5, <1>6, <2>1, BoundFacts DEF ScenarioEstablish, ScenarioProgress
  <2>3. next_cp + 1 \in 1..PoolSize + 1
    BY <1>2, <2>1, BoundFacts, <1>1 DEF Cps
  <2>4. QED BY <1>1, <1>2, <1>3, <1>6, <2>1, <2>2, <2>3, SetsStay DEF TypeOK, ScenarioEstablish, upf, Kinds
<1>7. pc["user"] \in {"modify", "delete"} => MySeid \in 0..MaxSeid
  BY <1>5, MySeidFacts
<1>8. ASSUME NEW kind \in {"modification", "deletion"}, ScenarioModify \/ ScenarioDelete,
             Send("user", Request(kind, next_seq, 0, 0, MySeid))
      PROVE  TypeOK'
  <2>1. pc["user"] \in {"modify", "delete"} /\ call["user"] = None
    BY <1>8 DEF ScenarioModify, ScenarioDelete, Send
  <2>2. next_seq <= MaxTries + 3
    BY <1>1, <1>2, <1>5, <2>1, BoundFacts DEF ScenarioProgress
  <2>3. kind \in Kinds
    BY DEF Kinds
  <2>4. QED BY <1>1, <1>2, <1>3, <1>7, <1>8, <2>1, <2>2, <2>3, SetsStay
            DEF TypeOK, ScenarioModify, ScenarioDelete, upf
<1>9. ASSUME NEW m \in to_smf, Returns("user", m)
      PROVE  call' \in [Tasks -> Requests \cup {None}] /\ to_smf' = to_smf \ {m}
  BY <1>1, <1>9, ReturnsFacts
<1>10. ASSUME NEW m \in to_smf, ScenarioAssociated(m) \/ ScenarioModified(m) PROVE TypeOK'
  BY <1>1, <1>9, <1>10, SetsStay DEF TypeOK, ScenarioAssociated, ScenarioModified, upf
<1>11. ASSUME NEW m \in to_smf, ScenarioEstablished(m) PROVE TypeOK'
  <2>1. /\ m.kind = "establishment" /\ Returns("user", m) /\ pc["user"] = "establish"
        /\ m.epoch \in Nat /\ m.epoch \in 1..MaxEpoch[mode]
    BY <1>1, <1>5, <1>11, ReturnsFacts, BoundFacts DEF ScenarioEstablished, ScenarioProgress
  <2>2. [seid |-> m.seid, epoch |-> m.epoch] \in SimSession
    BY <2>1 DEF ResponsesHandedOut, HandedOut, SimSession
  <2>3. sessions' \in [Cps -> SimSession \cup {None}]
    BY <1>11, <2>2 DEF ScenarioEstablished, TypeOK
  <2>4. \A c \in Cps : sessions'[c] # None => sessions'[c].epoch \in 1..MaxEpoch[mode]
    BY <1>11, <2>1 DEF ScenarioEstablished, TypeOK
  <2>5. QED BY <1>1, <1>9, <1>11, <2>1, <2>3, <2>4, SetsStay DEF TypeOK, ScenarioEstablished, upf
<1>12. ASSUME NEW m \in to_smf, ScenarioDeleted(m) PROVE TypeOK'
  BY <1>1, <1>9, <1>12, SetsStay DEF TypeOK, ScenarioDeleted, upf
<1>13. QED
  BY <1>1, <1>4, <1>6, <1>8, <1>10, <1>11, <1>12 DEF ScenarioStep, ScenarioModify, ScenarioDelete

(* The menu's steps keep the types (tui/runner.rs). *)
LEMMA TypeMenu == ASSUME TInv, MenuStep PROVE TypeOK' /\ mode' = mode
<1> USE DEF TInv
<1>1. mode \in Modes /\ mode' = mode /\ "user" \in Tasks
  BY DEF TypeOK, MenuStep, Connect, Connected, AddSession, AddRefused, MenuHeartbeat, DelSession,
         Added, Deleted, MenuHeartbeatAnswered, Tasks
<1>2. /\ 0 \in 0..PoolSize /\ 0 \in 0..MaxSeid /\ recovery_ts \in 0..MaxTs[mode] /\ 0 \in 0..MaxTs[mode]
      /\ Cps \subseteq 0..PoolSize /\ Seids \subseteq 0..MaxSeid
      /\ next_seq \in Nat /\ next_cp \in Nat
  BY NumberFacts
<1>3. ASSUME NEW t \in Tasks, NEW kind \in Kinds, NEW ts \in 0..MaxTs[mode], NEW cp \in 0..PoolSize,
             NEW seid \in 0..MaxSeid, next_seq <= MaxCommands,
             Send(t, Request(kind, next_seq, ts, cp, seid))
      PROVE  /\ call' \in [Tasks -> Requests \cup {None}] /\ to_upf' \subseteq Requests
             /\ next_seq + 1 \in 1..MaxSeq + 1
  <2>1. next_seq \in Seqs
    BY <1>1, <1>2, <1>3, SeqFacts, BoundFacts
  <2>2. Request(kind, next_seq, ts, cp, seid) \in Requests
    BY <1>1, <1>3, <2>1, NewRequest
  <2>3. QED BY <1>1, <1>2, <1>3, <2>2, SendFacts, BoundFacts DEF MaxSeq
<1>4. ASSUME Connect PROVE TypeOK'
  <2>1. 1 \in Seqs
    BY <1>1, SeqFacts, BoundFacts
  <2>2. Request("association", 1, recovery_ts, 0, 0) \in Requests
    BY <1>1, <1>2, <2>1, NewRequest DEF Kinds
  <2>3. QED BY <1>1, <1>4, <2>2, SendFacts, SetsStay DEF TypeOK, Connect, upf
<1>5. ASSUME NEW m \in to_smf, Connected(m) PROVE TypeOK'
  BY <1>1, <1>5, ReturnsFacts, SetsStay DEF TypeOK, Connected, upf
<1>6. ASSUME NEW t \in Tasks, AddSession(t) PROVE TypeOK'
  <2>1. next_cp + 1 \in 1..PoolSize + 1
    BY <1>1, <1>2, <1>6, BoundFacts DEF Cps, AddSession
  <2>2. /\ call' \in [Tasks -> Requests \cup {None}] /\ to_upf' \subseteq Requests
        /\ next_seq + 1 \in 1..MaxSeq + 1
    BY <1>2, <1>3, <1>6 DEF AddSession, Kinds
  <2>3. QED BY <1>1, <1>6, <2>1, <2>2, SetsStay DEF TypeOK, AddSession, upf
<1>7. ASSUME NEW t \in Tasks, AddRefused(t) PROVE TypeOK'
  <2>1. next_seq + 1 \in 1..MaxSeq + 1
    BY <1>1, <1>2, <1>7, BoundFacts DEF MaxSeq, AddRefused
  <2>2. QED BY <1>1, <1>7, <2>1, SetsStay DEF TypeOK, AddRefused, upf
<1>8. ASSUME NEW t \in Tasks, MenuHeartbeat(t) PROVE TypeOK'
  <2>1. clock + 1 \in 0..MaxTs[mode] /\ clock + 1 \in recovery_ts..MaxTs[mode]
    BY <1>1, <1>8, BoundFacts DEF TypeOK, MenuHeartbeat
  <2>2. /\ call' \in [Tasks -> Requests \cup {None}] /\ to_upf' \subseteq Requests
        /\ next_seq + 1 \in 1..MaxSeq + 1
    BY <1>2, <1>3, <1>8, <2>1 DEF MenuHeartbeat, Kinds
  <2>3. QED BY <1>1, <1>8, <2>1, <2>2, SetsStay DEF TypeOK, MenuHeartbeat, upf
<1>9. ASSUME NEW t \in Tasks, NEW c \in Cps, DelSession(t, c) PROVE TypeOK'
  <2>1. sessions[c].seid \in 0..MaxSeid
    BY <1>2, <1>9 DEF TypeOK, DelSession, SimSession
  <2>2. /\ call' \in [Tasks -> Requests \cup {None}] /\ to_upf' \subseteq Requests
        /\ next_seq + 1 \in 1..MaxSeq + 1
    BY <1>2, <1>3, <1>9, <2>1 DEF DelSession, Kinds
  <2>3. QED BY <1>1, <1>9, <2>2, SetsStay DEF TypeOK, DelSession, upf
<1>10. ASSUME NEW t \in Tasks, NEW m \in to_smf, Added(t, m) PROVE TypeOK'
  <2>1. /\ call' \in [Tasks -> Requests \cup {None}] /\ to_smf' = to_smf \ {m}
        /\ m.epoch \in Nat /\ m.epoch \in 1..MaxEpoch[mode] /\ m.kind = "establishment"
    BY <1>1, <1>10, ReturnsFacts, BoundFacts DEF Added
  <2>2. [seid |-> m.seid, epoch |-> m.epoch] \in SimSession
    BY <2>1 DEF ResponsesHandedOut, HandedOut, SimSession
  <2>3. sessions' \in [Cps -> SimSession \cup {None}]
    BY <1>10, <2>2 DEF Added, TypeOK
  <2>4. \A c \in Cps : sessions'[c] # None => sessions'[c].epoch \in 1..MaxEpoch[mode]
    BY <1>10, <2>1 DEF Added, TypeOK
  <2>5. QED BY <1>1, <1>10, <2>1, <2>3, <2>4, SetsStay DEF TypeOK, Added, upf
<1>11. ASSUME NEW t \in Tasks, NEW m \in to_smf, Deleted(t, m) \/ MenuHeartbeatAnswered(t, m) PROVE TypeOK'
  <2>1. call' \in [Tasks -> Requests \cup {None}] /\ to_smf' = to_smf \ {m}
    BY <1>1, <1>11, ReturnsFacts DEF Deleted, MenuHeartbeatAnswered
  <2>2. sessions' \in [Cps -> SimSession \cup {None}]
    BY <1>11 DEF Deleted, MenuHeartbeatAnswered, TypeOK
  <2>3. QED BY <1>1, <1>11, <2>1, <2>2, SetsStay DEF TypeOK, Deleted, MenuHeartbeatAnswered, upf
<1>12. QED BY <1>1, <1>4, <1>5, <1>6, <1>7, <1>8, <1>9, <1>10, <1>11 DEF MenuStep

(* The single-message commands keep the types (main.rs). *)
LEMMA TypeCommand == ASSUME TInv, CommandStep PROVE TypeOK' /\ mode' = mode
<1> USE DEF TInv
<1>1. mode \in Modes /\ mode' = mode /\ "user" \in Tasks
  BY DEF TypeOK, CommandStep, send_heartbeat, send_association_setup, send_session_establishment,
         send_session_modification, send_session_deletion, Command, CommandAnswered, HandleReport,
         ReportsDone, Tasks, smf
<1>2. /\ 0 \in 0..PoolSize /\ 1 \in 0..PoolSize /\ 0 \in 0..MaxSeid /\ 0 \in 0..MaxTs[mode]
      /\ Seids \subseteq 0..MaxSeid
      /\ 1 \in Seqs /\ 2 \in Seqs /\ 3 \in Seqs /\ 99 \in Seqs
  BY <1>1, BoundFacts, SeqFacts DEF Seids
<1>3. ASSUME NEW kind \in Kinds, NEW seq \in Seqs, NEW ts \in 0..MaxTs[mode], NEW cp \in 0..PoolSize,
             NEW seid \in 0..MaxSeid, Command(Request(kind, seq, ts, cp, seid))
      PROVE  TypeOK'
  <2>1. Request(kind, seq, ts, cp, seid) \in Requests
    BY <1>1, NewRequest
  <2>2. call' \in [Tasks -> Requests \cup {None}] /\ to_upf' \subseteq Requests
    BY <1>1, <1>3, <2>1, SendFacts DEF Command
  <2>3. clock + 1 \in 1..MaxTs[mode] /\ clock + 1 \in clock + 1..MaxTs[mode]
    BY <1>1, <1>3, BoundFacts DEF TypeOK, Command
  <2>4. QED BY <1>1, <1>3, <2>2, <2>3, SetsStay DEF TypeOK, Command, upf
<1>4. clock < MaxTs[mode] => clock + 1 \in 0..MaxTs[mode]
  BY <1>1, BoundFacts DEF TypeOK
<1>5. ASSUME send_heartbeat \/ send_association_setup PROVE TypeOK'
  <2>1. clock + 1 \in 0..MaxTs[mode]
    BY <1>4, <1>5 DEF send_heartbeat, send_association_setup, Command
  <2>2. QED BY <1>2, <1>3, <1>5, <2>1 DEF send_heartbeat, send_association_setup, Kinds
<1>6. ASSUME send_session_establishment PROVE TypeOK'
  BY <1>2, <1>3, <1>6 DEF send_session_establishment, Kinds
<1>7. ASSUME NEW s \in Seids, send_session_modification(s) \/ send_session_deletion(s) PROVE TypeOK'
  BY <1>2, <1>3, <1>7 DEF send_session_modification, send_session_deletion, Kinds
<1>8. ASSUME NEW m \in to_smf, CommandAnswered(m) PROVE TypeOK'
  <2>1. call' \in [Tasks -> Requests \cup {None}] /\ to_smf' = to_smf \ {m}
    BY <1>1, <1>8, ReturnsFacts DEF CommandAnswered
  <2>2. PICK p \in {"reports", "shell"} : pc' = [pc EXCEPT !["user"] = p]
    BY <1>8 DEF CommandAnswered
  <2>3. QED BY <1>1, <1>8, <2>1, <2>2, SetsStay DEF TypeOK, CommandAnswered, upf
<1>9. ASSUME NEW m \in to_smf, HandleReport(m) PROVE TypeOK'
  BY <1>1, <1>9, SetsStay DEF TypeOK, HandleReport, smf, upf
<1>10. ASSUME ReportsDone PROVE TypeOK'
  BY <1>1, <1>10, SetsStay DEF TypeOK, ReportsDone, upf
<1>11. QED BY <1>1, <1>5, <1>6, <1>7, <1>8, <1>9, <1>10 DEF CommandStep

(* What a caller does when its retries are used up. *)
AfterError(p) ==
    CASE p \in {"establish", "modify", "delete"} -> "failed"
      [] p = "idle" -> "reassociate"
      [] p = "reassociate" -> "idle"
      [] p = "command" -> "shell"
      [] OTHER -> p

(* Where each task goes on after an error. *)
LEMMA AfterErrorFacts ==
    /\ \A p \in {"establish", "modify", "delete"} : AfterError(p) = "failed"
    /\ AfterError("idle") = "reassociate" /\ AfterError("reassociate") = "idle"
    /\ AfterError("command") = "shell"
    /\ \A p : p \notin {"establish", "modify", "delete", "idle", "reassociate", "command"} => AfterError(p) = p
BY DEF AfterError

(* The transport's own steps keep the types (transport.rs). *)
LEMMA TypeTransport ==
    ASSUME TInv, NEW t \in Tasks, Swallow(t) \/ Resend(t) \/ GiveUp(t)
    PROVE  TypeOK' /\ mode' = mode
<1> USE DEF TInv
<1>1. mode \in Modes /\ mode' = mode
  BY DEF TypeOK, Swallow, Resend, GiveUp, smf
<1>2. CASE Swallow(t)
  BY <1>1, <1>2, SetsStay DEF TypeOK, Swallow, smf, upf
<1>3. CASE Resend(t)
  <2> DEFINE again == [call[t] EXCEPT !.attempt = @ + 1]
  <2>1. call[t] \in Requests /\ call[t].attempt < MaxRetries[mode]
    BY <1>3 DEF Resend, TypeOK
  <2>2. again \in Requests /\ again.kind = call[t].kind /\ again.cp = call[t].cp
    BY <1>1, <2>1, BoundFacts DEF Requests
  <2>3. Datagram(again) \in Requests
    BY <1>1, <2>2, DatagramFacts
  <2>4. call' = [call EXCEPT ![t] = again] /\ to_upf' \subseteq to_upf \cup {Datagram(again)}
    BY <1>3 DEF Resend, With
  <2>5. resent' \subseteq Cps
    BY <1>3, <2>1, <2>2 DEF Resend, TypeOK, RequestsWellFormed, WellFormed
  <2> HIDE DEF again
  <2>6. QED BY <1>1, <1>3, <2>2, <2>3, <2>4, <2>5, SetsStay DEF TypeOK, Resend, upf
<1>4. CASE GiveUp(t)
  <2>1. pc' = [pc EXCEPT ![t] = AfterError(pc[t])]
    BY <1>4 DEF GiveUp, AfterError
  <2>2. AfterError(pc[t]) \in {"off", "idle", "reassociate", "associate", "establish", "modify", "delete",
                         "passed", "failed", "connect", "ready", "shell", "command", "reports"}
    BY AfterErrorFacts DEF TypeOK
  <2>3. call' \in [Tasks -> Requests \cup {None}]
    BY <1>4 DEF GiveUp, TypeOK
  <2>4. pc' \in [Tasks -> {"off", "idle", "reassociate", "associate", "establish", "modify", "delete",
                         "passed", "failed", "connect", "ready", "shell", "command", "reports"}]
    BY <2>1, <2>2 DEF TypeOK
  <2>5. /\ UNCHANGED <<mode, next_seq, next_cp, sessions, recovery_ts, clock, ka_seq, upf_ts, resent>>
        /\ UNCHANGED <<to_upf, to_smf, assoc, session, released, next_seid, epoch, upf_seq, saved>>
    BY <1>4 DEF GiveUp, upf
  <2>6. QED BY <1>1, <2>3, <2>4, <2>5, SetsStay DEF TypeOK
<1>5. QED BY <1>1, <1>2, <1>3, <1>4

(* What each request does to the UPF's associations and sessions.          *)
LEMMA UpfHeartbeatEffect ==
    ASSUME TypeOK, NEW r \in to_upf, UpfHeartbeat(r)
    PROVE  /\ assoc' \in [{Smf} -> Association \cup {None}] /\ UNCHANGED <<session, released>>
           /\ \/ assoc' = assoc
              \/ assoc[Smf] # None /\ assoc[Smf].ts # r.ts /\ assoc'[Smf] # None
           /\ \E s \in 0..MaxSeid : Answer(r, s)
           /\ UNCHANGED <<next_seid, epoch>>
<1>1. r \in Requests /\ r.ts \in Nat /\ mode \in Modes
  BY RequestFacts, BoundFacts DEF TypeOK
<1>2. assoc[Smf] \in Association \cup {None} /\ {} \in SUBSET Cps /\ Smf \in {Smf}
  BY DEF TypeOK
<1>3. Answer(r, 0) /\ 0 \in 0..MaxSeid
  BY <1>1, BoundFacts DEF UpfHeartbeat
<1>4. CASE UNCHANGED lifecycle
  BY <1>3, <1>4 DEF TypeOK, lifecycle, UpfHeartbeat
<1>5. CASE /\ Upf!Associated(Smf, Smf) /\ assoc[Smf].ts # r.ts
           /\ Upf!PeerRestarted(Smf, Smf, r.ts)
  <2> DEFINE a == [assoc[Smf] EXCEPT !.sessions = {}, !.ts = r.ts]
  <2>1. assoc[Smf] # None /\ assoc[Smf] \in Association
    BY <1>2, <1>5 DEF Upf!Associated
  <2>2. a \in Association
    BY <1>1, <2>1 DEF Association
  <2>3. a # None
    BY <2>2, NoneAssumption
  <2>4. assoc' = [assoc EXCEPT ![Smf] = a] /\ UNCHANGED <<session, released>>
    BY <1>5 DEF Upf!PeerRestarted
  <2> HIDE DEF a
  <2>5. assoc' \in [{Smf} -> Association \cup {None}] /\ assoc'[Smf] = a
    BY <2>2, <2>4 DEF TypeOK
  <2>6. QED BY <1>3, <1>5, <2>1, <2>3, <2>4, <2>5 DEF UpfHeartbeat
<1>6. QED BY <1>4, <1>5 DEF UpfHeartbeat

(* An Association Setup changes at most the association, and only if its   *)
(* Recovery Time Stamp differs. The sessions stay                          *)
(* (handle_association_setup).                                             *)
LEMMA UpfAssociationEffect ==
    ASSUME TypeOK, NEW r \in to_upf, UpfAssociation(r)
    PROVE  /\ assoc' \in [{Smf} -> Association \cup {None}] /\ UNCHANGED <<session, released>>
           /\ \/ assoc' = assoc
              \/ /\ assoc[Smf] # None => assoc[Smf].ts # r.ts
                 /\ assoc'[Smf] # None /\ assoc'[Smf].ts = r.ts
           /\ \E s \in 0..MaxSeid : Answer(r, s)
           /\ UNCHANGED <<next_seid, epoch>>
<1>1. r \in Requests /\ r.ts \in Nat /\ mode \in Modes
  BY RequestFacts, BoundFacts DEF TypeOK
<1>2. Answer(r, 0) /\ 0 \in 0..MaxSeid
  BY <1>1, BoundFacts DEF UpfAssociation
<1>3. CASE UNCHANGED lifecycle
  BY <1>2, <1>3 DEF TypeOK, lifecycle, UpfAssociation
<1>4. CASE Upf!Associate(Smf, r.ts)
  <2> DEFINE a == [peer |-> Smf, ts |-> r.ts, sessions |-> {}]
  <2>1. a \in Association /\ a.ts = r.ts
    BY <1>1 DEF Association
  <2>2. a # None
    BY <2>1, NoneAssumption
  <2>3. /\ assoc' = [assoc EXCEPT ![Smf] = a] /\ UNCHANGED <<session, released>>
        /\ assoc[Smf] # None => assoc[Smf].ts # r.ts
    BY <1>4 DEF Upf!Associate
  <2> HIDE DEF a
  <2>4. assoc' \in [{Smf} -> Association \cup {None}] /\ assoc'[Smf] = a
    BY <2>1, <2>3 DEF TypeOK
  <2>5. QED BY <1>2, <2>1, <2>2, <2>3, <2>4 DEF UpfAssociation
<1>5. QED BY <1>3, <1>4 DEF UpfAssociation

(* An Establishment adds one session, under the next SEID and the CP-SEID  *)
(* of the request, and answers with that SEID.                             *)
LEMMA UpfEstablishmentEffect ==
    ASSUME TypeOK, RequestsWellFormed, NEW r \in to_upf, UpfEstablishment(r)
    PROVE  /\ r.kind = "establishment" /\ next_seid \in Seids /\ Answer(r, next_seid)
           /\ assoc' \in [{Smf} -> Association \cup {None}] /\ released' = released
           /\ assoc[Smf] # None /\ assoc'[Smf] # None /\ assoc'[Smf].ts = assoc[Smf].ts
           /\ assoc'[Smf].sessions = assoc[Smf].sessions \cup {r.cp}
           /\ session' \in [Seids -> UpfSession \cup {None}]
           /\ session'[next_seid] # None /\ session'[next_seid].cp = r.cp
           /\ \A s \in Seids : s # next_seid => session'[s] = session[s]
           /\ next_seid' = next_seid + 1 /\ epoch' = epoch
           /\ saved' \in [Seids -> SUBSET Cps]
<1> DEFINE x == [ue |-> r.cp, cp |-> r.cp, content |-> "established"]
           a == [assoc[Smf] EXCEPT !.sessions = @ \cup {r.cp}]
<1>1. /\ r.kind = "establishment" /\ next_seid \in Seids /\ Answer(r, next_seid) /\ r.cp \in Cps
      /\ next_seid' = next_seid + 1 /\ epoch' = epoch
  BY DEF UpfEstablishment, RequestsWellFormed, WellFormed
<1>2. saved' \in [Seids -> SUBSET Cps]
  BY <1>1 DEF UpfEstablishment, TypeOK
<1>3. /\ assoc[Smf] # None /\ assoc' = [assoc EXCEPT ![Smf].sessions = @ \cup {r.cp}]
      /\ session' = [session EXCEPT ![next_seid] = x] /\ released' = released
  BY DEF UpfEstablishment, Upf!Associated, ContentOf
<1>4. x \in UpfSession /\ x.cp = r.cp
  BY <1>1 DEF UpfSession
<1>5. x # None
  BY <1>4, NoneAssumption
<1>6. assoc[Smf] \in Association
  BY <1>3 DEF TypeOK
<1>7. a \in Association /\ a.ts = assoc[Smf].ts /\ a.sessions = assoc[Smf].sessions \cup {r.cp}
  BY <1>1, <1>6 DEF Association
<1>8. a # None
  BY <1>7, NoneAssumption
<1>9. assoc' = [assoc EXCEPT ![Smf] = a]
  BY <1>3
<1> HIDE DEF a, x
<1>10. assoc' \in [{Smf} -> Association \cup {None}] /\ assoc'[Smf] = a
  BY <1>7, <1>9 DEF TypeOK
<1>11. /\ session' \in [Seids -> UpfSession \cup {None}] /\ session'[next_seid] = x
       /\ \A s \in Seids : s # next_seid => session'[s] = session[s]
  BY <1>1, <1>3, <1>4 DEF TypeOK
<1>12. QED BY <1>1, <1>2, <1>3, <1>4, <1>5, <1>7, <1>8, <1>10, <1>11

(* A Modification neither adds nor removes a session nor changes its CP-   *)
(* SEID.                                                                   *)
LEMMA UpfModificationEffect ==
    ASSUME TypeOK, NEW r \in to_upf, UpfModification(r)
    PROVE  /\ r.kind = "modification" /\ UNCHANGED <<assoc, released, next_seid, epoch>>
           /\ \E s \in 0..MaxSeid : Answer(r, s)
           /\ session' \in [Seids -> UpfSession \cup {None}]
           /\ \A s \in Seids : /\ session'[s] # None <=> session[s] # None
                               /\ session[s] # None => session'[s].cp = session[s].cp
<1> DEFINE x == [session[r.seid] EXCEPT !.content = session[r.seid].content]
<1>1. /\ r.kind = "modification" /\ r.seid \in Seids /\ Answer(r, 0) /\ Upf!Modify(Smf, Smf, r.seid)
      /\ UNCHANGED <<next_seid, epoch>>
  BY DEF UpfModification
<1>2. /\ session[r.seid] # None /\ UNCHANGED <<assoc, released>>
      /\ session' = [session EXCEPT ![r.seid].content = session[r.seid].content]
  BY <1>1 DEF Upf!Modify, Upf!MayTouch, Upf!Established, Changes
<1>3. session[r.seid] \in UpfSession
  BY <1>1, <1>2 DEF TypeOK
<1>4. x \in UpfSession /\ x.cp = session[r.seid].cp
  BY <1>3 DEF UpfSession
<1>5. x # None
  BY <1>4, NoneAssumption
<1>6. session' = [session EXCEPT ![r.seid] = x]
  BY <1>2
<1> HIDE DEF x
<1>7. session' \in [Seids -> UpfSession \cup {None}]
  BY <1>4, <1>6 DEF TypeOK
<1>8. \A s \in Seids : session'[s] = IF s = r.seid THEN x ELSE session[s]
  BY <1>1, <1>6 DEF TypeOK
<1>9. 0 \in 0..MaxSeid
  BY BoundFacts DEF TypeOK
<1>10. QED BY <1>1, <1>2, <1>4, <1>5, <1>7, <1>8, <1>9

(* A Deletion removes the session it names and no other. *)
LEMMA UpfDeletionEffect ==
    ASSUME TypeOK, NEW r \in to_upf, UpfDeletion(r)
    PROVE  /\ r.kind = "deletion" /\ r.seid \in Seids /\ session[r.seid] # None
           /\ \E s \in 0..MaxSeid : Answer(r, s)
           /\ assoc' \in [{Smf} -> Association \cup {None}] /\ released' \subseteq Seids
           /\ assoc[Smf] # None /\ assoc'[Smf] # None /\ assoc'[Smf].ts = assoc[Smf].ts
           /\ session' \in [Seids -> UpfSession \cup {None}]
           /\ session'[r.seid] = None /\ \A s \in Seids : s # r.seid => session'[s] = session[s]
           /\ UNCHANGED <<next_seid, epoch>>
<1> DEFINE a == [assoc[Smf] EXCEPT !.sessions = @ \ {session[r.seid].cp}]
<1>1. /\ r.kind = "deletion" /\ r.seid \in Seids /\ Answer(r, 0) /\ Upf!Release(Smf, Smf, r.seid)
      /\ UNCHANGED <<next_seid, epoch>>
  BY DEF UpfDeletion
<1>2. /\ assoc[Smf] # None /\ session[r.seid] # None /\ session' = [session EXCEPT ![r.seid] = None]
      /\ released' = released \cup {r.seid}
      /\ assoc' = [assoc EXCEPT ![Smf].sessions = @ \ {session[r.seid].cp}]
  BY <1>1 DEF Upf!Release, Upf!MayTouch, Upf!Associated, Upf!Established
<1>3. assoc[Smf] \in Association
  BY <1>2 DEF TypeOK
<1>4. a \in Association /\ a.ts = assoc[Smf].ts
  BY <1>3 DEF Association
<1>5. a # None
  BY <1>4, NoneAssumption
<1>6. assoc' = [assoc EXCEPT ![Smf] = a]
  BY <1>2
<1> HIDE DEF a
<1>7. assoc' \in [{Smf} -> Association \cup {None}] /\ assoc'[Smf] = a
  BY <1>4, <1>6 DEF TypeOK
<1>8. /\ session' \in [Seids -> UpfSession \cup {None}] /\ released' \subseteq Seids
      /\ session'[r.seid] = None /\ \A s \in Seids : s # r.seid => session'[s] = session[s]
  BY <1>1, <1>2 DEF TypeOK
<1>9. 0 \in 0..MaxSeid
  BY BoundFacts DEF TypeOK
<1>10. QED BY <1>1, <1>2, <1>4, <1>5, <1>7, <1>8, <1>9

(* The UPF's steps keep the types. *)
LEMMA TypeUpf == ASSUME TInv, UpfStep PROVE TypeOK' /\ mode' = mode
<1> USE DEF TInv
<1>1. mode \in Modes /\ UNCHANGED smf
  BY DEF TypeOK, UpfStep, UpfHeartbeat, UpfAssociation, UpfEstablishment, UpfModification, UpfDeletion,
         UpfRefuse, UpfSends, UpfRestart
<1>2. /\ UNCHANGED <<mode, pc, call, next_seq, next_cp, sessions, recovery_ts, clock, ka_seq, upf_ts, resent>>
      /\ mode' = mode
  BY <1>1 DEF smf
<1>3. ASSUME to_upf' \subseteq Requests, to_smf' \subseteq Responses \cup UpfRequests,
             assoc' \in [{Smf} -> Association \cup {None}], released' \subseteq Seids,
             session' \in [Seids -> UpfSession \cup {None}], saved' \in [Seids -> SUBSET Cps],
             next_seid' \in 1..MaxSeid + 1, epoch' \in 1..MaxEpoch[mode], upf_seq' \in 0..MaxUpfRequests[mode]
      PROVE  TypeOK'
  BY <1>2, <1>3, SetsStay DEF TypeOK
<1>4. ASSUME NEW r \in to_upf, NEW s \in 0..MaxSeid, Answer(r, s)
      PROVE  to_upf' \subseteq Requests /\ to_smf' \subseteq Responses \cup UpfRequests
  BY <1>4, AnswerFacts DEF TypeOK
<1>5. ASSUME NEW r \in to_upf, UpfHeartbeat(r) PROVE TypeOK'
  <2>1. upf_seq' = upf_seq /\ saved' = saved
    BY <1>5 DEF UpfHeartbeat
  <2>2. QED BY <1>3, <1>4, <1>5, <2>1, UpfHeartbeatEffect DEF TypeOK
<1>6. ASSUME NEW r \in to_upf, UpfAssociation(r) PROVE TypeOK'
  <2>1. upf_seq' = upf_seq /\ saved' = saved
    BY <1>6 DEF UpfAssociation
  <2>2. QED BY <1>3, <1>4, <1>6, <2>1, UpfAssociationEffect DEF TypeOK
<1>7. ASSUME NEW r \in to_upf, UpfEstablishment(r) PROVE TypeOK'
  <2>1. upf_seq' = upf_seq
    BY <1>7 DEF UpfEstablishment
  <2>2. /\ next_seid \in 0..MaxSeid /\ Answer(r, next_seid) /\ released' = released
        /\ next_seid' \in 1..MaxSeid + 1 /\ epoch' = epoch
    BY <1>1, <1>7, UpfEstablishmentEffect, BoundFacts DEF Seids
  <2>3. QED BY <1>3, <1>4, <1>7, <2>1, <2>2, UpfEstablishmentEffect DEF TypeOK
<1>8. ASSUME NEW r \in to_upf, UpfModification(r) PROVE TypeOK'
  <2>1. upf_seq' = upf_seq /\ saved' = saved
    BY <1>8 DEF UpfModification
  <2>2. QED BY <1>3, <1>4, <1>8, <2>1, UpfModificationEffect DEF TypeOK
<1>9. ASSUME NEW r \in to_upf, UpfDeletion(r) PROVE TypeOK'
  <2>1. upf_seq' = upf_seq /\ saved' = saved
    BY <1>9 DEF UpfDeletion
  <2>2. QED BY <1>3, <1>4, <1>9, <2>1, UpfDeletionEffect DEF TypeOK
<1>10. ASSUME NEW r \in to_upf, UpfRefuse(r) PROVE TypeOK'
  BY <1>3, <1>10 DEF UpfRefuse, TypeOK, upf
<1>11. ASSUME NEW kind \in {"upf_heartbeat", "report"}, UpfSends(kind) PROVE TypeOK'
  <2>1. upf_seq \in 0..MaxUpfRequests[mode] /\ upf_seq' \in 0..MaxUpfRequests[mode]
    BY <1>1, <1>11, BoundFacts DEF TypeOK, UpfSends
  <2>2. [kind |-> kind, seq |-> upf_seq] \in UpfRequests
    BY <2>1 DEF UpfRequests
  <2>3. to_smf' \subseteq Responses \cup UpfRequests
    BY <1>11, <2>2 DEF UpfSends, With, TypeOK
  <2>4. QED BY <1>3, <1>11, <2>1, <2>3 DEF UpfSends, TypeOK, lifecycle
<1>12. ASSUME UpfRestart PROVE TypeOK'
  <2>1. epoch' \in 1..MaxEpoch[mode] /\ next_seid' \in 1..MaxSeid + 1
    BY <1>1, <1>12, BoundFacts DEF TypeOK, UpfRestart
  <2>2. QED BY <1>3, <1>12, <2>1 DEF UpfRestart, TypeOK
<1>13. QED BY <1>2, <1>5, <1>6, <1>7, <1>8, <1>9, <1>10, <1>11, <1>12 DEF UpfStep

(* Every step keeps the types and the mode. *)
LEMMA TypeStep == ASSUME TInv, Next PROVE TypeOK' /\ mode' = mode
BY TypeKeepalive, TypeScenario, TypeMenu, TypeCommand, TypeTransport, TypeUpf DEF Next

-----------------------------------------------------------------------------
(* Steps of the two sides.                                                 *)

(* The state of a task tells the mode. *)
LEMMA ModeFacts ==
    ASSUME TInv
    PROVE  /\ mode \in {"run", "interactive", "send"}
           /\ pc["keepalive"] \in {"idle", "reassociate"} => mode \in {"run", "interactive"}
           /\ pc["user"] \in {"associate", "establish", "modify", "delete", "passed", "failed"} => mode = "run"
           /\ pc["user"] \in {"shell", "command", "reports"} => mode = "send"
           /\ pc["user"] = "connect" => mode = "interactive"
           /\ \A t \in Tasks : pc[t] = "ready" => mode = "interactive" /\ t # "keepalive"
           /\ \A t \in Tasks : pc[t] \in {"establish", "modify", "delete", "associate"} => t = "user"
BY BoundFacts DEF TInv, TypeOK, TasksOfMode, Tasks

(* While the scenario runs there is no menu and no command line. *)
LEMMA RunOnly == ASSUME TInv, mode = "run" PROVE ~MenuStep /\ ~CommandStep
<1>1. ~MenuStep
  BY ModeFacts DEF MenuStep, Connect, Connected, AddSession, AddRefused, MenuHeartbeat, DelSession,
     Added, Deleted, MenuHeartbeatAnswered
<1>2. ~CommandStep
  BY ModeFacts DEF CommandStep, send_heartbeat, send_association_setup, send_session_establishment,
     send_session_modification, send_session_deletion, Command, CommandAnswered, HandleReport, ReportsDone
<1>3. QED BY <1>1, <1>2

(* What is left are these steps. *)
LEMMA RunSteps ==
    ASSUME TInv, mode = "run", Next
    PROVE  KeepaliveStep \/ ScenarioStep \/ (\E t \in Tasks : Swallow(t) \/ Resend(t) \/ GiveUp(t)) \/ UpfStep
BY RunOnly DEF Next

SmfStep == KeepaliveStep \/ ScenarioStep \/ MenuStep \/ CommandStep
           \/ \E t \in Tasks : Swallow(t) \/ Resend(t) \/ GiveUp(t)

(* smf-sim takes an answer from the socket and remembers its SEID. *)
Remembers(m) ==
    /\ m.kind = "establishment" /\ m \notin to_smf'
    /\ \E c \in Cps : /\ sessions'[c] = [seid |-> m.seid, epoch |-> m.epoch]
                      /\ \A d \in Cps : d # c => sessions'[d] = sessions[d]

(* A step of smf-sim takes messages from the socket and leaves the UPF     *)
(* alone; its sessions it forgets, or remembers by an answer.              *)
LEMMA SmfEffect ==
    ASSUME TInv, SmfStep
    PROVE  /\ UNCHANGED <<assoc, session, released, next_seid, epoch>>
           /\ to_smf' \subseteq to_smf
           /\ \/ \A c \in Cps : sessions'[c] \in {sessions[c], None}
              \/ \E m \in to_smf : Remembers(m)
<1> USE DEF TInv
<1>1. CASE KeepaliveStep
  BY <1>1 DEF KeepaliveStep, KaHeartbeat, KaReassociate, KaAnswered, KaReassociated, Returns, upf
<1>2. CASE ScenarioStep
  <2>1. CASE ScenarioAssociate \/ ScenarioEstablish \/ ScenarioModify \/ ScenarioDelete
    BY <2>1 DEF ScenarioAssociate, ScenarioEstablish, ScenarioModify, ScenarioDelete, upf
  <2>2. CASE \E m \in to_smf : ScenarioAssociated(m) \/ ScenarioModified(m) \/ ScenarioDeleted(m)
    BY <2>2 DEF ScenarioAssociated, ScenarioModified, ScenarioDeleted, Returns, upf
  <2>3. ASSUME NEW m \in to_smf, ScenarioEstablished(m)
        PROVE  /\ UNCHANGED <<assoc, session, released, next_seid, epoch>> /\ to_smf' = to_smf \ {m}
               /\ sessions' = sessions \/ Remembers(m)
    <3>1. /\ pc["user"] = "establish" /\ Returns("user", m) /\ to_smf' = to_smf \ {m}
          /\ UNCHANGED <<assoc, session, released, next_seid, epoch>>
          /\ \/ sessions' = sessions
             \/ sessions' = [sessions EXCEPT ![call["user"].cp] = [seid |-> m.seid, epoch |-> m.epoch]]
      BY <2>3 DEF ScenarioEstablished, Returns, upf
    <3>2. m.kind = "establishment" /\ call["user"].kind = "establishment" /\ call["user"].cp \in Cps
      BY <3>1, ModeFacts DEF Returns, ScenarioProgress, RequestsWellFormed, WellFormed, Tasks
    <3>3. QED BY <3>1, <3>2 DEF Remembers, TypeOK
  <2>4. QED BY <1>2, <2>1, <2>2, <2>3 DEF ScenarioStep
<1>3. CASE MenuStep
  <2>1. CASE \/ Connect \/ (\E m \in to_smf : Connected(m))
             \/ (\E t \in Tasks : AddSession(t) \/ AddRefused(t) \/ MenuHeartbeat(t))
             \/ (\E t \in Tasks, c \in Cps : DelSession(t, c))
    BY <2>1 DEF Connect, Connected, AddSession, AddRefused, MenuHeartbeat, DelSession, Returns, upf
  <2>2. CASE \E t \in Tasks, m \in to_smf : Deleted(t, m) \/ MenuHeartbeatAnswered(t, m)
    BY <2>2 DEF Deleted, MenuHeartbeatAnswered, Returns, upf, TypeOK
  <2>3. ASSUME NEW t \in Tasks, NEW m \in to_smf, Added(t, m)
        PROVE  /\ UNCHANGED <<assoc, session, released, next_seid, epoch>> /\ to_smf' = to_smf \ {m}
               /\ Remembers(m)
    <3>1. /\ Returns(t, m) /\ to_smf' = to_smf \ {m} /\ m.kind = "establishment"
          /\ UNCHANGED <<assoc, session, released, next_seid, epoch>>
          /\ sessions' = [sessions EXCEPT ![call[t].cp] = [seid |-> m.seid, epoch |-> m.epoch]]
      BY <2>3 DEF Added, Returns, upf
    <3>2. call[t].cp \in Cps
      BY <3>1 DEF Returns, RequestsWellFormed, WellFormed
    <3>3. QED BY <3>1, <3>2 DEF Remembers, TypeOK
  <2>4. QED BY <1>3, <2>1, <2>2, <2>3 DEF MenuStep
<1>4. CASE CommandStep
  BY <1>4 DEF CommandStep, send_heartbeat, send_association_setup, send_session_establishment,
     send_session_modification, send_session_deletion, Command, CommandAnswered, HandleReport, ReportsDone,
     Returns, smf, upf
<1>5. CASE \E t \in Tasks : Swallow(t) \/ Resend(t) \/ GiveUp(t)
  BY <1>5 DEF Swallow, Resend, GiveUp, smf, upf
<1>6. QED BY <1>1, <1>2, <1>3, <1>4, <1>5 DEF SmfStep

(* The UPF takes requests and leaves smf-sim alone.  The only new answer   *)
(* to an Establishment hands out next_seid.                                *)
LEMMA UpfEffect ==
    ASSUME TInv, UpfStep
    PROVE  /\ UNCHANGED <<mode, pc, call, next_seq, next_cp, sessions, recovery_ts, clock, ka_seq, upf_ts, resent>>
           /\ to_upf' \subseteq to_upf
           /\ \/ UpfRestart /\ to_smf' = to_smf
              \/ \E r \in to_upf : UpfEstablishment(r)
              \/ /\ UNCHANGED <<next_seid, epoch>>
                 /\ \A m \in to_smf' : m \in to_smf \/ m.kind # "establishment"
<1> USE DEF TInv
<1>1. UNCHANGED <<mode, pc, call, next_seq, next_cp, sessions, recovery_ts, clock, ka_seq, upf_ts, resent>>
  <2>1. UNCHANGED smf
    BY DEF UpfStep, UpfHeartbeat, UpfAssociation, UpfEstablishment, UpfModification, UpfDeletion,
           UpfRefuse, UpfSends, UpfRestart
  <2>2. QED BY <2>1 DEF smf
<1>2. to_upf' \subseteq to_upf
  BY DEF UpfStep, UpfHeartbeat, UpfAssociation, UpfEstablishment, UpfModification, UpfDeletion,
         UpfRefuse, UpfSends, UpfRestart, Answer
<1>3. ASSUME NEW r \in to_upf, r.kind # "establishment", NEW s, Answer(r, s)
      PROVE  \A m \in to_smf' : m \in to_smf \/ m.kind # "establishment"
  BY <1>3 DEF Answer, With
<1>4. ASSUME NEW r \in to_upf, UpfHeartbeat(r) \/ UpfAssociation(r) \/ UpfModification(r) \/ UpfDeletion(r)
      PROVE  UNCHANGED <<next_seid, epoch>> /\ \A m \in to_smf' : m \in to_smf \/ m.kind # "establishment"
  BY <1>3, <1>4 DEF UpfHeartbeat, UpfAssociation, UpfModification, UpfDeletion
<1>5. ASSUME NEW r \in to_upf, UpfRefuse(r)
      PROVE  UNCHANGED <<next_seid, epoch>> /\ \A m \in to_smf' : m \in to_smf \/ m.kind # "establishment"
  BY <1>5 DEF UpfRefuse, upf
<1>6. ASSUME NEW kind \in {"upf_heartbeat", "report"}, UpfSends(kind)
      PROVE  UNCHANGED <<next_seid, epoch>> /\ \A m \in to_smf' : m \in to_smf \/ m.kind # "establishment"
  BY <1>6 DEF UpfSends, With
<1>7. UpfRestart => to_smf' = to_smf
  BY DEF UpfRestart
<1>8. QED BY <1>1, <1>2, <1>4, <1>5, <1>6, <1>7 DEF UpfStep

(* A step is one of smf-sim or one of the UPF. *)
LEMMA NextSides == Next <=> SmfStep \/ UpfStep
BY DEF Next, SmfStep

(* An Establishment is answered with a new SEID, if it can be answered. *)
LEMMA EstablishmentAnswer ==
    ASSUME TInv, NEW r \in to_upf, UpfEstablishment(r)
    PROVE  /\ \A m \in to_smf' : m \in to_smf \/ (m.kind = "establishment" /\ m.seid = next_seid /\ m.epoch = epoch
                                                  /\ m.seq = r.seq)
           /\ \A m, n \in to_smf' : m \notin to_smf /\ n \notin to_smf => m = n
<1> DEFINE a == [kind |-> r.kind, seq |-> r.seq, seid |-> next_seid, epoch |-> epoch]
<1>1. r.kind = "establishment" /\ to_smf' \subseteq to_smf \cup {a}
  BY DEF UpfEstablishment, Answer, With
<1>2. a.kind = r.kind /\ a.seq = r.seq /\ a.seid = next_seid /\ a.epoch = epoch
  OBVIOUS
<1> HIDE DEF a
<1>3. QED BY <1>1, <1>2

-----------------------------------------------------------------------------
(* The tasks, the scenario and the messages.                               *)

(* The tasks keep to the states of their mode. *)
LEMMA TasksStep == ASSUME TInv, Next PROVE TasksOfMode'
<1>1. mode' = mode /\ TypeOK' /\ pc \in [Tasks -> {"off", "idle", "reassociate", "associate", "establish",
        "modify", "delete", "passed", "failed", "connect", "ready", "shell", "command", "reports"}]
  BY TypeStep DEF TInv, TypeOK
<1>2. TasksOfMode /\ {"keepalive", "user", "cmd"} = Tasks
  BY DEF TInv, Tasks
<1>3. CASE pc' = pc
  BY <1>1, <1>2, <1>3 DEF TasksOfMode
<1>4. CASE KeepaliveStep
  <2>1. pc' = pc \/ \E p \in {"idle", "reassociate"} :
            pc["keepalive"] \in {"idle", "reassociate"} /\ pc' = [pc EXCEPT !["keepalive"] = p]
    BY <1>4 DEF KeepaliveStep, KaHeartbeat, KaReassociate, KaAnswered, KaReassociated
  <2>2. QED BY <1>1, <1>2, <1>3, <2>1, ModeFacts DEF TasksOfMode
<1>5. CASE ScenarioStep
  <2>1. /\ pc["user"] \in {"associate", "establish", "modify", "delete"}
        /\ \/ pc' = pc
           \/ \E p \in {"associate", "establish", "modify", "delete", "passed", "failed"} :
                  pc' = [pc EXCEPT !["user"] = p]
    BY <1>5 DEF ScenarioStep, ScenarioAssociate, ScenarioEstablish, ScenarioModify, ScenarioDelete,
       ScenarioAssociated, ScenarioEstablished, ScenarioModified, ScenarioDeleted
  <2>2. QED BY <1>1, <1>2, <1>3, <2>1, ModeFacts DEF TasksOfMode
<1>6. CASE MenuStep
  <2>1. pc' = pc \/ \E p \in {"connect", "ready"} : pc["user"] = "connect" /\ pc' = [pc EXCEPT !["user"] = p]
    BY <1>6 DEF MenuStep, Connect, Connected, AddSession, AddRefused, MenuHeartbeat, DelSession,
       Added, Deleted, MenuHeartbeatAnswered
  <2>2. QED BY <1>1, <1>2, <1>3, <2>1, ModeFacts DEF TasksOfMode
<1>7. CASE CommandStep
  <2>1. pc' = pc \/ \E p \in {"shell", "command", "reports"} :
            pc["user"] \in {"shell", "command", "reports"} /\ pc' = [pc EXCEPT !["user"] = p]
    BY <1>7 DEF CommandStep, send_heartbeat, send_association_setup, send_session_establishment,
       send_session_modification, send_session_deletion, Command, CommandAnswered, HandleReport, ReportsDone, smf
  <2>2. QED BY <1>1, <1>2, <1>3, <2>1, ModeFacts DEF TasksOfMode
<1>8. ASSUME NEW t \in Tasks, Swallow(t) \/ Resend(t) PROVE TasksOfMode'
  BY <1>3, <1>8 DEF Swallow, Resend, smf
<1>9. ASSUME NEW t \in Tasks, GiveUp(t) PROVE TasksOfMode'
  <2>1. pc' = [pc EXCEPT ![t] = AfterError(pc[t])]
    BY <1>9 DEF GiveUp, AfterError
  <2>2. pc'[t] = AfterError(pc[t]) /\ \A u \in Tasks : u # t => pc'[u] = pc[u]
    BY <1>1, <2>1
  <2>3. QED BY <1>1, <1>2, <2>2, AfterErrorFacts, ModeFacts DEF TasksOfMode
<1>10. CASE UpfStep
  BY <1>3, <1>10, UpfEffect
<1>11. QED BY <1>4, <1>5, <1>6, <1>7, <1>8, <1>9, <1>10 DEF Next

(* A step that is not the user's leaves the scenario where it is. *)
LEMMA ProgressQuiet ==
    ASSUME ScenarioProgress, mode' = mode, pc'["user"] = pc["user"], call'["user"] = call["user"],
           UNCHANGED <<next_seq, next_cp, sessions>>
    PROVE  ScenarioProgress'
BY DEF ScenarioProgress

(* The scenario goes through its requests in order, with one CP-SEID. *)
LEMMA ProgressStep == ASSUME TInv, Next PROVE ScenarioProgress'
<1>1. mode' = mode /\ TypeOK'
  BY TypeStep
<1> SUFFICES ASSUME mode = "run" PROVE ScenarioProgress'
  BY <1>1 DEF ScenarioProgress
<1>2. /\ TypeOK /\ "user" \in Tasks /\ "keepalive" \in Tasks /\ "user" # "keepalive" /\ ScenarioProgress
      /\ next_seq \in Nat /\ next_cp \in Nat /\ MaxTries \in Nat /\ 1 \in Cps
  BY NumberFacts, BoundFacts DEF TInv, TypeOK, Tasks
<1>3. pc \in [Tasks -> {"off", "idle", "reassociate", "associate", "establish",
        "modify", "delete", "passed", "failed", "connect", "ready", "shell", "command", "reports"}]
  BY <1>2 DEF TypeOK
<1>4. CASE KeepaliveStep
  <2>1. /\ pc'["user"] = pc["user"] /\ call'["user"] = call["user"]
        /\ UNCHANGED <<next_seq, next_cp, sessions>>
    BY <1>2, <1>3, <1>4 DEF KeepaliveStep, KaHeartbeat, KaReassociate, KaAnswered, KaReassociated,
       Send, Returns, TypeOK
  <2>2. QED BY <1>1, <1>2, <2>1, ProgressQuiet
<1>5. ASSUME NEW r, Send("user", r)
      PROVE  call["user"] = None /\ call'["user"] = r
  BY <1>2, <1>5 DEF Send, TypeOK
<1>6. ASSUME NEW m \in to_smf, Returns("user", m)
      PROVE  call["user"] # None /\ call'["user"] = None /\ m.kind = call["user"].kind
  BY <1>2, <1>6 DEF Returns, TypeOK
<1>7. CASE ScenarioStep
  <2>1. CASE ScenarioAssociate
    BY <1>1, <1>2, <2>1 DEF ScenarioAssociate, ScenarioProgress
  <2>2. CASE ScenarioEstablish
    <3> DEFINE r == Request("establishment", next_seq, 0, next_cp, 0)
    <3>1. /\ call["user"] = None /\ call'["user"] = r /\ pc["user"] = "establish" /\ pc' = pc
          /\ next_seq' = next_seq + 1 /\ next_cp' = next_cp + 1 /\ sessions' = sessions
      BY <1>5, <2>2 DEF ScenarioEstablish
    <3>2. r.kind = "establishment" /\ r # None
      BY <1>2, RequestIsSome DEF Request, Kinds
    <3> HIDE DEF r
    <3>3. QED BY <1>1, <1>2, <3>1, <3>2 DEF ScenarioProgress
  <2>3. CASE ScenarioModify
    <3>1. /\ call["user"] = None /\ pc["user"] = "modify" /\ pc' = pc /\ call'["user"] # None
          /\ next_seq' = next_seq + 1 /\ next_cp' = next_cp /\ sessions' = sessions
      <4>1. call'["user"] = Request("modification", next_seq, 0, 0, MySeid) /\ call["user"] = None
        BY <1>5, <2>3 DEF ScenarioModify
      <4>2. Request("modification", next_seq, 0, 0, MySeid) # None
        BY <1>2, <2>3, MySeidFacts, RequestIsSome DEF ScenarioModify, Kinds
      <4>3. QED BY <2>3, <4>1, <4>2 DEF ScenarioModify
    <3>2. QED BY <1>1, <1>2, <3>1 DEF ScenarioProgress
  <2>4. CASE ScenarioDelete
    <3> DEFINE r == Request("deletion", next_seq, 0, 0, MySeid)
    <3>1. /\ call["user"] = None /\ call'["user"] = r /\ pc["user"] = "delete" /\ pc' = pc
          /\ next_seq' = next_seq + 1 /\ next_cp' = next_cp /\ sessions' = sessions
      BY <1>5, <2>4 DEF ScenarioDelete
    <3>2. r.kind = "deletion"
      BY DEF Request
    <3>3. r # None
      BY <1>2, <3>1, MySeidFacts, RequestIsSome DEF Kinds
    <3> HIDE DEF r
    <3>4. QED BY <1>1, <1>2, <3>1, <3>2, <3>3 DEF ScenarioProgress
  <2>5. ASSUME NEW m \in to_smf, ScenarioAssociated(m) PROVE ScenarioProgress'
    <3>1. /\ call'["user"] = None /\ pc["user"] = "associate" /\ pc'["user"] \in {"associate", "establish"}
          /\ UNCHANGED <<next_seq, next_cp, sessions>>
      BY <1>2, <1>3, <1>6, <2>5 DEF ScenarioAssociated
    <3>2. QED BY <1>1, <1>2, <3>1 DEF ScenarioProgress
  <2>6. ASSUME NEW m \in to_smf, ScenarioEstablished(m) PROVE ScenarioProgress'
    <3>1. /\ call["user"] # None /\ call'["user"] = None /\ pc["user"] = "establish"
          /\ UNCHANGED <<next_seq, next_cp>>
      BY <1>6, <2>6 DEF ScenarioEstablished
    <3>2. call["user"].cp = 1 /\ m.kind = "establishment"
      BY <1>2, <1>6, <2>6, <3>1 DEF ScenarioEstablished, ScenarioProgress, TInv, RequestsWellFormed, WellFormed
    <3>3. CASE Valid("user", m)
      <4>1. pc'["user"] = "modify" /\ sessions' = [sessions EXCEPT ![1] = [seid |-> m.seid, epoch |-> m.epoch]]
        BY <1>2, <1>3, <2>6, <3>2, <3>3 DEF ScenarioEstablished
      <4>2. [seid |-> m.seid, epoch |-> m.epoch] \in SimSession
        BY <3>2 DEF TInv, ResponsesHandedOut, HandedOut, SimSession
      <4>3. [seid |-> m.seid, epoch |-> m.epoch] # None
        BY <4>2, NoneAssumption
      <4>4. sessions'[1] # None /\ \A c \in Cps : c # 1 => sessions'[c] = sessions[c]
        BY <1>2, <4>1, <4>3 DEF TypeOK
      <4>5. QED BY <1>1, <1>2, <3>1, <4>1, <4>4 DEF ScenarioProgress
    <3>4. CASE ~Valid("user", m)
      <4>1. pc'["user"] = "failed" /\ sessions' = sessions
        BY <1>2, <1>3, <2>6, <3>4 DEF ScenarioEstablished
      <4>2. QED BY <1>1, <1>2, <3>1, <4>1 DEF ScenarioProgress
    <3>5. QED BY <3>3, <3>4
  <2>7. ASSUME NEW m \in to_smf, ScenarioModified(m) PROVE ScenarioProgress'
    <3>1. /\ call["user"] # None /\ call'["user"] = None /\ pc["user"] = "modify"
          /\ pc'["user"] \in {"delete", "failed"} /\ UNCHANGED <<next_seq, next_cp, sessions>>
      BY <1>2, <1>3, <1>6, <2>7 DEF ScenarioModified
    <3>2. QED BY <1>1, <1>2, <3>1 DEF ScenarioProgress
  <2>8. ASSUME NEW m \in to_smf, ScenarioDeleted(m) PROVE ScenarioProgress'
    <3>1. /\ pc'["user"] \in {"passed", "failed"}
          /\ sessions' = sessions \/ \A c \in Cps : sessions'[c] = None
      BY <1>2, <1>3, <2>8 DEF ScenarioDeleted
    <3>2. QED BY <1>1, <1>2, <3>1 DEF ScenarioProgress
  <2>9. QED BY <1>7, <2>1, <2>2, <2>3, <2>4, <2>5, <2>6, <2>7, <2>8 DEF ScenarioStep
<1>8. ASSUME NEW t \in Tasks, Swallow(t) PROVE ScenarioProgress'
  BY <1>1, <1>2, <1>8, ProgressQuiet DEF Swallow, smf
<1>9. ASSUME NEW t \in Tasks, Resend(t) PROVE ScenarioProgress'
  <2>1. call[t] \in Requests /\ call[t] # None
    BY <1>2, <1>9 DEF Resend, TypeOK
  <2>2. [call[t] EXCEPT !.attempt = @ + 1] \in Requests
    BY <1>2, <1>9, <2>1, BoundFacts DEF Requests, Resend, TypeOK
  <2>3. /\ call'[t] = [call[t] EXCEPT !.attempt = @ + 1] /\ \A u \in Tasks : u # t => call'[u] = call[u]
        /\ UNCHANGED <<pc, next_seq, next_cp, sessions>>
    BY <1>2, <1>9 DEF Resend, TypeOK
  <2>4. call'[t] # None /\ call'[t].kind = call[t].kind
    BY <1>2, <2>1, <2>2, <2>3, RequestFacts DEF Requests, TypeOK
  <2>5. QED BY <1>1, <1>2, <2>1, <2>3, <2>4 DEF ScenarioProgress
<1>10. ASSUME NEW t \in Tasks, GiveUp(t) PROVE ScenarioProgress'
  <2>1. /\ pc' = [pc EXCEPT ![t] = AfterError(pc[t])] /\ call[t] # None
        /\ UNCHANGED <<next_seq, next_cp, sessions>>
    BY <1>10 DEF GiveUp, AfterError
  <2>2. /\ pc'[t] = AfterError(pc[t]) /\ call'[t] = None
        /\ \A u \in Tasks : u # t => pc'[u] = pc[u] /\ call'[u] = call[u]
    BY <1>2, <1>3, <1>10, <2>1 DEF GiveUp, TypeOK
  <2>3. CASE t # "user"
    BY <1>1, <1>2, <2>1, <2>2, <2>3, ProgressQuiet
  <2>4. CASE t = "user"
    <3>1. pc["user"] \in {"associate", "establish", "modify", "delete", "passed", "failed"}
      BY DEF TInv, TasksOfMode
    <3>2. pc'["user"] = IF pc["user"] \in {"establish", "modify", "delete"} THEN "failed" ELSE pc["user"]
      BY <2>2, <2>4, <3>1, AfterErrorFacts
    <3>3. QED BY <1>1, <1>2, <2>1, <2>2, <2>4, <3>1, <3>2 DEF ScenarioProgress
  <2>5. QED BY <2>3, <2>4
<1>11. CASE UpfStep
  BY <1>1, <1>2, <1>11, UpfEffect, ProgressQuiet
<1>12. KeepaliveStep \/ ScenarioStep \/ (\E t \in Tasks : Swallow(t) \/ Resend(t) \/ GiveUp(t)) \/ UpfStep
  BY RunSteps
<1>13. QED BY <1>4, <1>7, <1>8, <1>9, <1>10, <1>11, <1>12

(* What the scenario never takes back. *)
LEMMA RunTransition ==
    ASSUME TInv, mode = "run", Next
    PROVE  /\ recovery_ts' = recovery_ts
           /\ next_cp = 2 => next_cp' = 2
           /\ pc["user"] \in {"passed", "failed"} => pc'["user"] = pc["user"]
           /\ pc["user"] = "delete" => pc'["user"] \in {"delete", "passed", "failed"}
<1>1. /\ TypeOK /\ "user" \in Tasks /\ "user" # "keepalive" /\ ScenarioProgress
      /\ pc \in [Tasks -> {"off", "idle", "reassociate", "associate", "establish",
        "modify", "delete", "passed", "failed", "connect", "ready", "shell", "command", "reports"}]
  BY DEF TInv, TypeOK, Tasks
<1>2. CASE KeepaliveStep
  BY <1>1, <1>2 DEF KeepaliveStep, KaHeartbeat, KaReassociate, KaAnswered, KaReassociated
<1>3. CASE ScenarioStep
  <2>1. CASE ScenarioAssociate \/ ScenarioModify \/ ScenarioDelete
    BY <2>1 DEF ScenarioAssociate, ScenarioModify, ScenarioDelete
  <2>2. CASE ScenarioEstablish
    BY <1>1, <2>2 DEF ScenarioEstablish, Send, ScenarioProgress
  <2>3. ASSUME NEW m \in to_smf, ScenarioAssociated(m) \/ ScenarioEstablished(m) \/ ScenarioModified(m)
        PROVE  /\ pc["user"] \in {"associate", "establish", "modify"}
               /\ UNCHANGED <<recovery_ts, next_cp>>
    BY <2>3 DEF ScenarioAssociated, ScenarioEstablished, ScenarioModified
  <2>4. ASSUME NEW m \in to_smf, ScenarioDeleted(m)
        PROVE  /\ pc["user"] = "delete" /\ pc'["user"] \in {"passed", "failed"}
               /\ UNCHANGED <<recovery_ts, next_cp>>
    BY <1>1, <2>4 DEF ScenarioDeleted
  <2>5. QED BY <1>3, <2>1, <2>2, <2>3, <2>4 DEF ScenarioStep
<1>4. ASSUME NEW t \in Tasks, Swallow(t) \/ Resend(t)
      PROVE  UNCHANGED <<recovery_ts, next_cp, pc, sessions>>
  BY <1>4 DEF Swallow, Resend, smf
<1>5. ASSUME NEW t \in Tasks, GiveUp(t)
      PROVE  /\ UNCHANGED <<recovery_ts, next_cp, sessions>>
             /\ pc["user"] \in {"passed", "failed"} => pc'["user"] = pc["user"]
             /\ pc["user"] = "delete" => pc'["user"] \in {"delete", "passed", "failed"}
  <2>1. /\ pc' = [pc EXCEPT ![t] = AfterError(pc[t])] /\ UNCHANGED <<recovery_ts, next_cp, sessions>>
    BY <1>5 DEF GiveUp, AfterError
  <2>2. pc'["user"] \in {pc["user"], AfterError(pc["user"])}
    BY <1>1, <2>1
  <2>3. QED BY <2>1, <2>2, AfterErrorFacts
<1>6. CASE UpfStep
  BY <1>6, UpfEffect
<1>7. KeepaliveStep \/ ScenarioStep \/ (\E t \in Tasks : Swallow(t) \/ Resend(t) \/ GiveUp(t)) \/ UpfStep
  BY RunSteps
<1>8. QED BY <1>2, <1>3, <1>4, <1>5, <1>6, <1>7

(* A request that fits once fits ever after. *)
LEMMA WellFormedStays ==
    ASSUME TInv, Next, NEW r, WellFormed(r)
    PROVE  WellFormed(r)'
BY TypeStep, RunTransition DEF WellFormed

(* Requests with the same contents. *)
LEMMA WellFormedAlike ==
    ASSUME NEW q, NEW r, WellFormed(q),
           r.kind = q.kind, r.ts = q.ts, r.cp = q.cp, r.seid = q.seid
    PROVE  WellFormed(r)
BY DEF WellFormed

(* Requests under way, first or sent again, stay those of their mode. *)
LEMMA WellFormedStep == ASSUME TInv, Next PROVE RequestsWellFormed'
<1>1. /\ mode' = mode /\ TypeOK' /\ TypeOK /\ mode \in Modes /\ RequestsWellFormed
      /\ 1 \in Cps /\ Cps \subseteq 0..PoolSize
  BY TypeStep, NumberFacts DEF TInv, TypeOK
<1>2. ASSUME to_upf' \subseteq to_upf, \A t \in Tasks : call'[t] \in {call[t], None}
      PROVE  RequestsWellFormed'
  BY <1>1, <1>2, WellFormedStays DEF RequestsWellFormed
<1>3. ASSUME NEW t \in Tasks, NEW r, Send(t, r), WellFormed(r)', WellFormed(Datagram(r))'
      PROVE  RequestsWellFormed'
  <2>1. /\ to_upf' \subseteq to_upf \cup {Datagram(r)}
        /\ \A u \in Tasks : call'[u] = IF u = t THEN r ELSE call[u]
    BY <1>1, <1>3 DEF Send, With, TypeOK
  <2>2. QED BY <1>1, <1>3, <2>1, WellFormedStays DEF RequestsWellFormed
<1>4. ASSUME NEW t \in Tasks, NEW kind, NEW seq, NEW ts, NEW cp, NEW seid,
             Send(t, Request(kind, seq, ts, cp, seid)),
             kind = "establishment" => cp \in Cps,
             mode = "run" => /\ kind \in {"heartbeat", "association"} => ts = recovery_ts'
                             /\ kind = "establishment" => cp = 1 /\ next_cp' = 2
                             /\ kind = "deletion" => pc'["user"] = "delete"
      PROVE  RequestsWellFormed'
  <2> DEFINE r == Request(kind, seq, ts, cp, seid)
  <2>1. r.kind = kind /\ r.ts = ts /\ r.cp = cp /\ r.seid = seid
    BY DEF Request
  <2>2. /\ Datagram(r).kind = kind /\ Datagram(r).ts = ts /\ Datagram(r).cp = cp /\ Datagram(r).seid = seid
    BY DEF Request, Datagram
  <2> HIDE DEF r
  <2>3. WellFormed(r)' /\ WellFormed(Datagram(r))'
    BY <1>1, <1>4, <2>1, <2>2 DEF WellFormed
  <2>4. QED BY <1>3, <1>4, <2>3 DEF r
<1>5. ASSUME NEW t \in Tasks, NEW m \in to_smf, Returns(t, m), to_upf' = to_upf PROVE RequestsWellFormed'
  BY <1>1, <1>2, <1>5, ReturnsFacts
<1>6. CASE KeepaliveStep
  <2>1. "keepalive" \in Tasks
    BY DEF Tasks
  <2>2. CASE KaHeartbeat
    <3>1. Send("keepalive", Request("heartbeat", KaSeq(ka_seq), recovery_ts, 0, 0)) /\ recovery_ts' = recovery_ts
      BY <2>2 DEF KaHeartbeat
    <3>2. QED BY <1>4, <2>1, <3>1
  <2>3. CASE KaReassociate
    <3>1. Send("keepalive", Request("association", KaSeq(ka_seq), recovery_ts, 0, 0)) /\ recovery_ts' = recovery_ts
      BY <2>3 DEF KaReassociate
    <3>2. QED BY <1>4, <2>1, <3>1
  <2>4. QED BY <1>5, <1>6, <2>1, <2>2, <2>3 DEF KeepaliveStep, KaAnswered, KaReassociated
<1>7. CASE ScenarioStep
  <2>1. "user" \in Tasks
    BY DEF Tasks
  <2>2. mode = "run"
    BY <1>7, ModeFacts DEF ScenarioStep, ScenarioAssociate, ScenarioEstablish, ScenarioModify, ScenarioDelete,
       ScenarioAssociated, ScenarioEstablished, ScenarioModified, ScenarioDeleted
  <2>3. CASE ScenarioAssociate
    <3>1. Send("user", Request("association", next_seq, recovery_ts, 0, 0)) /\ recovery_ts' = recovery_ts
      BY <2>3 DEF ScenarioAssociate
    <3>2. QED BY <1>4, <2>1, <3>1
  <2>4. CASE ScenarioEstablish
    <3>1. /\ Send("user", Request("establishment", next_seq, 0, next_cp, 0))
          /\ next_cp = 1 /\ next_cp' = 2
      BY <2>2, <2>4 DEF ScenarioEstablish, Send, TInv, ScenarioProgress
    <3>2. QED BY <1>1, <1>4, <2>1, <3>1
  <2>5. CASE ScenarioModify
    <3>1. Send("user", Request("modification", next_seq, 0, 0, MySeid))
      BY <2>5 DEF ScenarioModify
    <3>2. QED BY <1>4, <2>1, <3>1
  <2>6. CASE ScenarioDelete
    <3>1. Send("user", Request("deletion", next_seq, 0, 0, MySeid)) /\ pc'["user"] = "delete"
      BY <2>6 DEF ScenarioDelete
    <3>2. QED BY <1>4, <2>1, <3>1
  <2>7. QED BY <1>5, <1>7, <2>1, <2>3, <2>4, <2>5, <2>6
            DEF ScenarioStep, ScenarioAssociated, ScenarioEstablished, ScenarioModified, ScenarioDeleted
<1>8. CASE MenuStep
  <2>1. mode = "interactive" /\ "user" \in Tasks
    BY <1>8, ModeFacts DEF MenuStep, Connect, Connected, AddSession, AddRefused, MenuHeartbeat, DelSession,
       Added, Deleted, MenuHeartbeatAnswered, Tasks
  <2>2. CASE Connect
    <3>1. Send("user", Request("association", 1, recovery_ts, 0, 0))
      BY <2>2 DEF Connect
    <3>2. QED BY <1>4, <2>1, <3>1
  <2>3. ASSUME NEW t \in Tasks, AddSession(t) PROVE RequestsWellFormed'
    <3>1. Send(t, Request("establishment", next_seq, 0, next_cp, 0)) /\ next_cp \in Cps
      BY <2>3 DEF AddSession
    <3>2. QED BY <1>4, <2>1, <3>1
  <2>4. ASSUME NEW t \in Tasks, AddRefused(t) PROVE RequestsWellFormed'
    BY <1>2, <2>4 DEF AddRefused
  <2>5. ASSUME NEW t \in Tasks, MenuHeartbeat(t) PROVE RequestsWellFormed'
    <3>1. Send(t, Request("heartbeat", next_seq, clock + 1, 0, 0))
      BY <2>5 DEF MenuHeartbeat
    <3>2. QED BY <1>4, <2>1, <3>1
  <2>6. ASSUME NEW t \in Tasks, NEW c \in Cps, DelSession(t, c) PROVE RequestsWellFormed'
    <3>1. Send(t, Request("deletion", next_seq, 0, c, sessions[c].seid))
      BY <2>6 DEF DelSession
    <3>2. QED BY <1>4, <2>1, <3>1
  <2>7. QED BY <1>5, <1>8, <2>1, <2>2, <2>3, <2>4, <2>5, <2>6
            DEF MenuStep, Connected, Added, Deleted, MenuHeartbeatAnswered
<1>9. CASE CommandStep
  <2>1. mode = "send" /\ "user" \in Tasks
    BY <1>9, ModeFacts DEF CommandStep, send_heartbeat, send_association_setup, send_session_establishment,
       send_session_modification, send_session_deletion, Command, CommandAnswered, HandleReport, ReportsDone, Tasks
  <2>2. ASSUME NEW kind, NEW seq, NEW ts, NEW cp, NEW seid,
               kind = "establishment" => cp \in Cps,
               Command(Request(kind, seq, ts, cp, seid))
        PROVE  RequestsWellFormed'
    BY <1>4, <2>1, <2>2 DEF Command
  <2>3. ASSUME NEW m \in to_smf, CommandAnswered(m) PROVE RequestsWellFormed'
    BY <1>5, <2>1, <2>3 DEF CommandAnswered
  <2>4. ASSUME NEW m \in to_smf, HandleReport(m) PROVE RequestsWellFormed'
    BY <1>2, <2>4 DEF HandleReport, smf
  <2>5. CASE ReportsDone
    BY <1>2, <2>5 DEF ReportsDone
  <2>6. CASE send_heartbeat
    BY <2>2, <2>6 DEF send_heartbeat
  <2>7. CASE send_association_setup
    BY <2>2, <2>7 DEF send_association_setup
  <2>8. CASE send_session_establishment
    BY <1>1, <2>2, <2>8 DEF send_session_establishment
  <2>9. ASSUME NEW s \in Seids, send_session_modification(s) PROVE RequestsWellFormed'
    BY <2>2, <2>9 DEF send_session_modification
  <2>10. ASSUME NEW s \in Seids, send_session_deletion(s) PROVE RequestsWellFormed'
    BY <2>2, <2>10 DEF send_session_deletion
  <2>11. QED BY <1>9, <2>3, <2>4, <2>5, <2>6, <2>7, <2>8, <2>9, <2>10 DEF CommandStep
<1>10. ASSUME NEW t \in Tasks, Swallow(t) PROVE RequestsWellFormed'
  BY <1>2, <1>10 DEF Swallow, smf
<1>11. ASSUME NEW t \in Tasks, Resend(t) PROVE RequestsWellFormed'
  <2> DEFINE again == [call[t] EXCEPT !.attempt = @ + 1]
  <2>1. call[t] \in Requests /\ call[t] # None /\ call[t].attempt < MaxRetries[mode]
    BY <1>1, <1>11 DEF Resend, TypeOK
  <2>2. /\ again \in Requests
        /\ again.kind = call[t].kind /\ again.ts = call[t].ts /\ again.cp = call[t].cp /\ again.seid = call[t].seid
    BY <1>1, <2>1, BoundFacts DEF Requests
  <2>3. /\ to_upf' \subseteq to_upf \cup {Datagram(again)}
        /\ call' = [call EXCEPT ![t] = again]
    BY <1>11 DEF Resend, With
  <2> HIDE DEF again
  <2>4. \A u \in Tasks : call'[u] = IF u = t THEN again ELSE call[u]
    BY <1>1, <2>3 DEF TypeOK
  <2>5. /\ Datagram(again).kind = call[t].kind /\ Datagram(again).ts = call[t].ts
        /\ Datagram(again).cp = call[t].cp /\ Datagram(again).seid = call[t].seid
    BY <1>1, <2>2, DatagramFacts
  <2>6. WellFormed(again) /\ WellFormed(Datagram(again))
    BY <1>1, <2>1, <2>2, <2>5, WellFormedAlike DEF RequestsWellFormed
  <2>7. QED BY <1>1, <2>3, <2>4, <2>6, WellFormedStays DEF RequestsWellFormed
<1>12. ASSUME NEW t \in Tasks, GiveUp(t) PROVE RequestsWellFormed'
  <2>1. to_upf' = to_upf /\ call' = [call EXCEPT ![t] = None]
    BY <1>12 DEF GiveUp
  <2>2. QED BY <1>1, <1>2, <2>1 DEF TypeOK
<1>13. CASE UpfStep
  BY <1>2, <1>13, UpfEffect
<1>14. QED BY <1>6, <1>7, <1>8, <1>9, <1>10, <1>11, <1>12, <1>13 DEF Next

(* SEIDs are handed out one after the other, in each life of the UPF. *)
LEMMA HandedOutStep == ASSUME TInv, Next PROVE ResponsesHandedOut'
<1>1. /\ TypeOK /\ ResponsesHandedOut /\ next_seid \in Nat /\ epoch \in Nat
  BY BoundFacts DEF TInv, TypeOK
<1>2. CASE SmfStep
  <2>1. /\ next_seid' = next_seid /\ epoch' = epoch /\ to_smf' \subseteq to_smf
        /\ \/ \A c \in Cps : sessions'[c] \in {sessions[c], None}
           \/ \E m \in to_smf : Remembers(m)
    BY <1>2, SmfEffect
  <2>2. \A s, e : HandedOut(s, e) => HandedOut(s, e)'
    BY <2>1 DEF HandedOut
  <2>3. CASE \A c \in Cps : sessions'[c] \in {sessions[c], None}
    BY <1>1, <2>1, <2>2, <2>3 DEF ResponsesHandedOut
  <2>4. ASSUME NEW m \in to_smf, Remembers(m) PROVE ResponsesHandedOut'
    <3>1. HandedOut(m.seid, m.epoch)
      BY <1>1, <2>4 DEF ResponsesHandedOut, Remembers
    <3>2. QED BY <1>1, <2>1, <2>2, <2>4, <3>1 DEF ResponsesHandedOut, Remembers
  <2>5. QED BY <2>1, <2>3, <2>4
<1>3. CASE UpfStep
  <2>1. sessions' = sessions
    BY <1>3, UpfEffect
  <2>2. ASSUME UpfRestart, to_smf' = to_smf PROVE ResponsesHandedOut'
    <3>1. epoch' = epoch + 1
      BY <2>2 DEF UpfRestart
    <3>2. \A s, e : HandedOut(s, e) => HandedOut(s, e)'
      BY <1>1, <3>1 DEF HandedOut
    <3>3. QED BY <1>1, <2>1, <2>2, <3>2 DEF ResponsesHandedOut
  <2>3. ASSUME NEW r \in to_upf, UpfEstablishment(r) PROVE ResponsesHandedOut'
    <3>1. next_seid \in Seids /\ next_seid' = next_seid + 1 /\ epoch' = epoch
      BY <2>3 DEF UpfEstablishment
    <3>2. \A s, e : HandedOut(s, e) => HandedOut(s, e)'
      BY <1>1, <3>1, BoundsAssumption DEF HandedOut, Seids
    <3>3. PICK n \in Nat, e \in Nat : n = next_seid /\ e = epoch
      BY <1>1
    <3>4. HandedOut(n, e)'
      BY <1>1, <3>1, <3>3 DEF HandedOut
    <3>5. \A m \in to_smf' : m \in to_smf \/ (m.seid = n /\ m.epoch = e)
      BY <2>3, <3>3, EstablishmentAnswer
    <3>6. QED BY <1>1, <2>1, <3>2, <3>4, <3>5 DEF ResponsesHandedOut
  <2>4. ASSUME UNCHANGED <<next_seid, epoch>>, \A m \in to_smf' : m \in to_smf \/ m.kind # "establishment"
        PROVE  ResponsesHandedOut'
    BY <1>1, <2>1, <2>4 DEF ResponsesHandedOut, HandedOut
  <2>5. QED BY <1>3, <2>2, <2>3, <2>4, UpfEffect
<1>4. QED BY <1>2, <1>3, NextSides

(* The first part of the invariant is kept. *)
LEMMA TInvStep == ASSUME TInv, Next PROVE TInv'
BY TypeStep, TasksStep, ProgressStep, WellFormedStep, HandedOutStep DEF TInv

-----------------------------------------------------------------------------
(* Every SEID is known under one CP-SEID.                                  *)

(* An answer has a SEID nobody else has; storing it takes the answer away. *)
LEMMA NInvStep == ASSUME TInv, NInv, Next PROVE NInv'
<1>1. CASE SmfStep
  <2>1. to_smf' \subseteq to_smf
    BY <1>1, SmfEffect
  <2>2. AnswersApart'
    BY <2>1 DEF NInv, AnswersApart
  <2>3. CASE \A c \in Cps : sessions'[c] \in {sessions[c], None}
    BY <2>1, <2>2, <2>3 DEF NInv, AnswersNew, DistinctUpfSeids
  <2>4. ASSUME NEW m \in to_smf, Remembers(m) PROVE NInv'
    <3>1. PICK c \in Cps : /\ sessions'[c] = [seid |-> m.seid, epoch |-> m.epoch]
                           /\ \A d \in Cps : d # c => sessions'[d] = sessions[d]
      BY <2>4 DEF Remembers
    <3>2. m.kind = "establishment" /\ m \notin to_smf'
      BY <2>4 DEF Remembers
    <3>3. sessions'[c].seid = m.seid /\ sessions'[c].epoch = m.epoch
      BY <3>1
    <3>4. AnswersNew'
      BY <2>1, <3>1, <3>2, <3>3 DEF NInv, AnswersApart, AnswersNew
    <3>5. \A d \in Cps : d # c => sessions'[d] # sessions'[c]
      <4>1. \A d \in Cps : d # c /\ sessions[d] # None => \/ sessions'[d].seid # sessions'[c].seid
                                                          \/ sessions'[d].epoch # sessions'[c].epoch
        BY <3>1, <3>2, <3>3 DEF NInv, AnswersNew
      <4>2. sessions'[c] # None
        <5>1. [seid |-> m.seid, epoch |-> m.epoch] \in SimSession
          BY <3>2 DEF TInv, ResponsesHandedOut, HandedOut, SimSession
        <5>2. QED BY <3>1, <5>1, NoneAssumption
      <4>3. QED BY <3>1, <4>1, <4>2
    <3>6. DistinctUpfSeids'
      BY <3>1, <3>5 DEF NInv, DistinctUpfSeids
    <3>7. QED BY <2>2, <3>4, <3>6 DEF NInv
  <2>5. QED BY <1>1, <2>3, <2>4, SmfEffect
<1>2. CASE UpfStep
  <2>1. sessions' = sessions
    BY <1>2, UpfEffect
  <2>2. CASE \A m \in to_smf' : m \in to_smf \/ m.kind # "establishment"
    BY <2>1, <2>2 DEF NInv, AnswersApart, AnswersNew, DistinctUpfSeids
  <2>3. ASSUME NEW r \in to_upf, UpfEstablishment(r) PROVE NInv'
    <3>1. \A s, e : HandedOut(s, e) => s # next_seid \/ e # epoch
      BY BoundsAssumption DEF TInv, TypeOK, HandedOut, Seids
    <3>2. /\ \A m \in to_smf : m.kind = "establishment" => m.seid # next_seid \/ m.epoch # epoch
          /\ \A c \in Cps : sessions[c] # None => sessions[c].seid # next_seid \/ sessions[c].epoch # epoch
      BY <3>1 DEF TInv, ResponsesHandedOut
    <3>3. QED BY <2>1, <2>3, <3>2, EstablishmentAnswer DEF NInv, AnswersApart, AnswersNew, DistinctUpfSeids
  <2>4. QED BY <1>2, <2>2, <2>3, UpfEffect
<1>3. QED BY <1>1, <1>2, NextSides

-----------------------------------------------------------------------------
(* The sessions of this life of the UPF.                                   *)

(* No session is added to them while next_seid stays ... *)
LEMMA CurrentBefore ==
    ASSUME next_seid' = next_seid, NEW s \in Seids, session'[s] # None => session[s] # None
    PROVE  Current(s)' => Current(s)
BY DEF Current, Upf!Established

(* ... an Establishment adds one, also where it overwrites a session that  *)
(* Redis gave back ...                                                     *)
LEMMA CurrentNew ==
    ASSUME TypeOK, RequestsWellFormed, NEW r \in to_upf, UpfEstablishment(r), NEW s \in Seids
    PROVE  Current(s)' => s = next_seid \/ Current(s)
<1>1. next_seid' = next_seid + 1 /\ (s # next_seid => session'[s] = session[s]) /\ next_seid \in Seids
  BY UpfEstablishmentEffect
<1>2. next_seid \in Nat /\ s \in Nat
  BY <1>1, BoundsAssumption DEF Seids
<1>3. QED BY <1>1, <1>2 DEF Current, Upf!Established

(* ... and a restart ends them all. *)
LEMMA NoneCurrent == UpfRestart => Clean'
<1> SUFFICES ASSUME UpfRestart PROVE Clean'
  OBVIOUS
<1>1. next_seid' = 1
  BY DEF UpfRestart
<1>2. \A s \in Seids : ~(s < 1)
  BY BoundsAssumption DEF Seids
<1>3. QED BY <1>1, <1>2 DEF Clean, Current

-----------------------------------------------------------------------------
(* The scenario's session can be reached.                                  *)

(* No step before the Deletion takes the session from the association:     *)
(* every Recovery Time Stamp is the same, so the UPF never clears it.      *)
LEMMA RInvStep == ASSUME TInv, RInv, Next PROVE RInv'
<1>1. mode' = mode /\ TypeOK /\ RequestsWellFormed /\ ResponsesHandedOut /\ epoch \in Nat
  BY TypeStep, BoundFacts DEF TInv, TypeOK
<1> SUFFICES ASSUME mode = "run" PROVE RInv'
  BY <1>1 DEF RInv
<1>2. recovery_ts' = recovery_ts /\ (BeforeDeletion' => BeforeDeletion)
  BY RunTransition DEF TInv, TasksOfMode, BeforeDeletion
<1>3. OneTimestamp /\ OneCp /\ (BeforeDeletion => AllTouchable /\ KnownEstablished)
  BY DEF RInv
<1>4. CASE SmfStep
  <2>1. UNCHANGED <<assoc, session, next_seid, epoch>> /\ to_smf' \subseteq to_smf
    BY <1>4, SmfEffect
  <2>2. OneTimestamp' /\ OneCp' /\ (AllTouchable => AllTouchable')
    BY <1>2, <1>3, <2>1, CurrentBefore DEF OneTimestamp, OneCp, AllTouchable
  <2>3. CASE \A c \in Cps : sessions'[c] \in {sessions[c], None}
    <3>1. KnownEstablished => KnownEstablished'
      BY <2>1, <2>3 DEF KnownEstablished
    <3>2. QED BY <1>2, <1>3, <2>2, <3>1 DEF RInv
  <2>4. ASSUME NEW m \in to_smf, Remembers(m) PROVE RInv'
    <3>1. KnownEstablished => KnownEstablished'
      BY <2>1, <2>4 DEF KnownEstablished, Remembers
    <3>2. QED BY <1>2, <1>3, <2>2, <3>1 DEF RInv
  <2>5. QED BY <1>4, <2>3, <2>4, SmfEffect
<1>5. ASSUME UpfStep, \A m \in to_smf' : m \in to_smf \/ m.kind # "establishment", UNCHANGED <<session, next_seid, epoch>>,
             assoc' = assoc \/ (assoc[Smf] = None /\ assoc'[Smf] # None /\ assoc'[Smf].ts = recovery_ts)
      PROVE  RInv'
  <2>1. sessions' = sessions
    BY <1>5, UpfEffect
  <2>2. OneTimestamp' /\ OneCp'
    BY <1>2, <1>3, <1>5, CurrentBefore DEF OneTimestamp, OneCp
  <2>3. (AllTouchable => AllTouchable') /\ (KnownEstablished => KnownEstablished')
    BY <1>5, <2>1, CurrentBefore DEF AllTouchable, KnownEstablished
  <2>4. QED BY <1>2, <1>3, <2>2, <2>3 DEF RInv
<1>6. ASSUME NEW r \in to_upf, r.kind # "establishment", NEW s, Answer(r, s)
      PROVE  \A m \in to_smf' : m \in to_smf \/ m.kind # "establishment"
  BY <1>6 DEF Answer, With
<1>7. ASSUME UpfStep, NEW r \in to_upf, UpfHeartbeat(r) PROVE RInv'
  <2>1. r.kind = "heartbeat" /\ r.ts = recovery_ts
    BY <1>1, <1>7 DEF UpfHeartbeat, RequestsWellFormed, WellFormed
  <2>2. assoc' = assoc /\ UNCHANGED <<session, next_seid, epoch>>
    BY <1>1, <1>3, <1>7, <2>1, UpfHeartbeatEffect DEF OneTimestamp
  <2>3. QED BY <1>1, <1>5, <1>6, <1>7, <2>1, <2>2, UpfHeartbeatEffect
<1>8. ASSUME UpfStep, NEW r \in to_upf, UpfAssociation(r) PROVE RInv'
  <2>1. r.kind = "association" /\ r.ts = recovery_ts
    BY <1>1, <1>8 DEF UpfAssociation, RequestsWellFormed, WellFormed
  <2>2. /\ assoc' = assoc \/ (assoc[Smf] = None /\ assoc'[Smf] # None /\ assoc'[Smf].ts = recovery_ts)
        /\ UNCHANGED <<session, next_seid, epoch>>
    BY <1>1, <1>3, <1>8, <2>1, UpfAssociationEffect DEF OneTimestamp
  <2>3. QED BY <1>1, <1>5, <1>6, <1>8, <2>1, <2>2, UpfAssociationEffect
<1>9. ASSUME UpfStep, NEW r \in to_upf, UpfEstablishment(r) PROVE RInv'
  <2>1. r.cp = 1 /\ sessions' = sessions
    BY <1>1, <1>9, UpfEffect DEF UpfEstablishment, RequestsWellFormed, WellFormed
  <2>2. /\ assoc'[Smf] # None /\ assoc'[Smf].ts = assoc[Smf].ts /\ assoc[Smf] # None /\ 1 \in assoc'[Smf].sessions
        /\ next_seid \in Seids /\ session'[next_seid] # None /\ session'[next_seid].cp = 1
        /\ \A s \in Seids : s # next_seid => session'[s] = session[s]
        /\ epoch' = epoch
    BY <1>1, <1>9, <2>1, UpfEstablishmentEffect
  <2>3. OneTimestamp' /\ OneCp' /\ AllTouchable'
    BY <1>1, <1>2, <1>3, <1>9, <2>2, CurrentNew DEF OneTimestamp, OneCp, AllTouchable
  <2>4. KnownEstablished => KnownEstablished'
    <3>1. /\ \A m \in to_smf : m.kind = "establishment" => m.seid \in Seids
          /\ \A c \in Cps : sessions[c] # None => sessions[c].seid \in Seids
      BY <1>1 DEF ResponsesHandedOut, HandedOut
    <3>2. \A m \in to_smf' : m \in to_smf \/ m.seid = next_seid
      BY <1>9, EstablishmentAnswer
    <3>3. QED BY <2>1, <2>2, <3>1, <3>2 DEF KnownEstablished
  <2>5. QED BY <1>2, <1>3, <2>3, <2>4 DEF RInv
<1>10. ASSUME UpfStep, NEW r \in to_upf, UpfModification(r) PROVE RInv'
  <2>1. /\ UNCHANGED <<assoc, next_seid, epoch, sessions>>
        /\ \A s \in Seids : /\ session'[s] # None <=> session[s] # None
                            /\ session[s] # None => session'[s].cp = session[s].cp
    BY <1>1, <1>10, UpfModificationEffect, UpfEffect
  <2>2. \A m \in to_smf' : m \in to_smf \/ m.kind # "establishment"
    BY <1>1, <1>6, <1>10, UpfModificationEffect
  <2>3. OneTimestamp' /\ OneCp' /\ (AllTouchable => AllTouchable')
    BY <1>2, <1>3, <2>1 DEF OneTimestamp, OneCp, AllTouchable, Current, Upf!Established
  <2>4. KnownEstablished => KnownEstablished'
    <3>1. /\ \A m \in to_smf : m.kind = "establishment" => m.seid \in Seids
          /\ \A c \in Cps : sessions[c] # None => sessions[c].seid \in Seids
      BY <1>1 DEF ResponsesHandedOut, HandedOut
    <3>2. QED BY <2>1, <2>2, <3>1 DEF KnownEstablished
  <2>5. QED BY <1>2, <1>3, <2>3, <2>4 DEF RInv
<1>11. ASSUME UpfStep, NEW r \in to_upf, UpfDeletion(r) PROVE RInv'
  <2>1. ~BeforeDeletion
    BY <1>1, <1>11, UpfDeletionEffect DEF RequestsWellFormed, WellFormed, BeforeDeletion
  <2>2. /\ assoc[Smf] # None /\ assoc'[Smf].ts = assoc[Smf].ts /\ r.seid \in Seids
        /\ session'[r.seid] = None /\ \A s \in Seids : s # r.seid => session'[s] = session[s]
        /\ next_seid' = next_seid
    BY <1>1, <1>11, UpfDeletionEffect
  <2>3. OneTimestamp' /\ OneCp'
    BY <1>2, <1>3, <2>2 DEF OneTimestamp, OneCp, Current, Upf!Established
  <2>4. QED BY <1>2, <2>1, <2>3 DEF RInv
<1>12. ASSUME UpfStep, NEW r \in to_upf, UpfRefuse(r) PROVE RInv'
  BY <1>5, <1>12 DEF UpfRefuse, upf
<1>13. ASSUME UpfStep, NEW kind \in {"upf_heartbeat", "report"}, UpfSends(kind) PROVE RInv'
  <2>1. \A m \in to_smf' : m \in to_smf \/ m.kind # "establishment"
    BY <1>13 DEF UpfSends, With
  <2>2. QED BY <1>5, <1>13, <2>1 DEF UpfSends, lifecycle
<1>14. ASSUME UpfStep, UpfRestart PROVE RInv'
  <2>1. epoch' = epoch + 1 /\ assoc'[Smf] = None /\ UNCHANGED <<to_smf, sessions>> /\ Clean'
    BY <1>14, NoneCurrent, UpfEffect DEF UpfRestart
  <2>2. /\ \A m \in to_smf : m.kind = "establishment" => m.epoch # epoch + 1
        /\ \A c \in Cps : sessions[c] # None => sessions[c].epoch # epoch + 1
    BY <1>1 DEF ResponsesHandedOut, HandedOut
  <2>3. OneTimestamp' /\ OneCp' /\ AllTouchable' /\ KnownEstablished'
    BY <2>1, <2>2 DEF OneTimestamp, OneCp, AllTouchable, KnownEstablished, Clean
  <2>4. QED BY <2>3 DEF RInv
<1>15. QED
  BY <1>4, <1>7, <1>8, <1>9, <1>10, <1>11, <1>12, <1>13, <1>14, NextSides DEF UpfStep

-----------------------------------------------------------------------------
(* A scenario that passes leaves nothing behind.                           *)

(* A Deletion Request carries the SEID of the session the scenario knows,  *)
(* and one that is sent again the same.                                    *)
LEMMA MeantStep ==
    ASSUME TInv, mode = "run", OneSession, DeletionsMeant, SmfStep
    PROVE  DeletionsMeant'
<1>1. TypeOK /\ mode \in Modes /\ "user" \in Tasks /\ "keepalive" \in Tasks /\ UNCHANGED <<session, next_seid>>
  BY SmfEffect DEF TInv, TypeOK, Tasks
<1>2. ASSUME NEW r, Meant(r) PROVE Meant(r)'
  BY <1>1, <1>2 DEF Meant, Current, Upf!Established
<1>3. ASSUME to_upf' \subseteq to_upf, \A t \in Tasks : call'[t] \in {call[t], None}
      PROVE  DeletionsMeant'
  BY <1>2, <1>3 DEF DeletionsMeant
<1>4. ASSUME NEW t \in Tasks, NEW kind, NEW seq, NEW ts, NEW cp, NEW seid,
             Send(t, Request(kind, seq, ts, cp, seid)),
             kind = "deletion" => \A s \in Seids : Current(s) => seid = s
      PROVE  DeletionsMeant'
  <2> DEFINE r == Request(kind, seq, ts, cp, seid)
  <2>1. r.kind = kind /\ r.seid = seid /\ Datagram(r).kind = kind /\ Datagram(r).seid = seid
    BY DEF Request, Datagram
  <2>2. /\ to_upf' \subseteq to_upf \cup {Datagram(r)}
        /\ \A u \in Tasks : call'[u] = IF u = t THEN r ELSE call[u]
    BY <1>1, <1>4 DEF Send, With, TypeOK
  <2> HIDE DEF r
  <2>3. Meant(r) /\ Meant(Datagram(r))
    BY <1>4, <2>1 DEF Meant
  <2>4. QED BY <1>2, <2>2, <2>3 DEF DeletionsMeant
<1>5. ASSUME NEW t \in Tasks, NEW m \in to_smf, Returns(t, m), to_upf' = to_upf PROVE DeletionsMeant'
  BY <1>1, <1>3, <1>5, ReturnsFacts
<1>6. CASE KeepaliveStep
  <2>1. CASE KaHeartbeat
    <3>1. Send("keepalive", Request("heartbeat", KaSeq(ka_seq), recovery_ts, 0, 0))
      BY <2>1 DEF KaHeartbeat
    <3>2. QED BY <1>1, <1>4, <3>1
  <2>2. CASE KaReassociate
    <3>1. Send("keepalive", Request("association", KaSeq(ka_seq), recovery_ts, 0, 0))
      BY <2>2 DEF KaReassociate
    <3>2. QED BY <1>1, <1>4, <3>1
  <2>3. QED BY <1>1, <1>5, <1>6, <2>1, <2>2 DEF KeepaliveStep, KaAnswered, KaReassociated
<1>7. CASE ScenarioStep
  <2>1. CASE ScenarioAssociate
    <3>1. Send("user", Request("association", next_seq, recovery_ts, 0, 0))
      BY <2>1 DEF ScenarioAssociate
    <3>2. QED BY <1>1, <1>4, <3>1
  <2>2. CASE ScenarioEstablish
    <3>1. Send("user", Request("establishment", next_seq, 0, next_cp, 0))
      BY <2>2 DEF ScenarioEstablish
    <3>2. QED BY <1>1, <1>4, <3>1
  <2>3. CASE ScenarioModify
    <3>1. Send("user", Request("modification", next_seq, 0, 0, MySeid))
      BY <2>3 DEF ScenarioModify
    <3>2. QED BY <1>1, <1>4, <3>1
  <2>4. CASE ScenarioDelete
    <3>1. Send("user", Request("deletion", next_seq, 0, 0, MySeid)) /\ pc["user"] = "delete"
      BY <2>4 DEF ScenarioDelete
    <3>2. MySeid = sessions[1].seid /\ sessions[1] # None /\ 1 \in Cps
      BY <1>1, <3>1, MySeidFacts, NumberFacts DEF TInv
    <3>3. \A s \in Seids : Current(s) => MySeid = s
      BY <3>2 DEF OneSession
    <3>4. QED BY <1>1, <1>4, <3>1, <3>3
  <2>5. QED BY <1>1, <1>5, <1>7, <2>1, <2>2, <2>3, <2>4
            DEF ScenarioStep, ScenarioAssociated, ScenarioEstablished, ScenarioModified, ScenarioDeleted
<1>8. ASSUME NEW t \in Tasks, Swallow(t) PROVE DeletionsMeant'
  BY <1>3, <1>8 DEF Swallow, smf
<1>9. ASSUME NEW t \in Tasks, Resend(t) PROVE DeletionsMeant'
  <2> DEFINE again == [call[t] EXCEPT !.attempt = @ + 1]
  <2>1. call[t] \in Requests /\ call[t] # None /\ call[t].attempt < MaxRetries[mode]
    BY <1>1, <1>9 DEF Resend, TypeOK
  <2>2. again \in Requests /\ again.kind = call[t].kind /\ again.seid = call[t].seid
    BY <1>1, <2>1, BoundFacts DEF Requests
  <2>3. to_upf' \subseteq to_upf \cup {Datagram(again)} /\ call' = [call EXCEPT ![t] = again]
    BY <1>9 DEF Resend, With
  <2> HIDE DEF again
  <2>4. \A u \in Tasks : call'[u] = IF u = t THEN again ELSE call[u]
    BY <1>1, <2>3 DEF TypeOK
  <2>5. Datagram(again).kind = call[t].kind /\ Datagram(again).seid = call[t].seid
    BY <1>1, <2>2, DatagramFacts
  <2>6. Meant(again) /\ Meant(Datagram(again))
    BY <2>1, <2>2, <2>5 DEF DeletionsMeant, Meant
  <2>7. QED BY <1>2, <2>3, <2>4, <2>6 DEF DeletionsMeant
<1>10. ASSUME NEW t \in Tasks, GiveUp(t) PROVE DeletionsMeant'
  <2>1. to_upf' = to_upf /\ call' = [call EXCEPT ![t] = None]
    BY <1>10 DEF GiveUp
  <2>2. QED BY <1>1, <1>3, <2>1 DEF TypeOK
<1>11. ~MenuStep /\ ~CommandStep
  BY RunOnly
<1>12. QED BY <1>6, <1>7, <1>8, <1>9, <1>10, <1>11 DEF SmfStep

(* smf-sim sends no Establishment Request and learns of no session. *)
LEMMA LeakQuiet ==
    ASSUME LeakFree, UNCHANGED <<session, next_seid, epoch, next_cp>>, DeletionsMeant',
           \A r \in to_upf' : r \in to_upf \/ r.kind # "establishment",
           to_smf' \subseteq to_smf, sessions' = sessions,
           \/ pc'["user"] = pc["user"]
           \/ /\ pc["user"] \notin {"establish", "delete", "passed"} /\ pc'["user"] # "passed"
    PROVE  LeakFree'
<1>1. (Clean' <=> Clean) /\ \A s \in Seids : Current(s)' <=> Current(s)
  BY DEF Clean, Current, Upf!Established
<1>2. RequestUnderWay' /\ OneSession' /\ NothingBefore'
  BY <1>1 DEF LeakFree, RequestUnderWay, OneSession, NothingBefore
<1>3. DeletedClean'
  BY <1>1 DEF LeakFree, DeletedClean
<1>4. QED BY <1>2, <1>3 DEF LeakFree

(* The UPF answers something else than an Establishment or a Deletion. *)
LEMMA LeakQuietUpf ==
    ASSUME TInv, LeakFree, UpfStep, \A s \in Seids : session'[s] # None => session[s] # None,
           UNCHANGED <<next_seid, epoch>>,
           \A m \in to_smf' : m \in to_smf \/ m.kind \notin {"establishment", "deletion"}
    PROVE  LeakFree'
<1>1. to_upf' \subseteq to_upf /\ UNCHANGED <<pc, call, sessions, next_cp>>
  BY UpfEffect
<1>2. \A s \in Seids : Current(s)' => Current(s)
  BY CurrentBefore
<1>3. Clean => Clean'
  BY <1>2 DEF Clean
<1>4. RequestUnderWay' /\ OneSession' /\ NothingBefore'
  BY <1>1, <1>2, <1>3 DEF LeakFree, RequestUnderWay, OneSession, NothingBefore
<1>5. DeletedClean'
  BY <1>1, <1>3 DEF LeakFree, DeletedClean
<1>6. DeletionsMeant'
  BY <1>1, <1>2 DEF LeakFree, DeletionsMeant, Meant
<1>7. QED BY <1>4, <1>5, <1>6 DEF LeakFree

(* The one Establishment Request makes at most one session, and the        *)
(* answered Deletion was for that one.                                     *)
LEMMA LInvStep == ASSUME TInv, LInv, Next PROVE LInv'
<1>1. mode' = mode /\ TypeOK /\ RequestsWellFormed /\ ScenarioProgress /\ "user" \in Tasks /\ "user" # "keepalive"
  BY TypeStep DEF TInv, Tasks
<1> SUFFICES ASSUME mode = "run", 1 \notin resent', pc'["user"] # "failed" PROVE LeakFree'
  BY <1>1 DEF LInv
<1>2. pc["user"] # "failed" /\ next_cp \in Nat
  BY <1>1, RunTransition, NumberFacts
<1>3. pc \in [Tasks -> {"off", "idle", "reassociate", "associate", "establish",
        "modify", "delete", "passed", "failed", "connect", "ready", "shell", "command", "reports"}]
  BY <1>1 DEF TypeOK
<1>4. CASE UpfStep
  <2>1. resent' = resent /\ UNCHANGED <<pc, call, sessions, next_cp>> /\ to_upf' \subseteq to_upf
    BY <1>4, UpfEffect
  <2>2. LeakFree
    BY <1>2, <2>1 DEF LInv
  <2>3. ASSUME NEW r \in to_upf, r.kind \notin {"establishment", "deletion"}, NEW s, Answer(r, s)
        PROVE  \A m \in to_smf' : m \in to_smf \/ m.kind \notin {"establishment", "deletion"}
    BY <2>3 DEF Answer, With
  <2>4. ASSUME NEW r \in to_upf, UpfHeartbeat(r) PROVE LeakFree'
    <3>1. r.kind = "heartbeat"
      BY <2>4 DEF UpfHeartbeat
    <3>2. QED BY <1>1, <1>4, <2>2, <2>3, <2>4, <3>1, UpfHeartbeatEffect, LeakQuietUpf
  <2>5. ASSUME NEW r \in to_upf, UpfAssociation(r) PROVE LeakFree'
    <3>1. r.kind = "association"
      BY <2>5 DEF UpfAssociation
    <3>2. QED BY <1>1, <1>4, <2>2, <2>3, <2>5, <3>1, UpfAssociationEffect, LeakQuietUpf
  <2>6. ASSUME NEW r \in to_upf, UpfModification(r) PROVE LeakFree'
    BY <1>1, <1>4, <2>2, <2>3, <2>6, UpfModificationEffect, LeakQuietUpf
  <2>7. ASSUME NEW r \in to_upf, UpfRefuse(r) PROVE LeakFree'
    BY <1>4, <2>2, <2>7, LeakQuietUpf DEF UpfRefuse, upf
  <2>8. ASSUME NEW kind \in {"upf_heartbeat", "report"}, UpfSends(kind) PROVE LeakFree'
    <3>1. \A m \in to_smf' : m \in to_smf \/ m.kind \notin {"establishment", "deletion"}
      BY <2>8 DEF UpfSends, With
    <3>2. QED BY <1>4, <2>2, <2>8, <3>1, LeakQuietUpf DEF UpfSends, lifecycle
  <2>9. CASE UpfRestart
    <3>1. Clean' /\ UNCHANGED <<to_upf, to_smf>>
      BY <2>9, NoneCurrent DEF UpfRestart
    <3>2. RequestUnderWay' /\ NothingBefore' /\ DeletedClean'
      BY <2>1, <2>2, <3>1 DEF LeakFree, RequestUnderWay, NothingBefore, DeletedClean
    <3>3. OneSession' /\ DeletionsMeant'
      BY <3>1 DEF Clean, OneSession, DeletionsMeant, Meant
    <3>4. QED BY <3>2, <3>3 DEF LeakFree
  <2>10. ASSUME NEW r \in to_upf, UpfEstablishment(r) PROVE LeakFree'
    <3>1. r.kind = "establishment" /\ next_cp = 2 /\ to_upf' = to_upf \ {r}
      BY <1>1, <2>10 DEF UpfEstablishment, Answer, RequestsWellFormed, WellFormed
    <3>2. /\ pc["user"] = "establish" /\ Clean
          /\ \A q \in to_upf : q.kind = "establishment" => q = r
          /\ \A m \in to_smf : m.kind # "establishment"
          /\ \A c \in Cps : sessions[c] = None
      BY <2>2, <3>1 DEF LeakFree, RequestUnderWay
    <3>3. /\ next_seid \in Seids /\ \A s \in Seids : s # next_seid => session'[s] = session[s]
          /\ epoch' = epoch
      BY <1>1, <2>10, UpfEstablishmentEffect
    <3>4. \A m \in to_smf' : m \in to_smf \/ (m.kind = "establishment" /\ m.seid = next_seid /\ m.epoch = epoch)
      BY <2>10, EstablishmentAnswer
    <3>5. RequestUnderWay'
      BY <3>1, <3>2 DEF RequestUnderWay
    <3>6. \A s \in Seids : Current(s)' => s = next_seid
      BY <1>1, <2>10, <3>2, CurrentNew DEF Clean
    <3>7. OneSession'
      BY <2>1, <3>2, <3>3, <3>4, <3>6 DEF OneSession
    <3>8. NothingBefore' /\ DeletedClean'
      BY <2>1, <2>2, <3>1, <3>2, <3>4 DEF NothingBefore, LeakFree, DeletedClean
    <3>9. DeletionsMeant'
      <4>1. /\ \A q \in to_upf : q.kind # "deletion"
            /\ \A t \in Tasks : call[t] # None => call[t].kind # "deletion"
        BY <1>1, <3>2 DEF RequestsWellFormed, WellFormed
      <4>2. QED BY <2>1, <4>1 DEF DeletionsMeant, Meant
    <3>10. QED BY <3>5, <3>7, <3>8, <3>9 DEF LeakFree
  <2>11. ASSUME NEW r \in to_upf, UpfDeletion(r) PROVE LeakFree'
    <3>1. /\ r.kind = "deletion" /\ r.seid \in Seids /\ session[r.seid] # None
          /\ session'[r.seid] = None /\ \A s \in Seids : s # r.seid => session'[s] = session[s]
          /\ next_seid' = next_seid
      BY <1>1, <2>11, UpfDeletionEffect
    <3>2. pc["user"] \in {"delete", "passed"}
      BY <1>1, <1>2, <3>1 DEF RequestsWellFormed, WellFormed
    <3>3. Clean'
      <4>1. \A s \in Seids : Current(s) => s = r.seid
        BY <2>2, <3>1 DEF LeakFree, DeletionsMeant, Meant
      <4>2. QED BY <3>1, <4>1 DEF Clean, Current, Upf!Established
    <3>4. \A m \in to_smf' : m \in to_smf \/ m.kind = "deletion"
      BY <2>11, <3>1 DEF UpfDeletion, Answer, With
    <3>5. RequestUnderWay'
      BY <2>1, <2>2, <3>2 DEF LeakFree, RequestUnderWay
    <3>6. OneSession' /\ DeletedClean' /\ DeletionsMeant'
      BY <2>1, <3>2, <3>3 DEF Clean, OneSession, DeletedClean, DeletionsMeant, Meant
    <3>7. NothingBefore'
      BY <2>1, <2>2, <3>3, <3>4 DEF LeakFree, NothingBefore
    <3>8. QED BY <3>5, <3>6, <3>7 DEF LeakFree
  <2>12. QED BY <1>4, <2>4, <2>5, <2>6, <2>7, <2>8, <2>9, <2>10, <2>11 DEF UpfStep
<1>5. ASSUME SmfStep, resent' = resent
      PROVE  LeakFree /\ UNCHANGED <<session, next_seid, epoch>> /\ to_smf' \subseteq to_smf /\ DeletionsMeant'
  <2>1. LeakFree
    BY <1>2, <1>5 DEF LInv
  <2>2. DeletionsMeant'
    BY <1>5, <2>1, MeantStep DEF LeakFree
  <2>3. QED BY <1>5, <2>1, <2>2, SmfEffect
<1>6. ASSUME NEW t, NEW kind, NEW seq, NEW ts, NEW cp, NEW seid, kind # "establishment",
             Send(t, Request(kind, seq, ts, cp, seid))
      PROVE  \A r \in to_upf' : r \in to_upf \/ r.kind # "establishment"
  BY <1>6 DEF Send, With, Datagram, Request
<1>7. CASE KeepaliveStep
  <2>1. resent' = resent /\ UNCHANGED <<next_cp, sessions>> /\ pc'["user"] = pc["user"]
    BY <1>1, <1>3, <1>7 DEF KeepaliveStep, KaHeartbeat, KaReassociate, KaAnswered, KaReassociated
  <2>2. \A r \in to_upf' : r \in to_upf \/ r.kind # "establishment"
    <3>1. CASE KaHeartbeat
      BY <1>6, <3>1 DEF KaHeartbeat
    <3>2. CASE KaReassociate
      BY <1>6, <3>2 DEF KaReassociate
    <3>3. QED BY <1>7, <3>1, <3>2 DEF KeepaliveStep, KaAnswered, KaReassociated
  <2>3. QED BY <1>5, <1>7, <2>1, <2>2, LeakQuiet DEF SmfStep
<1>8. CASE ScenarioStep
  <2>1. resent' = resent
    BY <1>8 DEF ScenarioStep, ScenarioAssociate, ScenarioEstablish, ScenarioModify, ScenarioDelete,
       ScenarioAssociated, ScenarioEstablished, ScenarioModified, ScenarioDeleted
  <2>2. LeakFree /\ UNCHANGED <<session, next_seid, epoch>> /\ to_smf' \subseteq to_smf /\ DeletionsMeant'
    BY <1>5, <1>8, <2>1 DEF SmfStep
  <2>3. CASE ScenarioAssociate
    <3>1. \A r \in to_upf' : r \in to_upf \/ r.kind # "establishment"
      BY <1>6, <2>3 DEF ScenarioAssociate
    <3>2. QED BY <2>2, <2>3, <3>1, LeakQuiet DEF ScenarioAssociate
  <2>4. CASE ScenarioModify
    <3>1. \A r \in to_upf' : r \in to_upf \/ r.kind # "establishment"
      BY <1>6, <2>4 DEF ScenarioModify
    <3>2. QED BY <2>2, <2>4, <3>1, LeakQuiet DEF ScenarioModify
  <2>5. CASE ScenarioDelete
    <3>1. \A r \in to_upf' : r \in to_upf \/ r.kind # "establishment"
      BY <1>6, <2>5 DEF ScenarioDelete
    <3>2. QED BY <2>2, <2>5, <3>1, LeakQuiet DEF ScenarioDelete
  <2>6. CASE ScenarioEstablish
    <3>1. /\ pc["user"] = "establish" /\ pc' = pc /\ next_cp = 1 /\ next_cp' = 2 /\ UNCHANGED <<sessions, to_smf>>
          /\ Send("user", Request("establishment", next_seq, 0, next_cp, 0))
      BY <1>1, <2>6 DEF ScenarioEstablish, ScenarioProgress, Send
    <3>2. PICK d : to_upf' \subseteq to_upf \cup {d}
      BY <3>1 DEF Send, With
    <3>3. \A r \in to_upf : r.kind # "establishment"
      BY <1>1, <3>1 DEF RequestsWellFormed, WellFormed
    <3>4. Clean /\ (\A m \in to_smf : m.kind # "establishment") /\ \A c \in Cps : sessions[c] = None
      BY <2>2, <3>1 DEF LeakFree, NothingBefore
    <3>5. Clean'
      BY <2>2, <3>4 DEF Clean, Current, Upf!Established
    <3>6. RequestUnderWay'
      BY <3>1, <3>2, <3>3, <3>4, <3>5 DEF RequestUnderWay
    <3>7. OneSession' /\ NothingBefore'
      BY <3>1, <3>5 DEF Clean, OneSession, NothingBefore
    <3>8. DeletedClean'
      BY <2>2, <3>1, <3>5 DEF LeakFree, DeletedClean
    <3>9. QED BY <2>2, <3>6, <3>7, <3>8 DEF LeakFree
  <2>7. ASSUME NEW m \in to_smf, ScenarioAssociated(m) PROVE LeakFree'
    <3>1. /\ pc["user"] = "associate" /\ pc'["user"] \in {"associate", "establish"}
          /\ UNCHANGED <<next_cp, sessions, to_upf>>
      BY <1>1, <1>3, <2>7 DEF ScenarioAssociated
    <3>2. QED BY <2>2, <3>1, LeakQuiet
  <2>8. ASSUME NEW m \in to_smf, ScenarioModified(m) PROVE LeakFree'
    <3>1. /\ pc["user"] = "modify" /\ pc'["user"] \in {"delete", "failed"}
          /\ UNCHANGED <<next_cp, sessions, to_upf>>
      BY <1>1, <1>3, <2>8 DEF ScenarioModified
    <3>2. QED BY <2>2, <3>1, LeakQuiet
  <2>9. ASSUME NEW m \in to_smf, ScenarioEstablished(m) PROVE LeakFree'
    <3>1. /\ pc["user"] = "establish" /\ pc'["user"] = "modify" /\ UNCHANGED <<next_cp, to_upf>>
          /\ sessions' = [sessions EXCEPT ![call["user"].cp] = [seid |-> m.seid, epoch |-> m.epoch]]
          /\ call["user"] # None /\ m.kind = call["user"].kind
      BY <1>1, <1>3, <2>9 DEF ScenarioEstablished, Returns
    <3>2. m.kind = "establishment" /\ next_cp = 2
      BY <1>1, <3>1 DEF ScenarioProgress
    <3>3. \A c \in Cps : \/ sessions'[c] = sessions[c]
                         \/ sessions'[c].seid = m.seid /\ sessions'[c].epoch = m.epoch
      BY <1>1, <3>1 DEF TypeOK
    <3>4. \A r \in to_upf : r.kind # "establishment"
      BY <2>2, <3>2 DEF LeakFree, RequestUnderWay
    <3>5. RequestUnderWay' /\ NothingBefore'
      BY <3>1, <3>2, <3>4 DEF RequestUnderWay, NothingBefore
    <3>6. (Clean' <=> Clean) /\ \A s \in Seids : Current(s)' <=> Current(s)
      BY <2>2 DEF Clean, Current, Upf!Established
    <3>7. OneSession'
      BY <2>2, <3>2, <3>3, <3>6 DEF LeakFree, OneSession
    <3>8. DeletedClean'
      BY <2>2, <3>1, <3>6 DEF LeakFree, DeletedClean
    <3>9. QED BY <2>2, <3>5, <3>7, <3>8 DEF LeakFree
  <2>10. ASSUME NEW m \in to_smf, ScenarioDeleted(m) PROVE LeakFree'
    <3>1. /\ pc["user"] = "delete" /\ pc'["user"] = "passed" /\ UNCHANGED <<next_cp, to_upf>>
          /\ \A c \in Cps : sessions'[c] = None
          /\ call["user"] # None /\ m.kind = call["user"].kind
      BY <1>1, <1>3, <2>10 DEF ScenarioDeleted, Returns
    <3>2. m.kind = "deletion"
      BY <1>1, <3>1 DEF ScenarioProgress
    <3>3. Clean'
      BY <2>2, <3>2 DEF LeakFree, DeletedClean, Clean, Current, Upf!Established
    <3>4. RequestUnderWay' /\ OneSession' /\ DeletedClean'
      BY <2>2, <3>1, <3>3 DEF LeakFree, RequestUnderWay, OneSession, DeletedClean, Clean
    <3>5. NothingBefore'
      BY <2>2, <3>1, <3>3 DEF LeakFree, NothingBefore
    <3>6. QED BY <2>2, <3>4, <3>5 DEF LeakFree
  <2>11. QED BY <1>8, <2>3, <2>4, <2>5, <2>6, <2>7, <2>8, <2>9, <2>10 DEF ScenarioStep
<1>9. ASSUME NEW t \in Tasks, Swallow(t) PROVE LeakFree'
  <2>1. UNCHANGED <<pc, next_cp, sessions, resent, to_upf>>
    BY <1>9 DEF Swallow, smf
  <2>2. QED BY <1>5, <1>9, <2>1, LeakQuiet DEF SmfStep
<1>10. ASSUME NEW t \in Tasks, Resend(t) PROVE LeakFree'
  <2> DEFINE again == [call[t] EXCEPT !.attempt = @ + 1]
  <2>1. call[t] \in Requests /\ call[t] # None /\ call[t].attempt < MaxRetries[mode] /\ mode \in Modes
    BY <1>1, <1>10 DEF Resend, TypeOK
  <2>2. again \in Requests /\ again.kind = call[t].kind /\ again.cp = call[t].cp
    BY <2>1, BoundFacts DEF Requests
  <2>3. /\ to_upf' \subseteq to_upf \cup {Datagram(again)} /\ UNCHANGED <<pc, next_cp, sessions>>
        /\ resent' = IF again.kind = "establishment" THEN resent \cup {again.cp} ELSE resent
    BY <1>10 DEF Resend, With
  <2> HIDE DEF again
  <2>4. again.kind = "establishment" => again.cp = 1
    BY <1>1, <2>1, <2>2 DEF RequestsWellFormed, WellFormed
  <2>5. again.kind # "establishment" /\ resent' = resent
    BY <2>3, <2>4
  <2>6. \A r \in to_upf' : r \in to_upf \/ r.kind # "establishment"
    BY <2>1, <2>2, <2>3, <2>5, DatagramFacts
  <2>7. QED BY <1>5, <1>10, <2>3, <2>5, <2>6, LeakQuiet DEF SmfStep
<1>11. ASSUME NEW t \in Tasks, GiveUp(t) PROVE LeakFree'
  <2>1. pc' = [pc EXCEPT ![t] = AfterError(pc[t])] /\ UNCHANGED <<next_cp, sessions, resent, to_upf>>
    BY <1>11 DEF GiveUp, AfterError
  <2>2. pc'["user"] \in {pc["user"], AfterError(pc["user"])}
    BY <1>1, <1>3, <2>1
  <2>3. pc["user"] \in {"associate", "establish", "modify", "delete", "passed"}
    BY <1>2 DEF TInv, TasksOfMode
  <2>4. pc'["user"] = pc["user"]
    BY <2>2, <2>3, AfterErrorFacts
  <2>5. QED BY <1>5, <1>11, <2>1, <2>4, LeakQuiet DEF SmfStep
<1>12. KeepaliveStep \/ ScenarioStep \/ (\E t \in Tasks : Swallow(t) \/ Resend(t) \/ GiveUp(t)) \/ UpfStep
  BY RunSteps
<1>13. QED BY <1>4, <1>7, <1>8, <1>9, <1>10, <1>11, <1>12

-----------------------------------------------------------------------------
(* The invariant holds at the start ... *)
LEMMA InitIInv == Init => IInv
<1> SUFFICES ASSUME Init PROVE IInv
  OBVIOUS
<1>1. /\ to_upf = {} /\ to_smf = {} /\ sessions = [c \in Cps |-> None]
      /\ assoc = [n \in {Smf} |-> None] /\ session = [s \in Seids |-> None]
  BY DEF Init, Upf!Init
<1>2. TInv
  BY InitTInv
<1>3. NInv
  BY <1>1 DEF NInv, AnswersApart, AnswersNew, DistinctUpfSeids
<1>4. Clean /\ (\A t \in Tasks : call[t] = None) /\ pc["user"] # "passed"
  <2>1. "user" \in Tasks /\ mode \in {"run", "interactive", "send"}
    BY <1>2, ModeFacts DEF Tasks
  <2>2. QED BY <1>1, <2>1 DEF Init, Clean, Current, Upf!Established
<1>5. RInv
  BY <1>1, <1>4 DEF RInv, OneTimestamp, OneCp, AllTouchable, KnownEstablished, Clean
<1>6. LInv
  BY <1>1, <1>4 DEF LInv, LeakFree, RequestUnderWay, OneSession, NothingBefore, DeletedClean, DeletionsMeant, Clean
<1>7. QED BY <1>2, <1>3, <1>5, <1>6 DEF IInv

(* ... and every step keeps it. *)
LEMMA StepIInv == IInv /\ [Next]_vars => IInv'
<1> SUFFICES ASSUME IInv, [Next]_vars PROVE IInv'
  OBVIOUS
<1>1. CASE Next
  BY <1>1, TInvStep, NInvStep, RInvStep, LInvStep DEF IInv
<1>2. CASE UNCHANGED vars
  <2>1. UNCHANGED <<mode, pc, call, next_seq, next_cp, sessions, recovery_ts, clock, ka_seq, upf_ts, resent,
                    to_upf, to_smf, assoc, session, released, next_seid, epoch, upf_seq, saved>>
    BY <1>2 DEF vars, smf, upf
  <2>2. TypeOK'
    BY <2>1, SetsStay DEF IInv, TInv, TypeOK
  <2>3. TasksOfMode' /\ ScenarioProgress'
    BY <2>1 DEF IInv, TInv, TasksOfMode, ScenarioProgress
  <2>4. RequestsWellFormed' /\ ResponsesHandedOut'
    BY <2>1 DEF IInv, TInv, RequestsWellFormed, WellFormed, ResponsesHandedOut, HandedOut
  <2>5. NInv'
    BY <2>1 DEF IInv, NInv, AnswersApart, AnswersNew, DistinctUpfSeids
  <2>6. RInv'
    BY <2>1 DEF IInv, RInv, BeforeDeletion, OneTimestamp, OneCp, AllTouchable, KnownEstablished,
                Current, Upf!Established
  <2>7. LInv'
    BY <2>1 DEF IInv, LInv, LeakFree, RequestUnderWay, OneSession, NothingBefore, DeletedClean, DeletionsMeant,
                Meant, Clean, Current, Upf!Established
  <2>8. QED BY <2>2, <2>3, <2>4, <2>5, <2>6, <2>7 DEF IInv, TInv
<1>3. QED BY <1>1, <1>2

(* The invariant holds in every state. *)
LEMMA Invariance == Spec => []IInv
<1>1. QED BY InitIInv, StepIInv, PTL DEF Spec

-----------------------------------------------------------------------------
(* The state of smf-sim, the network and the UPF has its types; sequence   *)
(* numbers, retries and addresses stay within their bounds, and smf-sim    *)
(* only remembers SEIDs the UPF can hand out.                              *)
THEOREM TypeCorrect == Spec => []TypeOK
<1>1. IInv => TypeOK
  BY DEF IInv, TInv
<1>2. QED BY <1>1, Invariance, PTL

(* No two sessions of smf-sim have the same SEID of the UPF, although its  *)
(* tasks take each other's answers from the one socket and the menu does   *)
(* not look at sequence numbers.                                           *)
THEOREM SeidsApart == Spec => []DistinctUpfSeids
<1>1. IInv => DistinctUpfSeids
  BY DEF IInv, NInv
<1>2. QED BY <1>1, Invariance, PTL

(* Until it deletes it, the scenario's session is on the UPF and its own   *)
(* to modify, with any number of retransmissions, late answers and false   *)
(* alarms of the keepalive, unless the UPF was restarted.                  *)
THEOREM SessionReachable == Spec => []KnownSessionReachable
<1>1. IInv => KnownSessionReachable
  <2> SUFFICES ASSUME IInv, NEW c \in Cps, pc["user"] = "modify", sessions[c] # None, sessions[c].epoch = epoch
               PROVE  Upf!MayTouch(Smf, Smf, sessions[c].seid) /\ session[sessions[c].seid].cp = c
    BY DEF KnownSessionReachable
  <2> DEFINE s == sessions[c].seid
  <2>1. mode = "run" /\ c = 1 /\ s \in Seids /\ TypeOK
    BY ModeFacts DEF IInv, TInv, ScenarioProgress, ResponsesHandedOut, HandedOut
  <2>2. Current(s)
    BY <2>1 DEF IInv, TInv, ResponsesHandedOut, HandedOut, RInv, BeforeDeletion, KnownEstablished,
                Current, Upf!Established
  <2>3. session[s] # None /\ session[s].cp = 1 /\ assoc[Smf] # None /\ 1 \in assoc[Smf].sessions
    BY <2>1, <2>2 DEF IInv, RInv, BeforeDeletion, OneCp, AllTouchable, Current, Upf!Established
  <2>4. assoc[Smf].peer = Smf
    BY <2>1, <2>3 DEF TypeOK, Association
  <2>5. QED BY <2>1, <2>3, <2>4 DEF Upf!MayTouch, Upf!Associated, Upf!Established
<1>2. QED BY <1>1, Invariance, PTL

(* A scenario that reports PASSED has left no session that the UPF         *)
(* established in its present life, unless its Establishment Request was   *)
(* sent more than once: also when the UPF was restarted meanwhile, has     *)
(* sessions from Redis and hands their SEIDs out again.                    *)
THEOREM NoOtherLeak == Spec => []LeakOnlyByRetransmission
<1>1. IInv => LeakOnlyByRetransmission
  <2> SUFFICES ASSUME IInv, pc["user"] = "passed", NEW s \in Seids, Current(s)
               PROVE  session[s].cp \in resent
    BY DEF LeakOnlyByRetransmission
  <2>1. mode = "run" /\ session[s].cp = 1
    BY ModeFacts DEF IInv, RInv, OneCp
  <2>2. QED BY <2>1 DEF IInv, LInv, LeakFree, DeletedClean, Clean
<1>2. QED BY <1>1, Invariance, PTL
=============================================================================
