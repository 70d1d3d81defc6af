------------------------------- MODULE SmfSim -------------------------------
(***************************************************************************)
(* smf-sim talking to upf-edge over UDP: the transport with its retries    *)
(* and its one socket for all tasks (transport.rs), the response checks    *)
(* (validator.rs), the keepalive task (keepalive.rs), scenario 1           *)
(* (basic_lifecycle.rs), the menu (tui/runner.rs) and the single-message   *)
(* commands (main.rs).  The UPF is the one of SessionLifecycle, with the   *)
(* answers it gives, its own heartbeats and reports, and restarts, after   *)
(* which it has the sessions that Redis gives back.                        *)
(*                                                                         *)
(* A call is a send_and_recv in progress: call[t] is the request it sends. *)
(* The copies of an Establishment Request are told apart by their attempt  *)
(* number, so that several can be under way; the UPF answers a copy of any *)
(* other request as it did the first, or not at all.  Messages are delayed *)
(* and reordered; a lost message is one that is never delivered; the       *)
(* network itself does not duplicate.  A timeout may fire at any time.  A  *)
(* UE address, a gNB TEID and a CP-SEID are allocated together: the        *)
(* CP-SEID names them.                                                     *)
(***************************************************************************)
EXTENDS Naturals, FiniteSets

CONSTANTS
    Modes,          \* the commands smf-sim may be started with
    MaxRetries,     \* by mode: max_retries of the transport
    Capacity,       \* datagrams under way in each direction
    MaxTries,       \* bound on the Association Setups of the scenario
    MaxCommands,    \* bound on the commands of the menu
    MaxKaSeq,       \* by mode: bound on the keepalive's requests
    MaxSeid,        \* bound on the UPF's next_seid
    MaxEpoch,       \* by mode: bound on the lives of the UPF
    MaxUpfRequests, \* by mode: bound on heartbeats and reports of the UPF
    PoolSize,       \* UE addresses in the pool (single commands use the first)
    MaxTs,          \* by mode: bound on SMF processes and clock readings
    None

ASSUME BoundsAssumption ==
    /\ Modes \subseteq {"run", "interactive", "send"}
    /\ {Capacity, MaxTries, MaxCommands, MaxSeid} \subseteq Nat
    /\ PoolSize \in Nat \ {0}
    /\ {MaxRetries, MaxKaSeq, MaxUpfRequests} \subseteq [Modes -> Nat]
    /\ {MaxEpoch, MaxTs} \subseteq [Modes -> Nat \ {0}]

Tasks == {"keepalive", "user", "cmd"}
Kinds == {"heartbeat", "association", "establishment", "modification", "deletion"}
Cps == 1..PoolSize
Seids == 1..MaxSeid
Smf == "smf"

(* What SimState keeps of a session, and what the UPF keeps: sessions and  *)
(* the association.                                                        *)
SimSession == [seid : Seids, epoch : Nat]
UpfSession == [ue : Cps, cp : Cps, content : {"established"}]
Association == [peer : {Smf}, ts : Nat, sessions : SUBSET Cps]

ASSUME NoneAssumption ==
    /\ None \notin [kind : Kinds, seq : Nat, ts : Nat, cp : Nat, seid : Nat, attempt : Nat]
    /\ None \notin SimSession \cup UpfSession \cup Association

VARIABLES
    mode,         \* the command line
    pc, call,     \* by task
    next_seq, next_cp,   \* SimState
    sessions,     \* SimState::sessions, by CP-SEID
    recovery_ts,  \* RECOVERY_TS of the process
    clock,        \* the last time stamp taken from the clock
    ka_seq, upf_ts,      \* keepalive: requests sent, known time stamp of the UPF
    to_upf, to_smf,      \* the network
    assoc, session, released,    \* the UPF, see SessionLifecycle
    next_seid, epoch, upf_seq,
    saved,        \* by SEID: the sessions whose record may be found in Redis
    resent        \* history: CP-SEIDs whose Establishment was sent again

(* The keepalive task counts from 100, the rest from 1; the scenario needs *)
(* three numbers after its association.                                    *)
KaSeq(n) == 100 + n
MaxSeq == MaxTries + MaxCommands + 3
Seqs == 0..MaxSeq \cup {KaSeq(n) : n \in 0..MaxKaSeq[mode]} \cup {99}

(* ts: Recovery Time Stamp, cp: CP F-SEID, seid: SEID of the header, each  *)
(* 0 in a request that does not have it.                                   *)
Requests == [kind : Kinds, seq : Seqs, ts : 0..MaxTs[mode], cp : 0..PoolSize, seid : 0..MaxSeid,
             attempt : 0..MaxRetries[mode]]

(* epoch is the UPF's Recovery Time Stamp in an answer to a heartbeat or   *)
(* an association, and history in the others.                              *)
Responses == [kind : Kinds, seq : Seqs, seid : 0..MaxSeid, epoch : 1..MaxEpoch[mode]]
UpfRequests == [kind : {"upf_heartbeat", "report"}, seq : 0..MaxUpfRequests[mode]]

smf == <<mode, pc, call, next_seq, next_cp, sessions, recovery_ts, clock, ka_seq, upf_ts, resent>>
lifecycle == <<assoc, session, released>>
upf == <<assoc, session, released, next_seid, epoch, upf_seq, saved>>
vars == <<smf, to_upf, to_smf, upf>>

(* The content of a session is of no concern here, and not told apart from *)
(* what a Modification makes of it.                                        *)
ContentOf(q, s) == "established"
Changes(c) == {c}

Upf == INSTANCE SessionLifecycle WITH
    Peers <- {Smf}, Nodes <- {Smf}, NodeOf <- [p \in {Smf} |-> Smf], CpSeids <- Cps,
    Timestamps <- Nat, Requests <- [src : {Smf}, cp : Cps, ue : Cps]

TypeOK ==
    /\ mode \in Modes
    /\ pc \in [Tasks -> {"off", "idle", "reassociate", "associate", "establish", "modify", "delete",
                         "passed", "failed", "connect", "ready", "shell", "command", "reports"}]
    /\ call \in [Tasks -> Requests \cup {None}]
    /\ next_seq \in 1..MaxSeq + 1 /\ next_cp \in 1..PoolSize + 1
    /\ sessions \in [Cps -> SimSession \cup {None}]
    /\ \A c \in Cps : sessions[c] # None => sessions[c].epoch \in 1..MaxEpoch[mode]
    /\ recovery_ts \in 1..MaxTs[mode] /\ clock \in recovery_ts..MaxTs[mode]
    /\ ka_seq \in 0..MaxKaSeq[mode] /\ upf_ts \in 0..MaxEpoch[mode]
    /\ to_upf \subseteq Requests
    /\ to_smf \subseteq Responses \cup UpfRequests
    /\ assoc \in [{Smf} -> Association \cup {None}]
    /\ session \in [Seids -> UpfSession \cup {None}]
    /\ released \subseteq Seids
    /\ next_seid \in 1..MaxSeid + 1 /\ epoch \in 1..MaxEpoch[mode] /\ upf_seq \in 0..MaxUpfRequests[mode]
    /\ saved \in [Seids -> SUBSET Cps]
    /\ resent \subseteq Cps

Init ==
    /\ mode \in Modes
    /\ pc = [t \in Tasks |->
               CASE t = "keepalive" -> IF mode = "send" THEN "off" ELSE "idle"
                 [] t = "cmd"       -> IF mode = "interactive" THEN "ready" ELSE "off"
                 [] t = "user"      -> CASE mode = "run" -> "associate"
                                         [] mode = "interactive" -> "connect"
                                         [] mode = "send" -> "shell"]
    /\ call = [t \in Tasks |-> None]
    /\ next_seq = 1 /\ next_cp = 1
    /\ sessions = [c \in Cps |-> None]
    /\ recovery_ts = 1 /\ clock = 1
    /\ ka_seq = 0 /\ upf_ts = 0
    /\ to_upf = {} /\ to_smf = {}
    /\ Upf!Init
    /\ next_seid = 1 /\ epoch = 1 /\ upf_seq = 0
    /\ saved = [s \in Seids |-> {}]
    /\ resent = {}

-----------------------------------------------------------------------------
(* PfcpTransport::send_and_recv *)

(* The process is still there: main returns when the scenario ends. *)
Running == pc["user"] \notin {"passed", "failed"}

Request(kind, seq, ts, cp, seid) ==
    [kind |-> kind, seq |-> seq, ts |-> ts, cp |-> cp, seid |-> seid, attempt |-> 0]

(* UDP: a datagram that finds no room is dropped. *)
With(net, m) == IF Cardinality(net) < Capacity THEN net \cup {m} ELSE net

Datagram(r) == IF r.kind = "establishment" THEN r ELSE [r EXCEPT !.attempt = 0]

Send(t, r) ==
    /\ Running
    /\ call[t] = None
    /\ call' = [call EXCEPT ![t] = r]
    /\ to_upf' = With(to_upf, Datagram(r))

(* The first answer of the expected type ends the call, whoever asked. *)
Returns(t, m) ==
    /\ Running
    /\ call[t] # None
    /\ m \in to_smf /\ m.kind = call[t].kind
    /\ call' = [call EXCEPT ![t] = None]
    /\ to_smf' = to_smf \ {m}

(* Anything else the task takes from the socket is gone: handle_unsolicited *)
(* answers a heartbeat (which the UPF ignores) and ignores the rest.        *)
Swallow(t) ==
    /\ Running
    /\ call[t] # None
    /\ \E m \in to_smf : m.kind # call[t].kind /\ to_smf' = to_smf \ {m}
    /\ UNCHANGED <<smf, to_upf, upf>>

\* Mutant: an attempt does not count.
ResendForever(t) ==
    /\ Running
    /\ call[t] # None
    /\ to_upf' = With(to_upf, Datagram(call[t]))
    /\ resent' = IF call[t].kind = "establishment" THEN resent \cup {call[t].cp} ELSE resent
    /\ UNCHANGED <<mode, pc, call, next_seq, next_cp, sessions, recovery_ts, clock, ka_seq, upf_ts, to_smf, upf>>

(* The deadline passes: the same octets are sent again. *)
Resend(t) ==
    LET again == [call[t] EXCEPT !.attempt = @ + 1] IN
    /\ Running
    /\ call[t] # None /\ call[t].attempt < MaxRetries[mode]
    /\ call' = [call EXCEPT ![t] = again]
    /\ to_upf' = With(to_upf, Datagram(again))
    /\ resent' = IF again.kind = "establishment" THEN resent \cup {again.cp} ELSE resent
    /\ UNCHANGED <<mode, pc, next_seq, next_cp, sessions, recovery_ts, clock, ka_seq, upf_ts, to_smf, upf>>

(* The retries are used up: what the caller does with the error.  The      *)
(* association loops try again after a pause, the scenario fails, the      *)
(* keepalive re-associates, a single-message process ends.                 *)
GiveUp(t) ==
    /\ Running
    /\ call[t] # None /\ call[t].attempt = MaxRetries[mode]
    /\ call' = [call EXCEPT ![t] = None]
    /\ pc' = [pc EXCEPT ![t] = CASE @ \in {"establish", "modify", "delete"} -> "failed"
                                 [] @ = "idle" -> "reassociate"
                                 [] @ = "reassociate" -> "idle"
                                 [] @ = "command" -> "shell"
                                 [] OTHER -> @]
    /\ UNCHANGED <<mode, next_seq, next_cp, sessions, recovery_ts, clock, ka_seq, upf_ts, resent,
                   to_upf, to_smf, upf>>

(* validate_response: the type is known to fit and the UPF only ever       *)
(* accepts, so the sequence number decides.                                *)
Valid(t, m) == m.seq = call[t].seq

-----------------------------------------------------------------------------
(* keepalive::run *)

\* Mutant: the heartbeat carries the time of day, as the menu's does.
KaHeartbeatNow ==
    /\ pc["keepalive"] = "idle"
    /\ ka_seq < MaxKaSeq[mode] /\ clock < MaxTs[mode]
    /\ Send("keepalive", Request("heartbeat", KaSeq(ka_seq), clock + 1, 0, 0))
    /\ ka_seq' = ka_seq + 1 /\ clock' = clock + 1
    /\ UNCHANGED <<mode, pc, next_seq, next_cp, sessions, recovery_ts, upf_ts, resent, to_smf, upf>>

KaHeartbeat ==
    /\ pc["keepalive"] = "idle"
    /\ ka_seq < MaxKaSeq[mode]
    /\ Send("keepalive", Request("heartbeat", KaSeq(ka_seq), recovery_ts, 0, 0))
    /\ ka_seq' = ka_seq + 1
    /\ UNCHANGED <<mode, pc, next_seq, next_cp, sessions, recovery_ts, clock, upf_ts, resent, to_smf, upf>>

(* Any heartbeat response counts; a time stamp other than the known one is *)
(* taken for a restart of the UPF.                                         *)
KaAnswered(m) ==
    /\ pc["keepalive"] = "idle"
    /\ Returns("keepalive", m)
    /\ upf_ts' = m.epoch
    /\ pc' = [pc EXCEPT !["keepalive"] = IF upf_ts \in {0, m.epoch} THEN "idle" ELSE "reassociate"]
    /\ UNCHANGED <<mode, next_seq, next_cp, sessions, recovery_ts, clock, ka_seq, resent, to_upf, upf>>

KaReassociate ==
    /\ pc["keepalive"] = "reassociate"
    /\ ka_seq < MaxKaSeq[mode]
    /\ Send("keepalive", Request("association", KaSeq(ka_seq), recovery_ts, 0, 0))
    /\ ka_seq' = ka_seq + 1
    /\ UNCHANGED <<mode, pc, next_seq, next_cp, sessions, recovery_ts, clock, upf_ts, resent, to_smf, upf>>

KaReassociated(m) ==
    /\ pc["keepalive"] = "reassociate"
    /\ Returns("keepalive", m)
    /\ upf_ts' = IF Valid("keepalive", m) THEN m.epoch ELSE upf_ts
    /\ pc' = [pc EXCEPT !["keepalive"] = "idle"]
    /\ UNCHANGED <<mode, next_seq, next_cp, sessions, recovery_ts, clock, ka_seq, resent, to_upf, upf>>

-----------------------------------------------------------------------------
(* basic_lifecycle::run *)

ScenarioAssociate ==
    /\ pc["user"] = "associate"
    /\ next_seq <= MaxTries
    /\ Send("user", Request("association", next_seq, recovery_ts, 0, 0))
    /\ next_seq' = next_seq + 1
    /\ UNCHANGED <<mode, pc, next_cp, sessions, recovery_ts, clock, ka_seq, upf_ts, resent, to_smf, upf>>

ScenarioAssociated(m) ==
    /\ pc["user"] = "associate"
    /\ Returns("user", m)
    /\ pc' = [pc EXCEPT !["user"] = IF Valid("user", m) THEN "establish" ELSE "associate"]
    /\ UNCHANGED <<mode, next_seq, next_cp, sessions, recovery_ts, clock, ka_seq, upf_ts, resent, to_upf, upf>>

ScenarioEstablish ==
    /\ pc["user"] = "establish"
    /\ next_cp \in Cps
    /\ Send("user", Request("establishment", next_seq, 0, next_cp, 0))
    /\ next_seq' = next_seq + 1 /\ next_cp' = next_cp + 1
    /\ UNCHANGED <<mode, pc, sessions, recovery_ts, clock, ka_seq, upf_ts, resent, to_smf, upf>>

ScenarioEstablished(m) ==
    /\ pc["user"] = "establish"
    /\ Returns("user", m)
    /\ IF Valid("user", m)
       THEN /\ sessions' = [sessions EXCEPT ![call["user"].cp] = [seid |-> m.seid, epoch |-> m.epoch]]
            /\ pc' = [pc EXCEPT !["user"] = "modify"]
       ELSE /\ pc' = [pc EXCEPT !["user"] = "failed"]
            /\ UNCHANGED sessions
    /\ UNCHANGED <<mode, next_seq, next_cp, recovery_ts, clock, ka_seq, upf_ts, resent, to_upf, upf>>

(* upf_seid of the session established before. *)
MySeid == LET c == CHOOSE c \in Cps : sessions[c] # None IN sessions[c].seid

(* After the time of three heartbeats. *)
ScenarioModify ==
    /\ pc["user"] = "modify"
    /\ Send("user", Request("modification", next_seq, 0, 0, MySeid))
    /\ next_seq' = next_seq + 1
    /\ UNCHANGED <<mode, pc, next_cp, sessions, recovery_ts, clock, ka_seq, upf_ts, resent, to_smf, upf>>

ScenarioModified(m) ==
    /\ pc["user"] = "modify"
    /\ Returns("user", m)
    /\ pc' = [pc EXCEPT !["user"] = IF Valid("user", m) THEN "delete" ELSE "failed"]
    /\ UNCHANGED <<mode, next_seq, next_cp, sessions, recovery_ts, clock, ka_seq, upf_ts, resent, to_upf, upf>>

ScenarioDelete ==
    /\ pc["user"] = "delete"
    /\ Send("user", Request("deletion", next_seq, 0, 0, MySeid))
    /\ next_seq' = next_seq + 1
    /\ UNCHANGED <<mode, pc, next_cp, sessions, recovery_ts, clock, ka_seq, upf_ts, resent, to_smf, upf>>

ScenarioDeleted(m) ==
    /\ pc["user"] = "delete"
    /\ Returns("user", m)
    /\ IF Valid("user", m)
       THEN /\ sessions' = [c \in Cps |-> None]
            /\ pc' = [pc EXCEPT !["user"] = "passed"]
       ELSE /\ pc' = [pc EXCEPT !["user"] = "failed"]
            /\ UNCHANGED sessions
    /\ UNCHANGED <<mode, next_seq, next_cp, recovery_ts, clock, ka_seq, upf_ts, resent, to_upf, upf>>

-----------------------------------------------------------------------------
(* The menu: the association task, then commands, each in a task of its    *)
(* own.  "user" takes commands when its association is there, "cmd" at any *)
(* time.  An add command for several sessions is several in a row.         *)

Connect ==
    /\ pc["user"] = "connect"
    /\ Send("user", Request("association", 1, recovery_ts, 0, 0))
    /\ UNCHANGED <<mode, pc, next_seq, next_cp, sessions, recovery_ts, clock, ka_seq, upf_ts, resent, to_smf, upf>>

Connected(m) ==
    /\ pc["user"] = "connect"
    /\ Returns("user", m)
    /\ pc' = [pc EXCEPT !["user"] = IF Valid("user", m) THEN "ready" ELSE "connect"]
    /\ UNCHANGED <<mode, next_seq, next_cp, sessions, recovery_ts, clock, ka_seq, upf_ts, resent, to_upf, upf>>

\* Mutant: addresses are handed out beyond the end of the pool.
AddSessionUnchecked(t) ==
    /\ pc[t] = "ready"
    /\ next_seq <= MaxCommands
    /\ Send(t, Request("establishment", next_seq, 0, next_cp, 0))
    /\ next_seq' = next_seq + 1 /\ next_cp' = next_cp + 1
    /\ UNCHANGED <<mode, pc, sessions, recovery_ts, clock, ka_seq, upf_ts, resent, to_smf, upf>>

AddSession(t) ==
    /\ pc[t] = "ready"
    /\ next_seq <= MaxCommands /\ next_cp \in Cps
    /\ Send(t, Request("establishment", next_seq, 0, next_cp, 0))
    /\ next_seq' = next_seq + 1 /\ next_cp' = next_cp + 1
    /\ UNCHANGED <<mode, pc, sessions, recovery_ts, clock, ka_seq, upf_ts, resent, to_smf, upf>>

(* The pool is empty; the sequence number is used up all the same. *)
AddRefused(t) ==
    /\ pc[t] = "ready" /\ call[t] = None
    /\ next_seq <= MaxCommands /\ next_cp \notin Cps
    /\ next_seq' = next_seq + 1
    /\ UNCHANGED <<mode, pc, call, next_cp, sessions, recovery_ts, clock, ka_seq, upf_ts, resent, to_upf, to_smf, upf>>

(* extract_session_info looks at the SEID only, not at whose answer it is. *)
Added(t, m) ==
    /\ pc[t] = "ready" /\ m.kind = "establishment"
    /\ Returns(t, m)
    /\ sessions' = [sessions EXCEPT ![call[t].cp] = [seid |-> m.seid, epoch |-> m.epoch]]
    /\ UNCHANGED <<mode, pc, next_seq, next_cp, recovery_ts, clock, ka_seq, upf_ts, resent, to_upf, upf>>

DelSession(t, c) ==
    /\ pc[t] = "ready"
    /\ sessions[c] # None
    /\ next_seq <= MaxCommands
    /\ Send(t, Request("deletion", next_seq, 0, c, sessions[c].seid))
    /\ next_seq' = next_seq + 1
    /\ UNCHANGED <<mode, pc, next_cp, sessions, recovery_ts, clock, ka_seq, upf_ts, resent, to_smf, upf>>

(* The result of validate_response is dropped. *)
Deleted(t, m) ==
    /\ pc[t] = "ready" /\ m.kind = "deletion"
    /\ Returns(t, m)
    /\ sessions' = [sessions EXCEPT ![call[t].cp] = None]
    /\ UNCHANGED <<mode, pc, next_seq, next_cp, recovery_ts, clock, ka_seq, upf_ts, resent, to_upf, upf>>

(* The menu's heartbeat carries the time of day as Recovery Time Stamp. *)
MenuHeartbeat(t) ==
    /\ pc[t] = "ready"
    /\ next_seq <= MaxCommands /\ clock < MaxTs[mode]
    /\ Send(t, Request("heartbeat", next_seq, clock + 1, 0, 0))
    /\ next_seq' = next_seq + 1 /\ clock' = clock + 1
    /\ UNCHANGED <<mode, pc, next_cp, sessions, recovery_ts, ka_seq, upf_ts, resent, to_smf, upf>>

MenuHeartbeatAnswered(t, m) ==
    /\ pc[t] = "ready" /\ m.kind = "heartbeat"
    /\ Returns(t, m)
    /\ UNCHANGED <<mode, pc, next_seq, next_cp, sessions, recovery_ts, clock, ka_seq, upf_ts, resent, to_upf, upf>>

-----------------------------------------------------------------------------
(* smf-sim send ...: every command is a process of its own, with a         *)
(* Recovery Time Stamp of its own, a constant sequence number and CP-SEID 1. *)

Command(r) ==
    /\ pc["user"] = "shell"
    /\ clock < MaxTs[mode]
    /\ recovery_ts' = clock + 1 /\ clock' = clock + 1
    /\ Send("user", r)
    /\ pc' = [pc EXCEPT !["user"] = "command"]
    /\ UNCHANGED <<mode, next_seq, next_cp, sessions, ka_seq, upf_ts, resent, to_smf, upf>>

send_heartbeat == Command(Request("heartbeat", 1, clock + 1, 0, 0))
send_association_setup == Command(Request("association", 1, clock + 1, 0, 0))
send_session_establishment == Command(Request("establishment", 2, 0, 1, 0))
send_session_modification(s) == Command(Request("modification", 3, 0, 0, s))
send_session_deletion(s) == Command(Request("deletion", 99, 0, 0, s))

(* An Establishment may be followed by wait_and_handle_reports; all but    *)
(* the Modification check the sequence number, to no further effect.       *)
CommandAnswered(m) ==
    /\ pc["user"] = "command"
    /\ Returns("user", m)
    /\ \E wait \in BOOLEAN :
         pc' = [pc EXCEPT !["user"] = IF wait /\ m.kind = "establishment" /\ Valid("user", m)
                                      THEN "reports" ELSE "shell"]
    /\ UNCHANGED <<mode, next_seq, next_cp, sessions, recovery_ts, clock, ka_seq, upf_ts, resent, to_upf, upf>>

(* Reports are answered, all else is ignored.  The UPF only logs an answer. *)
HandleReport(m) ==
    /\ pc["user"] = "reports"
    /\ m \in to_smf
    /\ to_smf' = to_smf \ {m}
    /\ UNCHANGED <<smf, to_upf, upf>>

ReportsDone ==
    /\ pc["user"] = "reports"
    /\ pc' = [pc EXCEPT !["user"] = "shell"]
    /\ UNCHANGED <<mode, call, next_seq, next_cp, sessions, recovery_ts, clock, ka_seq, upf_ts, resent,
                   to_upf, to_smf, upf>>

-----------------------------------------------------------------------------
(* The UPF.  A request that it refuses gets no answer. *)

Answer(r, s) ==
    /\ r \in to_upf
    /\ to_upf' = to_upf \ {r}
    /\ to_smf' = With(to_smf, [kind |-> r.kind, seq |-> r.seq, seid |-> s, epoch |-> epoch])

UpfHeartbeat(r) ==
    /\ r.kind = "heartbeat"
    /\ Answer(r, 0)
    /\ IF Upf!Associated(Smf, Smf) /\ assoc[Smf].ts # r.ts
       THEN Upf!PeerRestarted(Smf, Smf, r.ts) ELSE UNCHANGED lifecycle
    /\ UNCHANGED <<smf, next_seid, epoch, upf_seq, saved>>

UpfAssociation(r) ==
    /\ r.kind = "association"
    /\ Answer(r, 0)
    /\ IF Upf!Associated(Smf, Smf) /\ assoc[Smf].ts = r.ts
       THEN UNCHANGED lifecycle ELSE Upf!Associate(Smf, r.ts)
    /\ UNCHANGED <<smf, next_seid, epoch, upf_seq, saved>>

\* Mutant: a request that is sent again gets the SEID handed out last.
UpfEstablishmentSameSeid(r) ==
    /\ r.kind = "establishment"
    /\ next_seid \in Seids
    /\ Answer(r, next_seid)
    /\ Upf!Associated(Smf, Smf)
    /\ session' = [session EXCEPT ![next_seid] = [ue |-> r.cp, cp |-> r.cp, content |-> ContentOf(r, next_seid)]]
    /\ assoc' = [assoc EXCEPT ![Smf].sessions = @ \cup {r.cp}]
    /\ UNCHANGED <<smf, released, next_seid, epoch, upf_seq, saved>>

(* The SEID is new in this life of the UPF; a session that Redis gave back *)
(* under it is overwritten.  The record is saved by a task of its own.     *)
UpfEstablishment(r) ==
    /\ r.kind = "establishment"
    /\ next_seid \in Seids
    /\ Answer(r, next_seid)
    /\ Upf!Associated(Smf, Smf)
    /\ session' = [session EXCEPT ![next_seid] = [ue |-> r.cp, cp |-> r.cp, content |-> ContentOf(r, next_seid)]]
    /\ assoc' = [assoc EXCEPT ![Smf].sessions = @ \cup {r.cp}]
    /\ saved' = [saved EXCEPT ![next_seid] = @ \cup {r.cp}]
    /\ next_seid' = next_seid + 1
    /\ UNCHANGED <<smf, released, epoch, upf_seq>>

(* A session established in this life of the UPF, and not given back by    *)
(* Redis.                                                                  *)
Current(s) == s < next_seid /\ Upf!Established(s)

UpfModification(r) ==
    /\ r.kind = "modification" /\ r.seid \in Seids
    /\ Answer(r, 0)
    /\ Upf!Modify(Smf, Smf, r.seid)
    /\ UNCHANGED <<smf, next_seid, epoch, upf_seq, saved>>

\* Mutant: the deletion is answered and nothing is deleted.
UpfDeletionIgnored(r) ==
    /\ r.kind = "deletion" /\ r.seid \in Seids
    /\ Answer(r, 0)
    /\ Upf!MayTouch(Smf, Smf, r.seid)
    /\ UNCHANGED <<smf, upf>>

UpfDeletion(r) ==
    /\ r.kind = "deletion" /\ r.seid \in Seids
    /\ Answer(r, 0)
    /\ Upf!Release(Smf, Smf, r.seid)
    /\ UNCHANGED <<smf, next_seid, epoch, upf_seq, saved>>

(* No association, or not the owner of the session. *)
UpfRefuse(r) ==
    /\ r \in to_upf
    /\ \/ r.kind = "establishment" /\ ~Upf!Associated(Smf, Smf)
       \/ r.kind \in {"modification", "deletion"} /\ ~(r.seid \in Seids /\ Upf!MayTouch(Smf, Smf, r.seid))
    /\ to_upf' = to_upf \ {r}
    /\ UNCHANGED <<smf, to_smf, upf>>

(* keepalive_task and the usage reporter, to the peer of the association. *)
UpfSends(kind) ==
    /\ Upf!Associated(Smf, Smf)
    /\ kind = "report" => \E s \in Seids : Current(s)
    /\ upf_seq < MaxUpfRequests[mode]
    /\ to_smf' = With(to_smf, [kind |-> kind, seq |-> upf_seq])
    /\ upf_seq' = upf_seq + 1
    /\ UNCHANGED <<smf, to_upf, lifecycle, next_seid, epoch, saved>>

(* What Redis may hold under a SEID.  Records are saved and deleted by     *)
(* tasks that nobody waits for, field by field, each of which may fail,    *)
(* come late or end with the process: no record, or one with the CP-SEID   *)
(* of any session that ever had the SEID, also one that was deleted since. *)
(* The other fields, which no step here looks at, are taken to go with the *)
(* CP-SEID.  A record without CP-SEID makes a session that no association  *)
(* ever holds, which is here the same as none.                             *)
Stored(s) == {None} \cup {[ue |-> c, cp |-> c, content |-> "established"] : c \in saved[s]}

(* PfcpServer::new: associations and SEIDs start anew, with a new Recovery *)
(* Time Stamp, and the sessions are those that Redis holds.                *)
UpfRestart ==
    /\ epoch < MaxEpoch[mode]
    /\ epoch' = epoch + 1
    /\ assoc' = [n \in {Smf} |-> None]
    /\ session' \in [Seids -> UpfSession \cup {None}]
    /\ \A s \in Seids : session'[s] \in Stored(s)
    /\ released' = {}
    /\ next_seid' = 1
    /\ UNCHANGED <<smf, to_upf, to_smf, upf_seq, saved>>

-----------------------------------------------------------------------------
KeepaliveStep ==
    \/ KaHeartbeat \/ KaReassociate
    \/ \E m \in to_smf : KaAnswered(m) \/ KaReassociated(m)

ScenarioStep ==
    \/ ScenarioAssociate \/ ScenarioEstablish \/ ScenarioModify \/ ScenarioDelete
    \/ \E m \in to_smf : \/ ScenarioAssociated(m) \/ ScenarioEstablished(m)
                         \/ ScenarioModified(m) \/ ScenarioDeleted(m)

MenuStep ==
    \/ Connect
    \/ \E m \in to_smf : Connected(m)
    \/ \E t \in Tasks : AddSession(t) \/ AddRefused(t) \/ MenuHeartbeat(t)
    \/ \E t \in Tasks, c \in Cps : DelSession(t, c)
    \/ \E t \in Tasks, m \in to_smf : Added(t, m) \/ Deleted(t, m) \/ MenuHeartbeatAnswered(t, m)

CommandStep ==
    \/ send_heartbeat \/ send_association_setup \/ send_session_establishment
    \/ \E s \in Seids : send_session_modification(s) \/ send_session_deletion(s)
    \/ \E m \in to_smf : CommandAnswered(m) \/ HandleReport(m)
    \/ ReportsDone

UpfStep ==
    \/ \E r \in to_upf : \/ UpfHeartbeat(r) \/ UpfAssociation(r) \/ UpfEstablishment(r)
                         \/ UpfModification(r) \/ UpfDeletion(r) \/ UpfRefuse(r)
    \/ \E kind \in {"upf_heartbeat", "report"} : UpfSends(kind)
    \/ UpfRestart

Next ==
    \/ KeepaliveStep \/ ScenarioStep \/ MenuStep \/ CommandStep
    \/ \E t \in Tasks : Swallow(t) \/ Resend(t) \/ GiveUp(t)
    \/ UpfStep

(* Timers fire and a task that can go on does so; nothing is assumed of    *)
(* the network or the UPF.                                                 *)
Fairness ==
    /\ WF_vars(ScenarioStep)
    /\ \A t \in Tasks : WF_vars(Resend(t) \/ GiveUp(t))

Spec == Init /\ [][Next]_vars /\ Fairness

-----------------------------------------------------------------------------
(* Until the scenario deletes its session, the session it knows is there   *)
(* on the UPF, is the one it asked for, and is its own to modify and       *)
(* delete, whatever the keepalive does meanwhile on the same socket        *)
(* (heartbeats, false alarms, re-associations) and however often requests  *)
(* were sent again, unless the UPF was restarted.                          *)
KnownSessionReachable ==
    \A c \in Cps :
        /\ pc["user"] = "modify"
        /\ sessions[c] # None /\ sessions[c].epoch = epoch
        => Upf!MayTouch(Smf, Smf, sessions[c].seid) /\ session[sessions[c].seid].cp = c

(* A scenario that ends with "PASSED, 0 sessions remaining" has left none  *)
(* of the sessions the UPF established in its present life, unless its     *)
(* Establishment Request had to be sent more than once: the UPF takes a    *)
(* retransmission for a new request.  The Deletion that was answered was   *)
(* for the session it established, and not for one that Redis gave back.   *)
(* (A UPF that stops before Redis has carried out the DEL of an answered   *)
(* Deletion does bring the session back in its next life.)                 *)
LeakOnlyByRetransmission ==
    pc["user"] = "passed" => \A s \in Seids : Current(s) => session[s].cp \in resent

(* No two sessions of the SMF carry the same SEID of the UPF, although     *)
(* the tasks take each other's responses and the menu does not look at     *)
(* sequence numbers.                                                       *)
DistinctUpfSeids ==
    \A c, d \in Cps : c # d /\ sessions[c] # None => sessions[c] # sessions[d]

(* Once associated, the scenario comes to an end, also when the UPF never  *)
(* answers (a refused request gets no response) and the keepalive takes    *)
(* its answers from the socket.                                            *)
ScenarioEnds == pc["user"] = "establish" ~> pc["user"] \in {"passed", "failed"}
=============================================================================
