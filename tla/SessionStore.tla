---------------------------- MODULE SessionStore ----------------------------
(***************************************************************************)
(* Sessions in Redis (session_store.rs) and their restoration when         *)
(* upf-edge starts (pfcp_server.rs), with crashes at any point.            *)
(*                                                                         *)
(* The handlers spawn a task for every save and delete and do not wait for *)
(* it.  A save is a pipeline of HSETs that Redis may interleave with the   *)
(* commands of other connections: one step per field, TEID and gNB address *)
(* being one field here.  A crash loses everything but Redis.  A restart   *)
(* fills PfcpServer::sessions and nothing else: not next_seid, not the     *)
(* associations, not the maps.  One SMF, whose association holds CP-SEIDs. *)
(***************************************************************************)
EXTENDS Naturals

CONSTANTS
    Ues, CpSeids,
    Tunnels,   \* end points of the downlink
    Requests,  \* the sessions the SMF establishes
    MaxSeid,   \* bound on next_seid
    MaxLives,  \* bound on starts of upf-edge
    None       \* an absent session, key or field, and what load_all puts
               \* in its place (0.0.0.0, 0)

Seids == 1..MaxSeid
Fields == {"ue", "tun", "cp"}
SessionData == [ue : Ues \cup {None}, tun : Tunnels \cup {None}, cp : CpSeids \cup {None}]

ASSUME StoreAssumption ==
    /\ MaxSeid \in Nat /\ MaxLives \in Nat \ {0}
    /\ None \notin Ues \cup CpSeids \cup Tunnels
    /\ None \notin Fields /\ None \notin SessionData
    /\ Requests \subseteq [ue : Ues, tun : Tunnels, cp : CpSeids]

\* Mutant: the CP-SEID is not written.
NextFieldNoCp(f) == CASE f = "ue" -> "tun" [] f = "tun" -> None [] f = "cp" -> None

(* The order in which a save writes the fields. *)
NextField(f) == CASE f = "ue" -> "tun" [] f = "tun" -> "cp" [] f = "cp" -> None

Saves == [op : {"save"}, seid : Seids, data : SessionData, field : Fields]
Deletes == [op : {"delete"}, seid : Seids]

VARIABLES
    up,         \* upf-edge is running
    lives,      \* how often it was started
    sessions,   \* PfcpServer::sessions
    owned,      \* CP-SEIDs the association holds
    next_seid,  \* PfcpServer::next_seid
    cleaning,   \* SEIDs whose Deletion is cleaning the maps
    tasks,      \* spawned saves and deletes
    redis,      \* the hash upf:session:<seid>, absent when all fields are
    granted,    \* history: what the last Establishment under a SEID asked for
    reused,     \* history: SEIDs given to a second session
    deleted,    \* history: SEIDs whose Deletion was answered
    cut_off,    \* history: SEIDs with a save or delete that was not finished
    overtaken   \* history: SEIDs whose delete was carried out before their save

history == <<granted, reused, deleted, cut_off, overtaken>>
vars == <<up, lives, sessions, owned, next_seid, cleaning, tasks, redis, history>>

NoRecord == [f \in Fields |-> None]

TypeOK ==
    /\ up \in BOOLEAN /\ lives \in 1..MaxLives
    /\ sessions \in [Seids -> SessionData \cup {None}]
    /\ owned \subseteq CpSeids
    /\ next_seid \in 1..MaxSeid + 1
    /\ cleaning \subseteq Seids
    /\ tasks \subseteq Saves \cup Deletes
    /\ redis \in [Seids -> SessionData]
    /\ granted \in [Seids -> SessionData \cup {None}]
    /\ reused \subseteq Seids /\ deleted \subseteq Seids
    /\ cut_off \subseteq Seids /\ overtaken \subseteq Seids

Init ==
    /\ up = TRUE /\ lives = 1
    /\ sessions = [s \in Seids |-> None]
    /\ owned = {} /\ next_seid = 1 /\ cleaning = {} /\ tasks = {}
    /\ redis = [s \in Seids |-> NoRecord]
    /\ granted = [s \in Seids |-> None]
    /\ reused = {} /\ deleted = {} /\ cut_off = {} /\ overtaken = {}

Live(s) == sessions[s] # None

(* What is still to be done for a SEID. *)
Saving(s) == \E t \in tasks : t.op = "save" /\ t.seid = s
Pending(s) == s \in cleaning \/ \E t \in tasks : t.seid = s

-----------------------------------------------------------------------------
\* Mutant: the association registers the session under the UPF's SEID.
EstablishOwnsSeid(d) ==
    LET s == next_seid IN
    /\ up /\ s \in Seids
    /\ sessions' = [sessions EXCEPT ![s] = d]
    /\ owned' = owned \cup {s}
    /\ next_seid' = s + 1
    /\ tasks' = tasks \cup {[op |-> "save", seid |-> s, data |-> d, field |-> "ue"]}
    /\ granted' = [granted EXCEPT ![s] = d]
    /\ reused' = IF granted[s] = None THEN reused ELSE reused \cup {s}
    /\ deleted' = deleted \ {s} /\ cut_off' = cut_off \ {s} /\ overtaken' = overtaken \ {s}
    /\ UNCHANGED <<up, lives, cleaning, redis>>

(* Establishment: the session is recorded and its save spawned, which will *)
(* write all that an earlier one under the SEID may have left undone.      *)
Establish(d) ==
    LET s == next_seid IN
    /\ up /\ s \in Seids
    /\ sessions' = [sessions EXCEPT ![s] = d]
    /\ owned' = owned \cup {d.cp}
    /\ next_seid' = s + 1
    /\ tasks' = tasks \cup {[op |-> "save", seid |-> s, data |-> d, field |-> "ue"]}
    /\ granted' = [granted EXCEPT ![s] = d]
    /\ reused' = IF granted[s] = None THEN reused ELSE reused \cup {s}
    /\ deleted' = deleted \ {s} /\ cut_off' = cut_off \ {s} /\ overtaken' = overtaken \ {s}
    /\ UNCHANGED <<up, lives, cleaning, redis>>

(* Modification does not reach Redis. *)
Modify(s, tun) ==
    /\ up /\ Live(s) /\ sessions[s].cp \in owned
    /\ sessions' = [sessions EXCEPT ![s].tun = tun]
    /\ UNCHANGED <<up, lives, owned, next_seid, cleaning, tasks, redis, history>>

(* Deletion: the record goes under the mutex, the delete of the key is     *)
(* spawned when the maps are clean.                                        *)
DelLocked(s) ==
    /\ up /\ Live(s) /\ sessions[s].cp \in owned
    /\ sessions' = [sessions EXCEPT ![s] = None]
    /\ owned' = owned \ {sessions[s].cp}
    /\ cleaning' = cleaning \cup {s}
    /\ UNCHANGED <<up, lives, next_seid, tasks, redis, history>>

DelSpawn(s) ==
    /\ s \in cleaning
    /\ cleaning' = cleaning \ {s}
    /\ tasks' = tasks \cup {[op |-> "delete", seid |-> s]}
    /\ deleted' = deleted \cup {s}
    /\ UNCHANGED <<up, lives, sessions, owned, next_seid, redis, granted, reused, cut_off, overtaken>>

-----------------------------------------------------------------------------
(* SessionStore::save, one HSET. *)
Save(t) ==
    /\ t \in tasks /\ t.op = "save"
    /\ redis' = [redis EXCEPT ![t.seid][t.field] = t.data[t.field]]
    /\ tasks' = (tasks \ {t}) \cup
                  (IF NextField(t.field) = None THEN {} ELSE {[t EXCEPT !.field = NextField(t.field)]})
    /\ UNCHANGED <<up, lives, sessions, owned, next_seid, cleaning, history>>

(* Redis cannot be reached, or goes away in the middle: the error is logged. *)
TaskFails(t) ==
    /\ t \in tasks
    /\ tasks' = tasks \ {t}
    /\ cut_off' = cut_off \cup {t.seid}
    /\ UNCHANGED <<up, lives, sessions, owned, next_seid, cleaning, redis, granted, reused, deleted, overtaken>>

\* Mutant: the key that is deleted is the one of the next session.
DeleteOffByOne(t) ==
    /\ t \in tasks /\ t.op = "delete"
    /\ redis' = [redis EXCEPT ![(t.seid % MaxSeid) + 1] = NoRecord]
    /\ tasks' = tasks \ {t}
    /\ overtaken' = IF Saving(t.seid) THEN overtaken \cup {t.seid} ELSE overtaken
    /\ UNCHANGED <<up, lives, sessions, owned, next_seid, cleaning, granted, reused, deleted, cut_off>>

\* Mutant: a field of the record is deleted and not the key.
DeleteField(t) ==
    /\ t \in tasks /\ t.op = "delete"
    /\ redis' = [redis EXCEPT ![t.seid].cp = None]
    /\ tasks' = tasks \ {t}
    /\ overtaken' = IF Saving(t.seid) THEN overtaken \cup {t.seid} ELSE overtaken
    /\ UNCHANGED <<up, lives, sessions, owned, next_seid, cleaning, granted, reused, deleted, cut_off>>

(* SessionStore::delete *)
Delete(t) ==
    /\ t \in tasks /\ t.op = "delete"
    /\ redis' = [redis EXCEPT ![t.seid] = NoRecord]
    /\ tasks' = tasks \ {t}
    /\ overtaken' = IF Saving(t.seid) THEN overtaken \cup {t.seid} ELSE overtaken
    /\ UNCHANGED <<up, lives, sessions, owned, next_seid, cleaning, granted, reused, deleted, cut_off>>

-----------------------------------------------------------------------------
Crash ==
    /\ up /\ lives < MaxLives
    /\ up' = FALSE
    /\ sessions' = [s \in Seids |-> None]
    /\ owned' = {} /\ next_seid' = 1 /\ cleaning' = {} /\ tasks' = {}
    /\ cut_off' = cut_off \cup {t.seid : t \in tasks}
    /\ UNCHANGED <<lives, redis, granted, reused, deleted, overtaken>>

(* SessionStore::load_all *)
LoadAll == [s \in Seids |-> IF redis[s] = NoRecord THEN None ELSE redis[s]]

(* PfcpServer::new, then the sessions from Redis, if it answers. *)
Restart ==
    /\ ~up
    /\ up' = TRUE /\ lives' = lives + 1
    /\ sessions' \in {LoadAll, [s \in Seids |-> None]}
    /\ UNCHANGED <<owned, next_seid, cleaning, tasks, redis, history>>

Next ==
    \/ \E d \in Requests : Establish(d)
    \/ \E s \in Seids, tun \in Tunnels : Modify(s, tun)
    \/ \E s \in Seids : DelLocked(s) \/ DelSpawn(s)
    \/ \E t \in tasks : Save(t) \/ Delete(t) \/ TaskFails(t)
    \/ Crash \/ Restart

(* A spawned task runs. *)
Spec == Init /\ [][Next]_vars /\ WF_vars(\E t \in tasks : Save(t) \/ Delete(t))

-----------------------------------------------------------------------------
(* What a crash now would lose: nothing of a live session whose save was   *)
(* carried out.  Its UE address and CP-SEID are in Redis as they are in    *)
(* the server, also for a session restored before, although saves and      *)
(* deletes of other sessions run in any order.                             *)
LiveSessionsStored ==
    \A s \in Seids \ (reused \cup cut_off) : Live(s) /\ ~Pending(s) =>
        redis[s].ue = sessions[s].ue /\ redis[s].cp = sessions[s].cp

(* When its save is over, a key has all the fields of one Establishment,   *)
(* the last that was given the SEID, or is not there: a restart never      *)
(* makes one session of two, nor one without owner or tunnel, also where   *)
(* the save wrote over the record of an earlier life and other tasks of    *)
(* the SEID ran in between.  Only a task that was cut off, or a delete     *)
(* that Redis carried out before the save, leaves a record in parts.       *)
RecordsWhole ==
    \A s \in Seids \ (cut_off \cup overtaken) : ~Saving(s) => redis[s] \in {NoRecord, granted[s]}

(* Of a session whose Deletion was answered, Redis has no record when the  *)
(* tasks are done, in this and in later lives: no restart brings it back,  *)
(* unless a task was cut off or the delete overtook the save.              *)
DeletedForgotten ==
    \A s \in deleted \ (cut_off \cup overtaken) : ~Pending(s) => redis[s] = NoRecord

(* A session that is live, restored or not, never turns into the session   *)
(* of another UE: README "session persistence with restart recovery".      *)
LiveSessionKeepsUe ==
    [][\A s \in Seids : Live(s) /\ sessions'[s] # None => sessions'[s].ue = sessions[s].ue]_vars
=============================================================================
