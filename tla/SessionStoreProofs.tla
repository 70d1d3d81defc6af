-------------------------- MODULE SessionStoreProofs --------------------------
(***************************************************************************)
(* What holds of SessionStore for any number of sessions, requests and     *)
(* restarts.                                                               *)
(***************************************************************************)
EXTENDS SessionStore, TLAPS

(* A session, an unfinished Deletion, a spawned task or a key in Redis is  *)
(* always there because of an Establishment.                               *)
TracesGranted ==
    \A s \in Seids : Live(s) \/ Pending(s) \/ redis[s] # NoRecord => granted[s] # None

(* A save writes what the SEID was granted to, last and in this life. *)
SavesAsGranted ==
    \A t \in tasks : t.op = "save" => t.seid < next_seid /\ t.data = granted[t.seid]

(* The fields a save has written are in Redis, unless a delete came after. *)
Before(f, g) == (f = "ue" /\ g \in {"tun", "cp"}) \/ (f = "tun" /\ g = "cp")
WritesKept ==
    \A t \in tasks : t.op = "save" /\ t.seid \notin overtaken =>
        \A f \in Fields : Before(f, t.field) => redis[t.seid][f] = t.data[f]

(* The delete of a deleted session is still to come, or was carried out    *)
(* and has nothing after it.                                               *)
Deleting(s) == \E t \in tasks : t.op = "delete" /\ t.seid = s
DeletesLast ==
    \A s \in deleted \ (cut_off \cup overtaken) :
        Deleting(s) \/ (redis[s] = NoRecord /\ ~Saving(s))

(* Nothing but Redis is left of a process that has crashed. *)
DownIsEmpty ==
    ~up => /\ lives < MaxLives
           /\ cleaning = {} /\ tasks = {} /\ \A s \in Seids : sessions[s] = None

(* No delete is under way for a live session: the deletes of a SEID belong *)
(* to a session that ended, and its SEID has not been handed out again.    *)
NoDeleteOfLive ==
    \A s \in Seids \ reused : Live(s) =>
        s \notin cleaning /\ \A t \in tasks : t.seid = s => t.op = "save"

(* The save of a live session has in it what the server has, and the       *)
(* fields before the next one to be written are in Redis already.          *)
SaveProgress ==
    \A t \in tasks : t.op = "save" /\ t.seid \notin reused /\ Live(t.seid) =>
        /\ sessions[t.seid].ue = t.data.ue /\ sessions[t.seid].cp = t.data.cp
        /\ t.field # "ue" => redis[t.seid].ue = t.data.ue

IInv ==
    /\ TypeOK
    /\ TracesGranted
    /\ SavesAsGranted
    /\ WritesKept
    /\ RecordsWhole
    /\ DeletesLast
    /\ DownIsEmpty
    /\ NoDeleteOfLive
    /\ SaveProgress
    /\ LiveSessionsStored

-----------------------------------------------------------------------------
(* The two kinds of task, told apart by their op field, and the fields of  *)
(* a save (SessionStore::save and SessionStore::delete).                   *)
LEMMA TaskKinds ==
    ASSUME TypeOK, NEW t \in tasks
    PROVE  /\ t.seid \in Seids
           /\ t.op = "save" => t \in Saves /\ t.data \in SessionData /\ t.field \in Fields
           /\ t.op = "delete" => t \in Deletes
           /\ t.op \in {"save", "delete"}
  BY DEF TypeOK, Saves, Deletes

(* A Session Establishment asks for a whole session (handle_msg.rs).       *)
LEMMA RequestIsData ==
    ASSUME NEW d \in Requests
    PROVE  d \in SessionData /\ d # None /\ d.cp \in CpSeids
  BY StoreAssumption DEF SessionData

(* One HSET of SessionStore::save: the field of the key is written, the    *)
(* other fields and keys stay, and the task goes on to the next field.     *)
LEMMA SaveEffect ==
    ASSUME TypeOK, NEW t \in tasks, Save(t)
    PROVE  /\ redis' \in [Seids -> SessionData]
           /\ \A s \in Seids : s # t.seid => redis'[s] = redis[s]
           /\ redis'[t.seid][t.field] = t.data[t.field]
           /\ \A f \in Fields : f # t.field => redis'[t.seid][f] = redis[t.seid][f]
           /\ \A u \in tasks' : \/ u \in tasks
                                \/ /\ u \in Saves /\ u.op = "save" /\ u.seid = t.seid
                                   /\ u.data = t.data /\ t.field # "cp"
                                   /\ u.field = NextField(t.field)
           /\ \A u \in tasks : u # t => u \in tasks'
           /\ t.field # "cp" => \E u \in tasks' : u.op = "save" /\ u.seid = t.seid
  <1>1. t \in Saves /\ t.seid \in Seids /\ t.data \in SessionData /\ t.field \in Fields
    BY TaskKinds DEF Save
  <1>2. redis[t.seid] \in SessionData
    BY <1>1 DEF TypeOK
  <1>3. redis' = [redis EXCEPT ![t.seid] = [redis[t.seid] EXCEPT ![t.field] = t.data[t.field]]]
    BY DEF Save
  <1>4. [redis[t.seid] EXCEPT ![t.field] = t.data[t.field]] \in SessionData
    BY <1>1, <1>2 DEF SessionData, Fields
  <1>5. NextField("ue") = "tun" /\ NextField("tun") = "cp" /\ NextField("cp") = None
    BY DEF NextField
  <1>6. t.field # "cp" => NextField(t.field) \in Fields
    BY <1>1, <1>5 DEF Fields
  <1>7. NextField(t.field) = None <=> t.field = "cp"
    BY <1>1, <1>5, <1>6, StoreAssumption DEF Fields
  <1>8. t.field # "cp" =>
          LET u == [t EXCEPT !.field = NextField(t.field)] IN
          u \in Saves /\ u.op = "save" /\ u.seid = t.seid /\ u.data = t.data /\ u.field = NextField(t.field)
    BY <1>1, <1>6 DEF Saves
  <1>9. tasks' = (tasks \ {t}) \cup
          (IF NextField(t.field) = None THEN {} ELSE {[t EXCEPT !.field = NextField(t.field)]})
    BY DEF Save
  <1>10. redis' \in [Seids -> SessionData]
    BY <1>1, <1>3, <1>4 DEF TypeOK
  <1>11. /\ \A s \in Seids : s # t.seid => redis'[s] = redis[s]
         /\ redis'[t.seid] = [redis[t.seid] EXCEPT ![t.field] = t.data[t.field]]
    BY <1>1, <1>3 DEF TypeOK
  <1>12. /\ redis'[t.seid][t.field] = t.data[t.field]
         /\ \A f \in Fields : f # t.field => redis'[t.seid][f] = redis[t.seid][f]
    BY <1>1, <1>2, <1>11 DEF SessionData, Fields
  <1>13. QED BY <1>7, <1>8, <1>9, <1>10, <1>11, <1>12

(* The types are kept by every step. *)
LEMMA TypeStep == TypeOK /\ DownIsEmpty /\ [Next]_vars => TypeOK'
  <1> SUFFICES ASSUME TypeOK, DownIsEmpty, [Next]_vars PROVE TypeOK'
    OBVIOUS
  <1> USE StoreAssumption DEF TypeOK, history
  <1>1. ASSUME NEW d \in Requests, Establish(d) PROVE TypeOK'
    <2>1. [op |-> "save", seid |-> next_seid, data |-> d, field |-> "ue"] \in Saves
      BY <1>1, RequestIsData DEF Establish, Saves, Fields
    <2>2. next_seid + 1 \in 1..MaxSeid + 1
      BY <1>1 DEF Establish, Seids
    <2>3. QED BY <1>1, <2>1, <2>2, RequestIsData DEF Establish
  <1>2. ASSUME NEW s \in Seids, NEW tun \in Tunnels, Modify(s, tun) PROVE TypeOK'
    <2>1. sessions[s] \in SessionData
      BY <1>2 DEF Modify, Live
    <2>2. [sessions[s] EXCEPT !.tun = tun] \in SessionData
      BY <2>1 DEF SessionData
    <2>3. sessions' = [sessions EXCEPT ![s] = [sessions[s] EXCEPT !.tun = tun]]
      BY <1>2 DEF Modify
    <2>4. QED BY <1>2, <2>2, <2>3 DEF Modify
  <1>3. ASSUME NEW s \in Seids, DelLocked(s) PROVE TypeOK'
    BY <1>3 DEF DelLocked
  <1>4. ASSUME NEW s \in Seids, DelSpawn(s) PROVE TypeOK'
    BY <1>4 DEF DelSpawn, Deletes
  <1>5. ASSUME NEW t \in tasks, Save(t) PROVE TypeOK'
    BY <1>5, SaveEffect DEF Save
  <1>6. ASSUME NEW t \in tasks, Delete(t) PROVE TypeOK'
    BY <1>6, TaskKinds DEF Delete, NoRecord, Fields, SessionData
  <1>7. ASSUME NEW t \in tasks, TaskFails(t) PROVE TypeOK'
    BY <1>7, TaskKinds DEF TaskFails
  <1>8. ASSUME Crash PROVE TypeOK'
    <2>1. {t.seid : t \in tasks} \subseteq Seids
      BY TaskKinds
    <2>2. 1 \in 1..MaxSeid + 1
      OBVIOUS
    <2>3. QED BY <1>8, <2>1, <2>2 DEF Crash
  <1>9. ASSUME Restart PROVE TypeOK'
    BY <1>9 DEF Restart, LoadAll, DownIsEmpty
  <1>10. ASSUME UNCHANGED vars PROVE TypeOK'
    BY <1>10 DEF vars
  <1>11. QED
    BY <1>1, <1>2, <1>3, <1>4, <1>5, <1>6, <1>7, <1>8, <1>9, <1>10 DEF Next

-----------------------------------------------------------------------------
(* Establishment: the SEID was never granted and carries no trace, or it   *)
(* counts as reused from now on.                                           *)
LEMMA EstablishStep ==
    ASSUME IInv, TypeOK', NEW d \in Requests, Establish(d)
    PROVE  IInv'
  <1> DEFINE n == next_seid
             save == [op |-> "save", seid |-> n, data |-> d, field |-> "ue"]
  <1> USE DEF IInv
  <1>1. /\ n \in Seids /\ up /\ up' /\ tasks' = tasks \cup {save}
        /\ cleaning' = cleaning /\ redis' = redis /\ next_seid' = n + 1
        /\ deleted' = deleted \ {n} /\ cut_off' = cut_off \ {n} /\ overtaken' = overtaken \ {n}
        /\ sessions' = [sessions EXCEPT ![n] = d]
        /\ granted' = [granted EXCEPT ![n] = d]
        /\ reused' = IF granted[n] = None THEN reused ELSE reused \cup {n}
    BY DEF Establish
  <1>2. d \in SessionData /\ d # None
    BY RequestIsData
  <1>3. \A s \in Seids : s # n => sessions'[s] = sessions[s] /\ granted'[s] = granted[s]
    BY <1>1 DEF TypeOK
  <1>4. sessions'[n] = d /\ granted'[n] = d
    BY <1>1 DEF TypeOK
  <1>5. n \notin reused' => ~Live(n) /\ ~Pending(n) /\ redis[n] = NoRecord
    BY <1>1 DEF TracesGranted
  <1>6. \A s \in Seids : s \notin reused' => s \notin reused
    BY <1>1
  <1>7. save.op = "save" /\ save.seid = n /\ save.data = d /\ save.field = "ue"
    OBVIOUS
  <1>8. \A t \in tasks : t.op = "save" => t.seid \in Seids /\ t.seid # n
    <2>1. n \in Nat /\ ~(n < n)
      BY <1>1, StoreAssumption DEF Seids
    <2>2. QED BY <2>1, TaskKinds DEF SavesAsGranted
  <1>9. TracesGranted'
    <2> SUFFICES ASSUME NEW s \in Seids, s # n, Live(s)' \/ Pending(s)' \/ redis'[s] # NoRecord
                 PROVE  granted'[s] # None
      BY <1>2, <1>4 DEF TracesGranted
    <2>1. Live(s) \/ Pending(s) \/ redis[s] # NoRecord
      BY <1>1, <1>3, <1>7 DEF Live, Pending
    <2>2. QED BY <1>3, <2>1 DEF TracesGranted
  <1>10. SavesAsGranted' /\ WritesKept'
    <2>1. \A t \in tasks' : t.op = "save" => t = save \/ (t \in tasks /\ t.seid \in Seids /\ t.seid # n)
      BY <1>1, <1>8
    <2>2. \A s \in Seids : s < n + 1 <=> s < n \/ s = n
      BY <1>1, StoreAssumption DEF Seids
    <2>3. SavesAsGranted'
      BY <1>1, <1>3, <1>4, <1>7, <2>1, <2>2 DEF SavesAsGranted
    <2>4. WritesKept'
      BY <1>1, <1>7, <2>1 DEF WritesKept, Before
    <2>5. QED BY <2>3, <2>4
  <1>11. DownIsEmpty'
    BY <1>1 DEF DownIsEmpty
  <1>12. NoDeleteOfLive'
    <2> SUFFICES ASSUME NEW s \in Seids, s \notin reused', Live(s)'
                 PROVE  s \notin cleaning /\ \A t \in tasks' : t.seid = s => t.op = "save"
      BY <1>1 DEF NoDeleteOfLive
    <2>1. CASE s = n
      BY <1>1, <1>5, <1>7, <2>1 DEF Pending
    <2>2. CASE s # n
      BY <1>1, <1>3, <1>6, <1>7, <2>2 DEF NoDeleteOfLive, Live
    <2>3. QED BY <2>1, <2>2
  <1>13. SaveProgress'
    <2> SUFFICES ASSUME NEW t \in tasks', t.op = "save", t.seid \notin reused', Live(t.seid)'
                 PROVE  /\ sessions'[t.seid].ue = t.data.ue /\ sessions'[t.seid].cp = t.data.cp
                        /\ t.field # "ue" => redis'[t.seid].ue = t.data.ue
      BY DEF SaveProgress
    <2>1. CASE t = save
      BY <1>4, <1>7, <2>1
    <2>2. CASE t \in tasks
      <3>1. t.seid \in Seids
        BY <2>2, TaskKinds
      <3>2. t.seid # n
        BY <1>5, <2>2 DEF Pending
      <3>3. QED BY <1>1, <1>3, <1>6, <2>2, <3>1, <3>2 DEF SaveProgress, Live
    <2>3. QED BY <1>1, <2>1, <2>2
  <1>14. LiveSessionsStored'
    <2> SUFFICES ASSUME NEW s \in Seids, s \notin reused', s \notin cut_off', Live(s)', ~Pending(s)'
                 PROVE  redis[s].ue = sessions'[s].ue /\ redis[s].cp = sessions'[s].cp
      BY <1>1 DEF LiveSessionsStored
    <2>1. s # n
      BY <1>1, <1>7 DEF Pending
    <2>2. QED BY <1>1, <1>3, <1>6, <2>1 DEF LiveSessionsStored, Live, Pending
  <1>15. RecordsWhole' /\ DeletesLast'
    <2>1. \A s \in Seids : /\ s = n => Saving(s)'
                           /\ s # n => (Saving(s)' <=> Saving(s)) /\ (Deleting(s)' <=> Deleting(s))
      BY <1>1, <1>7 DEF Saving, Deleting
    <2>2. RecordsWhole'
      BY <1>1, <1>3, <2>1 DEF RecordsWhole
    <2>3. DeletesLast'
      BY <1>1, <2>1 DEF DeletesLast, TypeOK
    <2>4. QED BY <2>2, <2>3
  <1>16. QED
    BY <1>9, <1>10, <1>11, <1>12, <1>13, <1>14, <1>15

(* Modification changes a tunnel in the server, which neither Redis nor    *)
(* the comparison with it looks at.                                        *)
LEMMA ModifyStep ==
    ASSUME IInv, TypeOK', NEW s \in Seids, NEW tun \in Tunnels, Modify(s, tun)
    PROVE  IInv'
  <1> USE DEF IInv
  <1>1. sessions[s] \in SessionData /\ Live(s) /\ up
    BY DEF Modify, Live, TypeOK
  <1>2. sessions' = [sessions EXCEPT ![s] = [sessions[s] EXCEPT !.tun = tun]]
    BY DEF Modify
  <1>3. LET new == [sessions[s] EXCEPT !.tun = tun] IN
        new \in SessionData /\ new.ue = sessions[s].ue /\ new.cp = sessions[s].cp
    BY <1>1 DEF SessionData
  <1>4. \A r \in Seids : /\ Live(r)' <=> Live(r)
                         /\ Live(r) => /\ sessions'[r].ue = sessions[r].ue
                                       /\ sessions'[r].cp = sessions[r].cp
    BY <1>1, <1>2, <1>3, StoreAssumption DEF TypeOK, Live
  <1>5. UNCHANGED <<up, lives, owned, next_seid, cleaning, tasks, redis, granted, reused, deleted, cut_off, overtaken>>
    BY DEF Modify, history
  <1>6. \A r \in Seids : Pending(r)' <=> Pending(r)
    BY <1>5 DEF Pending
  <1>7. SavesAsGranted' /\ WritesKept' /\ RecordsWhole' /\ DeletesLast' /\ DownIsEmpty'
    BY <1>1, <1>5 DEF SavesAsGranted, WritesKept, RecordsWhole, DeletesLast, Saving, Deleting, DownIsEmpty
  <1>8. TracesGranted'
    BY <1>4, <1>5, <1>6 DEF TracesGranted
  <1>9. NoDeleteOfLive'
    BY <1>4, <1>5 DEF NoDeleteOfLive
  <1>10. SaveProgress'
    BY <1>4, <1>5, TaskKinds DEF SaveProgress
  <1>11. LiveSessionsStored'
    BY <1>4, <1>5, <1>6 DEF LiveSessionsStored
  <1>12. QED BY <1>7, <1>8, <1>9, <1>10, <1>11

(* Deletion under the mutex: the session is no longer live, its SEID has   *)
(* been granted before.                                                    *)
LEMMA DelLockedStep ==
    ASSUME IInv, TypeOK', NEW s \in Seids, DelLocked(s)
    PROVE  IInv'
  <1> USE DEF IInv
  <1>1. up /\ Live(s) /\ cleaning' = cleaning \cup {s}
    BY DEF DelLocked
  <1>2. UNCHANGED <<up, lives, next_seid, tasks, redis, granted, reused, deleted, cut_off, overtaken>>
    BY DEF DelLocked, history
  <1>3. sessions'[s] = None /\ \A r \in Seids : r # s => sessions'[r] = sessions[r]
    BY DEF DelLocked, TypeOK
  <1>4. \A r \in Seids : Live(r)' => r # s /\ Live(r) /\ sessions'[r] = sessions[r]
    BY <1>3 DEF Live
  <1>5. \A r \in Seids : r # s => (Pending(r)' <=> Pending(r))
    BY <1>1, <1>2 DEF Pending
  <1>6. SavesAsGranted' /\ WritesKept' /\ RecordsWhole' /\ DeletesLast' /\ DownIsEmpty'
    BY <1>1, <1>2 DEF SavesAsGranted, WritesKept, RecordsWhole, DeletesLast, Saving, Deleting, DownIsEmpty
  <1>7. TracesGranted'
    BY <1>1, <1>2, <1>4, <1>5 DEF TracesGranted
  <1>8. NoDeleteOfLive'
    BY <1>1, <1>2, <1>4 DEF NoDeleteOfLive
  <1>9. SaveProgress'
    BY <1>2, <1>4, TaskKinds DEF SaveProgress
  <1>10. LiveSessionsStored'
    BY <1>2, <1>4, <1>5 DEF LiveSessionsStored
  <1>11. QED BY <1>6, <1>7, <1>8, <1>9, <1>10

(* The delete of the key is spawned for a session that is not live.        *)
LEMMA DelSpawnStep ==
    ASSUME IInv, TypeOK', NEW s \in Seids, DelSpawn(s)
    PROVE  IInv'
  <1> DEFINE del == [op |-> "delete", seid |-> s]
  <1> USE DEF IInv
  <1>1. s \in cleaning /\ cleaning' = cleaning \ {s} /\ tasks' = tasks \cup {del}
    BY DEF DelSpawn
  <1>2. UNCHANGED <<up, lives, sessions, next_seid, redis, granted, reused, cut_off, overtaken>> /\ deleted' = deleted \cup {s}
    BY DEF DelSpawn
  <1>3. del.op # "save" /\ del.op = "delete" /\ del.seid = s
    OBVIOUS
  <1>4. \A r \in Seids : (Live(r)' <=> Live(r)) /\ (Pending(r)' <=> Pending(r))
    BY <1>1, <1>2, <1>3 DEF Live, Pending
  <1>5. up
    BY <1>1 DEF DownIsEmpty
  <1>6. DownIsEmpty'
    BY <1>2, <1>5 DEF DownIsEmpty
  <1>7. SavesAsGranted' /\ WritesKept' /\ RecordsWhole' /\ DeletesLast'
    <2>1. SavesAsGranted' /\ WritesKept'
      BY <1>1, <1>2, <1>3 DEF SavesAsGranted, WritesKept
    <2>2. Deleting(s)' /\ \A r \in Seids : (Saving(r)' <=> Saving(r)) /\ (Deleting(r) => Deleting(r)')
      BY <1>1, <1>3 DEF Saving, Deleting
    <2>3. QED BY <1>2, <2>1, <2>2 DEF RecordsWhole, DeletesLast, TypeOK
  <1>8. TracesGranted'
    BY <1>2, <1>4 DEF TracesGranted
  <1>9. NoDeleteOfLive'
    BY <1>1, <1>2, <1>3, <1>4 DEF NoDeleteOfLive
  <1>10. SaveProgress'
    BY <1>1, <1>2, <1>3 DEF SaveProgress, Live
  <1>11. LiveSessionsStored'
    BY <1>2, <1>4 DEF LiveSessionsStored
  <1>12. QED BY <1>6, <1>7, <1>8, <1>9, <1>10, <1>11

(* One HSET: it writes what was granted, and with the last one the record  *)
(* of a live session is complete.                                          *)
LEMMA SaveStep ==
    ASSUME IInv, TypeOK', NEW t \in tasks, Save(t)
    PROVE  IInv'
  <1> USE DEF IInv
  <1>1. /\ t.op = "save" /\ t.seid \in Seids /\ t.field \in Fields
        /\ t.data \in SessionData
    BY TaskKinds DEF Save
  <1>2. UNCHANGED <<up, lives, sessions, next_seid, cleaning, granted, reused, deleted, cut_off, overtaken>>
    BY DEF Save, history
  <1>3. up /\ granted[t.seid] # None
    BY <1>1 DEF DownIsEmpty, TracesGranted, Pending
  <1>4. \A r \in Seids : Live(r)' <=> Live(r)
    BY <1>2 DEF Live
  <1>5. \A r \in Seids : Pending(r)' => Pending(r)
    BY <1>2, SaveEffect DEF Pending
  <1>6. \A r \in Seids : r # t.seid => (Pending(r)' <=> Pending(r)) /\ redis'[r] = redis[r]
    BY <1>2, <1>5, SaveEffect DEF Pending
  <1>7. /\ redis'[t.seid][t.field] = t.data[t.field]
        /\ \A f \in Fields : f # t.field => redis'[t.seid][f] = redis[t.seid][f]
        /\ redis'[t.seid] \in SessionData /\ redis[t.seid] \in SessionData
    BY <1>1, SaveEffect DEF TypeOK
  <1>8. \A u \in tasks' : u.op = "save" =>
          /\ u.seid \in Seids
          /\ u \in tasks \/ (u.seid = t.seid /\ u.data = t.data /\ t.field # "cp" /\ u.field = NextField(t.field))
    BY SaveEffect, TaskKinds DEF Saves
  <1>9. t.data = granted[t.seid] /\ t.seid < next_seid
    BY <1>1 DEF SavesAsGranted
  <1>10. WritesKept' /\ RecordsWhole' /\ DeletesLast'
    <2>1. /\ NextField("ue") = "tun" /\ NextField("tun") = "cp"
      BY DEF NextField
    <2>2. WritesKept'
      <3> SUFFICES ASSUME NEW u \in tasks', u.op = "save", u.seid \notin overtaken,
                          NEW f \in Fields, Before(f, u.field)
                   PROVE  redis'[u.seid][f] = u.data[f]
        BY <1>2 DEF WritesKept
      <3>1. CASE u.seid # t.seid
        BY <1>6, <1>8, <3>1 DEF WritesKept
      <3>2. CASE u \in tasks /\ u.seid = t.seid
        <4>1. u.data = t.data /\ redis[t.seid][f] = t.data[f]
          BY <1>9, <3>2 DEF SavesAsGranted, WritesKept
        <4>2. QED BY <1>7, <3>2, <4>1
      <3>3. CASE u \notin tasks /\ u.seid = t.seid
        <4>1. u.data = t.data /\ (f = t.field \/ Before(f, t.field))
          BY <1>1, <1>8, <2>1, <3>3 DEF Before, Fields
        <4>2. Before(f, t.field) => redis[t.seid][f] = t.data[f]
          BY <1>1, <3>3 DEF WritesKept
        <4>3. QED BY <1>7, <3>3, <4>1, <4>2
      <3>4. QED BY <3>1, <3>2, <3>3
    <2>3. RecordsWhole'
      <3> SUFFICES ASSUME NEW s \in Seids, s \notin cut_off, s \notin overtaken, ~Saving(s)'
                   PROVE  redis'[s] \in {NoRecord, granted[s]}
        BY <1>2 DEF RecordsWhole
      <3>1. CASE s # t.seid
        <4>1. ~Saving(s)
          BY <3>1, SaveEffect DEF Saving
        <4>2. QED BY <1>6, <3>1, <4>1 DEF RecordsWhole
      <3>2. CASE s = t.seid
        <4>1. t.field = "cp"
          BY <3>2, SaveEffect DEF Saving
        <4>2. \A f \in Fields : f # "cp" => Before(f, "cp")
          BY DEF Fields, Before
        <4>3. \A f \in Fields : redis'[s][f] = t.data[f]
          BY <1>1, <1>7, <3>2, <4>1, <4>2 DEF WritesKept
        <4>4. redis'[s] = t.data
          BY <1>1, <1>7, <3>2, <4>3 DEF SessionData, Fields
        <4>5. QED BY <1>9, <3>2, <4>4
      <3>3. QED BY <3>1, <3>2
    <2>4. DeletesLast'
      <3>1. \A s \in Seids : /\ Saving(s)' => Saving(s)
                             /\ Deleting(s) => Deleting(s)'
        BY <1>1, <1>8, SaveEffect DEF Saving, Deleting
      <3>2. Saving(t.seid)
        BY <1>1 DEF Saving
      <3>3. QED BY <1>2, <1>6, <3>1, <3>2 DEF DeletesLast, TypeOK
    <2>5. QED BY <2>2, <2>3, <2>4
  <1>11. TracesGranted'
    BY <1>2, <1>3, <1>4, <1>5, <1>6 DEF TracesGranted
  <1>12. SavesAsGranted'
    BY <1>2, <1>8, <1>9 DEF SavesAsGranted
  <1>13. DownIsEmpty'
    BY <1>2, <1>3 DEF DownIsEmpty
  <1>14. NoDeleteOfLive'
    BY <1>2, <1>4, SaveEffect DEF NoDeleteOfLive
  <1>15. ASSUME NEW s \in Seids, s \notin reused, Live(s), s = t.seid
         PROVE  /\ sessions[s].ue = t.data.ue /\ sessions[s].cp = t.data.cp
                /\ redis'[s].ue = t.data.ue
                /\ t.field = "cp" => redis'[s].cp = t.data.cp
    <2>1. /\ sessions[s].ue = t.data.ue /\ sessions[s].cp = t.data.cp
          /\ t.field # "ue" => redis[s].ue = t.data.ue
      BY <1>1, <1>15 DEF SaveProgress
    <2>2. redis'[s]["ue"] = t.data["ue"]
      BY <1>7, <1>15, <2>1 DEF Fields, SessionData
    <2>3. t.field = "cp" => redis'[s]["cp"] = t.data["cp"]
      BY <1>7, <1>15
    <2>4. QED BY <1>1, <1>7, <1>15, <2>1, <2>2, <2>3 DEF SessionData
  <1>16. SaveProgress'
    <2> SUFFICES ASSUME NEW u \in tasks', u.op = "save", u.seid \notin reused, Live(u.seid)
                 PROVE  /\ sessions[u.seid].ue = u.data.ue /\ sessions[u.seid].cp = u.data.cp
                        /\ u.field # "ue" => redis'[u.seid].ue = u.data.ue
      BY <1>2, <1>4, <1>8 DEF SaveProgress
    <2>1. CASE u.seid = t.seid
      BY <1>8, <1>9, <1>15, <2>1 DEF SavesAsGranted
    <2>2. CASE u.seid # t.seid
      BY <1>6, <1>8, <2>2 DEF SaveProgress
    <2>3. QED BY <2>1, <2>2
  <1>17. LiveSessionsStored'
    <2> SUFFICES ASSUME NEW s \in Seids, s \notin reused, s \notin cut_off, Live(s), ~Pending(s)'
                 PROVE  redis'[s].ue = sessions[s].ue /\ redis'[s].cp = sessions[s].cp
      BY <1>2, <1>4 DEF LiveSessionsStored
    <2>1. CASE s = t.seid
      <3>1. t.field = "cp"
        BY <2>1, SaveEffect DEF Pending
      <3>2. QED BY <1>15, <2>1, <3>1
    <2>2. CASE s # t.seid
      BY <1>6, <2>2 DEF LiveSessionsStored
    <2>3. QED BY <2>1, <2>2
  <1>18. QED
    BY <1>10, <1>11, <1>12, <1>13, <1>14, <1>16, <1>17

(* The delete of a key: its session is not live.                           *)
LEMMA DeleteStep ==
    ASSUME IInv, TypeOK', NEW t \in tasks, Delete(t)
    PROVE  IInv'
  <1> USE DEF IInv
  <1>1. t.op = "delete" /\ t.seid \in Seids /\ tasks' = tasks \ {t}
    BY TaskKinds DEF Delete
  <1>2. /\ UNCHANGED <<up, lives, sessions, next_seid, cleaning, granted, reused, deleted, cut_off>>
        /\ overtaken' = IF Saving(t.seid) THEN overtaken \cup {t.seid} ELSE overtaken
    BY DEF Delete
  <1>3. redis'[t.seid] = NoRecord /\ \A r \in Seids : r # t.seid => redis'[r] = redis[r]
    BY <1>1 DEF Delete, TypeOK
  <1>4. up /\ granted[t.seid] # None /\ (t.seid \notin reused => ~Live(t.seid))
    BY <1>1 DEF DownIsEmpty, TracesGranted, Pending, NoDeleteOfLive
  <1>5. \A r \in Seids : Live(r)' <=> Live(r)
    BY <1>2 DEF Live
  <1>6. \A r \in Seids : r # t.seid => (Pending(r)' <=> Pending(r))
    BY <1>1, <1>2 DEF Pending
  <1>7. WritesKept' /\ RecordsWhole' /\ DeletesLast'
    <2>1. \A s \in Seids : /\ Saving(s)' <=> Saving(s)
                           /\ s # t.seid => (Deleting(s) => Deleting(s)')
      BY <1>1 DEF Saving, Deleting
    <2>2. \A u \in tasks : u.op = "save" /\ u.seid = t.seid => Saving(t.seid)
      BY DEF Saving
    <2>3. WritesKept'
      BY <1>1, <1>2, <1>3, <2>2, TaskKinds DEF WritesKept
    <2>4. RecordsWhole'
      BY <1>2, <1>3, <2>1 DEF RecordsWhole
    <2>5. DeletesLast'
      BY <1>2, <1>3, <2>1 DEF DeletesLast, TypeOK
    <2>6. QED BY <2>3, <2>4, <2>5
  <1>8. TracesGranted'
    BY <1>2, <1>3, <1>4, <1>5, <1>6 DEF TracesGranted
  <1>9. SavesAsGranted' /\ DownIsEmpty'
    BY <1>1, <1>2, <1>4 DEF SavesAsGranted, DownIsEmpty
  <1>10. NoDeleteOfLive'
    BY <1>1, <1>2, <1>5 DEF NoDeleteOfLive
  <1>11. SaveProgress'
    BY <1>1, <1>2, <1>3, <1>4, <1>5, TaskKinds DEF SaveProgress
  <1>12. LiveSessionsStored'
    BY <1>2, <1>3, <1>4, <1>5, <1>6 DEF LiveSessionsStored
  <1>13. QED BY <1>7, <1>8, <1>9, <1>10, <1>11, <1>12

(* A task that fails marks its SEID, and leaves everything else alone.     *)
LEMMA TaskFailsStep ==
    ASSUME IInv, TypeOK', NEW t \in tasks, TaskFails(t)
    PROVE  IInv'
  <1> USE DEF IInv
  <1>1. tasks' = tasks \ {t} /\ cut_off' = cut_off \cup {t.seid} /\ t.seid \in Seids
    BY TaskKinds DEF TaskFails
  <1>2. UNCHANGED <<up, lives, sessions, next_seid, cleaning, redis, granted, reused, deleted, overtaken>>
    BY DEF TaskFails
  <1>3. \A r \in Seids : /\ Live(r)' <=> Live(r)
                         /\ Pending(r)' => Pending(r)
                         /\ r # t.seid => (Pending(r)' <=> Pending(r))
    BY <1>1, <1>2 DEF Live, Pending
  <1>4. up
    BY DEF DownIsEmpty
  <1>5. SavesAsGranted' /\ WritesKept' /\ RecordsWhole' /\ DeletesLast' /\ DownIsEmpty'
    <2>1. \A s \in Seids : s # t.seid => (Saving(s)' <=> Saving(s)) /\ (Deleting(s)' <=> Deleting(s))
      BY <1>1 DEF Saving, Deleting
    <2>2. SavesAsGranted' /\ WritesKept' /\ DownIsEmpty'
      BY <1>1, <1>2, <1>4 DEF SavesAsGranted, WritesKept, DownIsEmpty
    <2>3. RecordsWhole' /\ DeletesLast'
      BY <1>1, <1>2, <2>1 DEF RecordsWhole, DeletesLast, TypeOK
    <2>4. QED BY <2>2, <2>3
  <1>6. TracesGranted'
    BY <1>2, <1>3 DEF TracesGranted
  <1>7. NoDeleteOfLive'
    BY <1>1, <1>2, <1>3 DEF NoDeleteOfLive
  <1>8. SaveProgress'
    BY <1>1, <1>2 DEF SaveProgress, Live
  <1>9. LiveSessionsStored'
    BY <1>1, <1>2, <1>3 DEF LiveSessionsStored
  <1>10. QED BY <1>5, <1>6, <1>7, <1>8, <1>9

(* A crash: nothing is live or pending any more.                           *)
LEMMA CrashStep ==
    ASSUME IInv, TypeOK', Crash
    PROVE  IInv'
  <1> USE DEF IInv
  <1>1. cleaning' = {} /\ tasks' = {} /\ lives' < MaxLives /\ \A s \in Seids : sessions'[s] = None
    BY DEF Crash
  <1>2. UNCHANGED <<redis, granted, reused, deleted, overtaken>> /\ cut_off' = cut_off \cup {t.seid : t \in tasks}
    BY DEF Crash
  <1>3. \A s \in Seids : ~Live(s)' /\ ~Pending(s)'
    BY <1>1 DEF Live, Pending
  <1>4. SavesAsGranted' /\ WritesKept' /\ RecordsWhole' /\ DeletesLast' /\ DownIsEmpty'
    <2>1. \A s \in Seids : /\ ~Saving(s)' /\ (Saving(s) => s \in cut_off') /\ (Deleting(s) => s \in cut_off')
                           /\ s \notin cut_off' => s \notin cut_off
      BY <1>1, <1>2 DEF Saving, Deleting
    <2>2. SavesAsGranted' /\ WritesKept' /\ DownIsEmpty'
      BY <1>1 DEF SavesAsGranted, WritesKept, DownIsEmpty
    <2>3. RecordsWhole' /\ DeletesLast'
      BY <1>2, <2>1 DEF RecordsWhole, DeletesLast, TypeOK
    <2>4. QED BY <2>2, <2>3
  <1>5. TracesGranted'
    BY <1>2, <1>3 DEF TracesGranted
  <1>6. NoDeleteOfLive' /\ SaveProgress'
    BY <1>1, <1>3 DEF NoDeleteOfLive, SaveProgress
  <1>7. LiveSessionsStored'
    BY <1>3 DEF LiveSessionsStored
  <1>8. QED BY <1>4, <1>5, <1>6, <1>7

(* A restart: a session is live when its key is in Redis, and then it is   *)
(* what Redis has.                                                         *)
LEMMA RestartStep ==
    ASSUME IInv, TypeOK', Restart
    PROVE  IInv'
  <1> USE DEF IInv
  <1>1. up' /\ cleaning' = {} /\ tasks' = {}
    BY DEF Restart, DownIsEmpty
  <1>2. UNCHANGED <<redis, granted, reused, deleted, cut_off, overtaken, tasks>>
    BY DEF Restart, history
  <1>3. \A s \in Seids : Live(s)' => redis[s] # NoRecord /\ sessions'[s] = redis[s]
    BY DEF Restart, LoadAll, Live
  <1>4. \A s \in Seids : ~Pending(s)'
    BY <1>1 DEF Pending
  <1>5. SavesAsGranted' /\ WritesKept' /\ RecordsWhole' /\ DeletesLast' /\ DownIsEmpty'
    BY <1>1, <1>2 DEF SavesAsGranted, WritesKept, RecordsWhole, DeletesLast, Saving, Deleting, DownIsEmpty
  <1>6. TracesGranted'
    BY <1>2, <1>3, <1>4 DEF TracesGranted
  <1>7. NoDeleteOfLive' /\ SaveProgress'
    BY <1>1 DEF NoDeleteOfLive, SaveProgress
  <1>8. LiveSessionsStored'
    BY <1>2, <1>3 DEF LiveSessionsStored
  <1>9. QED BY <1>5, <1>6, <1>7, <1>8

(* The first start: nothing is there.                                      *)
LEMMA InitIInv == Init => IInv
  <1> SUFFICES ASSUME Init PROVE IInv
    OBVIOUS
  <1>1. NoRecord \in SessionData
    BY DEF NoRecord, Fields, SessionData
  <1>2. TypeOK
    BY <1>1, StoreAssumption DEF Init, TypeOK
  <1>3. /\ tasks = {} /\ cleaning = {} /\ up
        /\ \A s \in Seids : sessions[s] = None /\ redis[s] = NoRecord
    BY DEF Init
  <1>4. \A s \in Seids : ~Live(s) /\ ~Pending(s)
    BY <1>3 DEF Live, Pending
  <1>5. RecordsWhole /\ DeletesLast /\ WritesKept
    BY <1>3 DEF Init, RecordsWhole, DeletesLast, WritesKept
  <1>6. QED
    BY <1>2, <1>3, <1>4, <1>5 DEF IInv, TracesGranted, SavesAsGranted, DownIsEmpty,
       NoDeleteOfLive, SaveProgress, LiveSessionsStored

(* Every step of the server, of the spawned tasks, a crash or a restart    *)
(* keeps the invariant.                                                    *)
LEMMA StepIInv == IInv /\ [Next]_vars => IInv'
  <1> SUFFICES ASSUME IInv, [Next]_vars PROVE IInv'
    OBVIOUS
  <1>1. TypeOK'
    BY TypeStep DEF IInv
  <1>2. CASE UNCHANGED vars
    BY <1>2 DEF vars, history, IInv, TypeOK, TracesGranted, SavesAsGranted, WritesKept, RecordsWhole, DeletesLast,
       DownIsEmpty, NoDeleteOfLive, SaveProgress, LiveSessionsStored, Live, Pending, Saving, Deleting
  <1>3. CASE Next
    BY <1>1, <1>3, EstablishStep, ModifyStep, DelLockedStep, DelSpawnStep, SaveStep,
       DeleteStep, TaskFailsStep, CrashStep, RestartStep DEF Next
  <1>4. QED BY <1>2, <1>3

(* The invariant holds in every state. *)
LEMMA Invariance == Spec => []IInv
  <1>1. QED BY InitIInv, StepIInv, PTL DEF Spec

-----------------------------------------------------------------------------
(* The state of the persistence layer has its types, through any number of *)
(* crashes and restarts (session_store.rs, pfcp_server.rs).                *)
THEOREM TypeCorrect == Spec => []TypeOK
  <1>1. IInv => TypeOK
    BY DEF IInv
  <1>2. QED BY <1>1, Invariance, PTL

(* When no save of it is under way, a key of Redis has all fields of the   *)
(* last Establishment under its SEID or is not there, also when SEIDs are  *)
(* handed out again after a restart and the HSETs of SessionStore::save    *)
(* write over an older record; only a task that was cut off or a delete    *)
(* that overtook the save can leave a record in parts.                     *)
THEOREM RecordsComplete == Spec => []RecordsWhole
  <1>1. IInv => RecordsWhole
    BY DEF IInv
  <1>2. QED BY <1>1, Invariance, PTL

(* Once the tasks of an answered Deletion are done, Redis has no record of *)
(* the session, in this life and in all later ones, unless a task was cut  *)
(* off or the delete overtook the save (the two are spawned apart and not  *)
(* waited for, handle_msg.rs).                                             *)
THEOREM DeletedStayDeleted == Spec => []DeletedForgotten
  <1>1. IInv => DeletedForgotten
    BY DEF IInv, DeletesLast, DeletedForgotten, Deleting, Pending, TypeOK
  <1>2. QED BY <1>1, Invariance, PTL

(* A live session whose save was carried out is in Redis with its UE       *)
(* address and its CP-SEID, also once it was restored by load_all: a crash *)
(* loses neither.                                                          *)
THEOREM NothingLostByCrash == Spec => []LiveSessionsStored
  <1>1. IInv => LiveSessionsStored
    BY DEF IInv
  <1>2. QED BY <1>1, Invariance, PTL
=============================================================================
