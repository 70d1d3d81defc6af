-------------------------- MODULE SessionLifecycle --------------------------
(***************************************************************************)
(* What upf-edge promises the SMFs about associations and sessions, one    *)
(* atomic step per request, without maps, locks, tasks or clean-ups.       *)
(*                                                                         *)
(* A session comes into being whole, under a SEID that no session had      *)
(* before, for a peer that has an association; it changes and ends only at *)
(* the request of a peer whose association holds its CP-SEID.  What a      *)
(* session consists of (rules, end point) is left open: ContentOf is what  *)
(* an Establishment Request asks for, Changes what one Modification may    *)
(* make of it.                                                             *)
(***************************************************************************)
EXTENDS Naturals

CONSTANTS
    Peers, Nodes,
    NodeOf,           \* [Peers -> Nodes]
    CpSeids, Seids, Timestamps,
    Requests,         \* Establishment Requests: records with src, cp and ue
    ContentOf(_, _),  \* of a request and the SEID it gets
    Changes(_),       \* of a content
    None

VARIABLES
    assoc,     \* by Node ID: peer, Recovery Time Stamp, CP-SEIDs of its sessions
    session,   \* by SEID: the established session
    released   \* SEIDs whose session was deleted

vars == <<assoc, session, released>>

Init ==
    /\ assoc = [n \in Nodes |-> None]
    /\ session = [s \in Seids |-> None]
    /\ released = {}

Associated(p, n) == assoc[n] # None /\ assoc[n].peer = p
Established(s) == session[s] # None
MayTouch(p, n, s) == Associated(p, n) /\ Established(s) /\ session[s].cp \in assoc[n].sessions

(* A new association, or one that starts anew. *)
Associate(p, ts) ==
    LET n == NodeOf[p] IN
    /\ assoc[n] # None => assoc[n].ts # ts
    /\ assoc' = [assoc EXCEPT ![n] = [peer |-> p, ts |-> ts, sessions |-> {}]]
    /\ UNCHANGED <<session, released>>

(* A heartbeat tells that the SMF was restarted. *)
PeerRestarted(p, n, ts) ==
    /\ Associated(p, n)
    /\ assoc[n].ts # ts
    /\ assoc' = [assoc EXCEPT ![n] = [@ EXCEPT !.sessions = {}, !.ts = ts]]
    /\ UNCHANGED <<session, released>>

Establish(q, n, s) ==
    /\ Associated(q.src, n)
    /\ ~Established(s) /\ s \notin released
    /\ session' = [session EXCEPT ![s] = [ue |-> q.ue, cp |-> q.cp, content |-> ContentOf(q, s)]]
    /\ assoc' = [assoc EXCEPT ![n].sessions = @ \cup {q.cp}]
    /\ UNCHANGED released

Modify(p, n, s) ==
    /\ MayTouch(p, n, s)
    /\ \E c \in Changes(session[s].content) : session' = [session EXCEPT ![s].content = c]
    /\ UNCHANGED <<assoc, released>>

Release(p, n, s) ==
    /\ MayTouch(p, n, s)
    /\ assoc' = [assoc EXCEPT ![n].sessions = @ \ {session[s].cp}]
    /\ session' = [session EXCEPT ![s] = None]
    /\ released' = released \cup {s}

Next ==
    \/ \E p \in Peers, ts \in Timestamps : Associate(p, ts)
    \/ \E p \in Peers, n \in Nodes, ts \in Timestamps : PeerRestarted(p, n, ts)
    \/ \E q \in Requests, n \in Nodes, s \in Seids : Establish(q, n, s)
    \/ \E p \in Peers, n \in Nodes, s \in Seids : Modify(p, n, s) \/ Release(p, n, s)

Spec == Init /\ [][Next]_vars
=============================================================================
