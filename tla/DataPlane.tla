------------------------------ MODULE DataPlane ------------------------------
(***************************************************************************)
(* The XDP programs of upf-edge-ebpf (main.rs) and the eBPF maps they read *)
(* while the PFCP handlers rewrite them.  A packet reads the maps one      *)
(* entry at a time, a handler writes them one entry at a time, and nothing *)
(* orders the two.                                                         *)
(*                                                                         *)
(* The maps are keyed as in upf-edge-common (lib.rs): SESSION_MAP by UE    *)
(* address, PDR_MAP and FAR_MAP by a number made of SEID and rule ID.  A   *)
(* UE address is given to a new session only when the session that had it  *)
(* is gone; overlapping sessions are the subject of PfcpServer.            *)
(*                                                                         *)
(* The header checks that come before the SESSION_MAP lookup pass a packet *)
(* on without reading a rule and are left out.  So is the rewriting of the *)
(* headers after the decision, with its own exits: a packet that has no    *)
(* room for the new headers, or a MAC address or interface index that is   *)
(* not configured, is passed on to the kernel.  A verdict here is what the *)
(* rules decided before that.                                              *)
(***************************************************************************)
EXTENDS Integers, Sequences, SequencesExt

CONSTANTS
    Seids, Ues,
    UeOf,         \* [Seids -> Ues]
    TunnelsOf,    \* by SEID: the gNB tunnel end points its SMF asks for
    RulesOf,      \* by SEID: [pdrs, fars, access], the rules it is established with
    Packets,      \* [dir, ue] and the SDF fields
    Cpus,
    MaxPdr,       \* MAX_PDR_PER_SESSION
    MaxPrecedence,\* u32::MAX
    None

IdSpan == 2^16   \* a rule key keeps 16 bits of the rule's ID
IFACE_ACCESS == 0
IFACE_CORE == 1
SdfFields == {"proto", "src_ip", "dst_ip", "src_port", "dst_port"}
Ports == {"src_port", "dst_port"}

(* The rules are sequences, as the request lists them; a FAR is an ID with *)
(* its Apply Action, and access is the FAR that carries the tunnel.        *)
PdrsOf(s) == RulesOf[s].pdrs
FarsOf(s) == RulesOf[s].fars
FarIdsOf(s) == {FarsOf(s)[i].id : i \in 1..Len(FarsOf(s))}

Tunnels == UNION {TunnelsOf[s] : s \in Seids}
Actions == SUBSET {"DROP", "FORW", "BUFF"}

(* lib.rs takes rule IDs for 16 bits wide ("FAR ID is u16") and SEIDs for  *)
(* 48: they are allocated one after the other and never get there.         *)
RuleIds == 0..IdSpan - 1

(* The entries of the maps, and the IDs a SessionInfo has room for. *)
Pdr == [id : RuleIds, precedence : 0..MaxPrecedence, iface : Nat,
        sdf : [SdfFields -> Nat], far : Nat]
Far == [id : RuleIds, action : Actions]
FarValue == [action : Actions, tun : Tunnels \cup {None}]
PdrIdArray == {a \in Seq(RuleIds) : Len(a) <= MaxPdr}
SessionInfo == [seid : Seids, tun : [gnb : Tunnels, teid : Tunnels \cup Seids], pdrs : PdrIdArray]
PacketHeaders == [dir : {"ul", "dl"}, ue : Ues, proto : Nat, src_ip : Nat, dst_ip : Nat,
                  src_port : Nat, dst_port : Nat]

(* A request names a rule only once. *)
ASSUME RulesAssumption ==
    /\ Seids \subseteq Nat
    /\ UeOf \in [Seids -> Ues]
    /\ \A s \in Seids : /\ PdrsOf(s) \in Seq(Pdr)
                        /\ FarsOf(s) \in Seq(Far)
                        /\ RulesOf[s].access \in FarIdsOf(s)
                        /\ \A i, j \in 1..Len(PdrsOf(s)) : PdrsOf(s)[i].id = PdrsOf(s)[j].id => i = j
                        /\ \A i, j \in 1..Len(FarsOf(s)) : FarsOf(s)[i].id = FarsOf(s)[j].id => i = j
    /\ Packets \subseteq PacketHeaders
    /\ MaxPdr \in Nat /\ MaxPrecedence \in Nat

ASSUME NoneAssumption ==
    /\ None \notin Tunnels /\ None \notin SessionInfo /\ None \notin Pdr /\ None \notin FarValue

\* Mutant: a key too narrow for the SEID keeps only its lowest bit.
RuleKeyNarrow(seid, id) == (seid % 2) * IdSpan + (id % IdSpan)

(* PdrKey::new and FarKey::new: the SEID above the 16 bits of the rule ID. *)
RuleKey(seid, id) == seid * IdSpan + (id % IdSpan)

PdrKeys == UNION {{RuleKey(s, PdrsOf(s)[i].id) : i \in 1..Len(PdrsOf(s))} : s \in Seids}
FarKeys == UNION {{RuleKey(s, f) : f \in FarIdsOf(s)} : s \in Seids}

VARIABLES
    session_map, \* SESSION_MAP
    pdr_map,     \* PDR_MAP
    far_map,     \* FAR_MAP
    tunnel,      \* by SEID: the tunnel the SMF asked for last
    todo,        \* by SEID: the map writes its handler still has to do
    phase,       \* by SEID: "unborn", "up", "gone", or what its handler does
    cpu          \* by CPU: the XDP program's registers

maps == <<session_map, pdr_map, far_map>>
vars == <<session_map, pdr_map, far_map, tunnel, todo, phase, cpu>>

Idle == [at |-> "idle"]

Init ==
    /\ session_map = [u \in Ues |-> None]
    /\ pdr_map = [k \in PdrKeys |-> None]
    /\ far_map = [k \in FarKeys |-> None]
    /\ tunnel \in {t \in [Seids -> Tunnels] : \A s \in Seids : t[s] \in TunnelsOf[s]}
    /\ todo = [s \in Seids |-> <<>>]
    /\ phase = [s \in Seids |-> "unborn"]
    /\ cpu = [c \in Cpus |-> Idle]

-----------------------------------------------------------------------------
(* The map writes of the handlers, in their order. *)
FarOf(s, i) == [action |-> FarsOf(s)[i].action,
                tun |-> IF FarsOf(s)[i].id = RulesOf[s].access THEN tunnel[s] ELSE None]

(* The first MAX_PDR_PER_SESSION PDR IDs only. *)
KeptPdrs(s) == {i \in 1..Len(PdrsOf(s)) : i <= MaxPdr}
KeptPdrIds(s) == [i \in KeptPdrs(s) |-> PdrsOf(s)[i].id]

\* Mutant: SessionInfo takes all the PDR IDs of the request.
InfoOfAll(s) == [seid |-> s, tun |-> [gnb |-> tunnel[s], teid |-> s],
                 pdrs |-> [i \in 1..Len(PdrsOf(s)) |-> PdrsOf(s)[i].id]]

(* The session's own tunnel has the TEID that the UPF allocated for it. *)
InfoOf(s) == [seid |-> s, tun |-> [gnb |-> tunnel[s], teid |-> s], pdrs |-> KeptPdrIds(s)]

PutSession(s) == <<[map |-> "session", key |-> UeOf[s], value |-> InfoOf(s)]>>
PutPdrs(s) == [i \in 1..Len(PdrsOf(s)) |->
                 [map |-> "pdr", key |-> RuleKey(s, PdrsOf(s)[i].id), value |-> PdrsOf(s)[i]]]
PutFars(s) == [i \in 1..Len(FarsOf(s)) |->
                 [map |-> "far", key |-> RuleKey(s, FarsOf(s)[i].id), value |-> FarOf(s, i)]]

(* Deletion removes the PDRs of the SessionInfo, the FARs they refer to,   *)
(* in any order, and the session.                                          *)
DropPdrs(s) == [i \in KeptPdrs(s) |->
                 [map |-> "pdr", key |-> RuleKey(s, PdrsOf(s)[i].id), value |-> None]]
DropFars(s, fs) == [i \in 1..Len(fs) |-> [map |-> "far", key |-> RuleKey(s, fs[i]), value |-> None]]
DropSession(s) == <<[map |-> "session", key |-> UeOf[s], value |-> None]>>
UsedFars(s) == {PdrsOf(s)[i].far : i \in KeptPdrs(s)} \cap FarIdsOf(s)

(* Only Deletion writes the maps without the server mutex. *)
ServerUnlocked == \A r \in Seids : phase[r] # "installing"

(* The packets that are under way for the UE of s, or have been handled,   *)
(* can no longer be judged by the rules of one moment.                     *)
Disturb(s) ==
    cpu' = [c \in Cpus |-> IF cpu[c].at # "idle" /\ cpu[c].p.ue = UeOf[s]
                           THEN [cpu[c] EXCEPT !.stable = FALSE] ELSE cpu[c]]

Handler(s, kind, writes) ==
    /\ ServerUnlocked
    /\ phase' = [phase EXCEPT ![s] = kind]
    /\ todo' = [todo EXCEPT ![s] = writes]
    /\ Disturb(s)
    /\ UNCHANGED maps

Establish(s) ==
    /\ phase[s] = "unborn"
    /\ \A r \in Seids \ {s} : UeOf[r] = UeOf[s] => phase[r] \in {"unborn", "gone"}
    /\ Handler(s, "installing", PutSession(s) \o PutPdrs(s) \o PutFars(s))
    /\ UNCHANGED tunnel

(* Session Modification with an Update FAR for the Access side. *)
Modify(s, tun) ==
    LET far == [far_map[RuleKey(s, RulesOf[s].access)] EXCEPT !.tun = tun]
        info == [session_map[UeOf[s]] EXCEPT !.tun = [gnb |-> tun, teid |-> tun]] IN
    /\ phase[s] = "up"
    /\ tunnel' = [tunnel EXCEPT ![s] = tun]
    /\ Handler(s, "installing",
               <<[map |-> "far", key |-> RuleKey(s, RulesOf[s].access), value |-> far],
                 [map |-> "session", key |-> UeOf[s], value |-> info]>>)

Delete(s) ==
    /\ phase[s] = "up"
    /\ \E fs \in SetToSeqs(UsedFars(s)) :
         Handler(s, "removing", DropPdrs(s) \o DropFars(s, fs) \o DropSession(s))
    /\ UNCHANGED tunnel

(* One insert or remove. *)
MapWrite(s) ==
    LET w == Head(todo[s]) IN
    /\ todo[s] # <<>>
    /\ session_map' = IF w.map = "session" THEN [session_map EXCEPT ![w.key] = w.value] ELSE session_map
    /\ pdr_map' = IF w.map = "pdr" THEN [pdr_map EXCEPT ![w.key] = w.value] ELSE pdr_map
    /\ far_map' = IF w.map = "far" THEN [far_map EXCEPT ![w.key] = w.value] ELSE far_map
    /\ todo' = [todo EXCEPT ![s] = Tail(@)]
    /\ phase' = [phase EXCEPT ![s] = IF Len(todo[s]) > 1 THEN @
                                     ELSE IF @ = "installing" THEN "up" ELSE "gone"]
    /\ Disturb(s)
    /\ UNCHANGED tunnel

-----------------------------------------------------------------------------
(* The ports of a packet are compared as they lie in it, in network byte   *)
(* order, with the ports of the filter in host order: on a little-endian   *)
(* host the octets are swapped.                                            *)
Swap16(n) == (n % 256) * 256 + (n \div 256)
AsRead(f, n) == IF f \in Ports THEN Swap16(n) ELSE n

sdf_matches(pdr, p) == \A f \in SdfFields : pdr.sdf[f] # 0 => pdr.sdf[f] = AsRead(f, p[f])

Interface(p) == IF p.dir = "ul" THEN IFACE_ACCESS ELSE IFACE_CORE

Pass == [act |-> "pass"]
DropIt == [act |-> "drop"]
ToN6 == [act |-> "n6"]
ToN3(tun) == [act |-> "n3", tun |-> tun]

Done(c, verdict) == [at |-> "done", p |-> cpu[c].p, info |-> cpu[c].info,
                     stable |-> cpu[c].stable, verdict |-> verdict]

(* A packet arrives and its session is looked up by the UE address, the    *)
(* inner source of an uplink and the destination of a downlink packet.     *)
Lookup(c, p) ==
    LET info == session_map[p.ue]
        quiet == \A s \in Seids : UeOf[s] = p.ue => phase[s] \notin {"installing", "removing"} IN
    /\ cpu[c].at \in {"idle", "done"}
    /\ cpu' = [cpu EXCEPT ![c] =
                 IF info = None
                 THEN [at |-> "done", p |-> p, info |-> None, stable |-> quiet, verdict |-> Pass]
                 ELSE [at |-> "select", p |-> p, info |-> info, stable |-> quiet,
                       i |-> 1, best |-> None, precedence |-> MaxPrecedence, pdr |-> None]]
    /\ UNCHANGED <<maps, tunnel, todo, phase>>

(* The two XDP programs, on the N3 and on the N6 interface. *)
N3Uplink(c, p) == p.dir = "ul" /\ Lookup(c, p)
N6Downlink(c, p) == p.dir = "dl" /\ Lookup(c, p)

\* Mutant: of two PDRs with the same precedence the later one wins.
BetterLast(pdr, precedence) == pdr.precedence <= precedence

(* select_far replaces its choice only by a PDR with a lower precedence. *)
Better(pdr, precedence) == pdr.precedence < precedence

(* select_far reads one PDR ... *)
SelectPdr(c) ==
    LET k == cpu[c]
        pdr == pdr_map[RuleKey(k.info.seid, k.info.pdrs[k.i])] IN
    /\ k.at = "select"
    /\ k.i <= Len(k.info.pdrs)
    /\ cpu' = [cpu EXCEPT ![c] =
                 IF /\ pdr # None
                    /\ pdr.iface = Interface(k.p)
                    /\ sdf_matches(pdr, k.p)
                    /\ Better(pdr, k.precedence)
                 THEN [k EXCEPT !.at = "far", !.pdr = pdr]
                 ELSE [k EXCEPT !.i = @ + 1]]
    /\ UNCHANGED <<maps, tunnel, todo, phase>>

(* A PDR may name an FAR its session has never had. *)
FarAt(seid, id) == IF RuleKey(seid, id) \in FarKeys THEN far_map[RuleKey(seid, id)] ELSE None

(* ... and the FAR of a PDR that would be better than the best so far. *)
SelectFar(c) ==
    LET k == cpu[c]
        far == FarAt(k.info.seid, k.pdr.far) IN
    /\ k.at = "far"
    /\ cpu' = [cpu EXCEPT ![c] =
                 [k EXCEPT !.at = "select", !.i = @ + 1, !.pdr = None,
                           !.best = IF far = None THEN @ ELSE far,
                           !.precedence = IF far = None THEN @ ELSE k.pdr.precedence]]
    /\ UNCHANGED <<maps, tunnel, todo, phase>>

(* The loop is over.  Without a FAR the packet is let through. *)
Selected(c) ==
    LET k == cpu[c] IN
    /\ k.at = "select"
    /\ k.i > Len(k.info.pdrs)
    /\ cpu' = [cpu EXCEPT ![c] =
                 IF k.best # None /\ "DROP" \in k.best.action THEN Done(c, DropIt)
                 ELSE IF k.p.dir = "ul" THEN Done(c, ToN6)
                 ELSE [k EXCEPT !.at = "get", !.i = 1]]
    /\ UNCHANGED <<maps, tunnel, todo, phase>>

(* downlink_get_far: the first PDR of the Core side, whatever its filter   *)
(* and precedence ...                                                      *)
GetPdr(c) ==
    LET k == cpu[c]
        pdr == pdr_map[RuleKey(k.info.seid, k.info.pdrs[k.i])] IN
    /\ k.at = "get"
    /\ k.i <= Len(k.info.pdrs)
    /\ cpu' = [cpu EXCEPT ![c] =
                 IF pdr # None /\ pdr.iface = IFACE_CORE
                 THEN [k EXCEPT !.at = "getfar", !.pdr = pdr]
                 ELSE [k EXCEPT !.i = @ + 1]]
    /\ UNCHANGED <<maps, tunnel, todo, phase>>

(* ... and its FAR, which decides on the tunnel. *)
GetFar(c) ==
    LET k == cpu[c]
        far == FarAt(k.info.seid, k.pdr.far) IN
    /\ k.at = "getfar"
    /\ cpu' = [cpu EXCEPT ![c] =
                 IF far = None THEN [k EXCEPT !.at = "get", !.i = @ + 1, !.pdr = None]
                 ELSE IF "DROP" \in far.action THEN Done(c, DropIt)
                 ELSE IF "FORW" \in far.action THEN Done(c, ToN3([gnb |-> far.tun, teid |-> far.tun]))
                 ELSE Done(c, ToN3(k.info.tun))]
    /\ UNCHANGED <<maps, tunnel, todo, phase>>

GetNone(c) ==
    /\ cpu[c].at = "get"
    /\ cpu[c].i > Len(cpu[c].info.pdrs)
    /\ cpu' = [cpu EXCEPT ![c] = Done(c, ToN3(cpu[c].info.tun))]
    /\ UNCHANGED <<maps, tunnel, todo, phase>>

-----------------------------------------------------------------------------
Next ==
    \/ \E s \in Seids : Establish(s) \/ Delete(s) \/ MapWrite(s)
    \/ \E s \in Seids : \E tun \in TunnelsOf[s] : Modify(s, tun)
    \/ \E c \in Cpus, p \in Packets : N3Uplink(c, p) \/ N6Downlink(c, p)
    \/ \E c \in Cpus : SelectPdr(c) \/ SelectFar(c) \/ Selected(c) \/ GetPdr(c) \/ GetFar(c) \/ GetNone(c)

Spec == Init /\ [][Next]_vars

-----------------------------------------------------------------------------
(* One write of a handler, and the registers of a CPU while it handles a   *)
(* packet and when it has.                                                 *)
MapEntry == [map : {"session"}, key : Ues, value : SessionInfo \cup {None}]
            \cup [map : {"pdr"}, key : PdrKeys, value : Pdr \cup {None}]
            \cup [map : {"far"}, key : FarKeys, value : FarValue \cup {None}]
EndPoint == [gnb : Tunnels \cup {None}, teid : Tunnels \cup Seids \cup {None}]
Verdict == {Pass, DropIt, ToN6} \cup {ToN3(tun) : tun \in EndPoint}
Running == [at : {"select", "far", "get", "getfar"}, p : Packets, info : SessionInfo, stable : BOOLEAN,
            i : 1..MaxPdr + 1, best : FarValue \cup {None}, precedence : 0..MaxPrecedence, pdr : Pdr \cup {None}]
Finished == [at : {"done"}, p : Packets, info : SessionInfo \cup {None}, stable : BOOLEAN, verdict : Verdict]

(* The maps hold entries of the right kind, a SessionInfo never names more *)
(* PDRs than its array takes, and the XDP program never indexes beyond it. *)
TypeOK ==
    /\ session_map \in [Ues -> SessionInfo \cup {None}]
    /\ pdr_map \in [PdrKeys -> Pdr \cup {None}]
    /\ far_map \in [FarKeys -> FarValue \cup {None}]
    /\ tunnel \in [Seids -> Tunnels]
    /\ todo \in [Seids -> Seq(MapEntry)]
    /\ phase \in [Seids -> {"unborn", "installing", "up", "removing", "gone"}]
    /\ cpu \in [Cpus -> {Idle} \cup Running \cup Finished]

Matching(s, p) ==
    {i \in 1..Len(PdrsOf(s)) :
        /\ PdrsOf(s)[i].iface = Interface(p)
        /\ \A f \in SdfFields : PdrsOf(s)[i].sdf[f] # 0 => PdrsOf(s)[i].sdf[f] = p[f]}

ActionOf(s, f) == LET i == CHOOSE j \in 1..Len(FarsOf(s)) : FarsOf(s)[j].id = f IN FarsOf(s)[i].action

(* What the rules of s say of packet p: the FAR of the matching PDR with   *)
(* the lowest precedence, of the first one when there are several.         *)
Ruled(s, p) ==
    LET prec(i) == PdrsOf(s)[i].precedence
        rule == CHOOSE i \in Matching(s, p) : \A j \in Matching(s, p) :
                  prec(i) < prec(j) \/ (prec(i) = prec(j) /\ i <= j) IN
    IF "DROP" \in ActionOf(s, PdrsOf(s)[rule].far) THEN DropIt
    ELSE IF p.dir = "ul" THEN ToN6
    ELSE ToN3([gnb |-> tunnel[s], teid |-> tunnel[s]])

(* Rules the XDP programs can express: no PDR beyond the array or with the *)
(* highest precedence there is, only FARs that exist and drop or forward,  *)
(* and on the Core side, where downlink_get_far does not look at filters,  *)
(* one FAR for all, with the tunnel if it forwards.                        *)
Expressible(s) ==
    /\ Len(PdrsOf(s)) <= MaxPdr
    /\ \A i \in 1..Len(PdrsOf(s)) :
         /\ PdrsOf(s)[i].precedence < MaxPrecedence
         /\ PdrsOf(s)[i].far \in FarIdsOf(s)
         /\ ActionOf(s, PdrsOf(s)[i].far) \in {{"DROP"}, {"FORW"}}
         /\ PdrsOf(s)[i].iface = IFACE_CORE =>
              PdrsOf(s)[i].far = RulesOf[s].access

NoPortFilter(s) ==
    \A i \in 1..Len(PdrsOf(s)) : \A f \in Ports : PdrsOf(s)[i].sdf[f] = 0

Handled(c) == cpu[c].at = "done" /\ cpu[c].info # None

(* A packet that no handler of its own UE interferes with is treated as    *)
(* the rules of its session say, whatever happens to other sessions with   *)
(* the same rule IDs: the lowest precedence wins in select_far, with the   *)
(* tunnel of the last Modification.                                        *)
VerdictAsRuled ==
    \A c \in Cpus : Handled(c) /\ cpu[c].stable =>
        LET s == cpu[c].info.seid
            p == cpu[c].p IN
        Expressible(s) /\ NoPortFilter(s) /\ Matching(s, p) # {}
            => cpu[c].verdict = Ruled(s, p)

(* A downlink packet leaves through a tunnel of the session it was looked  *)
(* up for, even when that session is deleted, its UE address given to a    *)
(* new session and its rule IDs reused while the packet is under way.      *)
NoMixingOfSessions ==
    \A c \in Cpus : Handled(c) /\ cpu[c].verdict.act = "n3" =>
        cpu[c].verdict.tun.gnb \in TunnelsOf[cpu[c].info.seid] \cup {None}

(* Rules are seen as a whole or not at all: a packet that its session's    *)
(* rules drop is not let through while they are written or removed         *)
(* ("atomic updates while traffic keeps flowing").                         *)
NeverLetThrough ==
    \A c \in Cpus : Handled(c) =>
        LET s == cpu[c].info.seid
            p == cpu[c].p IN
        Expressible(s) /\ NoPortFilter(s) /\ Matching(s, p) # {} /\ Ruled(s, p) = DropIt
            => cpu[c].verdict = DropIt
=============================================================================
