--------------------------- MODULE DataPlaneProofs ---------------------------
(***************************************************************************)
(* Machine-checked proofs about DataPlane, for any number of sessions,     *)
(* UEs, CPUs and rules.                                                    *)
(***************************************************************************)
EXTENDS DataPlane, TLAPS, SequenceTheorems, FiniteSetTheorems

-----------------------------------------------------------------------------
(* The inductive invariant: the handlers' side.                            *)

Active(s) == phase[s] \in {"installing", "up", "removing"}
PdrKeyOf(s, i) == RuleKey(s, PdrsOf(s)[i].id)
FarKeyOf(s, i) == RuleKey(s, FarsOf(s)[i].id)
PutPdr(s, i) == [map |-> "pdr", key |-> PdrKeyOf(s, i), value |-> PdrsOf(s)[i]]
PutFar(s, i) == [map |-> "far", key |-> FarKeyOf(s, i), value |-> FarOf(s, i)]

(* A SessionInfo of s, with one of the tunnels its SMF has asked for.      *)
InfoFits(info, s) ==
    info \in SessionInfo /\ info.seid = s /\ info.pdrs = KeptPdrIds(s) /\ info.tun.gnb \in TunnelsOf[s]
PutsSession(s, w) == w.map = "session" /\ w.key = UeOf[s] /\ InfoFits(w.value, s)

(* The writes of an Establishment or Modification, and of a Deletion. *)
Installs(s, w) ==
    \/ PutsSession(s, w)
    \/ \E i \in 1..Len(PdrsOf(s)) : w = PutPdr(s, i)
    \/ \E i \in 1..Len(FarsOf(s)) : w = PutFar(s, i)
DropsSession(s, w) == w.map = "session" /\ w.key = UeOf[s] /\ w.value = None
Removes(s, w) ==
    \/ DropsSession(s, w)
    \/ w.map = "pdr" /\ w.value = None /\ \E i \in 1..Len(PdrsOf(s)) : w.key = PdrKeyOf(s, i)
    \/ w.map = "far" /\ w.value = None /\ \E i \in 1..Len(FarsOf(s)) : w.key = FarKeyOf(s, i)

TodoFits(s) ==
    /\ phase[s] = "installing" => todo[s] # <<>> /\ \A j \in 1..Len(todo[s]) : Installs(s, todo[s][j])
    /\ phase[s] = "removing" => /\ todo[s] # <<>> /\ \A j \in 1..Len(todo[s]) : Removes(s, todo[s][j])
                                /\ DropsSession(s, todo[s][Len(todo[s])])
    /\ phase[s] \notin {"installing", "removing"} => todo[s] = <<>>

(* What a session needs is in the maps or still to be written. *)
SessionPut(s) == \/ InfoFits(session_map[UeOf[s]], s)
                 \/ \E j \in 1..Len(todo[s]) : PutsSession(s, todo[s][j])
PdrsPut(s) ==
    \A i \in 1..Len(PdrsOf(s)) : \/ pdr_map[PdrKeyOf(s, i)] = PdrsOf(s)[i]
                                 \/ \E j \in 1..Len(todo[s]) : todo[s][j] = PutPdr(s, i)
FarsPut(s) ==
    \A i \in 1..Len(FarsOf(s)) : \/ far_map[FarKeyOf(s, i)] = FarOf(s, i)
                                 \/ \E j \in 1..Len(todo[s]) : todo[s][j] = PutFar(s, i)
RulesPut(s) == phase[s] \in {"installing", "up"} => SessionPut(s) /\ PdrsPut(s) /\ FarsPut(s)

TunnelAsked(s) == tunnel[s] \in TunnelsOf[s]
UeAlone == \A s, r \in Seids : Active(s) /\ Active(r) /\ UeOf[s] = UeOf[r] => s = r
SessionEntries ==
    \A u \in Ues : session_map[u] # None =>
        LET s == session_map[u].seid IN UeOf[s] = u /\ Active(s) /\ InfoFits(session_map[u], s)
FarEntries ==
    \A s \in Seids : \A i \in 1..Len(FarsOf(s)) :
        far_map[FarKeyOf(s, i)] # None => far_map[FarKeyOf(s, i)].tun \in TunnelsOf[s] \cup {None}

HInv == /\ UeAlone /\ SessionEntries /\ FarEntries
        /\ \A s \in Seids : TodoFits(s) /\ RulesPut(s) /\ TunnelAsked(s)

-----------------------------------------------------------------------------
(* The XDP programs' side.                                                 *)
AtWork(c) == cpu[c].at \notin {"idle", "done"}

(* A packet stays with the session it was looked up for, and within the    *)
(* array of its PDR IDs.                                                   *)
PacketOwn(c) ==
    AtWork(c) \/ Handled(c) => LET s == cpu[c].info.seid IN InfoFits(cpu[c].info, s) /\ UeOf[s] = cpu[c].p.ue
PacketInArray(c) ==
    /\ AtWork(c) => cpu[c].i <= Len(cpu[c].info.pdrs) + 1
    /\ cpu[c].at \in {"far", "getfar"} => cpu[c].i <= Len(cpu[c].info.pdrs) /\ cpu[c].pdr # None
NotMixed(c) ==
    Handled(c) /\ cpu[c].verdict.act = "n3" => cpu[c].verdict.tun.gnb \in TunnelsOf[cpu[c].info.seid] \cup {None}

(* The rule that decides among the first ones, and what select_far has     *)
(* found when it has seen those.                                           *)
Before(s, i, j) == \/ PdrsOf(s)[i].precedence < PdrsOf(s)[j].precedence
                   \/ PdrsOf(s)[i].precedence = PdrsOf(s)[j].precedence /\ i <= j
Seen(s, p, i) == {j \in Matching(s, p) : j < i}
Decides(s, p, i, b) == b \in Seen(s, p, i) /\ \A j \in Seen(s, p, i) : Before(s, b, j)
BestOf(s, p, i, best, precedence) ==
    \/ Seen(s, p, i) = {} /\ best = None /\ precedence = MaxPrecedence
    \/ \E b \in 1..Len(PdrsOf(s)) :
         /\ Decides(s, p, i, b)
         /\ best # None /\ best.action = ActionOf(s, PdrsOf(s)[b].far)
         /\ precedence = PdrsOf(s)[b].precedence

(* The rule that decides about p, and what the XDP program knows of it     *)
(* while it handles p: in select_far the best rule so far, behind it that  *)
(* the rule lets the packet pass and no earlier rule is of the Core side.  *)
Rules(s, p, b) == b \in Matching(s, p) /\ \A j \in Matching(s, p) : Before(s, b, j)
Judgeable(s, p) == Expressible(s) /\ NoPortFilter(s) /\ Matching(s, p) # {}
Judging(s, k) ==
    /\ k.at \in {"select", "far"} => BestOf(s, k.p, k.i, k.best, k.precedence)
    /\ k.at = "far" => k.pdr = PdrsOf(s)[k.i] /\ k.i \in Matching(s, k.p) /\ k.pdr.precedence < k.precedence
    /\ k.at \in {"get", "getfar"} =>
         /\ k.p.dir = "dl"
         /\ \E b \in 1..Len(PdrsOf(s)) : Rules(s, k.p, b) /\ "DROP" \notin ActionOf(s, PdrsOf(s)[b].far)
         /\ \A j \in 1..Len(PdrsOf(s)) : j < k.i => PdrsOf(s)[j].iface # IFACE_CORE
    /\ k.at = "getfar" => k.pdr = PdrsOf(s)[k.i] /\ k.pdr.iface = IFACE_CORE
SelectProgress(c) ==
    AtWork(c) /\ cpu[c].stable =>
        LET s == cpu[c].info.seid IN phase[s] = "up" /\ (Judgeable(s, cpu[c].p) => Judging(s, cpu[c]))
Judged(c) ==
    Handled(c) /\ cpu[c].stable =>
        (Judgeable(cpu[c].info.seid, cpu[c].p) => cpu[c].verdict = Ruled(cpu[c].info.seid, cpu[c].p))

PInv == \A c \in Cpus : PacketOwn(c) /\ PacketInArray(c) /\ NotMixed(c) /\ SelectProgress(c) /\ Judged(c)

IInv == TypeOK /\ HInv /\ PInv

-----------------------------------------------------------------------------
(* Keys, rules and arrays.                                                 *)

(* Rule IDs fit into the bits a key has for them. *)
LEMMA IdFacts ==
    /\ IdSpan \in Nat \ {0}
    /\ \A a \in RuleIds : a \in Nat /\ a % IdSpan = a
<1>1. IdSpan \in Nat \ {0}
  BY SMT DEF IdSpan
<1>2. QED BY <1>1 DEF RuleIds

(* A rule key tells the SEID and the rule's ID apart (PdrKey::new and      *)
(* FarKey::new): sessions may use the same rule IDs.                       *)
LEMMA KeyOwner ==
    ASSUME NEW s \in Nat, NEW r \in Nat, NEW a \in Nat, NEW b \in Nat, RuleKey(s, a) = RuleKey(r, b)
    PROVE  s = r /\ a % IdSpan = b % IdSpan
<1>1. IdSpan \in Nat \ {0}
  BY IdFacts
<1>2. a % IdSpan \in 0..IdSpan - 1 /\ b % IdSpan \in 0..IdSpan - 1
  BY <1>1
<1>3. QED BY <1>1, <1>2 DEF RuleKey

(* The rules of a session are well formed. *)
LEMMA RuleFacts ==
    ASSUME NEW s \in Seids
    PROVE  /\ s \in Nat /\ UeOf[s] \in Ues
           /\ PdrsOf(s) \in Seq(Pdr) /\ Len(PdrsOf(s)) \in Nat
           /\ \A i \in 1..Len(PdrsOf(s)) : PdrsOf(s)[i] \in Pdr /\ PdrsOf(s)[i].id \in RuleIds
           /\ FarsOf(s) \in Seq(Far) /\ Len(FarsOf(s)) \in Nat
           /\ \A i \in 1..Len(FarsOf(s)) : FarsOf(s)[i].id \in RuleIds /\ FarsOf(s)[i].action \in Actions
           /\ RulesOf[s].access \in FarIdsOf(s) /\ TunnelsOf[s] \subseteq Tunnels
<1>1. /\ s \in Nat /\ UeOf[s] \in Ues
      /\ PdrsOf(s) \in Seq(Pdr) /\ FarsOf(s) \in Seq(Far)
      /\ RulesOf[s].access \in FarIdsOf(s)
  BY RulesAssumption
<1>2. Len(PdrsOf(s)) \in Nat /\ \A i \in 1..Len(PdrsOf(s)) : PdrsOf(s)[i] \in Pdr
  BY <1>1
<1>3. Len(FarsOf(s)) \in Nat /\ \A i \in 1..Len(FarsOf(s)) : FarsOf(s)[i] \in Far
  BY <1>1
<1>4. TunnelsOf[s] \subseteq Tunnels
  BY DEF Tunnels
<1>5. QED BY <1>1, <1>2, <1>3, <1>4 DEF Pdr, Far

(* Every rule of every session has a key of its own. *)
LEMMA PdrKeyFacts ==
    ASSUME NEW s \in Seids, NEW i \in 1..Len(PdrsOf(s))
    PROVE  /\ PdrKeyOf(s, i) \in PdrKeys
           /\ \A r \in Seids : \A j \in 1..Len(PdrsOf(r)) : PdrKeyOf(r, j) = PdrKeyOf(s, i) => r = s /\ j = i
<1>1. PdrKeyOf(s, i) \in PdrKeys
  BY DEF PdrKeyOf, PdrKeys
<1>2. ASSUME NEW r \in Seids, NEW j \in 1..Len(PdrsOf(r)), PdrKeyOf(r, j) = PdrKeyOf(s, i)
      PROVE  r = s /\ j = i
  <2>1. /\ s \in Nat /\ r \in Nat /\ PdrsOf(s)[i].id \in RuleIds /\ PdrsOf(r)[j].id \in RuleIds
    BY RuleFacts
  <2>2. r = s /\ PdrsOf(r)[j].id % IdSpan = PdrsOf(s)[i].id % IdSpan
    <3>1. PdrsOf(s)[i].id \in Nat /\ PdrsOf(r)[j].id \in Nat
      BY <2>1, IdFacts
    <3>2. RuleKey(r, PdrsOf(r)[j].id) = RuleKey(s, PdrsOf(s)[i].id)
      BY <1>2 DEF PdrKeyOf
    <3>3. QED BY <2>1, <3>1, <3>2, KeyOwner
  <2>3. PdrsOf(r)[j].id = PdrsOf(s)[i].id
    BY <2>1, <2>2, IdFacts
  <2>4. QED BY <2>2, <2>3, RulesAssumption
<1>3. QED BY <1>1, <1>2

(* The same for the FARs. *)
LEMMA FarKeyFacts ==
    ASSUME NEW s \in Seids, NEW i \in 1..Len(FarsOf(s))
    PROVE  /\ FarKeyOf(s, i) \in FarKeys
           /\ \A r \in Seids : \A j \in 1..Len(FarsOf(r)) : FarKeyOf(r, j) = FarKeyOf(s, i) => r = s /\ j = i
<1>1. FarKeyOf(s, i) \in FarKeys
  BY DEF FarKeyOf, FarKeys, FarIdsOf
<1>2. ASSUME NEW r \in Seids, NEW j \in 1..Len(FarsOf(r)), FarKeyOf(r, j) = FarKeyOf(s, i)
      PROVE  r = s /\ j = i
  <2>1. /\ s \in Nat /\ r \in Nat /\ FarsOf(s)[i].id \in RuleIds /\ FarsOf(r)[j].id \in RuleIds
    BY RuleFacts
  <2>2. r = s /\ FarsOf(r)[j].id % IdSpan = FarsOf(s)[i].id % IdSpan
    <3>1. FarsOf(s)[i].id \in Nat /\ FarsOf(r)[j].id \in Nat
      BY <2>1, IdFacts
    <3>2. RuleKey(r, FarsOf(r)[j].id) = RuleKey(s, FarsOf(s)[i].id)
      BY <1>2 DEF FarKeyOf
    <3>3. QED BY <2>1, <3>1, <3>2, KeyOwner
  <2>3. FarsOf(r)[j].id = FarsOf(s)[i].id
    BY <2>1, <2>2, IdFacts
  <2>4. QED BY <2>2, <2>3, RulesAssumption
<1>3. QED BY <1>1, <1>2

(* The array of a SessionInfo: the beginning of the list of PDRs.          *)
LEMMA KeptFacts ==
    ASSUME NEW s \in Seids
    PROVE  /\ KeptPdrIds(s) \in PdrIdArray
           /\ Len(KeptPdrIds(s)) \in Nat /\ KeptPdrs(s) = 1..Len(KeptPdrIds(s))
           /\ Len(KeptPdrIds(s)) <= Len(PdrsOf(s)) /\ Len(KeptPdrIds(s)) <= MaxPdr
           /\ Len(PdrsOf(s)) <= MaxPdr => Len(KeptPdrIds(s)) = Len(PdrsOf(s))
           /\ \A i \in 1..Len(KeptPdrIds(s)) : KeptPdrIds(s)[i] = PdrsOf(s)[i].id
<1> DEFINE n == Len(PdrsOf(s))
<1> DEFINE m == IF n <= MaxPdr THEN n ELSE MaxPdr
<1>1. n \in Nat /\ MaxPdr \in Nat /\ m \in Nat /\ m <= n /\ m <= MaxPdr
  BY RuleFacts, RulesAssumption
<1>2. KeptPdrs(s) = 1..m
  BY <1>1 DEF KeptPdrs
<1>3. KeptPdrIds(s) = [i \in 1..m |-> PdrsOf(s)[i].id]
  BY <1>2 DEF KeptPdrIds
<1> HIDE DEF m
<1>4. \A i \in 1..m : PdrsOf(s)[i].id \in RuleIds
  BY <1>1, RuleFacts
<1>5. KeptPdrIds(s) \in Seq(RuleIds) /\ Len(KeptPdrIds(s)) = m
  BY <1>1, <1>3, <1>4
<1>6. QED BY <1>1, <1>2, <1>3, <1>5 DEF PdrIdArray, m

-----------------------------------------------------------------------------
(* The writes of the handlers.                                             *)

(* The FAR of a session carries its tunnel or none. *)
LEMMA FarOfFacts ==
    ASSUME TypeOK, NEW s \in Seids, TunnelAsked(s), NEW i \in 1..Len(FarsOf(s))
    PROVE  /\ FarOf(s, i) \in FarValue /\ FarOf(s, i) # None
           /\ FarOf(s, i).tun \in TunnelsOf[s] \cup {None} /\ FarOf(s, i).action = FarsOf(s)[i].action
<1>1. FarsOf(s)[i].action \in Actions /\ tunnel[s] \in Tunnels
  BY RuleFacts DEF TypeOK
<1>2. FarOf(s, i) \in FarValue
  BY <1>1 DEF FarOf, FarValue
<1>3. QED BY <1>2, NoneAssumption DEF FarOf, TunnelAsked

(* A new SessionInfo fits its session. *)
LEMMA InfoOfFits ==
    ASSUME TypeOK, NEW s \in Seids, TunnelAsked(s)
    PROVE  InfoFits(InfoOf(s), s)
<1>1. InfoOf(s) \in SessionInfo
  BY KeptFacts DEF TypeOK, InfoOf, SessionInfo
<1>2. QED BY <1>1 DEF InfoFits, InfoOf, TunnelAsked

(* Where the elements of two lists of writes are, one behind the other.    *)
Joins(a, b, w) ==
    /\ w \in Seq(MapEntry) /\ Len(w) = Len(a) + Len(b)
    /\ Len(a) \in Nat /\ Len(b) \in Nat
    /\ \A i \in 1..Len(a) : i \in 1..Len(w) /\ w[i] = a[i]
    /\ \A i \in 1..Len(b) : Len(a) + i \in 1..Len(w) /\ w[Len(a) + i] = b[i]
    /\ \A j \in 1..Len(w) : \/ \E i \in 1..Len(a) : w[j] = a[i]
                            \/ \E i \in 1..Len(b) : w[j] = b[i]

(* Concatenation keeps every write, in order. *)
LEMMA Joined ==
    ASSUME NEW a \in Seq(MapEntry), NEW b \in Seq(MapEntry), NEW w, w = a \o b
    PROVE  Joins(a, b, w)
<1>1. w \in Seq(MapEntry) /\ Len(w) = Len(a) + Len(b) /\ Len(a) \in Nat /\ Len(b) \in Nat
  BY ConcatProperties
<1>2. ASSUME NEW i \in 1..Len(w)
      PROVE  w[i] = IF i <= Len(a) THEN a[i] ELSE b[i - Len(a)]
  BY <1>1, ConcatProperties
<1>3. ASSUME NEW i \in 1..Len(a) PROVE i \in 1..Len(w) /\ w[i] = a[i]
  BY <1>1, <1>2
<1>4. ASSUME NEW i \in 1..Len(b) PROVE Len(a) + i \in 1..Len(w) /\ w[Len(a) + i] = b[i]
  <2>1. Len(a) + i \in 1..Len(w) /\ ~(Len(a) + i <= Len(a)) /\ (Len(a) + i) - Len(a) = i
    BY <1>1
  <2>2. w[Len(a) + i] = IF Len(a) + i <= Len(a) THEN a[Len(a) + i] ELSE b[(Len(a) + i) - Len(a)]
    BY <2>1, <1>2
  <2>3. QED BY <2>1, <2>2
<1>5. ASSUME NEW j \in 1..Len(w)
      PROVE  (\E i \in 1..Len(a) : w[j] = a[i]) \/ (\E i \in 1..Len(b) : w[j] = b[i])
  <2>1. CASE j <= Len(a)
    BY <1>1, <1>2, <2>1
  <2>2. CASE ~(j <= Len(a))
    <3>1. j - Len(a) \in 1..Len(b)
      BY <1>1, <2>2
    <3>2. QED BY <1>2, <2>2, <3>1
  <2>3. QED BY <2>1, <2>2
<1>6. QED BY <1>1, <1>3, <1>4, <1>5 DEF Joins

(* What an Establishment writes. *)
LEMMA EstablishWrites ==
    ASSUME TypeOK, NEW s \in Seids, TunnelAsked(s)
    PROVE  LET w == PutSession(s) \o PutPdrs(s) \o PutFars(s) IN
           /\ w # <<>> /\ w \in Seq(MapEntry)
           /\ \A j \in 1..Len(w) : Installs(s, w[j])
           /\ PutsSession(s, w[1])
           /\ \A i \in 1..Len(PdrsOf(s)) : \E j \in 1..Len(w) : w[j] = PutPdr(s, i)
           /\ \A i \in 1..Len(FarsOf(s)) : \E j \in 1..Len(w) : w[j] = PutFar(s, i)
<1> DEFINE n == Len(PdrsOf(s))
<1> DEFINE m == Len(FarsOf(s))
<1> DEFINE first == [map |-> "session", key |-> UeOf[s], value |-> InfoOf(s)]
<1> DEFINE w == PutSession(s) \o PutPdrs(s) \o PutFars(s)
<1>1. n \in Nat /\ m \in Nat
  BY RuleFacts
<1>2. first \in MapEntry /\ PutsSession(s, first)
  BY InfoOfFits, RuleFacts DEF MapEntry, PutsSession, InfoFits
<1>3. ASSUME NEW i \in 1..n PROVE PutPdr(s, i) \in MapEntry
  BY RuleFacts, PdrKeyFacts DEF MapEntry, PutPdr
<1>4. ASSUME NEW i \in 1..m PROVE PutFar(s, i) \in MapEntry
  BY FarOfFacts, FarKeyFacts DEF MapEntry, PutFar
<1>5. PutSession(s) = <<first>>
  BY DEF PutSession
<1>6. PutPdrs(s) = [i \in 1..n |-> PutPdr(s, i)] /\ PutFars(s) = [i \in 1..m |-> PutFar(s, i)]
  BY DEF PutPdrs, PutFars, PutPdr, PutFar, PdrKeyOf, FarKeyOf
<1> HIDE DEF n, m, first
<1>7. PutPdrs(s) \in Seq(MapEntry) /\ Len(PutPdrs(s)) = n /\ \A i \in 1..n : PutPdrs(s)[i] = PutPdr(s, i)
  BY <1>1, <1>3, <1>6
<1>8. PutFars(s) \in Seq(MapEntry) /\ Len(PutFars(s)) = m /\ \A i \in 1..m : PutFars(s)[i] = PutFar(s, i)
  BY <1>1, <1>4, <1>6
<1>9. PutSession(s) \in Seq(MapEntry) /\ Len(PutSession(s)) = 1 /\ PutSession(s)[1] = first
  BY <1>2, <1>5
<1> DEFINE a == PutSession(s) \o PutPdrs(s)
<1>10. /\ a \in Seq(MapEntry) /\ Len(a) \in Nat
       /\ 1 \in 1..Len(a) /\ a[1] = first
       /\ \A i \in 1..n : 1 + i \in 1..Len(a) /\ a[1 + i] = PutPdr(s, i)
       /\ \A j \in 1..Len(a) : a[j] = first \/ \E i \in 1..n : a[j] = PutPdr(s, i)
  <2>1. Joins(PutSession(s), PutPdrs(s), a)
    BY <1>7, <1>9, Joined
  <2> HIDE DEF a
  <2>2. QED BY <1>1, <1>7, <1>9, <2>1 DEF Joins
<1> HIDE DEF a
<1>11. w = a \o PutFars(s)
  BY DEF a
<1>12. Joins(a, PutFars(s), w)
  BY <1>8, <1>10, <1>11, Joined
<1> HIDE DEF w
<1>13. 1 \in 1..Len(w) /\ PutsSession(s, w[1])
  BY <1>2, <1>10, <1>12 DEF Joins
<1>14. ASSUME NEW j \in 1..Len(w) PROVE Installs(s, w[j])
  <2>1. \/ w[j] = first
        \/ \E i \in 1..n : w[j] = PutPdr(s, i)
        \/ \E i \in 1..m : w[j] = PutFar(s, i)
    <3>1. CASE \E i \in 1..Len(a) : w[j] = a[i]
      BY <1>10, <3>1
    <3>2. CASE \E i \in 1..Len(PutFars(s)) : w[j] = PutFars(s)[i]
      BY <1>8, <3>2
    <3>3. QED BY <1>12, <3>1, <3>2 DEF Joins
  <2>2. QED BY <1>2, <2>1 DEF Installs, n, m
<1>15. ASSUME NEW i \in 1..n PROVE \E j \in 1..Len(w) : w[j] = PutPdr(s, i)
  BY <1>10, <1>12 DEF Joins
<1>16. ASSUME NEW i \in 1..m PROVE \E j \in 1..Len(w) : w[j] = PutFar(s, i)
  BY <1>8, <1>12 DEF Joins
<1>17. w # <<>>
  BY <1>13
<1>18. w \in Seq(MapEntry)
  BY <1>12 DEF Joins
<1>19. QED BY <1>18, <1>13, <1>14, <1>15, <1>16, <1>17 DEF w, n, m

(* What a Deletion writes. *)
LEMMA DeleteWrites ==
    ASSUME NEW s \in Seids, NEW fs \in SetToSeqs(UsedFars(s))
    PROVE  LET w == DropPdrs(s) \o DropFars(s, fs) \o DropSession(s) IN
           /\ w # <<>> /\ w \in Seq(MapEntry)
           /\ \A j \in 1..Len(w) : Removes(s, w[j])
           /\ DropsSession(s, w[Len(w)])
<1> DEFINE n == Len(KeptPdrIds(s))
<1> DEFINE m == Len(fs)
<1> DEFINE last == [map |-> "session", key |-> UeOf[s], value |-> None]
<1> DEFINE DropPdr(i) == [map |-> "pdr", key |-> PdrKeyOf(s, i), value |-> None]
<1> DEFINE DropFar(i) == [map |-> "far", key |-> RuleKey(s, fs[i]), value |-> None]
<1> DEFINE w == DropPdrs(s) \o DropFars(s, fs) \o DropSession(s)
<1>1. n \in Nat /\ KeptPdrs(s) = 1..n /\ n <= Len(PdrsOf(s)) /\ Len(PdrsOf(s)) \in Nat
  BY KeptFacts, RuleFacts
<1>2. m \in Nat /\ \A i \in 1..m : fs[i] \in FarIdsOf(s)
  <2>1. IsFiniteSet(UsedFars(s))
    <3>1. IsFiniteSet(RuleIds)
      BY IdFacts, FS_Interval DEF RuleIds
    <3>2. UsedFars(s) \subseteq RuleIds
      BY RuleFacts DEF UsedFars, FarIdsOf
    <3>3. QED BY <3>1, <3>2, FS_Subset
  <2>2. Cardinality(UsedFars(s)) \in Nat
    BY <2>1, FS_CardinalityType
  <2>3. fs \in [1..Cardinality(UsedFars(s)) -> UsedFars(s)]
    BY DEF SetToSeqs
  <2>4. m = Cardinality(UsedFars(s))
    BY <2>2, <2>3
  <2>5. QED BY <2>2, <2>3, <2>4 DEF UsedFars
<1>3. last \in MapEntry /\ DropsSession(s, last)
  BY RuleFacts DEF MapEntry, DropsSession
<1>4. ASSUME NEW i \in 1..n PROVE DropPdr(i) \in MapEntry /\ Removes(s, DropPdr(i))
  <2>1. i \in 1..Len(PdrsOf(s))
    BY <1>1
  <2>2. QED BY <2>1, PdrKeyFacts DEF MapEntry, Removes
<1>5. ASSUME NEW i \in 1..m PROVE DropFar(i) \in MapEntry /\ Removes(s, DropFar(i))
  <2>1. PICK j \in 1..Len(FarsOf(s)) : fs[i] = FarsOf(s)[j].id
    BY <1>2 DEF FarIdsOf
  <2>2. RuleKey(s, fs[i]) = FarKeyOf(s, j)
    BY <2>1 DEF FarKeyOf
  <2>3. QED BY <2>2, FarKeyFacts DEF MapEntry, Removes
<1>6. DropSession(s) = <<last>>
  BY DEF DropSession
<1>7. DropPdrs(s) = [i \in 1..n |-> DropPdr(i)] /\ DropFars(s, fs) = [i \in 1..m |-> DropFar(i)]
  BY <1>1 DEF DropPdrs, DropFars, PdrKeyOf
<1> HIDE DEF n, m, last, DropPdr, DropFar
<1>8. DropPdrs(s) \in Seq(MapEntry) /\ Len(DropPdrs(s)) = n /\ \A i \in 1..n : Removes(s, DropPdrs(s)[i])
  BY <1>1, <1>4, <1>7
<1>9. DropFars(s, fs) \in Seq(MapEntry) /\ Len(DropFars(s, fs)) = m /\ \A i \in 1..m : Removes(s, DropFars(s, fs)[i])
  BY <1>2, <1>5, <1>7
<1>10. DropSession(s) \in Seq(MapEntry) /\ Len(DropSession(s)) = 1 /\ DropSession(s)[1] = last
  BY <1>3, <1>6
<1> DEFINE a == DropPdrs(s) \o DropFars(s, fs)
<1>11. a \in Seq(MapEntry) /\ Len(a) \in Nat /\ \A j \in 1..Len(a) : Removes(s, a[j])
  <2>1. Joins(DropPdrs(s), DropFars(s, fs), a)
    BY <1>8, <1>9, Joined
  <2> HIDE DEF a
  <2>2. ASSUME NEW j \in 1..Len(a) PROVE Removes(s, a[j])
    <3>1. CASE \E i \in 1..Len(DropPdrs(s)) : a[j] = DropPdrs(s)[i]
      BY <1>8, <3>1
    <3>2. CASE \E i \in 1..Len(DropFars(s, fs)) : a[j] = DropFars(s, fs)[i]
      BY <1>9, <3>2
    <3>3. QED BY <2>1, <3>1, <3>2 DEF Joins
  <2>3. QED BY <2>1, <2>2 DEF Joins
<1> HIDE DEF a
<1>12. w = a \o DropSession(s)
  BY DEF a
<1>13. Joins(a, DropSession(s), w)
  BY <1>10, <1>11, <1>12, Joined
<1> HIDE DEF w
<1>14. Len(w) = Len(a) + 1 /\ w[Len(w)] = last /\ w # <<>>
  BY <1>10, <1>11, <1>13 DEF Joins
<1>15. ASSUME NEW j \in 1..Len(w) PROVE Removes(s, w[j])
  <2>1. (\E i \in 1..Len(a) : w[j] = a[i]) \/ w[j] = last
    BY <1>10, <1>13 DEF Joins
  <2>2. QED BY <1>3, <1>11, <2>1 DEF Removes
<1>16. w \in Seq(MapEntry)
  BY <1>13 DEF Joins
<1>17. QED BY <1>3, <1>14, <1>15, <1>16 DEF w

-----------------------------------------------------------------------------
(* The handlers keep their side of the invariant.                          *)

(* A session stays in order as long as nobody writes its entries. *)
LEMMA OthersKept ==
    ASSUME NEW r \in Seids, TodoFits(r), RulesPut(r), TunnelAsked(r),
           phase'[r] = phase[r], todo'[r] = todo[r], tunnel'[r] = tunnel[r],
           phase[r] \in {"installing", "up"} => session_map'[UeOf[r]] = session_map[UeOf[r]],
           \A i \in 1..Len(PdrsOf(r)) : pdr_map'[PdrKeyOf(r, i)] = pdr_map[PdrKeyOf(r, i)],
           \A i \in 1..Len(FarsOf(r)) : far_map'[FarKeyOf(r, i)] = far_map[FarKeyOf(r, i)]
    PROVE  TodoFits(r)' /\ RulesPut(r)' /\ TunnelAsked(r)'
<1>1. \A i \in 1..Len(FarsOf(r)) : FarOf(r, i)' = FarOf(r, i) /\ PutFar(r, i)' = PutFar(r, i)
  BY DEF FarOf, PutFar
<1>2. ASSUME NEW w, Installs(r, w) PROVE Installs(r, w)'
  BY <1>1, <1>2 DEF Installs
<1>3. TodoFits(r)'
  BY <1>2 DEF TodoFits
<1>4. RulesPut(r)'
  <2>1. SUFFICES ASSUME phase[r] \in {"installing", "up"}
                 PROVE  SessionPut(r)' /\ PdrsPut(r)' /\ FarsPut(r)'
    BY DEF RulesPut
  <2>2. SessionPut(r) /\ PdrsPut(r) /\ FarsPut(r)
    BY <2>1 DEF RulesPut
  <2>3. SessionPut(r)'
    BY <2>1, <2>2 DEF SessionPut
  <2>4. PdrsPut(r)'
    BY <2>2 DEF PdrsPut
  <2>5. FarsPut(r)'
    BY <1>1, <2>2 DEF FarsPut
  <2>6. QED BY <2>3, <2>4, <2>5
<1>5. TunnelAsked(r)'
  BY DEF TunnelAsked
<1>6. QED BY <1>3, <1>4, <1>5

(* A handler's step leaves the registers alone, but for the mark on the    *)
(* packets of its UE.                                                      *)
LEMMA DisturbFacts ==
    ASSUME TypeOK, NEW s \in Seids, Disturb(s)
    PROVE  /\ cpu' \in [Cpus -> {Idle} \cup Running \cup Finished]
           /\ \A c \in Cpus :
                /\ cpu'[c].at = cpu[c].at
                /\ cpu[c].at # "idle" => /\ cpu'[c].p = cpu[c].p /\ cpu'[c].info = cpu[c].info
                                         /\ cpu'[c].stable => cpu'[c] = cpu[c] /\ cpu[c].p.ue # UeOf[s]
                /\ cpu[c].at = "done" => cpu'[c].verdict = cpu[c].verdict
                /\ AtWork(c) => /\ cpu'[c].i = cpu[c].i /\ cpu'[c].best = cpu[c].best
                                /\ cpu'[c].precedence = cpu[c].precedence /\ cpu'[c].pdr = cpu[c].pdr
<1>1. SUFFICES ASSUME NEW c \in Cpus
      PROVE  /\ cpu'[c] \in {Idle} \cup Running \cup Finished
             /\ cpu'[c].at = cpu[c].at
             /\ cpu[c].at # "idle" => /\ cpu'[c].p = cpu[c].p /\ cpu'[c].info = cpu[c].info
                                      /\ cpu'[c].stable => cpu'[c] = cpu[c] /\ cpu[c].p.ue # UeOf[s]
             /\ cpu[c].at = "done" => cpu'[c].verdict = cpu[c].verdict
             /\ AtWork(c) => /\ cpu'[c].i = cpu[c].i /\ cpu'[c].best = cpu[c].best
                             /\ cpu'[c].precedence = cpu[c].precedence /\ cpu'[c].pdr = cpu[c].pdr
  BY DEF Disturb
<1>2. cpu[c] \in {Idle} \cup Running \cup Finished
  BY DEF TypeOK
<1>3. cpu'[c] = IF cpu[c].at # "idle" /\ cpu[c].p.ue = UeOf[s]
                THEN [cpu[c] EXCEPT !.stable = FALSE] ELSE cpu[c]
  BY DEF Disturb
<1>4. CASE cpu[c] = Idle
  BY <1>3, <1>4 DEF Idle, AtWork
<1>5. CASE cpu[c] \in Running
  <2>1. CASE cpu'[c] = cpu[c] /\ ~(cpu[c].at # "idle" /\ cpu[c].p.ue = UeOf[s])
    <3>1. cpu[c].at # "idle" /\ cpu[c].at # "done"
      BY <1>5 DEF Running
    <3>2. QED BY <1>2, <2>1, <3>1
  <2>2. CASE cpu'[c] = [cpu[c] EXCEPT !.stable = FALSE]
    <3> DEFINE is == 1..MaxPdr + 1
    <3> HIDE DEF is
    <3>1. Running = [at : {"select", "far", "get", "getfar"}, p : Packets, info : SessionInfo,
                     stable : BOOLEAN, i : is, best : FarValue \cup {None},
                     precedence : 0..MaxPrecedence, pdr : Pdr \cup {None}]
      BY DEF Running, is
    <3>2. /\ cpu'[c] \in Running /\ cpu'[c].at = cpu[c].at
          /\ cpu'[c].p = cpu[c].p /\ cpu'[c].info = cpu[c].info /\ cpu'[c].stable = FALSE
          /\ cpu'[c].i = cpu[c].i /\ cpu'[c].best = cpu[c].best
          /\ cpu'[c].precedence = cpu[c].precedence /\ cpu'[c].pdr = cpu[c].pdr
          /\ cpu[c].at \notin {"idle", "done"}
      BY <1>5, <2>2, <3>1
    <3>3. QED BY <3>2
  <2>3. QED BY <1>3, <2>1, <2>2
<1>6. CASE cpu[c] \in Finished
  BY <1>3, <1>6 DEF Finished, AtWork
<1>7. QED BY <1>2, <1>4, <1>5, <1>6

(* A handler that takes its request changes nothing but its own entry of   *)
(* the registers of the control plane.                                     *)
LEMMA HandlerFacts ==
    ASSUME TypeOK, NEW s \in Seids, NEW kind \in {"installing", "removing"},
           NEW writes \in Seq(MapEntry), Handler(s, kind, writes)
    PROVE  /\ phase' \in [Seids -> {"unborn", "installing", "up", "removing", "gone"}]
           /\ todo' \in [Seids -> Seq(MapEntry)]
           /\ phase'[s] = kind /\ todo'[s] = writes
           /\ \A r \in Seids \ {s} : phase'[r] = phase[r] /\ todo'[r] = todo[r]
           /\ session_map' = session_map /\ pdr_map' = pdr_map /\ far_map' = far_map
           /\ Disturb(s)
  BY DEF TypeOK, Handler, maps

(* Establishment. *)
LEMMA EstablishStep ==
    ASSUME TypeOK, HInv, NEW s \in Seids, Establish(s)
    PROVE  TypeOK' /\ HInv'
<1> DEFINE w == PutSession(s) \o PutPdrs(s) \o PutFars(s)
<1>1. TunnelAsked(s)
  BY DEF HInv
<1>2. /\ w # <<>> /\ w \in Seq(MapEntry)
      /\ \A j \in 1..Len(w) : Installs(s, w[j])
      /\ PutsSession(s, w[1])
      /\ \A i \in 1..Len(PdrsOf(s)) : \E j \in 1..Len(w) : w[j] = PutPdr(s, i)
      /\ \A i \in 1..Len(FarsOf(s)) : \E j \in 1..Len(w) : w[j] = PutFar(s, i)
  BY <1>1, EstablishWrites
<1>3. Handler(s, "installing", w) /\ tunnel' = tunnel
  BY DEF Establish
<1> HIDE DEF w
<1>4. /\ phase' \in [Seids -> {"unborn", "installing", "up", "removing", "gone"}]
      /\ todo' \in [Seids -> Seq(MapEntry)]
      /\ phase'[s] = "installing" /\ todo'[s] = w
      /\ \A r \in Seids \ {s} : phase'[r] = phase[r] /\ todo'[r] = todo[r]
      /\ session_map' = session_map /\ pdr_map' = pdr_map /\ far_map' = far_map
      /\ Disturb(s)
  BY <1>2, <1>3, HandlerFacts
<1>5. TypeOK'
  BY <1>3, <1>4, DisturbFacts DEF TypeOK
<1>6. UeAlone'
  <2>1. \A r \in Seids \ {s} : UeOf[r] = UeOf[s] => ~Active(r)
    BY DEF Establish, Active
  <2>2. \A r \in Seids \ {s} : Active(r)' => Active(r)
    BY <1>4 DEF Active
  <2>3. QED BY <2>1, <2>2 DEF HInv, UeAlone
<1>7. SessionEntries'
  <2>1. \A r \in Seids : Active(r) => Active(r)'
    BY <1>4 DEF Active
  <2>2. QED BY <1>4, <2>1 DEF HInv, SessionEntries, TypeOK, InfoFits, SessionInfo
<1>8. FarEntries'
  BY <1>4 DEF HInv, FarEntries
<1>9. TodoFits(s)' /\ RulesPut(s)' /\ TunnelAsked(s)'
  <2>1. \A i \in 1..Len(FarsOf(s)) : PutFar(s, i)' = PutFar(s, i)
    BY <1>3 DEF FarOf, PutFar
  <2>2. \A j \in 1..Len(todo'[s]) : Installs(s, todo[s][j])'
    BY <1>2, <1>4, <2>1 DEF Installs
  <2>3. TodoFits(s)'
    BY <1>2, <1>4, <2>2 DEF TodoFits
  <2>4. SessionPut(s)'
    <3>1. 1 \in 1..Len(w)
      BY <1>2
    <3>2. QED BY <1>2, <1>4, <3>1 DEF SessionPut
  <2>5. PdrsPut(s)' /\ FarsPut(s)'
    BY <1>2, <1>4, <2>1 DEF PdrsPut, FarsPut
  <2>6. QED BY <1>1, <1>3, <2>3, <2>4, <2>5 DEF RulesPut, TunnelAsked
<1>10. ASSUME NEW r \in Seids \ {s} PROVE TodoFits(r)' /\ RulesPut(r)' /\ TunnelAsked(r)'
  BY <1>3, <1>4, OthersKept DEF HInv
<1>11. QED BY <1>5, <1>6, <1>7, <1>8, <1>9, <1>10 DEF HInv

(* Deletion takes the rules of its own session out, and SESSION_MAP last. *)
LEMMA DeleteStep ==
    ASSUME TypeOK, HInv, NEW s \in Seids, Delete(s)
    PROVE  TypeOK' /\ HInv'
<1>1. PICK fs \in SetToSeqs(UsedFars(s)) :
        Handler(s, "removing", DropPdrs(s) \o DropFars(s, fs) \o DropSession(s))
  BY DEF Delete
<1> DEFINE w == DropPdrs(s) \o DropFars(s, fs) \o DropSession(s)
<1>2. /\ w # <<>> /\ w \in Seq(MapEntry)
      /\ \A j \in 1..Len(w) : Removes(s, w[j])
      /\ DropsSession(s, w[Len(w)])
  BY DeleteWrites
<1>3. Handler(s, "removing", w) /\ tunnel' = tunnel /\ phase[s] = "up"
  BY <1>1 DEF Delete
<1> HIDE DEF w
<1>4. /\ phase' \in [Seids -> {"unborn", "installing", "up", "removing", "gone"}]
      /\ todo' \in [Seids -> Seq(MapEntry)]
      /\ phase'[s] = "removing" /\ todo'[s] = w
      /\ \A r \in Seids \ {s} : phase'[r] = phase[r] /\ todo'[r] = todo[r]
      /\ session_map' = session_map /\ pdr_map' = pdr_map /\ far_map' = far_map
      /\ Disturb(s)
  BY <1>2, <1>3, HandlerFacts
<1>5. TypeOK'
  BY <1>3, <1>4, DisturbFacts DEF TypeOK
<1>6. \A r \in Seids : Active(r)' <=> Active(r)
  BY <1>3, <1>4 DEF Active
<1>7. UeAlone' /\ SessionEntries' /\ FarEntries'
  BY <1>4, <1>6 DEF HInv, UeAlone, SessionEntries, FarEntries, TypeOK, InfoFits, SessionInfo
<1>8. TodoFits(s)' /\ RulesPut(s)' /\ TunnelAsked(s)'
  <2>1. TodoFits(s)'
    BY <1>2, <1>4 DEF TodoFits
  <2>2. QED BY <1>3, <1>4, <2>1 DEF RulesPut, TunnelAsked, HInv
<1>9. ASSUME NEW r \in Seids \ {s} PROVE TodoFits(r)' /\ RulesPut(r)' /\ TunnelAsked(r)'
  BY <1>3, <1>4, OthersKept DEF HInv
<1>10. QED BY <1>5, <1>7, <1>8, <1>9 DEF HInv

(* In a session that is up every entry is in place. *)
LEMMA UpInPlace ==
    ASSUME HInv, NEW s \in Seids, phase[s] = "up"
    PROVE  /\ todo[s] = <<>> /\ InfoFits(session_map[UeOf[s]], s)
           /\ \A i \in 1..Len(PdrsOf(s)) : pdr_map[PdrKeyOf(s, i)] = PdrsOf(s)[i]
           /\ \A i \in 1..Len(FarsOf(s)) : far_map[FarKeyOf(s, i)] = FarOf(s, i)
<1>1. todo[s] = <<>>
  BY DEF HInv, TodoFits
<1>2. SessionPut(s) /\ PdrsPut(s) /\ FarsPut(s)
  BY DEF HInv, RulesPut
<1>3. \A j \in 1..Len(todo[s]) : FALSE
  BY <1>1
<1>4. QED BY <1>1, <1>2, <1>3 DEF SessionPut, PdrsPut, FarsPut

(* A Modification moves the tunnel: it writes the FAR of the Access side   *)
(* and the SessionInfo, and the other rules stay as they are.              *)
LEMMA ModifyStep ==
    ASSUME TypeOK, HInv, NEW s \in Seids, NEW tun \in TunnelsOf[s], Modify(s, tun)
    PROVE  TypeOK' /\ HInv'
<1> DEFINE key == RuleKey(s, RulesOf[s].access)
<1> DEFINE far == [far_map[key] EXCEPT !.tun = tun]
<1> DEFINE info == [session_map[UeOf[s]] EXCEPT !.tun = [gnb |-> tun, teid |-> tun]]
<1> DEFINE w1 == [map |-> "far", key |-> key, value |-> far]
<1> DEFINE w2 == [map |-> "session", key |-> UeOf[s], value |-> info]
<1>1. phase[s] = "up" /\ tunnel' = [tunnel EXCEPT ![s] = tun] /\ Handler(s, "installing", <<w1, w2>>)
  BY DEF Modify
<1>2. /\ InfoFits(session_map[UeOf[s]], s)
      /\ \A i \in 1..Len(PdrsOf(s)) : pdr_map[PdrKeyOf(s, i)] = PdrsOf(s)[i]
      /\ \A i \in 1..Len(FarsOf(s)) : far_map[FarKeyOf(s, i)] = FarOf(s, i)
  BY <1>1, UpInPlace
<1>3. PICK a \in 1..Len(FarsOf(s)) : FarsOf(s)[a].id = RulesOf[s].access
  BY RuleFacts DEF FarIdsOf
<1>4. key = FarKeyOf(s, a) /\ key \in FarKeys
  BY <1>3, FarKeyFacts DEF FarKeyOf
<1>5. tun \in Tunnels /\ tunnel'[s] = tun /\ tunnel' \in [Seids -> Tunnels]
  BY <1>1, RuleFacts DEF TypeOK
<1>6. far = [action |-> FarsOf(s)[a].action, tun |-> tun] /\ far \in FarValue
  <2>1. far_map[key] = FarOf(s, a) /\ FarOf(s, a) \in FarValue /\ FarOf(s, a).action = FarsOf(s)[a].action
    BY <1>2, <1>4, FarOfFacts DEF HInv
  <2>2. far_map[key] \in FarValue /\ far_map[key].action = FarsOf(s)[a].action
    BY <2>1
  <2> HIDE DEF key
  <2>3. far \in FarValue /\ far.tun = tun /\ far.action = FarsOf(s)[a].action
    BY <1>5, <2>2 DEF FarValue
  <2>4. far = [action |-> far.action, tun |-> far.tun]
    BY <2>2 DEF FarValue
  <2>5. QED BY <2>3, <2>4
<1>7. w1 = PutFar(s, a)'
  BY <1>3, <1>4, <1>5, <1>6 DEF PutFar, FarOf
<1>8. InfoFits(info, s)
  <2>1. info \in SessionInfo /\ info.seid = s /\ info.pdrs = KeptPdrIds(s) /\ info.tun = [gnb |-> tun, teid |-> tun]
    BY <1>2, <1>5 DEF InfoFits, SessionInfo
  <2>2. QED BY <2>1 DEF InfoFits
<1> HIDE DEF far, info, key
<1>9. w1 \in MapEntry /\ w2 \in MapEntry /\ PutsSession(s, w2)
  BY <1>4, <1>6, <1>8, RuleFacts DEF MapEntry, PutsSession, InfoFits
<1> HIDE DEF w1, w2
<1> DEFINE w == <<w1, w2>>
<1>10. w \in Seq(MapEntry) /\ Len(w) = 2 /\ w[1] = w1 /\ w[2] = w2 /\ w # <<>>
  BY <1>9
<1>11. Handler(s, "installing", w)
  BY <1>1
<1> HIDE DEF w
<1>12. /\ phase' \in [Seids -> {"unborn", "installing", "up", "removing", "gone"}]
       /\ todo' \in [Seids -> Seq(MapEntry)]
       /\ phase'[s] = "installing" /\ todo'[s] = w
       /\ \A r \in Seids \ {s} : phase'[r] = phase[r] /\ todo'[r] = todo[r]
       /\ session_map' = session_map /\ pdr_map' = pdr_map /\ far_map' = far_map
       /\ Disturb(s)
  BY <1>10, <1>11, HandlerFacts
<1>13. TypeOK'
  BY <1>5, <1>12, DisturbFacts DEF TypeOK
<1>14. \A r \in Seids : Active(r)' <=> Active(r)
  BY <1>1, <1>12 DEF Active
<1>15. UeAlone' /\ SessionEntries' /\ FarEntries'
  BY <1>12, <1>14 DEF HInv, UeAlone, SessionEntries, FarEntries, TypeOK, InfoFits, SessionInfo
<1>16. Len(todo'[s]) = 2 /\ todo'[s][1] = PutFar(s, a)' /\ PutsSession(s, todo'[s][2]) /\ todo'[s] # <<>>
  BY <1>7, <1>9, <1>10, <1>12
<1>17. TodoFits(s)' /\ RulesPut(s)' /\ TunnelAsked(s)'
  <2>1. ASSUME NEW j \in 1..Len(todo'[s]) PROVE Installs(s, todo[s][j])'
    <3>1. j = 1 \/ j = 2
      BY <1>16
    <3>2. QED BY <1>16, <3>1 DEF Installs
  <2>2. TodoFits(s)'
    BY <1>12, <1>16, <2>1 DEF TodoFits
  <2>3. SessionPut(s)'
    <3>1. 2 \in 1..Len(todo'[s])
      BY <1>16
    <3>2. QED BY <1>16, <3>1 DEF SessionPut
  <2>4. PdrsPut(s)'
    BY <1>2, <1>12 DEF PdrsPut
  <2>5. FarsPut(s)'
    <3>1. ASSUME NEW i \in 1..Len(FarsOf(s)), i # a PROVE FarOf(s, i)' = FarOf(s, i)
      <4>1. FarsOf(s)[i].id # RulesOf[s].access
        BY <1>3, <3>1, RulesAssumption
      <4>2. QED BY <4>1 DEF FarOf
    <3>2. 1 \in 1..Len(todo'[s])
      BY <1>16
    <3>3. QED BY <1>2, <1>12, <1>16, <3>1, <3>2 DEF FarsPut
  <2>6. QED BY <1>5, <2>2, <2>3, <2>4, <2>5 DEF RulesPut, TunnelAsked
<1>18. ASSUME NEW r \in Seids \ {s} PROVE TodoFits(r)' /\ RulesPut(r)' /\ TunnelAsked(r)'
  <2>1. tunnel'[r] = tunnel[r]
    BY <1>1 DEF TypeOK
  <2>2. QED BY <1>12, <2>1, OthersKept DEF HInv
<1>19. QED BY <1>13, <1>15, <1>17, <1>18 DEF HInv

(* One map write takes the first of the handler's writes, which is one of  *)
(* its own session, and ends the handler when it is the last.              *)
LEMMA WriteFacts ==
    ASSUME TypeOK, HInv, NEW s \in Seids, MapWrite(s)
    PROVE  LET w == todo[s][1] IN
           /\ phase[s] \in {"installing", "removing"} /\ w \in MapEntry
           /\ 1 \in 1..Len(todo[s])
           /\ phase[s] = "installing" => Installs(s, w)
           /\ phase[s] = "removing" => Removes(s, w)
           /\ todo'[s] \in Seq(MapEntry)
           /\ \A j \in 1..Len(todo'[s]) : j + 1 \in 1..Len(todo[s]) /\ todo'[s][j] = todo[s][j + 1]
           /\ \A j \in 1..Len(todo[s]) : j = 1 \/ \E i \in 1..Len(todo'[s]) : todo'[s][i] = todo[s][j]
           /\ phase'[s] = IF Len(todo[s]) > 1 THEN phase[s]
                          ELSE IF phase[s] = "installing" THEN "up" ELSE "gone"
           /\ Len(todo[s]) > 1 => /\ todo'[s] # <<>>
                                  /\ todo'[s][Len(todo'[s])] = todo[s][Len(todo[s])]
           /\ ~(Len(todo[s]) > 1) => todo'[s] = <<>> /\ w = todo[s][Len(todo[s])]
<1> DEFINE t == todo[s]
<1>1. t \in Seq(MapEntry) /\ t # <<>> /\ Len(t) \in Nat /\ Len(t) >= 1
  BY DEF TypeOK, MapWrite
<1>2. phase[s] \in {"installing", "removing"}
  <2>1. TodoFits(s)
    BY DEF HInv
  <2>2. QED BY <1>1, <2>1 DEF TodoFits, TypeOK
<1>3. 1 \in 1..Len(t) /\ t[1] \in MapEntry
  BY <1>1
<1>4. /\ phase[s] = "installing" => Installs(s, t[1])
      /\ phase[s] = "removing" => Removes(s, t[1])
  <2>1. TodoFits(s)
    BY DEF HInv
  <2>2. QED BY <1>3, <2>1 DEF TodoFits
<1>5. todo'[s] = Tail(t)
  BY DEF MapWrite, TypeOK
<1> DEFINE u == todo'[s]
<1>6. u \in Seq(MapEntry) /\ Len(u) = Len(t) - 1 /\ \A j \in 1..Len(u) : u[j] = t[j + 1]
  BY <1>1, <1>5, HeadTailProperties
<1>7. phase'[s] = IF Len(todo[s]) > 1 THEN phase[s] ELSE IF phase[s] = "installing" THEN "up" ELSE "gone"
  BY DEF MapWrite, TypeOK
<1> HIDE DEF t, u
<1>8. \A j \in 1..Len(u) : j + 1 \in 1..Len(t) /\ u[j] = t[j + 1]
  BY <1>1, <1>6
<1>9. ASSUME NEW j \in 1..Len(t), j # 1 PROVE \E i \in 1..Len(u) : u[i] = t[j]
  <2>1. j - 1 \in 1..Len(u) /\ (j - 1) + 1 = j
    BY <1>1, <1>6, <1>9
  <2>2. QED BY <1>6, <2>1
<1>10. Len(t) > 1 => u # <<>> /\ u[Len(u)] = t[Len(t)]
  <2>1. HAVE Len(t) > 1
  <2>2. Len(u) \in 1..Len(u) /\ Len(u) + 1 = Len(t)
    BY <1>1, <1>6, <2>1
  <2>3. QED BY <1>6, <2>2
<1>11. ~(Len(t) > 1) => u = <<>> /\ t[1] = t[Len(t)]
  BY <1>1, <1>6
<1>12. QED BY <1>2, <1>3, <1>4, <1>6, <1>7, <1>8, <1>9, <1>10, <1>11 DEF t, u

(* ... and changes one entry of one map, of its own session. *)
LEMMA WriteEffect ==
    ASSUME TypeOK, HInv, NEW s \in Seids, MapWrite(s)
    PROVE  LET w == todo[s][1] IN
           /\ session_map' = IF w.map = "session" THEN [session_map EXCEPT ![UeOf[s]] = w.value] ELSE session_map
           /\ pdr_map' = IF w.map = "pdr" THEN [pdr_map EXCEPT ![w.key] = w.value] ELSE pdr_map
           /\ far_map' = IF w.map = "far" THEN [far_map EXCEPT ![w.key] = w.value] ELSE far_map
           /\ w.map = "session" => /\ w.value \in SessionInfo \cup {None}
                                   /\ phase[s] = "installing" => InfoFits(w.value, s)
                                   /\ phase[s] = "removing" => w.value = None
           /\ w.map = "pdr" => /\ w.key \in PdrKeys /\ w.value \in Pdr \cup {None}
                               /\ \E i \in 1..Len(PdrsOf(s)) :
                                    /\ w.key = PdrKeyOf(s, i)
                                    /\ phase[s] = "installing" => w.value = PdrsOf(s)[i]
           /\ w.map = "far" => /\ w.key \in FarKeys /\ w.value \in FarValue \cup {None}
                               /\ \E i \in 1..Len(FarsOf(s)) :
                                    /\ w.key = FarKeyOf(s, i)
                                    /\ w.value # None => w.value = FarOf(s, i)
                                    /\ phase[s] = "installing" => w.value = FarOf(s, i)
<1> DEFINE w == todo[s][1]
<1>1. /\ phase[s] \in {"installing", "removing"} /\ w \in MapEntry
      /\ phase[s] = "installing" => Installs(s, w)
      /\ phase[s] = "removing" => Removes(s, w)
  BY WriteFacts
<1>2. Head(todo[s]) = w
  BY DEF TypeOK, MapWrite
<1>3. /\ session_map' = IF w.map = "session" THEN [session_map EXCEPT ![w.key] = w.value] ELSE session_map
      /\ pdr_map' = IF w.map = "pdr" THEN [pdr_map EXCEPT ![w.key] = w.value] ELSE pdr_map
      /\ far_map' = IF w.map = "far" THEN [far_map EXCEPT ![w.key] = w.value] ELSE far_map
  BY <1>2 DEF MapWrite
<1> HIDE DEF w
<1>4. w.map = "session" => /\ w.value \in SessionInfo \cup {None} /\ w.key = UeOf[s]
                           /\ phase[s] = "installing" => InfoFits(w.value, s)
                           /\ phase[s] = "removing" => w.value = None
  <2>1. HAVE w.map = "session"
  <2>2. w.value \in SessionInfo \cup {None}
    BY <1>1, <2>1 DEF MapEntry
  <2>3. CASE phase[s] = "installing"
    BY <1>1, <2>1, <2>2, <2>3 DEF Installs, PutsSession, PutPdr, PutFar
  <2>4. CASE phase[s] = "removing"
    BY <1>1, <2>1, <2>2, <2>4 DEF Removes, DropsSession
  <2>5. QED BY <1>1, <2>3, <2>4
<1>5. w.map = "pdr" => /\ w.key \in PdrKeys /\ w.value \in Pdr \cup {None}
                       /\ \E i \in 1..Len(PdrsOf(s)) :
                            /\ w.key = PdrKeyOf(s, i)
                            /\ phase[s] = "installing" => w.value = PdrsOf(s)[i]
  <2>1. HAVE w.map = "pdr"
  <2>2. w.key \in PdrKeys /\ w.value \in Pdr \cup {None}
    BY <1>1, <2>1 DEF MapEntry
  <2>3. CASE phase[s] = "installing"
    BY <1>1, <2>1, <2>2, <2>3 DEF Installs, PutsSession, PutPdr, PutFar
  <2>4. CASE phase[s] = "removing"
    BY <1>1, <2>1, <2>2, <2>4 DEF Removes, DropsSession
  <2>5. QED BY <1>1, <2>3, <2>4
<1>6. w.map = "far" => /\ w.key \in FarKeys /\ w.value \in FarValue \cup {None}
                       /\ \E i \in 1..Len(FarsOf(s)) :
                            /\ w.key = FarKeyOf(s, i)
                            /\ w.value # None => w.value = FarOf(s, i)
                            /\ phase[s] = "installing" => w.value = FarOf(s, i)
  <2>1. HAVE w.map = "far"
  <2>2. w.key \in FarKeys /\ w.value \in FarValue \cup {None}
    BY <1>1, <2>1 DEF MapEntry
  <2>3. CASE phase[s] = "installing"
    BY <1>1, <2>1, <2>2, <2>3 DEF Installs, PutsSession, PutPdr, PutFar
  <2>4. CASE phase[s] = "removing"
    BY <1>1, <2>1, <2>2, <2>4 DEF Removes, DropsSession
  <2>5. QED BY <1>1, <2>3, <2>4
<1>7. QED BY <1>3, <1>4, <1>5, <1>6 DEF w

(* One insert or remove of a handler. *)
LEMMA MapWriteStep ==
    ASSUME TypeOK, HInv, NEW s \in Seids, MapWrite(s)
    PROVE  TypeOK' /\ HInv'
<1> DEFINE w == todo[s][1]
<1>1. /\ phase[s] \in {"installing", "removing"} /\ todo'[s] \in Seq(MapEntry) /\ 1 \in 1..Len(todo[s])
      /\ \A j \in 1..Len(todo'[s]) : j + 1 \in 1..Len(todo[s]) /\ todo'[s][j] = todo[s][j + 1]
      /\ \A j \in 1..Len(todo[s]) : j = 1 \/ \E i \in 1..Len(todo'[s]) : todo'[s][i] = todo[s][j]
      /\ phase'[s] = IF Len(todo[s]) > 1 THEN phase[s]
                     ELSE IF phase[s] = "installing" THEN "up" ELSE "gone"
      /\ Len(todo[s]) > 1 => todo'[s] # <<>> /\ todo'[s][Len(todo'[s])] = todo[s][Len(todo[s])]
      /\ ~(Len(todo[s]) > 1) => todo'[s] = <<>> /\ w = todo[s][Len(todo[s])]
  BY WriteFacts
<1>2. /\ session_map' = IF w.map = "session" THEN [session_map EXCEPT ![UeOf[s]] = w.value] ELSE session_map
      /\ pdr_map' = IF w.map = "pdr" THEN [pdr_map EXCEPT ![w.key] = w.value] ELSE pdr_map
      /\ far_map' = IF w.map = "far" THEN [far_map EXCEPT ![w.key] = w.value] ELSE far_map
      /\ w.map = "session" => /\ w.value \in SessionInfo \cup {None}
                              /\ phase[s] = "installing" => InfoFits(w.value, s)
                              /\ phase[s] = "removing" => w.value = None
      /\ w.map = "pdr" => /\ w.key \in PdrKeys /\ w.value \in Pdr \cup {None}
                          /\ \E i \in 1..Len(PdrsOf(s)) :
                               /\ w.key = PdrKeyOf(s, i)
                               /\ phase[s] = "installing" => w.value = PdrsOf(s)[i]
      /\ w.map = "far" => /\ w.key \in FarKeys /\ w.value \in FarValue \cup {None}
                          /\ \E i \in 1..Len(FarsOf(s)) :
                               /\ w.key = FarKeyOf(s, i)
                               /\ w.value # None => w.value = FarOf(s, i)
                               /\ phase[s] = "installing" => w.value = FarOf(s, i)
  BY WriteEffect
<1>3. /\ \A r \in Seids \ {s} : phase'[r] = phase[r] /\ todo'[r] = todo[r]
      /\ phase' = [phase EXCEPT ![s] = phase'[s]] /\ todo' = [todo EXCEPT ![s] = todo'[s]]
      /\ tunnel' = tunnel /\ Disturb(s)
  BY DEF MapWrite, TypeOK
<1>4. TodoFits(s) /\ RulesPut(s) /\ TunnelAsked(s)
  BY DEF HInv
<1> HIDE DEF w
<1>5. TypeOK'
  <2>1. session_map' \in [Ues -> SessionInfo \cup {None}]
    BY <1>2 DEF TypeOK
  <2>2. pdr_map' \in [PdrKeys -> Pdr \cup {None}] /\ far_map' \in [FarKeys -> FarValue \cup {None}]
    BY <1>2 DEF TypeOK
  <2>3. phase' \in [Seids -> {"unborn", "installing", "up", "removing", "gone"}] /\ todo' \in [Seids -> Seq(MapEntry)]
    <3> DEFINE ph == phase'[s]
    <3> DEFINE td == todo'[s]
    <3>1. ph \in {"unborn", "installing", "up", "removing", "gone"} /\ td \in Seq(MapEntry)
      BY <1>1
    <3>2. phase' = [phase EXCEPT ![s] = ph] /\ todo' = [todo EXCEPT ![s] = td]
      BY <1>3
    <3> HIDE DEF ph, td
    <3>3. QED BY <3>1, <3>2 DEF TypeOK
  <2>4. QED BY <1>3, <2>1, <2>2, <2>3, DisturbFacts DEF TypeOK
<1>6. Active(s) /\ \A r \in Seids : Active(r)' => Active(r)
  BY <1>1, <1>3 DEF Active
<1>7. \A r \in Seids \ {s} : Active(r) => UeOf[r] # UeOf[s]
  BY <1>6 DEF HInv, UeAlone
<1>8. UeAlone'
  BY <1>6 DEF HInv, UeAlone
<1>9. SessionEntries'
  <2>1. SUFFICES ASSUME NEW u \in Ues, session_map'[u] # None
                 PROVE  LET r == session_map'[u].seid IN
                        UeOf[r] = u /\ phase'[r] \in {"installing", "up", "removing"} /\ InfoFits(session_map'[u], r)
    BY DEF SessionEntries, Active
  <2>2. CASE w.map = "session" /\ u = UeOf[s]
    <3>1. session_map'[u] = w.value
      BY <1>2, <2>2 DEF TypeOK
    <3>2. phase[s] = "installing" /\ InfoFits(w.value, s)
      BY <1>1, <1>2, <2>1, <2>2, <3>1
    <3>3. phase'[s] \in {"installing", "up", "removing"}
      BY <1>1, <3>2
    <3>4. QED BY <2>2, <3>1, <3>2, <3>3 DEF InfoFits
  <2>3. CASE ~(w.map = "session" /\ u = UeOf[s])
    <3> DEFINE r == session_map[u].seid
    <3>1. session_map'[u] = session_map[u]
      BY <1>2, <2>3 DEF TypeOK
    <3>2. session_map[u] # None /\ UeOf[r] = u /\ Active(r) /\ InfoFits(session_map[u], r) /\ r \in Seids
      BY <2>1, <3>1 DEF HInv, SessionEntries, InfoFits, SessionInfo
    <3>3. phase'[r] \in {"installing", "up", "removing"}
      <4>1. CASE r # s
        BY <1>3, <3>2, <4>1 DEF Active
      <4>2. CASE r = s
        <5>1. w.map # "session"
          BY <2>3, <3>2, <4>2
        <5>2. phase[s] = "removing" => Len(todo[s]) > 1
          BY <1>1, <1>4, <5>1 DEF TodoFits, DropsSession
        <5>3. QED BY <1>1, <4>2, <5>2 DEF Active
      <4>3. QED BY <4>1, <4>2
    <3>4. QED BY <3>1, <3>2, <3>3
  <2>4. QED BY <2>2, <2>3
<1>10. FarEntries'
  <2>1. SUFFICES ASSUME NEW r \in Seids, NEW i \in 1..Len(FarsOf(r)), far_map'[FarKeyOf(r, i)] # None
                 PROVE  far_map'[FarKeyOf(r, i)].tun \in TunnelsOf[r] \cup {None}
    BY DEF FarEntries
  <2>2. FarKeyOf(r, i) \in FarKeys
    BY FarKeyFacts
  <2>3. CASE w.map = "far" /\ w.key = FarKeyOf(r, i)
    <3>1. far_map'[FarKeyOf(r, i)] = w.value
      BY <1>2, <2>2, <2>3 DEF TypeOK
    <3>2. PICK j \in 1..Len(FarsOf(s)) : w.key = FarKeyOf(s, j) /\ (w.value # None => w.value = FarOf(s, j))
      BY <1>2, <2>3
    <3>3. r = s /\ w.value = FarOf(s, j)
      BY <2>1, <2>3, <3>1, <3>2, FarKeyFacts
    <3>4. QED BY <1>4, <3>1, <3>3, FarOfFacts
  <2>4. CASE ~(w.map = "far" /\ w.key = FarKeyOf(r, i))
    <3>1. far_map'[FarKeyOf(r, i)] = far_map[FarKeyOf(r, i)]
      BY <1>2, <2>2, <2>4 DEF TypeOK
    <3>2. QED BY <2>1, <3>1 DEF HInv, FarEntries
  <2>5. QED BY <2>3, <2>4
<1>11. \A i \in 1..Len(FarsOf(s)) : FarOf(s, i)' = FarOf(s, i) /\ PutFar(s, i)' = PutFar(s, i)
  BY <1>3 DEF FarOf, PutFar
<1>12. TodoFits(s)'
  <2>1. phase[s] = "installing" => \A j \in 1..Len(todo'[s]) : Installs(s, todo[s][j])'
    <3>1. SUFFICES ASSUME phase[s] = "installing", NEW j \in 1..Len(todo'[s]) PROVE Installs(s, todo[s][j])'
      OBVIOUS
    <3>2. Installs(s, todo[s][j + 1]) /\ todo'[s][j] = todo[s][j + 1]
      BY <1>1, <1>4, <3>1 DEF TodoFits
    <3>3. QED BY <1>11, <3>2 DEF Installs
  <2>2. phase[s] = "removing" => /\ \A j \in 1..Len(todo'[s]) : Removes(s, todo[s][j])'
                                 /\ DropsSession(s, todo[s][Len(todo[s])])
    <3>1. SUFFICES ASSUME phase[s] = "removing", NEW j \in 1..Len(todo'[s]) PROVE Removes(s, todo[s][j])'
      BY <1>4 DEF TodoFits
    <3>2. Removes(s, todo[s][j + 1]) /\ todo'[s][j] = todo[s][j + 1]
      BY <1>1, <1>4, <3>1 DEF TodoFits
    <3>3. QED BY <3>2 DEF Removes
  <2>3. CASE Len(todo[s]) > 1
    <3>1. phase'[s] = phase[s] /\ todo'[s] # <<>> /\ todo'[s][Len(todo'[s])] = todo[s][Len(todo[s])]
      BY <1>1, <2>3
    <3>2. QED BY <1>1, <2>1, <2>2, <3>1 DEF TodoFits, DropsSession
  <2>4. CASE ~(Len(todo[s]) > 1)
    <3>1. phase'[s] \in {"up", "gone"} /\ todo'[s] = <<>>
      BY <1>1, <2>4
    <3>2. QED BY <3>1 DEF TodoFits
  <2>5. QED BY <2>3, <2>4
<1>13. RulesPut(s)'
  <2>1. SUFFICES ASSUME phase'[s] \in {"installing", "up"}
                 PROVE  SessionPut(s)' /\ PdrsPut(s)' /\ FarsPut(s)'
    BY DEF RulesPut
  <2>2. phase[s] = "installing"
    BY <1>1, <2>1
  <2>3. SessionPut(s) /\ PdrsPut(s) /\ FarsPut(s)
    BY <1>4, <2>2 DEF RulesPut
  <2>4. SessionPut(s)'
    <3>1. CASE w.map = "session"
      <4>1. session_map'[UeOf[s]] = w.value
        BY <1>2, <3>1, RuleFacts DEF TypeOK
      <4>2. QED BY <1>2, <2>2, <3>1, <4>1 DEF SessionPut
    <3>2. CASE w.map # "session"
      <4>1. session_map'[UeOf[s]] = session_map[UeOf[s]] /\ ~PutsSession(s, todo[s][1])
        BY <1>2, <3>2 DEF PutsSession, w
      <4>2. QED BY <1>1, <2>3, <4>1 DEF SessionPut
    <3>3. QED BY <3>1, <3>2
  <2>5. PdrsPut(s)'
    <3>1. SUFFICES ASSUME NEW i \in 1..Len(PdrsOf(s))
                   PROVE  \/ pdr_map'[PdrKeyOf(s, i)] = PdrsOf(s)[i]
                          \/ \E j \in 1..Len(todo'[s]) : todo'[s][j] = PutPdr(s, i)
      BY DEF PdrsPut
    <3>2. PdrKeyOf(s, i) \in PdrKeys
      BY PdrKeyFacts
    <3>3. CASE w.map = "pdr" /\ w.key = PdrKeyOf(s, i)
      <4>1. pdr_map'[PdrKeyOf(s, i)] = w.value
        BY <1>2, <3>2, <3>3 DEF TypeOK
      <4>2. PICK j \in 1..Len(PdrsOf(s)) : w.key = PdrKeyOf(s, j) /\ w.value = PdrsOf(s)[j]
        BY <1>2, <2>2, <3>3
      <4>3. j = i
        BY <3>3, <4>2, PdrKeyFacts
      <4>4. QED BY <4>1, <4>2, <4>3
    <3>4. CASE ~(w.map = "pdr" /\ w.key = PdrKeyOf(s, i))
      <4>1. pdr_map'[PdrKeyOf(s, i)] = pdr_map[PdrKeyOf(s, i)] /\ todo[s][1] # PutPdr(s, i)
        BY <1>2, <3>2, <3>4 DEF TypeOK, PutPdr, w
      <4>2. QED BY <1>1, <2>3, <4>1 DEF PdrsPut
    <3>5. QED BY <3>3, <3>4
  <2>6. FarsPut(s)'
    <3>1. SUFFICES ASSUME NEW i \in 1..Len(FarsOf(s))
                   PROVE  \/ far_map'[FarKeyOf(s, i)] = FarOf(s, i)
                          \/ \E j \in 1..Len(todo'[s]) : todo'[s][j] = PutFar(s, i)
      BY <1>11 DEF FarsPut
    <3>2. FarKeyOf(s, i) \in FarKeys
      BY FarKeyFacts
    <3>3. CASE w.map = "far" /\ w.key = FarKeyOf(s, i)
      <4>1. far_map'[FarKeyOf(s, i)] = w.value
        BY <1>2, <3>2, <3>3 DEF TypeOK
      <4>2. PICK j \in 1..Len(FarsOf(s)) : w.key = FarKeyOf(s, j) /\ w.value = FarOf(s, j)
        BY <1>2, <2>2, <3>3
      <4>3. j = i
        BY <3>3, <4>2, FarKeyFacts
      <4>4. QED BY <4>1, <4>2, <4>3
    <3>4. CASE ~(w.map = "far" /\ w.key = FarKeyOf(s, i))
      <4>1. far_map'[FarKeyOf(s, i)] = far_map[FarKeyOf(s, i)] /\ todo[s][1] # PutFar(s, i)
        BY <1>2, <3>2, <3>4 DEF TypeOK, PutFar, w
      <4>2. QED BY <1>1, <2>3, <4>1 DEF FarsPut
    <3>5. QED BY <3>3, <3>4
  <2>7. QED BY <2>4, <2>5, <2>6
<1>14. ASSUME NEW r \in Seids \ {s} PROVE TodoFits(r)' /\ RulesPut(r)' /\ TunnelAsked(r)'
  <2>1. phase[r] \in {"installing", "up"} => session_map'[UeOf[r]] = session_map[UeOf[r]]
    BY <1>2, <1>7 DEF Active, TypeOK
  <2>2. ASSUME NEW i \in 1..Len(PdrsOf(r)) PROVE pdr_map'[PdrKeyOf(r, i)] = pdr_map[PdrKeyOf(r, i)]
    <3>1. PdrKeyOf(r, i) \in PdrKeys /\ \A j \in 1..Len(PdrsOf(s)) : PdrKeyOf(s, j) # PdrKeyOf(r, i)
      BY PdrKeyFacts
    <3>2. QED BY <1>2, <3>1 DEF TypeOK
  <2>3. ASSUME NEW i \in 1..Len(FarsOf(r)) PROVE far_map'[FarKeyOf(r, i)] = far_map[FarKeyOf(r, i)]
    <3>1. FarKeyOf(r, i) \in FarKeys /\ \A j \in 1..Len(FarsOf(s)) : FarKeyOf(s, j) # FarKeyOf(r, i)
      BY FarKeyFacts
    <3>2. QED BY <1>2, <3>1 DEF TypeOK
  <2>4. QED BY <1>3, <2>1, <2>2, <2>3, OthersKept DEF HInv
<1>15. TunnelAsked(s)'
  BY <1>3, <1>4 DEF TunnelAsked
<1>16. QED BY <1>5, <1>8, <1>9, <1>10, <1>12, <1>13, <1>14, <1>15 DEF HInv

-----------------------------------------------------------------------------

(* What the rules of a session say depends on nothing but its tunnel. *)
LEMMA RuledKept ==
    ASSUME NEW s \in Seids, NEW p, tunnel'[s] = tunnel[s]
    PROVE  Ruled(s, p)' = Ruled(s, p)
  BY DEF Ruled

(* The handlers do not disturb the packets of other sessions. *)
LEMMA PacketsKept ==
    ASSUME TypeOK, PInv, NEW s \in Seids, Disturb(s),
           \A r \in Seids \ {s} : phase'[r] = phase[r] /\ tunnel'[r] = tunnel[r]
    PROVE  PInv'
<1>1. SUFFICES ASSUME NEW c \in Cpus
               PROVE  PacketOwn(c)' /\ PacketInArray(c)' /\ NotMixed(c)' /\ SelectProgress(c)' /\ Judged(c)'
  BY DEF PInv
<1>2. /\ cpu'[c].at = cpu[c].at
      /\ cpu[c].at # "idle" => /\ cpu'[c].p = cpu[c].p /\ cpu'[c].info = cpu[c].info
                               /\ cpu'[c].stable => cpu'[c] = cpu[c] /\ cpu[c].p.ue # UeOf[s]
      /\ cpu[c].at = "done" => cpu'[c].verdict = cpu[c].verdict
      /\ AtWork(c) => /\ cpu'[c].i = cpu[c].i /\ cpu'[c].best = cpu[c].best
                      /\ cpu'[c].precedence = cpu[c].precedence /\ cpu'[c].pdr = cpu[c].pdr
  BY DisturbFacts
<1>3. PacketOwn(c) /\ PacketInArray(c) /\ NotMixed(c) /\ SelectProgress(c) /\ Judged(c)
  BY DEF PInv
<1>4. /\ AtWork(c)' <=> AtWork(c)
      /\ Handled(c)' <=> Handled(c)
      /\ AtWork(c) \/ Handled(c) => cpu[c].at # "idle"
      /\ Handled(c) => cpu[c].at = "done"
  BY <1>2 DEF AtWork, Handled
<1>5. PacketOwn(c)' /\ PacketInArray(c)' /\ NotMixed(c)'
  <2>1. PacketOwn(c)'
    BY <1>2, <1>3, <1>4 DEF PacketOwn
  <2>2. PacketInArray(c)'
    BY <1>2, <1>3, <1>4 DEF PacketInArray, AtWork
  <2>3. NotMixed(c)'
    BY <1>2, <1>3, <1>4 DEF NotMixed
  <2>4. QED BY <2>1, <2>2, <2>3
<1>6. CASE (AtWork(c) \/ Handled(c)) /\ cpu'[c].stable
  <2>1. cpu'[c] = cpu[c] /\ cpu[c].p.ue # UeOf[s]
    BY <1>2, <1>4, <1>6
  <2>2. PICK r \in Seids : r = cpu[c].info.seid /\ r # s
    BY <1>3, <1>6, <2>1 DEF PacketOwn, InfoFits, SessionInfo
  <2>3. phase'[r] = phase[r] /\ tunnel'[r] = tunnel[r]
    BY <2>2
  <2>4. PICK p : p = cpu[c].p
    OBVIOUS
  <2>5. Ruled(r, p)' = Ruled(r, p)
    BY <2>3, RuledKept
  <2>6. SelectProgress(c)'
    BY <1>3, <1>4, <1>6, <2>1, <2>2, <2>3, <2>4, <2>5 DEF SelectProgress
  <2>7. Judged(c)'
    BY <1>3, <1>4, <1>6, <2>1, <2>2, <2>4, <2>5 DEF Judged
  <2>8. QED BY <1>5, <2>6, <2>7
<1>7. CASE ~((AtWork(c) \/ Handled(c)) /\ cpu'[c].stable)
  BY <1>4, <1>5, <1>7 DEF SelectProgress, Judged
<1>8. QED BY <1>6, <1>7

-----------------------------------------------------------------------------
(* The steps of the XDP programs.                                          *)

PacketFrame == UNCHANGED <<maps, tunnel, todo, phase>>

(* They leave the maps and the handlers alone. *)
LEMMA HandlersKept ==
    ASSUME HInv, PacketFrame
    PROVE  HInv'
<1>1. ASSUME NEW s \in Seids PROVE TodoFits(s)' /\ RulesPut(s)' /\ TunnelAsked(s)'
  BY OthersKept DEF HInv, PacketFrame, maps
<1>2. UeAlone' /\ SessionEntries' /\ FarEntries'
  BY DEF HInv, PacketFrame, maps, UeAlone, SessionEntries, FarEntries, Active
<1>3. QED BY <1>1, <1>2 DEF HInv

(* One CPU takes a step, and its packet stays in order. *)
LEMMA OneCpu ==
    ASSUME TypeOK, HInv, PInv, PacketFrame, NEW c \in Cpus, NEW k \in Running \cup Finished,
           cpu' = [cpu EXCEPT ![c] = k],
           PacketOwn(c)' /\ PacketInArray(c)' /\ NotMixed(c)' /\ SelectProgress(c)' /\ Judged(c)'
    PROVE  IInv'
<1>1. TypeOK'
  BY DEF TypeOK, PacketFrame, maps
<1>2. HInv'
  BY HandlersKept
<1>3. ASSUME NEW d \in Cpus, d # c
      PROVE  PacketOwn(d)' /\ PacketInArray(d)' /\ NotMixed(d)' /\ SelectProgress(d)' /\ Judged(d)'
  <2>1. cpu'[d] = cpu[d] /\ phase' = phase /\ tunnel' = tunnel
    BY <1>3 DEF TypeOK, PacketFrame
  <2>2. PacketOwn(d) /\ PacketInArray(d) /\ NotMixed(d) /\ SelectProgress(d) /\ Judged(d)
    BY DEF PInv
  <2>3. PacketOwn(d)' /\ PacketInArray(d)' /\ NotMixed(d)' /\ SelectProgress(d)'
    BY <2>1, <2>2 DEF PacketOwn, PacketInArray, NotMixed, SelectProgress, AtWork, Handled
  <2>4. Judged(d)'
    <3>1. CASE Handled(d)
      <4>1. PICK r \in Seids : r = cpu[d].info.seid
        BY <2>2, <3>1 DEF PacketOwn, InfoFits, SessionInfo
      <4>2. PICK p : p = cpu[d].p
        OBVIOUS
      <4>3. Ruled(r, p)' = Ruled(r, p)
        BY <2>1, RuledKept
      <4>4. QED BY <2>1, <2>2, <3>1, <4>1, <4>2, <4>3 DEF Judged, Handled
    <3>2. CASE ~Handled(d)
      BY <2>1, <3>2 DEF Judged, Handled
    <3>3. QED BY <3>1, <3>2
  <2>5. QED BY <2>3, <2>4
<1>4. PInv'
  BY <1>3 DEF PInv
<1>5. QED BY <1>1, <1>2, <1>4 DEF IInv

(* A packet goes on to its next step. *)
LEMMA RunStep ==
    ASSUME IInv, PacketFrame, NEW c \in Cpus, NEW k \in Running, cpu' = [cpu EXCEPT ![c] = k],
           NEW s \in Seids, InfoFits(k.info, s), UeOf[s] = k.p.ue, k.i <= Len(k.info.pdrs) + 1,
           k.at \in {"far", "getfar"} => k.i <= Len(k.info.pdrs) /\ k.pdr # None,
           k.stable => phase[s] = "up" /\ (Judgeable(s, k.p) => Judging(s, k))
    PROVE  IInv'
<1>1. cpu'[c] = k /\ k.info.seid = s /\ phase' = phase /\ k.at \notin {"idle", "done"}
  BY DEF IInv, TypeOK, PacketFrame, InfoFits, Running
<1>2. PacketOwn(c)' /\ PacketInArray(c)'
  BY <1>1 DEF PacketOwn, PacketInArray
<1>3. SelectProgress(c)'
  BY <1>1 DEF SelectProgress
<1>4. NotMixed(c)' /\ Judged(c)'
  BY <1>1 DEF NotMixed, Judged, Handled
<1>5. QED BY <1>2, <1>3, <1>4, OneCpu DEF IInv

(* A packet gets its verdict. *)
LEMMA DoneStep ==
    ASSUME IInv, PacketFrame, NEW c \in Cpus, NEW k \in Finished, cpu' = [cpu EXCEPT ![c] = k],
           k.info # None =>
               \E s \in Seids :
                   /\ InfoFits(k.info, s) /\ UeOf[s] = k.p.ue
                   /\ k.verdict.act = "n3" => k.verdict.tun.gnb \in TunnelsOf[s] \cup {None}
                   /\ k.stable /\ Judgeable(s, k.p) => k.verdict = Ruled(s, k.p)
    PROVE  IInv'
<1>1. cpu'[c] = k /\ tunnel' = tunnel /\ k.at = "done"
  BY DEF IInv, TypeOK, PacketFrame, Finished
<1>2. SelectProgress(c)' /\ PacketInArray(c)'
  BY <1>1 DEF SelectProgress, PacketInArray, AtWork
<1>3. CASE k.info = None
  BY <1>1, <1>2, <1>3, OneCpu DEF PacketOwn, NotMixed, Judged, AtWork, Handled, IInv
<1>4. CASE k.info # None
  <2>1. PICK s \in Seids :
          /\ InfoFits(k.info, s) /\ UeOf[s] = k.p.ue
          /\ k.verdict.act = "n3" => k.verdict.tun.gnb \in TunnelsOf[s] \cup {None}
          /\ k.stable /\ Judgeable(s, k.p) => k.verdict = Ruled(s, k.p)
    BY <1>4
  <2>2. k.info.seid = s
    BY <2>1 DEF InfoFits
  <2>3. PacketOwn(c)' /\ NotMixed(c)'
    BY <1>1, <2>1, <2>2 DEF PacketOwn, NotMixed, AtWork, Handled
  <2>4. Judged(c)'
    <3>1. PICK p : p = k.p
      OBVIOUS
    <3>2. Ruled(s, p)' = Ruled(s, p)
      BY <1>1, RuledKept
    <3>3. QED BY <1>1, <2>1, <2>2, <3>1, <3>2 DEF Judged, Handled
  <2>5. QED BY <1>2, <2>3, <2>4, OneCpu DEF IInv
<1>5. QED BY <1>3, <1>4

(* What a packet under way relies on. *)
LEMMA UnderWay ==
    ASSUME IInv, NEW c \in Cpus, AtWork(c)
    PROVE  \E k \in Running, s \in Seids :
             /\ cpu[c] = k /\ k.info.seid = s /\ k.info.pdrs = KeptPdrIds(s)
             /\ InfoFits(k.info, s) /\ UeOf[s] = k.p.ue
             /\ k.i \in 1..Len(k.info.pdrs) + 1
             /\ k.at \in {"far", "getfar"} => k.i \in 1..Len(k.info.pdrs) /\ k.pdr \in Pdr
             /\ k.stable => phase[s] = "up" /\ (Judgeable(s, k.p) => Judging(s, k))
<1>1. cpu[c] \in Running
  BY DEF IInv, TypeOK, AtWork, Idle, Finished
<1>2. PacketOwn(c) /\ PacketInArray(c) /\ SelectProgress(c)
  BY DEF IInv, PInv
<1>3. PICK k \in Running : k = cpu[c]
  BY <1>1
<1>4. PICK s \in Seids : s = k.info.seid /\ InfoFits(k.info, s) /\ UeOf[s] = k.p.ue
  BY <1>2, <1>3 DEF PacketOwn, InfoFits, SessionInfo
<1>5. k.info.pdrs = KeptPdrIds(s) /\ Len(k.info.pdrs) \in Nat /\ k.i \in 1..MaxPdr + 1 /\ k.pdr \in Pdr \cup {None}
  BY <1>4, KeptFacts DEF InfoFits, Running
<1>6. /\ k.i <= Len(k.info.pdrs) + 1
      /\ k.at \in {"far", "getfar"} => k.i <= Len(k.info.pdrs) /\ k.pdr # None
  BY <1>2, <1>3 DEF PacketInArray
<1>7. k.i \in 1..Len(k.info.pdrs) + 1 /\ (k.i <= Len(k.info.pdrs) => k.i \in 1..Len(k.info.pdrs))
  BY <1>5, <1>6, RulesAssumption
<1>8. k.stable => phase[s] = "up" /\ (Judgeable(s, k.p) => Judging(s, k))
  BY <1>2, <1>3, <1>4 DEF SelectProgress
<1>9. QED BY <1>3, <1>4, <1>5, <1>6, <1>7, <1>8

-----------------------------------------------------------------------------
(* The rules of a session and the lookups.                                 *)

(* Without port filters the XDP program and the rules agree on a match. *)
LEMMA MatchAgrees ==
    ASSUME NEW s \in Seids, NoPortFilter(s), NEW i \in 1..Len(PdrsOf(s)), NEW p
    PROVE  (PdrsOf(s)[i].iface = Interface(p) /\ sdf_matches(PdrsOf(s)[i], p)) <=> i \in Matching(s, p)
<1>1. ASSUME NEW f \in SdfFields
      PROVE  (PdrsOf(s)[i].sdf[f] # 0 => PdrsOf(s)[i].sdf[f] = AsRead(f, p[f]))
             <=> (PdrsOf(s)[i].sdf[f] # 0 => PdrsOf(s)[i].sdf[f] = p[f])
  BY DEF NoPortFilter, AsRead
<1>2. QED BY <1>1 DEF Matching, sdf_matches

(* The first rule of lowest precedence is the one Ruled goes by. *)
LEMMA RuledBy ==
    ASSUME NEW s \in Seids, NEW p, NEW b, Rules(s, p, b)
    PROVE  Ruled(s, p) = IF "DROP" \in ActionOf(s, PdrsOf(s)[b].far) THEN DropIt
                         ELSE IF p.dir = "ul" THEN ToN6
                         ELSE ToN3([gnb |-> tunnel[s], teid |-> tunnel[s]])
<1> DEFINE First(i) == i \in Matching(s, p) /\ \A j \in Matching(s, p) : Before(s, i, j)
<1> DEFINE rule == CHOOSE i \in Matching(s, p) : \A j \in Matching(s, p) :
                     \/ PdrsOf(s)[i].precedence < PdrsOf(s)[j].precedence
                     \/ PdrsOf(s)[i].precedence = PdrsOf(s)[j].precedence /\ i <= j
<1>1. First(b)
  BY DEF Rules
<1>2. First(rule)
  BY <1>1 DEF Before
<1>3. \A i \in Matching(s, p) : i \in Nat /\ PdrsOf(s)[i].precedence \in Nat
  BY RuleFacts, RulesAssumption DEF Matching, Pdr
<1> HIDE DEF rule
<1>4. rule = b
  BY <1>1, <1>2, <1>3 DEF Before
<1>5. Ruled(s, p) = IF "DROP" \in ActionOf(s, PdrsOf(s)[rule].far) THEN DropIt
                    ELSE IF p.dir = "ul" THEN ToN6
                    ELSE ToN3([gnb |-> tunnel[s], teid |-> tunnel[s]])
  BY DEF Ruled, rule
<1>6. QED BY <1>4, <1>5

(* A lookup in FAR_MAP finds a FAR of the session it is for, or none.      *)
LEMMA FarAtFacts ==
    ASSUME TypeOK, HInv, NEW s \in Seids, NEW id \in Nat
    PROVE  /\ FarAt(s, id) \in FarValue \cup {None}
           /\ FarAt(s, id) # None => FarAt(s, id).tun \in TunnelsOf[s] \cup {None}
<1>1. CASE RuleKey(s, id) \notin FarKeys
  BY <1>1 DEF FarAt
<1>2. CASE RuleKey(s, id) \in FarKeys
  <2>1. PICK r \in Seids : \E f \in FarIdsOf(r) : RuleKey(s, id) = RuleKey(r, f)
    BY <1>2 DEF FarKeys
  <2>2. PICK i \in 1..Len(FarsOf(r)) : RuleKey(s, id) = RuleKey(r, FarsOf(r)[i].id)
    BY <2>1 DEF FarIdsOf
  <2>3. r = s
    <3>1. FarsOf(r)[i].id \in Nat /\ r \in Nat /\ s \in Nat
      BY RuleFacts, IdFacts
    <3>2. QED BY <2>2, <3>1, KeyOwner
  <2>4. FarAt(s, id) = far_map[FarKeyOf(s, i)]
    BY <1>2, <2>2, <2>3 DEF FarAt, FarKeyOf
  <2>5. far_map[FarKeyOf(s, i)] \in FarValue \cup {None}
    BY <2>2, <2>3, FarKeyFacts DEF TypeOK
  <2>6. QED BY <2>2, <2>3, <2>4, <2>5 DEF HInv, FarEntries
<1>3. QED BY <1>1, <1>2

(* In a session that is up the FAR is the one of its rules. *)
LEMMA FarInPlace ==
    ASSUME TypeOK, HInv, NEW s \in Seids, phase[s] = "up", NEW id \in FarIdsOf(s)
    PROVE  /\ FarAt(s, id) # None /\ FarAt(s, id).action = ActionOf(s, id)
           /\ id = RulesOf[s].access => FarAt(s, id).tun = tunnel[s]
<1>1. PICK i \in 1..Len(FarsOf(s)) : FarsOf(s)[i].id = id
  BY DEF FarIdsOf
<1>2. FarAt(s, id) = FarOf(s, i)
  BY <1>1, UpInPlace, FarKeyFacts DEF FarAt, FarKeyOf
<1>3. FarOf(s, i) # None /\ FarOf(s, i).action = FarsOf(s)[i].action
  BY FarOfFacts DEF HInv
<1>4. ActionOf(s, id) = FarsOf(s)[i].action
  <2> DEFINE a == CHOOSE j \in 1..Len(FarsOf(s)) : FarsOf(s)[j].id = id
  <2>1. a \in 1..Len(FarsOf(s)) /\ FarsOf(s)[a].id = id
    BY <1>1
  <2> HIDE DEF a
  <2>2. a = i
    BY <1>1, <2>1, RulesAssumption
  <2>3. QED BY <2>2 DEF ActionOf, a
<1>5. QED BY <1>1, <1>2, <1>3, <1>4 DEF FarOf

(* A lookup in PDR_MAP by an ID of the array finds a PDR of the session. *)
LEMMA PdrInArray ==
    ASSUME TypeOK, HInv, NEW s \in Seids, NEW i \in 1..Len(KeptPdrIds(s))
    PROVE  LET pdr == pdr_map[RuleKey(s, KeptPdrIds(s)[i])] IN
           /\ i \in 1..Len(PdrsOf(s)) /\ pdr \in Pdr \cup {None}
           /\ phase[s] = "up" => pdr = PdrsOf(s)[i]
<1>1. i \in 1..Len(PdrsOf(s)) /\ KeptPdrIds(s)[i] = PdrsOf(s)[i].id
  BY KeptFacts, RuleFacts
<1>2. RuleKey(s, KeptPdrIds(s)[i]) = PdrKeyOf(s, i)
  BY <1>1 DEF PdrKeyOf
<1>3. QED BY <1>1, <1>2, PdrKeyFacts, UpInPlace DEF TypeOK

(* select_far has seen one more rule, which does not match or is no better *)
(* than the best so far.                                                   *)
LEMMA BestStays ==
    ASSUME NEW s \in Seids, Expressible(s), NEW p, NEW i \in 1..Len(PdrsOf(s)), NEW best, NEW prec,
           BestOf(s, p, i, best, prec),
           i \in Matching(s, p) => ~(PdrsOf(s)[i].precedence < prec)
    PROVE  BestOf(s, p, i + 1, best, prec)
<1>1. \A j \in 1..Len(PdrsOf(s)) : PdrsOf(s)[j].precedence \in 0..MaxPrecedence
  BY RuleFacts DEF Pdr
<1>2. i \in Nat /\ MaxPrecedence \in Nat /\ Matching(s, p) \subseteq 1..Len(PdrsOf(s))
  BY RulesAssumption DEF Matching
<1>3. \A j \in Seen(s, p, i + 1) : j \in Seen(s, p, i) \/ (j = i /\ i \in Matching(s, p))
  BY <1>2 DEF Seen
<1>4. Seen(s, p, i) \subseteq Seen(s, p, i + 1)
  BY <1>2 DEF Seen
<1>5. CASE Seen(s, p, i) = {} /\ best = None /\ prec = MaxPrecedence
  <2>1. i \notin Matching(s, p)
    BY <1>1, <1>2, <1>5 DEF Expressible
  <2>2. Seen(s, p, i + 1) = {}
    BY <1>3, <1>5, <2>1
  <2>3. QED BY <1>5, <2>2 DEF BestOf
<1>6. CASE \E b \in 1..Len(PdrsOf(s)) :
             /\ Decides(s, p, i, b)
             /\ best # None /\ best.action = ActionOf(s, PdrsOf(s)[b].far)
             /\ prec = PdrsOf(s)[b].precedence
  <2>1. PICK b \in 1..Len(PdrsOf(s)) :
             /\ Decides(s, p, i, b)
             /\ best # None /\ best.action = ActionOf(s, PdrsOf(s)[b].far)
             /\ prec = PdrsOf(s)[b].precedence
    BY <1>6
  <2>2. b < i /\ b \in Seen(s, p, i + 1)
    BY <1>4, <2>1 DEF Decides, Seen
  <2>3. i \in Matching(s, p) => Before(s, b, i)
    BY <1>1, <1>2, <2>1, <2>2 DEF Before
  <2>4. Decides(s, p, i + 1, b)
    BY <1>3, <2>1, <2>2, <2>3 DEF Decides
  <2>5. QED BY <2>1, <2>4 DEF BestOf
<1>7. QED BY <1>5, <1>6 DEF BestOf

(* ... or which is better. *)
LEMMA BestTaken ==
    ASSUME NEW s \in Seids, NEW p, NEW i \in Matching(s, p), NEW best, NEW prec,
           BestOf(s, p, i, best, prec), PdrsOf(s)[i].precedence < prec,
           NEW far, far # None, far.action = ActionOf(s, PdrsOf(s)[i].far)
    PROVE  BestOf(s, p, i + 1, far, PdrsOf(s)[i].precedence)
<1>1. \A j \in 1..Len(PdrsOf(s)) : PdrsOf(s)[j].precedence \in 0..MaxPrecedence
  BY RuleFacts DEF Pdr
<1>2. i \in Nat /\ MaxPrecedence \in Nat /\ Matching(s, p) \subseteq 1..Len(PdrsOf(s))
  BY RulesAssumption DEF Matching
<1>3. \A j \in Seen(s, p, i + 1) : j \in Seen(s, p, i) \/ j = i
  BY <1>2 DEF Seen
<1>4. i \in Seen(s, p, i + 1)
  BY <1>2 DEF Seen
<1>5. \A j \in Seen(s, p, i) : Before(s, i, j)
  <2>1. CASE Seen(s, p, i) = {}
    BY <2>1
  <2>2. CASE \E b \in 1..Len(PdrsOf(s)) : Decides(s, p, i, b) /\ prec = PdrsOf(s)[b].precedence
    <3>1. PICK b \in 1..Len(PdrsOf(s)) : Decides(s, p, i, b) /\ prec = PdrsOf(s)[b].precedence
      BY <2>2
    <3>2. \A j \in Seen(s, p, i) : j \in 1..Len(PdrsOf(s)) /\ Before(s, b, j)
      BY <1>2, <3>1 DEF Decides, Seen
    <3>3. QED BY <1>1, <1>2, <3>1, <3>2 DEF Before
  <2>3. QED BY <2>1, <2>2 DEF BestOf
<1>6. Before(s, i, i)
  BY <1>2 DEF Before
<1>7. Decides(s, p, i + 1, i)
  BY <1>3, <1>4, <1>5, <1>6 DEF Decides
<1>8. i \in 1..Len(PdrsOf(s))
  BY <1>2
<1>9. QED BY <1>7, <1>8 DEF BestOf

-----------------------------------------------------------------------------
(* The registers of a running program, with its index named. *)
Cursors == 1..MaxPdr + 1

(* The type of the registers. *)
LEMMA RunningIs ==
    Running = [at : {"select", "far", "get", "getfar"}, p : Packets, info : SessionInfo, stable : BOOLEAN,
               i : Cursors, best : FarValue \cup {None}, precedence : 0..MaxPrecedence, pdr : Pdr \cup {None}]
  BY DEF Running, Cursors

(* A packet arrives: either no session has its UE, or select_far begins    *)
(* with the PDRs of the one that has.                                      *)
LEMMA LookupStep ==
    ASSUME IInv, NEW c \in Cpus, NEW p \in Packets, Lookup(c, p)
    PROVE  IInv'
<1> DEFINE quiet == \A s \in Seids : UeOf[s] = p.ue => phase[s] \notin {"installing", "removing"}
<1>1. PacketFrame /\ p.ue \in Ues
  BY RulesAssumption DEF Lookup, PacketFrame, PacketHeaders
<1>2. PICK info : info = session_map[p.ue]
  OBVIOUS
<1>3. PICK q \in BOOLEAN : q = quiet
  OBVIOUS
<1>4. cpu' = [cpu EXCEPT ![c] =
                IF info = None
                THEN [at |-> "done", p |-> p, info |-> None, stable |-> q, verdict |-> Pass]
                ELSE [at |-> "select", p |-> p, info |-> info, stable |-> q,
                      i |-> 1, best |-> None, precedence |-> MaxPrecedence, pdr |-> None]]
  BY <1>2, <1>3 DEF Lookup
<1>5. CASE info = None
  <2> DEFINE k == [at |-> "done", p |-> p, info |-> None, stable |-> q, verdict |-> Pass]
  <2>1. k \in Finished /\ k.info = None
    BY DEF Finished, Verdict
  <2>2. cpu' = [cpu EXCEPT ![c] = k]
    BY <1>4, <1>5
  <2> HIDE DEF k
  <2>3. QED BY <1>1, <2>1, <2>2, DoneStep
<1>6. CASE info # None
  <2> DEFINE k == [at |-> "select", p |-> p, info |-> info, stable |-> q,
                   i |-> 1, best |-> None, precedence |-> MaxPrecedence, pdr |-> None]
  <2>1. PICK s \in Seids : InfoFits(info, s) /\ UeOf[s] = p.ue /\ Active(s)
    <3>1. info \in SessionInfo
      BY <1>1, <1>2, <1>6 DEF IInv, TypeOK
    <3>2. info.seid \in Seids
      BY <3>1 DEF SessionInfo
    <3>3. QED BY <1>1, <1>2, <1>6, <3>2 DEF IInv, HInv, SessionEntries
  <2>2. MaxPdr \in Nat /\ 1 \in Cursors /\ MaxPrecedence \in 0..MaxPrecedence
    BY RulesAssumption DEF Cursors
  <2>3. k \in Running /\ k.at = "select" /\ k.p = p /\ k.info = info /\ k.i = 1 /\ k.stable = q
    BY <2>1, <2>2, RunningIs DEF InfoFits
  <2>4. k.best = None /\ k.precedence = MaxPrecedence
    OBVIOUS
  <2>5. cpu' = [cpu EXCEPT ![c] = k]
    BY <1>4, <1>6
  <2> HIDE DEF k
  <2>6. k.i <= Len(k.info.pdrs) + 1
    BY <2>1, <2>3, KeptFacts DEF InfoFits
  <2>7. k.stable => phase[s] = "up"
    BY <1>3, <2>1, <2>3 DEF Active
  <2>8. Judging(s, k)
    <3>1. Seen(s, p, 1) = {}
      BY DEF Seen, Matching
    <3>2. BestOf(s, k.p, k.i, k.best, k.precedence)
      BY <2>3, <2>4, <3>1 DEF BestOf
    <3>3. QED BY <2>3, <3>2 DEF Judging
  <2>9. QED BY <1>1, <2>1, <2>3, <2>5, <2>6, <2>7, <2>8, RunStep
<1>7. QED BY <1>5, <1>6

(* select_far reads a PDR and takes it for a candidate, or goes on. *)
LEMMA SelectPdrStep ==
    ASSUME IInv, NEW c \in Cpus, SelectPdr(c)
    PROVE  IInv'
<1>1. PacketFrame /\ AtWork(c) /\ cpu[c].at = "select" /\ cpu[c].i <= Len(cpu[c].info.pdrs)
  BY DEF SelectPdr, PacketFrame, AtWork
<1>2. PICK k \in Running, s \in Seids :
        /\ cpu[c] = k /\ k.info.seid = s /\ k.info.pdrs = KeptPdrIds(s)
        /\ InfoFits(k.info, s) /\ UeOf[s] = k.p.ue
        /\ k.i \in 1..Len(k.info.pdrs) + 1
        /\ k.stable => phase[s] = "up" /\ (Judgeable(s, k.p) => Judging(s, k))
  BY <1>1, UnderWay
<1>3. /\ k.i \in Nat /\ k.i \in 1..Len(KeptPdrIds(s)) /\ k.i + 1 \in Cursors
      /\ k.i + 1 <= Len(k.info.pdrs) + 1
  BY <1>1, <1>2, KeptFacts, RulesAssumption DEF Cursors
<1>4. PICK pdr : pdr = pdr_map[RuleKey(s, KeptPdrIds(s)[k.i])]
  OBVIOUS
<1>5. k.i \in 1..Len(PdrsOf(s)) /\ pdr \in Pdr \cup {None} /\ (phase[s] = "up" => pdr = PdrsOf(s)[k.i])
  BY <1>3, <1>4, PdrInArray DEF IInv
<1> DEFINE taken == pdr # None /\ pdr.iface = Interface(k.p) /\ sdf_matches(pdr, k.p) /\ Better(pdr, k.precedence)
<1>6. cpu' = [cpu EXCEPT ![c] = IF taken THEN [k EXCEPT !.at = "far", !.pdr = pdr] ELSE [k EXCEPT !.i = @ + 1]]
  BY <1>2, <1>4 DEF SelectPdr
<1>7. k.stable /\ Judgeable(s, k.p) =>
        /\ BestOf(s, k.p, k.i, k.best, k.precedence)
        /\ pdr = PdrsOf(s)[k.i] /\ pdr # None
        /\ taken <=> k.i \in Matching(s, k.p) /\ pdr.precedence < k.precedence
  <2>1. SUFFICES ASSUME k.stable, Judgeable(s, k.p)
        PROVE  /\ BestOf(s, k.p, k.i, k.best, k.precedence)
               /\ pdr = PdrsOf(s)[k.i] /\ pdr # None
               /\ taken <=> k.i \in Matching(s, k.p) /\ pdr.precedence < k.precedence
    OBVIOUS
  <2>2. BestOf(s, k.p, k.i, k.best, k.precedence)
    BY <1>1, <1>2, <2>1 DEF Judging
  <2>3. pdr = PdrsOf(s)[k.i] /\ pdr # None
    BY <1>2, <1>5, <2>1, RuleFacts, NoneAssumption
  <2>4. (PdrsOf(s)[k.i].iface = Interface(k.p) /\ sdf_matches(PdrsOf(s)[k.i], k.p)) <=> k.i \in Matching(s, k.p)
    BY <1>5, <2>1, MatchAgrees DEF Judgeable
  <2>5. QED BY <2>2, <2>3, <2>4 DEF Better
<1>8. CASE taken
  <2> DEFINE n == [k EXCEPT !.at = "far", !.pdr = pdr]
  <2>1. pdr \in Pdr /\ pdr # None
    BY <1>5, <1>8
  <2>2. /\ n \in Running /\ n.at = "far" /\ n.pdr = pdr /\ n.i = k.i /\ n.p = k.p /\ n.info = k.info
        /\ n.stable = k.stable /\ n.best = k.best /\ n.precedence = k.precedence
    BY <2>1, RunningIs
  <2>3. cpu' = [cpu EXCEPT ![c] = n]
    BY <1>6, <1>8
  <2> HIDE DEF n, taken
  <2>4. n.stable /\ Judgeable(s, n.p) => Judging(s, n)
    BY <1>7, <1>8, <2>2 DEF Judging
  <2>5. n.i <= Len(n.info.pdrs)
    BY <1>1, <1>2, <2>2
  <2>6. n.i <= Len(n.info.pdrs) + 1
    BY <1>2, <1>3, <2>2
  <2>7. QED BY <1>1, <1>2, <2>1, <2>2, <2>3, <2>4, <2>5, <2>6, RunStep
<1>9. CASE ~taken
  <2> DEFINE n == [k EXCEPT !.i = @ + 1]
  <2>1. /\ n \in Running /\ n.at = k.at /\ n.pdr = k.pdr /\ n.i = k.i + 1 /\ n.p = k.p /\ n.info = k.info
        /\ n.stable = k.stable /\ n.best = k.best /\ n.precedence = k.precedence
    BY <1>3, RunningIs
  <2>2. cpu' = [cpu EXCEPT ![c] = n]
    BY <1>6, <1>9
  <2> HIDE DEF n, taken
  <2>3. n.stable /\ Judgeable(s, n.p) => Judging(s, n)
    <3>1. SUFFICES ASSUME n.stable, Judgeable(s, n.p) PROVE Judging(s, n)
      OBVIOUS
    <3>2. BestOf(s, k.p, k.i + 1, k.best, k.precedence)
      BY <1>5, <1>7, <1>9, <2>1, <3>1, BestStays DEF Judgeable
    <3>3. QED BY <1>1, <1>2, <2>1, <3>2 DEF Judging
  <2>4. n.i <= Len(n.info.pdrs) + 1 /\ n.at = "select"
    BY <1>1, <1>2, <1>3, <2>1
  <2>5. QED BY <1>1, <1>2, <2>1, <2>2, <2>3, <2>4, RunStep
<1>10. QED BY <1>8, <1>9

(* select_far reads the FAR of its candidate, which becomes the best rule  *)
(* unless the FAR is missing.                                              *)
LEMMA SelectFarStep ==
    ASSUME IInv, NEW c \in Cpus, SelectFar(c)
    PROVE  IInv'
<1>1. PacketFrame /\ AtWork(c) /\ cpu[c].at = "far"
  BY DEF SelectFar, PacketFrame, AtWork
<1>2. PICK k \in Running, s \in Seids :
        /\ cpu[c] = k /\ k.info.seid = s /\ k.info.pdrs = KeptPdrIds(s)
        /\ InfoFits(k.info, s) /\ UeOf[s] = k.p.ue
        /\ k.i \in 1..Len(k.info.pdrs) + 1
        /\ k.at \in {"far", "getfar"} => k.i \in 1..Len(k.info.pdrs) /\ k.pdr \in Pdr
        /\ k.stable => phase[s] = "up" /\ (Judgeable(s, k.p) => Judging(s, k))
  BY <1>1, UnderWay
<1>3. k.at = "far" /\ k.i \in 1..Len(KeptPdrIds(s)) /\ k.pdr \in Pdr
  BY <1>1, <1>2
<1>4. k.i \in Nat /\ k.i + 1 \in Cursors /\ k.i + 1 <= Len(k.info.pdrs) + 1
  BY <1>2, <1>3, KeptFacts, RulesAssumption DEF Cursors
<1>5. k.pdr.far \in Nat /\ k.pdr.precedence \in 0..MaxPrecedence
  BY <1>3 DEF Pdr
<1>6. PICK far : far = FarAt(s, k.pdr.far)
  OBVIOUS
<1>7. far \in FarValue \cup {None}
  BY <1>5, <1>6, FarAtFacts DEF IInv
<1> DEFINE n == [k EXCEPT !.at = "select", !.i = @ + 1, !.pdr = None,
                          !.best = IF far = None THEN @ ELSE far,
                          !.precedence = IF far = None THEN @ ELSE k.pdr.precedence]
<1>8. cpu' = [cpu EXCEPT ![c] = n]
  BY <1>2, <1>6 DEF SelectFar
<1>9. /\ n \in Running /\ n.at = "select" /\ n.i = k.i + 1 /\ n.p = k.p /\ n.info = k.info /\ n.stable = k.stable
      /\ far # None => n.best = far /\ n.precedence = k.pdr.precedence
  <2> DEFINE best == IF far = None THEN k.best ELSE far
  <2> DEFINE prec == IF far = None THEN k.precedence ELSE k.pdr.precedence
  <2>1. best \in FarValue \cup {None} /\ prec \in 0..MaxPrecedence
    BY <1>5, <1>7, RunningIs
  <2>2. n = [k EXCEPT !.at = "select", !.i = k.i + 1, !.pdr = None, !.best = best, !.precedence = prec]
    BY RunningIs
  <2>3. far # None => best = far /\ prec = k.pdr.precedence
    OBVIOUS
  <2> HIDE DEF n, best, prec
  <2>4. QED BY <1>4, <2>1, <2>2, <2>3, RunningIs
<1> HIDE DEF n
<1>10. n.stable /\ Judgeable(s, n.p) => Judging(s, n)
  <2>1. SUFFICES ASSUME n.stable, Judgeable(s, n.p) PROVE Judging(s, n)
    OBVIOUS
  <2>2. /\ phase[s] = "up" /\ BestOf(s, k.p, k.i, k.best, k.precedence)
        /\ k.pdr = PdrsOf(s)[k.i] /\ k.i \in Matching(s, k.p) /\ k.pdr.precedence < k.precedence
    BY <1>2, <1>3, <1>9, <2>1 DEF Judging
  <2>3. k.pdr.far \in FarIdsOf(s)
    BY <2>1, <2>2 DEF Judgeable, Expressible, Matching
  <2>4. far # None /\ far.action = ActionOf(s, PdrsOf(s)[k.i].far)
    BY <1>6, <2>2, <2>3, FarInPlace DEF IInv
  <2>5. BestOf(s, k.p, k.i + 1, far, PdrsOf(s)[k.i].precedence)
    BY <2>2, <2>4, BestTaken
  <2>6. QED BY <1>9, <2>2, <2>4, <2>5 DEF Judging
<1>11. n.i <= Len(n.info.pdrs) + 1
  BY <1>4, <1>9
<1>12. QED BY <1>1, <1>2, <1>8, <1>9, <1>10, <1>11, RunStep

(* What a verdict leaves of the registers. *)
LEMMA DoneFacts ==
    ASSUME NEW c \in Cpus, NEW k \in Running, cpu[c] = k, NEW v \in Verdict
    PROVE  /\ Done(c, v) = [at |-> "done", p |-> k.p, info |-> k.info, stable |-> k.stable, verdict |-> v]
           /\ [at |-> "done", p |-> k.p, info |-> k.info, stable |-> k.stable, verdict |-> v] \in Finished
<1>1. k.p \in Packets /\ k.info \in SessionInfo /\ k.stable \in BOOLEAN
  BY RunningIs
<1>2. QED BY <1>1 DEF Done, Finished

(* A packet gets the verdict v. *)
LEMMA VerdictStep ==
    ASSUME IInv, PacketFrame, NEW c \in Cpus, NEW k \in Running, cpu[c] = k, NEW v \in Verdict,
           cpu' = [cpu EXCEPT ![c] = Done(c, v)],
           NEW s \in Seids, InfoFits(k.info, s), UeOf[s] = k.p.ue,
           v.act = "n3" => v.tun.gnb \in TunnelsOf[s] \cup {None},
           k.stable /\ Judgeable(s, k.p) => v = Ruled(s, k.p)
    PROVE  IInv'
<1> DEFINE n == [at |-> "done", p |-> k.p, info |-> k.info, stable |-> k.stable, verdict |-> v]
<1>1. n \in Finished /\ cpu' = [cpu EXCEPT ![c] = n]
  BY DoneFacts
<1>2. n.p = k.p /\ n.info = k.info /\ n.stable = k.stable /\ n.verdict = v
  OBVIOUS
<1> HIDE DEF n
<1>3. /\ InfoFits(n.info, s) /\ UeOf[s] = n.p.ue
      /\ n.verdict.act = "n3" => n.verdict.tun.gnb \in TunnelsOf[s] \cup {None}
      /\ n.stable /\ Judgeable(s, n.p) => n.verdict = Ruled(s, n.p)
  BY <1>2
<1>4. QED BY <1>1, <1>3, DoneStep

(* select_far is through with the array. *)
LEMMA SelectedStep ==
    ASSUME IInv, NEW c \in Cpus, Selected(c)
    PROVE  IInv'
<1>1. PacketFrame /\ AtWork(c) /\ cpu[c].at = "select" /\ cpu[c].i > Len(cpu[c].info.pdrs)
  BY DEF Selected, PacketFrame, AtWork
<1>2. PICK k \in Running, s \in Seids :
        /\ cpu[c] = k /\ k.info.seid = s /\ k.info.pdrs = KeptPdrIds(s)
        /\ InfoFits(k.info, s) /\ UeOf[s] = k.p.ue
        /\ k.i \in 1..Len(k.info.pdrs) + 1
        /\ k.stable => phase[s] = "up" /\ (Judgeable(s, k.p) => Judging(s, k))
  BY <1>1, UnderWay
<1> DEFINE dropped == k.best # None /\ "DROP" \in k.best.action
<1>3. cpu' = [cpu EXCEPT ![c] = IF dropped THEN Done(c, DropIt)
                                ELSE IF k.p.dir = "ul" THEN Done(c, ToN6)
                                ELSE [k EXCEPT !.at = "get", !.i = 1]]
  BY <1>2 DEF Selected
<1>4. k.stable /\ Judgeable(s, k.p) =>
        \E b \in 1..Len(PdrsOf(s)) : Rules(s, k.p, b) /\ (dropped <=> "DROP" \in ActionOf(s, PdrsOf(s)[b].far))
  <2>1. SUFFICES ASSUME k.stable, Judgeable(s, k.p)
        PROVE  \E b \in 1..Len(PdrsOf(s)) : Rules(s, k.p, b) /\ (dropped <=> "DROP" \in ActionOf(s, PdrsOf(s)[b].far))
    OBVIOUS
  <2>2. Len(KeptPdrIds(s)) = Len(PdrsOf(s)) /\ Len(PdrsOf(s)) \in Nat
    BY <2>1, KeptFacts, RuleFacts DEF Judgeable, Expressible
  <2>3. k.i = Len(PdrsOf(s)) + 1
    BY <1>1, <1>2, <2>2
  <2>4. Seen(s, k.p, k.i) = Matching(s, k.p)
    BY <2>2, <2>3 DEF Seen, Matching
  <2>5. BestOf(s, k.p, k.i, k.best, k.precedence)
    BY <1>1, <1>2, <2>1 DEF Judging
  <2>6. PICK b \in 1..Len(PdrsOf(s)) :
          Decides(s, k.p, k.i, b) /\ k.best # None /\ k.best.action = ActionOf(s, PdrsOf(s)[b].far)
    BY <2>1, <2>4, <2>5 DEF BestOf, Judgeable
  <2>7. Rules(s, k.p, b)
    BY <2>4, <2>6 DEF Decides, Rules
  <2>8. QED BY <2>6, <2>7
<1>5. DropIt \in Verdict /\ ToN6 \in Verdict /\ DropIt.act # "n3" /\ ToN6.act # "n3"
  BY DEF Verdict, DropIt, ToN6
<1> HIDE DEF dropped
<1>6. CASE dropped
  <2>1. k.stable /\ Judgeable(s, k.p) => DropIt = Ruled(s, k.p)
    BY <1>4, <1>6, RuledBy
  <2>2. QED BY <1>1, <1>2, <1>3, <1>5, <1>6, <2>1, VerdictStep
<1>7. CASE ~dropped /\ k.p.dir = "ul"
  <2>1. k.stable /\ Judgeable(s, k.p) => ToN6 = Ruled(s, k.p)
    BY <1>4, <1>7, RuledBy
  <2>2. QED BY <1>1, <1>2, <1>3, <1>5, <1>7, <2>1, VerdictStep
<1>8. CASE ~dropped /\ k.p.dir # "ul"
  <2> DEFINE n == [k EXCEPT !.at = "get", !.i = 1]
  <2>1. 1 \in Cursors
    BY RulesAssumption DEF Cursors
  <2>2. n \in Running /\ n.at = "get" /\ n.i = 1 /\ n.p = k.p /\ n.info = k.info /\ n.stable = k.stable
    BY <2>1, RunningIs
  <2>3. cpu' = [cpu EXCEPT ![c] = n]
    BY <1>3, <1>8
  <2> HIDE DEF n
  <2>4. k.p.dir = "dl"
    BY <1>8, RunningIs, RulesAssumption DEF PacketHeaders
  <2>5. n.stable /\ Judgeable(s, n.p) => Judging(s, n)
    BY <1>4, <1>8, <2>2, <2>4 DEF Judging
  <2>6. n.i <= Len(n.info.pdrs) + 1
    BY <1>2, <2>2, KeptFacts
  <2>7. QED BY <1>1, <1>2, <2>2, <2>3, <2>5, <2>6, RunStep
<1>9. QED BY <1>6, <1>7, <1>8

(* downlink_get_far reads a PDR. *)
LEMMA GetPdrStep ==
    ASSUME IInv, NEW c \in Cpus, GetPdr(c)
    PROVE  IInv'
<1>1. PacketFrame /\ AtWork(c) /\ cpu[c].at = "get" /\ cpu[c].i <= Len(cpu[c].info.pdrs)
  BY DEF GetPdr, PacketFrame, AtWork
<1>2. PICK k \in Running, s \in Seids :
        /\ cpu[c] = k /\ k.info.seid = s /\ k.info.pdrs = KeptPdrIds(s)
        /\ InfoFits(k.info, s) /\ UeOf[s] = k.p.ue
        /\ k.i \in 1..Len(k.info.pdrs) + 1
        /\ k.stable => phase[s] = "up" /\ (Judgeable(s, k.p) => Judging(s, k))
  BY <1>1, UnderWay
<1>3. /\ k.i \in Nat /\ k.i \in 1..Len(KeptPdrIds(s)) /\ k.i + 1 \in Cursors
      /\ k.i + 1 <= Len(k.info.pdrs) + 1
  BY <1>1, <1>2, KeptFacts, RulesAssumption DEF Cursors
<1>4. PICK pdr : pdr = pdr_map[RuleKey(s, KeptPdrIds(s)[k.i])]
  OBVIOUS
<1>5. k.i \in 1..Len(PdrsOf(s)) /\ pdr \in Pdr \cup {None} /\ (phase[s] = "up" => pdr = PdrsOf(s)[k.i])
  BY <1>3, <1>4, PdrInArray DEF IInv
<1> DEFINE taken == pdr # None /\ pdr.iface = IFACE_CORE
<1>6. cpu' = [cpu EXCEPT ![c] = IF taken THEN [k EXCEPT !.at = "getfar", !.pdr = pdr] ELSE [k EXCEPT !.i = @ + 1]]
  BY <1>2, <1>4 DEF GetPdr
<1>7. k.stable /\ Judgeable(s, k.p) =>
        /\ k.p.dir = "dl"
        /\ \E b \in 1..Len(PdrsOf(s)) : Rules(s, k.p, b) /\ "DROP" \notin ActionOf(s, PdrsOf(s)[b].far)
        /\ \A j \in 1..Len(PdrsOf(s)) : j < k.i => PdrsOf(s)[j].iface # IFACE_CORE
        /\ pdr = PdrsOf(s)[k.i] /\ pdr # None
  <2>1. k.stable => pdr = PdrsOf(s)[k.i] /\ pdr # None
    BY <1>2, <1>5, RuleFacts, NoneAssumption
  <2>2. QED BY <1>1, <1>2, <2>1 DEF Judging
<1>8. CASE taken
  <2> DEFINE n == [k EXCEPT !.at = "getfar", !.pdr = pdr]
  <2>1. pdr \in Pdr /\ pdr # None /\ pdr.iface = IFACE_CORE
    BY <1>5, <1>8
  <2>2. /\ n \in Running /\ n.at = "getfar" /\ n.pdr = pdr /\ n.i = k.i /\ n.p = k.p /\ n.info = k.info
        /\ n.stable = k.stable
    BY <2>1, RunningIs
  <2>3. cpu' = [cpu EXCEPT ![c] = n]
    BY <1>6, <1>8
  <2> HIDE DEF n, taken
  <2>4. n.stable /\ Judgeable(s, n.p) => Judging(s, n)
    BY <1>7, <2>1, <2>2 DEF Judging
  <2>5. n.i <= Len(n.info.pdrs)
    BY <1>1, <1>2, <2>2
  <2>6. n.i <= Len(n.info.pdrs) + 1
    BY <1>2, <1>3, <2>2
  <2>7. QED BY <1>1, <1>2, <2>1, <2>2, <2>3, <2>4, <2>5, <2>6, RunStep
<1>9. CASE ~taken
  <2> DEFINE n == [k EXCEPT !.i = @ + 1]
  <2>1. n \in Running /\ n.at = k.at /\ n.i = k.i + 1 /\ n.p = k.p /\ n.info = k.info /\ n.stable = k.stable
    BY <1>3, RunningIs
  <2>2. cpu' = [cpu EXCEPT ![c] = n]
    BY <1>6, <1>9
  <2> HIDE DEF n
  <2>3. n.stable /\ Judgeable(s, n.p) => Judging(s, n)
    <3>1. SUFFICES ASSUME n.stable, Judgeable(s, n.p) PROVE Judging(s, n)
      OBVIOUS
    <3>2. PdrsOf(s)[k.i].iface # IFACE_CORE
      BY <1>7, <1>9, <2>1, <3>1
    <3>3. \A j \in 1..Len(PdrsOf(s)) : j < k.i + 1 => PdrsOf(s)[j].iface # IFACE_CORE
      BY <1>3, <1>7, <2>1, <3>1, <3>2
    <3>4. QED BY <1>1, <1>2, <1>7, <2>1, <3>1, <3>3 DEF Judging
  <2>4. n.i <= Len(n.info.pdrs) + 1 /\ n.at = "get"
    BY <1>1, <1>2, <1>3, <2>1
  <2>5. QED BY <1>1, <1>2, <2>1, <2>2, <2>3, <2>4, RunStep
<1>10. QED BY <1>8, <1>9

(* downlink_get_far reads the FAR, which decides. *)
LEMMA GetFarStep ==
    ASSUME IInv, NEW c \in Cpus, GetFar(c)
    PROVE  IInv'
<1>1. PacketFrame /\ AtWork(c) /\ cpu[c].at = "getfar"
  BY DEF GetFar, PacketFrame, AtWork
<1>2. PICK k \in Running, s \in Seids :
        /\ cpu[c] = k /\ k.info.seid = s /\ k.info.pdrs = KeptPdrIds(s)
        /\ InfoFits(k.info, s) /\ UeOf[s] = k.p.ue
        /\ k.i \in 1..Len(k.info.pdrs) + 1
        /\ k.at \in {"far", "getfar"} => k.i \in 1..Len(k.info.pdrs) /\ k.pdr \in Pdr
        /\ k.stable => phase[s] = "up" /\ (Judgeable(s, k.p) => Judging(s, k))
  BY <1>1, UnderWay
<1>3. k.at = "getfar" /\ k.i \in 1..Len(KeptPdrIds(s)) /\ k.pdr \in Pdr
  BY <1>1, <1>2
<1>4. k.i \in Nat /\ k.i + 1 \in Cursors /\ k.i + 1 <= Len(k.info.pdrs) + 1
  BY <1>2, <1>3, KeptFacts, RulesAssumption DEF Cursors
<1>5. k.pdr.far \in Nat
  BY <1>3 DEF Pdr
<1>6. PICK far : far = FarAt(s, k.pdr.far)
  OBVIOUS
<1>7. far \in FarValue \cup {None} /\ (far # None => far.tun \in TunnelsOf[s] \cup {None})
  BY <1>5, <1>6, FarAtFacts DEF IInv
<1> DEFINE own == ToN3([gnb |-> far.tun, teid |-> far.tun])
<1> DEFINE shared == ToN3(k.info.tun)
<1>8. cpu' = [cpu EXCEPT ![c] =
                IF far = None THEN [k EXCEPT !.at = "get", !.i = @ + 1, !.pdr = None]
                ELSE IF "DROP" \in far.action THEN Done(c, DropIt)
                ELSE IF "FORW" \in far.action THEN Done(c, own)
                ELSE Done(c, shared)]
  BY <1>2, <1>6 DEF GetFar
<1>9. k.stable /\ Judgeable(s, k.p) =>
        /\ far # None /\ "DROP" \notin far.action /\ "FORW" \in far.action
        /\ own = Ruled(s, k.p)
  <2>1. SUFFICES ASSUME k.stable, Judgeable(s, k.p)
        PROVE  far # None /\ "DROP" \notin far.action /\ "FORW" \in far.action /\ own = Ruled(s, k.p)
    OBVIOUS
  <2>2. /\ phase[s] = "up" /\ k.p.dir = "dl"
        /\ k.pdr = PdrsOf(s)[k.i] /\ k.pdr.iface = IFACE_CORE
    BY <1>2, <1>3, <2>1 DEF Judging
  <2>3. PICK b \in 1..Len(PdrsOf(s)) : Rules(s, k.p, b) /\ "DROP" \notin ActionOf(s, PdrsOf(s)[b].far)
    BY <1>2, <1>3, <2>1 DEF Judging
  <2>4. k.i \in 1..Len(PdrsOf(s))
    BY <1>3, KeptFacts, RuleFacts
  <2>5. PdrsOf(s)[b].iface = IFACE_CORE
    BY <2>2, <2>3 DEF Rules, Matching, Interface
  <2>6. k.pdr.far = RulesOf[s].access /\ PdrsOf(s)[b].far = RulesOf[s].access
    BY <2>1, <2>2, <2>4, <2>5 DEF Judgeable, Expressible
  <2>7. RulesOf[s].access \in FarIdsOf(s)
    BY RuleFacts
  <2>8. far # None /\ far.action = ActionOf(s, RulesOf[s].access) /\ far.tun = tunnel[s]
    BY <1>6, <2>2, <2>6, <2>7, FarInPlace DEF IInv
  <2>9. ActionOf(s, RulesOf[s].access) \in {{"DROP"}, {"FORW"}}
    BY <2>1, <2>6 DEF Judgeable, Expressible
  <2>10. "DROP" \notin far.action /\ "FORW" \in far.action
    BY <2>3, <2>6, <2>8, <2>9
  <2>11. Ruled(s, k.p) = ToN3([gnb |-> tunnel[s], teid |-> tunnel[s]])
    BY <2>2, <2>3, RuledBy
  <2>12. QED BY <2>8, <2>10, <2>11
<1>10. CASE far = None
  <2> DEFINE n == [k EXCEPT !.at = "get", !.i = @ + 1, !.pdr = None]
  <2>1. n \in Running /\ n.at = "get" /\ n.i = k.i + 1 /\ n.p = k.p /\ n.info = k.info /\ n.stable = k.stable
    BY <1>4, RunningIs
  <2>2. cpu' = [cpu EXCEPT ![c] = n]
    BY <1>8, <1>10
  <2> HIDE DEF n
  <2>3. n.i <= Len(n.info.pdrs) + 1
    BY <1>4, <2>1
  <2>4. ~(n.stable /\ Judgeable(s, n.p))
    BY <1>9, <1>10, <2>1
  <2>5. QED BY <1>1, <1>2, <2>1, <2>2, <2>3, <2>4, RunStep
<1>11. CASE far # None
  <2>1. far.tun \in Tunnels \cup {None} /\ k.info.tun \in EndPoint /\ k.info.tun.gnb \in TunnelsOf[s]
    BY <1>2, <1>7, <1>11 DEF FarValue, EndPoint, InfoFits, SessionInfo
  <2>2. own \in Verdict /\ own.tun.gnb \in TunnelsOf[s] \cup {None}
    <3>1. [gnb |-> far.tun, teid |-> far.tun] \in EndPoint
      BY <2>1 DEF EndPoint
    <3>2. QED BY <1>7, <1>11, <3>1 DEF Verdict, ToN3
  <2>3. shared \in Verdict /\ shared.tun.gnb \in TunnelsOf[s] \cup {None}
    BY <2>1 DEF Verdict, ToN3
  <2>4. DropIt \in Verdict /\ DropIt.act # "n3"
    BY DEF Verdict, DropIt
  <2> HIDE DEF own, shared
  <2>5. CASE "DROP" \in far.action
    BY <1>1, <1>2, <1>8, <1>9, <1>11, <2>4, <2>5, VerdictStep
  <2>6. CASE "DROP" \notin far.action /\ "FORW" \in far.action
    BY <1>1, <1>2, <1>8, <1>9, <1>11, <2>2, <2>6, VerdictStep
  <2>7. CASE "DROP" \notin far.action /\ "FORW" \notin far.action
    BY <1>1, <1>2, <1>8, <1>9, <1>11, <2>3, <2>7, VerdictStep
  <2>8. QED BY <2>5, <2>6, <2>7
<1>12. QED BY <1>10, <1>11

(* downlink_get_far finds no FAR: the tunnel of the session is used. *)
LEMMA GetNoneStep ==
    ASSUME IInv, NEW c \in Cpus, GetNone(c)
    PROVE  IInv'
<1>1. PacketFrame /\ AtWork(c) /\ cpu[c].at = "get" /\ cpu[c].i > Len(cpu[c].info.pdrs)
  BY DEF GetNone, PacketFrame, AtWork
<1>2. PICK k \in Running, s \in Seids :
        /\ cpu[c] = k /\ k.info.seid = s /\ k.info.pdrs = KeptPdrIds(s)
        /\ InfoFits(k.info, s) /\ UeOf[s] = k.p.ue
        /\ k.i \in 1..Len(k.info.pdrs) + 1
        /\ k.stable => phase[s] = "up" /\ (Judgeable(s, k.p) => Judging(s, k))
  BY <1>1, UnderWay
<1> DEFINE v == ToN3(k.info.tun)
<1>3. cpu' = [cpu EXCEPT ![c] = Done(c, v)]
  BY <1>2 DEF GetNone
<1>4. v \in Verdict /\ v.tun.gnb \in TunnelsOf[s] \cup {None}
  <2>1. k.info.tun \in EndPoint /\ k.info.tun.gnb \in TunnelsOf[s]
    BY <1>2 DEF EndPoint, InfoFits, SessionInfo
  <2>2. QED BY <2>1 DEF Verdict, ToN3
<1> HIDE DEF v
<1>5. ~(k.stable /\ Judgeable(s, k.p))
  <2>1. SUFFICES ASSUME k.stable, Judgeable(s, k.p) PROVE FALSE
    OBVIOUS
  <2>2. Len(KeptPdrIds(s)) = Len(PdrsOf(s)) /\ Len(PdrsOf(s)) \in Nat
    BY <2>1, KeptFacts, RuleFacts DEF Judgeable, Expressible
  <2>3. k.i = Len(PdrsOf(s)) + 1
    BY <1>1, <1>2, <2>2
  <2>4. /\ k.p.dir = "dl" /\ \E b \in 1..Len(PdrsOf(s)) : Rules(s, k.p, b)
        /\ \A j \in 1..Len(PdrsOf(s)) : j < k.i => PdrsOf(s)[j].iface # IFACE_CORE
    BY <1>1, <1>2, <2>1 DEF Judging
  <2>5. PICK b \in 1..Len(PdrsOf(s)) : PdrsOf(s)[b].iface = IFACE_CORE
    BY <2>4 DEF Rules, Matching, Interface
  <2>6. QED BY <2>2, <2>3, <2>4, <2>5
<1>6. QED BY <1>1, <1>2, <1>3, <1>4, <1>5, VerdictStep

-----------------------------------------------------------------------------
(* The invariant and the theorems.                                         *)

(* Nothing is set up yet. *)
LEMMA InitHolds == Init => IInv
<1> SUFFICES ASSUME Init PROVE IInv
  OBVIOUS
<1>1. TypeOK
  BY DEF Init, TypeOK
<1>2. HInv
  <2>1. UeAlone
    BY DEF Init, UeAlone, Active
  <2>2. SessionEntries
    BY DEF Init, SessionEntries
  <2>3. FarEntries
    BY FarKeyFacts DEF Init, FarEntries
  <2>4. \A s \in Seids : TodoFits(s) /\ RulesPut(s) /\ TunnelAsked(s)
    BY DEF Init, TodoFits, RulesPut, TunnelAsked
  <2>5. QED BY <2>1, <2>2, <2>3, <2>4 DEF HInv
<1>3. PInv
  BY DEF Init, Idle, PInv, PacketOwn, PacketInArray, NotMixed, SelectProgress, Judged, AtWork, Handled
<1>4. QED BY <1>1, <1>2, <1>3 DEF IInv

(* Every step of a handler or of an XDP program keeps the invariant. *)
LEMMA NextStep == IInv /\ [Next]_vars => IInv'
<1> SUFFICES ASSUME IInv, [Next]_vars PROVE IInv'
  OBVIOUS
<1>1. TypeOK /\ HInv /\ PInv
  BY DEF IInv
<1>2. ASSUME NEW s \in Seids, Establish(s) PROVE IInv'
  <2>1. Disturb(s) /\ \A r \in Seids \ {s} : phase'[r] = phase[r] /\ tunnel'[r] = tunnel[r]
    BY <1>1, <1>2 DEF Establish, Handler, TypeOK
  <2>2. QED BY <1>1, <1>2, <2>1, EstablishStep, PacketsKept DEF IInv
<1>3. ASSUME NEW s \in Seids, Delete(s) PROVE IInv'
  <2>1. Disturb(s) /\ \A r \in Seids \ {s} : phase'[r] = phase[r] /\ tunnel'[r] = tunnel[r]
    BY <1>1, <1>3 DEF Delete, Handler, TypeOK
  <2>2. QED BY <1>1, <1>3, <2>1, DeleteStep, PacketsKept DEF IInv
<1>4. ASSUME NEW s \in Seids, MapWrite(s) PROVE IInv'
  <2>1. Disturb(s) /\ \A r \in Seids \ {s} : phase'[r] = phase[r] /\ tunnel'[r] = tunnel[r]
    BY <1>1, <1>4 DEF MapWrite, TypeOK
  <2>2. QED BY <1>1, <1>4, <2>1, MapWriteStep, PacketsKept DEF IInv
<1>5. ASSUME NEW s \in Seids, NEW tun \in TunnelsOf[s], Modify(s, tun) PROVE IInv'
  <2>1. Disturb(s) /\ \A r \in Seids \ {s} : phase'[r] = phase[r] /\ tunnel'[r] = tunnel[r]
    BY <1>1, <1>5 DEF Modify, Handler, TypeOK
  <2>2. QED BY <1>1, <1>5, <2>1, ModifyStep, PacketsKept DEF IInv
<1>6. ASSUME NEW c \in Cpus, NEW p \in Packets, N3Uplink(c, p) \/ N6Downlink(c, p) PROVE IInv'
  BY <1>6, LookupStep DEF N3Uplink, N6Downlink
<1>7. ASSUME NEW c \in Cpus,
             SelectPdr(c) \/ SelectFar(c) \/ Selected(c) \/ GetPdr(c) \/ GetFar(c) \/ GetNone(c)
      PROVE  IInv'
  BY <1>7, SelectPdrStep, SelectFarStep, SelectedStep, GetPdrStep, GetFarStep, GetNoneStep
<1>8. CASE UNCHANGED vars
  <2>1. PacketFrame /\ cpu' = cpu
    BY <1>8 DEF vars, PacketFrame, maps
  <2>2. TypeOK' /\ HInv'
    BY <1>1, <2>1, HandlersKept DEF TypeOK, PacketFrame, maps
  <2>3. ASSUME NEW c \in Cpus
        PROVE  PacketOwn(c)' /\ PacketInArray(c)' /\ NotMixed(c)' /\ SelectProgress(c)' /\ Judged(c)'
    <3>1. PacketOwn(c) /\ PacketInArray(c) /\ NotMixed(c) /\ SelectProgress(c) /\ Judged(c)
      BY <1>1 DEF PInv
    <3>2. phase' = phase /\ tunnel' = tunnel
      BY <2>1 DEF PacketFrame
    <3>3. QED BY <2>1, <3>1, <3>2 DEF PacketOwn, PacketInArray, NotMixed, SelectProgress, Judged,
                                     AtWork, Handled, Ruled
  <2>4. QED BY <2>2, <2>3 DEF IInv, PInv
<1>9. QED BY <1>2, <1>3, <1>4, <1>5, <1>6, <1>7, <1>8 DEF Next

(* The invariant holds in every state. *)
LEMMA Invariance == Spec => []IInv
  BY InitHolds, NextStep, PTL DEF Spec

(* Every map entry has the type its readers expect, a SessionInfo names no *)
(* more PDRs than its array takes, and no XDP program indexes beyond it:   *)
(* for any rules an SMF may send and any number of CPUs.                   *)
THEOREM TypeCorrect == Spec => []TypeOK
<1>1. IInv => TypeOK
  BY DEF IInv
<1>2. QED BY <1>1, Invariance, PTL

(* A packet that no handler of its own UE disturbs gets the verdict of the *)
(* best matching rule of its session (select_far and downlink_get_far),    *)
(* whatever the handlers of other sessions write in the meantime.          *)
THEOREM Verdicts == Spec => []VerdictAsRuled
<1>1. IInv => VerdictAsRuled
  BY DEF IInv, PInv, Judged, Judgeable, VerdictAsRuled
<1>2. QED BY <1>1, Invariance, PTL

(* A downlink packet leaves through a tunnel its own session was given     *)
(* (RuleKey keeps the sessions' rules apart), even when the session is     *)
(* deleted and its UE address reused while the packet is under way.        *)
THEOREM NoMixing == Spec => []NoMixingOfSessions
<1>1. IInv => NoMixingOfSessions
  BY DEF IInv, PInv, NotMixed, NoMixingOfSessions
<1>2. QED BY <1>1, Invariance, PTL
=============================================================================
