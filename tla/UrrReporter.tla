----------------------------- MODULE UrrReporter -----------------------------
(***************************************************************************)
(* Usage reporting: the XDP program counts the volume of a URR in URR_MAP  *)
(* (urr_count), the reporter task (urr_reporter.rs) reads the counters     *)
(* once per second, judges them against the UrrConfigs under the server    *)
(* mutex and sends Session Report Requests.                                *)
(*                                                                         *)
(* A URR stands for a (SEID, URR ID) key together with the PDR that refers *)
(* to it.  What the reporter reads it uses later: the counters are copied  *)
(* before the server mutex is taken, and between the two a session may be  *)
(* established, modified or deleted.  The XDP program matches a PDR first  *)
(* and counts afterwards: in between the PDR and the counter may go away.  *)
(* Session Establishment holds the server mutex from its PDRs to its URRs, *)
(* Session Deletion cleans up without it (handle_msg.rs:666).              *)
(*                                                                         *)
(* Volume is counted in packets of one length, time in reporter seconds.   *)
(***************************************************************************)
EXTENDS Integers, FiniteSets

CONSTANTS
    Urrs,       \* (SEID, URR ID) keys
    Smfs,       \* SMF Node IDs
    OwnerOf,    \* [Urrs -> Smfs], the SMF that establishes the session
    Cpus,       \* XDP runs once per CPU at a time
    SettingsOf, \* [Urrs -> SUBSET Settings], what the SMF configures a URR with
    MaxVolume,  \* bound on the traffic of a URR
    MaxPeriod,  \* time since a report is not told apart beyond this
    SeqnMod,    \* 2^32 in the code: ur_seqn wraps
    None

REPORTING_TRIGGER_PERIO == 1
REPORTING_TRIGGER_VOLTH == 2

(* What Create URR and Update URR carry: the reporting_triggers octet, the *)
(* optional volume_threshold_total and measurement_period.                 *)
Octet == 0..255
Settings == [trig : Octet, threshold : Nat \cup {None}, period : 0..MaxPeriod \cup {None}]

UrrConfig == [trig : Octet, threshold : Nat \cup {None}, period : 0..MaxPeriod \cup {None},
              since : 0..MaxPeriod, reported : BOOLEAN, seqn : 0..SeqnMod - 1]

ASSUME UrrAssumption ==
    /\ OwnerOf \in [Urrs -> Smfs]
    /\ SettingsOf \in [Urrs -> SUBSET Settings]
    /\ MaxVolume \in Nat /\ MaxPeriod \in Nat /\ SeqnMod \in Nat \ {0}
    /\ None \notin Int /\ None \notin Smfs /\ None \notin Urrs
    /\ None \notin UrrConfig

Report == [urr : Urrs, to : Smfs, why : SUBSET {"VOLTH", "PERIO"}, vol : Nat, seqn : 0..SeqnMod - 1]

VARIABLES
    session,      \* by URR: how far its session is
    pdrs,         \* URRs whose PDR is in PDR_MAP
    volume,       \* URR_MAP, summed over the CPUs, None when there is no entry
    urr_configs,  \* PfcpServer::urr_configs
    peer_addr,    \* PfcpServer::peer_addr
    associated,   \* SMFs with an association
    xdp,          \* by CPU: the URR of the packet that has matched a PDR
    pc,           \* where the reporter task is
    totals,       \* the reporter's copy of URR_MAP
    to_send,      \* reports built and not yet sent
    charged,      \* history: volume of the packets charged to a URR
    last,         \* history: UR-SEQN of the last report, None before the first
    volths        \* history: VOLTH reports since the URR was last configured

traffic == <<pdrs, volume, xdp, charged>>
reporter == <<pc, totals, to_send, last, volths>>
vars == <<session, pdrs, volume, urr_configs, peer_addr, associated, xdp, pc,
          totals, to_send, charged, last, volths>>

TypeOK ==
    /\ session \in [Urrs -> {"unborn", "installing", "live", "deleting", "cleaning", "gone"}]
    /\ pdrs \subseteq Urrs
    /\ volume \in [Urrs -> Nat \cup {None}]
    /\ urr_configs \in [Urrs -> UrrConfig \cup {None}]
    /\ peer_addr \in Smfs \cup {None}
    /\ associated \subseteq Smfs
    /\ xdp \in [Cpus -> Urrs \cup {None}]
    /\ pc \in {"collect", "judge", "send"}
    /\ totals \in [Urrs -> Nat \cup {None}]
    /\ to_send \subseteq Report
    /\ charged \in [Urrs -> Nat]
    /\ last \in [Urrs -> 0..SeqnMod - 1 \cup {None}]
    /\ volths \in [Urrs -> Nat]

Init ==
    /\ session = [u \in Urrs |-> "unborn"]
    /\ pdrs = {}
    /\ volume = [u \in Urrs |-> None]
    /\ urr_configs = [u \in Urrs |-> None]
    /\ peer_addr = None
    /\ associated = {}
    /\ xdp = [c \in Cpus |-> None]
    /\ pc = "collect"
    /\ totals = [u \in Urrs |-> None]
    /\ to_send = {}
    /\ charged = [u \in Urrs |-> 0]
    /\ last = [u \in Urrs |-> None]
    /\ volths = [u \in Urrs |-> 0]

ServerUnlocked == \A u \in Urrs : session[u] # "installing"

-----------------------------------------------------------------------------
(* A new association becomes the peer of every report. *)
Associate(m) ==
    /\ ServerUnlocked
    /\ associated' = associated \cup {m}
    /\ peer_addr' = m
    /\ UNCHANGED <<session, urr_configs, traffic, reporter>>

(* Session Establishment: the PDRs first ... *)
InstallPdr(u) ==
    /\ ServerUnlocked
    /\ session[u] = "unborn"
    /\ OwnerOf[u] \in associated
    /\ session' = [session EXCEPT ![u] = "installing"]
    /\ pdrs' = pdrs \cup {u}
    /\ UNCHANGED <<volume, urr_configs, peer_addr, associated, xdp, charged, reporter>>

(* ... then the URRs, with the counter set to zero whatever the XDP        *)
(* program has counted since its PDR appeared.                             *)
InstallUrr(u, s) ==
    /\ session[u] = "installing"
    /\ session' = [session EXCEPT ![u] = "live"]
    /\ volume' = [volume EXCEPT ![u] = 0]
    /\ urr_configs' = [urr_configs EXCEPT ![u] =
                         [trig |-> s.trig, threshold |-> s.threshold, period |-> s.period,
                          since |-> 0, reported |-> FALSE, seqn |-> 0]]
    /\ UNCHANGED <<pdrs, peer_addr, associated, xdp, charged, reporter>>

\* Mutant: Update URR starts over with a new UrrConfig.
UpdateUrrAnew(u, s) ==
    /\ ServerUnlocked
    /\ session[u] = "live"
    /\ urr_configs' = [urr_configs EXCEPT ![u] =
                         [trig |-> s.trig, threshold |-> s.threshold, period |-> s.period,
                          since |-> 0, reported |-> FALSE, seqn |-> 0]]
    /\ volths' = [volths EXCEPT ![u] = 0]
    /\ UNCHANGED <<session, peer_addr, associated, traffic, pc, totals, to_send, last>>

(* Session Modification with an Update URR: the settings are replaced and  *)
(* the threshold armed again; counter, UR-SEQN and last_report stay.       *)
UpdateUrr(u, s) ==
    /\ ServerUnlocked
    /\ session[u] = "live"
    /\ urr_configs' = [urr_configs EXCEPT ![u] =
                         [@ EXCEPT !.trig = s.trig, !.threshold = s.threshold,
                                   !.period = s.period, !.reported = FALSE]]
    /\ volths' = [volths EXCEPT ![u] = 0]
    /\ UNCHANGED <<session, peer_addr, associated, traffic, pc, totals, to_send, last>>

(* Session Deletion: the session under the mutex, then, without it, the    *)
(* PDRs, then the URRs.  The UrrConfig stays.                              *)
DeleteSession(u) ==
    /\ ServerUnlocked
    /\ session[u] = "live"
    /\ session' = [session EXCEPT ![u] = "deleting"]
    /\ UNCHANGED <<urr_configs, peer_addr, associated, traffic, reporter>>

RemovePdr(u) ==
    /\ session[u] = "deleting"
    /\ session' = [session EXCEPT ![u] = "cleaning"]
    /\ pdrs' = pdrs \ {u}
    /\ UNCHANGED <<volume, urr_configs, peer_addr, associated, xdp, charged, reporter>>

RemoveUrr(u) ==
    /\ session[u] = "cleaning"
    /\ session' = [session EXCEPT ![u] = "gone"]
    /\ volume' = [volume EXCEPT ![u] = None]
    /\ UNCHANGED <<pdrs, urr_configs, peer_addr, associated, xdp, charged, reporter>>

-----------------------------------------------------------------------------
(* select_far picks a PDR with a URR. *)
XdpMatch(c, u) ==
    /\ xdp[c] = None
    /\ u \in pdrs
    /\ charged[u] + Cardinality({d \in Cpus : xdp[d] = u}) < MaxVolume
    /\ xdp' = [xdp EXCEPT ![c] = u]
    /\ UNCHANGED <<session, pdrs, volume, urr_configs, peer_addr, associated, charged, reporter>>

\* Mutant: the packet that creates the entry is counted twice.
UrrCountTwice(c) ==
    LET u == xdp[c] IN
    /\ u # None
    /\ volume' = [volume EXCEPT ![u] = IF @ = None THEN 2 ELSE @ + 1]
    /\ charged' = [charged EXCEPT ![u] = @ + 1]
    /\ xdp' = [xdp EXCEPT ![c] = None]
    /\ UNCHANGED <<session, pdrs, urr_configs, peer_addr, associated, reporter>>

(* urr_count: an entry that is not (or no longer) there is created. *)
UrrCount(c) ==
    LET u == xdp[c] IN
    /\ u # None
    /\ volume' = [volume EXCEPT ![u] = IF @ = None THEN 1 ELSE @ + 1]
    /\ charged' = [charged EXCEPT ![u] = @ + 1]
    /\ xdp' = [xdp EXCEPT ![c] = None]
    /\ UNCHANGED <<session, pdrs, urr_configs, peer_addr, associated, reporter>>

(* A second passes for every UrrConfig's last_report. *)
Elapse ==
    /\ \E u \in Urrs : urr_configs[u] # None /\ urr_configs[u].since < MaxPeriod
    /\ urr_configs' = [u \in Urrs |->
          IF urr_configs[u] # None /\ urr_configs[u].since < MaxPeriod
          THEN [urr_configs[u] EXCEPT !.since = @ + 1] ELSE urr_configs[u]]
    /\ UNCHANGED <<session, peer_addr, associated, traffic, reporter>>

-----------------------------------------------------------------------------
(* One round starts: the counters are copied, with only URR_MAP's lock. *)
Collect ==
    /\ pc = "collect"
    /\ totals' = volume
    /\ pc' = "judge"
    /\ UNCHANGED <<session, urr_configs, peer_addr, associated, traffic, to_send, last, volths>>

(* The u8 product of the code, not the conjunction of bits. *)
VolthEnabled(c) == (c.trig * REPORTING_TRIGGER_VOLTH) % 256 # 0
PerioEnabled(c) == c.trig % (2 * REPORTING_TRIGGER_PERIO) # 0

\* Mutant: the threshold has to be exceeded.
FiresBeyond(c, vol) ==
    {w \in {"VOLTH", "PERIO"} :
        \/ /\ w = "VOLTH" /\ VolthEnabled(c)
           /\ c.threshold # None /\ ~c.reported
           /\ vol > c.threshold
        \/ /\ w = "PERIO" /\ PerioEnabled(c)
           /\ c.period # None
           /\ c.since >= c.period}

(* The triggers that fire for a UrrConfig and a total volume. *)
Fires(c, vol) ==
    {w \in {"VOLTH", "PERIO"} :
        \/ /\ w = "VOLTH" /\ VolthEnabled(c)
           /\ c.threshold # None /\ ~c.reported
           /\ vol >= c.threshold
        \/ /\ w = "PERIO" /\ PerioEnabled(c)
           /\ c.period # None
           /\ c.since >= c.period}

Due(u) ==
    IF totals[u] = None \/ urr_configs[u] = None THEN {} ELSE Fires(urr_configs[u], totals[u])

\* Mutant: UR-SEQN grows beyond its field.
AfterReportNoWrap(c, why) ==
    [c EXCEPT !.reported = @ \/ "VOLTH" \in why,
              !.since = IF "PERIO" \in why THEN 0 ELSE @,
              !.seqn = @ + 1]

\* Mutant: threshold_reported is not set.
AfterReportRearmed(c, why) ==
    [c EXCEPT !.since = IF "PERIO" \in why THEN 0 ELSE @,
              !.seqn = (@ + 1) % SeqnMod]

\* Mutant: last_report is not set.
AfterReportStillDue(c, why) ==
    [c EXCEPT !.reported = @ \/ "VOLTH" \in why,
              !.seqn = (@ + 1) % SeqnMod]

(* The UrrConfig once a report has been built from it. *)
AfterReport(c, why) ==
    [c EXCEPT !.reported = @ \/ "VOLTH" \in why,
              !.since = IF "PERIO" \in why THEN 0 ELSE @,
              !.seqn = (@ + 1) % SeqnMod]

(* Under the server mutex: without a peer the round is over, otherwise     *)
(* every copied counter with a UrrConfig is judged.                        *)
Judge ==
    /\ pc = "judge"
    /\ ServerUnlocked
    /\ IF peer_addr = None
       THEN /\ pc' = "collect"
            /\ UNCHANGED <<urr_configs, to_send, last, volths>>
       ELSE /\ pc' = "send"
            /\ urr_configs' = [u \in Urrs |->
                  IF Due(u) = {} THEN urr_configs[u] ELSE AfterReport(urr_configs[u], Due(u))]
            /\ to_send' = {[urr |-> u, to |-> peer_addr, why |-> Due(u), vol |-> totals[u],
                            seqn |-> urr_configs[u].seqn] : u \in {v \in Urrs : Due(v) # {}}}
            /\ last' = [u \in Urrs |-> IF Due(u) = {} THEN last[u] ELSE urr_configs[u].seqn]
            /\ volths' = [u \in Urrs |-> IF "VOLTH" \in Due(u) THEN volths[u] + 1 ELSE volths[u]]
    /\ totals' = [u \in Urrs |-> None]
    /\ UNCHANGED <<session, peer_addr, associated, traffic>>

(* The reports leave one by one; UDP may lose them and nobody retries. *)
Send(r) ==
    /\ pc = "send"
    /\ r \in to_send
    /\ to_send' = to_send \ {r}
    /\ UNCHANGED <<session, urr_configs, peer_addr, associated, traffic, pc, totals, last, volths>>

Tick ==
    /\ pc = "send"
    /\ to_send = {}
    /\ pc' = "collect"
    /\ UNCHANGED <<session, urr_configs, peer_addr, associated, traffic, totals, to_send, last, volths>>

-----------------------------------------------------------------------------
ReporterStep == Collect \/ Judge \/ (\E r \in to_send : Send(r)) \/ Tick

Next ==
    \/ \E m \in Smfs : Associate(m)
    \/ \E u \in Urrs : InstallPdr(u) \/ DeleteSession(u) \/ RemovePdr(u) \/ RemoveUrr(u)
    \/ \E u \in Urrs : \E s \in SettingsOf[u] : InstallUrr(u, s) \/ UpdateUrr(u, s)
    \/ \E c \in Cpus : UrrCount(c) \/ \E u \in Urrs : XdpMatch(c, u)
    \/ Elapse
    \/ ReporterStep

(* The reporter's timer keeps firing, time passes, and a handler that has  *)
(* started ends.                                                           *)
Fairness ==
    /\ WF_vars(ReporterStep)
    /\ WF_vars(Elapse)
    /\ \A u \in Urrs : WF_vars(\E s \in SettingsOf[u] : InstallUrr(u, s))

Spec == Init /\ [][Next]_vars /\ Fairness

-----------------------------------------------------------------------------
Live(u) == session[u] = "live"

(* The UR-SEQNs an SMF sees for a URR count up by one from 0, across       *)
(* Update URR and through every report the UPF decides to send: a gap      *)
(* always means a lost report.                                             *)
ReportsNumbered ==
    [][\A u \in Urrs : (\E r \in to_send' \ to_send : r.urr = u) =>
        last'[u] = IF last[u] = None THEN 0 ELSE (last[u] + 1) % SeqnMod]_vars

(* A volume threshold is reported at most once per configuration, however  *)
(* far the volume goes beyond it and however often the reporter looks.     *)
ThresholdReportedOnce == \A u \in Urrs : volths[u] <= 1

(* No report charges a URR for more than the traffic that matched its own  *)
(* PDRs, although the counters are copied at one time, judged at another   *)
(* and taken away and re-created in between.                               *)
NeverOverbilled ==
    /\ \A u \in Urrs : totals[u] # None => totals[u] <= charged[u]
    /\ \A r \in to_send : r.vol <= charged[r.urr]

ThresholdCrossed(u) ==
    /\ Live(u) /\ peer_addr # None
    /\ (urr_configs[u].trig \div REPORTING_TRIGGER_VOLTH) % 2 = 1
    /\ urr_configs[u].threshold # None /\ volume[u] >= urr_configs[u].threshold

(* A crossed volume threshold is reported, unless the URR is reconfigured  *)
(* or its session deleted first.                                           *)
ThresholdEventuallyReported ==
    \A u \in Urrs : ThresholdCrossed(u) ~> ~ThresholdCrossed(u) \/ urr_configs[u].reported

PeriodOver(u) ==
    /\ Live(u) /\ peer_addr # None
    /\ PerioEnabled(urr_configs[u])
    /\ urr_configs[u].period \notin {None, 0} /\ urr_configs[u].since >= urr_configs[u].period

(* "PERIO (periodic): reported every measurement period": a period that is *)
(* over is reported and starts again.                                      *)
PeriodEventuallyReported ==
    \A u \in Urrs : PeriodOver(u) ~> ~PeriodOver(u)

(* The URRs of a session whose Deletion has been carried through fall      *)
(* silent: at some time the last report about them has been sent ("cleaned *)
(* up on Session Deletion").                                               *)
DeletedUrrFallsSilent ==
    \A u \in Urrs : session[u] = "gone" ~> [](\A r \in to_send : r.urr # u)
=============================================================================
