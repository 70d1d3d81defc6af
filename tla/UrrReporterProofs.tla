-------------------------- MODULE UrrReporterProofs --------------------------
(***************************************************************************)
(* What holds of UrrReporter for any number of URRs, SMFs and CPUs, any    *)
(* settings and any volume.                                                *)
(***************************************************************************)
EXTENDS UrrReporter, TLAPS

(* What is in URR_MAP was charged. *)
CounterCharged == \A u \in Urrs : volume[u] # None => volume[u] <= charged[u]

(* A UrrConfig appears with the URRs of its session's Establishment, and   *)
(* stays.                                                                  *)
ConfigFromEstablishment ==
    \A u \in Urrs : urr_configs[u] = None <=> session[u] \in {"unborn", "installing"}

(* Without a UrrConfig there has been no report; with one,                 *)
(* threshold_reported tells whether the threshold was reported since the   *)
(* URR was configured, and ur_seqn follows the last report.                *)
ConfigTellsHistory ==
    \A u \in Urrs :
        /\ urr_configs[u] = None => volths[u] = 0 /\ last[u] = None
        /\ urr_configs[u] # None =>
             /\ urr_configs[u].reported = FALSE => volths[u] = 0
             /\ urr_configs[u].seqn = IF last[u] = None THEN 0 ELSE (last[u] + 1) % SeqnMod

IInv ==
    /\ TypeOK
    /\ CounterCharged
    /\ NeverOverbilled
    /\ ConfigFromEstablishment
    /\ ConfigTellsHistory
    /\ ThresholdReportedOnce

-----------------------------------------------------------------------------
(* Create URR makes a UrrConfig that has never been reported (handle_msg.rs). *)
LEMMA NewConfig ==
    ASSUME NEW u \in Urrs, NEW s \in SettingsOf[u]
    PROVE  LET c == [trig |-> s.trig, threshold |-> s.threshold, period |-> s.period,
                     since |-> 0, reported |-> FALSE, seqn |-> 0] IN
           c \in UrrConfig /\ c # None /\ c.reported = FALSE /\ c.seqn = 0
  <1> DEFINE c == [trig |-> s.trig, threshold |-> s.threshold, period |-> s.period,
                   since |-> 0, reported |-> FALSE, seqn |-> 0]
  <1>1. s \in Settings
    BY UrrAssumption
  <1>2. 0 \in 0..MaxPeriod /\ 0 \in 0..SeqnMod - 1
    BY UrrAssumption
  <1>3. c \in UrrConfig
    BY <1>1, <1>2 DEF Settings, UrrConfig
  <1>4. QED BY <1>3, UrrAssumption

(* Update URR replaces the settings and arms the threshold; ur_seqn stays. *)
LEMMA UpdatedConfig ==
    ASSUME NEW u \in Urrs, NEW s \in SettingsOf[u], NEW c \in UrrConfig
    PROVE  LET d == [c EXCEPT !.trig = s.trig, !.threshold = s.threshold,
                              !.period = s.period, !.reported = FALSE] IN
           d \in UrrConfig /\ d # None /\ d.reported = FALSE /\ d.seqn = c.seqn
  <1>1. s \in Settings
    BY UrrAssumption
  <1>2. QED BY <1>1, UrrAssumption DEF Settings, UrrConfig

(* A report counts ur_seqn up, modulo its width, and a VOLTH report sets   *)
(* threshold_reported (urr_reporter.rs).                                   *)
LEMMA ReportedConfig ==
    ASSUME NEW c \in UrrConfig, NEW why \in SUBSET {"VOLTH", "PERIO"}
    PROVE  LET d == AfterReport(c, why) IN
           /\ d \in UrrConfig /\ d # None
           /\ d.seqn = (c.seqn + 1) % SeqnMod
           /\ d.reported = FALSE => c.reported = FALSE /\ "VOLTH" \notin why
  <1> DEFINE reported == c.reported \/ "VOLTH" \in why
             since == IF "PERIO" \in why THEN 0 ELSE c.since
             seqn == (c.seqn + 1) % SeqnMod
  <1>1. c.reported \in BOOLEAN /\ c.since \in 0..MaxPeriod /\ c.seqn \in 0..SeqnMod - 1
    BY DEF UrrConfig
  <1>2. reported \in BOOLEAN /\ (reported = FALSE => c.reported = FALSE /\ "VOLTH" \notin why)
    BY <1>1
  <1>3. since \in 0..MaxPeriod
    BY <1>1, UrrAssumption
  <1>4. seqn \in 0..SeqnMod - 1
    BY <1>1, UrrAssumption
  <1>5. AfterReport(c, why) = [c EXCEPT !.reported = reported, !.since = since, !.seqn = seqn]
    BY DEF AfterReport
  <1> HIDE DEF reported, since, seqn
  <1>6. LET d == [c EXCEPT !.reported = reported, !.since = since, !.seqn = seqn] IN
        d \in UrrConfig /\ d.seqn = seqn /\ d.reported = reported
    BY <1>2, <1>3, <1>4 DEF UrrConfig
  <1>7. QED BY <1>2, <1>5, <1>6, UrrAssumption DEF seqn

(* A trigger fires only for a counter that was read and a UrrConfig, and   *)
(* the threshold only while it is armed.                                   *)
LEMMA DueFacts ==
    ASSUME TypeOK, NEW u \in Urrs
    PROVE  /\ Due(u) \in SUBSET {"VOLTH", "PERIO"}
           /\ Due(u) # {} => /\ totals[u] \in Nat /\ totals[u] # None
                             /\ urr_configs[u] \in UrrConfig /\ urr_configs[u] # None
           /\ "VOLTH" \in Due(u) => urr_configs[u].reported = FALSE
  <1>1. ASSUME NEW c \in UrrConfig, NEW vol
        PROVE  /\ Fires(c, vol) \in SUBSET {"VOLTH", "PERIO"}
               /\ "VOLTH" \in Fires(c, vol) => c.reported = FALSE
    BY DEF Fires, UrrConfig
  <1>2. CASE totals[u] = None \/ urr_configs[u] = None
    BY <1>2 DEF Due
  <1>3. CASE totals[u] # None /\ urr_configs[u] # None
    BY <1>1, <1>3 DEF Due, TypeOK
  <1>4. QED BY <1>2, <1>3

-----------------------------------------------------------------------------
(* The types are kept by every step. *)
LEMMA TypeStep == TypeOK /\ ConfigFromEstablishment /\ [Next]_vars => TypeOK'
  <1> SUFFICES ASSUME TypeOK, ConfigFromEstablishment, [Next]_vars PROVE TypeOK'
    OBVIOUS
  <1> USE DEF TypeOK
  <1>1. ASSUME NEW m \in Smfs, Associate(m) PROVE TypeOK'
    BY <1>1 DEF Associate, traffic, reporter
  <1>2. ASSUME NEW u \in Urrs, InstallPdr(u) PROVE TypeOK'
    BY <1>2 DEF InstallPdr, reporter
  <1>3. ASSUME NEW u \in Urrs, DeleteSession(u) PROVE TypeOK'
    BY <1>3 DEF DeleteSession, traffic, reporter
  <1>4. ASSUME NEW u \in Urrs, RemovePdr(u) PROVE TypeOK'
    BY <1>4 DEF RemovePdr, reporter
  <1>5. ASSUME NEW u \in Urrs, RemoveUrr(u) PROVE TypeOK'
    BY <1>5 DEF RemoveUrr, reporter
  <1>6. ASSUME NEW u \in Urrs, NEW s \in SettingsOf[u], InstallUrr(u, s) PROVE TypeOK'
    BY <1>6, NewConfig DEF InstallUrr, reporter
  <1>7. ASSUME NEW u \in Urrs, NEW s \in SettingsOf[u], UpdateUrr(u, s) PROVE TypeOK'
    <2>1. urr_configs[u] \in UrrConfig
      BY <1>7 DEF UpdateUrr, ConfigFromEstablishment
    <2>2. urr_configs' \in [Urrs -> UrrConfig \cup {None}]
      BY <1>7, <2>1, UpdatedConfig DEF UpdateUrr
    <2>3. volths' \in [Urrs -> Nat]
      BY <1>7 DEF UpdateUrr
    <2>4. QED BY <1>7, <2>2, <2>3 DEF UpdateUrr, traffic
  <1>8. ASSUME NEW c \in Cpus, UrrCount(c) PROVE TypeOK'
    <2>1. xdp[c] \in Urrs
      BY <1>8 DEF UrrCount
    <2>2. volume' \in [Urrs -> Nat \cup {None}] /\ charged' \in [Urrs -> Nat]
      BY <1>8, <2>1, UrrAssumption DEF UrrCount
    <2>3. QED BY <1>8, <2>2 DEF UrrCount, reporter
  <1>9. ASSUME NEW c \in Cpus, NEW u \in Urrs, XdpMatch(c, u) PROVE TypeOK'
    BY <1>9 DEF XdpMatch, reporter
  <1>10. ASSUME Elapse PROVE TypeOK'
    <2>1. ASSUME NEW u \in Urrs PROVE urr_configs'[u] \in UrrConfig \cup {None}
      <3>1. CASE urr_configs[u] # None /\ urr_configs[u].since < MaxPeriod
        <4>1. urr_configs[u] \in UrrConfig /\ urr_configs[u].since + 1 \in 0..MaxPeriod
          BY <3>1, UrrAssumption DEF UrrConfig
        <4>2. urr_configs'[u] = [urr_configs[u] EXCEPT !.since = urr_configs[u].since + 1]
          BY <1>10, <3>1 DEF Elapse
        <4>3. QED BY <4>1, <4>2 DEF UrrConfig
      <3>2. CASE ~(urr_configs[u] # None /\ urr_configs[u].since < MaxPeriod)
        BY <1>10, <3>2 DEF Elapse
      <3>3. QED BY <3>1, <3>2
    <2>2. urr_configs' \in [Urrs -> UrrConfig \cup {None}]
      BY <1>10, <2>1 DEF Elapse
    <2>3. QED BY <1>10, <2>2 DEF Elapse, traffic, reporter
  <1>11. ASSUME Collect PROVE TypeOK'
    BY <1>11 DEF Collect, traffic
  <1>12. ASSUME Judge PROVE TypeOK'
    <2>1. CASE peer_addr = None
      BY <1>12, <2>1 DEF Judge, traffic
    <2>2. CASE peer_addr # None
      <3>1. ASSUME NEW u \in Urrs PROVE urr_configs'[u] \in UrrConfig \cup {None}
        <4>1. CASE Due(u) = {}
          BY <1>12, <2>2, <4>1 DEF Judge
        <4>2. CASE Due(u) # {}
          <5>1. Due(u) \in SUBSET {"VOLTH", "PERIO"} /\ urr_configs[u] \in UrrConfig
            BY <4>2, DueFacts
          <5>2. AfterReport(urr_configs[u], Due(u)) \in UrrConfig
            BY <5>1, ReportedConfig
          <5>3. QED BY <1>12, <2>2, <4>2, <5>2 DEF Judge
        <4>3. QED BY <4>1, <4>2
      <3>2. urr_configs' \in [Urrs -> UrrConfig \cup {None}]
        BY <1>12, <2>2, <3>1 DEF Judge
      <3>3. ASSUME NEW u \in Urrs, Due(u) # {}
            PROVE  [urr |-> u, to |-> peer_addr, why |-> Due(u), vol |-> totals[u],
                    seqn |-> urr_configs[u].seqn] \in Report
        BY <2>2, <3>3, DueFacts DEF Report, UrrConfig
      <3>4. to_send' \subseteq Report
        BY <1>12, <2>2, <3>3 DEF Judge
      <3>5. last' \in [Urrs -> 0..SeqnMod - 1 \cup {None}]
        BY <1>12, <2>2, DueFacts DEF Judge, UrrConfig
      <3>6. volths' \in [Urrs -> Nat]
        BY <1>12, <2>2 DEF Judge
      <3>7. QED BY <1>12, <2>2, <3>2, <3>4, <3>5, <3>6 DEF Judge, traffic
    <2>3. QED BY <2>1, <2>2
  <1>13. ASSUME NEW r \in to_send, Send(r) PROVE TypeOK'
    BY <1>13 DEF Send, traffic
  <1>14. ASSUME Tick PROVE TypeOK'
    BY <1>14 DEF Tick, traffic
  <1>15. ASSUME UNCHANGED vars PROVE TypeOK'
    BY <1>15 DEF vars
  <1>16. QED
    BY <1>1, <1>2, <1>3, <1>4, <1>5, <1>6, <1>7, <1>8, <1>9, <1>10, <1>11, <1>12,
       <1>13, <1>14, <1>15 DEF Next, ReporterStep

-----------------------------------------------------------------------------
(* Steps that leave the counters, the UrrConfigs and the reporter alone    *)
(* keep the invariant.                                                     *)
LEMMA QuietStep ==
    ASSUME IInv, TypeOK',
           UNCHANGED <<volume, urr_configs, charged, totals, to_send, last, volths>>,
           \A u \in Urrs : session'[u] \in {"unborn", "installing"} <=>
                              session[u] \in {"unborn", "installing"}
    PROVE  IInv'
  BY DEF IInv, CounterCharged, NeverOverbilled, ConfigFromEstablishment, ConfigTellsHistory,
         ThresholdReportedOnce

(* Create URR: the session is new, and so is its UrrConfig; whatever the   *)
(* XDP program has counted before is forgotten.                            *)
LEMMA InstallUrrStep ==
    ASSUME IInv, TypeOK', NEW u \in Urrs, NEW s \in SettingsOf[u], InstallUrr(u, s)
    PROVE  IInv'
  <1> USE DEF IInv
  <1>1. session[u] = "installing" /\ session'[u] = "live"
    BY DEF InstallUrr, TypeOK
  <1>2. \A v \in Urrs : v # u => /\ session'[v] = session[v] /\ volume'[v] = volume[v]
                                 /\ urr_configs'[v] = urr_configs[v]
    BY DEF InstallUrr, TypeOK
  <1>3. volume'[u] = 0 /\ charged[u] \in Nat
    BY DEF InstallUrr, TypeOK
  <1>4. urr_configs'[u] # None /\ urr_configs'[u].reported = FALSE /\ urr_configs'[u].seqn = 0
    BY NewConfig DEF InstallUrr, TypeOK
  <1>5. volths[u] = 0 /\ last[u] = None
    BY <1>1 DEF ConfigFromEstablishment, ConfigTellsHistory
  <1>6. UNCHANGED <<charged, totals, to_send, last, volths>>
    BY DEF InstallUrr, reporter
  <1>7. CounterCharged'
    BY <1>2, <1>3, <1>6 DEF CounterCharged
  <1>8. NeverOverbilled' /\ ThresholdReportedOnce'
    BY <1>6 DEF NeverOverbilled, ThresholdReportedOnce
  <1>9. ConfigFromEstablishment'
    BY <1>1, <1>2, <1>4 DEF ConfigFromEstablishment
  <1>10. ConfigTellsHistory'
    BY <1>2, <1>4, <1>5, <1>6 DEF ConfigTellsHistory
  <1>11. QED BY <1>7, <1>8, <1>9, <1>10

(* Update URR arms the threshold, and its reports are counted from here.   *)
LEMMA UpdateUrrStep ==
    ASSUME IInv, TypeOK', NEW u \in Urrs, NEW s \in SettingsOf[u], UpdateUrr(u, s)
    PROVE  IInv'
  <1> USE DEF IInv
  <1>1. urr_configs[u] \in UrrConfig /\ urr_configs[u] # None
    BY DEF UpdateUrr, ConfigFromEstablishment, TypeOK
  <1>2. /\ urr_configs'[u] # None /\ urr_configs'[u].reported = FALSE
        /\ urr_configs'[u].seqn = urr_configs[u].seqn
    <2>1. urr_configs'[u] = [urr_configs[u] EXCEPT !.trig = s.trig, !.threshold = s.threshold,
                                                   !.period = s.period, !.reported = FALSE]
      BY DEF UpdateUrr, TypeOK
    <2>2. QED BY <1>1, <2>1, UpdatedConfig
  <1>3. \A v \in Urrs : v # u => urr_configs'[v] = urr_configs[v] /\ volths'[v] = volths[v]
    BY DEF UpdateUrr, TypeOK
  <1>4. volths'[u] = 0
    BY DEF UpdateUrr, TypeOK
  <1>5. UNCHANGED <<session, volume, charged, totals, to_send, last>>
    BY DEF UpdateUrr, traffic
  <1>6. CounterCharged' /\ NeverOverbilled'
    BY <1>5 DEF CounterCharged, NeverOverbilled
  <1>7. ConfigFromEstablishment'
    BY <1>1, <1>2, <1>3, <1>5 DEF ConfigFromEstablishment
  <1>8. ConfigTellsHistory'
    <2>1. urr_configs'[u].seqn = IF last[u] = None THEN 0 ELSE (last[u] + 1) % SeqnMod
      BY <1>1, <1>2 DEF ConfigTellsHistory
    <2>2. QED BY <1>2, <1>3, <1>4, <1>5, <2>1 DEF ConfigTellsHistory
  <1>9. ThresholdReportedOnce'
    BY <1>3, <1>4 DEF ThresholdReportedOnce
  <1>10. QED BY <1>6, <1>7, <1>8, <1>9

(* The counter of a URR goes away, or is created or counted up by one      *)
(* packet that is charged at the same time (urr_count).                    *)
LEMMA CounterStep ==
    ASSUME IInv, TypeOK',
           UNCHANGED <<urr_configs, totals, to_send, last, volths>>,
           \A u \in Urrs : session'[u] \in {"unborn", "installing"} <=>
                              session[u] \in {"unborn", "installing"},
           \A u \in Urrs : charged[u] <= charged'[u],
           CounterCharged'
    PROVE  IInv'
  <1> USE DEF IInv
  <1>1. NeverOverbilled'
    <2>1. ASSUME NEW u \in Urrs, totals[u] # None PROVE totals[u] <= charged'[u]
      <3>1. totals[u] \in Nat /\ charged[u] \in Nat /\ charged'[u] \in Nat
        BY <2>1 DEF TypeOK
      <3>2. totals[u] <= charged[u]
        BY <2>1 DEF NeverOverbilled
      <3>3. QED BY <3>1, <3>2
    <2>2. ASSUME NEW r \in to_send PROVE r.vol <= charged'[r.urr]
      <3>1. r.urr \in Urrs /\ r.vol \in Nat
        BY DEF TypeOK, Report
      <3>2. charged[r.urr] \in Nat /\ charged'[r.urr] \in Nat
        BY <3>1 DEF TypeOK
      <3>3. r.vol <= charged[r.urr]
        BY DEF NeverOverbilled
      <3>4. QED BY <3>1, <3>2, <3>3
    <2>3. QED BY <2>1, <2>2 DEF NeverOverbilled
  <1>2. ConfigFromEstablishment' /\ ConfigTellsHistory' /\ ThresholdReportedOnce'
    BY DEF ConfigFromEstablishment, ConfigTellsHistory, ThresholdReportedOnce
  <1>3. QED BY <1>1, <1>2

(* urr_count adds to a counter, or makes it, what is charged in the same   *)
(* step.                                                                   *)
LEMMA UrrCountStep ==
    ASSUME IInv, TypeOK', NEW c \in Cpus, UrrCount(c)
    PROVE  IInv'
  <1> DEFINE u == xdp[c]
  <1> USE DEF IInv
  <1>1. u \in Urrs
    BY DEF UrrCount, TypeOK
  <1>2. /\ \A v \in Urrs : v # u => volume'[v] = volume[v] /\ charged'[v] = charged[v]
        /\ charged'[u] = charged[u] + 1
        /\ volume'[u] = IF volume[u] = None THEN 1 ELSE volume[u] + 1
    BY <1>1 DEF UrrCount, TypeOK
  <1>3. charged \in [Urrs -> Nat] /\ volume \in [Urrs -> Nat \cup {None}]
    BY DEF TypeOK
  <1>4. \A v \in Urrs : charged[v] <= charged'[v]
    BY <1>2, <1>3
  <1>5. CounterCharged'
    BY <1>1, <1>2, <1>3, UrrAssumption DEF CounterCharged
  <1>6. QED BY <1>4, <1>5, CounterStep DEF UrrCount, reporter

(* Deletion removes a counter; the volume it had stays charged. *)
LEMMA RemoveUrrStep ==
    ASSUME IInv, TypeOK', NEW u \in Urrs, RemoveUrr(u)
    PROVE  IInv'
  <1> USE DEF IInv
  <1>1. CounterCharged'
    BY DEF CounterCharged, RemoveUrr, TypeOK
  <1>2. \A v \in Urrs : charged[v] <= charged'[v]
    BY DEF RemoveUrr, TypeOK
  <1>3. QED BY <1>1, <1>2, CounterStep DEF RemoveUrr, reporter, TypeOK

(* A second passes: nothing but the time since the last report changes.    *)
LEMMA ElapseStep ==
    ASSUME IInv, TypeOK', Elapse
    PROVE  IInv'
  <1> USE DEF IInv
  <1>1. ASSUME NEW u \in Urrs
        PROVE  /\ urr_configs'[u] = None <=> urr_configs[u] = None
               /\ urr_configs[u] # None => /\ urr_configs'[u].reported = urr_configs[u].reported
                                           /\ urr_configs'[u].seqn = urr_configs[u].seqn
    <2>1. CASE urr_configs[u] # None /\ urr_configs[u].since < MaxPeriod
      <3>1. urr_configs[u] \in UrrConfig /\ urr_configs'[u] \in UrrConfig \cup {None}
        BY <2>1 DEF TypeOK
      <3>2. urr_configs'[u] = [urr_configs[u] EXCEPT !.since = urr_configs[u].since + 1]
        BY <2>1 DEF Elapse
      <3>3. LET d == [urr_configs[u] EXCEPT !.since = urr_configs[u].since + 1] IN
            /\ d.reported = urr_configs[u].reported /\ d.seqn = urr_configs[u].seqn
            /\ d.trig = urr_configs[u].trig /\ DOMAIN d = DOMAIN urr_configs[u]
        BY <3>1 DEF UrrConfig
      <3>4. urr_configs[u].since + 1 \in 0..MaxPeriod
        BY <2>1, <3>1, UrrAssumption DEF UrrConfig
      <3>5. [urr_configs[u] EXCEPT !.since = urr_configs[u].since + 1] \in UrrConfig
        BY <3>1, <3>4 DEF UrrConfig
      <3>6. QED BY <2>1, <3>2, <3>3, <3>5, UrrAssumption
    <2>2. CASE ~(urr_configs[u] # None /\ urr_configs[u].since < MaxPeriod)
      BY <2>2 DEF Elapse
    <2>3. QED BY <2>1, <2>2
  <1>2. UNCHANGED <<session, volume, charged, totals, to_send, last, volths>>
    BY DEF Elapse, traffic, reporter
  <1>3. CounterCharged' /\ NeverOverbilled' /\ ThresholdReportedOnce'
    BY <1>2 DEF CounterCharged, NeverOverbilled, ThresholdReportedOnce
  <1>4. ConfigFromEstablishment'
    BY <1>1, <1>2 DEF ConfigFromEstablishment
  <1>5. ConfigTellsHistory'
    BY <1>1, <1>2 DEF ConfigTellsHistory
  <1>6. QED BY <1>3, <1>4, <1>5

(* The reporter copies the counters.                                       *)
LEMMA CollectStep ==
    ASSUME IInv, TypeOK', Collect
    PROVE  IInv'
  <1> USE DEF IInv
  <1>1. totals' = volume
    BY DEF Collect
  <1>2. UNCHANGED <<session, volume, urr_configs, charged, to_send, last, volths>>
    BY DEF Collect, traffic
  <1>3. NeverOverbilled'
    BY <1>1, <1>2 DEF NeverOverbilled, CounterCharged
  <1>4. CounterCharged' /\ ConfigFromEstablishment' /\ ConfigTellsHistory' /\ ThresholdReportedOnce'
    BY <1>2 DEF CounterCharged, ConfigFromEstablishment, ConfigTellsHistory, ThresholdReportedOnce
  <1>5. QED BY <1>3, <1>4

(* What judging does to one URR: its UrrConfig and its history, when one   *)
(* of its triggers fires.                                                  *)
Judged(u) ==
    /\ Due(u) = {} => /\ urr_configs'[u] = urr_configs[u] /\ last'[u] = last[u]
                      /\ volths'[u] = volths[u]
    /\ Due(u) # {} => /\ urr_configs[u] # None /\ urr_configs'[u] # None
                      /\ last'[u] = urr_configs[u].seqn /\ last'[u] # None
                      /\ urr_configs'[u].seqn = (urr_configs[u].seqn + 1) % SeqnMod
                      /\ urr_configs'[u].reported = FALSE =>
                            urr_configs[u].reported = FALSE /\ "VOLTH" \notin Due(u)
                      /\ "VOLTH" \in Due(u) => urr_configs[u].reported = FALSE
    /\ volths'[u] = IF "VOLTH" \in Due(u) THEN volths[u] + 1 ELSE volths[u]

(* The judging of urr_reporter.rs, for each URR. *)
LEMMA JudgeEffect ==
    ASSUME IInv, Judge, peer_addr # None, NEW u \in Urrs
    PROVE  Judged(u)
  <1> USE DEF IInv
  <1>1. CASE Due(u) = {}
    BY <1>1 DEF Judge, Judged
  <1>2. CASE Due(u) # {}
    <2>1. Due(u) \in SUBSET {"VOLTH", "PERIO"} /\ urr_configs[u] \in UrrConfig /\ urr_configs[u] # None
      BY <1>2, DueFacts
    <2>2. /\ urr_configs'[u] = AfterReport(urr_configs[u], Due(u))
          /\ last'[u] = urr_configs[u].seqn
          /\ volths'[u] = IF "VOLTH" \in Due(u) THEN volths[u] + 1 ELSE volths[u]
      BY <1>2 DEF Judge
    <2>3. urr_configs[u].seqn # None
      BY <2>1, UrrAssumption DEF UrrConfig
    <2>4. "VOLTH" \in Due(u) => urr_configs[u].reported = FALSE
      BY DueFacts
    <2>5. /\ AfterReport(urr_configs[u], Due(u)) # None
          /\ AfterReport(urr_configs[u], Due(u)).seqn = (urr_configs[u].seqn + 1) % SeqnMod
          /\ AfterReport(urr_configs[u], Due(u)).reported = FALSE =>
                urr_configs[u].reported = FALSE /\ "VOLTH" \notin Due(u)
      BY <2>1, ReportedConfig
    <2>6. QED BY <1>2, <2>1, <2>2, <2>3, <2>4, <2>5 DEF Judged
  <1>3. QED BY <1>1, <1>2

(* The reporter judges the counters: it reports the copy, an armed         *)
(* threshold is reported and disarmed, and every report takes ur_seqn on.  *)
LEMMA JudgeStep ==
    ASSUME IInv, TypeOK', Judge
    PROVE  IInv'
  <1>0. \A u \in Urrs : peer_addr # None => Judged(u)
    BY JudgeEffect
  <1> USE DEF IInv
  <1>1. UNCHANGED <<session, volume, charged>> /\ \A u \in Urrs : totals'[u] = None
    BY DEF Judge, traffic
  <1>2. CASE peer_addr = None
    <2>1. UNCHANGED <<urr_configs, to_send, last, volths>>
      BY <1>2 DEF Judge
    <2>2. NeverOverbilled'
      BY <1>1, <2>1 DEF NeverOverbilled
    <2>3. CounterCharged' /\ ConfigFromEstablishment' /\ ConfigTellsHistory' /\ ThresholdReportedOnce'
      BY <1>1, <2>1 DEF CounterCharged, ConfigFromEstablishment, ConfigTellsHistory, ThresholdReportedOnce
    <2>4. QED BY <2>2, <2>3
  <1>3. CASE peer_addr # None
    <2>1. NeverOverbilled'
      <3>1. ASSUME NEW r \in to_send' PROVE r.vol <= charged[r.urr]
        <4>1. PICK u \in Urrs : /\ Due(u) # {} /\ r.urr = u /\ r.vol = totals[u]
          BY <1>3, <3>1 DEF Judge
        <4>2. totals[u] # None
          BY <4>1, DueFacts
        <4>3. QED BY <4>1, <4>2 DEF NeverOverbilled
      <3>2. QED BY <1>1, <3>1 DEF NeverOverbilled
    <2>2. CounterCharged'
      BY <1>1 DEF CounterCharged
    <2>3. ConfigFromEstablishment'
      BY <1>0, <1>1, <1>3 DEF ConfigFromEstablishment, Judged
    <2>4. ASSUME NEW u \in Urrs, Due(u) # {}
          PROVE  urr_configs'[u].reported = FALSE => volths'[u] = 0
      BY <1>0, <1>3, <2>4 DEF ConfigTellsHistory, Judged
    <2>5. ASSUME NEW u \in Urrs, Due(u) # {}
          PROVE  urr_configs'[u].seqn = IF last'[u] = None THEN 0 ELSE (last'[u] + 1) % SeqnMod
      BY <1>0, <1>3, <2>5 DEF Judged
    <2>6. ConfigTellsHistory'
      <3> SUFFICES ASSUME NEW u \in Urrs
                   PROVE  /\ urr_configs'[u] = None => volths'[u] = 0 /\ last'[u] = None
                          /\ urr_configs'[u] # None =>
                               /\ urr_configs'[u].reported = FALSE => volths'[u] = 0
                               /\ urr_configs'[u].seqn =
                                    IF last'[u] = None THEN 0 ELSE (last'[u] + 1) % SeqnMod
        BY DEF ConfigTellsHistory
      <3>1. CASE Due(u) = {}
        BY <1>0, <1>3, <3>1 DEF ConfigTellsHistory, Judged
      <3>2. CASE Due(u) # {}
        BY <1>0, <1>3, <2>4, <2>5, <3>2 DEF Judged
      <3>3. QED BY <3>1, <3>2
    <2>7. ThresholdReportedOnce'
      <3> SUFFICES ASSUME NEW u \in Urrs PROVE volths'[u] <= 1
        BY DEF ThresholdReportedOnce
      <3>1. CASE "VOLTH" \in Due(u)
        BY <1>0, <1>3, <3>1 DEF ConfigTellsHistory, Judged
      <3>2. CASE "VOLTH" \notin Due(u)
        BY <1>0, <1>3, <3>2 DEF ThresholdReportedOnce, Judged
      <3>3. QED BY <3>1, <3>2
    <2>8. QED BY <2>1, <2>2, <2>3, <2>6, <2>7
  <1>4. QED BY <1>2, <1>3

(* A report leaves. *)
LEMMA SendStep ==
    ASSUME IInv, TypeOK', NEW r \in to_send, Send(r)
    PROVE  IInv'
  <1> USE DEF IInv
  <1>1. UNCHANGED <<session, volume, urr_configs, charged, totals, last, volths>>
    BY DEF Send, traffic
  <1>2. NeverOverbilled'
    BY <1>1 DEF NeverOverbilled, Send
  <1>3. CounterCharged' /\ ConfigFromEstablishment' /\ ConfigTellsHistory' /\ ThresholdReportedOnce'
    BY <1>1 DEF CounterCharged, ConfigFromEstablishment, ConfigTellsHistory, ThresholdReportedOnce
  <1>4. QED BY <1>2, <1>3

(* The start: nothing counted, nothing configured, nothing reported.       *)
LEMMA InitIInv == Init => IInv
  <1> SUFFICES ASSUME Init PROVE IInv
    OBVIOUS
  <1>1. TypeOK
    BY DEF Init, TypeOK
  <1>2. CounterCharged /\ NeverOverbilled
    BY DEF Init, CounterCharged, NeverOverbilled
  <1>3. ConfigFromEstablishment /\ ConfigTellsHistory /\ ThresholdReportedOnce
    BY DEF Init, ConfigFromEstablishment, ConfigTellsHistory, ThresholdReportedOnce
  <1>4. QED BY <1>1, <1>2, <1>3 DEF IInv

(* Every step of the handlers, of the XDP program and of the reporter      *)
(* keeps the invariant.                                                    *)
LEMMA StepIInv == IInv /\ [Next]_vars => IInv'
  <1> SUFFICES ASSUME IInv, [Next]_vars PROVE IInv'
    OBVIOUS
  <1>1. TypeOK'
    BY TypeStep DEF IInv
  <1>2. TypeOK
    BY DEF IInv
  <1>3. ASSUME NEW m \in Smfs, Associate(m) PROVE IInv'
    BY <1>1, <1>3, QuietStep DEF Associate, traffic, reporter
  <1>4. ASSUME NEW u \in Urrs, InstallPdr(u) PROVE IInv'
    BY <1>1, <1>2, <1>4, QuietStep DEF InstallPdr, reporter, TypeOK
  <1>5. ASSUME NEW u \in Urrs, DeleteSession(u) PROVE IInv'
    BY <1>1, <1>2, <1>5, QuietStep DEF DeleteSession, traffic, reporter, TypeOK
  <1>6. ASSUME NEW u \in Urrs, RemovePdr(u) PROVE IInv'
    BY <1>1, <1>2, <1>6, QuietStep DEF RemovePdr, reporter, TypeOK
  <1>7. ASSUME NEW c \in Cpus, NEW u \in Urrs, XdpMatch(c, u) PROVE IInv'
    BY <1>1, <1>7, QuietStep DEF XdpMatch, reporter
  <1>8. ASSUME Tick PROVE IInv'
    BY <1>1, <1>8, QuietStep DEF Tick, traffic
  <1>9. ASSUME UNCHANGED vars PROVE IInv'
    BY <1>1, <1>9, QuietStep DEF vars
  <1>10. QED
    BY <1>1, <1>3, <1>4, <1>5, <1>6, <1>7, <1>8, <1>9, RemoveUrrStep, InstallUrrStep,
       UpdateUrrStep, UrrCountStep, ElapseStep, CollectStep, JudgeStep, SendStep
       DEF Next, ReporterStep

(* The invariant holds in every state. *)
LEMMA Invariance == Spec => []IInv
  <1>1. QED BY InitIInv, StepIInv, PTL DEF Spec

(* Only judging puts reports on the list, and each carries the ur_seqn its *)
(* UrrConfig had.                                                          *)
LEMMA NumberedStep ==
    ASSUME IInv, [Next]_vars, NEW u \in Urrs, NEW r \in to_send', r \notin to_send, r.urr = u
    PROVE  last'[u] = IF last[u] = None THEN 0 ELSE (last[u] + 1) % SeqnMod
  <1>1. Judge /\ peer_addr # None
    BY DEF Next, ReporterStep, vars, traffic, reporter, Associate, InstallPdr, InstallUrr,
       UpdateUrr, DeleteSession, RemovePdr, RemoveUrr, XdpMatch, UrrCount, Elapse, Collect,
       Judge, Send, Tick
  <1>2. Due(u) # {}
    BY <1>1 DEF Judge
  <1>3. last'[u] = urr_configs[u].seqn /\ urr_configs[u] # None
    BY <1>1, <1>2, JudgeEffect DEF Judged
  <1>4. QED BY <1>3 DEF IInv, ConfigTellsHistory

-----------------------------------------------------------------------------
(* The counters, configurations and reports have their types; UR-SEQN      *)
(* stays within its width (urr_reporter.rs).                               *)
THEOREM TypeCorrect == Spec => []TypeOK
  <1>1. IInv => TypeOK
    BY DEF IInv
  <1>2. QED BY <1>1, Invariance, PTL

(* Whatever happens between the copying of the counters and the report, no *)
(* report is about more volume than the XDP program charged to the URR.    *)
THEOREM NoOverbilling == Spec => []NeverOverbilled
  <1>1. IInv => NeverOverbilled
    BY DEF IInv
  <1>2. QED BY <1>1, Invariance, PTL

(* threshold_reported does its work: one VOLTH report per configuration.   *)
THEOREM ThresholdOnce == Spec => []ThresholdReportedOnce
  <1>1. IInv => ThresholdReportedOnce
    BY DEF IInv
  <1>2. QED BY <1>1, Invariance, PTL

(* The UR-SEQNs of a URR's reports count up by one, modulo the width of    *)
(* the field, from 0 and across every Update URR.                          *)
THEOREM Numbering == Spec => ReportsNumbered
  <1> DEFINE Numbered == \A u \in Urrs : (\E r \in to_send' \ to_send : r.urr = u) =>
                            last'[u] = IF last[u] = None THEN 0 ELSE (last[u] + 1) % SeqnMod
  <1>1. IInv /\ [Next]_vars => [Numbered]_vars
    BY NumberedStep
  <1>2. QED BY <1>1, Invariance, PTL DEF Spec, ReportsNumbered
=============================================================================
