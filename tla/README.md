# upf-edge in TLA+

A verification project for `upf-edge`, a 5G User Plane Function whose control
plane (PFCP, Rust) and data plane (XDP, eBPF) share state through eBPF maps.
The modules are translated from the source; `PROJECT.json` maps every definition
to the lines it models. Paths below are relative to the repository.

## 1. The system

| Part | State | Operations | Modelled in |
|---|---|---|---|
| PFCP handlers (`upf-edge/src/handle_msg.rs`, `pfcp_server.rs`, `association.rs`) | `PfcpServer` behind one mutex: associations by Node ID, sessions by SEID, `next_seid`, `urr_configs`, `peer_addr`; the maps `SESSION_MAP`, `PDR_MAP`, `FAR_MAP`, `URR_MAP`, each with a userspace lock; kernel routes | Heartbeat, Association Setup, Session Establishment, Modification, Deletion, one task per packet | `PfcpServer` |
| Usage reporting (`urr_reporter.rs`, `urr_count` in `upf-edge-ebpf/src/main.rs`) | per-CPU counters in `URR_MAP`, `UrrConfig`s | count a packet; once a second copy, judge, send | `UrrReporter` |
| XDP programs (`upf-edge-ebpf/src/main.rs`) | none of their own; read `SESSION_MAP`, `PDR_MAP`, `FAR_MAP` | N3 uplink, N6 downlink | `DataPlane` |
| UPF keepalive (`pfcp_server.rs:209-282`) | `last_activity` | heartbeat after 15 s of silence | `SmfSim` |
| Session store (`session_store.rs`, `pfcp_server.rs:301-323`) | Redis hash per session | save, delete, restore at start | `SessionStore` |
| `smf-sim` (`transport.rs`, `keepalive.rs`, `validator.rs`, `state.rs`, scenario, menu, `main.rs`) | one socket, several receivers; sessions by CP-SEID; counters for UE addresses, CP-SEIDs, sequence numbers | request with retries, heartbeat, re-association, scenario 1, menu commands, single messages | `SmfSim` |
| PFCP codec (`pfcp-common`) | none | build, iterate, parse, validate | `PfcpCodec` |
| Start-up, configuration, metrics, TUI | | | I/O, not modelled |

How they interact: a PFCP packet becomes a tokio task that runs one handler.
Handlers change the server under its mutex and the maps under theirs. The XDP
programs see every single map write at once and take no lock. The reporter
copies counters under the map's lock, then takes the server mutex. Saves and
deletes in Redis are tasks the handlers spawn and forget. `smf-sim` sends a
request and takes from its socket until an answer of the expected type comes; its
keepalive and its user do so on the same socket.

What is hard here:

- *Deletion gives the mutex back before it cleans up* (`handle_msg.rs:666`), so
  six map operations interleave with every other handler.
- *Establishment can fail half way*, at any map insert.
- *SMFs* retransmit, restart, choose the same CP-SEIDs, reuse UE addresses.
- *The kernel reads between any two writes*, and keeps what it has read.
- *The reporter* judges counters it copied earlier against configurations that
  may be newer; a counter may be removed and come back.
- *smf-sim's tasks* take each other's answers, and answers to requests given up
  before; a retransmission is a new request to the UPF; a refusal is silence.
- *The UPF* may crash with saves and deletes under way, and restarts with the
  sessions of Redis but without anything else, while kernel routes outlive it.
- *Nobody looks* at the results of `ip route`, of a spawned save or of a spawned delete.
- *XDP writes too*: `urr_count` inserts a key of `URR_MAP` that is not there, also
  one that a Deletion has just removed.
- *Datagrams* are cut by the receiver's buffer, and the reader stops silently.

What makes each part correct: the rules of a live session are all there and are
its own, a deleted session leaves nothing, only its SMF touches it (control
plane); volume is reported once, in sequence, eventually, to the owner, never
too much (usage reporting); a packet gets the verdict of its own session's rules
(data plane); a live session survives a crash as it was (store); the SMF knows the
UPF's sessions as they are and always comes to an end (`smf-sim`); what one node
builds the other reads (codec). The hazards with the properties that watch them are listed in
`PROJECT.json`.

## 2. The modules

### `PfcpServer` - the control plane

State: the fields of `PfcpServer`, the four maps (rule maps as one set per
SEID, which is what the composed keys amount to), the routes, `est` (the
Establishment that holds the mutex, if any) and `del` (one clean-up per task).
`xdp` holds, per CPU, the URR of a packet that was matched and is not counted yet.
`request` (the request a SEID was allocated for), `aborted` (the SEIDs whose
Establishment ended in an error), `recreated` (the `URR_MAP` keys that XDP put there)
and `ip_failed` (the UE addresses whose last `ip` command failed, or whose route is
of an earlier life) are history.

The module is one life of the process. It begins with the sessions Redis gave back
(`Restored`) and the routes an earlier life left (`LeftRoutes`), without associations
or map entries and with `next_seid` = 1, as `pfcp_server.rs:93-116` and `:301-323`
have it. A SEID that Redis held a session for is given to a new one in the same life;
the properties are about the others (`Unrestored`), and what becomes of the restored
session itself is the subject of `SessionStore`.

| Action | Code |
|---|---|
| `HandleHeartbeat` | `handle_heartbeat`: a changed time stamp clears the association's sessions |
| `HandleAssociation` | `handle_session_association`: same time stamp no change, otherwise replaced |
| `EstBegin`, `EstReject` | association lookup and SEID allocation; refused after the allocation |
| `EstSession`, `EstPdrs`, `EstFars`, `EstUrrs`, `EstCommit` | the inserts, map by map, then the records and the route |
| `EstAbort` | a failing insert (`?`), with any part of that map's inserts done |
| `HandleModification` | one Update FAR, under the mutex |
| `DelLocked` | ownership check and removal under the mutex |
| `DelLookup` ... `DelRoute` | the clean-up, one action per map lock taken |
| `XdpMatch`, `UrrCount` | the two halves of a packet: matched to a PDR, counted under its URR |

Requests that change nothing (a heartbeat without a time stamp or with the known
one, a duplicate Association Setup, anything from an unknown sender) are
stuttering steps. A tunnel stands for gNB address and TEID together; the TEID the
UPF allocates is named by the SEID allocated in the same place. `Update URR` and
the contents of URRs are in `UrrReporter`. `setup_ue_route` and `teardown_ue_route`
may each fail (`IpCommand`): the first is only logged, of the second the results are
dropped (`handle_msg.rs:78`).

`Disciplined` describes the SMFs: with it, a UE address or CP-SEID is used again
only when no session or clean-up has it. What holds without it is checked
without it.

### `SessionLifecycle` - what the control plane promises

Associations and sessions with one atomic step per request: `Associate`,
`PeerRestarted`, `Establish`, `Modify`, `Release`. No maps, locks, tasks or
clean-ups. `PfcpServer` implements it (`ImplementsLifecycle`): the mapping takes
the associations as they are, an established session with its end point and with
the rules found *in the maps* under its SEID (`AbstractSession`), and as released
the SEIDs that were established and are no longer. `EstCommit` is `Establish`,
`HandleModification` is `Modify`, `DelLocked` is `Release`; every map write of an
Establishment, every clean-up and every abort must be a stuttering step, which is
the point: no other task's clean-up shows in a live session. This is the life cycle of a
UPF to which Redis gave nothing back. `SmfSim` uses the same module for its UPF, so the
two halves meet in it; only its Establishment is written out, because there it may
overwrite a restored session.

### `SmfSim` - the SMF, its socket and the UPF behind it

A call is a `send_and_recv` in progress (`call[t]`), of three tasks: the keepalive,
the user (scenario, menu or single commands) and a second menu command. `Send`,
`Returns`, `Swallow`, `Resend` and `GiveUp` are the transport; `Ka...` the
keepalive; `Scenario...` scenario 1; `Connect`, `AddSession`, `DelSession`,
`MenuHeartbeat` the menu; `send_...`, `HandleReport` the single-message commands,
each a process with a Recovery Time Stamp of its own. `Upf...` are the UPF's answers,
its silent refusals, its own heartbeats and reports, and its restart. Messages are
sets (reordered, delayed, lost when never delivered or when `Capacity` is full);
a timeout may fire at any time. A restarted UPF (`UpfRestart`) has, under each SEID,
no session or one that was ever saved under it (`Stored`), also one whose Deletion was
answered: the DEL is a task that may not have been carried out. Left out:
`last_activity`, which only decides when a heartbeat is sent.

### `SessionStore` - Redis, crash and restart

`Establish`, `Modify`, `DelLocked`/`DelSpawn` are what the handlers do to the
session table and which tasks they spawn; `Save` is one HSET of the pipeline,
`Delete` the DEL, `TaskFails` an unreachable Redis; `Crash` loses all but Redis;
`Restart` is `PfcpServer::new` with `LoadAll`, or without when Redis does not answer.
TEID and gNB address are one field. A missing field reads as 0 in the code
(`session_store.rs:62-73`); `None` stands for it. `deleted`, `cut_off` and `overtaken`
are history: Deletions answered, tasks not finished, deletes carried out before the save
of their key.

### `PfcpCodec` - messages

One exchange at a time: `SendRequest` builds a request, `Cut` or `Extend` may happen to
the datagram, `ReceiveRequest` decodes it and builds the answer, which travels the
same way, `ReceiveResponse` validates it, as the scenario, every association and the
single commands but modify do. The keepalive's and the menu's heartbeats, the menu's add
and the single modify look at less, and the menu's delete drops the result
(`tui/runner.rs:92`, `:147`, `main.rs:145`); what follows from that is in `SmfSim`.
A message is a sequence of fields (an
octet of flags, an integer, an address each count as one), type numbers and flag
bits are the code's, and lengths are numbers of fields. Builders and parsers are operators
with the code's names; `Requests` is what the six senders of requests build and
`Answers` what the receiver may build for a request it decoded. The values of
addresses and counters below the level of a field, UDP ports of Outer Header
Creation and the hex dump are left out.

### `UrrReporter` - usage reporting

A URR is a (SEID, URR ID) key with the PDR that refers to it. `XdpMatch` and
`UrrCount` are the two halves of a packet; `Collect`, `Judge`, `Send`, `Tick` one
round of the reporter; `InstallPdr`/`InstallUrr`, `UpdateUrr`,
`DeleteSession`/`RemovePdr`/`RemoveUrr` the parts of the handlers that matter.
The trigger octet is a number 0..255 and its test the product of the code,
modulo 256 (release build). `Elapse` is time, in seconds, cut off at `MaxPeriod`.

### `DataPlane` - XDP against the handlers

Handlers are lists of single map writes in the order of the code; `cpu` holds the
registers of an XDP program, which reads one entry per step through `select_far`
and `downlink_get_far`. Rule keys are numbers composed as in `PdrKey::new`.
`stable` remembers that no handler of the packet's UE was at work while it was
looked up and handled. The control flow from the `SESSION_MAP` lookup to the decision
is modelled; rewriting, checksums and `STATS_MAP` are not. A verdict is what the rules
decided: the rewriting that follows may still pass the packet to the kernel, when there
is no room for the headers or a MAC address or interface index is not configured
(`main.rs:479-527`, `:702-851`). Ports are swapped as on a little-endian host.

### MC modules

`MCPfcpServer`, `MCUrrReporter`, `MCDataPlane`, `MCSmfSim`, `MCSessionStore` and
`MCPfcpCodec` define the instances; the `.cfg` files assign them.

## 3. The runs

| Run | Result | Shows |
|---|---|---|
| `free` | pass | any requests in any order to a UPF with a session and a route of its earlier life, SMF restarts, failing inserts and `ip` commands, late packets: `LiveRulesInstalled`, `NoStaleSessionEntry`, `NoStaleRoute`, `SeidsNeverReused`, and `ExclusiveOwnership` for disjoint CP-SEIDs |
| `disciplined` | pass | for an SMF that does not restart and reuses only what is free, with failing inserts: `LiveForwardable`, `LiveRouted`, `EverySessionOwned`, `ReclaimedAfterDeletion`, `DeletionReclaims` (liveness) and `ImplementsLifecycle` (refinement) |
| `shared_cp` | violation | SMFs with equal CP-SEIDs pass each other's ownership check (`handle_msg.rs:482`) |
| `smf_restart` | violation | sessions of a restarted SMF live on without an owner (`handle_msg.rs:126`) |
| `urr` | pass | `ThresholdReportedOnce`, `NeverOverbilled`, `ReportsNumbered`, and, live, `ThresholdEventuallyReported`, `PeriodEventuallyReported` |
| `urr_deleted` | violation | a deleted URR is reported for ever |
| `dp` | pass | `VerdictAsRuled`, `NoMixingOfSessions` |
| `dp_atomic` | violation | dropped traffic is let through while rules change |
| `smf` | pass | `KnownSessionReachable`, `LeakOnlyByRetransmission`, `DistinctUpfSeids`, and `ScenarioEnds` (liveness) |
| `store` | pass | `LiveSessionsStored`, `RecordsWhole`, `DeletedForgotten` |
| `store_restart` | violation | after a restart a new session takes the SEID of a restored one (`pfcp_server.rs:105`, `:314`) |
| `codec` | pass | `RequestUnderstood`, `CutRequestIsBeginning`, `AnswerUnderstood`, `DictionaryAgrees` |

Every violation contradicts a sentence of the repository, quoted under
`findings`.

Bounds, and why they are enough to meet the cases:

- `free`: two SMFs, one UE address (so that all sessions collide on it, the restored
  one too), two SEIDs, of which Redis held the second, two clean-ups at a time (alike,
  hence the symmetry), two time stamps, one CPU that counts. The restored session has a
  CP-SEID that one of the SMFs uses, so that this SMF can modify and delete it. The
  request has more PDRs than `MaxPdr` = 2, so that a Deletion leaves rules behind. Two
  sessions are the smallest number in which one can harm another; the theorems of
  section 4 lift the bound for all of its properties.
- `disciplined`: one SMF with two CP-SEIDs, two UE addresses and two SEIDs: two
  sessions at a time, or a second that takes over what a deleted one had. One
  tunnel, because a Modification already changes the session's end point from the
  TEID of the UPF to that of the gNB. One FAR for both PDRs, and a second FAR ID
  that a Modification can name without the session having it. It ends when the SEIDs
  are used up, hence `CHECK_DEADLOCK FALSE`. A URR that a PDR names and nobody created
  is in neither run; the theorems cover it.
- `urr`: one URR (URRs do not share state), two CPUs, three packets, thresholds 1
  and 2, periods 1 and 2; `SeqnMod` = 3 lets UR-SEQN wrap.
- `dp`: three sessions with the same rule IDs, two of them on one UE address in
  turn; rules with filters, equal precedence, more PDRs than the array, a missing
  FAR, a buffering FAR. One CPU: XDP programs only read here, two do not interact.
- `smf`: one process per command line (`Modes`), two datagrams each way, one
  retransmission in scenario and single commands (none in the menu, where two tasks
  compete for answers instead), two lives of the UPF where the keepalive watches, the
  second with any of the saved sessions back, two
  sessions, three menu commands. `MaxTries` = 1 bounds the association loop of
  the scenario, which is why `ScenarioEnds` starts when it is left. It ends when the numbers are used up:
  `CHECK_DEADLOCK FALSE`.
- `store`: two sessions, two SEIDs, three lives: a session saved in the first life,
  restored in the second, where its SEID is given away again, and a crash that interrupts
  the second's saves and deletes.
- `codec`: every combination of the optional parts of one PDR, lists of two rules,
  every FAR and URR variant; `SeqNumMod` = 4 with sequence numbers 3 and 5 on
  both sides of the limit; every cut of every message; an unknown IE that reads like
  the beginning of a Cause.

Fairness. `PfcpServer`: weak fairness of a handler that has started, since it
waits for nothing but mutexes held for a bounded time; none for requests.
`UrrReporter`: weak fairness of the reporter (a 1 s interval timer), of time, and
of a started Establishment. `SmfSim`: weak fairness of the scenario's own steps and of
the timers of a call (a tokio timeout fires); none of the network, of the UPF or of
the keepalive, so the scenario ends also when nothing is ever answered.
`SessionStore`: spawned tasks run. `DataPlane` and `PfcpCodec` have safety properties only.

## 4. The proofs

Eight modules hold theorems, for every value of the constants that satisfies the
named assumptions of the module proved about: types of the constants, `None` is
none of the values, and of the rules only that a request has its access FAR,
names a rule once and, in `DataPlane`, has rule IDs of 16 bits, which
`upf-edge-common/src/lib.rs:121` takes for granted. `SmfSim` needs an address in
the pool (single commands use CP-SEID 1) and room for the first Recovery Time
Stamp and the first life of the UPF; all its other bounds may be any number.
`PfcpCodec` takes any lists of rules of the builders' parameter types, with
interfaces of four bits (`ie.rs` reads no more, and the callers pass 0 and 1),
and an unknown IE whose length field is right and whose type no decoder looks for.

| Module | Theorem | States |
|---|---|---|
| `PfcpServerProofs` | `TypeCorrect` | `[]TypeOK` |
| | `RulesStayInstalled` | `[]LiveRulesInstalled` |
| | `SessionMapSound` | `[]NoStaleSessionEntry` |
| | `RoutesSound` | `[]NoStaleRoute`, with `ip` commands that may fail |
| | `OwnershipIfDisjoint` | `[]ExclusiveOwnership`, if no two peers share a CP-SEID |
| `PfcpRefinementProofs` | `LifecycleImplemented` | `ImplementsLifecycle`, the refinement of `SessionLifecycle`, if `NothingRestored` |
| | `SeidsUsedOnce` | `SeidsNeverReused` |
| `PfcpDisciplinedProofs` | `Forwarding` | `[]LiveForwardable`, if `Disciplined` and `NothingRestored` |
| | `RoutesKept` | `[]LiveRouted`, if `Disciplined` and `NothingRestored` |
| | `Reclaiming` | `[]ReclaimedAfterDeletion`, if `Disciplined` and `NothingRestored` |
| | `OwnersStay` | `[]EverySessionOwned`, if `Steady` |
| `UrrReporterProofs` | `TypeCorrect` | `[]TypeOK` |
| | `NoOverbilling` | `[]NeverOverbilled` |
| | `ThresholdOnce` | `[]ThresholdReportedOnce` |
| | `Numbering` | `ReportsNumbered` |
| `DataPlaneProofs` | `TypeCorrect` | `[]TypeOK` |
| | `Verdicts` | `[]VerdictAsRuled` |
| | `NoMixing` | `[]NoMixingOfSessions` |
| `SessionStoreProofs` | `TypeCorrect` | `[]TypeOK` |
| | `RecordsComplete` | `[]RecordsWhole` |
| | `DeletedStayDeleted` | `[]DeletedForgotten` |
| | `NothingLostByCrash` | `[]LiveSessionsStored` |
| `SmfSimProofs` | `TypeCorrect` | `[]TypeOK` |
| | `SeidsApart` | `[]DistinctUpfSeids` |
| | `SessionReachable` | `[]KnownSessionReachable` |
| | `NoOtherLeak` | `[]LeakOnlyByRetransmission` |
| `PfcpCodecProofs` | `CodecTypeOK` | `[]TypeOK` |
| | `CodecRequestUnderstood` | `[]RequestUnderstood` |
| | `CodecCutRequestIsBeginning` | `[]CutRequestIsBeginning` |
| | `CodecAnswerUnderstood` | `[]AnswerUnderstood` |
| | `CodecDictionaryAgrees` | `[]DictionaryAgrees` |

Every proof has the same plan: the inductive invariant (`IInv`; other names are
given below), a lemma for each
action that says it is kept, with one step per conjunct the action can disturb,
and the properties as consequences. The strengthening is where the argument is.

**Control plane.** None of the properties is inductive alone. `IInv` adds what the handlers
know of each other: `EstContext` and `EstProgress` (a running Establishment has a
request, an association of the requesting peer, a SEID nobody else uses, and in
the maps exactly what its finished steps put there), `FreshSeids` (nothing is
recorded or written under a SEID that was not allocated), `LiveAsRequested` (a live
session is the one its request asked for and did not fail), `DelContext` (a
clean-up works on a dead SEID, alone, with the UE address of its request) and
`CpSeidsOfPeer` (an association holds only CP-SEIDs its peer uses). With it the
argument is short: rules are keyed by SEID, a clean-up removes only under its own
SEID, that SEID is dead, and SEIDs are not reused in one life; the UE's entry and route
are shared, but a clean-up only removes them. `XdpContext` says of a packet in flight
that its URR is one a PDR of its session names, which is all that XDP can add to
`URR_MAP`. The invariant speaks of the SEIDs under which Redis held nothing
(`Unrestored`), so it holds for any sessions given back; clean-ups of restored sessions
are in it as clean-ups of dead SEIDs. Routes are exempt from `NoStaleRoute` while
`ip_failed` has their address, and every `ip` command that succeeds takes it out. The hypothesis of `OwnershipIfDisjoint`
is what the code relies on without enforcing it; run `shared_cp` is what happens
without it.

**Refinement.** `LifecycleImplemented` rests on the same invariant. Each action is
either the step of `SessionLifecycle` it is meant to be or leaves the mapped state
as it is. The second half is the longer one: every map write of a
clean-up or of an Establishment is under a SEID that is not live, so
`AbstractSession` does not see it; what `UrrCount` adds is in `recreated` and not part
of a session's content. A UPF with restored sessions is no implementation: such a session
has no request, and its SEID is handed out again. `SeidsUsedOnce` needs no such
hypothesis, it is about the other SEIDs.

**Disciplined SMFs.** What a clean-up removes without the mutex (`SESSION_MAP`
is keyed by UE address) it may remove of another session, so these theorems have
a hypothesis about the SMFs. `Disciplined`: a UE address or CP-SEID is used again
only when no session, Establishment or clean-up has it. Inserts may fail and SMFs
may restart. `DInv` says that a UE address has one user (`LiveAlone`, `DelAlone`,
`EstAlone`) and how far each clean-up has come (`DelProgress`: the PDR, FAR and
URR IDs it has collected cover all there is under its SEID, and what is gone is
what its step says), and that the route of a live session is there (`LiveRouted`), which
is inductive because the only clean-up of its address would be its own. `NothingRestored`
leaves out the sessions Redis gives back: they use an address without an Establishment of
this life, and `DInv` counts the users of an address by their requests. `Steady` adds that CP-SEIDs are not shared and
nobody restarts; `smf_restart` and `shared_cp` are the violations without it.

**Usage reporting.** `CounterCharged` relates a counter to what was charged,
`ConfigTellsHistory` the fields `threshold_reported` and `ur_seqn` of a
`UrrConfig` to the reports made so far. `NoOverbilling` then only needs that the
copy the reporter took is not larger than what was charged since, and charges grow.

**Data plane.** The handlers' half of the invariant, `HInv`, says of each
session that a rule it needs is in its map or still among the writes to be done
(`RulesPut`), that the writes of a handler are under its own keys (`TodoFits`),
and that the entry of a UE address belongs to its one active session
(`SessionEntries`, `UeAlone`). Keys are told apart by `KeyOwner`: `RuleKey` is
injective on SEIDs and 16-bit IDs. The programs' half, `PInv`, says what
`select_far` and `downlink_get_far` know after each read: the best rule among
those seen (`BestOf`), then that the deciding rule lets the packet pass and no
Core rule was skipped (`Judging`). What they know stays true while the packet is
`stable`.

**Session store.** `SaveProgress` and `NoDeleteOfLive` are the point of
`LiveSessionsStored`: the save of a live session has what the server has, its written
fields are in Redis, and no delete under way is for a live session. For `RecordsWhole`,
`SavesAsGranted` says that a save under way writes what its SEID was last given to (a
save of an earlier life ended with it), and `WritesKept` that the fields before the next
one are in Redis, unless a delete came in between; so when the last field is written the
record is whole, also over an old one. For `DeletedForgotten`, `DeletesLast`: the delete
of an answered Deletion is still to come, or it was the last task of its key.
`TracesGranted` keeps the keys of Redis within the SEIDs handed out, through crashes.
`LiveSessionsStored` leaves out SEIDs handed out a second time after a restart;
`store_restart` is the violation.

**smf-sim.** The invariant has four parts. `TInv`: types, the states of each task
(`TasksOfMode`), how far the scenario is (`ScenarioProgress`), that requests
under way are those of their mode (`RequestsWellFormed`) and that every SEID in an
answer or a session was handed out (`ResponsesHandedOut`). `NInv`: an answer hands
out a SEID once per life of the UPF, and the task that takes it takes it off the
network, so a SEID is known under one CP-SEID even if the wrong task took it.
`RInv`, of the scenario only: it and its keepalive send one Recovery Time Stamp and
one CP-SEID (`OneTimestamp`, `OneCp`), so no heartbeat and no second Association
Setup clears the association before the Deletion (`AllTouchable`,
`KnownEstablished`). `LInv`, of a scenario whose Establishment was sent once: the
request is under way (`RequestUnderWay`), or answered with the only session there
is (`OneSession`), every Deletion under way is for that session (`DeletionsMeant`), and
where a Deletion was answered nothing is left (`DeletedClean`). All of this is about the
sessions the UPF established in its present life (`Current`): Redis may give back any
session under SEIDs not handed out yet, and `DeletionsMeant` is what keeps one of those
from being deleted in place of the session the scenario has.

**Codec.** The state machine is the small part; the work is in what the parsers
compute from what the builders write, for lists of rules of any length. That takes
induction over sequences, which the provers cannot take from the library's
theorems, because these have an operator for the claim. The proofs make the claim a set and
take the least number outside of it (`Least`, `Induction`, `SeqInduction`,
`FrontInduction`). From the octets up:

1. `iter_ies` and the flattening of lists satisfy the equations they are defined
   with (`IterEquation`, `FlatEquation`): the loop always advances, so the function
   exists.
2. `IterWire`: `iter_ies` reads back any list of IEs that `append_ie` wrote.
   `IterCut`: of such a list cut at any octet it reads a beginning, never a part of an
   IE and never octets of a value as an IE.
3. A grouped IE and a message are IEs of distinct types in a fixed order (`Group`),
   and the parsers look IEs up by type, so each rule is read back field by field with
   every optional part there or not: `UrrRead`, `FarRead`, `PdrRead`, `ReportRead`,
   `CreatedRead`.
4. `ReadBack`: a datagram that started as a message has no header, or its own header and a
   beginning of its IEs, all of them if it was not cut, and an unknown IE changes
   nothing. `BodyRead` says this of each list, with the order between them.
5. `RequestDecoded`: each decoder makes a beginning of the request of that, or a
   mandatory IE is missing. `AnswerSent` and `AnswerReceived`: whatever was decoded,
   the answer has the form that `validate_response` and `extract_session_info` ask for.

The inductive invariant `CodecInv` is the history of one exchange: nothing was sent
(`Idle`), or there is a request that the datagram under way stems from by at most the
one fault recorded (`UnderWay`), that was refused from such a datagram (`Refused`), or
that was decoded from one and answered, where the datagram now carries that answer
(`Replied`). The properties follow from it by 4 and 5; none of them is inductive,
since none says where the octets on the wire come from.

Only model-checked: liveness (`DeletionReclaims`, `ThresholdEventuallyReported`,
`PeriodEventuallyReported`, `ScenarioEnds`: fairness is outside the prover's reach).
Every invariant and every safety property of an action that a passing run checks is
also proved.

## 5. Not modelled, and the plan

Not modelled: header rewriting and checksums of packets, `STATS_MAP`, metrics, TUI
drawing and command-line parsing, start-up, configuration.

Known from reading, without a run of its own:

- an Association Setup with an older Recovery Time Stamp is logged as rejected and
  accepted (`handle_msg.rs:181-190`);
- the VOLTH test multiplies where it should mask (`urr_reporter.rs:62`), so volume
  reports come unasked;
- reports and keepalives of all sessions go to the SMF that associated last
  (`handle_msg.rs:200`, `urr_reporter.rs:44`); a lost report is never sent again;
- of two sessions with one UE address, as a retransmitted Establishment makes them, the
  Deletion of one takes the `SESSION_MAP` entry and the route of the other
  (`handle_msg.rs:728`, `:734`); `LiveForwardable` and `LiveRouted` hold only without such
  sharing;
- port filters compare host with network byte order (`upf-edge-ebpf/src/main.rs:138`);
- uplink volume is counted as downlink (`upf-edge-ebpf/src/main.rs:477`) and downlink
  volume not at all; rule IDs above 65535 collide (`upf-edge-common/src/lib.rs:134`);
- the menu does not check the sequence number of an Establishment Response
  (`tui/runner.rs:92`), drops the result of the check of a Deletion Response (`:147`),
  looks up sessions to delete by CP-SEID while it lists them by the UPF's SEID, and sends
  heartbeats with the time of day as Recovery Time Stamp (`:174`), as the UPF does
  (`pfcp_server.rs:227`): a receiver that compares them takes each for a restart;
- the back-off of the association loop overflows at the 64th try
  (`basic_lifecycle.rs:47`);
- `find_interface_for_addr` looks at lines with fewer than four words and indexes the
  fourth (`transport.rs:161`);
- `RawIE::sub_ie` is filled and never read.

Left of the plan, proofs: nothing but liveness.
