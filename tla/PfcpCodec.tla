----------------------------- MODULE PfcpCodec -----------------------------
(***************************************************************************)
(* How PFCP messages are built, carried and read (crate pfcp-common), and  *)
(* what the two programs make of them: one node builds a request, the      *)
(* datagram may be cut short by the receiver's buffer or carry an IE this  *)
(* code does not know, the other node decodes it and builds the answer,    *)
(* which travels the same way and is validated by the requester.           *)
(*                                                                         *)
(* A message is a sequence of fields.  A field is what the code reads or   *)
(* writes in one go (an octet of flags, a u16, a u32, a u64, an address)   *)
(* and counts as one whatever its octets, so each of the code's tests on a *)
(* length is here a test on the number of fields it stands for.  The type  *)
(* numbers and flag bits are the code's.                                   *)
(***************************************************************************)
EXTENDS Integers, Sequences, FiniteSets, SequencesExt

CONSTANTS
    SeqNumMod,     \* a sequence number has three octets: 2^24
    Seqs,       \* sequence numbers the requester's u32 counter reaches
    Seids,      \* session identifiers, of the SMF or of the UPF
    Ts,         \* Recovery Time Stamps
    SmfAddr, UpfAddr, Teid,  \* the nodes' addresses, the UPF's tunnel
    PdrLists,   \* the PDRs, FARs and URRs a request may carry
    FarLists,
    UrrLists,
    Reports,    \* the usage reports the UPF may send
    UnknownIe   \* an IE, as it lies in the message, of a type not used here

VARIABLES
    stage,   \* where the exchange is
    req,     \* what the requester asked its builder for
    wire,    \* the datagram under way
    fault,   \* what happened to a datagram on its way
    seen,    \* what the other node decoded from the request
    answer,  \* what it asked its builder for
    outcome  \* what the requester took from the answer

vars == <<stage, req, wire, fault, seen, answer, outcome>>

-----------------------------------------------------------------------------
(* Option and Result: none or an error is <<>>, some value v is <<v>>.     *)
None == <<>>
Some(v) == <<v>>
Option(S) == {o \in Seq(S) : Len(o) <= 1}
Err == <<>>
Ok(v) == <<v>>

(* Message types.                                                          *)
PFCP_HEARTBEAT_REQ == 1
PFCP_ASSOCIATION_SETUP_REQ == 5
PFCP_SESSION_ESTABLISHMENT_REQ == 50
PFCP_SESSION_MODIFICATION_REQ == 52
PFCP_SESSION_DELETION_REQ == 54
PFCP_SESSION_REPORT_REQ == 56

(* IE types.                                                               *)
PFCP_IE_CREATE_PDR == 1
PFCP_IE_PDI == 2
PFCP_IE_CREATE_FAR == 3
PFCP_IE_FORWARDING_PARAMETERS == 4
PFCP_IE_CREATE_URR == 6
PFCP_IE_CREATED_PDR == 8
PFCP_IE_UPDATE_FAR == 10
PFCP_IE_UPDATE_FORWARDING_PARAMETERS == 11
PFCP_IE_UPDATE_URR == 13
PFCP_IE_CAUSE == 19
PFCP_IE_SOURCE_INTERFACE == 20
PFCP_IE_FTEID == 21
PFCP_IE_SDF_FILTER == 23
PFCP_IE_PRECEDENCE == 29
PFCP_IE_VOLUME_THRESHOLD == 31
PFCP_IE_REPORTING_TRIGGERS == 37
PFCP_IE_REPORT_TYPE == 39
PFCP_IE_DESTINATION_INTERFACE == 42
PFCP_IE_UP_FUNCTION_FEATURES == 43
PFCP_IE_APPLY_ACTION == 44
PFCP_IE_PDR_ID == 56
PFCP_IE_FSEID == 57
PFCP_IE_NODE_ID == 60
PFCP_IE_MEASUREMENT_METHOD == 62
PFCP_IE_USAGE_REPORT_TRIGGER == 63
PFCP_IE_MEASUREMENT_PERIOD == 64
PFCP_IE_VOLUME_MEASUREMENT == 66
PFCP_IE_USAGE_REPORT_IN_SESS_RPT_REQ == 80
PFCP_IE_URR_ID == 81
PFCP_IE_OUTER_HEADER_CREATION == 84
PFCP_IE_UE_IP_ADDRESS == 93
PFCP_IE_OUTER_HEADER_REMOVAL == 95
PFCP_IE_RECOVERY_TIME_STAMP == 96
PFCP_IE_UR_SEQN == 104
PFCP_IE_FAR_ID == 108

IeTypes ==
    {PFCP_IE_CREATE_PDR, PFCP_IE_PDI, PFCP_IE_CREATE_FAR,
     PFCP_IE_FORWARDING_PARAMETERS, PFCP_IE_CREATE_URR, PFCP_IE_CREATED_PDR,
     PFCP_IE_UPDATE_FAR, PFCP_IE_UPDATE_FORWARDING_PARAMETERS,
     PFCP_IE_UPDATE_URR, PFCP_IE_CAUSE, PFCP_IE_SOURCE_INTERFACE,
     PFCP_IE_FTEID, PFCP_IE_SDF_FILTER, PFCP_IE_PRECEDENCE,
     PFCP_IE_VOLUME_THRESHOLD, PFCP_IE_REPORTING_TRIGGERS,
     PFCP_IE_REPORT_TYPE, PFCP_IE_DESTINATION_INTERFACE,
     PFCP_IE_UP_FUNCTION_FEATURES, PFCP_IE_APPLY_ACTION, PFCP_IE_PDR_ID,
     PFCP_IE_FSEID, PFCP_IE_NODE_ID, PFCP_IE_MEASUREMENT_METHOD,
     PFCP_IE_USAGE_REPORT_TRIGGER, PFCP_IE_MEASUREMENT_PERIOD,
     PFCP_IE_VOLUME_MEASUREMENT, PFCP_IE_USAGE_REPORT_IN_SESS_RPT_REQ,
     PFCP_IE_URR_ID, PFCP_IE_OUTER_HEADER_CREATION, PFCP_IE_UE_IP_ADDRESS,
     PFCP_IE_OUTER_HEADER_REMOVAL, PFCP_IE_RECOVERY_TIME_STAMP,
     PFCP_IE_UR_SEQN, PFCP_IE_FAR_ID}

INTERFACE_ACCESS == 0
CAUSE_REQUEST_ACCEPTED == 1

(* What the builders are given.  An interface has four bits.               *)
Interfaces == 0 .. 15
SdfFilterParams ==
    [proto : Nat, src_ip : Nat, dst_ip : Nat, src_port : Nat, dst_port : Nat]
PdrParams ==
    [pdr_id : Nat, precedence : Nat, source_interface : Interfaces,
     fteid_choose : BOOLEAN, ue_ip : Option(Nat), far_id : Nat,
     urr_id : Option(Nat), outer_header_removal : BOOLEAN,
     sdf_filter : Option(SdfFilterParams)]
FarParams ==
    [far_id : Nat, apply_action : Nat, dest_interface : Interfaces,
     outer_header_creation : Option([teid : Nat, peer_addr : Nat])]
UrrParams ==
    [urr_id : Nat, measurement_method : Nat, reporting_triggers : Nat,
     volume_threshold_total : Option(Nat), measurement_period : Option(Nat)]
ReportParams ==
    [urr_id : Nat, ur_seqn : Nat, trigger : Nat, total : Nat, ul : Nat, dl : Nat]

ASSUME CodecAssumption ==
    /\ SeqNumMod \in Nat \ {0} /\ Seqs \subseteq Nat /\ Seids \subseteq Nat \ {0}
    /\ SmfAddr \in Nat /\ UpfAddr \in Nat /\ Teid \in Nat \ {0} /\ Ts \subseteq Nat
    /\ PdrLists \subseteq Seq(PdrParams) /\ FarLists \subseteq Seq(FarParams)
    /\ UrrLists \subseteq Seq(UrrParams) /\ Reports \subseteq ReportParams
    /\ UnknownIe \in Seq(Nat) /\ Len(UnknownIe) >= 2
    /\ UnknownIe[1] \notin IeTypes /\ UnknownIe[2] = Len(UnknownIe) - 2

Bit(octet, value) == (octet \div value) % 2 = 1

-----------------------------------------------------------------------------
(* Building.                                                               *)

NewHeader(type, seid, seq) ==
    [version |-> 1, s_flag |-> seid # None, mp_flag |-> FALSE,
     fo_flag |-> FALSE, msg_type |-> type, length |-> 0, seid |-> seid,
     seq_num |-> seq, priority |-> 0]

new_node_msg(type, seq) == NewHeader(type, None, seq)
new_session_msg(type, seid, seq) == NewHeader(type, Some(seid), seq)

(* The sequence number keeps its lower three octets.                       *)
SeqOctetsWide(n) == n
SeqOctets(n) == n % SeqNumMod

EncodeHeader(h) ==
    LET Flag(b, v) == IF b THEN v ELSE 0
    IN  <<h.version * 32 + Flag(h.fo_flag, 4) + Flag(h.mp_flag, 2)
              + Flag(h.s_flag, 1),
          h.msg_type, h.length>>
        \o (IF h.s_flag THEN h.seid ELSE <<>>)
        \o <<SeqOctets(h.seq_num), IF h.mp_flag THEN h.priority * 16 ELSE 0>>

append_ie(type, value) == <<type, Len(value)>> \o value

If(cond, fields) == IF cond THEN fields ELSE <<>>
Each(build(_), list) == FlattenSeq([i \in DOMAIN list |-> build(list[i])])
Given(build(_), option) == Each(build, option)
Keep(Test(_), list) == Each(LAMBDA x : If(Test(x), <<x>>), list)

finish(buf) == [buf EXCEPT ![3] = Len(buf) - 3]

add_node_id_v4(addr) == append_ie(PFCP_IE_NODE_ID, <<0, addr>>)
add_cause(cause) == append_ie(PFCP_IE_CAUSE, <<cause>>)
add_recovery_timestamp(ts) == append_ie(PFCP_IE_RECOVERY_TIME_STAMP, <<ts>>)
add_fseid(f) == append_ie(PFCP_IE_FSEID, <<2, f.seid, f.addr>>)
add_up_function_features == append_ie(PFCP_IE_UP_FUNCTION_FEATURES, <<4, 0>>)

add_created_pdr(c) ==
    append_ie(PFCP_IE_CREATED_PDR,
        append_ie(PFCP_IE_PDR_ID, <<c.pdr_id>>)
        \o append_ie(PFCP_IE_FTEID, <<2, c.teid, c.addr>>))

PdiOf(p) ==
    append_ie(PFCP_IE_SOURCE_INTERFACE, <<p.source_interface>>)
    \o If(p.fteid_choose, append_ie(PFCP_IE_FTEID, <<4, 0>>))
    \o Given(LAMBDA ue : append_ie(PFCP_IE_UE_IP_ADDRESS, <<2, ue>>), p.ue_ip)
    \o Given(LAMBDA f : append_ie(PFCP_IE_SDF_FILTER,
                 <<f.proto, f.src_ip, f.dst_ip, f.src_port, f.dst_port>>),
             p.sdf_filter)

add_create_pdr(p) ==
    append_ie(PFCP_IE_CREATE_PDR,
        append_ie(PFCP_IE_PDR_ID, <<p.pdr_id>>)
        \o append_ie(PFCP_IE_PRECEDENCE, <<p.precedence>>)
        \o append_ie(PFCP_IE_PDI, PdiOf(p))
        \o append_ie(PFCP_IE_FAR_ID, <<p.far_id>>)
        \o Given(LAMBDA u : append_ie(PFCP_IE_URR_ID, <<u>>), p.urr_id)
        \o If(p.outer_header_removal,
              append_ie(PFCP_IE_OUTER_HEADER_REMOVAL, <<0>>)))

(* Create URR and Update URR have the same inside, and so have the FARs    *)
(* but for the type of their forwarding parameters.                        *)
UrrFields(u) ==
    append_ie(PFCP_IE_URR_ID, <<u.urr_id>>)
    \o append_ie(PFCP_IE_MEASUREMENT_METHOD, <<u.measurement_method>>)
    \o append_ie(PFCP_IE_REPORTING_TRIGGERS, <<u.reporting_triggers, 0>>)
    \o Given(LAMBDA t : append_ie(PFCP_IE_VOLUME_THRESHOLD, <<1, t>>),
             u.volume_threshold_total)
    \o Given(LAMBDA t : append_ie(PFCP_IE_MEASUREMENT_PERIOD, <<t>>),
             u.measurement_period)

add_create_urr(u) == append_ie(PFCP_IE_CREATE_URR, UrrFields(u))
add_update_urr(u) == append_ie(PFCP_IE_UPDATE_URR, UrrFields(u))

FarFields(f, parameters) ==
    append_ie(PFCP_IE_FAR_ID, <<f.far_id>>)
    \o append_ie(PFCP_IE_APPLY_ACTION, <<f.apply_action>>)
    \o append_ie(parameters,
           append_ie(PFCP_IE_DESTINATION_INTERFACE, <<f.dest_interface>>)
           \o Given(LAMBDA o : append_ie(PFCP_IE_OUTER_HEADER_CREATION,
                                         <<1, o.teid, o.peer_addr>>),
                    f.outer_header_creation))

add_create_far(f) ==
    append_ie(PFCP_IE_CREATE_FAR, FarFields(f, PFCP_IE_FORWARDING_PARAMETERS))
(* Update FAR built like Create FAR.                                       *)
add_update_far_as_create(f) ==
    append_ie(PFCP_IE_UPDATE_FAR, FarFields(f, PFCP_IE_FORWARDING_PARAMETERS))
add_update_far(f) ==
    append_ie(PFCP_IE_UPDATE_FAR,
              FarFields(f, PFCP_IE_UPDATE_FORWARDING_PARAMETERS))

UsageReportOf(r) ==
    append_ie(PFCP_IE_REPORT_TYPE, <<2>>)
    \o append_ie(PFCP_IE_USAGE_REPORT_IN_SESS_RPT_REQ,
           append_ie(PFCP_IE_URR_ID, <<r.urr_id>>)
           \o append_ie(PFCP_IE_UR_SEQN, <<r.ur_seqn>>)
           \o append_ie(PFCP_IE_USAGE_REPORT_TRIGGER, <<r.trigger, 0>>)
           \o append_ie(PFCP_IE_VOLUME_MEASUREMENT,
                        <<7, r.total, r.ul, r.dl>>))

(* What a message says.  The build functions fill in what their message    *)
(* has; each of them appends its IEs in this order.                        *)
Nothing ==
    [node_id |-> None, cause |-> None, recovery_ts |-> None,
     features |-> FALSE, fseid |-> None, create_pdrs |-> <<>>,
     create_fars |-> <<>>, create_urrs |-> <<>>, update_fars |-> <<>>,
     update_urrs |-> <<>>, created_pdrs |-> <<>>, report |-> None]

Build(header, c) ==
    finish(EncodeHeader(header)
        \o Given(add_node_id_v4, c.node_id)
        \o Given(add_cause, c.cause)
        \o Given(add_recovery_timestamp, c.recovery_ts)
        \o If(c.features, add_up_function_features)
        \o Given(add_fseid, c.fseid)
        \o Each(add_create_pdr, c.create_pdrs)
        \o Each(add_create_far, c.create_fars)
        \o Each(add_create_urr, c.create_urrs)
        \o Each(add_update_far, c.update_fars)
        \o Each(add_update_urr, c.update_urrs)
        \o Each(add_created_pdr, c.created_pdrs)
        \o Given(UsageReportOf, c.report))

-----------------------------------------------------------------------------
(* Reading.                                                                *)

(* decode: the header and what follows it; length is read, never compared. *)
DecodeHeader(buf) ==
    LET flags == buf[1]
        s     == Bit(flags, 1)
        at    == IF s THEN 5 ELSE 4
    IN  IF \/ Len(buf) < 5
           \/ flags \div 32 # 1
           \/ s /\ Len(buf) < 6
        THEN Err
        ELSE Ok([header |->
                   [version |-> 1, s_flag |-> s, mp_flag |-> Bit(flags, 2),
                    fo_flag |-> Bit(flags, 4), msg_type |-> buf[2],
                    length |-> buf[3],
                    seid |-> IF s THEN Some(buf[4]) ELSE None,
                    seq_num |-> buf[at],
                    priority |-> IF Bit(flags, 2) THEN buf[at + 1] \div 16
                                                  ELSE 0],
                 body |-> SubSeq(buf, at + 2, Len(buf))])

(* An IE that is not there in full is taken for as long as it is.          *)
iter_ies_clipped(buf) ==
    LET ies[i \in 1 .. Len(buf) + 1] ==
            IF i >= Len(buf) THEN <<>>
            ELSE LET end == IF i + 1 + buf[i + 1] <= Len(buf)
                            THEN i + 1 + buf[i + 1] ELSE Len(buf)
                 IN  <<[ie_type |-> buf[i], value |-> SubSeq(buf, i + 2, end)]>>
                     \o ies[end + 1]
    IN  ies[1]

(* The IEs of a buffer, up to the first one that is not there in full.     *)
(* The IEs inside a grouped one are listed again by its own parser.        *)
iter_ies(buf) ==
    LET Whole(i) == i < Len(buf) /\ i + 1 + buf[i + 1] <= Len(buf)
        ies[i \in 1 .. Len(buf) + 1] ==
            IF ~Whole(i) THEN <<>>
            ELSE <<[ie_type |-> buf[i],
                    value |-> SubSeq(buf, i + 2, i + 1 + buf[i + 1])]>>
                 \o ies[i + 2 + buf[i + 1]]
    IN  ies[1]

OfType(ies, type) == Keep(LAMBDA ie : ie.ie_type = type, ies)
OfLength(ies, n) == Keep(LAMBDA ie : Len(ie.value) >= n, ies)
Types(ies) == {ies[i].ie_type : i \in DOMAIN ies}

(* Later IEs overwrite earlier ones; those that are too short are skipped. *)
LastField(ies, type, default) ==
    LET found == OfLength(OfType(ies, type), 1)
    IN  IF found = <<>> THEN default ELSE Last(found).value[1]
LastId(ies, type) ==
    LET found == OfLength(OfType(ies, type), 1)
    IN  IF found = <<>> THEN None ELSE Some(Last(found).value[1])

(* parse(..)? : one IE that cannot be parsed fails the whole.              *)
AllParse(parse(_), ies) == \A i \in DOMAIN ies : parse(ies[i].value) # Err
Parsed(parse(_), ies) == [i \in DOMAIN ies |-> parse(ies[i].value)[1]]
LastOf(list) == IF list = <<>> THEN None ELSE Some(Last(list))
(* ies.iter().find(..).and_then(|ie| parse(ie.value))                      *)
First(parse(_), ies) == IF ies = <<>> THEN Err ELSE parse(ies[1].value)

parse_node_id(value) ==
    IF Len(value) < 2 THEN Err
    ELSE IF value[1] % 16 # 0 THEN Err ELSE Ok(value[2])
parse_recovery_timestamp(value) ==
    IF Len(value) < 1 THEN Err ELSE Ok(value[1])
parse_fseid(value) ==
    IF Len(value) < 3 THEN Err ELSE Ok([seid |-> value[2], addr |-> value[3]])
parse_fteid(value) ==
    IF Len(value) < 2 THEN Err
    ELSE IF Bit(value[1], 4) THEN Ok([teid |-> 0, addr |-> 0])
    ELSE IF Len(value) >= 3 THEN Ok([teid |-> value[2], addr |-> value[3]])
    ELSE Err
parse_ue_ip_address(value) ==
    IF Len(value) < 2 THEN Err
    ELSE IF Bit(value[1], 2) THEN Ok(value[2]) ELSE Err
parse_outer_header_creation(value) ==
    IF Len(value) < 3 THEN Err
    ELSE Ok([teid |-> value[2], peer_addr |-> value[3]])
parse_apply_action(value) == IF value = <<>> THEN Err ELSE Ok(value[1])
parse_sdf_filter(value) ==
    IF Len(value) < 5 THEN Err
    ELSE Ok([proto |-> value[1], src_ip |-> value[2], dst_ip |-> value[3],
             src_port |-> value[4], dst_port |-> value[5]])
parse_volume_threshold(value) ==
    IF value = <<>> THEN Ok(None)
    ELSE IF ~Bit(value[1], 1) THEN Ok(None)
    ELSE IF Len(value) < 2 THEN Err ELSE Ok(Some(value[2]))

(* The IEs inside those of one type, in order.                             *)
Inside(ies, type) == Each(LAMBDA ie : iter_ies(ie.value), OfType(ies, type))

(* An SDF filter may stand in the PDI or beside it.                        *)
SdfFilters(ies) ==
    Each(LAMBDA ie : OfType(IF ie.ie_type = PFCP_IE_PDI THEN iter_ies(ie.value)
                                                        ELSE <<ie>>,
                            PFCP_IE_SDF_FILTER), ies)

parse_create_pdr(value) ==
    LET ies    == iter_ies(value)
        pdi    == Inside(ies, PFCP_IE_PDI)
        fteids == OfType(pdi, PFCP_IE_FTEID)
        ues    == OfType(pdi, PFCP_IE_UE_IP_ADDRESS)
        sdfs   == SdfFilters(ies)
    IN  IF /\ AllParse(parse_fteid, fteids)
           /\ AllParse(parse_ue_ip_address, ues)
           /\ AllParse(parse_sdf_filter, sdfs)
        THEN Ok([pdr_id |-> LastField(ies, PFCP_IE_PDR_ID, 0),
                 precedence |-> LastField(ies, PFCP_IE_PRECEDENCE, 0),
                 source_interface |->
                     LastField(pdi, PFCP_IE_SOURCE_INTERFACE, 0) % 16,
                 local_fteid |-> LastOf(Parsed(parse_fteid, fteids)),
                 ue_ip |-> LastOf(Parsed(parse_ue_ip_address, ues)),
                 far_id |-> LastId(ies, PFCP_IE_FAR_ID),
                 urr_id |-> LastId(ies, PFCP_IE_URR_ID),
                 outer_header_removal |->
                     OfType(ies, PFCP_IE_OUTER_HEADER_REMOVAL) # <<>>,
                 sdf_filter |-> LastOf(Parsed(parse_sdf_filter, sdfs))])
        ELSE Err

parse_create_urr(value) ==
    LET ies        == iter_ies(value)
        thresholds == OfType(ies, PFCP_IE_VOLUME_THRESHOLD)
        read       == Parsed(parse_volume_threshold, thresholds)
    IN  IF AllParse(parse_volume_threshold, thresholds)
        THEN Ok([urr_id |-> LastField(ies, PFCP_IE_URR_ID, 0),
                 measurement_method |->
                     LastField(ies, PFCP_IE_MEASUREMENT_METHOD, 0),
                 reporting_triggers |->
                     LastField(ies, PFCP_IE_REPORTING_TRIGGERS, 0),
                 volume_threshold_total |->
                     IF read = <<>> THEN None ELSE Last(read),
                 measurement_period |-> LastId(ies, PFCP_IE_MEASUREMENT_PERIOD)])
        ELSE Err

(* parse_create_far and parse_update_far differ in the type of the group   *)
(* they read the forwarding parameters from.                               *)
ParseFar(value, parameters) ==
    LET ies  == iter_ies(value)
        fwd  == Inside(ies, parameters)
        acts == OfType(ies, PFCP_IE_APPLY_ACTION)
        ohcs == OfType(fwd, PFCP_IE_OUTER_HEADER_CREATION)
        dest == LastId(fwd, PFCP_IE_DESTINATION_INTERFACE)
    IN  IF /\ AllParse(parse_apply_action, acts)
           /\ AllParse(parse_outer_header_creation, ohcs)
        THEN Ok([far_id |-> LastField(ies, PFCP_IE_FAR_ID, 0),
                 apply_action |-> LastField(acts, PFCP_IE_APPLY_ACTION, 0),
                 dest_interface |-> [i \in DOMAIN dest |-> dest[i] % 16],
                 outer_header_creation |->
                     LastOf(Parsed(parse_outer_header_creation, ohcs))])
        ELSE Err

parse_create_far(value) == ParseFar(value, PFCP_IE_FORWARDING_PARAMETERS)
parse_update_far(value) == ParseFar(value, PFCP_IE_UPDATE_FORWARDING_PARAMETERS)

(* The Mandatory IEs of PFCP_DICT; an unknown message has none.            *)
Mandatory(type) ==
    CASE type = PFCP_ASSOCIATION_SETUP_REQ ->
             {PFCP_IE_NODE_ID, PFCP_IE_RECOVERY_TIME_STAMP}
      [] type = PFCP_ASSOCIATION_SETUP_REQ + 1 ->
             {PFCP_IE_NODE_ID, PFCP_IE_CAUSE, PFCP_IE_RECOVERY_TIME_STAMP}
      [] type = PFCP_SESSION_ESTABLISHMENT_REQ ->
             {PFCP_IE_NODE_ID, PFCP_IE_FSEID, PFCP_IE_CREATE_PDR,
              PFCP_IE_CREATE_FAR}
      [] type = PFCP_SESSION_ESTABLISHMENT_REQ + 1 ->
             {PFCP_IE_NODE_ID, PFCP_IE_CAUSE}
      [] type \in {PFCP_SESSION_MODIFICATION_REQ + 1,
                   PFCP_SESSION_DELETION_REQ + 1} -> {PFCP_IE_CAUSE}
      [] type = PFCP_SESSION_REPORT_REQ -> {PFCP_IE_REPORT_TYPE}
      [] OTHER -> {}

(* F-SEID mandatory in a Session Modification Request.                     *)
validateFseid(type, body) ==
    (Mandatory(type) \cup
         (IF type = PFCP_SESSION_MODIFICATION_REQ THEN {PFCP_IE_FSEID} ELSE {}))
    \ Types(iter_ies(body))
(* Created PDR mandatory under the type of Create PDR.                     *)
validateCreatePdr(type, body) ==
    (Mandatory(type) \cup
         (IF type = PFCP_SESSION_ESTABLISHMENT_REQ + 1 THEN {PFCP_IE_CREATE_PDR}
                                                       ELSE {}))
    \ Types(iter_ies(body))
validate(type, body) == Mandatory(type) \ Types(iter_ies(body))

(* A node's reading of a request: the type selects the decoder.            *)
AssociationSetupReq(ies) ==
    LET node == First(parse_node_id, OfType(ies, PFCP_IE_NODE_ID))
        ts   == First(parse_recovery_timestamp,
                      OfType(ies, PFCP_IE_RECOVERY_TIME_STAMP))
    IN  IF node = Err \/ ts = Err THEN Err
        ELSE Ok([node_id |-> node[1], recovery_ts |-> ts[1]])

SessionEstablishmentReq(ies) ==
    LET fseid == First(parse_fseid, OfType(ies, PFCP_IE_FSEID))
        pdrs  == OfType(ies, PFCP_IE_CREATE_PDR)
        fars  == OfType(ies, PFCP_IE_CREATE_FAR)
        urrs  == OfType(ies, PFCP_IE_CREATE_URR)
    IN  IF \/ fseid = Err
           \/ ~AllParse(parse_create_pdr, pdrs)
           \/ ~AllParse(parse_create_far, fars)
           \/ ~AllParse(parse_create_urr, urrs)
        THEN Err
        ELSE Ok([node_id |-> First(parse_node_id, OfType(ies, PFCP_IE_NODE_ID)),
                 fseid |-> fseid[1],
                 create_pdrs |-> Parsed(parse_create_pdr, pdrs),
                 create_fars |-> Parsed(parse_create_far, fars),
                 create_urrs |-> Parsed(parse_create_urr, urrs)])

SessionModificationReq(ies) ==
    LET fars == OfType(ies, PFCP_IE_UPDATE_FAR)
        urrs == OfType(ies, PFCP_IE_UPDATE_URR)
    IN  IF ~AllParse(parse_update_far, fars) \/ ~AllParse(parse_create_urr, urrs)
        THEN Err
        ELSE Ok([fseid |-> First(parse_fseid, OfType(ies, PFCP_IE_FSEID)),
                 update_fars |-> Parsed(parse_update_far, fars),
                 update_urrs |-> Parsed(parse_create_urr, urrs)])

HeartbeatReq(ies) ==
    Ok([recovery_ts |-> First(parse_recovery_timestamp,
                              OfType(ies, PFCP_IE_RECOVERY_TIME_STAMP))])

(* The SMF reads each usage report of a Session Report Request.            *)
ReadReport(value) ==
    LET ies     == iter_ies(value)
        trigger == OfLength(OfType(ies, PFCP_IE_USAGE_REPORT_TRIGGER), 2)
        volume  == OfLength(OfType(ies, PFCP_IE_VOLUME_MEASUREMENT), 4)
        Vol(i)  == IF volume = <<>> THEN 0 ELSE Last(volume).value[i]
    IN  [urr_id |-> LastField(ies, PFCP_IE_URR_ID, 0),
         trigger |-> IF trigger = <<>> THEN 0 ELSE Last(trigger).value[1],
         total |-> Vol(2), ul |-> Vol(3), dl |-> Vol(4)]

SessionReportReq(ies) ==
    LET usage == OfType(ies, PFCP_IE_USAGE_REPORT_IN_SESS_RPT_REQ)
    IN  Ok([reports |-> [i \in DOMAIN usage |-> ReadReport(usage[i].value)]])

DecodeRequest(type, ies) ==
    CASE type = PFCP_HEARTBEAT_REQ -> HeartbeatReq(ies)
      [] type = PFCP_ASSOCIATION_SETUP_REQ -> AssociationSetupReq(ies)
      [] type = PFCP_SESSION_ESTABLISHMENT_REQ -> SessionEstablishmentReq(ies)
      [] type = PFCP_SESSION_MODIFICATION_REQ -> SessionModificationReq(ies)
      [] type = PFCP_SESSION_DELETION_REQ -> Ok([seid_in_header |-> TRUE])
      [] type = PFCP_SESSION_REPORT_REQ -> SessionReportReq(ies)

(* The requester's reading of the answer.                                  *)
validate_response(type, seq, rsp) ==
    LET d     == DecodeHeader(rsp)
        cause == OfType(iter_ies(d[1].body), PFCP_IE_CAUSE)
    IN  /\ d # Err
        /\ d[1].header.msg_type = type + 1
        /\ d[1].header.seq_num = seq
        /\ validate(type + 1, d[1].body) = {}
        /\ cause # <<>> => /\ cause[1].value # <<>>
                           /\ cause[1].value[1] = CAUSE_REQUEST_ACCEPTED

extract_session_info(rsp) ==
    LET ies     == iter_ies(DecodeHeader(rsp)[1].body)
        fseid   == First(parse_fseid, OfType(ies, PFCP_IE_FSEID))
        created == OfType(ies, PFCP_IE_CREATED_PDR)
        fteid   == First(parse_fteid,
                         OfType(iter_ies(created[1].value), PFCP_IE_FTEID))
    IN  IF \/ DecodeHeader(rsp) = Err \/ fseid = Err
           \/ fseid[1].seid = 0 \/ created = <<>>
           \/ fteid = Err
           \/ fteid[1].teid = 0
        THEN Err
        ELSE Ok([seid |-> fseid[1].seid, teid |-> fteid[1].teid,
                 addr |-> fteid[1].addr])

extract_recovery_ts(rsp) ==
    LET ies == iter_ies(DecodeHeader(rsp)[1].body)
    IN  IF DecodeHeader(rsp) = Err THEN None
        ELSE First(parse_recovery_timestamp,
                   OfType(ies, PFCP_IE_RECOVERY_TIME_STAMP))

-----------------------------------------------------------------------------
(* The exchange.                                                           *)

Message(header, content) == [header |-> header, content |-> content]

(* The requests the two programs build.                                    *)
HeartbeatRequest(n, t) ==
    Message(new_node_msg(PFCP_HEARTBEAT_REQ, n),
            [Nothing EXCEPT !.recovery_ts = Some(t)])
AssociationSetupRequest(n, t) ==
    Message(new_node_msg(PFCP_ASSOCIATION_SETUP_REQ, n),
            [Nothing EXCEPT !.node_id = Some(SmfAddr), !.recovery_ts = Some(t)])
build_session_establishment_request(n, cp, p, f, u) ==
    Message(new_session_msg(PFCP_SESSION_ESTABLISHMENT_REQ, 0, n),
            [Nothing EXCEPT !.node_id = Some(SmfAddr),
                            !.fseid = Some([seid |-> cp, addr |-> SmfAddr]),
                            !.create_pdrs = p, !.create_fars = f,
                            !.create_urrs = u])
SessionModificationRequest(n, id, f, u) ==
    Message(new_session_msg(PFCP_SESSION_MODIFICATION_REQ, id, n),
            [Nothing EXCEPT !.update_fars = f, !.update_urrs = u])
SessionDeletionRequest(n, id) ==
    Message(new_session_msg(PFCP_SESSION_DELETION_REQ, id, n), Nothing)
build_session_report_request(n, id, r) ==
    Message(new_session_msg(PFCP_SESSION_REPORT_REQ, id, n),
            [Nothing EXCEPT !.report = Some(r)])

Requests ==
    {HeartbeatRequest(n, t) : n \in Seqs, t \in Ts}
    \cup {AssociationSetupRequest(n, t) : n \in Seqs, t \in Ts}
    \cup {build_session_establishment_request(n, cp, p, f, u) :
             n \in Seqs, cp \in Seids, p \in PdrLists \ {<<>>},
             f \in FarLists \ {<<>>}, u \in UrrLists}
    \cup {SessionModificationRequest(n, id, f, u) :
             n \in Seqs, id \in Seids, f \in FarLists, u \in UrrLists}
    \cup {SessionDeletionRequest(n, id) : n \in Seqs, id \in Seids}
    \cup {build_session_report_request(n, id, r) :
             n \in Seqs, id \in Seids, r \in Reports}

(* The answers to a request that was decoded and is granted.  The header   *)
(* carries the requester's own SEID: from the request when a session is    *)
(* established, from the node's state (any SEID here) otherwise.           *)
CreatedPdrs(pdrs) ==
    LET access == Keep(LAMBDA p : p.source_interface = INTERFACE_ACCESS, pdrs)
    IN  [i \in DOMAIN access |->
            [pdr_id |-> access[i].pdr_id, teid |-> Teid, addr |-> UpfAddr]]

Accepted == [Nothing EXCEPT !.cause = Some(CAUSE_REQUEST_ACCEPTED)]

build_heartbeat_response(n, t) ==
    Message(new_node_msg(PFCP_HEARTBEAT_REQ + 1, n),
            [Nothing EXCEPT !.recovery_ts = Some(t)])
build_association_setup_response(n, t) ==
    Message(new_node_msg(PFCP_ASSOCIATION_SETUP_REQ + 1, n),
            [Accepted EXCEPT !.node_id = Some(UpfAddr), !.features = TRUE,
                             !.recovery_ts = Some(t)])
build_session_establishment_response(n, cp, id, created) ==
    Message(new_session_msg(PFCP_SESSION_ESTABLISHMENT_REQ + 1, cp, n),
            [Accepted EXCEPT !.node_id = Some(UpfAddr),
                             !.fseid = Some([seid |-> id, addr |-> UpfAddr]),
                             !.created_pdrs = created])
(* Modification, Deletion and Report Responses consist of the Cause.       *)
CauseResponse(type, n, id) ==
    Message(new_session_msg(type + 1, id, n), Accepted)

Answers(h, r) ==
    LET n == h.seq_num
    IN  CASE h.msg_type = PFCP_HEARTBEAT_REQ ->
                 {build_heartbeat_response(n, t) : t \in Ts}
          [] h.msg_type = PFCP_ASSOCIATION_SETUP_REQ ->
                 {build_association_setup_response(n, t) : t \in Ts}
          [] h.msg_type = PFCP_SESSION_ESTABLISHMENT_REQ ->
                 {build_session_establishment_response(
                      n, r.fseid.seid, id, CreatedPdrs(r.create_pdrs)) :
                    id \in Seids}
          [] OTHER -> {CauseResponse(h.msg_type, n, id) : id \in Seids}

Init ==
    /\ stage = "idle" /\ req = None /\ wire = <<>> /\ fault = "none"
    /\ seen = None /\ answer = None /\ outcome = None

SendRequest ==
    /\ stage = "idle"
    /\ \E r \in Requests : req' = Some(r) /\ wire' = Build(r.header, r.content)
    /\ stage' = "request"
    /\ UNCHANGED <<fault, seen, answer, outcome>>

(* The receiver's buffer is shorter than the datagram: the rest is lost.   *)
Cut ==
    /\ stage \in {"request", "response"} /\ fault = "none"
    /\ \E n \in 0 .. Len(wire) - 1 : wire' = SubSeq(wire, 1, n)
    /\ fault' = "cut"
    /\ UNCHANGED <<stage, req, seen, answer, outcome>>

(* A peer of another make adds an IE, before or behind the others.         *)
Extend ==
    /\ stage \in {"request", "response"} /\ fault = "none"
    /\ LET head == IF Bit(wire[1], 1) THEN 6 ELSE 5
       IN  \E at \in {head, Len(wire)} :
               wire' = finish(SubSeq(wire, 1, at) \o UnknownIe
                              \o SubSeq(wire, at + 1, Len(wire)))
    /\ fault' = "extended"
    /\ UNCHANGED <<stage, req, seen, answer, outcome>>

(* The other node decodes the request.  decode_header and the decoder of   *)
(* the type decide; what validate finds missing is logged and no more.     *)
ReadRequest(buf) ==
    LET d == DecodeHeader(buf)
    IN  IF d = Err THEN Err
        ELSE LET h == d[1].header
                 r == DecodeRequest(h.msg_type, iter_ies(d[1].body))
             IN  IF r = Err THEN Err
                 ELSE Ok([header |-> h, request |-> r[1]])

ReceiveRequest ==
    /\ stage = "request"
    /\ seen' = ReadRequest(wire)
    /\ IF seen' = Err
       THEN stage' = "refused" /\ UNCHANGED <<wire, answer>>
       ELSE /\ stage' = "response"
            /\ \E a \in Answers(seen'[1].header, seen'[1].request) :
                  answer' = Some(a) /\ wire' = Build(a.header, a.content)
    /\ UNCHANGED <<req, fault, outcome>>

(* The requester validates the answer and takes what it needs from it, as  *)
(* the scenario, all that associate and the single commands but modify do. *)
(* (The heartbeats of keepalive and menu, the menu's add and the single    *)
(* modify look at less, and the menu's delete drops the result of the      *)
(* check: SmfSim has them as they are.)  The UPF takes any Session Report  *)
(* Response for an answer.                                                 *)
ReceiveResponse ==
    /\ stage = "response"
    /\ LET h == req[1].header
       IN  outcome' = Some(
               [valid |-> IF h.msg_type = PFCP_SESSION_REPORT_REQ
                          THEN DecodeHeader(wire) # Err
                          ELSE validate_response(h.msg_type, h.seq_num, wire),
                session |-> IF h.msg_type = PFCP_SESSION_ESTABLISHMENT_REQ
                            THEN extract_session_info(wire) ELSE None,
                recovery_ts |-> extract_recovery_ts(wire)])
    /\ stage' = "done"
    /\ UNCHANGED <<req, wire, fault, seen, answer>>

(* Both nodes are ready for the next request.                              *)
Over ==
    /\ stage \in {"refused", "done"}
    /\ stage' = "idle" /\ req' = None /\ wire' = <<>> /\ fault' = "none"
    /\ seen' = None /\ answer' = None /\ outcome' = None

Next == SendRequest \/ Cut \/ Extend \/ ReceiveRequest \/ ReceiveResponse \/ Over

Spec == Init /\ [][Next]_vars

-----------------------------------------------------------------------------
(* Properties.                                                             *)

(* A datagram is a sequence of fields, a decoded sequence number fits its  *)
(* three octets, and an answer exists only to a request that was decoded.  *)
TypeOK ==
    /\ stage \in {"idle", "request", "response", "refused", "done"}
    /\ fault \in {"none", "cut", "extended"}
    /\ wire \in Seq(Nat)
    /\ \A i \in DOMAIN seen : seen[i].header.seq_num < SeqNumMod
    /\ Len(req) <= 1 /\ Len(seen) <= 1 /\ Len(outcome) <= 1
    /\ Len(answer) = Len(seen)

(* What a parser should make of the parameters the builder was given.      *)
AsPdr(p) ==
    [pdr_id |-> p.pdr_id, precedence |-> p.precedence,
     source_interface |-> p.source_interface,
     local_fteid |-> IF p.fteid_choose THEN Some([teid |-> 0, addr |-> 0])
                                       ELSE None,
     ue_ip |-> p.ue_ip, far_id |-> Some(p.far_id), urr_id |-> p.urr_id,
     outer_header_removal |-> p.outer_header_removal,
     sdf_filter |-> p.sdf_filter]
AsFar(f) == [f EXCEPT !.dest_interface = Some(f.dest_interface)]
AsReport(r) ==
    [urr_id |-> r.urr_id, trigger |-> r.trigger, total |-> r.total,
     ul |-> r.ul, dl |-> r.dl]

AsRead(type, c) ==
    CASE type = PFCP_HEARTBEAT_REQ -> [recovery_ts |-> c.recovery_ts]
      [] type = PFCP_ASSOCIATION_SETUP_REQ ->
             [node_id |-> c.node_id[1], recovery_ts |-> c.recovery_ts[1]]
      [] type = PFCP_SESSION_ESTABLISHMENT_REQ ->
             [node_id |-> c.node_id, fseid |-> c.fseid[1],
              create_pdrs |-> [i \in DOMAIN c.create_pdrs |-> AsPdr(c.create_pdrs[i])],
              create_fars |-> [i \in DOMAIN c.create_fars |-> AsFar(c.create_fars[i])],
              create_urrs |-> c.create_urrs]
      [] type = PFCP_SESSION_MODIFICATION_REQ ->
             [fseid |-> c.fseid,
              update_fars |-> [i \in DOMAIN c.update_fars |-> AsFar(c.update_fars[i])],
              update_urrs |-> c.update_urrs]
      [] type = PFCP_SESSION_DELETION_REQ -> [seid_in_header |-> TRUE]
      [] type = PFCP_SESSION_REPORT_REQ ->
             [reports |-> [i \in DOMAIN c.report |-> AsReport(c.report[i])]]

Asked == AsRead(req[1].header.msg_type, req[1].content)

(* A request that arrives whole, with or without an IE unknown here, is    *)
(* decoded to what its sender put in: builder.rs and ie.rs agree on every  *)
(* IE, present or absent, and the header survives but for the sequence     *)
(* number's upper octet.                                                   *)
RequestUnderstood ==
    stage \in {"refused", "response"} /\ fault # "cut" =>
        /\ seen # Err
        /\ seen[1].request = Asked
        /\ [seen[1].header EXCEPT !.length = 0]
               = [req[1].header EXCEPT !.seq_num = @ % SeqNumMod]
        /\ fault = "none" =>
               seen[1].header.length
                   = Len(Build(req[1].header, req[1].content)) - 3

(* A request cut short by the receiver's buffer is refused or read as the  *)
(* beginning of what was sent: the lists of rules are beginnings of the    *)
(* ones sent, FARs only after all PDRs, URRs only after all FARs, and no   *)
(* rule is half read (iter_ies stops at the first IE not there in full).   *)
CutRequestIsBeginning ==
    stage \in {"response", "done"} /\ Len(seen) = 1 =>
        LET got == seen[1].request
            All(f) == got[f] = Asked[f]
            Begins(f) == IsPrefix(got[f], Asked[f])
        IN  \A f \in DOMAIN got :
               CASE f = "create_fars" ->
                        Begins(f) /\ (got[f] # <<>> => All("create_pdrs"))
                 [] f = "create_urrs" ->
                        Begins(f) /\ (got[f] # <<>> => All("create_fars"))
                 [] f = "update_urrs" ->
                        Begins(f) /\ (got[f] # <<>> => All("update_fars"))
                 [] f \in {"create_pdrs", "update_fars", "reports"} -> Begins(f)
                 [] f = "recovery_ts" /\ req[1].header.msg_type = PFCP_HEARTBEAT_REQ ->
                        got[f] \in {None, Asked[f]}
                 [] OTHER -> All(f)

(* validate_response, where a requester calls it, accepts every answer     *)
(* that comes whole to a request whose sequence number fits the header and *)
(* none to one whose does not; and what any requester takes from an        *)
(* answer, whole or not, is what the UPF put in: never another SEID or     *)
(* tunnel.                                                                 *)
AnswerUnderstood ==
    stage = "done" =>
        LET a == answer[1].content
            o == outcome[1]
            h == req[1].header
            s == [seid |-> a.fseid[1].seid, teid |-> Teid, addr |-> UpfAddr]
        IN  /\ fault # "cut" /\ h.seq_num < SeqNumMod => o.valid
            /\ o.valid /\ h.msg_type # PFCP_SESSION_REPORT_REQ =>
                   h.seq_num < SeqNumMod
            /\ o.session # Err => o.session = Ok(s)
            /\ fault # "cut" /\ a.created_pdrs # <<>> => o.session = Ok(s)
            /\ o.recovery_ts \in {None, a.recovery_ts}

(* The dictionary and the decoders agree: a whole request lacks nothing    *)
(* the dictionary asks for, and a request that could not be decoded lacks  *)
(* something.                                                              *)
DictionaryAgrees ==
    stage \in {"request", "refused"} =>
        LET d == DecodeHeader(wire)
            lacking == validate(d[1].header.msg_type, d[1].body)
        IN  /\ fault # "cut" => lacking = {}
            /\ stage = "refused" => d = Err \/ lacking # {}
=============================================================================
