---------------------------- MODULE MCPfcpCodec ----------------------------
(* Small lists of rules: every combination of the optional parts of one    *)
(* PDR, and lists of two rules of which one is full and one is bare.       *)
EXTENDS PfcpCodec

Filter == [proto |-> 6, src_ip |-> 7, dst_ip |-> 0, src_port |-> 5, dst_port |-> 0]

MCPdrParams ==
    [pdr_id : {1}, precedence : {9}, source_interface : {0, 1},
     fteid_choose : BOOLEAN, ue_ip : {None, Some(7)}, far_id : {3},
     urr_id : {None, Some(2)}, outer_header_removal : BOOLEAN,
     sdf_filter : {None, Some(Filter)}]
Full == [pdr_id |-> 1, precedence |-> 9, source_interface |-> 0,
         fteid_choose |-> TRUE, ue_ip |-> Some(7), far_id |-> 3,
         urr_id |-> Some(2), outer_header_removal |-> TRUE,
         sdf_filter |-> Some(Filter)]
Bare == [pdr_id |-> 2, precedence |-> 8, source_interface |-> 1,
         fteid_choose |-> FALSE, ue_ip |-> None, far_id |-> 4,
         urr_id |-> None, outer_header_removal |-> FALSE, sdf_filter |-> None]
MCPdrLists == {<<>>, <<Full, Bare>>, <<Bare, Full>>} \cup {<<p>> : p \in MCPdrParams}

Tunnelled == [far_id |-> 3, apply_action |-> 2, dest_interface |-> 0,
              outer_header_creation |-> Some([teid |-> 5, peer_addr |-> 7])]
Plain == [far_id |-> 4, apply_action |-> 1, dest_interface |-> 1,
          outer_header_creation |-> None]
MCFarLists == {<<>>, <<Plain>>, <<Tunnelled, Plain>>, <<Plain, Tunnelled>>}

Urr(t, p) == [urr_id |-> 2, measurement_method |-> 2, reporting_triggers |-> 3,
              volume_threshold_total |-> t, measurement_period |-> p]
MCUrrLists == {<<>>} \cup {<<Urr(t, p)>> : t \in {None, Some(6)}, p \in {None, Some(5)}}

MCReports == [urr_id : {2}, ur_seqn : {0, 1}, trigger : {1, 2}, total : {3},
              ul : {1}, dl : {2}]

(* Type 99, three fields that would read as the beginning of a Cause IE.   *)
MCUnknownIe == <<99, 3, 19, 1, 0>>
=============================================================================
