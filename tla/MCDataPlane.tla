---- MODULE MCDataPlane ----
(* Small instances of DataPlane for TLC. *)
EXTENDS DataPlane, TLC

CONSTANTS ue1, ue2, gnb1, gnb2, gnb3, gnb4

NoFilter == [f \in SdfFields |-> 0]
Filter(f, n) == [NoFilter EXCEPT ![f] = n]
Rule(id, precedence, iface, sdf, far) ==
    [id |-> id, precedence |-> precedence, iface |-> iface, sdf |-> sdf, far |-> far]
FarRule(id, action) == [id |-> id, action |-> {action}]

\* Uplink TCP is dropped, all other uplink forwarded, the downlink goes to
\* the gNB.
Tcp == [pdrs |-> <<Rule(1, 20, IFACE_ACCESS, NoFilter, 1), Rule(2, 10, IFACE_ACCESS, Filter("proto", 6), 2),
                   Rule(3, 20, IFACE_CORE, NoFilter, 3)>>,
        fars |-> <<FarRule(1, "FORW"), FarRule(2, "DROP"), FarRule(3, "FORW")>>, access |-> 3]
\* The same rule IDs with other meanings, and an equal precedence that is
\* decided by order.
Other == [pdrs |-> <<Rule(3, 20, IFACE_ACCESS, NoFilter, 3), Rule(1, 20, IFACE_ACCESS, NoFilter, 1)>>,
          fars |-> <<FarRule(3, "FORW"), FarRule(1, "DROP")>>, access |-> 3]
\* More PDRs than the array takes, a missing FAR and a buffering one.
Wild == [pdrs |-> <<Rule(1, 10, IFACE_CORE, NoFilter, 4), Rule(2, 20, IFACE_CORE, NoFilter, 1),
                    Rule(3, 255, IFACE_ACCESS, NoFilter, 1), Rule(4, 10, IFACE_ACCESS, NoFilter, 1)>>,
         fars |-> <<FarRule(1, "BUFF")>>, access |-> 1]

Rules == 1 :> Tcp @@ 2 :> Other @@ 3 :> Wild
UeOfSession == 1 :> ue1 @@ 2 :> ue2 @@ 3 :> ue1
TunnelsOfSession == 1 :> {gnb1, gnb2} @@ 2 :> {gnb3} @@ 3 :> {gnb4}
Packet(dir, ue, proto) ==
    [dir |-> dir, ue |-> ue, proto |-> proto, src_ip |-> 9, dst_ip |-> 8, src_port |-> 0, dst_port |-> 0]
Traffic == {Packet("ul", ue1, 6), Packet("ul", ue1, 17), Packet("dl", ue1, 17),
            Packet("ul", ue2, 6)}

OneTcp == 1 :> Tcp
UeOfOne == 1 :> ue1
TunnelsOfOne == 1 :> {gnb1, gnb2}
UplinkTraffic == {Packet("ul", ue1, 6)}
====
