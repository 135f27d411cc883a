---------------------------- MODULE MCCaResolver ----------------------------
(* Instances of CaResolver for TLC.                                         *)
EXTENDS CaResolver

CONSTANTS q1, q2

\* The second query asks for IPv4 addresses only.
MCIpVersion == [q \in Queries |-> IF q = q2 THEN {"v4"} ELSE Families]

Record(host, port, priority, weight) ==
    [host |-> host, port |-> port, priority |-> priority, weight |-> weight]

Zone(fileA, dnsA, dnsB, service, mx) ==
    [file |-> [a |-> fileA, b |-> {}], dns |-> [a |-> dnsA, b |-> dnsB], service |-> service, mx |-> mx]

\* Targets of different and of the same priority, names without addresses,
\* a hosts file, and MX answers with addresses among their targets.
MCZones ==
    {Zone({}, {"v4", "v6"}, {"v6"},
          {Record("a", 1, 1, 0), Record("b", 2, 2, 0)}, {Record("b", 0, 1, 0), Record("v4", 0, 2, 0)}),
     Zone({"v6"}, {}, {"v4"},
          {Record("a", 1, 1, 1), Record("b", 0, 1, 2)}, {Record("v6", 0, 1, 0), Record("b", 0, 2, 0)}),
     Zone({}, {"v4"}, {}, {}, {Record("b", 0, 1, 0)})}
=============================================================================
