-------------------------------- MODULE Datagram --------------------------------
(***************************************************************************)
(* What net-shield reads of a packet from the tunnel and what it writes back: *)
(* the IPv4/UDP framing of udp.rs and the DNS messages of dns.rs, as          *)
(* operators. A packet is a record of the fields the parser looks at, its     *)
(* sizes among them; a message likewise, its name already a sequence of       *)
(* labels. Checksums are written and never read, and are left out.            *)
(***************************************************************************)
EXTENDS Naturals

Ipv4MinHeaderLen == 20
UdpHeaderLen == 8
Ipv4MaxTotalLen == 2^16 - 1
ProtoUdp == 17
PortDns == 53
HeaderLen == 12
MaxNameWireLen == 255
NxDomain == 3

-----------------------------------------------------------------------------
(* udp.rs *)

\* size is what the tunnel handed over; total and udplen are what the headers claim.
ParsesUdp(p) ==
  LET header == 4 * p.ihl
  IN /\ p.size >= Ipv4MinHeaderLen
     /\ p.version = 4
     /\ header >= Ipv4MinHeaderLen
     /\ header <= p.total /\ p.total <= p.size
     /\ ~p.fragment
     /\ p.protocol = ProtoUdp
     /\ header + UdpHeaderLen <= p.total
     /\ UdpHeaderLen <= p.udplen /\ header + p.udplen <= p.total

\* The claimed length cuts the payload: bytes after it are not of the message.
Payload(p) == [p.message EXCEPT !.size = p.udplen - UdpHeaderLen]

Fits(m) == Ipv4MinHeaderLen + UdpHeaderLen + m.size <= Ipv4MaxTotalLen

BuildUdp(src, dst, m) ==
  LET total == Ipv4MinHeaderLen + UdpHeaderLen + m.size
  IN [size |-> total, version |-> 4, ihl |-> 5, total |-> total, fragment |-> FALSE,
      protocol |-> ProtoUdp, src |-> src, dst |-> dst, udplen |-> UdpHeaderLen + m.size,
      message |-> m]

\* The endpoints, each an address and a port, change places.
ReplyTo(p, m) == BuildUdp(p.dst, p.src, m)

-----------------------------------------------------------------------------
(* dns.rs *)

\* wire is the size of the encoded name, its root byte included: that byte is counted
\* after the last check, so the parser takes names one byte longer than MaxNameWireLen.
QuestionEnd(m) == HeaderLen + m.wire + 4

\* readable: no compression, no label cut short, all of it UTF-8.
ParsesQuery(m) ==
  /\ m.size >= HeaderLen
  /\ ~m.response
  /\ m.opcode = 0
  /\ m.questions = 1
  /\ m.readable
  /\ m.wire <= MaxNameWireLen + 1
  /\ QuestionEnd(m) <= m.size

\* The header and the question of the query, with no other section.
NxDomainResponse(m) ==
  [m EXCEPT !.size = QuestionEnd(m), !.response = TRUE, !.rcode = NxDomain, !.records = 0]

=============================================================================
