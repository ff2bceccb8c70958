------------------------------- MODULE PacketFilter -------------------------------
(***************************************************************************)
(* The filter of whole packets of net-shield: NetShield.process_packet of     *)
(* lib.rs with the parsers of tun.rs, the server name of sni.rs and the       *)
(* IpFilter of radix.rs. It keeps no state: one operator from a frame to what *)
(* the sink is told. Of the policy of DnsShield it has the explicit rules     *)
(* only.                                                                     *)
(*                                                                           *)
(* A frame says, for each offset that may be taken for the start of a header, *)
(* what would be read there: the length of a frame and the offsets decide     *)
(* whether it may be. An address is a sequence of bits.                       *)
(***************************************************************************)
EXTENDS DnsShield

CONSTANTS
  V4Width,     (* bits of an IPv4 address *)
  Mapped,      (* the bits ::ffff:0:0/96 that ip_to_u128 puts before them *)
  IpRules      (* the rules of the IpFilter, a sequence of [family, bits, len, action] *)

ProtoTcp == 6
PortHttp == 80
PortHttps == 443

ASSUME IpRulesAssumption ==
  \A i \in DOMAIN IpRules :
    /\ IpRules[i].len <= Len(IpRules[i].bits)
    /\ Len(IpRules[i].bits) = IF IpRules[i].family = 4 THEN V4Width ELSE Len(Mapped) + V4Width

-----------------------------------------------------------------------------
(* IpFilter *)

IpToBits(family, bits) == IF family = 4 THEN Mapped \o bits ELSE bits

\* parse_cidr: the bits the mask keeps. A prefix of length 0 keeps none, of either family.
Kept(rule) ==
  IF rule.len = 0 THEN 0 ELSE rule.len + (IF rule.family = 4 THEN Len(Mapped) ELSE 0)

Covers(rule, bits) ==
  SubSeq(bits, 1, Kept(rule)) = SubSeq(IpToBits(rule.family, rule.bits), 1, Kept(rule))

\* The scan of the entries, sorted by the length as it was written; the sort is stable.
IpLookup(family, addr) ==
  LET bits == IpToBits(family, addr)
      hits == {i \in DOMAIN IpRules : Covers(IpRules[i], bits)}
      before(i, j) == \/ IpRules[i].len > IpRules[j].len
                      \/ IpRules[i].len = IpRules[j].len /\ i <= j
  IN IF hits = {} THEN "Proxy"
     ELSE IpRules[CHOOSE i \in hits : \A j \in hits : before(i, j)].action

\* DomainFilter.lookup; a server name is not normalized first.
DomainLookup(n) == IF RuleFor(n) = Nothing THEN "Proxy" ELSE RuleFor(n)

-----------------------------------------------------------------------------
(* extract_sni. A hello has the fields in the order of the parse, each as it is read *)
(* where the lengths before it lead; avail is what the buffer has from its start on. *)

\* Where the extensions start, and where each of them does.
CipherSuites(h) == 9 + 34 + 1 + h.session
Compression(h) == CipherSuites(h) + 2 + h.ciphers
Extensions(h) == Compression(h) + 1 + h.methods + 2
ExtensionAt(h, i) ==
  Extensions(h)
    + SumFunctionOnSet([j \in DOMAIN h.extensions |-> 4 + h.extensions[j].len], 1..i - 1)

ExtensionsEnd(h) == Extensions(h) + h.total

IsHello(h, avail) ==
  /\ 5 + h.record <= avail
  /\ h.type = 22 /\ h.msg = 1
  /\ 9 + h.handshake <= 5 + h.record
  /\ ExtensionsEnd(h) <= 9 + h.handshake

\* The first server_name extension the walk gets to: each one before it has to end in time.
ServerNames(h) ==
  {i \in DOMAIN h.extensions :
     /\ h.extensions[i].type = 0
     /\ \A j \in 1..i - 1 : h.extensions[j].type # 0
     /\ ExtensionAt(h, i + 1) <= ExtensionsEnd(h)}

\* Its list and its name have to end where the extensions do, not where it does.
NameEnd(h, i) == ExtensionAt(h, i) + 4 + 5 + h.extensions[i].namelen

NameFits(h, i) ==
  LET e == h.extensions[i]
  IN /\ e.len >= 5 /\ e.list >= 3
     /\ ExtensionAt(h, i) + 4 + 2 + e.list <= ExtensionsEnd(h)
     /\ e.kind = 0
     /\ NameEnd(h, i) <= ExtensionsEnd(h)

ExtractSni(h, avail) ==
  IF \E i \in ServerNames(h) : IsHello(h, avail) /\ NameFits(h, i)
  THEN h.extensions[CHOOSE i \in ServerNames(h) : TRUE].name
  ELSE Nothing

-----------------------------------------------------------------------------
(* process_packet *)

\* parse_ipv4_packet. The header length is not held against its least, 20.
ParsesIpv4(f) ==
  /\ f.len >= 20 /\ f.version = 4
  /\ f.len >= 4 * f.nibble + 4

ParsesIpv6(f) ==
  /\ f.len >= 40 /\ f.version = 6
  /\ f.protocol \in {ProtoTcp, ProtoUdp} => f.len >= 44

\* Where the two parsers read the ports; other protocols have none.
PortsAt(f) == IF f.version = 4 THEN 4 * f.nibble ELSE 40
DstPort(f) == IF f.protocol \in {ProtoTcp, ProtoUdp} THEN f.dport[PortsAt(f)] ELSE 0

\* The low half of the first byte is taken for the header length, in IPv6 as well.
Ihl(f) == 4 * f.nibble
PayloadStart(f) == Ihl(f) + 4 * f.offset[Ihl(f)]

\* raw[ihl + 12] is past the end of a segment that has no room for its data offset.
IndexesPastEnd(f) == f.len <= Ihl(f) + 12

\* raw.get(payload_start..) is None past the end.
Sni(f) ==
  IF PayloadStart(f) > f.len THEN Nothing
  ELSE ExtractSni(f.hello[PayloadStart(f)], f.len - PayloadStart(f))

\* dispatch: each action is one call of the sink.
Dispatch(action) ==
  CASE action = "Block" -> "drop_packet"
    [] action = "Allow" -> "pass_packet"
    [] action = "Proxy" -> "redirect_to_proxy"

ProcessPacket(f) ==
  IF ~(ParsesIpv4(f) \/ ParsesIpv6(f)) THEN "ignored"
  ELSE IF f.protocol = ProtoTcp /\ DstPort(f) = PortHttps
    THEN IF IndexesPastEnd(f) THEN "panics"
         ELSE Dispatch(IF Sni(f) # Nothing THEN DomainLookup(Sni(f)) ELSE IpLookup(f.version, f.dst))
  ELSE IF f.protocol = ProtoTcp /\ DstPort(f) = PortHttp THEN Dispatch(IpLookup(f.version, f.dst))
  ELSE Dispatch("Allow")

=============================================================================
