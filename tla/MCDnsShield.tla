------------------------------- MODULE MCDnsShield -------------------------------
(***************************************************************************)
(* An instance of DnsShield: a tenant of a private suffix whose domain is     *)
(* listed, a name that only a keyword can block, one that the allowlist and   *)
(* one that an explicit rule exempts from the keyword, one that does not      *)
(* normalize, and packets that are no queries. With it the bounded checks of    *)
(* PacketFilter, which has no state: addresses of 3 and of 6 bits, a rule that *)
(* ties with an earlier one, and hellos with each of their lengths off by one.  *)
(***************************************************************************)
EXTENDS PacketFilter

Tenant == <<"io", "github", "fresh", "www">>
Fresh == <<"com", "cdnfresh">>
Mine == <<"com", "fresh", "mine">>
Api == <<"com", "fresh", "api", "v2">>
Odd == <<"com", "x_">>

MCDomains == {Tenant, Fresh, Mine, Api}
MCLabels == {"io", "github", "fresh", "www", "com", "cdnfresh", "mine", "api", "v2", "deep"}
MCKey == [n \in MCDomains \cup {Odd} |-> IF n = Odd THEN Nothing ELSE n]
MCAllowed == {Mine}
MCExplicit == (<<"com", "fresh">> :> "Block") @@ (<<"com", "fresh", "api">> :> "Allow")
                @@ (<<"com", "fresh", "api", "v2", "deep">> :> "Block")
MCArtifact == (<<"io", "github", "fresh">> :> "Apex") @@ (<<"com">> :> "ExactHost")
                @@ (<<"com", "fresh", "mine">> :> "ExactHost")
MCListed == {Tenant, Mine}
MCSuffixes == (<<"com">> :> "icann") @@ (<<"io">> :> "icann") @@ (<<"io", "github">> :> "private")
MCCarries == [w \in {"fresh", "mail"} |-> IF w = "fresh" THEN {"fresh", "cdnfresh"} ELSE {"x_"}]

Query(n) ==
  [size |-> 80, version |-> 4, ihl |-> 5, total |-> 70, fragment |-> FALSE, protocol |-> 17,
   src |-> <<"client", 41234>>, dst |-> <<"resolver", 53>>, udplen |-> 50,
   message |-> [size |-> 60, id |-> 1, response |-> FALSE, opcode |-> 0, questions |-> 1,
                readable |-> TRUE, name |-> n, wire |-> 26, records |-> 1, rcode |-> 0]]

MCPackets ==
  {Query(n) : n \in MCDomains \cup {Odd}} \cup
  {[Query(Fresh) EXCEPT !.total = 81], [Query(Fresh) EXCEPT !.udplen = 49 - 8],
   [Query(Fresh) EXCEPT !.fragment = TRUE], [Query(Fresh) EXCEPT !.dst = <<"resolver", 443>>],
   [Query(Fresh) EXCEPT !.message.response = TRUE], [Query(Fresh) EXCEPT !.message.wire = 300]}

-----------------------------------------------------------------------------
(* PacketFilter *)

MCMapped == <<0, 0, 1>>

Rule(family, bits, len, action) ==
  [family |-> family, bits |-> bits, len |-> len, action |-> action]

MCIpRules ==
  << Rule(4, <<1, 0, 0>>, 1, "Block"), Rule(6, <<0, 1, 0, 0, 1, 0>>, 2, "Allow"),
     Rule(4, <<1, 0, 1>>, 3, "Allow"), Rule(4, <<1, 1, 0>>, 1, "Proxy"),
     Rule(6, <<0, 1, 1, 0, 1, 1>>, 6, "Block") >>

Addresses(family) == [1..(IF family = 4 THEN 3 ELSE 6) -> {0, 1}]

\* The rules of an address's own family that cover it, by the text of the rule.
OwnRules(family, addr) ==
  {i \in DOMAIN MCIpRules :
     /\ MCIpRules[i].family = family
     /\ \A k \in 1..MCIpRules[i].len : MCIpRules[i].bits[k] = addr[k]}

\* Whatever the order of the rules and the family of an address, the longest rule on it
\* decides, of two with one length the earlier, and with none the proxy (IpFilter). Rules
\* of length 0 and IPv6 addresses of mapped ones are not among the inputs.
ASSUME LongestRuleDecides ==
  \A family \in {4, 6} : \A addr \in Addresses(family) :
    LET own == OwnRules(family, addr)
        longest == {i \in own : \A j \in own : MCIpRules[j].len <= MCIpRules[i].len}
    IN (family = 6 => SubSeq(addr, 1, 3) # MCMapped) =>
         IpLookup(family, addr) = IF own = {} THEN "Proxy" ELSE MCIpRules[Min(longest)].action

Ext(type, name) ==
  [type |-> type, len |-> IF type = 0 THEN 10 ELSE 3, list |-> 8, kind |-> 0, namelen |-> 5,
   name |-> name]

\* A hello of 58 bytes before its extensions, which take 14 for the name and 7 for another.
Hello(exts) ==
  LET total == SumFunction([i \in DOMAIN exts |-> 4 + exts[i].len])
  IN [type |-> 22, record |-> 53 + total, msg |-> 1, handshake |-> 49 + total, session |-> 4,
      ciphers |-> 4, methods |-> 1, total |-> total, extensions |-> exts]

ExtLists(n) == {<<Ext(0, n)>>, <<Ext(0, n), Ext(16, n)>>, <<Ext(16, n), Ext(0, n)>>}
Bend(h, field, by) == [h EXCEPT ![field] = @ + by]
BentHellos ==
  {Bend(Hello(x), field, by) : x \in ExtLists(Fresh), by \in {-1, 0, 1},
     field \in {"record", "handshake", "session", "ciphers", "methods", "total"}}
  \cup {Hello(<<Bend(Ext(0, Fresh), field, by)>>) :
          field \in {"list", "namelen", "kind"}, by \in {-1, 0, 1}}

\* A hello whose lengths agree gives its name wherever its extension stands, and no name
\* is read past the buffer, whichever length is wrong and however short the buffer is
\* (extract_sni).
ASSUME NamesAreRead ==
  /\ \A x \in ExtLists(Fresh) : ExtractSni(Hello(x), 5 + Hello(x).record) = Fresh
  /\ \A h \in BentHellos, avail \in 60..90 :
       ExtractSni(h, avail) # Nothing => \E i \in ServerNames(h) : NameEnd(h, i) <= avail

NoHello == [Hello(<<>>) EXCEPT !.type = 23]

Segment(version, nibble, room, port, n, addr) ==
  LET header == IF version = 4 THEN 4 * nibble ELSE 40
  IN [version |-> version, nibble |-> nibble, len |-> header + room, protocol |-> 6, dst |-> addr,
      dport |-> [o \in 0..60 |-> IF o = header THEN port ELSE 0],
      offset |-> [o \in 0..60 |-> IF o = header THEN 5 ELSE 0],
      hello |-> [o \in 0..120 |-> IF o = header + 20 /\ n # <<>> THEN Hello(<<Ext(0, n)>>) ELSE NoHello]]

Names == {Mine, Api, Fresh, <<"com", "fresh", "api">>, <<"com", "fresh", "www">>}

\* A whole HTTPS segment over IPv4, with or without options, goes where the explicit rules
\* on its name say, one without a name where those on its address do, and only one cut
\* before its data offset is read past its end (process_packet).
ASSUME SegmentsAreRouted ==
  \A nibble \in 5..7, addr \in Addresses(4) :
    /\ \A n \in Names :
         ProcessPacket(Segment(4, nibble, 100, 443, n, addr)) = Dispatch(DomainLookup(n))
    /\ \A port \in {80, 443} :
         ProcessPacket(Segment(4, nibble, 40, port, <<>>, addr)) = Dispatch(IpLookup(4, addr))
    /\ \A room \in 4..40 :
         ProcessPacket(Segment(4, nibble, room, 443, <<>>, addr)) = "panics" <=> room <= 12

\* Over IPv6 the name is looked for where the class of the traffic says and not behind the
\* header: with the default class and a source whose fifth byte is below 240, the rules on
\* names never see an HTTPS segment.
ASSUME Ipv6NamesAreMissed ==
  \A addr \in Addresses(6), n \in Names, source \in 0..14 :
    ProcessPacket([Segment(6, 0, 100, 443, n, addr) EXCEPT !.offset[0] = source])
      = Dispatch(IpLookup(6, addr))

=============================================================================
