-------------------------------- MODULE DnsCheck --------------------------------
(***************************************************************************)
(* How one resolver comes to a verdict about one domain: an A and an AAAA   *)
(* query over UDP, with TCP behind a truncated answer (liveness/net.rs),    *)
(* the reading of each answer along its CNAME chain, and the verdict of the *)
(* two (liveness/lookup.rs). Pure definitions: HonestVerdicts is what a     *)
(* resolver that reports the zones as they are can make the code say.       *)
(*                                                                          *)
(* A zone maps a name to its addresses ("both" families, one, or "none"),   *)
(* to the name it is an alias of, or to "absent".                           *)
(***************************************************************************)
EXTENDS Integers

CONSTANTS
  Targets,  (* Names a chain may lead to, beside the queried one *)
  MaxHops   (* MAX_CHAIN_HOPS *)

Families == {"A", "AAAA"}
Data == {"absent", "none", "A", "AAAA", "both"}
Queried == "queried"
Names == {Queried} \cup Targets

ASSUME TargetsAssumption == Names \cap Data = {}
ASSUME HopsAssumption == MaxHops \in Nat \ {0}

Zones == [Names -> Data \cup Names]
Registered(zone) == zone[Queried] # "absent"
Holds(data, family) == data \in {family, "both"}

\* What one lookup comes to: LookupResult, the reasons of Unknown taken together
\* and an NxDomain with an Extended DNS Error that is_filtering_ede names apart.
Results == {"Resolved", "NxDomain", "Filtered", "ViaChain", "Unknown"}

-----------------------------------------------------------------------------
(* What an honest resolver sends *)

\* The queried name and the names its chain leads to.
Reached(zone) ==
  {n \in Names :
     \A S \in SUBSET Names :
       (Queried \in S /\ \A m \in S : zone[m] \in Names => zone[m] \in S) => n \in S}

\* The code of the chain's last name; a chain without one is a failure.
Rcode(zone) ==
  IF \A n \in Reached(zone) : zone[n] \in Names THEN "ServFail"
  ELSE IF \E n \in Reached(zone) : zone[n] = "absent" THEN "NXDomain"
  ELSE "NoError"

Answer(zone, family) ==
  [rcode |-> Rcode(zone), echo |-> TRUE, truncated |-> FALSE, flagged |-> FALSE,
   cname |-> {<<n, zone[n]>> : n \in {m \in Reached(zone) : zone[m] \in Names}},
   addr |-> {n \in Reached(zone) : Holds(zone[n], family)}]

Bare(rcode, echo, flagged) ==
  [rcode |-> rcode, echo |-> echo, truncated |-> FALSE, flagged |-> flagged,
   cname |-> {}, addr |-> {}]

\* RCODEs that say nothing of the name; YXDomain is of a DNAME above it.
Failures == {"ServFail", "Refused", "FormErr", "NotImp", "YXDomain", "BadVers"}

\* Beside the answer: a failure, a denial out of policy or out of a stale cache,
\* flagged as such, and what was sent for another question.
Messages(zone, family) ==
  {Answer(zone, family)}
    \cup {Bare(rcode, TRUE, FALSE) : rcode \in Failures}
    \cup {Bare("NXDomain", TRUE, TRUE), Bare("NXDomain", FALSE, FALSE)}

\* An answer too long for UDP arrives without some of its records.
Truncations(message) ==
  {[rcode |-> message.rcode, echo |-> TRUE, truncated |-> TRUE, flagged |-> FALSE,
    cname |-> c, addr |-> a] : c \in SUBSET message.cname, a \in SUBSET message.addr}

-----------------------------------------------------------------------------
(* liveness/net.rs *)

\* query_with_tcp_fallback_inner
Taken(udp, tcp) == IF udp.truncated THEN tcp ELSE udp

\* The names interpret_response visits before hop k, the addresses of each looked
\* for before its alias.
Walks(message, k) ==
  {w \in [0..k -> Names] :
     /\ w[0] = Queried
     /\ \A i \in 0..(k - 1) :
          /\ w[i] \notin message.addr
          /\ <<w[i], w[i + 1]>> \in message.cname
          /\ \A j \in 0..(i - 1) : w[j] # w[i]}

Arrives(message) ==
  \E k \in 0..(MaxHops - 1) : \E w \in Walks(message, k) :
    w[k] \in message.addr /\ \A j \in 0..(k - 1) : w[j] # w[k]

Loops(message) ==
  \E k \in 0..(MaxHops - 1) : \E w \in Walks(message, k) : \E j \in 0..(k - 1) : w[j] = w[k]

\* Seeded fault: the RCODE is taken to be about the queried name.
InterpretUnchained(message) ==
  IF Arrives(message) THEN "Resolved"
  ELSE IF Loops(message) THEN "Unknown"
  ELSE IF message.rcode = "NXDomain" THEN IF message.flagged THEN "Filtered" ELSE "NxDomain"
  ELSE IF message.rcode = "YXDomain" THEN "ViaChain"
  ELSE "Unknown"

\* interpret_response. followed_chain is an alias at the queried name.
Interpret(message) ==
  IF Arrives(message) THEN "Resolved"
  ELSE IF Loops(message) THEN "Unknown"
  ELSE IF message.rcode = "YXDomain" THEN "ViaChain"
  ELSE IF message.rcode # "NXDomain" THEN "Unknown"
  ELSE IF \E n \in Names : <<Queried, n>> \in message.cname THEN "ViaChain"
  ELSE IF message.flagged THEN "Filtered"
  ELSE "NxDomain"

\* lookup_async: check_response_echo before interpret_response. A query that times
\* out, cannot be sent, or is answered with what does not decode says "Unknown";
\* its retries (query_udp_with_retry) and its deadline only choose which message,
\* if any, is taken.
Lookup(zone, family) ==
  {"Unknown"} \cup
    {IF Taken(udp, tcp).echo THEN Interpret(Taken(udp, tcp)) ELSE "Unknown" :
       udp \in Messages(zone, family) \cup Truncations(Answer(zone, family)),
       tcp \in Messages(zone, family)}

-----------------------------------------------------------------------------
(* liveness/lookup.rs *)

\* combine. The AAAA query check saves when A resolves could not change it.
Combine(a, aaaa) ==
  IF "Resolved" \in {a, aaaa} THEN "Alive"
  ELSE IF a = "NxDomain" /\ aaaa = "NxDomain" THEN "Dead"
  ELSE "Unknown"

\* What a lookup can come to while the domain is registered, or is not.
LookupsWhile ==
  [up \in BOOLEAN |-> [family \in Families |->
     UNION {Lookup(zone, family) : zone \in {z \in Zones : Registered(z) = up}}]]

\* check, for a domain whose registration goes through the states in `ups`
\* while the two queries are made.
HonestVerdicts ==
  [ups \in (SUBSET BOOLEAN) \ {{}} |->
     UNION {{Combine(a, aaaa) : a \in LookupsWhile[u]["A"], aaaa \in LookupsWhile[w]["AAAA"]} :
              u \in ups, w \in ups}]

=============================================================================
