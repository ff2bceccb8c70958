-------------------------------- MODULE DnsShield --------------------------------
(***************************************************************************)
(* The decision on one packet: DnsShield of net-shield's dns_shield.rs, over  *)
(* the look-up worker of Lookup, with set_keywords on a thread of its own.    *)
(* inspect holds the read lock of the keywords from its first look at the     *)
(* policy to its verdict, so a look-up under way keeps set_keywords waiting,  *)
(* and a waiting set_keywords keeps new inspections waiting.                  *)
(*                                                                           *)
(* A name is the sequence of its labels, the root's child first: a rule       *)
(* covers the names it is a prefix of.                                        *)
(***************************************************************************)
EXTENDS Lookup, Datagram, SequencesExt

CONSTANTS
  LabelSet,    (* labels of names *)
  Packets,     (* what the tunnel may hand over *)
  Key,         (* normalize: each name read to its key, or Nothing *)
  Allowed,     (* the entries of the allowlist *)
  Explicit,    (* the rules of the DomainFilter: each key to its action *)
  Artifact,    (* the keys of the artifact: each to its scope *)
  PublicSuffixes,    (* the public suffix list: each suffix to "icann" or "private" *)
  Words,       (* what set_keywords may be called with *)
  Usable,      (* those words normalize_token takes *)
  Carries      (* Carries[word]: the labels that contain it *)

Messages ==
  [size : Nat, id : Nat, response : BOOLEAN, opcode : Nat, questions : Nat,
   readable : BOOLEAN, name : DOMAIN Key, wire : Nat, records : Nat, rcode : Nat]

ASSUME KeyAssumption == \A n \in DOMAIN Key : Key[n] \in Domains \cup {Nothing}
ASSUME PacketsAssumption == Nothing \notin Packets /\ \A p \in Packets : p.message \in Messages
ASSUME NamesAssumption ==
  Domains \cup Allowed \cup DOMAIN Explicit \subseteq Seq(LabelSet) \ {<<>>}
ASSUME ActionsAssumption ==
  /\ Nothing \notin {"Allow", "Block", "Proxy"}
  /\ \A r \in DOMAIN Explicit : Explicit[r] \in {"Allow", "Block", "Proxy"}

VARIABLES
  packet,      (* what each thread waits for the worker with, else Nothing *)
  readers,     (* the threads that hold the read lock of the keywords *)
  tokens,      (* the keywords in force *)
  wanted,      (* the set of keywords set_keywords waits to put there, if any *)
  verdict      (* what an inspect that has just returned said, else Nothing *)

shieldVars == <<packet, readers, tokens, wanted, verdict>>
allVars == <<vars, shieldVars>>

ShieldInit ==
  /\ Init
  /\ packet = [c \in Callers |-> Nothing]
  /\ readers = {} /\ tokens = {} /\ wanted = {}
  /\ verdict = Nothing

-----------------------------------------------------------------------------
(* The rules *)

Labels(n, k) == SubSeq(n, 1, k)

\* BlocklistArtifact.lookup: one exact get per label boundary, the shortest first.
ArtifactBlocks(n) ==
  \E k \in 1..Len(n) :
    /\ Labels(n, k) \in DOMAIN Artifact
    /\ Artifact[Labels(n, k)] = "Apex" \/ (k = Len(n) /\ Artifact[n] = "ExactHost")

ASSUME ListedByArtifact == Listed = {n \in Domains : ArtifactBlocks(n)}

AllowlistContains(n) == \E k \in 1..Len(n) : Labels(n, k) \in Allowed

\* rule_for walks down the trie while there is a child and keeps the last rule it met.
RuleFor(n) ==
  LET node(k) == \E r \in DOMAIN Explicit : IsPrefix(Labels(n, k), r)
      met == {k \in 1..Len(n) : (\A j \in 1..k : node(j)) /\ Labels(n, k) \in DOMAIN Explicit}
  IN IF met = {} THEN Nothing
     ELSE Explicit[Labels(n, CHOOSE k \in met : \A j \in met : j <= k)]

\* The longest listed suffix, and by default the top-level domain.
SuffixLen(n) ==
  LET known == {k \in 1..Len(n) : Labels(n, k) \in DOMAIN PublicSuffixes}
  IN IF known = {} THEN 1 ELSE CHOOSE k \in known : \A j \in known : j <= k

UnderPrivateSuffix(n) ==
  LET suffix == Labels(n, SuffixLen(n))
  IN suffix \in DOMAIN PublicSuffixes /\ PublicSuffixes[suffix] = "private"

\* Exact and Contains both match: a label that equals the token contains it.
KeywordMatches(words, n) ==
  /\ ~UnderPrivateSuffix(n)
  /\ \E k \in SuffixLen(n) + 1..Len(n), w \in words : n[k] \in Carries[w]

ResolveAction(words, n) ==
  IF AllowlistContains(n) THEN "Allow"
  ELSE IF RuleFor(n) # Nothing THEN RuleFor(n)
  ELSE IF KeywordMatches(words, n) THEN "Block"
  ELSE Nothing

-----------------------------------------------------------------------------
(* inspect *)

Asks(p) == ParsesUdp(p) /\ p.dst[2] = PortDns /\ ParsesQuery(Payload(p))
NameOf(p) == Key[p.message.name]

\* looked: what the look-up came to, Nothing if there was none.
Ruled(p, action, looked) ==
  LET refusal == NxDomainResponse(Payload(p))
  IN IF action # "Block" THEN [packet |-> p, kind |-> "Forward", looked |-> looked]
     ELSE IF Fits(refusal)
       THEN [packet |-> p, kind |-> "Blocked", looked |-> looked, reply |-> ReplyTo(p, refusal)]
     ELSE [packet |-> p, kind |-> "Ignore", looked |-> looked]

\* The default of the worker is Proxy.
RuledBy(p, r) == Ruled(p, IF r.by = "Block" THEN "Block" ELSE "Proxy", r)

\* A waiting writer holds new readers off: RwLock of the standard library.
ReadLockable == wanted = {}

\* Not a query to a resolver: dropped, whatever it is.
Ignore(c, p) ==
  /\ packet[c] = Nothing
  /\ ~Asks(p)
  /\ verdict' = Nothing
  /\ UNCHANGED <<vars, packet, readers, tokens, wanted>>

\* A name that does not normalize is forwarded without a look at the policy.
Pass(c, p) ==
  /\ packet[c] = Nothing
  /\ Asks(p) /\ NameOf(p) = Nothing
  /\ verdict' = Ruled(p, "Proxy", Nothing)
  /\ UNCHANGED <<vars, packet, readers, tokens, wanted>>

\* A rule of the device decides: the lock is taken and given back.
Settle(c, p) ==
  /\ packet[c] = Nothing
  /\ Asks(p) /\ NameOf(p) # Nothing
  /\ ReadLockable
  /\ ResolveAction(tokens, NameOf(p)) # Nothing
  /\ verdict' = Ruled(p, ResolveAction(tokens, NameOf(p)), Nothing)
  /\ UNCHANGED <<vars, packet, readers, tokens, wanted>>

\* Seeded fault: the guard is dropped before the look-up.
AskUnguarded(c, p) ==
  /\ packet[c] = Nothing
  /\ Asks(p) /\ NameOf(p) # Nothing
  /\ ReadLockable
  /\ ResolveAction(tokens, NameOf(p)) = Nothing
  /\ Call(c, NameOf(p))
  /\ packet' = IF result' = Nothing THEN [packet EXCEPT ![c] = p] ELSE packet
  /\ verdict' = IF result' = Nothing THEN Nothing ELSE RuledBy(p, result')
  /\ UNCHANGED <<readers, tokens, wanted>>

\* No rule does, and the worker is asked under the lock. Its cache may answer at once.
Ask(c, p) ==
  /\ packet[c] = Nothing
  /\ Asks(p) /\ NameOf(p) # Nothing
  /\ ReadLockable
  /\ ResolveAction(tokens, NameOf(p)) = Nothing
  /\ Call(c, NameOf(p))
  /\ packet' = IF result' = Nothing THEN [packet EXCEPT ![c] = p] ELSE packet
  /\ readers' = IF result' = Nothing THEN readers \cup {c} ELSE readers
  /\ verdict' = IF result' = Nothing THEN Nothing ELSE RuledBy(p, result')
  /\ UNCHANGED <<tokens, wanted>>

\* A step of the look-up; with its result come the verdict and the end of the lock.
Await(c) ==
  /\ packet[c] # Nothing
  /\ CallerStep(c)
  /\ packet' = IF result' = Nothing THEN packet ELSE [packet EXCEPT ![c] = Nothing]
  /\ readers' = IF result' = Nothing THEN readers ELSE readers \ {c}
  /\ verdict' = IF result' = Nothing THEN Nothing ELSE RuledBy(packet[c], result')
  /\ UNCHANGED <<tokens, wanted>>

Work ==
  /\ WorkerStep
  /\ verdict' = Nothing
  /\ UNCHANGED <<packet, readers, tokens, wanted>>

-----------------------------------------------------------------------------
(* set_keywords *)

SetKeywords(words) ==
  /\ wanted = {}
  /\ wanted' = {words \cap Usable}
  /\ verdict' = Nothing
  /\ UNCHANGED <<vars, packet, readers, tokens>>

\* The write lock: no inspection is under way.
Replace ==
  /\ readers = {}
  /\ tokens' \in wanted
  /\ wanted' = {}
  /\ verdict' = Nothing
  /\ UNCHANGED <<vars, packet, readers>>

ShieldNext ==
  \/ \E c \in Callers :
       \/ Await(c)
       \/ \E p \in Packets : Ignore(c, p) \/ Pass(c, p) \/ Settle(c, p) \/ Ask(c, p)
  \/ Work
  \/ \E words \in SUBSET Words : SetKeywords(words)
  \/ Replace

\* Threads inside inspect and set_keywords run on; nobody has to call either.
ShieldSpec ==
  /\ ShieldInit /\ [][ShieldNext]_allVars
  /\ WF_allVars(Work)
  /\ WF_allVars(Replace)
  /\ \A c \in Callers : WF_allVars(Await(c))

-----------------------------------------------------------------------------
(* Properties *)

ShieldTypeOK ==
  /\ TypeOK
  /\ packet \in [Callers -> Packets \cup {Nothing}]
  /\ readers \in SUBSET Callers
  /\ tokens \in SUBSET Usable
  /\ wanted \in {{}} \cup {{words} : words \in SUBSET Usable}

\* The most specific of the rules that cover a name.
RulesOn(n) == {r \in DOMAIN Explicit : IsPrefix(r, n)}

Policy(words, n) ==
  IF \E e \in Allowed : IsPrefix(e, n) THEN "Allow"
  ELSE IF RulesOn(n) # {}
    THEN Explicit[CHOOSE r \in RulesOn(n) : \A q \in RulesOn(n) : Len(q) <= Len(r)]
  ELSE IF KeywordMatches(words, n) \/ n \in Listed THEN "Block"
  ELSE "Proxy"

\* What the client takes for the answer to its query, and the shield for no query.
Refuses(answer, p) ==
  /\ ParsesUdp(answer)
  /\ answer.src = p.dst /\ answer.dst = p.src
  /\ Payload(answer).id = Payload(p).id /\ Payload(answer).name = Payload(p).name
  /\ QuestionEnd(Payload(answer)) = Payload(answer).size
  /\ ~Asks(answer)

\* The worker gave no answer of the artifact: it panicked, or the default was counted.
Missed(looked) == looked # Nothing /\ (looked.by = "Panicked" \/ looked.counted)

Right(words, v) ==
  LET n == NameOf(v.packet)
      block == n # Nothing /\ Policy(words, n) = "Block"
  IN /\ v.kind = "Blocked" => block /\ Refuses(v.reply, v.packet)
     /\ v.kind = "Forward" => ~block \/ (n \in Listed /\ Missed(v.looked))
     /\ v.kind # "Ignore"

\* Every verdict is the one the precedence table gives with the keywords in force when it
\* is given, however late the worker answers and whatever its cache holds from before they
\* were set. Only the artifact's share may be missing, by a caught panic or a counted
\* default. A refusal answers the client's own query (inspect, resolve_action).
PolicyDecides == verdict # Nothing => Right(tokens, verdict)

=============================================================================
