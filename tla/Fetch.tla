--------------------------------- MODULE Fetch ---------------------------------
(***************************************************************************)
(* How domain-blocklist fetches the documents of its sources: the GitHub and  *)
(* UT1 fetchers with their retries (fetchers/github.rs, fetchers/ut1.rs) and   *)
(* the checks of fetch_source (sources/mod.rs).                              *)
(*                                                                          *)
(* A document is the set of lines it has, and a revision names its content:   *)
(* a commit on GitHub, and on UT1, whose address has no version, whatever the *)
(* response identifies itself by.  Both are trusted to tell contents apart.   *)
(***************************************************************************)
EXTENDS Naturals, FiniteSets, Sequences, FiniteSetsExt, Functions

CONSTANTS
  NNames,     (* names, numbered in the sort order of normalised domains *)
  Jobs,       (* the documents fetched, one per source and category *)
  SourceOf,   (* the project a document comes from *)
  MayList,    (* the lines the documents may have: bound on the sources *)
  Reviewed,   (* the licence each document was reviewed with *)
  Allowed,    (* --allow-license *)
  Attempts    (* max_attempts of both retry policies *)

DomainNames == 1..NNames
Hints == {"plain", "wildcard"}
Lines == [job : Jobs, name : DomainNames, hint : Hints]

ASSUME NamesAssumption == NNames \in Nat
ASSUME JobsAssumption ==
  DOMAIN SourceOf = Jobs /\ DOMAIN Reviewed = Jobs /\ MayList \subseteq Lines
ASSUME AttemptsAssumption == Attempts \in Nat \ {0}

Part(docs, job) == {l \in docs : l.job = job}
Contents(job) == SUBSET Part(MayList, job)

(* How one request ends: a whole body; a status worth a retry; a body cut off   *)
(* after its headers; an hourly quota that is about to be reset; 404; or a      *)
(* status, a size or an archive no retry mends.                               *)
Kinds == {"ok", "busy", "cut", "quota", "missing", "refused"}

\* What a request finds: how it ends, and what its address holds at that moment.
Replies(held) == [kind : Kinds, held : held]

\* get_with_retry, get_bytes_with_retry: the first reply that is not worth a retry,
\* or the last one the budget allows.
Requested(replies, retried) ==
  LET final == {n \in 1..Attempts : replies[n].kind \notin retried}
  IN replies[IF final = {} THEN Attempts ELSE CHOOSE n \in final : \A k \in final : n <= k]

GithubRetried == {"busy", "cut", "quota"}
Ut1Retried == {"busy", "cut"}

\* What a fetcher can come back with from an address that may hold any of held.
Received(held, retried) ==
  {Requested(replies, retried) : replies \in [1..Attempts -> Replies(held)]}

Licences == Range(Reviewed) \cup {"another"}

\* GithubSourceFetcher::fetch_async.  A commit does not change; no licence to be
\* found is the licence NOASSERTION; any other failure ends the fetch.
GithubFetch(pin) ==
  {[revision |-> commit.held,
    licence |-> IF page.kind = "missing" THEN "NOASSERTION" ELSE page.held,
    bytes |-> raw.held] :
     commit \in {r \in Received({pin}, GithubRetried) : r.kind = "ok"},
     page \in {r \in Received(Licences, GithubRetried) : r.kind \in {"ok", "missing"}},
     raw \in {r \in Received({pin}, GithubRetried) : r.kind = "ok"}}

\* Identities of a UT1 response: its ETag, else its date, else a hash of the list.
Tarballs(job) == [by : {"etag", "last-modified", "sha256"}, lines : Contents(job)]

\* Seeded fault: the identity is the first answer's, the list a retry's.
Ut1FetchFirstTag(job) ==
  {[revision |-> first.held, licence |-> Reviewed[job], bytes |-> tarball.held.lines] :
     first \in {r \in Replies(Tarballs(job)) : r.kind \in {"ok", "cut"}},
     tarball \in {r \in Received(Tarballs(job), Ut1Retried) : r.kind = "ok"}}

\* Ut1SourceFetcher::fetch_files and pick_revision: identity and list are read from
\* one response, the licence from a page of its own.
Ut1Fetch(job) ==
  {[revision |-> tarball.held, licence |-> page.held, bytes |-> tarball.held.lines] :
     tarball \in {r \in Received(Tarballs(job), Ut1Retried) : r.kind = "ok"},
     page \in {r \in Received(Licences, Ut1Retried) : r.kind = "ok"}}

\* The pin of a UT1 document names it by the ETag it was reviewed with.
Pin(job, content) ==
  IF SourceOf[job] = "Ut1" THEN [by |-> "etag", lines |-> content] ELSE content

\* fetch_source: the revision is the pinned one and the licence the reviewed one, which
\* may still not be on the list.
Accepted(job, content) ==
  {fetched \in IF SourceOf[job] = "Ut1" THEN Ut1Fetch(job) ELSE GithubFetch(content) :
     /\ fetched.revision = Pin(job, content)
     /\ fetched.licence = Reviewed[job] /\ fetched.licence \in Allowed}

\* What fetch_source accepts, per document and pin.
FetchedAt ==
  {[job |-> job, pin |-> pin, bytes |-> {fetched.bytes : fetched \in Accepted(job, pin)}] :
     job \in Jobs, pin \in UNION {Contents(j) : j \in Jobs}}

\* fetch_all_sources: what the parsers are given when every fetch is accepted; one
\* that is not ends the run.
FetchAll(pins) ==
  LET accepted(job) == {f \in FetchedAt : f.job = job /\ f.pin = Part(pins, job)}
  IN {docs \in SUBSET MayList :
        \A job \in Jobs : \E f \in accepted(job) : Part(docs, job) \in f.bytes}

-----------------------------------------------------------------------------
(* Licences. A snapshot of an accepted document has the licence it was reviewed with. *)

SnapshotsOf(reviewed) == {[source |-> SourceOf[job], licence |-> reviewed[job]] : job \in Jobs}

\* collapse_snapshots_by_source: the documents of a source agree, or the run ends.
Collapses(snapshots) == \A a, b \in snapshots : a.source = b.source => a.licence = b.licence

\* From the most permissive to the least.
Ranked == <<"CC0-1.0", "MIT", "CC-BY-SA-4.0", "GPL-3.0">>
Rank(licence) ==
  IF licence \in Range(Ranked) THEN CHOOSE r \in DOMAIN Ranked : Ranked[r] = licence
  ELSE Len(Ranked) + 1

\* pick_output_license: the least permissive of them, unless one of them is unknown.
OutputLicence(snapshots) ==
  LET worst == Max({Rank(s.licence) : s \in snapshots})
  IN IF worst \in DOMAIN Ranked THEN Ranked[worst] ELSE "UNKNOWN"

\* license_gate: one snapshot of each source that contributed, and no licence off the list.
LicenceGate(sources, snapshots, allowed) ==
  /\ \A a, b \in snapshots : a.source = b.source => a = b
  /\ sources \subseteq {s.source : s \in snapshots}
  /\ \A s \in snapshots : s.licence \in allowed

=============================================================================
