--------------------------- MODULE MetadataCache ---------------------------
(***************************************************************************)
(* The cache of pull request metadata                                      *)
(* (src/src/github/gateway/caching.rs and http_utils.rs,                   *)
(* src/src/persistence/pr_metadata_cache/).                                *)
(*                                                                         *)
(* A call notes the time, reads the row of the pull request, and answers   *)
(* from it as long as it has not expired.  Otherwise it asks GitHub, with  *)
(* the row's validator where it has one, and stores what it learns.  Other *)
(* Frankie processes use the same database in between.                     *)
(*                                                                         *)
(* The metadata of a pull request are the number of their version.         *)
(***************************************************************************)
EXTENDS Option, Integers, Sequences

CONSTANTS
  Processes,   \* processes of Frankie that share a database
  Ttl,         \* pr_metadata_cache_ttl_seconds of each
  MaxVersion,  \* bound: versions of the pull request
  MaxTime      \* bound: seconds

Versions == 1..MaxVersion

(* CachedPullRequestMetadata; an ETag is that of a version.                *)
Row == [version: Versions, etag: Versions \cup {None},
        fetched: Nat, expires: Nat]

Response == [version: Versions, etag: Versions \cup {None}]

ASSUME MetadataCacheAssumption ==
  /\ Ttl \in [Processes -> Nat]
  /\ None \notin Nat /\ None \notin Row /\ None \notin Response
  /\ MaxVersion \in Nat \ {0} /\ MaxTime \in Nat

(* Where a call is, what it has read, and what it has been answered: None  *)
(* is 304 Not Modified.                                                    *)
Call == [at: {"idle", "reading", "fetching", "storing"}, now: Nat,
         cached: Row \cup {None}, response: Response \cup {None}]

VARIABLES
  clock,      \* unix seconds
  published,  \* when each version of the pull request appeared
  row,        \* the row of pr_metadata_cache; None for none
  calls,      \* the call each process is at
  returned    \* what its last call returned; None before, or for an error

cacheVars == <<clock, published, row, calls, returned>>

Idle == [at |-> "idle", now |-> 0, cached |-> None, response |-> None]

Server == Len(published)

(* Whether a version was GitHub's at some moment since `time'.             *)
CurrentSince(version, time) ==
  /\ version <= Server
  /\ version < Server => published[version + 1] >= time

InitCache ==
  /\ clock = 0
  /\ published = <<0>>
  /\ row = None
  /\ calls = [p \in Processes |-> Idle]
  /\ returned = [p \in Processes |-> None]

Tick ==
  /\ clock < MaxTime
  /\ clock' = clock + 1
  /\ UNCHANGED <<published, row, calls, returned>>

(* The pull request changes. *)
Publish ==
  /\ Server < MaxVersion
  /\ published' = Append(published, clock)
  /\ UNCHANGED <<clock, row, calls, returned>>

---------------------------------------------------------------------------
Goes(p, call) == calls' = [calls EXCEPT ![p] = call]
Returns(p, version) ==
  /\ Goes(p, Idle)
  /\ returned' = [returned EXCEPT ![p] = version]

(* pull_request: the time is taken before anything is read. *)
PullRequest(p) ==
  /\ calls[p].at = "idle"
  /\ Goes(p, [Idle EXCEPT !.at = "reading", !.now = clock])
  /\ UNCHANGED <<clock, published, row, returned>>

(* is_expired *)
IsExpired(entry, now) == now >= entry.expires

ReadCache(p) ==
  /\ calls[p].at = "reading"
  /\ IF row # None /\ ~IsExpired(row, calls[p].now)
       THEN Returns(p, row.version)
       ELSE /\ Goes(p, [calls[p] EXCEPT !.at = "fetching", !.cached = row])
            /\ UNCHANGED returned
  /\ UNCHANGED <<clock, published, row>>

(* What GitHub answers to a request with the validator of an entry: that   *)
(* it still holds, or the metadata, with or without a validator of theirs. *)
Answers(entry) ==
  IF entry # None /\ entry.etag = Server THEN {None}
  ELSE {[version |-> Server, etag |-> etag] : etag \in {Server, None}}

(* fetch_pull_request *)
FetchPullRequest(p) ==
  /\ calls[p].at = "fetching"
  /\ \E response \in Answers(calls[p].cached) :
       Goes(p, [calls[p] EXCEPT !.at = "storing", !.response = response])
  /\ UNCHANGED <<clock, published, row, returned>>

(* Mutant: an entry lives from when it is stored. *)
ExpiryWindowFromStore(p) == [fetched |-> clock, expires |-> clock + Ttl[p]]

(* expiry_window *)
ExpiryWindow(p) ==
  [fetched |-> calls[p].now, expires |-> calls[p].now + Ttl[p]]

(* Mutant: the answer to a 304 is what is cached by then. *)
NotModifiedReadsAgain(p) ==
  /\ calls[p].at = "storing" /\ calls[p].response = None
  /\ row' = [row EXCEPT !.fetched = calls[p].now,
                        !.expires = calls[p].now + Ttl[p]]
  /\ Returns(p, row.version)
  /\ UNCHANGED <<clock, published>>

(* touch: whatever the row is by now.  A row, once there, stays. *)
NotModified(p) ==
  /\ calls[p].at = "storing" /\ calls[p].response = None
  /\ row' = [row EXCEPT !.fetched = ExpiryWindow(p).fetched,
                        !.expires = ExpiryWindow(p).expires]
  /\ Returns(p, calls[p].cached.version)
  /\ UNCHANGED <<clock, published>>

(* Mutant: an answer without a validator gets the old one. *)
ModifiedKeepingValidator(p) ==
  /\ calls[p].at = "storing" /\ calls[p].response # None
  /\ LET got == calls[p].response
     IN /\ row' = [version |-> got.version,
                   etag |-> IF got.etag = None /\ row # None THEN row.etag
                            ELSE got.etag,
                   fetched |-> calls[p].now,
                   expires |-> calls[p].now + Ttl[p]]
        /\ Returns(p, got.version)
  /\ UNCHANGED <<clock, published>>

(* store_and_return *)
Modified(p) ==
  /\ calls[p].at = "storing" /\ calls[p].response # None
  /\ LET got == calls[p].response
     IN /\ row' = [version |-> got.version, etag |-> got.etag,
                   fetched |-> ExpiryWindow(p).fetched,
                   expires |-> ExpiryWindow(p).expires]
        /\ Returns(p, got.version)
  /\ UNCHANGED <<clock, published>>

(* The database or GitHub fails, and with it the whole call, even when the *)
(* metadata have been fetched; or the process is gone.                     *)
Fails(p) ==
  /\ calls[p].at # "idle"
  /\ Returns(p, None)
  /\ UNCHANGED <<clock, published, row>>

NextCache ==
  \/ Tick \/ Publish
  \/ \E p \in Processes :
       \/ PullRequest(p) \/ ReadCache(p) \/ FetchPullRequest(p)
       \/ NotModified(p) \/ Modified(p) \/ Fails(p)

SpecCache == InitCache /\ [][NextCache]_cacheVars

---------------------------------------------------------------------------
CacheTypeOK ==
  /\ clock \in Nat
  /\ published \in Seq(Nat) /\ Len(published) \in Versions
  /\ row \in Row \cup {None}
  /\ calls \in [Processes -> Call]
  /\ returned \in [Processes -> Versions \cup {None}]

(* An answer that took a request was the truth at some moment of the call, *)
(* whatever other processes did to the row meanwhile.                      *)
RevalidatedIsCurrent ==
  [][\A p \in Processes :
       calls[p].at = "storing" /\ calls'[p].at = "idle" =>
         \/ returned'[p] = None
         \/ CurrentSince(returned'[p], calls[p].now)]_cacheVars

(* A call that stores what it was sent, or finds the row it had validated, *)
(* leaves metadata that were true at the time they are said to be fetched  *)
(* at: they are fresh for no longer than the time to live.                 *)
WriteIsHonest ==
  [][\A p \in Processes :
       /\ calls[p].at = "storing" /\ row' # row
       /\ calls[p].response # None \/ row.version = calls[p].cached.version
       /\ calls'[p].at = "idle"
       => CurrentSince(row'.version, row'.fetched)]_cacheVars

(* A row's validator is that of its metadata: GitHub is never asked about  *)
(* one version on behalf of another.                                       *)
ValidatorIsOfData ==
  row # None => row.etag \in {row.version, None}
=============================================================================
