----------------------------- MODULE ReviewSync -----------------------------
(***************************************************************************)
(* Background and manual sync of the review list                           *)
(* (src/src/tui/app/sync_handlers.rs and lifecycle_handlers.rs), on top of *)
(* the list it updates.                                                    *)
(*                                                                         *)
(* One-shot timers start fetches; a fetch reads the comments page by page  *)
(* some time later, while they change on the server, and answers later     *)
(* still, or fails.  Keys, resizes and manual refreshes come at any moment.*)
(***************************************************************************)
EXTENDS ReviewList

CONSTANTS
  History,    \* the comments on the server, version by version
  PageSize,   \* comments per page of the API
  MaxTimers   \* bound: sync timers and fetches that manual refreshes add

Versions == 1..Len(History)

(* Comments come and go; what Review has of one never changes, so any of   *)
(* them, from whatever versions, are a list without two of the same id.    *)
ASSUME ReviewSyncAssumption ==
  /\ History \in Seq(SUBSET Review) /\ History # <<>>
  /\ \A S \in SUBSET UNION {History[v] : v \in Versions} : S \in Snapshots
  /\ PageSize \in Nat \ {0}
  /\ MaxTimers \in Nat

(* A fetch: the version it started with, the pages and comments read so    *)
(* far, and whether there are more.  `from' is 0 before the first page.    *)
Fetch == [from: {0} \cup Versions, pages: Nat, got: SUBSET Review,
          more: BOOLEAN]

VARIABLES
  initialized,  \* has_initialized
  loading,      \* loading
  timers,       \* SyncTick timers outstanding
  fetches,      \* fetches under way
  error,        \* whether an error banner is shown
  server,       \* the version on the server
  applied       \* the versions the list was read from (history)

listVars == vars
loopVars == <<initialized, loading, timers, fetches, error>>
syncVars == <<listVars, loopVars, server, applied>>

SyncInit ==
  /\ server = 1 /\ applied = [from |-> 1, to |-> 1]
  /\ Init /\ reviews \in Orders(History[1])
  /\ initialized = FALSE /\ loading = FALSE /\ error = FALSE
  /\ timers = 0
  /\ fetches = <<>>

NewFetch == [from |-> 0, pages |-> 0, got |-> {}, more |-> TRUE]

Without(i) == [j \in 1..(Len(fetches) - 1) |->
                 IF j < i THEN fetches[j] ELSE fetches[j + 1]]

---------------------------------------------------------------------------
(* handle_initialized, sent once at start-up and ignored afterwards *)
Initialized ==
  /\ ~initialized
  /\ initialized' = TRUE
  /\ timers' = timers + 1
  /\ UNCHANGED <<listVars, loading, fetches, error, server, applied>>

(* Mutants: a fetch is started whether or not one is under way; none is    *)
(* started as long as the last one failed.                                 *)
StartSyncAlways(left) ==
  /\ loading' = TRUE
  /\ error' = FALSE
  /\ fetches' = Append(fetches, NewFetch)
  /\ timers' = left

StartSyncUnlessFailed(left) ==
  IF loading \/ error
    THEN timers' = left + 1 /\ UNCHANGED <<loading, error, fetches>>
    ELSE /\ loading' = TRUE
         /\ fetches' = Append(fetches, NewFetch)
         /\ timers' = left
         /\ UNCHANGED error

(* handle_sync_tick: while a fetch is under way only a timer is armed *)
StartSync(left) ==
  IF loading
    THEN timers' = left + 1 /\ UNCHANGED <<loading, error, fetches>>
    ELSE /\ loading' = TRUE
         /\ error' = FALSE
         /\ fetches' = Append(fetches, NewFetch)
         /\ timers' = left

SyncTick ==
  /\ timers > 0
  /\ StartSync(timers - 1)
  /\ UNCHANGED <<listVars, initialized, server, applied>>

(* `r' goes the way of a timer that was never armed. *)
RefreshRequested ==
  /\ timers + Len(fetches) < MaxTimers
  /\ StartSync(timers)
  /\ UNCHANGED <<listVars, initialized, server, applied>>

(* A page of the comments on the server, which lists them by id. *)
PageOf(S, page) ==
  {r \in S : Cardinality({q \in S : q.id < r.id}) \div PageSize = page}

(* Mutant: a full page is taken for the last one.                          *)
FetchReadsOnePage(i) ==
  /\ fetches[i].more
  /\ fetches' = [fetches EXCEPT ![i] =
                   [from |-> server, pages |-> 1,
                    got |-> PageOf(History[server], 0), more |-> FALSE]]
  /\ UNCHANGED <<listVars, initialized, loading, timers, error, server,
                 applied>>

(* fetch_review_comments: the next page is asked for when there is one.    *)
FetchReads(i) ==
  /\ fetches[i].more
  /\ LET pages == fetches[i].pages
     IN fetches' = [fetches EXCEPT ![i] =
                     [from |-> IF pages = 0 THEN server ELSE @.from,
                      pages |-> pages + 1,
                      got |-> @.got \cup PageOf(History[server], pages),
                      more |-> PageOf(History[server], pages + 1) # {}]]
  /\ UNCHANGED <<listVars, initialized, loading, timers, error, server,
                 applied>>

(* Mutant: the list jumps to its top. *)
SyncCompleteAtTop(i) ==
  /\ ~fetches[i].more
  /\ reviews' = MergeReviews(fetches[i].got)
  /\ Rebuild(filter, reviews')
  /\ Place(0, 0)
  /\ applied' = [from |-> fetches[i].from, to |-> server]
  /\ fetches' = Without(i)
  /\ loading' = FALSE
  /\ error' = FALSE
  /\ timers' = timers + 1
  /\ UNCHANGED <<filter, rows, initialized, server>>

SyncComplete(i) ==
  /\ ~fetches[i].more
  /\ ApplyNewReviews(fetches[i].got)
  /\ applied' = [from |-> fetches[i].from, to |-> server]
  /\ fetches' = Without(i)
  /\ loading' = FALSE
  /\ error' = FALSE
  /\ timers' = timers + 1
  /\ UNCHANGED <<initialized, server>>

RefreshFailed(i) ==
  /\ fetches' = Without(i)
  /\ loading' = FALSE
  /\ error' = TRUE
  /\ timers' = timers + 1
  /\ UNCHANGED <<listVars, initialized, server, applied>>

(* Comments are written, edited and deleted on the server. *)
ServerChanges ==
  /\ server < Len(History)
  /\ server' = server + 1
  /\ UNCHANGED <<listVars, loopVars, applied>>

ListKeys == Keys /\ UNCHANGED <<loopVars, server, applied>>

ReadsPage(k) ==
  \E i \in DOMAIN fetches : fetches[i].pages = k /\ FetchReads(i)
Completes == \E i \in DOMAIN fetches : SyncComplete(i)

SyncNext ==
  \/ Initialized \/ SyncTick \/ RefreshRequested
  \/ \E i \in DOMAIN fetches :
       FetchReads(i) \/ SyncComplete(i) \/ RefreshFailed(i)
  \/ ServerChanges
  \/ ListKeys

SyncSpec == SyncInit /\ [][SyncNext]_syncVars

(* The start-up message and timers are delivered, every fetch ends, and no *)
(* page fails for ever.                                                    *)
FairSpec ==
  /\ SyncSpec
  /\ WF_syncVars(Initialized)
  /\ WF_syncVars(SyncTick)
  /\ WF_syncVars(\E i \in DOMAIN fetches :
                   FetchReads(i) \/ SyncComplete(i) \/ RefreshFailed(i))
  /\ \A k \in 0..Cardinality(Ids) : SF_syncVars(ReadsPage(k))
  /\ SF_syncVars(Completes)

---------------------------------------------------------------------------
SyncTypeOK ==
  /\ TypeOK
  /\ initialized \in BOOLEAN /\ loading \in BOOLEAN /\ error \in BOOLEAN
  /\ timers \in Nat
  /\ fetches \in Seq(Fetch)
  /\ server \in Versions
  /\ applied \in [from: Versions, to: Versions]

(* However often the user refreshes and whatever fails, at most one fetch  *)
(* is under way, the loading indicator says whether one is, and the loop,  *)
(* once started, has that fetch or a timer left to go on with.             *)
OneFetchAtATime ==
  /\ Len(fetches) = IF loading THEN 1 ELSE 0
  /\ initialized => timers + Len(fetches) > 0

(* Every comment listed was on the server, as it is shown, at some moment  *)
(* of the fetch it came with.                                              *)
ListShowsApplied ==
  \A i \in DOMAIN reviews :
    \E v \in applied.from..applied.to : reviews[i] \in History[v]

IdsAt(v) == {r.id : r \in History[v]}

(* A comment that was there throughout the fetch is missed only if another *)
(* one was deleted meanwhile, which moves comments to pages already read.  *)
MissedOnlyByDeletion ==
  (\A v \in applied.from..(applied.to - 1) : IdsAt(v) \subseteq IdsAt(v + 1))
    => IdsAt(applied.from) \subseteq {reviews[i].id : i \in DOMAIN reviews}

(* As far as the list is concerned, a sync is one of its operations and    *)
(* nothing else the loop does touches it: what holds of the list alone     *)
(* holds of the synced one.                                                *)
List == INSTANCE ReviewList WITH
          reviews <- reviews, filter <- filter, filtered <- filtered,
          cursor <- cursor, scroll <- scroll, visible <- visible,
          rows <- rows, selected <- selected

ImplementsReviewList == List!Spec

(* Whatever the server holds, a fetch begun since then reaches the list.   *)
ListCatchesUp ==
  \A v \in Versions : (server >= v) ~> (applied.from >= v)

(* adr-001: one-shot timers with explicit re-arming prevent timer          *)
(* accumulation.                                                           *)
TimersDoNotAccumulate == timers <= 1
===========================================================================
