---------------------------- MODULE LaunchProofs ----------------------------
(***************************************************************************)
(* Proofs about a run of the program (Launch), for whatever arguments,     *)
(* environment and directory it is given and whatever GitHub serves: all   *)
(* that is asked is about the repository the run was pointed at, whichever *)
(* way it is spelled; a file that is exported to holds the beginning of    *)
(* the sorted comments, all of them when the export succeeds; a summary    *)
(* that is printed has each comment once, with those replies join it to;   *)
(* and the scan for the pull request takes the first positional argument   *)
(* and leaves the others as they stand, when no short flag for a value is  *)
(* used that it does not know.                                             *)
(***************************************************************************)
EXTENDS Launch, DiscussionProofs, FiniteSetTheorems, SequenceTheorems, TLAPS

---------------------------------------------------------------------------
(* Addresses.                                                              *)

(* Texts are folded once.                                                  *)
LEMMA FoldedOnce ==
  /\ \A text : Folded(Folded(text)) = Folded(text)
  /\ Folded("github.com") = "github.com"
  /\ Folded("api.github.com") = "api.github.com"
BY GitHubAddressAssumption DEF Folded

(* The API of a URL is that of its server.                                 *)
LEMMA ServerOfApi ==
  ASSUME NEW url
  PROVE  SameText(Server(ApiBase(url).host), Server(url.host))
<1>1. CASE IsGitHub(url.host)
  <2>1. ApiBase(url).host = "api.github.com"
    BY <1>1 DEF ApiBase, GitHubApi
  <2>2. Server("api.github.com") = "github.com"
    BY DEF Server, SameText
  <2>3. Server(url.host) = url.host
    BY <1>1, FoldedOnce DEF Server, SameText, IsGitHub
  <2> QED
    BY <1>1, <2>1, <2>2, <2>3 DEF SameText, IsGitHub
<1>2. CASE ~IsGitHub(url.host)
  <2>1. ApiBase(url).host = Folded(url.host)
    BY <1>2 DEF ApiBase
  <2> QED
    BY <2>1, FoldedOnce DEF Server, SameText
<1> QED
  BY <1>1, <1>2

(* A request of a locator.                                                 *)
RequestOf(where) == [api |-> where.api, owner |-> where.owner,
                     repository |-> where.repository, number |-> where.number]

(* A pull request's URL that parses is asked about what it says.           *)
LEMMA ParsedUrl ==
  ASSUME NEW url, ParseLocator(url).error = None
  PROVE  LET r == RequestOf(ParseLocator(url).value)
         IN /\ IsAbout(r, url.host, url.path[1], url.path[2])
            /\ r.number = Number[url.path[4]]
<1>1. ParseLocator(url)
        = Ok([api |-> ApiBase(url), owner |-> url.path[1],
              repository |-> url.path[2], number |-> Number[url.path[4]]])
  BY GitHubAddressAssumption DEF AddressErrors, ParseLocator, Err
<1> QED
  BY <1>1, ServerOfApi DEF Ok, RequestOf, IsAbout, SameText

(* What is found at a directory is its origin, github.com without capitals.*)
LEMMA DiscoveredOrigin ==
  ASSUME NEW dir, Discover(dir).error = None
  PROVE  LET origin == Discover(dir).value
             remote == dir.remotes["origin"]
             name   == remote.path[2]
         IN /\ SameText(origin.host, remote.host)
            /\ origin.host = "github.com" \/ ~IsGitHub(origin.host)
            /\ origin.owner = remote.path[1]
            /\ origin.repository =
                 IF name \in DOMAIN WithoutGit THEN WithoutGit[name] ELSE name
<1> DEFINE remote == dir.remotes["origin"]
<1>1. Discover(dir) = ParseRemote(remote)
  BY GitHubAddressAssumption DEF AddressErrors, Discover, Err
<1>2. \E port : ParseRemote(remote) = OriginOf(remote.host, port, remote.path)
  BY <1>1, GitHubAddressAssumption DEF AddressErrors, ParseRemote, Err
<1>3. PICK port : Discover(dir) = OriginOf(remote.host, port, remote.path)
  BY <1>1, <1>2
<1> DEFINE name == IF remote.path[2] \in DOMAIN WithoutGit
                     THEN WithoutGit[remote.path[2]] ELSE remote.path[2]
           found == IF IsGitHub(remote.host)
                      THEN [host |-> "github.com", port |-> None,
                            owner |-> remote.path[1], repository |-> name]
                      ELSE [host |-> remote.host, port |-> port,
                            owner |-> remote.path[1], repository |-> name]
<1>4. \/ OriginOf(remote.host, port, remote.path) = Err("InvalidRemoteUrl")
      \/ OriginOf(remote.host, port, remote.path) = Ok(found)
  BY DEF OriginOf
<1>5. Discover(dir).value = found
  BY <1>3, <1>4, GitHubAddressAssumption DEF AddressErrors, Err, Ok
<1> QED
  BY <1>5 DEF IsGitHub, SameText

(* Servers are the same however they are spelled.                          *)
LEMMA SameServer ==
  /\ \A a, b : SameText(a, b) => SameText(Server(a), Server(b))
  /\ \A a : Server(Server(a)) = Server(a)
  /\ \A where : HostOf(where) = Server(where.api.host)
<1>1. \A a, b : SameText(a, b) => SameText(Server(a), Server(b))
  BY DEF SameText, Server
<1>2. \A a : Server(Server(a)) = Server(a)
  BY FoldedOnce DEF SameText, Server
<1>3. \A where : HostOf(where) = Server(where.api.host)
  BY DEF HostOf, Server
<1> QED
  BY <1>1, <1>2, <1>3

(* A request about the origin found at a directory is about the one that   *)
(* git has there.                                                          *)
LEMMA AboutOrigin ==
  ASSUME NEW dir, Discover(dir).error = None, NEW r,
         LET origin == Discover(dir).value
         IN IsAbout(r, origin.host, origin.owner, origin.repository)
  PROVE  IsAboutOriginOf(r, dir)
<1> DEFINE origin == Discover(dir).value
           remote == dir.remotes["origin"]
           name == IF remote.path[2] \in DOMAIN WithoutGit
                     THEN WithoutGit[remote.path[2]] ELSE remote.path[2]
<1>1. /\ SameText(origin.host, remote.host)
      /\ origin.owner = remote.path[1] /\ origin.repository = name
  BY DiscoveredOrigin
<1>2. IsAbout(r, origin.host, origin.owner, origin.repository)
  OBVIOUS
<1> HIDE DEF origin
<1>3. IsAbout(r, remote.host, remote.path[1], name)
  BY <1>1, <1>2, SameServer DEF IsAbout, SameText
<1> QED
  BY <1>3 DEF IsAboutOriginOf

(* discover_repo_for_locator lets only clones of the repository pass that  *)
(* requests are about.                                                     *)
LEMMA GitOpsMatch ==
  ASSUME NEW where, launch \in Launches
  PROVE  LET git == GitOpsFor(where)
         IN /\ git.value = None <=> git.error # None
            /\ git.error = None => IsAboutOriginOf(RequestOf(where), git.value.dir)
<1> DEFINE git == GitOpsFor(where)
           found == Discover(ChosenDirectory)
<1>1. CASE git.error = None
  <2>1. /\ git = Ok(GitOpsAt(ChosenDirectory)) /\ Matches(found.value, where)
        /\ found.error = None
    BY <1>1, LaunchAssumption, GitHubAddressAssumption
       DEF GitOpsFor, Err, NoGitOps, AddressErrors
  <2>2. GitOpsAt(ChosenDirectory) # None
    BY LaunchAssumption DEF ChosenDirectory
  <2>3. LET origin == found.value
        IN IsAbout(RequestOf(where), origin.host, origin.owner, origin.repository)
    BY <2>1, SameServer DEF Matches, IsAbout, RequestOf, SameText
  <2>4. IsAboutOriginOf(RequestOf(where), ChosenDirectory)
    BY <2>1, <2>3, AboutOrigin
  <2> QED
    BY <1>1, <2>1, <2>2, <2>4 DEF Ok, GitOpsAt
<1>2. CASE git.error # None
  <2>1. \E error : git = Err(error)
    BY <1>2 DEF GitOpsFor, Err, Ok
  <2> QED
    BY <1>2, <2>1 DEF Err
<1> QED
  BY <1>1, <1>2

---------------------------------------------------------------------------
(* What a run is about.                                                    *)

(* The modes that ask something of GitHub.                                 *)
RequestModes ==
  {"ReviewTui", "VerifyResolutions", "SummarizeDiscussions",
   "SinglePullRequest", "ExportComments", "RepositoryListing", "Interactive"}

(* owner and repo name a repository of github.com.                         *)
LEMMA NamedRepository ==
  ASSUME NEW owner, NEW repo, FromOwnerRepo(owner, repo).error = None
  PROVE  IsAbout(RequestOf(FromOwnerRepo(owner, repo).value),
                 "github.com", owner, repo)
<1>1. FromOwnerRepo(owner, repo)
        = Ok([api |-> GitHubApi, owner |-> owner, repository |-> repo,
              number |-> 0])
  BY GitHubAddressAssumption DEF FromOwnerRepo, Err, AddressErrors
<1>2. Server("api.github.com") = "github.com" /\ Server("github.com") = "github.com"
  BY FoldedOnce DEF Server, SameText
<1> QED
  BY <1>1, <1>2 DEF Ok, RequestOf, IsAbout, GitHubApi, SameText

(* The repository that a clone is of.                                      *)
LEMMA DiscoveredTarget ==
  ASSUME DiscoveredRepository.error = None
  PROVE  IsAboutOriginOf(RequestOf(DiscoveredRepository.value), launch.here)
<1> DEFINE origin == Discover(launch.here).value
<1>1. /\ Discover(launch.here).error = None
      /\ DiscoveredRepository = FromGitHubOrigin(origin)
  BY LaunchAssumption DEF DiscoveredRepository, Err, Outcomes
<1>2. origin.host = "github.com" \/ ~IsGitHub(origin.host)
  BY <1>1, DiscoveredOrigin
<1> HIDE DEF origin
<1>3. IsAbout(RequestOf(FromGitHubOrigin(origin).value),
              origin.host, origin.owner, origin.repository)
  <2>1. CASE origin.host = "github.com"
    <3>1. FromGitHubOrigin(origin) = FromOwnerRepo(origin.owner, origin.repository)
      BY <2>1 DEF FromGitHubOrigin
    <3> QED
      BY <1>1, <2>1, <3>1, NamedRepository
  <2>2. CASE origin.host # "github.com"
    <3> DEFINE url == [scheme |-> "https", host |-> origin.host, port |-> origin.port]
    <3>1. FromGitHubOrigin(origin)
            = Ok([api |-> ApiBase(url), owner |-> origin.owner,
                  repository |-> origin.repository, number |-> 0])
      BY <2>2 DEF FromGitHubOrigin
    <3>2. url.host = origin.host
      OBVIOUS
    <3>3. SameText(Server(ApiBase(url).host), Server(origin.host))
      BY <3>2, ServerOfApi
    <3> HIDE DEF url
    <3> QED
      BY <3>1, <3>3 DEF Ok, RequestOf, IsAbout, SameText
  <2> QED
    BY <2>1, <2>2
<1> QED
  BY <1>1, <1>3, AboutOrigin DEF origin

(* The pull request that an argument names: a URL, or a number of the      *)
(* repository around.                                                      *)
LEMMA IdentifiedTarget ==
  ASSUME NEW text, ResolveFromIdentifier(text).error = None
  PROVE  LET r == RequestOf(ResolveFromIdentifier(text).value)
         IN IF text \in DOMAIN Urls
              THEN /\ IsAbout(r, Urls[text].host, Urls[text].path[1],
                              Urls[text].path[2])
                   /\ r.number = Number[Urls[text].path[4]]
              ELSE IsAboutOriginOf(r, ChosenDirectory) /\ r.number = Number[text]
<1>1. CASE text \in DOMAIN Urls
  BY <1>1, ParsedUrl DEF ResolveFromIdentifier
<1>2. CASE text \notin DOMAIN Urls
  <2> DEFINE origin == Discover(ChosenDirectory).value
             url == PullRequestUrl(origin, text)
  <2>1. /\ Discover(ChosenDirectory).error = None
        /\ ResolveFromIdentifier(text) = ParseLocator(url)
    BY <1>2, LaunchAssumption, GitHubAddressAssumption
       DEF ResolveFromIdentifier, Err, Outcomes, AddressErrors
  <2>2. /\ url.host = origin.host /\ url.path[1] = origin.owner
        /\ url.path[2] = origin.repository /\ url.path[4] = text
    BY DEF PullRequestUrl
  <2>3. LET r == RequestOf(ParseLocator(url).value)
        IN /\ IsAbout(r, origin.host, origin.owner, origin.repository)
           /\ r.number = Number[text]
    <3> HIDE DEF url, origin
    <3> QED
      BY <2>1, <2>2, ParsedUrl
  <2> QED
    BY <1>2, <2>1, <2>3, AboutOrigin
<1> QED
  BY <1>1, <1>2

(* The URL of --pr-url.                                                    *)
LEMMA UrlTarget ==
  ASSUME UrlLocator.error = None
  PROVE  LET r == RequestOf(UrlLocator.value)
             url == Urls[config.pr_url]
         IN /\ config.pr_url \in DOMAIN Urls
            /\ IsAbout(r, url.host, url.path[1], url.path[2])
            /\ r.number = Number[url.path[4]]
<1>1. /\ config.pr_url \in DOMAIN Urls
      /\ UrlLocator = ParseLocator(Urls[config.pr_url])
  BY LaunchAssumption, GitHubAddressAssumption
     DEF UrlLocator, Err, Outcomes, AddressErrors
<1> QED
  BY <1>1, ParsedUrl

(* What each mode resolves to is what it was pointed at.                   *)
LEMMA TargetIsAbout ==
  ASSUME mode \in RequestModes, Target.error = None
  PROVE  IsAboutTarget(RequestOf(Target.value))
<1>1. CASE mode = "RepositoryListing"
  <2>1. Target = OwnerRepo
    BY <1>1 DEF Target
  <2>2. OwnerRepo = FromOwnerRepo(config.owner, config.repo)
    <3>1. "Configuration" # None
      BY LaunchAssumption DEF Outcomes
    <3>2. OwnerRepo # Err("Configuration")
      BY <2>1, <3>1 DEF Err
    <3> QED
      BY <3>2 DEF OwnerRepo
  <2> QED
    BY <1>1, <2>1, <2>2, NamedRepository DEF IsAboutTarget
<1>2. CASE mode = "Interactive"
  <2>1. Target = DiscoveredRepository
    BY <1>2 DEF Target
  <2> QED
    BY <1>2, <2>1, DiscoveredTarget DEF IsAboutTarget
<1>3. CASE mode \in {"SinglePullRequest", "ExportComments"}
  <2>1. Target = UrlLocator
    BY <1>3 DEF Target
  <2> QED
    BY <1>3, <2>1, UrlTarget DEF IsAboutTarget
<1>4. CASE mode \in {"ReviewTui", "VerifyResolutions", "SummarizeDiscussions"}
  <2>1. Target = ResolveLocator
    BY <1>4 DEF Target
  <2>2. CASE config.pr_identifier = None
    <3>1. Target = UrlLocator
      BY <2>1, <2>2 DEF ResolveLocator
    <3> QED
      BY <1>4, <2>2, <3>1, UrlTarget DEF IsAboutTarget
  <2>3. CASE config.pr_identifier # None
    <3>1. Target = ResolveFromIdentifier(config.pr_identifier)
      BY <2>1, <2>3 DEF ResolveLocator
    <3> QED
      BY <1>4, <2>3, <3>1, IdentifiedTarget DEF IsAboutTarget
  <2> QED
    BY <2>2, <2>3
<1> QED
  BY <1>1, <1>2, <1>3, <1>4 DEF RequestModes

---------------------------------------------------------------------------
(* One repository.                                                         *)

(* The locator is what the configuration resolves to.                      *)
LocatorOK ==
  mode \in RequestModes /\ Target.error = None /\ locator = Target.value

(* The cells hold what discover_repo_for_locator makes of it.              *)
CellsOK ==
  /\ cells.git = GitOpsFor(locator).value
  /\ cells.failure = GitOpsFor(locator).error

(* Past the checks the locator is resolved, and all requests are about it. *)
AboutInv ==
  /\ launch \in Launches
  /\ pc \in {"Scan", "Resolve"} => requests = {} /\ cells = None
  /\ pc = "Resolve" => mode \in RequestModes \cup {"Migrate", "AiRewrite"}
  /\ (pc \in {"Fetch", "Work", "Write", "Flush", "Tui"} \/ requests # {}
        \/ cells # None) => LocatorOK
  /\ \A r \in requests : r = RequestOf(locator)
  /\ cells # None => CellsOK

(* Nothing that is resolved changes with the rest.                         *)
LEMMA ResolvedOnce ==
  ASSUME UNCHANGED <<launch, config, mode, locator>>
  PROVE  /\ LocatorOK' <=> LocatorOK
         /\ cells' = cells => (CellsOK' <=> CellsOK)
<1>1. ChosenDirectory' = ChosenDirectory
  BY DEF ChosenDirectory
<1>2. Target' = Target
  <2>1. UrlLocator' = UrlLocator /\ OwnerRepo' = OwnerRepo
    BY DEF UrlLocator, OwnerRepo
  <2>2. DiscoveredRepository' = DiscoveredRepository
    BY DEF DiscoveredRepository
  <2>3. ResolveLocator' = ResolveLocator
    BY <1>1, <2>1 DEF ResolveLocator, ResolveFromIdentifier
  <2> QED
    BY <2>1, <2>2, <2>3 DEF Target
<1>3. GitOpsFor(locator)' = GitOpsFor(locator)
  BY <1>1 DEF GitOpsFor
<1> QED
  BY <1>2, <1>3 DEF LocatorOK, CellsOK

(* After the checks, a step at most asks once more.                        *)
LEMMA AskingKeepsAbout ==
  ASSUME AboutInv, UNCHANGED <<launch, config, mode, locator, cells>>,
         pc \in {"Fetch", "Work", "Write", "Flush", "Tui"},
         pc' \in {"Work", "Write", "Flush", "Tui", "Done"},
         requests' = requests \/ requests' = requests \cup {Asks}
  PROVE  AboutInv'
<1>1. LocatorOK
  BY DEF AboutInv
<1>2. LocatorOK' /\ (CellsOK' <=> CellsOK)
  BY <1>1, ResolvedOnce
<1>3. Asks = RequestOf(locator)
  BY DEF Asks, RequestOf
<1>4. \A r \in requests' : r = RequestOf(locator')
  BY <1>3 DEF AboutInv
<1> QED
  BY <1>2, <1>4 DEF AboutInv

(* A run that ends leaves what it asked.                                   *)
LEMMA EndKeepsAbout ==
  ASSUME AboutInv, UNCHANGED <<launch, config, mode, locator, cells, requests>>,
         pc' = "Done"
  PROVE  AboutInv'
<1>1. (LocatorOK' <=> LocatorOK) /\ (CellsOK' <=> CellsOK)
  BY ResolvedOnce
<1>2. \A r \in requests' : r = RequestOf(locator')
  BY DEF AboutInv
<1> QED
  BY <1>1, <1>2 DEF AboutInv

(* Past FirstOf, every check has passed.                                   *)
LEMMA AllPassed ==
  ASSUME NEW errors, DOMAIN errors \in SUBSET Nat, FirstOf(errors) = None
  PROVE  \A n \in DOMAIN errors : errors[n] = None
<1> DEFINE failed == {n \in DOMAIN errors : errors[n] # None}
<1>1. ASSUME failed # {} PROVE FALSE
  <2>1. \E n \in failed : \A m \in failed : n <= m
    <3>1. failed \in SUBSET Nat
      OBVIOUS
    <3> HIDE DEF failed
    <3> QED
      BY <1>1, <3>1, LeastOfSet
  <2>2. Min(failed) \in failed
    BY <2>1 DEF Min
  <2>3. FirstOf(errors) = errors[Min(failed)]
    BY <1>1 DEF FirstOf
  <2> HIDE DEF failed
  <2>4. errors[Min(failed)] # None
    BY <2>2 DEF failed
  <2> QED
    BY <2>3, <2>4
<1> QED
  BY <1>1

(* The checks of each mode include that its target is one, and, where      *)
(* verdicts are asked for, that there are git operations.                  *)
LEMMA ChecksPassed ==
  ASSUME mode \in RequestModes, FirstOf(Checks(Target)) = None
  PROVE  /\ Target.error = None
         /\ mode = "VerifyResolutions" => GitOpsFor(Target.value).error = None
<1> DEFINE target == Target
<1> HIDE DEF target
<1>0. FirstOf(Checks(target)) = None
  BY DEF target
<1>1. CASE mode \in {"ReviewTui", "SummarizeDiscussions", "Interactive"}
  <2>1. Checks(target) = <<target.error, TokenCheck>>
    BY <1>1 DEF Checks
  <2> QED
    BY <1>0, <1>1, <2>1, AllPassed DEF target
<1>2. CASE mode = "VerifyResolutions"
  <2> DEFINE git == IF target.error # None \/ GitOpsFor(target.value).error = None
                      THEN None ELSE "Configuration"
             base == Unless(Present(config.database_url), "Configuration")
  <2>1. Checks(target) = <<target.error, TokenCheck, base, git>>
    BY <1>2 DEF Checks, VerifyChecks
  <2> HIDE DEF git, base
  <2>2. target.error = None /\ git = None
    BY <1>0, <2>1, AllPassed
  <2>3. "Configuration" # None
    BY LaunchAssumption DEF Outcomes
  <2> QED
    BY <2>2, <2>3 DEF git, target
<1>3. CASE mode \in {"SinglePullRequest", "RepositoryListing", "ExportComments"}
  <2>1. \E a, b, c, d :
          Checks(target) \in {<<a, b, target.error, c, d>>, <<a, b, target.error, c>>}
    BY <1>3 DEF Checks, LoadChecks, ListingChecks, ExportChecks
  <2> QED
    BY <1>0, <1>3, <2>1, AllPassed DEF target
<1> QED
  BY <1>1, <1>2, <1>3 DEF RequestModes

(* The step that resolves.                                                 *)
LEMMA ResolveKeepsAbout ==
  ASSUME AboutInv, Resolve
  PROVE  AboutInv'
<1>1. mode \in RequestModes /\ requests = {} /\ cells = None
  BY DEF AboutInv, Resolve
<1>2. CASE pc' = "Done" /\ cells' = cells
  BY <1>1, <1>2, EndKeepsAbout DEF Resolve, netVars
<1>3. CASE /\ FirstOf(Checks(Target)) = None
           /\ locator' = Target.value /\ pc' = "Fetch"
           /\ cells' = IF mode = "VerifyResolutions"
                         THEN GitOpsCell(Ok(GitOpsFor(Target.value).value))
                         ELSE cells
  <2>1. UNCHANGED <<launch, config, mode, requests>>
    BY DEF Resolve
  <2>2. /\ Target.error = None
        /\ mode = "VerifyResolutions" => GitOpsFor(Target.value).error = None
    BY <1>1, <1>3, ChecksPassed
  <2>3. Target' = Target /\ GitOpsFor(Target.value)' = GitOpsFor(Target.value)
    <3>1. ChosenDirectory' = ChosenDirectory
      BY <2>1 DEF ChosenDirectory
    <3>2. UrlLocator' = UrlLocator /\ OwnerRepo' = OwnerRepo
      BY <2>1 DEF UrlLocator, OwnerRepo
    <3>3. DiscoveredRepository' = DiscoveredRepository
      BY <2>1 DEF DiscoveredRepository
    <3>4. ResolveLocator' = ResolveLocator
      BY <2>1, <3>1, <3>2 DEF ResolveLocator, ResolveFromIdentifier
    <3>5. Target' = Target
      BY <2>1, <3>2, <3>3, <3>4 DEF Target
    <3> QED
      BY <2>1, <3>1, <3>5 DEF GitOpsFor
  <2>4. LocatorOK'
    BY <1>1, <1>3, <2>1, <2>2, <2>3 DEF LocatorOK
  <2>5. cells' # None => CellsOK'
    <3>1. CASE mode = "VerifyResolutions"
      <4>1. GitOpsFor(locator)' = GitOpsFor(Target.value)
        BY <1>3, <2>3 DEF GitOpsFor
      <4> QED
        BY <1>3, <2>2, <3>1, <4>1 DEF CellsOK, GitOpsCell, Ok
    <3>2. CASE mode # "VerifyResolutions"
      BY <1>1, <1>3, <3>2
    <3> QED
      BY <3>1, <3>2
  <2> QED
    BY <1>1, <1>3, <2>1, <2>4, <2>5 DEF AboutInv
<1> QED
  BY <1>2, <1>3 DEF Resolve, Fail

(* Every step of a run.                                                    *)
LEMMA NextKeepsAbout ==
  ASSUME AboutInv, [NextLaunch]_launchVars
  PROVE  AboutInv'
<1> USE DEF netVars
<1>1. CASE UNCHANGED launchVars
  <2>1. UNCHANGED <<launch, config, mode, locator, cells, requests, pc>>
    BY <1>1 DEF launchVars, inputVars
  <2>2. (LocatorOK' <=> LocatorOK) /\ (CellsOK' <=> CellsOK)
    BY <2>1, ResolvedOnce
  <2>3. \A r \in requests' : r = RequestOf(locator')
    BY <2>1 DEF AboutInv
  <2> QED
    BY <2>1, <2>2, <2>3 DEF AboutInv
<1>2. CASE Scan
  <2>1. /\ UNCHANGED <<launch, config, mode, locator, cells, requests, pc>>
        /\ pc = "Scan"
    BY <1>2 DEF Scan
  <2> QED
    BY <2>1 DEF AboutInv
<1>3. CASE LoadConfig
  <2>1. /\ UNCHANGED <<launch, locator, cells, requests>>
        /\ requests = {} /\ cells = None
    BY <1>3 DEF LoadConfig, AboutInv
  <2>2. \/ pc' = "Done"
        \/ /\ pc' = "Resolve"
           /\ mode' = "Migrate" \/ mode' = OperationMode(config')
    BY <1>3 DEF LoadConfig, Fail
  <2>3. OperationMode(config') \in RequestModes \cup {"AiRewrite"}
    BY DEF OperationMode, RequestModes
  <2> QED
    BY <2>1, <2>2, <2>3 DEF AboutInv
<1>4. CASE Resolve
  BY <1>4, ResolveKeepsAbout
<1>5. CASE TemplateUnreadable \/ Migrate \/ AiRewrite
  BY <1>5, EndKeepsAbout DEF TemplateUnreadable, Migrate, AiRewrite, Fail, Succeed
<1>6. CASE RequestFails \/ LoadPullRequest \/ ListPullRequests
  BY <1>6, AskingKeepsAbout
     DEF RequestFails, LoadPullRequest, ListPullRequests, WriteSummary, Fail, Succeed
<1>7. CASE \E list \in launch.served : FetchComments(list)
  BY <1>7, AskingKeepsAbout DEF FetchComments
<1>8. CASE ExportToStdout \/ CreateOutputFile
  BY <1>8, AskingKeepsAbout
     DEF ExportToStdout, CreateOutputFile, ExportsTo, Fail, Succeed
<1>9. CASE WriteFormat \/ Flush
  BY <1>9, AskingKeepsAbout
     DEF WriteFormat, WriteMarkdown, WriteJsonl, WriteTemplate, Buffered, Flush,
         Fail, Succeed
<1>10. CASE SummarizeDiscussions \/ VerifyResolutions \/ RunTui
  BY <1>10, AskingKeepsAbout
     DEF SummarizeDiscussions, VerifyResolutions, RunTui, WriteSummary, Fail, Succeed
<1>11. CASE SetUpTui
  <2>1. /\ UNCHANGED <<launch, config, mode, locator, requests>>
        /\ pc = "Work" /\ pc' = "Tui" /\ cells' = TuiCells(GitOpsFor(locator))
    BY <1>11 DEF SetUpTui
  <2>2. LocatorOK' <=> LocatorOK
    BY <2>1, ResolvedOnce
  <2>3. GitOpsFor(locator)' = GitOpsFor(locator)
    <3>1. ChosenDirectory' = ChosenDirectory
      BY <2>1 DEF ChosenDirectory
    <3> QED
      BY <2>1, <3>1 DEF GitOpsFor
  <2>4. CellsOK'
    BY <2>1, <2>3 DEF CellsOK, TuiCells
  <2>5. \A r \in requests' : r = RequestOf(locator')
    BY <2>1 DEF AboutInv
  <2> QED
    BY <2>1, <2>2, <2>4, <2>5 DEF AboutInv
<1> QED
  BY <1>1, <1>2, <1>3, <1>4, <1>5, <1>6, <1>7, <1>8, <1>9, <1>10, <1>11
     DEF NextLaunch

(* All that a run asks, and the git operations it gets, are about the      *)
(* repository it was pointed at, for all arguments, clones and spellings   *)
(* (pull_request_context.rs, discover_repo_for_locator).                   *)
THEOREM PointedSafety == SpecLaunch => []OneRepository
<1>1. InitLaunch => AboutInv
  BY DEF InitLaunch, AboutInv
<1>2. AboutInv /\ [NextLaunch]_launchVars => AboutInv'
  BY NextKeepsAbout
<1>3. AboutInv => OneRepository
  <2> SUFFICES ASSUME AboutInv PROVE OneRepository
    OBVIOUS
  <2>1. ASSUME NEW r \in requests PROVE IsAboutTarget(r)
    <3>1. LocatorOK /\ r = RequestOf(locator)
      BY <2>1 DEF AboutInv
    <3> QED
      BY <3>1, TargetIsAbout DEF LocatorOK
  <2>2. ASSUME cells # None
        PROVE  /\ cells.git = None <=> cells.failure # None
               /\ cells.git # None =>
                    \A r \in requests : IsAboutOriginOf(r, cells.git.dir)
    <3>1. CellsOK /\ launch \in Launches
      BY <2>2 DEF AboutInv
    <3>2. \A r \in requests : r = RequestOf(locator)
      BY DEF AboutInv
    <3> QED
      BY <3>1, <3>2, GitOpsMatch DEF CellsOK
  <2> QED
    BY <2>1, <2>2 DEF OneRepository
<1> QED
  BY <1>1, <1>2, <1>3, PTL DEF SpecLaunch

---------------------------------------------------------------------------
(* The order of an export.                                                 *)

(* compare_comments is the order of an export.                             *)
LEMMA ComparesAsExported ==
  ASSUME NEW a \in Ids, NEW b \in Ids
  PROVE  ExportedBefore(a, b) <=> CompareComments(a, b)
<1> DEFINE Late(n) == IF n = 0 THEN 1 ELSE 0
           Key(id) == <<Late(File[id]), File[id], Late(Line[id]), Line[id], id>>
           P(k) == /\ Key(a)[k] < Key(b)[k]
                   /\ \A j \in 1..(k - 1) : Key(a)[j] = Key(b)[j]
<1>1. ExportedBefore(a, b) <=> P(1) \/ P(2) \/ P(3) \/ P(4) \/ P(5)
  <2>1. ExportedBefore(a, b) <=> \E k \in 1..5 : P(k)
    BY DEF ExportedBefore
  <2>2. \A k \in 1..5 : k = 1 \/ k = 2 \/ k = 3 \/ k = 4 \/ k = 5
    OBVIOUS
  <2> HIDE DEF P
  <2> QED
    BY <2>1, <2>2
<1>2. /\ 1..(1 - 1) = {} /\ 1..(2 - 1) = {1} /\ 1..(3 - 1) = {1, 2}
      /\ 1..(4 - 1) = {1, 2, 3} /\ 1..(5 - 1) = {1, 2, 3, 4}
  OBVIOUS
<1> DEFINE fa == File[a]
           fb == File[b]
           la == Line[a]
           lb == Line[b]
<1>3. /\ P(1) <=> Late(fa) < Late(fb)
      /\ P(2) <=> Late(fa) = Late(fb) /\ fa < fb
      /\ P(3) <=> fa = fb /\ Late(fa) = Late(fb) /\ Late(la) < Late(lb)
      /\ P(4) <=> fa = fb /\ Late(fa) = Late(fb) /\ Late(la) = Late(lb) /\ la < lb
      /\ P(5) <=> fa = fb /\ Late(fa) = Late(fb) /\ Late(la) = Late(lb)
                    /\ la = lb /\ a < b
  <2> HIDE DEF Late
  <2> QED
    BY <1>2
<1>4. fa \in Nat /\ fb \in Nat /\ la \in Nat /\ lb \in Nat
  BY LaunchAssumption, DiscussionAssumption
<1>5. CompareComments(a, b) <=>
        \/ Earlier(fa, fb)
        \/ fa = fb /\ Earlier(la, lb)
        \/ fa = fb /\ la = lb /\ a < b
  BY DEF CompareComments
<1> HIDE DEF P, fa, fb, la, lb
<1>6. ASSUME NEW m \in Nat, NEW n \in Nat
      PROVE  Earlier(m, n) <=> (Late(m) < Late(n) \/ (Late(m) = Late(n) /\ m < n))
  BY DEF Earlier
<1>7. /\ Earlier(fa, fb) <=> (Late(fa) < Late(fb) \/ (Late(fa) = Late(fb) /\ fa < fb))
      /\ Earlier(la, lb) <=> (Late(la) < Late(lb) \/ (Late(la) = Late(lb) /\ la < lb))
  BY <1>4, <1>6
<1> HIDE DEF Late
<1> QED
  BY <1>1, <1>3, <1>5, <1>7

(* It is strict and total.                                                 *)
LEMMA ComparesTotally ==
  /\ \A a \in Ids : ~CompareComments(a, a)
  /\ \A a, b \in Ids : a = b \/ CompareComments(a, b) \/ CompareComments(b, a)
  /\ \A a, b, c \in Ids :
       CompareComments(a, b) /\ CompareComments(b, c) => CompareComments(a, c)
<1>1. \A m, n \in Nat : m = n \/ Earlier(m, n) \/ Earlier(n, m)
  BY DEF Earlier
<1>2. \A m \in Nat : ~Earlier(m, m)
  BY DEF Earlier
<1>3. \A l, m, n \in Nat : Earlier(l, m) /\ Earlier(m, n) => Earlier(l, n)
  BY DEF Earlier
<1>4. \A a \in Ids : File[a] \in Nat /\ Line[a] \in Nat /\ a \in Nat
  BY LaunchAssumption, DiscussionAssumption
<1>5. \A a \in Ids : ~CompareComments(a, a)
  BY <1>2, <1>4 DEF CompareComments
<1>6. ASSUME NEW a \in Ids, NEW b \in Ids
      PROVE  a = b \/ CompareComments(a, b) \/ CompareComments(b, a)
  <2>1. a = b \/ a < b \/ b < a
    BY <1>4
  <2>2. /\ File[a] = File[b] \/ Earlier(File[a], File[b]) \/ Earlier(File[b], File[a])
        /\ Line[a] = Line[b] \/ Earlier(Line[a], Line[b]) \/ Earlier(Line[b], Line[a])
    BY <1>1, <1>4
  <2> QED
    BY <2>1, <2>2 DEF CompareComments
<1>7. ASSUME NEW a \in Ids, NEW b \in Ids, NEW c \in Ids,
             CompareComments(a, b), CompareComments(b, c)
      PROVE  CompareComments(a, c)
  <2>1. /\ File[a] \in Nat /\ File[b] \in Nat /\ File[c] \in Nat
        /\ Line[a] \in Nat /\ Line[b] \in Nat /\ Line[c] \in Nat
        /\ a \in Nat /\ b \in Nat /\ c \in Nat
    BY <1>4
  <2>2. a < b /\ b < c => a < c
    BY <2>1
  <2> QED
    BY <1>3, <1>7, <2>1, <2>2 DEF CompareComments
<1> QED
  BY <1>5, <1>6, <1>7

(* GitHub lists each comment once.                                         *)
IsListing(list) == list \in Seq(Ids) /\ IsInjective(list)

(* What comes before what among comments: pairs of them.                   *)
ExportOrder(S) == {p \in S \X S : CompareComments(p[1], p[2])}

(* The same of the places of a list.                                       *)
PlaceOrder(list) ==
  {p \in (DOMAIN list) \X (DOMAIN list) : CompareComments(list[p[1]], list[p[2]])}

(* A pair is in it when its first comes before its second.                 *)
LEMMA OrderedPairs ==
  /\ \A S : \A a, b \in S : <<a, b>> \in ExportOrder(S) <=> CompareComments(a, b)
  /\ \A list : \A i, j \in DOMAIN list :
       <<i, j>> \in PlaceOrder(list) <=> CompareComments(list[i], list[j])
<1>1. ASSUME NEW S, NEW a \in S, NEW b \in S
      PROVE  <<a, b>> \in ExportOrder(S) <=> CompareComments(a, b)
  <2> DEFINE p == <<a, b>>
  <2>1. p \in S \X S /\ p[1] = a /\ p[2] = b
    OBVIOUS
  <2>2. ASSUME NEW q \in S \X S
        PROVE  q \in ExportOrder(S) <=> CompareComments(q[1], q[2])
    BY DEF ExportOrder
  <2> HIDE DEF p
  <2> QED
    BY <2>1, <2>2 DEF p
<1>2. ASSUME NEW list, NEW i \in DOMAIN list, NEW j \in DOMAIN list
      PROVE  <<i, j>> \in PlaceOrder(list) <=> CompareComments(list[i], list[j])
  <2> DEFINE p == <<i, j>>
  <2>1. p \in (DOMAIN list) \X (DOMAIN list) /\ p[1] = i /\ p[2] = j
    OBVIOUS
  <2>2. ASSUME NEW q \in (DOMAIN list) \X (DOMAIN list)
        PROVE  q \in PlaceOrder(list) <=> CompareComments(list[q[1]], list[q[2]])
    BY DEF PlaceOrder
  <2> HIDE DEF p
  <2> QED
    BY <2>1, <2>2 DEF p
<1> QED
  BY <1>1, <1>2

(* Both are total orders.                                                  *)
LEMMA ExportsAreOrdered ==
  /\ \A S \in SUBSET Ids : IsOrder(S, ExportOrder(S))
  /\ \A list : IsListing(list) => IsOrder(DOMAIN list, PlaceOrder(list))
<1>1. ASSUME NEW S \in SUBSET Ids PROVE IsOrder(S, ExportOrder(S))
  BY ComparesTotally, OrderedPairs DEF IsOrder
<1>2. ASSUME NEW list, IsListing(list)
      PROVE  IsOrder(DOMAIN list, PlaceOrder(list))
  <2>1. /\ \A i \in DOMAIN list : list[i] \in Ids
        /\ \A i, j \in DOMAIN list : list[i] = list[j] => i = j
    BY <1>2, ElementOfSeq, LenProperties DEF IsListing, IsInjective
  <2> QED
    BY <2>1, ComparesTotally, OrderedPairs DEF IsOrder
<1> QED
  BY <1>1, <1>2

(* Sorting by rank, whatever the comparison is written like.               *)
LEMMA SortedIsRanked ==
  ASSUME NEW list, IsListing(list), IsFiniteSet(ToSet(list))
  PROVE  /\ Sorted(ToSet(list), ExportedBefore)
              = Ranked(ToSet(list), ExportOrder(ToSet(list)))
         /\ SortComments(list)
              = [k \in DOMAIN list |->
                   list[Ranked(DOMAIN list, PlaceOrder(list))[k]]]
<1>1. /\ \A i \in DOMAIN list : list[i] \in Ids
      /\ \A i, j \in DOMAIN list : list[i] = list[j] => i = j
      /\ DOMAIN list \in SUBSET Nat
  BY ElementOfSeq, LenProperties DEF IsListing, IsInjective
<1>2. ToSet(list) \in SUBSET Ids
  BY <1>1 DEF ToSet
<1>3. Sorted(ToSet(list), ExportedBefore)
        = Ranked(ToSet(list), ExportOrder(ToSet(list)))
  <2> DEFINE S == ToSet(list)
             R == ExportOrder(S)
  <2>1. ASSUME NEW x \in S
        PROVE  {y \in S \ {x} : ExportedBefore(y, x)} = {y \in S : <<y, x>> \in R}
    <3>1. \A y \in S : <<y, x>> \in R <=> CompareComments(y, x)
      BY OrderedPairs
    <3>2. \A y \in S : ExportedBefore(y, x) <=> CompareComments(y, x)
      BY <1>2, ComparesAsExported
    <3>3. ~CompareComments(x, x)
      BY <1>2, ComparesTotally
    <3> HIDE DEF S, R
    <3> QED
      BY <3>1, <3>2, <3>3
  <2>2. \A x \in S : Cardinality({y \in S \ {x} : ExportedBefore(y, x)})
                      = Rank(S, R, x)
    BY <2>1 DEF Rank
  <2>3. Sorted(S, ExportedBefore)
          = [n \in 1..Cardinality(S) |->
               CHOOSE x \in S :
                 Cardinality({y \in S \ {x} : ExportedBefore(y, x)}) = n - 1]
    BY DEF Sorted
  <2> HIDE DEF S, R
  <2>4. \A n : (CHOOSE x \in S :
                  Cardinality({y \in S \ {x} : ExportedBefore(y, x)}) = n - 1)
               = CHOOSE x \in S : Rank(S, R, x) = n - 1
    BY <2>2
  <2>5. Sorted(S, ExportedBefore) = Ranked(S, R)
    BY <2>3, <2>4 DEF Ranked
  <2> QED
    BY <2>5 DEF S, R
<1>4. SortComments(list)
        = [k \in DOMAIN list |-> list[Ranked(DOMAIN list, PlaceOrder(list))[k]]]
  <2> DEFINE D == DOMAIN list
             Q == PlaceOrder(list)
             Before(i, j) == \/ CompareComments(list[i], list[j])
                             \/ ~CompareComments(list[j], list[i]) /\ i <= j
  <2>1. ASSUME NEW x \in D
        PROVE  {y \in D \ {x} : Before(y, x)} = {y \in D : <<y, x>> \in Q}
    <3>1. \A y \in D : <<y, x>> \in Q <=> CompareComments(list[y], list[x])
      BY OrderedPairs
    <3>2. \A y \in D \ {x} : list[y] # list[x] /\ list[y] \in Ids /\ list[x] \in Ids
      BY <1>1
    <3>3. ~CompareComments(list[x], list[x])
      BY <1>1, ComparesTotally
    <3>4. \A y \in D \ {x} : \/ CompareComments(list[y], list[x])
                             \/ CompareComments(list[x], list[y])
      BY <3>2, ComparesTotally
    <3> HIDE DEF Q
    <3> QED
      BY <3>1, <3>3, <3>4
  <2>2. \A x \in D : Cardinality({y \in D \ {x} : Before(y, x)}) = Rank(D, Q, x)
    BY <2>1 DEF Rank
  <2>3. Sorted(D, Before)
          = [n \in 1..Cardinality(D) |->
               CHOOSE x \in D : Cardinality({y \in D \ {x} : Before(y, x)}) = n - 1]
    BY DEF Sorted
  <2>4. Sorted(D, Before) = Ranked(D, Q)
    <3> HIDE DEF D, Q, Before
    <3>1. \A n : (CHOOSE x \in D : Cardinality({y \in D \ {x} : Before(y, x)}) = n - 1)
                 = CHOOSE x \in D : Rank(D, Q, x) = n - 1
      BY <2>2
    <3> QED
      BY <2>3, <3>1 DEF Ranked
  <2>5. SortComments(list) = [k \in D |-> list[Sorted(D, Before)[k]]]
    BY DEF SortComments
  <2> HIDE DEF Before
  <2> QED
    BY <2>4, <2>5
<1> QED
  BY <1>3, <1>4

(* The member at a place has that many before it.                          *)
LEMMA RankOfRanked ==
  ASSUME NEW S, IsFiniteSet(S), NEW R, IsOrder(S, R), NEW k \in 1..Cardinality(S)
  PROVE  Ranked(S, R)[k] \in S /\ Rank(S, R, Ranked(S, R)[k]) = k - 1
<1>1. Cardinality(S) \in Nat
  BY FS_CardinalityType
<1>2. k - 1 \in 0..(Cardinality(S) - 1)
  BY <1>1
<1>3. \E r \in S : Rank(S, R, r) = k - 1
  BY <1>2, EveryRowIsTaken
<1>4. Ranked(S, R)[k] = CHOOSE x \in S : Rank(S, R, x) = k - 1
  BY DEF Ranked
<1> QED
  BY <1>3, <1>4

(* sort_comments gives the comments in the order of an export, whichever   *)
(* order they were listed in.                                              *)
LEMMA SortedForExport ==
  ASSUME NEW list, IsListing(list)
  PROVE  /\ SortComments(list) = Sorted(ToSet(list), ExportedBefore)
         /\ SortComments(list) \in Seq(Ids)
<1> DEFINE D == DOMAIN list
           S == ToSet(list)
           Q == PlaceOrder(list)
           R == ExportOrder(S)
           N == Len(list)
<1>1. /\ N \in Nat /\ D = 1..N /\ IsFiniteSet(D) /\ Cardinality(D) = N
      /\ \A i \in D : list[i] \in Ids
      /\ \A i, j \in D : list[i] = list[j] => i = j
  <2>1. N \in Nat /\ D = 1..N
    BY LenProperties DEF IsListing
  <2>2. IsFiniteSet(D) /\ Cardinality(D) = N
    <3> HIDE DEF D, N
    <3>1. IsFiniteSet(1..N) /\ Cardinality(1..N) = IF 1 > N THEN 0 ELSE N - 1 + 1
      BY <2>1, FS_Interval
    <3> QED
      BY <2>1, <3>1
  <2> QED
    BY <2>1, <2>2, ElementOfSeq DEF IsListing, IsInjective
<1>2. S \in SUBSET Ids /\ IsFiniteSet(S) /\ Cardinality(S) = N
  <2>1. S = {list[i] : i \in D}
    BY DEF ToSet
  <2> DEFINE f == [i \in D |-> list[i]]
  <2>2. f \in Bijection(D, S)
    <3> HIDE DEF D, S
    <3>1. f \in [D -> S]
      BY <2>1
    <3>2. \A i, j \in D : f[i] = f[j] => i = j
      BY <1>1
    <3>3. \A x \in S : \E i \in D : f[i] = x
      BY <2>1
    <3> HIDE DEF f
    <3> QED
      BY <3>1, <3>2, <3>3 DEF Bijection, Injection, Surjection, IsInjective
  <2>3. ExistsBijection(D, S)
    BY <2>2 DEF ExistsBijection
  <2> HIDE DEF D, S, f
  <2> QED
    BY <1>1, <2>1, <2>3, FS_Bijection
<1>3. IsOrder(D, Q) /\ IsOrder(S, R)
  BY <1>2, ExportsAreOrdered
<1>4. ASSUME NEW i \in D
      PROVE  list[i] \in S /\ Rank(D, Q, i) = Rank(S, R, list[i])
  <2> DEFINE Before == {j \in D : <<j, i>> \in Q}
             Smaller == {y \in S : <<y, list[i]>> \in R}
             f == [j \in Before |-> list[j]]
  <2>1. list[i] \in S /\ S = {list[j] : j \in D}
    BY DEF ToSet
  <2>2. \A j \in D : <<j, i>> \in Q <=> CompareComments(list[j], list[i])
    BY OrderedPairs
  <2>3. \A y \in S : <<y, list[i]>> \in R <=> CompareComments(y, list[i])
    BY <2>1, OrderedPairs
  <2>4. f \in Bijection(Before, Smaller)
    <3> HIDE DEF D, S, Q, R
    <3>1. f \in [Before -> Smaller]
      BY <2>1, <2>2, <2>3
    <3>2. \A j, k \in Before : f[j] = f[k] => j = k
      BY <1>1
    <3>3. \A y \in Smaller : \E j \in Before : f[j] = y
      BY <2>1, <2>2, <2>3
    <3> HIDE DEF f, Before, Smaller
    <3> QED
      BY <3>1, <3>2, <3>3 DEF Bijection, Injection, Surjection, IsInjective
  <2>5. IsFiniteSet(Before)
    <3>1. Before \in SUBSET D
      OBVIOUS
    <3> HIDE DEF Before, D
    <3> QED
      BY <1>1, <3>1, FS_Subset
  <2>6. Cardinality(Smaller) = Cardinality(Before)
    <3>1. ExistsBijection(Before, Smaller)
      BY <2>4 DEF ExistsBijection
    <3> HIDE DEF Before, Smaller
    <3> QED
      BY <2>5, <3>1, FS_Bijection
  <2> QED
    BY <2>1, <2>6 DEF Rank
<1> DEFINE whole == Ranked(S, R)
           order == Ranked(D, Q)
<1> HIDE DEF D, S, Q, R, N
<1>5. ASSUME NEW k \in 1..N
      PROVE  whole[k] \in S /\ whole[k] = list[order[k]]
  <2>1. order[k] \in D /\ Rank(D, Q, order[k]) = k - 1
    BY <1>1, <1>3, RankOfRanked
  <2>2. whole[k] \in S /\ Rank(S, R, whole[k]) = k - 1
    BY <1>2, <1>3, RankOfRanked
  <2>3. list[order[k]] \in S /\ Rank(S, R, list[order[k]]) = k - 1
    BY <1>4, <2>1
  <2> DEFINE rank == [r \in S |-> Rank(S, R, r)]
  <2>4. rank \in Injection(S, 0..(Cardinality(S) - 1))
    BY <1>2, <1>3, RanksAreRows
  <2>5. rank[whole[k]] = rank[list[order[k]]]
    BY <2>2, <2>3
  <2> HIDE DEF rank, whole, order
  <2>6. DOMAIN rank = S
    BY <2>4 DEF Injection
  <2> QED
    BY <2>2, <2>3, <2>4, <2>5, <2>6 DEF Injection, IsInjective
<1>6. DOMAIN whole = 1..N
  BY <1>2 DEF Ranked
<1>7. whole = [k \in 1..N |-> list[order[k]]]
  <2>1. whole = [k \in 1..N |-> whole[k]]
    BY <1>2 DEF Ranked
  <2> HIDE DEF whole, order
  <2> QED
    BY <1>5, <2>1
<1>8. SortComments(list) = whole /\ Sorted(S, ExportedBefore) = whole
  BY <1>1, <1>2, <1>7, SortedIsRanked DEF S, D, Q, R
<1>9. whole \in Seq(Ids)
  <2>1. \A k \in 1..N : whole[k] \in Ids
    BY <1>2, <1>5
  <2>2. whole = [k \in 1..N |-> whole[k]]
    BY <1>2 DEF Ranked
  <2> HIDE DEF whole
  <2>3. whole \in [1..N -> Ids]
    BY <2>1, <2>2
  <2> QED
    BY <1>1, <2>3, SeqDef
<1> QED
  BY <1>8, <1>9 DEF S

---------------------------------------------------------------------------
(* The export.                                                             *)

(* The sorted comments.                                                    *)
Whole == SortComments(reviews)

(* The file is the beginning of the export.                                *)
Begun == \E n \in 0..Len(Whole) : output = SubSeq(Whole, 1, n)

(* Until it is created the file is what it was; what is in it, and in the  *)
(* buffer, comes from the sorted comments; only the flush of all of them   *)
(* ends an export well.                                                    *)
FileInv ==
  /\ launch \in Launches
  /\ pc \in {"Work", "Write", "Flush"} => IsListing(reviews)
  /\ pc = "Tui" => mode = "ReviewTui"
  /\ pc \in {"Scan", "Resolve", "Fetch", "Work", "Tui"} => output = None
  /\ pc = "Write" => output = <<>>
  /\ pc = "Flush" => buffer = Whole /\ Begun
  /\ output # None => IsListing(reviews) /\ Begun
  /\ pc # "Done" => exit # "Success"
  /\ exit = "Success" /\ mode = "ExportComments" /\ config.output # None
       => output = Whole /\ IsListing(reviews)

(* A step that is not of the file, and ends well only elsewhere.           *)
LEMMA RestKeepsFile ==
  ASSUME FileInv, UNCHANGED <<launch, fileVars>>, reviews' = reviews,
         pc # "Done", pc' \notin {"Write", "Flush"},
         pc' = "Work" => IsListing(reviews),
         pc' \in {"Scan", "Resolve", "Fetch", "Work", "Tui"} => output = None,
         pc' = "Tui" => mode' = "ReviewTui",
         exit' = "Success" => pc' = "Done" /\ (mode' # "ExportComments"
                                               \/ config'.output = None)
  PROVE  FileInv'
<1>1. output' = output /\ buffer' = buffer
  BY DEF fileVars
<1>2. Whole' = Whole /\ (Begun' <=> Begun)
  BY <1>1 DEF Whole, Begun
<1> QED
  BY <1>1, <1>2 DEF FileInv

(* Some of the buffer is on disk.                                          *)
LEMMA SpillBegins ==
  ASSUME NEW list \in Seq(Ids), Spill(list),
         \E n \in 0..Len(list) : output = SubSeq(list, 1, n)
  PROVE  \E n \in 0..Len(list) : output' = SubSeq(list, 1, n)
<1>1. Len(list) \in Nat /\ \A i \in 1..Len(list) : list[i] \in Ids
  BY LenProperties, ElementOfSeq
<1>2. PICK n \in 0..Len(list) : output = SubSeq(list, 1, n)
  OBVIOUS
<1>3. Len(output) \in Nat
  <2>1. output \in Seq(Ids)
    BY <1>1, <1>2, SubSeqProperties
  <2> QED
    BY <2>1, LenProperties
<1> QED
  BY <1>1, <1>3 DEF Spill

(* write_output.                                                           *)
LEMMA WritingKeepsFile ==
  ASSUME FileInv, WriteFormat \/ Flush
  PROVE  FileInv'
<1>1. /\ UNCHANGED <<launch, reviews, config, mode>>
      /\ pc \in {"Write", "Flush"} /\ IsListing(reviews)
  BY DEF WriteFormat, Flush, FileInv, netVars
<1>2. Whole \in Seq(Ids) /\ Whole' = Whole
  BY <1>1, SortedForExport DEF Whole
<1>3. Begun /\ output # None /\ Len(Whole) \in Nat
  <2>1. Len(Whole) \in Nat
    BY <1>2, LenProperties
  <2>2. SubSeq(Whole, 1, 0) = <<>>
    BY SubSeqEmpty
  <2>3. Begun
    <3>1. CASE pc = "Write"
      <4>1. output = SubSeq(Whole, 1, 0) /\ 0 \in 0..Len(Whole)
        BY <2>1, <2>2, <3>1 DEF FileInv
      <4> QED
        BY <4>1 DEF Begun
    <3> QED
      BY <1>1, <3>1 DEF FileInv
  <2>4. \A n \in 0..Len(Whole) : SubSeq(Whole, 1, n) \in Seq(Ids)
    BY <1>2, <2>1, SubSeqProperties, ElementOfSeq
  <2> QED
    BY <2>1, <2>3, <2>4, LaunchAssumption DEF Begun
<1>4. CASE WriteFormat
  <2>1. PICK list : list = Whole /\ \/ Buffered(list)
                                    \/ Fail("Configuration") /\ UNCHANGED fileVars
    BY <1>4 DEF WriteFormat, WriteMarkdown, WriteJsonl, WriteTemplate, Whole
  <2>2. CASE Buffered(list)
    <3>1. Begun'
      BY <1>2, <1>3, <2>1, <2>2, SpillBegins DEF Buffered, Begun
    <3>2. \/ buffer' = Whole /\ pc' = "Flush" /\ exit' = exit
          \/ pc' = "Done" /\ exit' = "Io"
      BY <2>1, <2>2 DEF Buffered, Fail
    <3> QED
      BY <1>1, <1>2, <3>1, <3>2 DEF FileInv
  <2>3. CASE Fail("Configuration") /\ UNCHANGED fileVars
    <3>1. Begun'
      BY <1>2, <1>3, <2>3 DEF Begun, fileVars
    <3> QED
      BY <1>1, <1>2, <2>3, <3>1 DEF FileInv, Fail
  <2> QED
    BY <2>1, <2>2, <2>3
<1>5. CASE Flush
  <2>1. buffer = Whole
    BY <1>5 DEF Flush, FileInv
  <2>2. CASE Succeed /\ output' = buffer
    <3>1. SubSeq(Whole, 1, Len(Whole)) = Whole
      BY <1>2, SubSeqFull
    <3>2. Begun'
      <4>1. output' = SubSeq(Whole', 1, Len(Whole')) /\ Len(Whole') \in 0..Len(Whole')
        BY <1>2, <1>3, <2>1, <2>2, <3>1
      <4> QED
        BY <4>1 DEF Begun
    <3> QED
      BY <1>1, <1>2, <2>1, <2>2, <3>2 DEF FileInv, Succeed
  <2>3. CASE Fail("Io") /\ Spill(buffer)
    <3>1. Begun'
      BY <1>2, <1>3, <2>1, <2>3, SpillBegins DEF Begun
    <3> QED
      BY <1>1, <1>2, <2>3, <3>1 DEF FileInv, Fail
  <2> QED
    BY <1>5, <2>2, <2>3 DEF Flush
<1> QED
  BY <1>4, <1>5

(* No check of an export fails with success.                               *)
LEMMA ChecksFail ==
  ASSUME mode = "ExportComments"
  PROVE  FirstOf(Checks(Target)) # "Success"
<1>1. Target.error # "Success"
  <2>1. Target = UrlLocator
    BY DEF Target
  <2>2. None # "Success"
    BY LaunchAssumption DEF Outcomes
  <2> QED
    BY <2>1, <2>2 DEF UrlLocator, ParseLocator, Err, Ok
<1>2. None # "Success" /\ ExportCheck # "Success" /\ TokenCheck # "Success"
      /\ Unless(config.pr_url # None, "MissingPullRequestUrl") # "Success"
  BY LaunchAssumption
     DEF Outcomes, ExportCheck, TokenCheck, Unless, OpenDirCheck
<1> DEFINE errors == Checks(Target)
<1>3. /\ errors = <<Unless(config.pr_url # None, "MissingPullRequestUrl"),
                    ExportCheck, Target.error, TokenCheck>>
  BY DEF Checks, ExportChecks
<1>4. DOMAIN errors = 1..4 /\ \A n \in 1..4 : errors[n] # "Success"
  BY <1>1, <1>2, <1>3
<1> HIDE DEF errors
<1>5. CASE \A n \in 1..4 : errors[n] = None
  BY <1>2, <1>4, <1>5 DEF FirstOf, errors
<1>6. CASE \E n \in 1..4 : errors[n] # None
  <2> DEFINE failed == {n \in DOMAIN errors : errors[n] # None}
  <2>1. failed \in SUBSET Nat /\ failed # {} /\ failed \subseteq 1..4
    BY <1>4, <1>6
  <2>2. FirstOf(errors) = errors[Min(failed)]
    BY <2>1 DEF FirstOf
  <2> HIDE DEF failed
  <2>3. Min(failed) \in failed
    BY <2>1, LeastOfSet DEF Min
  <2> QED
    BY <1>4, <2>1, <2>2, <2>3 DEF errors
<1> QED
  BY <1>5, <1>6

(* Every step of a run.                                                    *)
LEMMA NextKeepsFile ==
  ASSUME FileInv, [NextLaunch]_launchVars
  PROVE  FileInv'
<1> USE DEF netVars
<1>1. CASE UNCHANGED launchVars
  BY <1>1 DEF launchVars, inputVars, fileVars, FileInv, Whole, Begun
<1>2. CASE Scan
  <2>1. UNCHANGED <<launch, fileVars, reviews, config, mode, pc, exit>> /\ pc = "Scan"
    BY <1>2 DEF Scan
  <2> QED
    BY <2>1, RestKeepsFile DEF FileInv
<1>3. CASE LoadConfig
  <2>1. /\ UNCHANGED <<launch, fileVars, reviews>> /\ pc = "Scan"
        /\ \/ pc' = "Done" /\ exit' # "Success"
           \/ pc' = "Resolve" /\ exit' = exit
    <3>1. LoadFromIter(filtered, launch.env).error \in {None, "Configuration"}
      BY DEF LoadFromIter, Err, Ok
    <3>2. "Success" # "Configuration"
      OBVIOUS
    <3> QED
      BY <1>3, <3>1, <3>2 DEF LoadConfig, Fail
  <2> QED
    BY <2>1, RestKeepsFile DEF FileInv
<1>4. CASE Resolve
  <2>1. /\ UNCHANGED <<launch, fileVars, reviews>> /\ pc = "Resolve"
        /\ \/ pc' = "Done" /\ exit' = FirstOf(Checks(Target))
           \/ pc' = "Fetch" /\ exit' = exit
        /\ mode' = mode
    BY <1>4 DEF Resolve, Fail
  <2> QED
    BY <2>1, ChecksFail, RestKeepsFile DEF FileInv
<1>5. CASE TemplateUnreadable \/ Migrate \/ AiRewrite
  <2>1. /\ UNCHANGED <<launch, fileVars, reviews, config, mode>>
        /\ pc = "Resolve" /\ pc' = "Done"
        /\ exit' = "Success" => mode # "ExportComments"
    BY <1>5 DEF TemplateUnreadable, Migrate, AiRewrite, Fail, Succeed
  <2>2. pc # "Done" /\ pc' \notin {"Write", "Flush", "Work", "Tui", "Scan",
                                   "Resolve", "Fetch"}
    BY <2>1
  <2>3. UNCHANGED <<launch, fileVars>> /\ reviews' = reviews /\ mode' = mode
    BY <2>1
  <2>4. exit' = "Success" => pc' = "Done" /\ (mode' # "ExportComments"
                                             \/ config'.output = None)
    BY <2>1, <2>3
  <2>5. /\ pc' = "Work" => IsListing(reviews)
        /\ pc' \in {"Scan", "Resolve", "Fetch", "Work", "Tui"} => output = None
        /\ pc' = "Tui" => mode' = "ReviewTui"
    BY <2>2
  <2> QED
    BY <2>2, <2>3, <2>4, <2>5, RestKeepsFile
<1>6. CASE RequestFails \/ LoadPullRequest \/ ListPullRequests
  BY <1>6, RestKeepsFile
     DEF RequestFails, LoadPullRequest, ListPullRequests, WriteSummary, Fail,
         Succeed, FileInv, OctocrabErrors, ListingErrors, CacheErrors
<1>7. CASE \E list \in launch.served : FetchComments(list)
  <2>1. PICK list \in launch.served : FetchComments(list)
    BY <1>7
  <2>2. IsListing(list) /\ output = None
    BY <2>1, LaunchAssumption DEF FetchComments, FileInv, IsListing
  <2>3. /\ pc' = "Work" /\ reviews' = list /\ exit' = exit /\ exit # "Success"
        /\ UNCHANGED <<launch, fileVars>>
    BY <2>1 DEF FetchComments, FileInv
  <2> QED
    BY <2>2, <2>3 DEF FileInv, fileVars
<1>8. CASE ExportToStdout
  BY <1>8, RestKeepsFile DEF ExportToStdout, ExportsTo, Fail, Succeed, FileInv
<1>9. CASE CreateOutputFile
  <2>1. /\ UNCHANGED <<launch, reviews, config, mode>> /\ pc = "Work"
        /\ \/ pc' = "Done" /\ output' = output /\ exit' \in {"NoDirectory", "Io"}
           \/ pc' = "Write" /\ output' = <<>> /\ exit' = exit
    BY <1>9, LaunchAssumption
       DEF CreateOutputFile, ExportsTo, Fail, OpenDirCheck, Unless
  <2>2. IsListing(reviews) /\ output = None /\ exit # "Success"
    BY <2>1 DEF FileInv
  <2>3. CASE pc' = "Write" /\ output' = <<>> /\ exit' = exit
    <3>1. Begun'
      <4>1. Whole' = Whole /\ Whole \in Seq(Ids)
        BY <2>1, <2>2, SortedForExport DEF Whole
      <4>2. Len(Whole) \in Nat /\ SubSeq(Whole, 1, 0) = <<>>
        BY <4>1, LenProperties, SubSeqEmpty
      <4> QED
        BY <2>3, <4>1, <4>2 DEF Begun
    <3> QED
      BY <2>1, <2>2, <2>3, <3>1 DEF FileInv
  <2>4. CASE pc' = "Done" /\ output' = output /\ exit' \in {"NoDirectory", "Io"}
    BY <2>1, <2>2, <2>4 DEF FileInv
  <2> QED
    BY <2>1, <2>3, <2>4
<1>10. CASE WriteFormat \/ Flush
  BY <1>10, WritingKeepsFile
<1>11. CASE SummarizeDiscussions \/ VerifyResolutions
  BY <1>11, RestKeepsFile
     DEF SummarizeDiscussions, VerifyResolutions, WriteSummary, Fail, Succeed, FileInv
<1>12. CASE SetUpTui
  BY <1>12, RestKeepsFile DEF SetUpTui, FileInv
<1>13. CASE RunTui
  BY <1>13, RestKeepsFile DEF RunTui, Fail, Succeed, FileInv
<1> QED
  BY <1>1, <1>2, <1>3, <1>4, <1>5, <1>6, <1>7, <1>8, <1>9, <1>10, <1>11, <1>12,
     <1>13 DEF NextLaunch

(* An export that succeeds is whole, and in the order of its comments      *)
(* whatever order they came in; one that fails leaves a beginning of it    *)
(* (sort_comments, write_output).                                          *)
THEOREM ExportSafety == SpecLaunch => []ExportIsWhole
<1>1. InitLaunch => FileInv
  <2>1. None # "Success"
    BY LaunchAssumption DEF Outcomes
  <2> QED
    BY <2>1 DEF InitLaunch, FileInv
<1>2. FileInv /\ [NextLaunch]_launchVars => FileInv'
  BY NextKeepsFile
<1>3. FileInv => ExportIsWhole
  <2> SUFFICES ASSUME FileInv PROVE ExportIsWhole
    OBVIOUS
  <2> DEFINE whole == Sorted(ToSet(reviews), ExportedBefore)
  <2>1. ASSUME output # None
        PROVE  reviews # None /\ IsPrefix(output, whole)
    <3>1. IsListing(reviews) /\ Begun
      BY <2>1 DEF FileInv
    <3>2. reviews # None
      BY <3>1, LaunchAssumption DEF IsListing
    <3>3. whole = Whole /\ Whole \in Seq(Ids)
      BY <3>1, SortedForExport DEF Whole
    <3>4. PICK n \in 0..Len(Whole) : output = SubSeq(Whole, 1, n)
      BY <3>1 DEF Begun
    <3> HIDE DEF whole
    <3>5. Len(Whole) \in Nat /\ \A i \in 1..Len(Whole) : Whole[i] \in Ids
      BY <3>3, LenProperties, ElementOfSeq
    <3>6. output \in Seq(Ids) /\ Len(output) = n
      BY <3>4, <3>5, SubSeqProperties
    <3>7. SubSeq(output, 1, Len(output)) = output
      BY <3>6, SubSeqFull
    <3> QED
      BY <3>2, <3>3, <3>4, <3>5, <3>6, <3>7 DEF IsPrefix
  <2>2. ASSUME exit = "Success", mode = "ExportComments", config.output # None
        PROVE  output = whole
    <3>1. output = Whole /\ IsListing(reviews)
      BY <2>2 DEF FileInv
    <3> QED
      BY <3>1, SortedForExport DEF Whole
  <2> QED
    BY <2>1, <2>2 DEF ExportIsWhole
<1> QED
  BY <1>1, <1>2, <1>3, PTL DEF SpecLaunch

---------------------------------------------------------------------------
(* The summary.                                                            *)

(* The comments that are fetched are a conversation.                       *)
LEMMA FetchedConversation ==
  ASSUME launch \in Launches, IsListing(reviews)
  PROVE  /\ Conversation(CommentsOf(reviews))
         /\ IdsOf(CommentsOf(reviews)) = ToSet(reviews)
<1> DEFINE ids == ToSet(reviews)
           comment == [id \in ids |-> [id |-> id, reply |-> launch.reply[id]]]
           comments == CommentsOf(reviews)
<1>1. /\ reviews \in Seq(Ids) /\ DOMAIN reviews = 1..Len(reviews)
      /\ Len(reviews) \in Nat
  BY LenProperties DEF IsListing
<1>2. ids \in SUBSET Ids
  BY <1>1, ElementOfSeq DEF ToSet
<1>3. IsFiniteSet(ids)
  <2>1. IsFiniteSet(1..Len(reviews))
    BY <1>1, FS_Interval
  <2>2. \A y \in ids : \E n \in 1..Len(reviews) : y = reviews[n]
    BY <1>1 DEF ToSet
  <2> HIDE DEF ids
  <2> QED
    BY <2>1, <2>2, ImageIsFinite
<1>4. /\ \A c \in comments : /\ c.id \in ids /\ c.reply = launch.reply[c.id]
                            /\ c = comment[c.id]
      /\ \A id \in ids : comment[id] \in comments /\ comment[id].id = id
  BY DEF CommentsOf
<1>5. \A id \in Ids : launch.reply[id] \in Ids => launch.reply[id] < id
  BY LaunchAssumption
<1> HIDE DEF ids, comment, comments
<1>6. IsFiniteSet(comments)
  BY <1>3, <1>4, ImageIsFinite
<1>7. IdsOf(comments) = ids
  BY <1>4 DEF IdsOf
<1> QED
  BY <1>2, <1>4, <1>5, <1>6, <1>7 DEF Conversation, comments, ids

(* What is printed is a summary of the comments fetched.                   *)
Told ==
  \E answer \in Answers :
    /\ Accepts(CommentsOf(reviews), answer)
    /\ summary = Summary(CommentsOf(reviews), answer)

(* It is printed once, at the end.                                         *)
SummaryInv ==
  /\ FileInv
  /\ summary # None => pc = "Done" /\ IsListing(reviews) /\ Told

(* Every step of a run.                                                    *)
LEMMA NextKeepsSummary ==
  ASSUME SummaryInv, [NextLaunch]_launchVars
  PROVE  SummaryInv'
<1>1. FileInv'
  BY NextKeepsFile DEF SummaryInv
<1>2. CASE UNCHANGED launchVars
  BY <1>1, <1>2 DEF launchVars, inputVars, netVars, SummaryInv, Told, CommentsOf
<1>3. CASE SummarizeDiscussions
  <2>1. /\ pc = "Work" /\ pc' = "Done" /\ UNCHANGED <<launch, reviews>>
        /\ \/ UNCHANGED summary
           \/ \E answer \in Answers :
                /\ Accepts(CommentsOf(reviews), answer)
                /\ summary' = Summary(CommentsOf(reviews), answer)
    BY <1>3 DEF SummarizeDiscussions, Fail, Succeed, netVars
  <2>2. IsListing(reviews)' /\ CommentsOf(reviews)' = CommentsOf(reviews)
    BY <2>1 DEF SummaryInv, FileInv, CommentsOf
  <2> QED
    BY <1>1, <2>1, <2>2 DEF SummaryInv, Told
<1>4. CASE pc # "Done" /\ UNCHANGED summary
  BY <1>1, <1>4 DEF SummaryInv
<1>5. ASSUME NextLaunch, ~SummarizeDiscussions
      PROVE  pc # "Done" /\ UNCHANGED summary
  <2>1. CASE Scan \/ LoadConfig \/ Resolve \/ TemplateUnreadable \/ Migrate
             \/ AiRewrite
    BY <2>1
       DEF Scan, LoadConfig, Resolve, TemplateUnreadable, Migrate, AiRewrite
  <2>2. CASE \/ RequestFails \/ LoadPullRequest \/ ListPullRequests
             \/ \E list \in launch.served : FetchComments(list)
    BY <2>2
       DEF RequestFails, LoadPullRequest, ListPullRequests, FetchComments
  <2>3. CASE ExportToStdout \/ CreateOutputFile \/ WriteFormat \/ Flush
    BY <2>3 DEF ExportToStdout, CreateOutputFile, ExportsTo, WriteFormat, Flush
  <2>4. CASE VerifyResolutions \/ SetUpTui \/ RunTui
    BY <2>4 DEF VerifyResolutions, SetUpTui, RunTui
  <2> QED
    BY <1>5, <2>1, <2>2, <2>3, <2>4 DEF NextLaunch
<1> QED
  BY <1>2, <1>3, <1>4, <1>5

(* Each comment is in exactly one item of a summary that is printed, with  *)
(* those it is joined to by replies and no others (threads.rs,             *)
(* service_validation.rs).                                                 *)
THEOREM ThreadsSafety == SpecLaunch => []ItemsAreThreads
<1>1. InitLaunch => SummaryInv
  <2>1. None # "Success"
    BY LaunchAssumption DEF Outcomes
  <2> QED
    BY <2>1 DEF InitLaunch, FileInv, SummaryInv
<1>2. SummaryInv /\ [NextLaunch]_launchVars => SummaryInv'
  BY NextKeepsSummary
<1>3. SummaryInv => ItemsAreThreads
  <2> SUFFICES ASSUME SummaryInv, summary # None,
                      NEW a \in ToSet(reviews), NEW b \in ToSet(reviews)
               PROVE  LET items == Items(summary)
                      IN Cardinality({i \in DOMAIN items :
                                        {a, b} \subseteq ToSet(items[i].related)})
                           = IF Joined(a, b, CommentsOf(reviews)) THEN 1 ELSE 0
    BY DEF ItemsAreThreads
  <2>1. /\ Conversation(CommentsOf(reviews))
        /\ IdsOf(CommentsOf(reviews)) = ToSet(reviews)
    BY FetchedConversation DEF SummaryInv, FileInv
  <2>2. PICK answer \in Answers :
          /\ Accepts(CommentsOf(reviews), answer)
          /\ summary = Summary(CommentsOf(reviews), answer)
    BY DEF SummaryInv, Told
  <2>3. a \in IdsOf(CommentsOf(reviews)) /\ b \in IdsOf(CommentsOf(reviews))
    BY <2>1
  <2> QED
    BY <2>1, <2>2, <2>3, ItemsJoinThreads
<1> QED
  BY <1>1, <1>2, <1>3, PTL DEF SpecLaunch

---------------------------------------------------------------------------
(* The arguments.                                                          *)

(* The numbers of K, from the least on.                                    *)
ListsUp(at, K) ==
  /\ at \in Seq(Nat)
  /\ \A i \in 1..Len(at) : at[i] \in K
  /\ \A x \in K : \E i \in 1..Len(at) : at[i] = x
  /\ \A i, j \in 1..Len(at) : i < j => at[i] < at[j]

(* As many as come first make up what is below the next.                   *)
LEMMA UpCounts ==
  ASSUME NEW K \in SUBSET Nat, NEW at, ListsUp(at, K)
  PROVE  /\ Cardinality(K) = Len(at)
         /\ \A n \in 1..Len(at) :
              Cardinality({y \in K \ {at[n]} : y <= at[n]}) = n - 1
<1>1. Len(at) \in Nat /\ DOMAIN at = 1..Len(at)
      /\ at \in [1..Len(at) -> Nat]
  BY LenProperties DEF ListsUp
<1> DEFINE M == Len(at)
<1>2. \A i, j \in 1..M : at[i] = at[j] => i = j
  <2>1. ASSUME NEW i \in 1..M, NEW j \in 1..M, at[i] = at[j], i # j
        PROVE  FALSE
    <3>1. i < j \/ j < i
      BY <1>1, <2>1
    <3> QED
      BY <1>1, <2>1, <3>1 DEF ListsUp
  <2> QED
    BY <2>1
<1>3. Cardinality(K) = M
  <2>1. at \in [1..M -> K]
    BY <1>1 DEF ListsUp
  <2>2. at \in Bijection(1..M, K)
    BY <1>2, <2>1 DEF Bijection, Injection, Surjection, IsInjective, ListsUp
  <2>3. ExistsBijection(1..M, K)
    BY <2>2 DEF ExistsBijection
  <2> QED
    BY <1>1, <2>3, FS_CountingElements
<1>4. ASSUME NEW n \in 1..M
      PROVE  Cardinality({y \in K \ {at[n]} : y <= at[n]}) = n - 1
  <2> DEFINE below == {y \in K \ {at[n]} : y <= at[n]}
             f == [i \in 1..(n - 1) |-> at[i]]
  <2>1. n - 1 \in Nat /\ \A i \in 1..(n - 1) : i \in 1..M /\ i < n
    BY <1>1
  <2>2. f \in [1..(n - 1) -> below]
    <3>1. \A i \in 1..(n - 1) : at[i] \in K /\ at[i] \in Nat /\ at[i] < at[n]
      BY <1>1, <2>1 DEF ListsUp
    <3>2. at[n] \in Nat
      BY <1>1
    <3> QED
      BY <3>1, <3>2
  <2>3. \A y \in below : \E i \in 1..(n - 1) : f[i] = y
    <3>1. ASSUME NEW y \in below PROVE \E i \in 1..(n - 1) : f[i] = y
      <4>1. PICK i \in 1..M : at[i] = y
        BY <3>1 DEF ListsUp
      <4>2. ~(n < i) /\ i # n
        <5>1. n < i => at[n] < at[i]
          BY <1>1, <4>1 DEF ListsUp
        <5>2. at[n] \in Nat /\ at[i] \in Nat /\ at[i] <= at[n] /\ at[i] # at[n]
          BY <1>1, <4>1
        <5> QED
          BY <5>1, <5>2
      <4>3. i \in 1..(n - 1)
        BY <1>1, <4>2
      <4> QED
        BY <4>1, <4>3
    <3> QED
      BY <3>1
  <2>4. \A i, j \in 1..(n - 1) : f[i] = f[j] => i = j
    BY <1>2, <2>1
  <2>5. ExistsBijection(1..(n - 1), below)
    <3> HIDE DEF f, below
    <3>1. f \in Bijection(1..(n - 1), below)
      BY <2>2, <2>3, <2>4 DEF Bijection, Injection, Surjection, IsInjective
    <3> QED
      BY <3>1 DEF ExistsBijection
  <2> HIDE DEF below
  <2> QED
    BY <2>1, <2>5, FS_CountingElements DEF below
<1> QED
  BY <1>3, <1>4

(* They are what Sorted makes of them.                                     *)
LEMMA UpIsSorted ==
  ASSUME NEW K \in SUBSET Nat, NEW at, ListsUp(at, K)
  PROVE  Sorted(K, InPlace) = at
<1> DEFINE M == Len(at)
           Below(x) == {y \in K \ {x} : y <= x}
<1>1. M \in Nat /\ at = [n \in 1..M |-> at[n]]
  BY LenProperties DEF ListsUp
<1>2. Cardinality(K) = M /\ \A n \in 1..M : Cardinality(Below(at[n])) = n - 1
  BY UpCounts
<1>3. Sorted(K, InPlace)
        = [n \in 1..Cardinality(K) |->
             CHOOSE x \in K : Cardinality({y \in K \ {x} : y <= x}) = n - 1]
  BY DEF Sorted, InPlace
<1>4. Sorted(K, InPlace)
        = [n \in 1..M |-> CHOOSE x \in K : Cardinality(Below(x)) = n - 1]
  BY <1>2, <1>3
<1> HIDE DEF Below
<1>5. ASSUME NEW n \in 1..M
      PROVE  (CHOOSE x \in K : Cardinality(Below(x)) = n - 1) = at[n]
  <2>1. at[n] \in K /\ Cardinality(Below(at[n])) = n - 1
    BY <1>2 DEF ListsUp
  <2>2. ASSUME NEW x \in K, Cardinality(Below(x)) = n - 1
        PROVE  x = at[n]
    <3>1. PICK k \in 1..M : at[k] = x
      BY DEF ListsUp
    <3>2. k - 1 = n - 1
      BY <1>2, <2>2, <3>1
    <3> QED
      BY <1>1, <3>1, <3>2
  <2> QED
    BY <2>1, <2>2
<1> QED
  BY <1>1, <1>4, <1>5

(* A number above all of them comes last.                                  *)
LEMMA UpAppends ==
  ASSUME NEW K \in SUBSET Nat, NEW at, ListsUp(at, K), NEW m \in Nat,
         \A x \in K : x < m
  PROVE  ListsUp(Append(at, m), K \cup {m})
<1>1. /\ Append(at, m) \in Seq(Nat) /\ Len(at) \in Nat
      /\ Len(Append(at, m)) = Len(at) + 1
      /\ \A i \in 1..Len(at) : Append(at, m)[i] = at[i]
      /\ Append(at, m)[Len(at) + 1] = m
  BY AppendProperties, LenProperties DEF ListsUp
<1>2. \A i \in 1..(Len(at) + 1) : i \in 1..Len(at) \/ i = Len(at) + 1
  BY <1>1
<1> DEFINE up == Append(at, m)
<1> HIDE DEF up
<1>3. \A i \in 1..Len(up) : up[i] \in K \cup {m}
  BY <1>1, <1>2 DEF ListsUp, up
<1>4. \A x \in K \cup {m} : \E i \in 1..Len(up) : up[i] = x
  <2>1. Len(at) + 1 \in 1..Len(up) /\ \A i \in 1..Len(at) : i \in 1..Len(up)
    BY <1>1 DEF up
  <2> QED
    BY <1>1, <2>1 DEF ListsUp, up
<1>5. \A i, j \in 1..Len(up) : i < j => up[i] < up[j]
  <2>1. ASSUME NEW i \in 1..Len(up), NEW j \in 1..Len(up), i < j
        PROVE  up[i] < up[j]
    <3>1. i \in 1..Len(at)
      BY <1>1, <2>1 DEF up
    <3>2. CASE j \in 1..Len(at)
      BY <1>1, <2>1, <3>1, <3>2 DEF ListsUp, up
    <3>3. CASE j = Len(at) + 1
      BY <1>1, <3>1, <3>3 DEF ListsUp, up
    <3> QED
      BY <1>1, <1>2, <3>2, <3>3 DEF up
  <2> QED
    BY <2>1
<1> QED
  BY <1>1, <1>3, <1>4, <1>5 DEF ListsUp, up

(* The defining equation of ValueAt: an argument is a value when the one   *)
(* before it is an option that takes one, is none itself and comes before  *)
(* the separator.  A function for the first m places extends to the next.  *)
LEMMA ValueAtUnfolds ==
  ASSUME NEW list, Len(list) \in Nat
  PROVE  \A i \in 0..Len(list) :
           ValueAt(list)[i] <=>
             /\ i > 1 /\ ~ValueAt(list)[i - 1]
             /\ TakesValue(list[i - 1])
             /\ \A j \in 1..(i - 1) : list[j] = "--" => ValueAt(list)[j]
<1> DEFINE N == Len(list)
           Body(f, i) == /\ i > 1 /\ ~f[i - 1]
                         /\ TakesValue(list[i - 1])
                         /\ \A j \in 1..(i - 1) : list[j] = "--" => f[j]
           Fun(m) == \E f : f = [i \in 0..m |-> Body(f, i)]
           Funs == {m \in Nat : Fun(m)}
<1>1. 0 \in Funs
  <2> DEFINE g == [i \in 0..0 |-> FALSE]
  <2>1. \A i \in 0..0 : ~Body(g, i)
    OBVIOUS
  <2> HIDE DEF Body
  <2>2. g = [i \in 0..0 |-> Body(g, i)]
    BY <2>1
  <2> QED
    BY <2>2
<1>2. ASSUME NEW m \in Funs
      PROVE  m + 1 \in Funs
  <2>1. PICK f : f = [i \in 0..m |-> Body(f, i)]
    OBVIOUS
  <2> DEFINE g == [i \in 0..(m + 1) |-> IF i = m + 1 THEN Body(f, i) ELSE f[i]]
  <2>2. ASSUME NEW i \in 0..(m + 1)
        PROVE  Body(g, i) = Body(f, i)
    <3>1. i > 1 => g[i - 1] = f[i - 1] /\ \A j \in 1..(i - 1) : g[j] = f[j]
      <4> HIDE DEF Body
      <4>1. i > 1 => \A j \in 1..(i - 1) : j \in 0..(m + 1) /\ j # m + 1
        OBVIOUS
      <4> QED
        BY <4>1
    <3> HIDE DEF g
    <3> QED
      BY <3>1
  <2>3. g = [i \in 0..(m + 1) |-> Body(g, i)]
    <3>1. ASSUME NEW i \in 0..(m + 1)
          PROVE  g[i] = Body(f, i)
      <4>1. i # m + 1 => i \in 0..m
        OBVIOUS
      <4> HIDE DEF Body
      <4> QED
        BY <2>1, <4>1
    <3> HIDE DEF Body
    <3> QED
      BY <2>2, <3>1
  <2> HIDE DEF Body, g
  <2> QED
    BY <2>3
<1>3. Funs = Nat
  <2> HIDE DEF Fun
  <2>1. Funs \in SUBSET Nat
    OBVIOUS
  <2> HIDE DEF Funs
  <2> QED
    BY <1>1, <1>2, <2>1, NatInductionOnSet
<1>4. Fun(N)
  <2> HIDE DEF Fun
  <2> QED
    BY <1>3
<1> DEFINE v == CHOOSE value : value = [i \in 0..N |-> Body(value, i)]
<1>5. v = [i \in 0..N |-> Body(v, i)]
  <2> HIDE DEF Body
  <2> QED
    BY <1>4
<1>6. ValueAt(list) = v
  BY DEF ValueAt
<1> HIDE DEF v
<1>7. \A i \in 0..N : v[i] <=> Body(v, i)
  <2> HIDE DEF Body
  <2> QED
    BY <1>5
<1> QED
  BY <1>6, <1>7

(* The separator is among the first n arguments.                           *)
Behind(list, n) == \E s \in Separators(list) : s <= n

(* The n-th argument takes a value.                                        *)
Awaits(list, n) ==
  /\ n >= 1 /\ ~ValueAt(list)[n] /\ ~Behind(list, n)
  /\ TakesValue(list[n])

(* The next argument, by the ones before it.                               *)
LEMMA NextArgument ==
  ASSUME NEW list \in Seq(STRING), NEW n \in Nat, n < Len(list)
  PROVE  /\ ValueAt(list)[n + 1] <=> Awaits(list, n)
         /\ n + 1 \in Separators(list) <=> list[n + 1] = "--" /\ ~Awaits(list, n)
         /\ Behind(list, n + 1) <=> Behind(list, n) \/ n + 1 \in Separators(list)
         /\ Awaits(list, n + 1) <=>
              /\ ~Awaits(list, n) /\ ~Behind(list, n + 1)
              /\ TakesValue(list[n + 1])
         /\ n + 1 \in PositionalsOf(list) <=>
              \/ Behind(list, n)
              \/ ~Awaits(list, n) /\ ~IsFlagToken(list[n + 1])
<1> DEFINE N == Len(list)
           V(i) == ValueAt(list)[i]
<1>1. N \in Nat /\ DOMAIN list = 1..N
  BY LenProperties
<1>2. \A i \in 0..N : V(i) <=> /\ i > 1 /\ ~V(i - 1)
                               /\ TakesValue(list[i - 1])
                               /\ \A j \in 1..(i - 1) : list[j] = "--" => V(j)
  BY <1>1, ValueAtUnfolds
<1>3. Separators(list) = {i \in 1..N : list[i] = "--" /\ ~V(i)}
  BY <1>1 DEF Separators
<1>4. PositionalsOf(list)
        = {i \in 1..N : \/ \E s \in Separators(list) : s < i
                        \/ ~V(i) /\ ~IsFlagToken(list[i])}
  BY <1>1 DEF PositionalsOf
<1> HIDE DEF N, V
<1>5. Behind(list, n) <=> \E j \in 1..n : list[j] = "--" /\ ~V(j)
  BY <1>1, <1>3 DEF Behind, N
<1>6. V(n + 1) <=> Awaits(list, n)
  <2>1. n + 1 \in 0..N /\ (n + 1) - 1 = n
    BY <1>1 DEF N
  <2>2. V(n + 1) <=> /\ n + 1 > 1 /\ ~V(n)
                     /\ TakesValue(list[n])
                     /\ \A j \in 1..n : list[j] = "--" => V(j)
    BY <1>2, <2>1
  <2>3. n + 1 > 1 <=> n >= 1
    OBVIOUS
  <2> QED
    BY <1>5, <2>2, <2>3 DEF Awaits, V
<1>7. n + 1 \in Separators(list) <=> list[n + 1] = "--" /\ ~Awaits(list, n)
  BY <1>1, <1>3, <1>6 DEF N
<1>8. Behind(list, n + 1) <=> Behind(list, n) \/ n + 1 \in Separators(list)
  <2>1. \A s \in Separators(list) : s <= n + 1 <=> s <= n \/ s = n + 1
    BY <1>3, <1>1
  <2> QED
    BY <2>1 DEF Behind
<1>9. Awaits(list, n + 1) <=>
        /\ ~Awaits(list, n) /\ ~Behind(list, n + 1)
        /\ TakesValue(list[n + 1])
  BY <1>6 DEF Awaits, V
<1>10. n + 1 \in PositionalsOf(list) <=>
         \/ Behind(list, n)
         \/ ~Awaits(list, n) /\ ~IsFlagToken(list[n + 1])
  <2>1. \A s \in Separators(list) : s < n + 1 <=> s <= n
    BY <1>3, <1>1
  <2>2. n + 1 \in 1..N
    BY <1>1 DEF N
  <2> QED
    BY <1>4, <1>6, <2>1, <2>2 DEF Behind
<1> QED
  BY <1>6, <1>7, <1>8, <1>9, <1>10 DEF V

(* Apart from the flags it has no room for, VALUE_FLAGS lists those that    *)
(* take a value.                                                           *)
LEMMA ListedTakeValues ==
  ASSUME NEW text, text \notin UnlistedFlags
  PROVE  TakesValue(text) <=> text \in ValueFlags
<1> DEFINE shorts == {"-d", "-p", "-O", "-R", "-a", "-A", "-c"}
<1>1. DOMAIN OptionFields = UNION {OptionsOf[field] : field \in DOMAIN OptionsOf}
  BY DEF OptionFields, FieldOf
<1>2. DOMAIN OptionsOf =
        {"pr_url", "token", "owner", "repo", "database_url",
         "pr_metadata_cache_ttl_seconds", "export", "output", "template",
         "repo_path", "reply_max_length", "reply_templates", "ai_rewrite_mode",
         "ai_rewrite_text", "ai_base_url", "ai_model", "ai_api_key",
         "ai_timeout_seconds", "commit_history_limit", "config_path"}
  BY DEF OptionsOf
<1>3. /\ OptionsOf.pr_url = {"--pr-url", "-u"}
      /\ OptionsOf.token = {"--token", "-t"}
      /\ OptionsOf.owner = {"--owner", "-o"}
      /\ OptionsOf.repo = {"--repo", "-r"}
      /\ OptionsOf.database_url = {"--database-url", "-d"}
      /\ OptionsOf.pr_metadata_cache_ttl_seconds
           = {"--pr-metadata-cache-ttl-seconds", "-p"}
      /\ OptionsOf.export = {"--export", "-e"}
      /\ OptionsOf.output = {"--output", "-O"}
      /\ OptionsOf.template = {"--template"}
      /\ OptionsOf.repo_path = {"--repo-path", "-R"}
  BY DEF OptionsOf
<1>4. /\ OptionsOf.reply_max_length = {"--reply-max-length"}
      /\ OptionsOf.reply_templates = {"--reply-templates"}
      /\ OptionsOf.ai_rewrite_mode = {"--ai-rewrite-mode", "-a"}
      /\ OptionsOf.ai_rewrite_text = {"--ai-rewrite-text", "-A"}
      /\ OptionsOf.ai_base_url = {"--ai-base-url"}
      /\ OptionsOf.ai_model = {"--ai-model"}
      /\ OptionsOf.ai_api_key = {"--ai-api-key"}
      /\ OptionsOf.ai_timeout_seconds = {"--ai-timeout-seconds"}
      /\ OptionsOf.commit_history_limit = {"--commit-history-limit", "-c"}
      /\ OptionsOf.config_path = {"--config-path"}
  BY DEF OptionsOf
<1>5. ASSUME text \in DOMAIN OptionFields
      PROVE  text \in ValueFlags \cup shorts
  <2>1. PICK field \in DOMAIN OptionsOf : text \in OptionsOf[field]
    BY <1>1, <1>5
  <2> QED
    BY <1>2, <1>3, <1>4, <2>1 DEF ValueFlags
<1>6. ASSUME text \in ValueFlags
      PROVE  text \in DOMAIN OptionFields
  <2>1. \E field \in DOMAIN OptionsOf : text \in OptionsOf[field]
    BY <1>2, <1>3, <1>4, <1>6 DEF ValueFlags
  <2> QED
    BY <1>1, <2>1
<1>7. /\ text \notin shorts
      /\ ~(text \in DOMAIN Clusters /\ Clusters[text].option # None)
  BY DEF UnlistedFlags
<1> HIDE DEF shorts
<1> QED
  BY <1>5, <1>6, <1>7 DEF TakesValue

(* The first of the members of S.                                          *)
FirstIn(S, i) == i \in S /\ \A j \in S : i <= j

(* What of the first n arguments goes on to the parser.                    *)
KeptTo(list, n) ==
  {i \in 1..n : ~FirstIn(PositionalsOf(list), i) /\ ~FirstIn(Separators(list), i)}

(* The next argument goes on unless it is the pull request or the first    *)
(* separator.                                                              *)
LEMMA NextKept ==
  ASSUME NEW list \in Seq(STRING), NEW n \in Nat, n < Len(list)
  PROVE  /\ KeptTo(list, n) \in SUBSET (1..n)
         /\ KeptTo(list, n + 1) =
              IF \/ /\ n + 1 \in PositionalsOf(list)
                    /\ \A j \in PositionalsOf(list) : j > n
                 \/ n + 1 \in Separators(list) /\ ~Behind(list, n)
                THEN KeptTo(list, n) ELSE KeptTo(list, n) \cup {n + 1}
<1>1. PositionalsOf(list) \in SUBSET Nat /\ Separators(list) \in SUBSET Nat
  BY LenProperties DEF PositionalsOf, Separators
<1>2. \A j \in Nat : n + 1 <= j <=> j > n
  OBVIOUS
<1>3. FirstIn(PositionalsOf(list), n + 1) <=>
        /\ n + 1 \in PositionalsOf(list)
        /\ \A j \in PositionalsOf(list) : j > n
  BY <1>1, <1>2 DEF FirstIn
<1>4. FirstIn(Separators(list), n + 1) <=>
        n + 1 \in Separators(list) /\ ~Behind(list, n)
  <2>1. \A j \in Separators(list) : n + 1 <= j <=> ~(j <= n)
    BY <1>1
  <2> QED
    BY <2>1 DEF FirstIn, Behind
<1>5. \A i : i \in 1..(n + 1) <=> i \in 1..n \/ i = n + 1
  OBVIOUS
<1>6. n + 1 \notin 1..n
  OBVIOUS
<1> QED
  BY <1>3, <1>4, <1>5, <1>6 DEF KeptTo

(* So many arguments are scanned.                                          *)
Scanned == Len(launch.args) - Len(args)

(* What goes on is what is kept of the arguments scanned, in place.        *)
FilteredTo(n) ==
  \E at : /\ ListsUp(at, KeptTo(launch.args, n))
          /\ filtered = [k \in 1..Len(at) |-> launch.args[at[k]]]

(* The pull request is the first positional argument scanned.              *)
IdentifiedTo(n) ==
  /\ identifier = None => \A i \in PositionalsOf(launch.args) : i > n
  /\ identifier # None =>
       \E i \in PositionalsOf(launch.args) :
         /\ i <= n /\ identifier = launch.args[i]
         /\ FirstIn(PositionalsOf(launch.args), i)

(* The phase says of the arguments scanned what the next one depends on.   *)
ScanInv ==
  /\ launch \in Launches
  /\ args \in Seq(STRING) /\ Len(args) <= Len(launch.args)
  /\ \A i \in 1..Len(args) : args[i] = launch.args[Scanned + i]
  /\ phase \in {"Normal", "SkipNext", "AfterSeparator"}
  /\ phase = "AfterSeparator" <=> Behind(launch.args, Scanned)
  /\ phase = "SkipNext" <=> Awaits(launch.args, Scanned)
  /\ IdentifiedTo(Scanned)
  /\ FilteredTo(Scanned)
  /\ pc # "Scan" => args = <<>>

(* An argument that goes on is appended.                                   *)
LEMMA KeepsNext ==
  ASSUME NEW n \in Nat, launch.args \in Seq(STRING), n < Len(launch.args),
         FilteredTo(n), UNCHANGED launch,
         KeptTo(launch.args, n + 1) = KeptTo(launch.args, n) \cup {n + 1},
         filtered' = Append(filtered, launch.args[n + 1])
  PROVE  FilteredTo(n + 1)'
<1> DEFINE list == launch.args
           K == KeptTo(list, n)
<1>1. PICK at : /\ ListsUp(at, K)
                /\ filtered = [k \in 1..Len(at) |-> list[at[k]]]
  BY DEF FilteredTo
<1>2. K \in SUBSET (1..n)
  BY NextKept
<1>3. ListsUp(Append(at, n + 1), K \cup {n + 1})
  <2> HIDE DEF K
  <2> DEFINE m == n + 1
  <2>1. K \in SUBSET Nat /\ m \in Nat /\ \A x \in K : x < m
    BY <1>2
  <2> HIDE DEF m
  <2>2. ListsUp(Append(at, m), K \cup {m})
    BY <1>1, <2>1, UpAppends
  <2> QED
    BY <2>2 DEF m
<1>4. /\ Len(at) \in Nat /\ Len(Append(at, n + 1)) = Len(at) + 1
      /\ \A k \in 1..Len(at) : Append(at, n + 1)[k] = at[k]
      /\ Append(at, n + 1)[Len(at) + 1] = n + 1
  BY <1>1, AppendProperties, LenProperties DEF ListsUp
<1>5. filtered \in Seq(STRING) /\ Len(filtered) = Len(at)
  <2>1. \A k \in 1..Len(at) : at[k] \in 1..Len(list)
    <3>1. Len(list) \in Nat
      BY LenProperties
    <3> HIDE DEF K
    <3> QED
      BY <1>1, <1>2, <3>1 DEF ListsUp
  <2>2. \A k \in 1..Len(at) : list[at[k]] \in STRING
    BY <2>1, ElementOfSeq
  <2>3. filtered \in [1..Len(at) -> STRING]
    BY <1>1, <2>2
  <2> QED
    BY <1>4, <2>3, IsASeq, LenProperties
<1>6. Append(filtered, list[n + 1])
        = [k \in 1..(Len(at) + 1) |-> list[Append(at, n + 1)[k]]]
  <2> DEFINE s == Append(filtered, list[n + 1])
  <2>1. list[n + 1] \in STRING
    <3>1. n + 1 \in 1..Len(list)
      BY LenProperties
    <3> QED
      BY <3>1, ElementOfSeq
  <2>2. /\ s \in Seq(STRING) /\ Len(s) = Len(at) + 1
        /\ \A k \in 1..Len(at) : s[k] = filtered[k]
        /\ s[Len(at) + 1] = list[n + 1]
    BY <1>5, <2>1, AppendProperties
  <2> HIDE DEF s
  <2>3. s = [k \in 1..(Len(at) + 1) |-> s[k]]
    BY <2>2, LenProperties
  <2>4. ASSUME NEW k \in 1..(Len(at) + 1)
        PROVE  s[k] = list[Append(at, n + 1)[k]]
    <3>1. CASE k = Len(at) + 1
      BY <1>4, <2>2, <3>1
    <3>2. CASE k \in 1..Len(at)
      BY <1>1, <1>4, <2>2, <3>2
    <3> QED
      BY <1>4, <3>1, <3>2
  <2> HIDE DEF list
  <2> QED
    BY <2>3, <2>4 DEF s
<1>7. list' = list /\ KeptTo(list, n + 1)' = K \cup {n + 1}
  OBVIOUS
<1> DEFINE longer == Append(at, n + 1)
<1> HIDE DEF list, K, longer
<1>8. /\ ListsUp(longer, K \cup {n + 1})
      /\ filtered' = [k \in 1..Len(longer) |-> list[longer[k]]]
  BY <1>3, <1>4, <1>6 DEF longer, list
<1> QED
  BY <1>7, <1>8 DEF FilteredTo, list

(* One that does not leaves all in place.                                  *)
LEMMA DropsNext ==
  ASSUME NEW n \in Nat, FilteredTo(n), UNCHANGED <<launch, filtered>>,
         KeptTo(launch.args, n + 1) = KeptTo(launch.args, n)
  PROVE  FilteredTo(n + 1)'
BY DEF FilteredTo

(* The pull request stays, or is the next argument.                        *)
LEMMA IdentifiesNext ==
  ASSUME NEW n \in Nat, IdentifiedTo(n), UNCHANGED launch,
         launch.args \in Seq(STRING),
         \/ /\ UNCHANGED identifier
            /\ identifier # None \/ n + 1 \notin PositionalsOf(launch.args)
         \/ /\ identifier = None /\ identifier' = launch.args[n + 1]
            /\ n + 1 \in PositionalsOf(launch.args)
            /\ launch.args[n + 1] # None
  PROVE  IdentifiedTo(n + 1)'
<1> DEFINE P == PositionalsOf(launch.args)
<1>1. P \in SUBSET Int /\ P' = P
  <2>1. P \in SUBSET Int
    BY LenProperties DEF PositionalsOf
  <2>2. P' = P
    OBVIOUS
  <2> QED
    BY <2>1, <2>2
<1> HIDE DEF P
<1>2. CASE identifier = None /\ identifier' = identifier
  <2>1. \A i \in P : i > n + 1
    BY <1>1, <1>2 DEF IdentifiedTo, P
  <2> QED
    BY <1>1, <1>2, <2>1 DEF IdentifiedTo, P
<1>3. CASE identifier # None /\ identifier' = identifier
  <2>1. PICK i \in P : i <= n /\ identifier = launch.args[i] /\ FirstIn(P, i)
    BY <1>3 DEF IdentifiedTo, P
  <2>2. i <= n + 1
    BY <1>1, <2>1
  <2> QED
    BY <1>1, <1>3, <2>1, <2>2 DEF IdentifiedTo, P, FirstIn
<1>4. CASE /\ identifier = None /\ identifier' = launch.args[n + 1]
           /\ n + 1 \in P /\ launch.args[n + 1] # None
  <2>1. FirstIn(P, n + 1)
    BY <1>1, <1>4 DEF IdentifiedTo, FirstIn, P
  <2> QED
    BY <1>1, <1>4, <2>1 DEF IdentifiedTo, P, FirstIn
<1> QED
  BY <1>2, <1>3, <1>4 DEF P

(* One step of the scan.                                                   *)
LEMMA ScanKeepsPlace ==
  ASSUME ScanInv, Scan
  PROVE  /\ launch.args \in Seq(STRING) /\ launch' = launch /\ pc = "Scan"
         /\ pc' = pc
         /\ Scanned \in Nat /\ Scanned < Len(launch.args)
         /\ Head(args) = launch.args[Scanned + 1]
         /\ Head(args) # None
         /\ Scanned' = Scanned + 1
         /\ args' \in Seq(STRING) /\ Len(args') <= Len(launch.args)
         /\ \A i \in 1..Len(args') : args'[i] = launch.args[Scanned + 1 + i]
<1>1. launch.args \in Seq(STRING) /\ launch' = launch /\ pc = "Scan" /\ pc' = pc
      /\ args # <<>> /\ args' = Tail(args) /\ args \in Seq(STRING)
      /\ Len(args) <= Len(launch.args)
  BY LaunchAssumption DEF ScanInv, Scan
<1>2. Len(args) \in Nat /\ Len(launch.args) \in Nat /\ Len(args) # 0
  BY <1>1, LenProperties, EmptySeq
<1>3. /\ Head(args) = args[1] /\ args[1] \in STRING
      /\ Tail(args) \in Seq(STRING) /\ Len(Tail(args)) = Len(args) - 1
      /\ \A i \in 1..Len(Tail(args)) : Tail(args)[i] = args[i + 1]
  BY <1>1, <1>2, HeadTailProperties, ElementOfSeq
<1>4. Scanned \in Nat /\ Scanned < Len(launch.args) /\ Scanned' = Scanned + 1
  BY <1>1, <1>2, <1>3 DEF Scanned
<1>5. \A i \in 1..Len(args) : args[i] = launch.args[Scanned + i]
  BY DEF ScanInv
<1>6. 1 \in 1..Len(args)
      /\ \A i \in 1..Len(args') :
           i + 1 \in 1..Len(args) /\ Scanned + (i + 1) = Scanned + 1 + i
  BY <1>1, <1>2, <1>3, <1>4
<1>7. \A i \in 1..Len(args') : args'[i] = launch.args[Scanned + 1 + i]
  BY <1>1, <1>3, <1>5, <1>6
<1>8. Head(args) # None
  BY <1>3, GitHubAddressAssumption
<1>9. Len(args') <= Len(launch.args)
  BY <1>1, <1>2, <1>3
<1> QED
  BY <1>1, <1>3, <1>4, <1>5, <1>6, <1>7, <1>8, <1>9

(* Every flag with a value is one that VALUE_FLAGS lists.                  *)
Listed == ToSet(launch.args) \cap UnlistedFlags = {}

(* An argument is scanned as its place says.                               *)
LEMMA ScanKeepsScan ==
  ASSUME ScanInv, Listed, Scan
  PROVE  ScanInv'
<1> DEFINE list == launch.args
           arg == Head(args)
<1>0. PICK n \in Nat : n = Scanned
  BY ScanKeepsPlace
<1>1. /\ list \in Seq(STRING) /\ launch' = launch /\ pc = "Scan" /\ pc' = pc
      /\ n \in Nat /\ n < Len(list) /\ arg = list[n + 1] /\ arg # None
      /\ Scanned' = n + 1
      /\ args' \in Seq(STRING) /\ Len(args') <= Len(list)
      /\ \A i \in 1..Len(args') : args'[i] = list[n + 1 + i]
  BY <1>0, ScanKeepsPlace
<1>2. /\ phase \in {"Normal", "SkipNext", "AfterSeparator"}
      /\ phase = "AfterSeparator" <=> Behind(list, n)
      /\ phase = "SkipNext" <=> Awaits(list, n)
      /\ IdentifiedTo(n) /\ FilteredTo(n)
  BY <1>0 DEF ScanInv
<1> DEFINE pos == n + 1 \in PositionalsOf(list)
           sep == n + 1 \in Separators(list)
           first == \A j \in PositionalsOf(list) : j > n
<1> HIDE DEF list, arg
<1>3. /\ sep <=> arg = "--" /\ ~Awaits(list, n)
      /\ Behind(list, n + 1) <=> Behind(list, n) \/ sep
      /\ Awaits(list, n + 1) <=> /\ ~Awaits(list, n) /\ ~Behind(list, n + 1)
                                 /\ TakesValue(arg)
      /\ pos <=> Behind(list, n) \/ (~Awaits(list, n) /\ ~IsFlagToken(arg))
  BY <1>1, NextArgument
<1>4. KeptTo(list, n + 1) = IF (pos /\ first) \/ (sep /\ ~Behind(list, n))
                              THEN KeptTo(list, n) ELSE KeptTo(list, n) \cup {n + 1}
  BY <1>1, NextKept
<1>5. identifier = None <=> first
  <2>1. identifier # None => \E j \in PositionalsOf(list) : j <= n
    BY <1>2 DEF IdentifiedTo, list
  <2>2. PositionalsOf(list) \in SUBSET Int
    BY <1>1, LenProperties DEF PositionalsOf
  <2>3. identifier # None => ~first
    BY <1>1, <2>1, <2>2
  <2> QED
    BY <1>2, <2>3 DEF IdentifiedTo, list
<1>6. /\ IsFlagToken("--") /\ "--" \notin ValueFlags
      /\ TakesValue(arg) => IsFlagToken(arg)
  BY ArgumentsAssumption DEF IsFlagToken, ValueFlags, TakesValue, KnownFlags
<1>7. TakesValue(arg) <=> arg \in ValueFlags
  <2>1. n + 1 \in DOMAIN list
    BY <1>1, LenProperties
  <2>2. arg \notin UnlistedFlags
    BY <1>1, <2>1 DEF Listed, ToSet, list
  <2> QED
    BY <2>2, ListedTakeValues
<1>8. ~(Awaits(list, n) /\ Behind(list, n))
  BY <1>2
<1> HIDE DEF pos, sep, first
(* What a step does with the argument.                                     *)
<1> DEFINE Keeps == filtered' = Append(filtered, arg) /\ identifier' = identifier
           Takes == filtered' = filtered /\ identifier' = arg /\ identifier = None
           Drops == filtered' = filtered /\ identifier' = identifier
<1>9. /\ phase' \in {"Normal", "SkipNext", "AfterSeparator"}
      /\ phase' = "AfterSeparator" <=> Behind(list, n + 1)
      /\ phase' = "SkipNext" <=> Awaits(list, n + 1)
      /\ \/ Keeps /\ ~(pos /\ first) /\ ~(sep /\ ~Behind(list, n))
         \/ Takes /\ pos /\ first
         \/ Drops /\ ~pos /\ sep /\ ~Behind(list, n)
  <2>1. CASE HandlePostSeparatorArg(arg)
    <3>1. phase = "AfterSeparator" /\ phase' = phase
      BY <2>1 DEF HandlePostSeparatorArg
    <3>2. Behind(list, n) /\ ~Awaits(list, n)
      BY <1>2, <3>1
    <3>3. IF identifier = None THEN Takes ELSE Keeps
      BY <2>1 DEF HandlePostSeparatorArg
    <3> HIDE DEF Takes, Keeps, Drops
    <3> QED
      BY <1>3, <1>5, <3>1, <3>2, <3>3
  <2>2. CASE HandleFlagValue(arg)
    <3>1. phase = "SkipNext" /\ phase' = "Normal" /\ Keeps
      BY <2>2 DEF HandleFlagValue
    <3>2. ~Behind(list, n) /\ Awaits(list, n)
      BY <1>2, <3>1
    <3> HIDE DEF Takes, Keeps, Drops
    <3> QED
      BY <1>3, <3>1, <3>2
  <2>3. CASE HandleNormalArg(arg)
    <3>1. phase = "Normal" /\ ~Behind(list, n) /\ ~Awaits(list, n)
      BY <1>2, <2>3 DEF HandleNormalArg
    <3>2. \/ arg = "--" /\ phase' = "AfterSeparator" /\ Drops
          \/ /\ arg # "--" /\ IsFlagToken(arg) /\ Keeps
             /\ phase' = IF arg \in ValueFlags THEN "SkipNext" ELSE phase
          \/ /\ ~IsFlagToken(arg) /\ phase' = phase
             /\ IF identifier = None THEN Takes ELSE Keeps
      BY <2>3 DEF HandleNormalArg
    <3> HIDE DEF Takes, Keeps, Drops
    <3> QED
      BY <1>3, <1>5, <1>6, <1>7, <3>1, <3>2
  <2> QED
    BY <2>1, <2>2, <2>3 DEF Scan, arg
<1>10. IdentifiedTo(n + 1)'
  <2>1. \/ /\ identifier' = identifier
           /\ identifier # None \/ n + 1 \notin PositionalsOf(launch.args)
        \/ /\ identifier = None /\ identifier' = launch.args[n + 1]
           /\ n + 1 \in PositionalsOf(launch.args)
           /\ launch.args[n + 1] # None
    BY <1>1, <1>5, <1>9 DEF pos, list
  <2> QED
    BY <1>1, <1>2, <2>1, IdentifiesNext DEF list
<1>11. FilteredTo(n + 1)'
  <2>1. CASE Keeps /\ ~(pos /\ first) /\ ~(sep /\ ~Behind(list, n))
    <3>1. KeptTo(list, n + 1) = KeptTo(list, n) \cup {n + 1}
      BY <1>4, <2>1
    <3> QED
      BY <1>1, <1>2, <2>1, <3>1, KeepsNext DEF list
  <2>2. CASE (Takes /\ pos /\ first) \/ (Drops /\ ~pos /\ sep /\ ~Behind(list, n))
    <3>1. KeptTo(list, n + 1) = KeptTo(list, n)
      BY <1>4, <2>2
    <3> QED
      BY <1>1, <1>2, <2>2, <3>1, DropsNext DEF list
  <2> QED
    BY <1>9, <2>1, <2>2
<1>12. IdentifiedTo(Scanned)' /\ FilteredTo(Scanned)'
  <2>1. Scanned' = n + 1 /\ IdentifiedTo(n + 1)' /\ FilteredTo(n + 1)'
    BY <1>1, <1>10, <1>11
  <2> QED
    BY <2>1 DEF IdentifiedTo, FilteredTo
<1> QED
  BY <1>1, <1>2, <1>9, <1>12 DEF ScanInv, list

(* Every step of a run.                                                    *)
LEMMA NextKeepsScan ==
  ASSUME Listed => ScanInv, [NextLaunch]_launchVars
  PROVE  (Listed => ScanInv)'
<1>0. launch' = launch
  <2>1. CASE UNCHANGED launchVars
    BY <2>1 DEF launchVars, inputVars
  <2>2. CASE Scan \/ LoadConfig \/ Resolve \/ TemplateUnreadable \/ Migrate
    BY <2>2 DEF Scan, LoadConfig, Resolve, TemplateUnreadable, Migrate
  <2>3. CASE AiRewrite \/ RequestFails \/ LoadPullRequest \/ ListPullRequests
    BY <2>3 DEF AiRewrite, RequestFails, LoadPullRequest, ListPullRequests
  <2>4. CASE \/ \E list \in launch.served : FetchComments(list)
             \/ ExportToStdout \/ CreateOutputFile \/ WriteFormat \/ Flush
    BY <2>4 DEF FetchComments, ExportToStdout, CreateOutputFile, WriteFormat, Flush
  <2>5. CASE SummarizeDiscussions \/ VerifyResolutions \/ SetUpTui \/ RunTui
    BY <2>5 DEF SummarizeDiscussions, VerifyResolutions, SetUpTui, RunTui
  <2> QED
    BY <2>1, <2>2, <2>3, <2>4, <2>5 DEF NextLaunch
<1> SUFFICES ASSUME ScanInv, Listed PROVE ScanInv'
  BY <1>0 DEF Listed
<1>1. CASE Scan
  BY <1>1, ScanKeepsScan
<1>2. CASE UNCHANGED <<launch, scanVars>> /\ (pc' = pc \/ args = <<>>)
  <2>1. /\ launch' = launch /\ args' = args /\ phase' = phase
        /\ filtered' = filtered /\ identifier' = identifier
    BY <1>2 DEF scanVars
  <2>2. Scanned' = Scanned
    BY <2>1 DEF Scanned
  <2>3. IdentifiedTo(Scanned)' /\ FilteredTo(Scanned)'
    BY <2>1, <2>2 DEF ScanInv, IdentifiedTo, FilteredTo
  <2> QED
    BY <1>2, <2>1, <2>2, <2>3 DEF ScanInv
<1>3. ASSUME ~Scan
      PROVE  UNCHANGED <<launch, scanVars>> /\ (pc' = pc \/ args = <<>>)
  <2>1. pc # "Scan" => args = <<>>
    BY DEF ScanInv
  <2>2. CASE UNCHANGED launchVars
    BY <2>2 DEF launchVars, inputVars, scanVars
  <2>3. CASE LoadConfig \/ Resolve \/ TemplateUnreadable \/ Migrate \/ AiRewrite
    BY <2>1, <2>3
       DEF LoadConfig, Resolve, TemplateUnreadable, Migrate, AiRewrite
  <2>4. CASE \/ RequestFails \/ LoadPullRequest \/ ListPullRequests
             \/ \E list \in launch.served : FetchComments(list)
    BY <2>1, <2>4
       DEF RequestFails, LoadPullRequest, ListPullRequests, FetchComments
  <2>5. CASE ExportToStdout \/ CreateOutputFile \/ WriteFormat \/ Flush
    BY <2>1, <2>5 DEF ExportToStdout, CreateOutputFile, ExportsTo, WriteFormat, Flush
  <2>6. CASE SummarizeDiscussions \/ VerifyResolutions \/ SetUpTui \/ RunTui
    BY <2>1, <2>6 DEF SummarizeDiscussions, VerifyResolutions, SetUpTui, RunTui
  <2> QED
    BY <1>3, <2>2, <2>3, <2>4, <2>5, <2>6 DEF NextLaunch
<1> QED
  BY <1>1, <1>2, <1>3

(* Before the first argument nothing is scanned.                           *)
LEMMA InitScans ==
  ASSUME InitLaunch
  PROVE  ScanInv
<1>1. /\ launch \in Launches /\ args = launch.args /\ args \in Seq(STRING)
      /\ phase = "Normal" /\ filtered = <<>> /\ identifier = None /\ pc = "Scan"
  BY LaunchAssumption DEF InitLaunch
<1>2. Scanned = 0 /\ Len(args) \in Nat
  BY <1>1, LenProperties DEF Scanned
<1>3. PositionalsOf(launch.args) \in SUBSET (Nat \ {0})
      /\ Separators(launch.args) \in SUBSET (Nat \ {0})
  BY <1>1, LenProperties DEF PositionalsOf, Separators
<1>4. ~Behind(launch.args, 0) /\ ~Awaits(launch.args, 0)
  BY <1>3 DEF Behind, Awaits
<1>5. IdentifiedTo(0)
  BY <1>1, <1>3 DEF IdentifiedTo
<1>6. FilteredTo(0)
  <2>1. KeptTo(launch.args, 0) = {}
    BY DEF KeptTo
  <2>2. <<>> \in Seq(Nat) /\ Len(<<>>) = 0 /\ 1..0 = {}
    OBVIOUS
  <2>3. ListsUp(<<>>, {})
    BY <2>2 DEF ListsUp
  <2>4. <<>> = [k \in 1..0 |-> launch.args[<<>>[k]]]
    OBVIOUS
  <2> QED
    BY <1>1, <2>1, <2>2, <2>3, <2>4 DEF FilteredTo
<1> QED
  BY <1>1, <1>2, <1>4, <1>5, <1>6 DEF ScanInv

(* The least of some numbers, and none of none.                            *)
LEMMA FirstIsMin ==
  ASSUME NEW S \in SUBSET Nat, NEW D
  PROVE  {i \in D : FirstIn(S, i)} = (IF S = {} THEN {} ELSE {Min(S)}) \cap D
<1>1. CASE S = {}
  BY <1>1 DEF FirstIn
<1>2. CASE S # {}
  <2>1. Min(S) \in S /\ \A j \in S : Min(S) <= j
    BY <1>2, LeastOfSet DEF Min
  <2> DEFINE least == Min(S)
  <2> HIDE DEF least
  <2>2. least \in S /\ \A j \in S : least <= j
    BY <2>1 DEF least
  <2>3. \A i \in S : (\A j \in S : i <= j) <=> i = least
    BY <2>2
  <2> QED
    BY <1>2, <2>2, <2>3 DEF FirstIn, least
<1> QED
  BY <1>1, <1>2

(* The scan for the pull request reads the arguments as the parser does    *)
(* that comes after it, when each option is spelled as VALUE_FLAGS lists   *)
(* it (extract_positional_pr_identifier).                                  *)
THEOREM ScanSafety == SpecLaunch => []ArgumentsAsListed
<1>1. InitLaunch => (Listed => ScanInv)
  BY InitScans
<1>2. (Listed => ScanInv) /\ [NextLaunch]_launchVars => (Listed => ScanInv)'
  BY NextKeepsScan
<1>3. (Listed => ScanInv) => ArgumentsAsListed
  <2> SUFFICES ASSUME ScanInv, pc # "Scan" PROVE ScannedAsParsed
    BY DEF ArgumentsAsListed, Listed
  <2> DEFINE list == launch.args
             P == PositionalsOf(list)
             Q == Separators(list)
             taken == IF P = {} THEN {} ELSE {Min(P)}
             dropped == IF Q = {} THEN {} ELSE {Min(Q)}
             kept == Sorted(DOMAIN list \ (taken \cup dropped), InPlace)
  <2>1. /\ list \in Seq(STRING) /\ Len(list) \in Nat /\ DOMAIN list = 1..Len(list)
        /\ args = <<>> /\ Scanned = Len(list)
    <3>1. list \in Seq(STRING) /\ args = <<>>
      BY LaunchAssumption DEF ScanInv
    <3> QED
      BY <3>1, LenProperties DEF Scanned
  <2>2. P \in SUBSET (1..Len(list)) /\ Q \in SUBSET (1..Len(list))
    BY <2>1 DEF PositionalsOf, Separators
  <2>3. IdentifiedTo(Len(list)) /\ FilteredTo(Len(list))
    BY <2>1 DEF ScanInv
  <2> HIDE DEF P, Q, list
  <2> DEFINE D == 1..Len(list)
  <2>4. DOMAIN list \ (taken \cup dropped) = KeptTo(list, Len(list))
    <3> HIDE DEF D
    <3>1. P \in SUBSET Nat /\ Q \in SUBSET Nat
      BY <2>2
    <3>2. {i \in D : FirstIn(P, i)} = taken \cap D
      BY <3>1, FirstIsMin
    <3>3. {i \in D : FirstIn(Q, i)} = dropped \cap D
      BY <3>1, FirstIsMin
    <3> HIDE DEF taken, dropped
    <3> QED
      BY <2>1, <3>2, <3>3 DEF KeptTo, P, Q, D
  <2>5. filtered = [k \in DOMAIN kept |-> list[kept[k]]]
    <3>1. PICK at : /\ ListsUp(at, KeptTo(list, Len(list)))
                    /\ filtered = [k \in 1..Len(at) |-> list[at[k]]]
      BY <2>3 DEF FilteredTo, list
    <3>2. KeptTo(list, Len(list)) \in SUBSET Nat
      BY DEF KeptTo
    <3>3. kept = at
      BY <2>4, <3>1, <3>2, UpIsSorted
    <3>4. DOMAIN at = 1..Len(at)
      BY <3>1, LenProperties DEF ListsUp
    <3> HIDE DEF kept
    <3> QED
      BY <3>1, <3>3, <3>4
  <2>6. identifier = IF taken = {} THEN None ELSE list[Min(taken)]
    <3>1. CASE identifier = None
      <4>1. P = {}
        BY <2>1, <2>2, <2>3, <3>1 DEF IdentifiedTo, P, list
      <4> QED
        BY <3>1, <4>1
    <3>2. CASE identifier # None
      <4>1. PICK i \in P : identifier = list[i] /\ FirstIn(P, i)
        BY <2>3, <3>2 DEF IdentifiedTo, P, list
      <4>2. P # {} /\ i \in Nat
        BY <2>1, <2>2, <4>1
      <4>3. i \in {j \in P : FirstIn(P, j)}
        BY <4>1
      <4>4. taken = {i}
        <5>1. i \in taken \cap P
          BY <2>2, <2>1, <4>3, FirstIsMin
        <5> HIDE DEF Min
        <5> QED
          BY <4>2, <5>1
      <4>5. Min(taken) = i
        <5>1. Min({i}) = i
          BY <4>2 DEF Min
        <5> QED
          BY <4>4, <5>1
      <4> HIDE DEF taken
      <4> QED
        BY <4>1, <4>4, <4>5
    <3> QED
      BY <3>1, <3>2
  <2> HIDE DEF taken, dropped, kept
  <2> QED
    BY <2>5, <2>6 DEF ScannedAsParsed, taken, dropped, kept, P, Q, list
<1> QED
  BY <1>1, <1>2, <1>3, PTL DEF SpecLaunch
=============================================================================
