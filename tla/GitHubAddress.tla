--------------------------- MODULE GitHubAddress ----------------------------
(***************************************************************************)
(* Where a pull request is: from a URL, or from a number and the origin of *)
(* a local clone, to the API that is asked and the repository it is asked  *)
(* about (src/src/github/locator.rs, github/repository_locator.rs,         *)
(* local/remote/mod.rs, local/discovery.rs, cli/pull_request_context.rs).  *)
(*                                                                         *)
(* A URL is a record of its scheme, host, port and path segments; names,   *)
(* numbers and hosts are texts that are told apart, folded to lower case,  *)
(* stripped of ".git" and read as numbers by functions.                    *)
(***************************************************************************)
EXTENDS Option, Naturals, Sequences

CONSTANTS
  Lower,       \* texts with capitals, and what they are in lower case
  WithoutGit,  \* names that end in ".git", and what is left of them
  Number       \* texts that are numbers

(* How a text or a directory may turn out to point to no repository        *)
(* (IntakeError, LocalDiscoveryError).                                     *)
AddressErrors ==
  {"Git", "NotARepository", "NoRemotes", "RemoteNotFound", "InvalidRemoteUrl",
   "InvalidUrl", "MissingPathSegments", "InvalidPullRequestNumber"}

(* None is neither a text nor an error; a text in lower case has no        *)
(* capitals.                                                               *)
ASSUME GitHubAddressAssumption ==
  /\ None \notin STRING /\ None \notin AddressErrors
  /\ \A text \in DOMAIN Lower : Lower[text] \notin DOMAIN Lower
  /\ {"github.com", "api.github.com"} \cap DOMAIN Lower = {}

Ok(value)  == [error |-> None, value |-> value]
Err(error) == [error |-> error, value |-> None]

Folded(text) == IF text \in DOMAIN Lower THEN Lower[text] ELSE text

(* eq_ignore_ascii_case *)
SameText(a, b) == Folded(a) = Folded(b)

IsGitHub(host) == SameText(host, "github.com")

---------------------------------------------------------------------------
(* Remotes.  [style |-> "scp", host, path] is user@host:path, [style |->   *)
(* "url", host, port, path] a URL; anything else is in no style.           *)

(* extract_owner_repo_from_path: the path is trimmed of slashes; no port   *)
(* is kept for github.com. *)
OriginOf(host, port, path) ==
  IF Len(path) < 2 \/ (Len(path) > 2 /\ path[3] # "")
     \/ "" \in {path[1], path[2]} \/ path[2] = ".git"
  THEN Err("InvalidRemoteUrl")
  ELSE LET name == IF path[2] \in DOMAIN WithoutGit THEN WithoutGit[path[2]]
                   ELSE path[2]
       IN Ok(IF IsGitHub(host)
               THEN [host |-> "github.com", port |-> None,
                     owner |-> path[1], repository |-> name]
               ELSE [host |-> host, port |-> port,
                     owner |-> path[1], repository |-> name])

(* parse_github_remote *)
ParseRemote(remote) ==
  CASE remote.style = "scp" -> OriginOf(remote.host, None, remote.path)
    [] remote.style = "url" -> OriginOf(remote.host, remote.port, remote.path)
    [] OTHER -> Err("InvalidRemoteUrl")

(* discover_repository.  A directory is in nothing, in a bare repository,  *)
(* in one git cannot read, or in one with these remotes and this HEAD (or  *)
(* None, before the first commit).                                         *)
Discover(dir) ==
  CASE dir.kind = "unreadable" -> Err("Git")
    [] dir.kind \in {"nothing", "bare"} -> Err("NotARepository")
    [] dir.kind = "clone" /\ DOMAIN dir.remotes = {} -> Err("NoRemotes")
    [] dir.kind = "clone" /\ DOMAIN dir.remotes # {}
         /\ "origin" \notin DOMAIN dir.remotes -> Err("RemoteNotFound")
    [] OTHER -> ParseRemote(dir.remotes["origin"])

---------------------------------------------------------------------------
(* Locators.                                                               *)

GitHubApi ==
  [scheme |-> "https", host |-> "api.github.com", port |-> None, path |-> <<>>]

(* derive_api_base.  Url keeps hosts in lower case. *)
ApiBase(url) ==
  IF IsGitHub(url.host) THEN GitHubApi
  ELSE [scheme |-> url.scheme, host |-> Folded(url.host), port |-> url.port,
        path |-> <<"api", "v3">>]

(* PullRequestLocator::parse.  A text that is no URL has None for one; all *)
(* URLs here have a path. *)
ParseLocator(url) ==
  IF url = None THEN Err("InvalidUrl")
  ELSE IF Len(url.path) < 4 THEN Err("MissingPathSegments")
  ELSE IF url.path[3] # "pull" \/ url.path[4] = "" THEN Err("MissingPathSegments")
  ELSE IF url.path[4] \notin DOMAIN Number THEN Err("InvalidPullRequestNumber")
  ELSE IF Number[url.path[4]] = 0 THEN Err("InvalidPullRequestNumber")
  ELSE IF "" \in {url.path[1], url.path[2]} THEN Err("MissingPathSegments")
  ELSE Ok([api |-> ApiBase(url), owner |-> url.path[1],
           repository |-> url.path[2], number |-> Number[url.path[4]]])

(* GitHubOrigin::pull_request_url *)
PullRequestUrl(origin, number) ==
  [scheme |-> "https", host |-> origin.host, port |-> origin.port,
   path |-> <<origin.owner, origin.repository, "pull", number>>]

(* PullRequestLocator::host *)
HostOf(locator) ==
  IF SameText(locator.api.host, "api.github.com") THEN "github.com"
  ELSE locator.api.host

(* RepositoryLocator: number is that of no pull request. *)
FromOwnerRepo(owner, repo) ==
  IF "" \in {owner, repo} THEN Err("MissingPathSegments")
  ELSE Ok([api |-> GitHubApi, owner |-> owner, repository |-> repo,
           number |-> 0])

FromGitHubOrigin(origin) ==
  IF origin.host = "github.com"
    THEN FromOwnerRepo(origin.owner, origin.repository)
    ELSE Ok([api |-> ApiBase([scheme |-> "https", host |-> origin.host,
                              port |-> origin.port]),
             owner |-> origin.owner, repository |-> origin.repository,
             number |-> 0])

(* Mutant: a clone from another server passes. *)
MatchesOnAnyHost(origin, locator) ==
  /\ SameText(origin.owner, locator.owner)
  /\ SameText(origin.repository, locator.repository)

(* validate_repo_matches_locator *)
Matches(origin, locator) ==
  /\ SameText(origin.host, HostOf(locator))
  /\ SameText(origin.owner, locator.owner)
  /\ SameText(origin.repository, locator.repository)
===========================================================================
