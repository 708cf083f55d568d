------------------------------- MODULE Launch -------------------------------
(***************************************************************************)
(* One run of the program, from its arguments to its exit: the scan for a  *)
(* positional pull request, the configuration and its checks, the mode     *)
(* that follows from it, and what the modes do, up to the TUI's start      *)
(* (src/src/main.rs, config/, cli/, export/, tui/storage.rs).              *)
(*                                                                         *)
(* Arguments are texts.  What the runs of the program are given -- its     *)
(* arguments, environment and working directory -- is chosen at the start; *)
(* requests and writes may fail whenever they are made.                    *)
(***************************************************************************)
EXTENDS GitHubAddress, Discussion, FiniteSets, Sorting, SequencesExt, TLC

CONSTANTS
  Launches,     \* what a run may be given: see InitLaunch
  Urls,         \* texts with "://": their URL, None if they are none
  Dashed,       \* texts that start with "-"
  WithEquals,   \* texts like --export=jsonl: the option and its value
  Clusters,     \* texts like -Tt: the short flags they hold
  Parent,       \* file paths: their parent, "" for a bare name
  Directories,  \* the directories there are
  Line          \* line_number of a comment, 0 for none

(* How a run may end.                                                      *)
Outcomes ==
  AddressErrors
  \cup {"Success", "Configuration", "LocalDiscovery", "MissingPullRequestUrl",
        "MissingToken", "NoDirectory", "Io", "Api", "Authentication", "Network",
        "RateLimitExceeded"}

(* try_setup_git_ops: why there are no git operations, else.               *)
NoGitOps == {"disabled", "another repository", "no HEAD", "not opened"}

(* Git operations: those of a clone, at its HEAD.                          *)
GitOpsAt(dir) == [dir |-> dir, head |-> dir.head]

(* Arguments are texts; a comment is listed once, and replies to an older   *)
(* one.                                                                    *)
ASSUME LaunchAssumption ==
  /\ \A l \in Launches :
       /\ l.args \in Seq(STRING)
       /\ \A list \in l.served : list \in Seq(Ids) /\ IsInjective(list)
       /\ DOMAIN l.reply = Ids
       /\ \A id \in Ids : l.reply[id] \in Ids => l.reply[id] < id
       /\ \A dir \in {l.here, l.there} : GitOpsAt(dir) # None
  /\ None \notin Outcomes /\ None \notin NoGitOps /\ None \notin Seq(Ids)
  /\ Line \in [Ids -> Nat]
  /\ "." \in Directories /\ "" \notin Directories

VARIABLES
  launch,      \* what this run was given
  args,        \* the arguments not scanned yet
  phase,       \* ParsePhase
  filtered,    \* the arguments handed to the configuration parser
  identifier,  \* the positional argument
  config,      \* FrankieConfig
  mode,        \* OperationMode
  locator,     \* PullRequestLocator or RepositoryLocator
  requests,    \* the APIs and repositories asked so far
  reviews,     \* the comments fetched
  cells,       \* tui/storage.rs: git operations and why there are none
  output,      \* the comments in the output file, None if untouched
  buffer,      \* comments written to it and not flushed
  summary,     \* the summary printed
  pc,          \* the step that is next
  exit         \* how the run ended

inputVars == <<launch>>
scanVars  == <<args, phase, filtered, identifier>>
netVars   == <<locator, requests, reviews>>
fileVars  == <<output, buffer>>
launchVars ==
  <<inputVars, scanVars, config, mode, netVars, cells, fileVars, summary,
    pc, exit>>

(* A run gets its args, settings env from environment and files, the       *)
(* github_token of the environment, the working directory here, the        *)
(* directory there that --repo-path leads to, and a pull request whose     *)
(* comments are served in one of several orders, and reply to others.      *)
InitLaunch ==
  /\ launch \in Launches
  /\ args = launch.args
  /\ phase = "Normal" /\ filtered = <<>> /\ identifier = None
  /\ config = None /\ mode = None
  /\ locator = None /\ requests = {} /\ reviews = None
  /\ cells = None
  /\ output = None /\ buffer = <<>>
  /\ summary = None
  /\ pc = "Scan" /\ exit = None

Fail(error) ==
  /\ pc' = "Done" /\ exit' = error

Succeed ==
  /\ pc' = "Done" /\ exit' = "Success"

(* The error of the first check that fails; each stops the run. *)
FirstOf(errors) ==
  LET failed == {n \in DOMAIN errors : errors[n] # None}
  IN IF failed = {} THEN None ELSE errors[Min(failed)]

Unless(holds, error) == IF holds THEN None ELSE error

---------------------------------------------------------------------------
(* Arguments.                                                              *)

(* The fields of FrankieConfig with a value, and those without: how they   *)
(* are spelled.  A field that names no short flag of its own gets one from *)
(* ortho_config, the first letter of its name if that is free, or else its *)
(* capital, in the order of the fields.  The settings that the file at     *)
(* --config-path holds are those a run is given anyway.                    *)
OptionsOf ==
  [pr_url |-> {"--pr-url", "-u"}, token |-> {"--token", "-t"},
   owner |-> {"--owner", "-o"}, repo |-> {"--repo", "-r"},
   database_url |-> {"--database-url", "-d"},
   pr_metadata_cache_ttl_seconds |-> {"--pr-metadata-cache-ttl-seconds", "-p"},
   export |-> {"--export", "-e"}, output |-> {"--output", "-O"},
   template |-> {"--template"}, repo_path |-> {"--repo-path", "-R"},
   reply_max_length |-> {"--reply-max-length"},
   reply_templates |-> {"--reply-templates"},
   ai_rewrite_mode |-> {"--ai-rewrite-mode", "-a"},
   ai_rewrite_text |-> {"--ai-rewrite-text", "-A"},
   ai_base_url |-> {"--ai-base-url"}, ai_model |-> {"--ai-model"},
   ai_api_key |-> {"--ai-api-key"},
   ai_timeout_seconds |-> {"--ai-timeout-seconds"},
   commit_history_limit |-> {"--commit-history-limit", "-c"},
   config_path |-> {"--config-path"}]

SwitchesOf ==
  [tui |-> {"--tui", "-T"}, no_local_discovery |-> {"--no-local-discovery", "-n"},
   migrate_db |-> {"--migrate-db", "-m"},
   verify_resolutions |-> {"--verify-resolutions", "-v"},
   summarize_discussions |-> {"--summarize-discussions", "-s"}]

(* The field that a spelling stands for.                                   *)
FieldOf(spellings) ==
  [text \in UNION {spellings[field] : field \in DOMAIN spellings} |->
     CHOOSE field \in DOMAIN spellings : text \in spellings[field]]

OptionFields == FieldOf(OptionsOf)
SwitchFields == FieldOf(SwitchesOf)

(* The fields whose values are numbers.                                    *)
NumberFields ==
  {"pr_metadata_cache_ttl_seconds", "reply_max_length", "ai_timeout_seconds",
   "commit_history_limit"}

(* What a flag sets, and the field whose value is the argument after it.   *)
Flag(sets, awaits) == [sets |-> sets, awaits |-> awaits]

KnownFlags == DOMAIN OptionFields \cup DOMAIN SwitchFields
              \cup DOMAIN WithEquals \cup DOMAIN Clusters

FlagOf(arg) ==
  CASE arg \in DOMAIN OptionFields -> Flag(<<>>, OptionFields[arg])
    [] arg \in DOMAIN SwitchFields -> Flag(SwitchFields[arg] :> TRUE, None)
    [] arg \in DOMAIN WithEquals ->
         Flag(OptionFields[WithEquals[arg][1]] :> WithEquals[arg][2], None)
    [] arg \in DOMAIN Clusters ->
         Flag([field \in {SwitchFields[short] : short \in Clusters[arg].switches}
                 |-> TRUE],
              IF Clusters[arg].option = None THEN None
                ELSE OptionFields[Clusters[arg].option])

TakesValue(arg) ==
  \/ arg \in DOMAIN OptionFields
  \/ arg \in DOMAIN Clusters /\ Clusters[arg].option # None

(* Short flags behind one dash are switches, but for the last.             *)
ASSUME ArgumentsAssumption ==
  /\ {"--"} \cup KnownFlags \subseteq Dashed
  /\ \A text \in DOMAIN Clusters :
       /\ Clusters[text].switches \subseteq DOMAIN SwitchFields
       /\ Clusters[text].option \in {None} \cup DOMAIN OptionFields
  /\ None \notin DOMAIN OptionFields

(* Mutant: an option was added, and forgotten here. *)
ValueFlagsWithoutOne ==
  {"--pr-url", "-u", "--token", "-t", "--owner", "-o", "--repo", "-r",
   "--database-url", "--pr-metadata-cache-ttl-seconds", "--export", "-e",
   "--output", "--repo-path", "--reply-max-length", "--reply-templates",
   "--ai-rewrite-mode", "--ai-rewrite-text", "--ai-base-url", "--ai-model",
   "--ai-api-key", "--ai-timeout-seconds", "--commit-history-limit",
   "--config-path"}

(* VALUE_FLAGS *)
ValueFlags ==
  {"--pr-url", "-u", "--token", "-t", "--owner", "-o", "--repo", "-r",
   "--database-url", "--pr-metadata-cache-ttl-seconds", "--export", "-e",
   "--output", "--template", "--repo-path", "--reply-max-length",
   "--reply-templates", "--ai-rewrite-mode", "--ai-rewrite-text",
   "--ai-base-url", "--ai-model", "--ai-api-key", "--ai-timeout-seconds",
   "--commit-history-limit", "--config-path"}

IsFlagToken(arg) == arg \in Dashed

HandlePostSeparatorArg(arg) ==
  /\ phase = "AfterSeparator"
  /\ IF identifier = None
       THEN identifier' = arg /\ UNCHANGED filtered
       ELSE filtered' = Append(filtered, arg) /\ UNCHANGED identifier
  /\ UNCHANGED phase

HandleFlagValue(arg) ==
  /\ phase = "SkipNext"
  /\ filtered' = Append(filtered, arg)
  /\ phase' = "Normal"
  /\ UNCHANGED identifier

HandleNormalArg(arg) ==
  /\ phase = "Normal"
  /\ \/ /\ arg = "--"
        /\ phase' = "AfterSeparator"
        /\ UNCHANGED <<filtered, identifier>>
     \/ /\ arg # "--" /\ IsFlagToken(arg)
        /\ phase' = IF arg \in ValueFlags THEN "SkipNext" ELSE phase
        /\ filtered' = Append(filtered, arg)
        /\ UNCHANGED identifier
     \/ /\ ~IsFlagToken(arg)
        /\ IF identifier = None
             THEN identifier' = arg /\ UNCHANGED filtered
             ELSE filtered' = Append(filtered, arg) /\ UNCHANGED identifier
        /\ UNCHANGED phase

(* extract_positional_pr_identifier *)
Scan ==
  /\ pc = "Scan"
  /\ args # <<>>
  /\ \/ HandlePostSeparatorArg(Head(args))
     \/ HandleFlagValue(Head(args))
     \/ HandleNormalArg(Head(args))
  /\ args' = Tail(args)
  /\ UNCHANGED <<launch, config, mode, netVars, cells, fileVars, summary, pc,
                 exit>>

---------------------------------------------------------------------------
(* Configuration.                                                          *)

Default ==
  [field \in DOMAIN OptionsOf \cup DOMAIN SwitchesOf \cup {"pr_identifier"} |->
     IF field \in DOMAIN SwitchesOf THEN FALSE ELSE None]

(* The parser ortho_config generates from the fields: no positional, no    *)
(* option without a value or given twice, numbers where they are due.      *)
LoadFromIter(list, env) ==
  LET Value(at, arg) ==
        [at EXCEPT !.option = None,
                   !.found = (at.option :> arg) @@ @,
                   !.bad = @ \/ IsFlagToken(arg)]
      FlagSeen(at, flag) ==
        [at EXCEPT !.option = flag.awaits,
                   !.found = flag.sets @@ @,
                   !.bad = @ \/ (DOMAIN flag.sets \cup {flag.awaits})
                                 \cap DOMAIN at.found # {}]
      Step(at, arg) == IF at.option # None THEN Value(at, arg)
                       ELSE IF arg \in KnownFlags THEN FlagSeen(at, FlagOf(arg))
                       ELSE [at EXCEPT !.bad = TRUE]
      end == FoldLeft(Step, [option |-> None, found |-> <<>>, bad |-> FALSE],
                      list)
  IN IF \/ end.bad \/ end.option # None
        \/ \E field \in NumberFields \cap DOMAIN end.found :
             end.found[field] \notin DOMAIN Number
       THEN Err("Configuration")
     ELSE Ok(end.found @@ env @@ Default)

Blank(text) == text \in {"", " "}

(* non_empty_trimmed *)
Present(text) == text # None /\ ~Blank(text)

ShouldAiRewrite(c) == Present(c.ai_rewrite_mode) \/ Present(c.ai_rewrite_text)

(* validate *)
Valid(c) ==
  /\ ~(c.pr_identifier # None /\ c.pr_url # None)
  /\ Present(c.ai_rewrite_mode) <=> Present(c.ai_rewrite_text)
  /\ c.verify_resolutions => ~ShouldAiRewrite(c) /\ c.export = None
  /\ c.summarize_discussions =>
       ~c.verify_resolutions /\ ~ShouldAiRewrite(c) /\ c.export = None /\ ~c.tui

(* resolve_operation_mode *)
OperationMode(c) ==
  IF c.verify_resolutions THEN "VerifyResolutions"
  ELSE IF c.summarize_discussions THEN "SummarizeDiscussions"
  ELSE IF ShouldAiRewrite(c) THEN "AiRewrite"
  ELSE IF c.export # None THEN "ExportComments"
  ELSE IF c.pr_identifier # None \/ (c.tui /\ c.pr_url # None) THEN "ReviewTui"
  ELSE IF c.pr_url # None THEN "SinglePullRequest"
  ELSE IF c.owner # None /\ c.repo # None THEN "RepositoryListing"
  ELSE "Interactive"

(* load_config, and the choice of the mode in run *)
LoadConfig ==
  /\ pc = "Scan"
  /\ args = <<>>
  /\ LET loaded == LoadFromIter(filtered, launch.env)
     IN IF loaded.error # None
          THEN Fail(loaded.error) /\ UNCHANGED <<config, mode>>
        ELSE /\ config' = IF identifier = None THEN loaded.value
                          ELSE [loaded.value EXCEPT !.pr_identifier = identifier]
             /\ IF ~Valid(config') THEN Fail("Configuration") /\ UNCHANGED mode
                ELSE /\ mode' = IF config'.migrate_db THEN "Migrate"
                                ELSE OperationMode(config')
                     /\ pc' = "Resolve" /\ UNCHANGED exit
  /\ UNCHANGED <<launch, scanVars, netVars, cells, fileVars, summary>>

---------------------------------------------------------------------------
(* What each mode needs before its first request.                          *)

(* resolve_token and PersonalAccessToken::new *)
Token ==
  IF config.token # None THEN config.token ELSE launch.github_token

TokenCheck == Unless(Present(Token), "MissingToken")

(* choose_repo_discovery_path, and where it leads *)
ChosenDirectory == IF config.repo_path # None THEN launch.there ELSE launch.here

(* resolve_from_identifier.  A blank path leads nowhere. *)
ResolveFromIdentifier(text) ==
  IF text \in DOMAIN Urls THEN ParseLocator(Urls[text])
  ELSE IF config.no_local_discovery /\ ~Present(config.repo_path)
    THEN Err("Configuration")
  ELSE LET found == IF config.repo_path # None /\ Blank(config.repo_path)
                      THEN Err("NotARepository") ELSE Discover(ChosenDirectory)
       IN IF found.error # None THEN Err("LocalDiscovery")
          ELSE IF text \notin DOMAIN Number THEN Err("Configuration")
          ELSE ParseLocator(PullRequestUrl(found.value, text))

UrlLocator ==
  IF config.pr_url = None THEN Err("MissingPullRequestUrl")
  ELSE IF config.pr_url \notin DOMAIN Urls THEN Err("InvalidUrl")
  ELSE ParseLocator(Urls[config.pr_url])

(* resolve_locator *)
ResolveLocator ==
  IF config.pr_identifier # None
    THEN ResolveFromIdentifier(config.pr_identifier) ELSE UrlLocator

(* handle_discovery_error: a clone that is of no use is as good as none.   *)
DiscoveredRepository ==
  LET found == Discover(launch.here)
  IN IF config.no_local_discovery THEN Err("Configuration")
     ELSE IF found.error = "Git" THEN Err("LocalDiscovery")
     ELSE IF found.error # None THEN Err("Configuration")
     ELSE FromGitHubOrigin(found.value)

OwnerRepo ==
  IF config.owner = None \/ config.repo = None THEN Err("Configuration")
  ELSE FromOwnerRepo(config.owner, config.repo)

Target ==
  CASE mode \in {"ReviewTui", "VerifyResolutions", "SummarizeDiscussions"} ->
         ResolveLocator
    [] mode \in {"SinglePullRequest", "ExportComments"} -> UrlLocator
    [] mode = "RepositoryListing" -> OwnerRepo
    [] mode = "Interactive" -> DiscoveredRepository

(* discover_repo_for_locator and create_git_ops: git operations of a clone *)
(* of the repository of the pull request, at its HEAD, if it opens a second *)
(* time; why not, else.                                                    *)
GitOpsFor(where) ==
  LET found == IF config.repo_path # None /\ Blank(config.repo_path)
                 THEN Err("NotARepository") ELSE Discover(ChosenDirectory)
  IN IF config.repo_path = None /\ config.no_local_discovery THEN Err("disabled")
     ELSE IF found.error # None THEN Err(found.error)
     ELSE IF ~Matches(found.value, where) THEN Err("another repository")
     ELSE IF ChosenDirectory.head = None THEN Err("no HEAD")
     ELSE IF ~ChosenDirectory.opens THEN Err("not opened")
     ELSE Ok(GitOpsAt(ChosenDirectory))

(* Git operations, or the reason why there are none.                       *)
GitOpsCell(git) == [git |-> git.value, failure |-> git.error]

(* open_dir_for_path *)
OpenDirCheck(path) ==
  Unless(Parent[path] \in Directories, "NoDirectory")

ExportFormats ==
  [name \in {"markdown", "md", "jsonl", "template"} |->
     IF name = "md" THEN "markdown" ELSE name]

(* parse_export_format and load_template_if_needed *)
ExportCheck ==
  IF config.export \notin DOMAIN ExportFormats THEN "Configuration"
  ELSE IF ExportFormats[config.export] # "template" THEN None
  ELSE IF config.template = None THEN "Configuration"
  ELSE OpenDirCheck(config.template)

(* What each mode checks, in its order. *)
ListingChecks(target) ==
  <<Unless(config.owner # None /\ config.repo # None, "Configuration"),
    Unless(Token # None, "MissingToken"), target.error, TokenCheck>>

(* A blank database URL is refused where a cache is needed. *)
LoadChecks(target) ==
  <<Unless(config.pr_url # None, "MissingPullRequestUrl"),
    Unless(Token # None, "MissingToken"), target.error, TokenCheck,
    Unless(config.database_url = None \/ ~Blank(config.database_url),
           "Configuration")>>

ExportChecks(target) ==
  <<Unless(config.pr_url # None, "MissingPullRequestUrl"), ExportCheck,
    target.error, TokenCheck>>

VerifyChecks(target) ==
  <<target.error, TokenCheck,
    Unless(Present(config.database_url), "Configuration"),
    IF target.error # None \/ GitOpsFor(target.value).error = None
      THEN None ELSE "Configuration">>

(* The TUI does without a database. *)
Checks(target) ==
  CASE mode = "SinglePullRequest" -> LoadChecks(target)
    [] mode = "RepositoryListing" -> ListingChecks(target)
    [] mode = "ExportComments"    -> ExportChecks(target)
    [] mode = "VerifyResolutions" -> VerifyChecks(target)
    [] mode \in {"ReviewTui", "SummarizeDiscussions", "Interactive"} ->
         <<target.error, TokenCheck>>

Resolve ==
  /\ pc = "Resolve"
  /\ mode \notin {"Migrate", "AiRewrite"}
  /\ LET failed == FirstOf(Checks(Target))
     IN IF failed # None THEN Fail(failed) /\ UNCHANGED <<locator, cells>>
        ELSE /\ locator' = Target.value
             /\ pc' = "Fetch" /\ UNCHANGED exit
             /\ cells' = IF mode = "VerifyResolutions"
                           THEN GitOpsCell(Ok(GitOpsFor(Target.value).value))
                           ELSE cells
  /\ UNCHANGED <<launch, scanVars, config, mode, requests, reviews, fileVars,
                 summary>>

(* read_template_file, when the file is missing or no text *)
TemplateUnreadable ==
  /\ pc = "Resolve" /\ mode = "ExportComments"
  /\ config.pr_url # None /\ config.template # None
  /\ config.export \in DOMAIN ExportFormats
  /\ ExportFormats[config.export] = "template"
  /\ Fail("Io")
  /\ UNCHANGED <<launch, scanVars, config, mode, netVars, cells, fileVars,
                 summary>>

(* cli::migrations: a blank or missing URL is refused, migrating may fail. *)
Migrate ==
  /\ pc = "Resolve" /\ mode = "Migrate"
  /\ IF ~Present(config.database_url) THEN Fail("Configuration")
     ELSE Succeed \/ Fail("Io")
  /\ UNCHANGED <<launch, scanVars, config, mode, netVars, cells, fileVars,
                 summary>>

(* cli::ai_rewrite: only a configuration error is an error; when the model *)
(* fails or has nothing to say, the original text is printed.              *)
AiRewrite ==
  /\ pc = "Resolve" /\ mode = "AiRewrite"
  /\ IF config.ai_rewrite_mode \notin {"expand", "reword"}
       THEN Fail("Configuration")
       ELSE Succeed \/ Fail("Configuration") \/ Fail("Io")
  /\ UNCHANGED <<launch, scanVars, config, mode, netVars, cells, fileVars,
                 summary>>

---------------------------------------------------------------------------
(* Requests.                                                               *)

Asks == [api |-> locator.api, owner |-> locator.owner,
         repository |-> locator.repository, number |-> locator.number]

(* map_octocrab_error *)
OctocrabErrors == {"Authentication", "Api", "Network"}

(* map_octocrab_error_with_rate_limit, of the two gateways that list *)
ListingErrors == OctocrabErrors \cup {"RateLimitExceeded"}

(* map_persistence_error, where metadata is cached *)
CacheErrors ==
  IF config.database_url = None THEN {} ELSE {"Configuration", "Io"}

RequestFails ==
  /\ pc = "Fetch"
  /\ requests' = requests \cup {Asks}
  /\ \E error \in IF mode = "SinglePullRequest"
                   THEN OctocrabErrors \cup CacheErrors ELSE ListingErrors :
       Fail(error)
  /\ UNCHANGED <<launch, scanVars, config, mode, locator, reviews, cells,
                 fileVars, summary>>

(* write_pr_summary_to and write_listing_summary: the last thing a run     *)
(* does, unless standard output is closed. *)
WriteSummary == Succeed \/ Fail("Io")

(* PullRequestIntake::load: the metadata, then the comments. *)
LoadPullRequest ==
  /\ pc = "Fetch" /\ mode = "SinglePullRequest"
  /\ requests' = requests \cup {Asks}
  /\ WriteSummary
  /\ UNCHANGED <<launch, scanVars, config, mode, locator, reviews, cells,
                 fileVars, summary>>

(* list_pull_requests, of a repository named or discovered *)
ListPullRequests ==
  /\ pc = "Fetch" /\ mode \in {"RepositoryListing", "Interactive"}
  /\ requests' = requests \cup {Asks}
  /\ WriteSummary
  /\ UNCHANGED <<launch, scanVars, config, mode, locator, reviews, cells,
                 fileVars, summary>>

(* list_review_comments *)
FetchComments(list) ==
  /\ pc = "Fetch"
  /\ mode \in {"ReviewTui", "ExportComments", "VerifyResolutions",
               "SummarizeDiscussions"}
  /\ requests' = requests \cup {Asks}
  /\ reviews' = list
  /\ pc' = "Work"
  /\ UNCHANGED <<launch, scanVars, config, mode, locator, cells, fileVars,
                 summary, exit>>

---------------------------------------------------------------------------
(* The export.                                                             *)

(* compare_options: 0 is none, which is last *)
Earlier(a, b) == a # 0 /\ (b = 0 \/ a < b)

(* Mutant: comments on one line stay as GitHub lists them. *)
CompareCommentsByPlace(a, b) ==
  \/ Earlier(File[a], File[b])
  \/ File[a] = File[b] /\ Earlier(Line[a], Line[b])

(* compare_comments: a is less than b *)
CompareComments(a, b) ==
  \/ Earlier(File[a], File[b])
  \/ File[a] = File[b] /\ Earlier(Line[a], Line[b])
  \/ File[a] = File[b] /\ Line[a] = Line[b] /\ a < b

(* sort_comments: a stable sort *)
SortComments(list) ==
  LET Before(i, j) == \/ CompareComments(list[i], list[j])
                      \/ ~CompareComments(list[j], list[i]) /\ i <= j
      order == Sorted(DOMAIN list, Before)
  IN [k \in DOMAIN list |-> list[order[k]]]

ExportsTo(file) ==
  pc = "Work" /\ mode = "ExportComments" /\ (config.output # None <=> file)

(* write_output to standard output, which may be closed; a template may    *)
(* not render. *)
ExportToStdout ==
  /\ ExportsTo(FALSE)
  /\ \/ Succeed
     \/ Fail("Io")
     \/ ExportFormats[config.export] = "template" /\ Fail("Configuration")
  /\ UNCHANGED <<launch, scanVars, config, mode, netVars, cells, fileVars,
                 summary>>

(* create_output_file *)
CreateOutputFile ==
  /\ ExportsTo(TRUE)
  /\ LET failed == OpenDirCheck(config.output)
     IN \/ failed # None /\ Fail(failed) /\ UNCHANGED output
        \/ failed = None /\ Fail("Io") /\ UNCHANGED output
        \/ failed = None /\ output' = <<>> /\ pc' = "Write" /\ UNCHANGED exit
  /\ UNCHANGED <<launch, scanVars, config, mode, netVars, cells, buffer,
                 summary>>

(* What of the buffered comments is on disk: the buffer is emptied when it *)
(* is full, and when it is dropped. *)
Spill(list) == \E n \in Len(output)..Len(list) : output' = SubSeq(list, 1, n)

(* All is written to the buffer, or all that came before an error.         *)
Buffered(list) ==
  /\ Spill(list)
  /\ \/ buffer' = list /\ pc' = "Flush" /\ UNCHANGED exit
     \/ UNCHANGED buffer /\ Fail("Io")

(* A header, then a section per comment. *)
WriteMarkdown(list) ==
  ExportFormats[config.export] = "markdown" /\ Buffered(list)

(* A line per comment. *)
WriteJsonl(list) == ExportFormats[config.export] = "jsonl" /\ Buffered(list)

(* The template is parsed and rendered before anything is written. *)
WriteTemplate(list) ==
  /\ ExportFormats[config.export] = "template"
  /\ \/ Fail("Configuration") /\ UNCHANGED fileVars
     \/ Buffered(list)

(* sort_comments in run, then write_format *)
WriteFormat ==
  /\ pc = "Write"
  /\ LET sorted == SortComments(reviews)
     IN WriteMarkdown(sorted) \/ WriteJsonl(sorted) \/ WriteTemplate(sorted)
  /\ UNCHANGED <<launch, scanVars, config, mode, netVars, cells, summary>>

Flush ==
  /\ pc = "Flush"
  /\ \/ Succeed /\ output' = buffer
     \/ Fail("Io") /\ Spill(buffer)
  /\ UNCHANGED <<launch, scanVars, config, mode, netVars, cells, buffer,
                 summary>>

---------------------------------------------------------------------------
(* The other modes.                                                        *)

CommentsOf(list) ==
  {[id |-> id, reply |-> launch.reply[id]] : id \in ToSet(list)}

(* cli::summarize_discussions: the title that is fetched first may be      *)
(* missing, the summary not. *)
SummarizeDiscussions ==
  /\ pc = "Work" /\ mode = "SummarizeDiscussions"
  /\ IF reviews = <<>> THEN Fail("Configuration") /\ UNCHANGED summary
     ELSE \/ Fail("Api") /\ UNCHANGED summary
          \/ \E answer \in Answers :
               /\ Accepts(CommentsOf(reviews), answer)
               /\ summary' = Summary(CommentsOf(reviews), answer)
               /\ Succeed \/ Fail("Io")
  /\ UNCHANGED <<launch, scanVars, config, mode, netVars, cells, fileVars>>

(* cli::verify_resolutions: the verdicts are stored, then printed.         *)
VerifyResolutions ==
  /\ pc = "Work" /\ mode = "VerifyResolutions"
  /\ WriteSummary \/ Fail("Api")
  /\ UNCHANGED <<launch, scanVars, config, mode, netVars, cells, fileVars,
                 summary>>

(* The cells of storage.rs, each set once: what the TUI starts with, what  *)
(* its refreshes ask, and the git operations of its time travel, or why    *)
(* there are none. *)
TuiCells(git) ==
  [git |-> git.value, failure |-> git.error,
   initial |-> reviews, refresh |-> locator]

(* try_setup_git_ops may fail without stopping the TUI. *)
SetUpTui ==
  /\ pc = "Work" /\ mode = "ReviewTui"
  /\ cells' = TuiCells(GitOpsFor(locator))
  /\ pc' = "Tui"
  /\ UNCHANGED <<launch, scanVars, config, mode, netVars, fileVars, summary,
                 exit>>

(* run_tui; what happens inside is in the other modules.                   *)
RunTui ==
  /\ pc = "Tui"
  /\ Succeed \/ Fail("Api")
  /\ UNCHANGED <<launch, scanVars, config, mode, netVars, cells, fileVars,
                 summary>>

NextLaunch ==
  \/ Scan \/ LoadConfig \/ Resolve \/ TemplateUnreadable \/ Migrate \/ AiRewrite
  \/ RequestFails \/ LoadPullRequest \/ ListPullRequests
  \/ \E list \in launch.served : FetchComments(list)
  \/ ExportToStdout \/ CreateOutputFile \/ WriteFormat \/ Flush
  \/ SummarizeDiscussions \/ VerifyResolutions \/ SetUpTui \/ RunTui

SpecLaunch == InitLaunch /\ [][NextLaunch]_launchVars

---------------------------------------------------------------------------
(* Properties.                                                             *)

(* An argument is a value when the one before it takes one, and neither is *)
(* behind the separator. *)
ValueAt(list) ==
  LET value[i \in 0..Len(list)] ==
        /\ i > 1 /\ ~value[i - 1]
        /\ TakesValue(list[i - 1])
        /\ \A j \in 1..(i - 1) : list[j] = "--" => value[j]
  IN value

Separators(list) == {i \in DOMAIN list : list[i] = "--" /\ ~ValueAt(list)[i]}

PositionalsOf(list) ==
  {i \in DOMAIN list :
     \/ \E s \in Separators(list) : s < i
     \/ ~ValueAt(list)[i] /\ ~IsFlagToken(list[i])}

(* As they stand.                                                          *)
InPlace(i, j) == i <= j

(* What the scan hands on is what the parser that comes after it makes of  *)
(* the arguments: the first that is no option and not the value of one is  *)
(* taken, the first separator dropped, the rest left in place.             *)
ScannedAsParsed ==
  LET list == launch.args
      taken == IF PositionalsOf(list) = {} THEN {}
               ELSE {Min(PositionalsOf(list))}
      dropped == IF Separators(list) = {} THEN {} ELSE {Min(Separators(list))}
      kept == Sorted(DOMAIN list \ (taken \cup dropped), InPlace)
  IN /\ identifier = IF taken = {} THEN None ELSE list[Min(taken)]
     /\ filtered = [k \in DOMAIN kept |-> list[kept[k]]]


(* Flags with a value that VALUE_FLAGS has no room for: the short ones that *)
(* ortho_config derives, and others at the end of switches.                *)
UnlistedFlags ==
  {"-d", "-p", "-O", "-R", "-a", "-A", "-c"}
  \cup {text \in DOMAIN Clusters : Clusters[text].option # None}

(* So it reads the arguments of every run that spells its options as       *)
(* VALUE_FLAGS lists them: with none of the short flags for a value that   *)
(* only ortho_config knows of, and none at the end of other short flags    *)
(* behind one dash (extract_positional_pr_identifier, VALUE_FLAGS).        *)
ArgumentsAsListed ==
  pc # "Scan" /\ ToSet(launch.args) \cap UnlistedFlags = {} => ScannedAsParsed

(* GitHub serves its API from a host of its own, other servers themselves. *)
Server(host) == IF SameText(host, "api.github.com") THEN "github.com" ELSE host

(* The request r is about this repository of this server.                  *)
IsAbout(r, host, owner, repository) ==
  /\ SameText(Server(r.api.host), Server(host))
  /\ SameText(r.owner, owner)
  /\ SameText(r.repository, repository)

IsAboutOriginOf(r, dir) ==
  LET origin == dir.remotes["origin"]
      name == origin.path[2]
  IN IsAbout(r, origin.host, origin.path[1],
             IF name \in DOMAIN WithoutGit THEN WithoutGit[name] ELSE name)

(* The request r is about the repository that the configuration points to. *)
IsAboutTarget(r) ==
  LET named == IF mode \in {"SinglePullRequest", "ExportComments"}
                  \/ config.pr_identifier = None
                 THEN config.pr_url ELSE config.pr_identifier
  IN CASE mode = "RepositoryListing" ->
            IsAbout(r, "github.com", config.owner, config.repo)
       [] mode = "Interactive" -> IsAboutOriginOf(r, launch.here)
       [] mode \notin {"RepositoryListing", "Interactive"}
            /\ named \in DOMAIN Urls ->
            /\ IsAbout(r, Urls[named].host, Urls[named].path[1],
                       Urls[named].path[2])
            /\ r.number = Number[Urls[named].path[4]]
       [] OTHER -> /\ IsAboutOriginOf(r, ChosenDirectory)
                   /\ r.number = Number[named]

(* Everything a run asks is about the one repository it was pointed at, be *)
(* it by a URL, by a number and the clone around, by owner and repository  *)
(* or by the clone alone; and the git operations that time travel and      *)
(* verification use, when there are any, are those of a clone of that very *)
(* repository of that very server, whichever way its origin is spelled     *)
(* (pull_request_context.rs, discover_repo_for_locator). *)
OneRepository ==
  /\ \A r \in requests : IsAboutTarget(r)
  /\ cells # None =>
       /\ cells.git = None <=> cells.failure # None
       /\ cells.git # None =>
            \A r \in requests : IsAboutOriginOf(r, cells.git.dir)

(* The order of an export: by file and line, unknown ones last, then age.  *)
ExportedBefore(a, b) ==
  LET Key(id) == <<IF File[id] = 0 THEN 1 ELSE 0, File[id],
                   IF Line[id] = 0 THEN 1 ELSE 0, Line[id], id>>
  IN \E k \in 1..5 : /\ Key(a)[k] < Key(b)[k]
                     /\ \A j \in 1..(k - 1) : Key(a)[j] = Key(b)[j]

(* An export that succeeds leaves every comment in its file, in an order   *)
(* that does not depend on the one GitHub listed them in; at any time the  *)
(* file is a part of that from its beginning, or what it was before the    *)
(* comments were there (sort_comments, write_output). *)
ExportIsWhole ==
  LET whole == Sorted(ToSet(reviews), ExportedBefore)
  IN /\ output # None => reviews # None /\ IsPrefix(output, whole)
     /\ exit = "Success" /\ mode = "ExportComments" /\ config.output # None
          => output = whole

(* A summary that is printed has each comment fetched in exactly one item, *)
(* together with those it is joined to by replies and with no other, even  *)
(* where a reply's parent is not among the comments (threads.rs,           *)
(* service_validation.rs). *)
ItemsAreThreads ==
  summary # None =>
    LET items == Items(summary)
    IN \A a, b \in ToSet(reviews) :
         Cardinality({i \in DOMAIN items :
                        {a, b} \subseteq ToSet(items[i].related)})
           = IF Joined(a, b, CommentsOf(reviews)) THEN 1 ELSE 0
===========================================================================
