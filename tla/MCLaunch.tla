------------------------------ MODULE MCLaunch ------------------------------
(* Four families of runs: how arguments are read, what a run is pointed at, *)
(* exports, and summaries of every reply structure on four comments.        *)
EXTENDS Launch

MCLower == [text \in {"GitHub.com", "Octo", "Repo"} |->
              CASE text = "GitHub.com" -> "github.com"
                [] text = "Octo" -> "octo" [] text = "Repo" -> "repo"]
MCWithoutGit == "repo.git" :> "repo" @@ "Repo.git" :> "Repo"
MCNumber == "42" :> 42 @@ "0" :> 0

PullUrl(host, port, owner, number) ==
  [scheme |-> "https", host |-> host, port |-> port,
   path |-> <<owner, "repo", "pull", number>>]

MCUrls ==
  "url" :> PullUrl("github.com", None, "octo", "42")
  @@ "url-capitals" :> PullUrl("github.com", None, "Octo", "42")
  @@ "url-enterprise" :> PullUrl("ghe.corp", "8443", "octo", "42")
  @@ "url-api" :> PullUrl("api.github.com", None, "octo", "42")
  @@ "url-zero" :> PullUrl("github.com", None, "octo", "0")
  @@ "url-repo" :> [PullUrl("github.com", None, "octo", "42")
                      EXCEPT !.path = <<"octo", "repo">>]
  @@ "://" :> None
MCWithEquals == "--export=jsonl" :> <<"--export", "jsonl">>
MCClusters == "-Tt" :> [switches |-> {"-T"}, option |-> "-t"]
              @@ "-nT" :> [switches |-> {"-n", "-T"}, option |-> None]
MCDashed == {"--", "-x"} \cup DOMAIN OptionFields \cup DOMAIN SwitchFields
            \cup DOMAIN MCWithEquals \cup DOMAIN MCClusters

MCParent == "comments" :> "" @@ "out/comments" :> "out" @@ "gone/comments" :> "gone"
            @@ "42" :> "" @@ "--" :> "" @@ "url" :> "https://github.com"
            @@ "--tui" :> "" @@ "--template" :> "" @@ "--pr-url" :> ""
            @@ "--export=jsonl" :> "" @@ "-p" :> "" @@ "-Tt" :> ""
MCDirectories == {".", "out"}

MCIds == 1..4
MCFile == <<1, 0, 1, 1>>
MCLine == <<5, 0, 5, 0>>
MCWritten == <<2, 1, 1, 1>>

Orders(S) == SetToSeqs(S)
Standalone == [id \in MCIds |-> None]

(* Directories. *)
Clone(style, host, port, owner, name) ==
  [kind |-> "clone", head |-> "HEAD", opens |-> TRUE,
   remotes |-> "origin" :> [style |-> style, host |-> host, port |-> port,
                            path |-> <<owner, name>>]]
Scp(host, owner, name) == Clone("scp", host, None, owner, name)
Ours == Scp("github.com", "octo", "repo.git")
Kind(kind) == [Ours EXCEPT !.kind = kind]
Dirs ==
  {Ours, Scp("GitHub.com", "Octo", "Repo.git"), Scp("gitlab.com", "octo", "repo"),
   Scp("github.com", "octo", "other"), Scp("ghe.corp", "octo", "repo"),
   Clone("url", "ghe.corp", "8443", "octo", "repo"),
   Clone("file", None, None, "srv", "repo"), Scp("github.com", "", "repo"),
   Kind("nothing"), Kind("bare"), Kind("unreadable"),
   [Ours EXCEPT !.head = None], [Ours EXCEPT !.opens = FALSE], [Ours EXCEPT !.remotes = <<>>],
   [Ours EXCEPT !.remotes = "fork" :> Ours.remotes["origin"]]}

Plain == [args |-> <<>>, env |-> "token" :> "secret", github_token |-> None,
          here |-> Ours, there |-> Kind("nothing"), reply |-> Standalone,
          served |-> {<<1, 2>>}]

(* Every argument list of up to MaxArgs words. *)
MaxArgs == 4
Words == {"--pr-url", "url", "--tui", "--", "42", "--template",
          "--export=jsonl", "-p", "-Tt"}
ShortWords == {<<"-nT", "42">>, <<"-x", "42">>, <<"-d", "db", "42">>,
               <<"-Tt", "secret", "42", "-d", "db">>}
Readings ==
  {[Plain EXCEPT !.args = words] :
     words \in ShortWords \cup UNION {[1..n -> Words] : n \in 0..MaxArgs}}

(* Settings that come from the environment are given as what is found.     *)
Modes == {<<>>, "tui" :> TRUE, "verify_resolutions" :> TRUE,
          "summarize_discussions" :> TRUE, "export" :> "jsonl",
          "migrate_db" :> TRUE, "owner" :> "octo" @@ "repo" :> "repo",
          "owner" :> "" @@ "repo" :> "repo",
          "ai_rewrite_mode" :> "expand" @@ "ai_rewrite_text" :> "text",
          "ai_rewrite_mode" :> "other" @@ "ai_rewrite_text" :> "text",
          "ai_rewrite_mode" :> "expand"}
Pointers ==
  {[args |-> <<>>, env |-> <<>>]}
  \cup {[args |-> <<text>>, env |-> <<>>] : text \in {"42", "0", "main"} \cup DOMAIN MCUrls}
  \cup {[args |-> <<>>, env |-> "pr_url" :> text] : text \in {"main"} \cup DOMAIN MCUrls}
Places ==
  {[env |-> <<>>, here |-> dir, there |-> Ours] : dir \in Dirs}
  \cup {[env |-> "repo_path" :> "there" @@ "no_local_discovery" :> TRUE,
          here |-> Kind("nothing"), there |-> dir] : dir \in Dirs}
  \cup {[env |-> "no_local_discovery" :> TRUE, here |-> Ours, there |-> Ours],
        [env |-> "repo_path" :> " ", here |-> Ours, there |-> Ours]}
Pointed ==
  {[Plain EXCEPT !.args = p.args, !.here = place.here, !.there = place.there,
                 !.env = p.env @@ m @@ place.env @@ @ @@ "database_url" :> "db"] :
     p \in Pointers, place \in Places, m \in Modes}
  \cup {[Plain EXCEPT !.args = <<"url">>, !.env = e @@ m, !.github_token = t] :
          m \in Modes \cup {"tui" :> TRUE @@ "database_url" :> " "},
          e \in {<<>>, "token" :> "", "token" :> "secret"}, t \in {None, "secret"}}

Exports ==
  {[Plain EXCEPT !.env = "pr_url" :> "url" @@ "export" :> format @@ e @@ @,
                 !.served = Orders(MCIds) \cup {<<>>, <<3>>}] :
     format \in {"jsonl", "md", "pdf"},
     e \in {<<>>} \cup {"output" :> path : path \in {"comments", "out/comments", "gone/comments"}}}
  \cup
  {[Plain EXCEPT !.env = "pr_url" :> "url" @@ "export" :> "template" @@ e @@ @,
                 !.served = {<<2, 1>>}] :
     e \in {<<>>} \cup {"template" :> path @@ "output" :> "out/comments" :
                        path \in {"comments", "out/comments"}}
                  \cup {"template" :> "out/comments"}}

(* Comments reply to earlier ones, or to comment 0, which is not served.   *)
Replies == {reply \in [MCIds -> {None} \cup 0..3] :
              \A id \in MCIds : reply[id] # None => reply[id] < id}
Summaries ==
  {[Plain EXCEPT !.args = <<"url", "--summarize-discussions">>, !.reply = reply,
                 !.served = {<<1, 2, 3, 4>>, <<4, 2, 3>>, <<>>}] : reply \in Replies}

(* One command, with the long flag of the option and with the short one.   *)
ShortFlagLaunches ==
  {[Plain EXCEPT !.args = <<flag, "db", "42">>] : flag \in {"--database-url", "-d"}}

MCLaunches == Readings \cup Pointed \cup Exports \cup Summaries

Entry(root) == [root |-> root, blank |-> FALSE,
                severity |-> IF root < 3 THEN "high" ELSE "low"]
MCAnswers ==
  {[i \in DOMAIN roots |-> Entry(roots[i])] :
     roots \in UNION {Orders(S) : S \in SUBSET MCIds}}
  \cup {<<Entry(1), Entry(1)>>, <<[Entry(1) EXCEPT !.blank = TRUE]>>,
        <<[Entry(1) EXCEPT !.severity = "urgent"]>>}
===========================================================================
