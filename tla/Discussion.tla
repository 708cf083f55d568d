----------------------------- MODULE Discussion -----------------------------
(***************************************************************************)
(* How a summary of the discussion of a pull request is made               *)
(* (src/src/ai/pr_discussion_summary/threads.rs, openai_protocol.rs,       *)
(* service.rs, service_validation.rs, model.rs): comments are grouped into *)
(* threads, the model writes one entry per thread, its answer is checked   *)
(* against the threads, and the entries are grouped by file and severity.  *)
(*                                                                         *)
(* A comment is a record with its id and the id it replies to; what GitHub *)
(* never changes of it (its file, when it was written) is a function of    *)
(* the id.  Paths and times are numbers, in their order; 0 is none.        *)
(***************************************************************************)
EXTENDS Option, CommentIds, Naturals, Sequences, FiniteSets, Sorting,
        SequencesExt

CONSTANTS
  File,      \* file_path of a comment, 0 for none
  Written,   \* created_at of a comment, 0 for none
  Answers    \* what the model may answer to a request

(* Ids, paths and times are numbers; see below for what an answer is.      *)
ASSUME DiscussionAssumption ==
  /\ Ids \subseteq Nat /\ None \notin Nat
  /\ File \in [Ids -> Nat] /\ Written \in [Ids -> Nat]
  /\ Answers \subseteq Seq([root: Nat, severity: STRING, blank: BOOLEAN])

General == 0   \* GENERAL_DISCUSSION_FILE_PATH

IdsOf(comments) == {c.id : c \in comments}

ParentOf(id, comments) == (CHOOSE c \in comments : c.id = id).reply

---------------------------------------------------------------------------
(* Threads.                                                                *)

(* Mutant: a thread is rooted at the comment replied to. *)
RootsDirect(comments) ==
  [id \in IdsOf(comments) |->
     IF ParentOf(id, comments) \in IdsOf(comments)
       THEN ParentOf(id, comments) ELSE id]

(* The first comment of the thread that is among those of the request.     *)
(* Replies never form a circle, so the walk to it ends.                    *)
Roots(comments) ==
  LET present == IdsOf(comments)
      root[id \in present] ==
        IF ParentOf(id, comments) \in present
          THEN root[ParentOf(id, comments)] ELSE id
  IN root

(* sort_by_key((created_at, id)) *)
WrittenBefore(a, b) ==
  Written[a] < Written[b] \/ (Written[a] = Written[b] /\ a <= b)

Threads(comments) ==
  LET root == Roots(comments)
  IN {[root |-> r, file |-> File[r],
       related |-> Sorted({id \in IdsOf(comments) : root[id] = r},
                          WrittenBefore)] :
        r \in {root[id] : id \in IdsOf(comments)}}

---------------------------------------------------------------------------
(* The answer of the model: a sequence of entries, each with a thread, a   *)
(* severity in its words, and a headline and rationale one of which may be *)
(* blank.                                                                  *)

SeverityRank == [high |-> 0, medium |-> 1, low |-> 2]

(* parse_summary_response: one entry of another severity spoils the answer *)
Parses(answer) ==
  \A i \in DOMAIN answer : answer[i].severity \in DOMAIN SeverityRank

(* validate_drafts *)
ValidDrafts(threads, answer) ==
  /\ {answer[i].root : i \in DOMAIN answer} = {t.root : t \in threads}
  /\ \A i, j \in DOMAIN answer : answer[i].root = answer[j].root => i = j
  /\ \A i \in DOMAIN answer : ~answer[i].blank

(* summarize_with_provider, up to its grouping *)
Accepts(comments, answer) ==
  /\ comments # {}
  /\ Parses(answer)
  /\ ValidDrafts(Threads(comments), answer)

---------------------------------------------------------------------------
(* The summary: file groups, of severity buckets, of items.                *)

(* compare_file_groups *)
FileBefore(a, b) == b.file = General \/ (a.file # General /\ a.file <= b.file)

SeverityBefore(a, b) == SeverityRank[a.severity] <= SeverityRank[b.severity]

RootBefore(a, b) == a.root <= b.root

(* threads_by_root *)
ThreadOf(entry, comments) ==
  CHOOSE t \in Threads(comments) : t.root = entry.root

ItemOf(entry, comments) ==
  [root |-> entry.root, related |-> ThreadOf(entry, comments).related]

(* build_severity_buckets, of the entries about a file *)
Bucket(severity, entries, comments) ==
  [severity |-> severity,
   items |-> Sorted({ItemOf(entry, comments) :
                       entry \in {e \in entries : e.severity = severity}},
                    RootBefore)]

Group(file, entries, comments) ==
  LET here == {entry \in entries : ThreadOf(entry, comments).file = file}
  IN [file |-> file,
      buckets |-> Sorted({Bucket(entry.severity, here, comments) :
                            entry \in here},
                         SeverityBefore)]

(* group_summary_items *)
Summary(comments, answer) ==
  LET entries == {answer[i] : i \in DOMAIN answer}
  IN Sorted({Group(ThreadOf(entry, comments).file, entries, comments) :
               entry \in entries},
            FileBefore)

(* The items in the order of the summary (item_at, item_count). *)
Items(summary) ==
  LET OfFile(group) ==
        FlattenSeq([i \in DOMAIN group.buckets |-> group.buckets[i].items])
  IN FlattenSeq([i \in DOMAIN summary |-> OfFile(summary[i])])

(* What the view draws: a heading per file, one per bucket, and a row per  *)
(* item (render_lines).                                                    *)
Lines(summary) ==
  LET OfBucket(bucket) ==
        <<<<"Severity", bucket.severity>>>>
        \o [i \in DOMAIN bucket.items |-> <<"Item", bucket.items[i].root>>]
      OfFile(group) ==
        <<<<"File", group.file>>>> \o FlattenSeq([i \in DOMAIN group.buckets |->
                                    OfBucket(group.buckets[i])])
  IN FlattenSeq([i \in DOMAIN summary |-> OfFile(summary[i])])

(* row_index_for_item_in_bucket: where the count of rows and items gets to *)
(* at the end of a bucket, unless the item is in it or has been found.     *)
InBucket(item, at, bucket) ==
  IF at.found # None THEN at
  ELSE IF item < at.items + Len(bucket.items)
    THEN [at EXCEPT !.found = at.row + 1 + (item - at.items)]
    ELSE [at EXCEPT !.row = @ + 1 + Len(bucket.items),
                    !.items = @ + Len(bucket.items)]

InFile(item, at, group) ==
  LET after[n \in 0..Len(group.buckets)] ==
        IF n = 0 THEN [at EXCEPT !.row = @ + 1]
        ELSE InBucket(item, after[n - 1], group.buckets[n])
  IN after[Len(group.buckets)]

(* row_index_for_item *)
RowOfItem(summary, item) ==
  LET after[n \in 0..Len(summary)] ==
        IF n = 0 THEN [row |-> 0, items |-> 0, found |-> None]
        ELSE InFile(item, after[n - 1], summary[n])
  IN after[Len(summary)].found

---------------------------------------------------------------------------
(* The reference for threads: comments are in one discussion when replies  *)
(* lead from one to the other, in either direction, so that no group of    *)
(* comments that is closed under replies has only one of them.             *)
IsClosed(group, comments) ==
  \A id \in IdsOf(comments) :
    ParentOf(id, comments) \in IdsOf(comments) =>
      (id \in group <=> ParentOf(id, comments) \in group)

Joined(a, b, comments) ==
  \A group \in SUBSET IdsOf(comments) :
    IsClosed(group, comments) => (a \in group <=> b \in group)
===========================================================================
