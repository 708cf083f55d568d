------------------------- MODULE ReplyDraftProofs -------------------------
(***************************************************************************)
(* The safety of reply drafting for every set of comments, every alphabet, *)
(* every limit and any number of rewrite requests.                         *)
(***************************************************************************)
EXTENDS ReplyDraft, SequenceTheorems, TLAPS

USE ReplyDraftAssumption

(* Ids are handed out once: those of tasks and of the request in flight    *)
(* are behind the counter.                                                 *)
IdsIssued ==
  /\ inFlight # None => inFlight < nextId
  /\ \A t \in tasks : t.id < nextId

(* What a preview offers came from the model. *)
PreviewFromModel == preview # None => preview.rewritten \in Outputs

IInv ==
  /\ TypeOK
  /\ IdsIssued
  /\ PreviewFromModel
  /\ PreviewIsCurrent
  /\ AwaitedAnswerIsCurrent
  /\ AwaitingExcludesPreview
  /\ LabelMeansModelOutput
  /\ SendableDraft

---------------------------------------------------------------------------
(* Appending and dropping a character, and joining two texts, give texts.  *)
LEMMA TextOps ==
  ASSUME NEW text \in Seq(Chars)
  PROVE  /\ \A c \in Chars : Append(text, c) \in Seq(Chars)
         /\ \A suffix \in Seq(Chars) : text \o suffix \in Seq(Chars)
         /\ text # <<>> =>
              LET shorter == SubSeq(text, 1, Len(text) - 1)
              IN  shorter \in Seq(Chars) /\ (Fits(text) => Fits(shorter))
<1>1. \A c \in Chars : Append(text, c) \in Seq(Chars)
  OBVIOUS
<1>2. \A suffix \in Seq(Chars) : text \o suffix \in Seq(Chars)
  BY ConcatProperties
<1>3. ASSUME text # <<>>
      PROVE  LET shorter == SubSeq(text, 1, Len(text) - 1)
             IN  shorter \in Seq(Chars) /\ (Fits(text) => Fits(shorter))
  <2>1. Len(text) \in Nat /\ Len(text) > 0
    BY <1>3, EmptySeq, LenProperties
  <2> DEFINE n == Len(text) - 1
  <2>2. n \in Int /\ n >= 0 /\ \A i \in 1..n : text[i] \in Chars
    BY <2>1, ElementOfSeq
  <2> HIDE DEF n
  <2>3. /\ SubSeq(text, 1, n) \in Seq(Chars)
        /\ Len(SubSeq(text, 1, n)) = IF 1 <= n THEN n - 1 + 1 ELSE 0
    BY <2>2, SubSeqProperties
  <2>4. QED
    BY <2>1, <2>2, <2>3 DEF Fits, n
<1>4. QED
  BY <1>1, <1>2, <1>3

(* An edited draft is a draft, carries no mark, and fits if its text does. *)
LEMMA ManualEditDraft ==
  ASSUME draft \in Draft, NEW text \in Seq(Chars)
  PROVE  /\ ManualEdit(text) \in Draft
         /\ ManualEdit(text).text = text
         /\ ManualEdit(text).comment = draft.comment
         /\ ManualEdit(text).origin = FALSE
         /\ ManualEdit(text).ready = FALSE
  BY DEF ManualEdit, Draft

(* Installing a well-formed draft, or none, as an edit keeps the invariant. *)
LEMMA CommitEditKeepsIInv ==
  ASSUME IInv, NEW d \in Draft \cup {None}, CommitEdit(d),
         UNCHANGED <<listVars, nextId, tasks>>,
         d # None => /\ Fits(d.text)
                     /\ d.ready => ~IsBlank(d.text)
                     /\ d.origin => d.text \in Outputs
  PROVE  IInv'
<1> USE DEF IInv, CommitEdit, listVars
<1>1. TypeOK'
  BY DEF TypeOK
<1>2. IdsIssued' /\ PreviewFromModel' /\ PreviewIsCurrent'
  BY DEF IdsIssued, PreviewFromModel, PreviewIsCurrent
<1>3. AwaitedAnswerIsCurrent'
  BY DEF AwaitedAnswerIsCurrent, TypeOK, Task
<1>4. AwaitingExcludesPreview'
  BY DEF AwaitingExcludesPreview
<1>5. LabelMeansModelOutput' /\ SendableDraft'
  BY DEF LabelMeansModelOutput, SendableDraft, Fits, IsBlank
<1>6. QED
  BY <1>1, <1>2, <1>3, <1>4, <1>5

(* A refused edit only raises the banner. *)
LEMMA RejectEditKeepsIInv ==
  ASSUME IInv, RejectEdit, UNCHANGED <<listVars, nextId, tasks>>
  PROVE  IInv'
  BY DEF IInv, RejectEdit, draftVars, listVars, TypeOK, IdsIssued,
         PreviewFromModel, PreviewIsCurrent, AwaitedAnswerIsCurrent,
         AwaitingExcludesPreview, LabelMeansModelOutput, SendableDraft, Fits,
         IsBlank

(* Nothing in the invariant but the types speaks of the list or the view.  *)
LEMMA DraftUntouched ==
  ASSUME IInv, TypeOK', UNCHANGED <<draftVars, nextId, tasks>>
  PROVE  IInv'
  BY DEF IInv, draftVars, IdsIssued, PreviewFromModel, PreviewIsCurrent,
         AwaitedAnswerIsCurrent, AwaitingExcludesPreview,
         LabelMeansModelOutput, SendableDraft, Fits, IsBlank

---------------------------------------------------------------------------
(* The invariant holds at start-up. *)
LEMMA InitIInv == Init => IInv
<1> SUFFICES ASSUME Init PROVE IInv
  OBVIOUS
<1>1. TypeOK
  BY DEF Init, TypeOK
<1>2. IdsIssued /\ PreviewFromModel /\ PreviewIsCurrent
  BY DEF Init, IdsIssued, PreviewFromModel, PreviewIsCurrent
<1>3. AwaitedAnswerIsCurrent /\ AwaitingExcludesPreview
  BY DEF Init, AwaitedAnswerIsCurrent, AwaitingExcludesPreview
<1>4. LabelMeansModelOutput /\ SendableDraft
  BY DEF Init, LabelMeansModelOutput, SendableDraft
<1>5. QED
  BY <1>1, <1>2, <1>3, <1>4 DEF IInv

(* Editing keeps the invariant: every edit drops preview and request. *)
LEMMA DraftEditKeepsIInv == IInv /\ DraftEdit => IInv'
<1> SUFFICES ASSUME IInv, DraftEdit PROVE IInv'
  OBVIOUS
<1>0. TypeOK /\ (DraftKeys => draft \in Draft)
  BY DEF IInv, TypeOK, DraftKeys, HasActiveDraft
<1>1. ASSUME StartReplyDraft PROVE IInv'
  <2>1. CASE selected = None
    BY <1>1, <2>1, RejectEditKeepsIInv DEF StartReplyDraft
  <2>2. CASE selected # None
    <3> DEFINE d == [comment |-> selected, text |-> <<>>, origin |-> FALSE,
                     ready |-> FALSE]
    <3>1. d \in Draft /\ Fits(d.text)
      BY <1>0, <2>2 DEF TypeOK, Draft, Fits
    <3>2. CommitEdit(d) /\ UNCHANGED <<listVars, nextId, tasks>>
      BY <1>1, <2>2 DEF StartReplyDraft
    <3> HIDE DEF d
    <3>3. d.ready = FALSE /\ d.origin = FALSE
      BY DEF d
    <3>4. QED
      BY <3>1, <3>2, <3>3, CommitEditKeepsIInv
  <2>3. QED
    BY <2>1, <2>2
<1>2. ASSUME Backspace PROVE IInv'
  <2> DEFINE text == IF draft.text = <<>> THEN <<>>
                     ELSE SubSeq(draft.text, 1, Len(draft.text) - 1)
  <2>1. draft \in Draft /\ CommitEdit(ManualEdit(text))
        /\ UNCHANGED <<listVars, nextId, tasks>>
    BY <1>0, <1>2 DEF Backspace
  <2>2. draft.text \in Seq(Chars) /\ Fits(draft.text)
    BY <2>1 DEF Draft, IInv, SendableDraft
  <2>3. text \in Seq(Chars) /\ Fits(text)
    BY <2>2, TextOps DEF Fits
  <2> HIDE DEF text
  <2>4. QED
    BY <2>1, <2>3, ManualEditDraft, CommitEditKeepsIInv
<1>3. ASSUME RequestSend PROVE IInv'
  <2>1. draft \in Draft /\ UNCHANGED <<listVars, nextId, tasks>>
    BY <1>0, <1>3 DEF RequestSend
  <2>2. CASE ~IsBlank(draft.text) /\ Fits(draft.text)
    <3> DEFINE d == [draft EXCEPT !.ready = TRUE]
    <3>1. CommitEdit(d) /\ d \in Draft /\ d.text = draft.text
          /\ d.origin = draft.origin
      BY <1>3, <2>1, <2>2 DEF RequestSend, Draft
    <3> HIDE DEF d
    <3>2. d.origin => d.text \in Outputs
      BY <2>1, <3>1 DEF IInv, LabelMeansModelOutput
    <3>3. QED
      BY <2>1, <2>2, <3>1, <3>2, CommitEditKeepsIInv
  <2>3. CASE ~(~IsBlank(draft.text) /\ Fits(draft.text))
    BY <1>3, <2>3, RejectEditKeepsIInv DEF RequestSend
  <2>4. QED
    BY <2>2, <2>3
<1>4. ASSUME CancelReplyDraft PROVE IInv'
  BY <1>4, CommitEditKeepsIInv DEF CancelReplyDraft
<1>5. ASSUME InsertTemplateFails PROVE IInv'
  BY <1>5, RejectEditKeepsIInv DEF InsertTemplateFails
<1>6. ASSUME NEW c \in Chars, InsertChar(c) PROVE IInv'
  <2>1. draft \in Draft /\ UNCHANGED <<listVars, nextId, tasks>>
    BY <1>0, <1>6 DEF InsertChar
  <2>2. Append(draft.text, c) \in Seq(Chars)
    BY <2>1, TextOps DEF Draft
  <2>3. CASE Fits(Append(draft.text, c))
    <3>1. CommitEdit(ManualEdit(Append(draft.text, c)))
      BY <1>6, <2>3 DEF InsertChar
    <3>2. QED
      BY <2>1, <2>2, <2>3, <3>1, ManualEditDraft, CommitEditKeepsIInv
  <2>4. CASE ~Fits(Append(draft.text, c))
    BY <1>6, <2>1, <2>4, RejectEditKeepsIInv DEF InsertChar
  <2>5. QED
    BY <2>3, <2>4
<1>7. ASSUME NEW suffix \in Templates, InsertTemplate(suffix) PROVE IInv'
  <2>1. /\ draft \in Draft /\ AppendText(suffix)
        /\ UNCHANGED <<listVars, nextId, tasks>>
    BY <1>0, <1>7 DEF InsertTemplate
  <2>2. draft.text \o suffix \in Seq(Chars)
    BY <2>1, TextOps DEF Draft
  <2>3. CASE suffix = <<>>
    <3>1. CommitEdit(draft)
      BY <2>1, <2>3 DEF AppendText
    <3>2. /\ Fits(draft.text)
          /\ draft.ready => ~IsBlank(draft.text)
          /\ draft.origin => draft.text \in Outputs
      BY <2>1 DEF IInv, SendableDraft, LabelMeansModelOutput
    <3>3. QED
      BY <2>1, <3>1, <3>2, CommitEditKeepsIInv
  <2>4. CASE suffix # <<>> /\ Fits(draft.text \o suffix)
    <3>1. CommitEdit(ManualEdit(draft.text \o suffix))
      BY <2>1, <2>4 DEF AppendText
    <3>2. QED
      BY <2>1, <2>2, <2>4, <3>1, ManualEditDraft, CommitEditKeepsIInv
  <2>5. CASE suffix # <<>> /\ ~Fits(draft.text \o suffix)
    BY <2>1, <2>5, RejectEditKeepsIInv DEF AppendText
  <2>6. QED
    BY <2>3, <2>4, <2>5
<1>8. QED
  BY <1>1, <1>2, <1>3, <1>4, <1>5, <1>6, <1>7 DEF DraftEdit

(* Asking, answering, applying and discarding keep it: ids are fresh. *)
LEMMA AiMessageKeepsIInv == IInv /\ AiMessage => IInv'
<1> SUFFICES ASSUME IInv, AiMessage PROVE IInv'
  OBVIOUS
<1>0. TypeOK /\ (DraftKeys => draft \in Draft /\ selected \in CommentIds)
  BY DEF IInv, TypeOK, DraftKeys, HasActiveDraft
<1>1. ASSUME RequestAiRewrite PROVE IInv'
  <2>1. CASE IsBlank(draft.text)
    BY <1>1, <2>1, RejectEditKeepsIInv DEF RequestAiRewrite
  <2>2. CASE ~IsBlank(draft.text)
    <3> DEFINE task == [id |-> nextId, comment |-> selected,
                        source |-> draft.text]
    <3>1. /\ tasks' = tasks \cup {task}
          /\ nextId' = nextId + 1 /\ inFlight' = nextId
          /\ preview' = None /\ error' = FALSE /\ draft' = draft
          /\ UNCHANGED listVars
      BY <1>1, <2>2 DEF RequestAiRewrite
    <3>2. draft \in Draft /\ draft # None /\ draft.comment = selected
          /\ task \in Task
      BY <1>0, <1>1 DEF RequestAiRewrite, DraftKeys, HasActiveDraft, Draft,
                        Task, TypeOK
    <3> HIDE DEF task
    <3>3. TypeOK'
      <4>1. tasks' \subseteq Task
        BY <1>0, <3>1, <3>2 DEF TypeOK
      <4>2. nextId' \in Nat /\ inFlight' \in Nat \cup {None}
        BY <1>0, <3>1 DEF TypeOK
      <4>3. QED
        BY <1>0, <3>1, <4>1, <4>2 DEF TypeOK, listVars
    <3>4. IdsIssued' /\ PreviewFromModel' /\ PreviewIsCurrent'
      <4>1. \A t \in tasks : t.id < nextId /\ t.id \in Nat
        BY <1>0 DEF IInv, IdsIssued, TypeOK, Task
      <4>2. QED
        BY <1>0, <3>1, <4>1 DEF TypeOK, IdsIssued, PreviewFromModel,
                                PreviewIsCurrent, task
    <3>5. AwaitedAnswerIsCurrent'
      <4>1. \A t \in tasks : t.id # nextId
        BY <1>0 DEF IInv, IdsIssued, TypeOK, Task
      <4>2. QED
        BY <3>1, <3>2, <4>1 DEF AwaitedAnswerIsCurrent, task
    <3>6. AwaitingExcludesPreview' /\ LabelMeansModelOutput' /\ SendableDraft'
      BY <3>1 DEF IInv, AwaitingExcludesPreview, LabelMeansModelOutput,
                  SendableDraft, Fits, IsBlank
    <3>7. QED
      BY <3>3, <3>4, <3>5, <3>6 DEF IInv
  <2>3. QED
    BY <2>1, <2>2
<1>2. ASSUME ApplyAiRewrite PROVE IInv'
  <2>1. CASE preview # None /\ Fits(preview.rewritten)
    <3> DEFINE d == [draft EXCEPT !.text = preview.rewritten,
                                  !.origin = TRUE, !.ready = FALSE]
    <3>1. /\ draft' = d /\ preview' = None /\ error' = FALSE
          /\ UNCHANGED <<inFlight, listVars, nextId, tasks>>
      BY <1>2, <2>1 DEF ApplyAiRewrite
    <3>2. /\ d \in Draft /\ d.text = preview.rewritten
          /\ d.ready = FALSE /\ d.text \in Outputs
      BY <1>0, <1>2, <2>1 DEF ApplyAiRewrite, IInv, TypeOK, Draft, Preview,
                              PreviewFromModel
    <3> HIDE DEF d
    <3>3. inFlight = None
      BY <2>1 DEF IInv, AwaitingExcludesPreview
    <3>4. TypeOK'
      BY <1>0, <3>1, <3>2 DEF TypeOK, listVars
    <3>5. IdsIssued' /\ PreviewFromModel' /\ PreviewIsCurrent'
      BY <3>1 DEF IInv, IdsIssued, PreviewFromModel, PreviewIsCurrent
    <3>6. AwaitedAnswerIsCurrent' /\ AwaitingExcludesPreview'
      BY <1>0, <3>1, <3>3 DEF TypeOK, Task, AwaitedAnswerIsCurrent,
                              AwaitingExcludesPreview
    <3>7. LabelMeansModelOutput' /\ SendableDraft'
      BY <2>1, <3>1, <3>2 DEF LabelMeansModelOutput, SendableDraft, Fits
    <3>8. QED
      BY <3>4, <3>5, <3>6, <3>7 DEF IInv
  <2>2. CASE ~(preview # None /\ Fits(preview.rewritten))
    BY <1>2, <2>2, RejectEditKeepsIInv DEF ApplyAiRewrite
  <2>3. QED
    BY <2>1, <2>2
<1>3. ASSUME DiscardAiRewrite PROVE IInv'
  BY <1>0, <1>3 DEF DiscardAiRewrite, listVars, IInv, TypeOK, IdsIssued,
     PreviewFromModel, PreviewIsCurrent, AwaitedAnswerIsCurrent,
     AwaitingExcludesPreview, LabelMeansModelOutput, SendableDraft, Fits,
     IsBlank
<1>4. ASSUME NEW t \in tasks, AiRewriteReady(t) PROVE IInv'
  <2>1. /\ tasks' = tasks \ {t} /\ UNCHANGED <<listVars, nextId>>
        /\ tasks' \subseteq tasks
    BY <1>4 DEF AiRewriteReady
  <2>2. ASSUME UNCHANGED <<draftVars, error>> PROVE IInv'
    BY <2>1, <2>2 DEF draftVars, listVars, IInv, TypeOK, IdsIssued,
       PreviewFromModel, PreviewIsCurrent, AwaitedAnswerIsCurrent,
       AwaitingExcludesPreview, LabelMeansModelOutput, SendableDraft, Fits,
       IsBlank
  <2>3. ASSUME NEW output \in Outputs, AcceptGenerated(output),
               inFlight = t.id
        PROVE  IInv'
    <3>1. preview = None
      BY <1>0, <2>3 DEF IInv, AwaitingExcludesPreview, TypeOK, Task
    <3>2. /\ inFlight' = None /\ draft' = draft /\ error' \in BOOLEAN
          /\ \/ preview' = None
             \/ /\ draft # None
                /\ preview' = [original |-> draft.text, rewritten |-> output]
      BY <2>3, <3>1 DEF AcceptGenerated, HasActiveDraft
    <3>3. draft # None => draft \in Draft /\ draft.text \in Seq(Chars)
      BY <1>0 DEF TypeOK, Draft
    <3>4. preview' \in Preview \cup {None}
      <4>1. output \in Seq(Chars)
        OBVIOUS
      <4>2. QED
        BY <3>2, <3>3, <4>1 DEF Preview
    <3>5. TypeOK'
      BY <1>0, <2>1, <3>2, <3>4 DEF TypeOK, listVars
    <3>6. IdsIssued' /\ AwaitedAnswerIsCurrent' /\ AwaitingExcludesPreview'
      BY <1>0, <2>1, <3>2 DEF TypeOK, Task, IInv, IdsIssued,
         AwaitedAnswerIsCurrent, AwaitingExcludesPreview
    <3>7. PreviewFromModel' /\ PreviewIsCurrent'
      BY <3>2 DEF PreviewFromModel, PreviewIsCurrent
    <3>8. LabelMeansModelOutput' /\ SendableDraft'
      BY <3>2 DEF IInv, LabelMeansModelOutput, SendableDraft, Fits, IsBlank
    <3>9. QED
      BY <3>5, <3>6, <3>7, <3>8 DEF IInv
  <2>4. ASSUME AcceptFallback PROVE IInv'
    BY <1>0, <2>1, <2>4 DEF AcceptFallback, draftVars, listVars, IInv, TypeOK,
       Task, IdsIssued, PreviewFromModel, PreviewIsCurrent,
       AwaitedAnswerIsCurrent, AwaitingExcludesPreview,
       LabelMeansModelOutput, SendableDraft, Fits, IsBlank
  <2>5. QED
    BY <1>4, <2>2, <2>3, <2>4 DEF AiRewriteReady
<1>5. QED
  BY <1>1, <1>2, <1>3, <1>4 DEF AiMessage

(* Syncs, filters and views leave the draft alone. *)
LEMMA EnvironmentKeepsIInv == IInv /\ Environment => IInv'
<1> SUFFICES ASSUME IInv, Environment PROVE IInv'
  OBVIOUS
<1>1. TypeOK
  BY DEF IInv
<1>2. UNCHANGED <<draftVars, nextId, tasks>>
  BY DEF Environment, SyncReplacesReviews, Navigate, ChangeFilter, OpenDetail,
     CloseDetail, RequestSummary, SummaryArrives, HideSummary, OpenSummaryLink
<1>3. /\ visible' \subseteq CommentIds
      /\ selected' \in CommentIds \cup {None}
      /\ view' \in {"ReviewList", "Detail", "PrDiscussionSummary"}
      /\ summary' \in {"Absent", "Due", "Held"}
      /\ error' \in BOOLEAN
  BY <1>1 DEF TypeOK, Under, Environment, SyncReplacesReviews, Navigate,
     ChangeFilter, OpenDetail, CloseDetail, RequestSummary, SummaryArrives,
     HideSummary, OpenSummaryLink
<1>4. TypeOK'
  BY <1>1, <1>2, <1>3 DEF TypeOK, draftVars
<1>5. QED
  BY <1>2, <1>4, DraftUntouched

(* IInv is inductive. *)
LEMMA Invariance == IInv /\ [Next]_vars => IInv'
<1>1. ASSUME IInv, UNCHANGED vars PROVE IInv'
  BY <1>1, DraftUntouched DEF vars, listVars, draftVars, IInv, TypeOK
<1>2. QED
  BY <1>1, DraftEditKeepsIInv, AiMessageKeepsIInv, EnvironmentKeepsIInv
     DEF Next

(* The inductive invariant holds in every reachable state of the drafting  *)
(* handlers, for every size of the constants.                              *)
THEOREM InductiveInvariant == Spec => []IInv
  BY InitIInv, Invariance, PTL DEF Spec

---------------------------------------------------------------------------
(* Every variable keeps its type. *)
THEOREM TypeCorrect == Spec => []TypeOK
  BY InductiveInvariant, PTL DEF IInv

(* A preview on screen always compares the rewrite with the text the draft *)
(* holds now.                                                              *)
THEOREM PreviewSafety == Spec => []PreviewIsCurrent
  BY InductiveInvariant, PTL DEF IInv

(* Whatever the user did since asking, an answer that will still be        *)
(* accepted was asked about the draft as it is.                            *)
THEOREM StaleAnswersAreRefused == Spec => []AwaitedAnswerIsCurrent
  BY InductiveInvariant, PTL DEF IInv

(* Waiting and previewing exclude each other. *)
THEOREM AwaitingXorPreview == Spec => []AwaitingExcludesPreview
  BY InductiveInvariant, PTL DEF IInv

(* The provenance label is worn by unedited model output alone. *)
THEOREM LabelSafety == Spec => []LabelMeansModelOutput
  BY InductiveInvariant, PTL DEF IInv

(* The length limit and the meaning of readiness hold from every source.   *)
THEOREM DraftLimits == Spec => []SendableDraft
  BY InductiveInvariant, PTL DEF IInv

(* Readiness never survives a change of the text it was given for.         *)
THEOREM ReadinessNeverOutlivesItsText == Spec => ReadinessIsPerText
<1>1. ASSUME IInv, [Next]_vars,
             draft # None, draft' # None, draft'.ready
      PROVE  draft'.text = draft.text /\ draft'.comment = draft.comment
  <2> USE <1>1
  <2>0. draft \in Draft
    BY DEF IInv, TypeOK
  <2>1. CASE UNCHANGED draft
    BY <2>1
  <2>2. CASE DraftEdit
    <3>1. ASSUME NEW text PROVE ManualEdit(text).ready = FALSE
      BY <2>0 DEF ManualEdit, Draft
    <3>2. ~StartReplyDraft \/ UNCHANGED draft
      BY DEF StartReplyDraft, CommitEdit, RejectEdit, draftVars
    <3>3. ~Backspace
      BY <3>1 DEF Backspace, CommitEdit
    <3>4. RequestSend => /\ draft'.text = draft.text
                         /\ draft'.comment = draft.comment
      BY <2>0 DEF RequestSend, CommitEdit, RejectEdit, draftVars, Draft
    <3>5. ~CancelReplyDraft
      BY DEF CancelReplyDraft, CommitEdit
    <3>6. InsertTemplateFails => UNCHANGED draft
      BY DEF InsertTemplateFails, RejectEdit, draftVars
    <3>7. \A c \in Chars : InsertChar(c) => UNCHANGED draft
      BY <3>1 DEF InsertChar, CommitEdit, RejectEdit, draftVars
    <3>8. \A text \in Templates : InsertTemplate(text) => UNCHANGED draft
      BY <3>1 DEF InsertTemplate, AppendText, CommitEdit, RejectEdit,
                  draftVars
    <3>9. QED
      BY <2>2, <3>2, <3>3, <3>4, <3>5, <3>6, <3>7, <3>8 DEF DraftEdit
  <2>3. CASE AiMessage
    <3>1. ApplyAiRewrite => UNCHANGED draft
      BY <2>0 DEF ApplyAiRewrite, RejectEdit, draftVars, Draft
    <3>2. RequestAiRewrite \/ DiscardAiRewrite => UNCHANGED draft
      BY DEF RequestAiRewrite, DiscardAiRewrite, RejectEdit, draftVars
    <3>3. \A t \in tasks : AiRewriteReady(t) => UNCHANGED draft
      BY DEF AiRewriteReady, AcceptGenerated, AcceptFallback, draftVars
    <3>4. QED
      BY <2>3, <3>1, <3>2, <3>3 DEF AiMessage
  <2>4. CASE Environment
    BY <2>4 DEF Environment, SyncReplacesReviews, Navigate, ChangeFilter,
       OpenDetail, CloseDetail, RequestSummary, SummaryArrives, HideSummary,
       OpenSummaryLink, draftVars
  <2>5. QED
    BY <2>1, <2>2, <2>3, <2>4 DEF Next, vars, draftVars
<1>2. QED
  BY <1>1, InductiveInvariant, PTL DEF Spec, ReadinessIsPerText
===========================================================================
