--------------------------- MODULE MCReplyDraft ---------------------------
(* Two comments; a letter and a space, two of which fill a draft; a        *)
(* template of one letter and an empty one; a model that answers within    *)
(* the limit or beyond it.                                                 *)
EXTENDS ReplyDraft

MCBlank     == {"_"}
MCChars     == {"a", "_"}
MCTemplates == {<<"a">>, <<>>}
MCOutputs   == {<<"a">>, <<"a", "a", "a">>}
===========================================================================
