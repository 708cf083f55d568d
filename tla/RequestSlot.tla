---------------------------- MODULE RequestSlot ----------------------------
(***************************************************************************)
(* What the numbered requests of the TUI promise, whatever they are for    *)
(* (in_flight_*_request_id in src/src/tui/app): of the requests made, only *)
(* the latest is open; an answer to it is shown, in whole or in part, at   *)
(* once; answers to others change nothing; and what is on show is          *)
(* therefore never replaced by something asked for before it.              *)
(*                                                                         *)
(* TimeTravel implements this for the discussion summary, Verification for *)
(* the verdicts on screen.                                                 *)
(***************************************************************************)
EXTENDS Option, Naturals

CONSTANTS
  Places   \* where answers are shown

NoneIsNoNumber == None \notin Nat

VARIABLES
  issued,  \* requests made so far
  open,    \* the number of the request that is waited for
  shown    \* for each place, that of the request answered there

slotVars == <<issued, open, shown>>

InitSlot ==
  /\ issued = 0
  /\ open = None
  /\ shown = [p \in Places |-> None]

Ask ==
  /\ issued' = issued + 1
  /\ open' = issued + 1
  /\ UNCHANGED shown

(* The answer is about these places.                                       *)
Answer(about) ==
  /\ open # None
  /\ shown' = [p \in Places |-> IF p \in about THEN open ELSE shown[p]]
  /\ open' = None
  /\ UNCHANGED issued

FailRequest ==
  /\ open # None
  /\ open' = None
  /\ UNCHANGED <<issued, shown>>

(* The program starts again, with nothing on show.                         *)
Restart ==
  /\ issued' = 0 /\ open' = None
  /\ shown' = [p \in Places |-> None]

NextSlot ==
  \/ Ask \/ FailRequest \/ Restart
  \/ \E about \in SUBSET Places : Answer(about)

SpecSlot == InitSlot /\ [][NextSlot]_slotVars

---------------------------------------------------------------------------
SlotTypeOK ==
  /\ issued \in Nat
  /\ open \in Nat \cup {None}
  /\ shown \in [Places -> Nat \cup {None}]

(* The open request is the latest, and later than all that is shown.       *)
OpenIsLatest ==
  /\ open # None => open = issued
  /\ \A p \in Places : shown[p] # None =>
       shown[p] <= issued /\ (open # None => shown[p] < open)

(* No place goes back to an earlier request, unless the program starts     *)
(* again (handle_verification_ready, handle_summary_ready).                *)
ShownNeverOlder ==
  [][issued' >= issued =>
       \A p \in Places :
         shown[p] # None /\ shown'[p] # None => shown'[p] >= shown[p]]_slotVars
============================================================================
