---------------------------- MODULE DashboardHeader ----------------------------
(***************************************************************************)
(* The dashboard header of script.js: the search box, whose datalist is  *)
(* filled by searchAutofill with the names of the kind chosen in          *)
(* #searchSelect, and the draft-session counter, fetched on page load     *)
(* and again after every successful draft save (createsessionSave in      *)
(* createSession.js).  Every fetch is an asynchronous $.ajax / $.get:     *)
(* replies arrive in any order, and a failed autofill request calls no    *)
(* callback.  The server answers with its state when it handles the      *)
(* request; the reply can then be delayed.                                 *)
(***************************************************************************)
EXTENDS Naturals, Sequences, SequencesExt

CONSTANTS
  Kinds,          \* the options of #searchSelect
  MaxDrafts,      \* draft sessions the server can hold in the model
  MaxPending      \* requests in flight at once

VARIABLES
  selection,      \* $("#searchSelect").val()
  listKind,       \* whose names fill #searchList ("none" before any reply)
  pending,        \* requests in flight: [kind, reply]
  drafts,         \* draft sessions stored on the server
  countShown      \* text of #draftSessionCount

vars == <<selection, listKind, pending, drafts, countShown>>

\* the replies an autofill request and a count request carry
AutofillReply(k) == [kind |-> "autofill", names |-> k]
\* the page-load fetch has a .fail handler, the one after a save has none
CountReply(n, onLoad) == [kind |-> "count", n |-> n, onLoad |-> onLoad]

Send(r) ==
  /\ Len(pending) < MaxPending
  /\ pending' = Append(pending, r)

(***************************************************************************)
(* searchAutofill(), run on ready and on every change of #searchSelect:  *)
(* the switch picks the URL by the selection; the default case sends     *)
(* nothing.                                                                *)
(***************************************************************************)
searchAutofill(k) ==
  /\ selection' = k
  /\ Send(AutofillReply(k))
  /\ UNCHANGED <<listKind, drafts, countShown>>

\* the success callback removes every option and appends the reply's names
AutofillSuccess(i) ==
  /\ pending[i].kind = "autofill"
  /\ listKind' = pending[i].names
  /\ pending' = RemoveAt(pending, i)
  /\ UNCHANGED <<selection, drafts, countShown>>

\* the ajax call has no error handler
AutofillFails(i) ==
  /\ pending[i].kind = "autofill"
  /\ pending' = RemoveAt(pending, i)
  /\ UNCHANGED <<selection, listKind, drafts, countShown>>

(***************************************************************************)
(* A draft saved (createsessionSave, data.success): the server stores it *)
(* and the callback fetches /countdraftsessions.                           *)
(***************************************************************************)
DraftSaved ==
  /\ drafts < MaxDrafts
  /\ drafts' = drafts + 1
  /\ Send(CountReply(drafts + 1, FALSE))
  /\ UNCHANGED <<selection, listKind, countShown>>

\* the reply sets the counter; on page load .fail sets it to 0
CountSuccess(i) ==
  /\ pending[i].kind = "count"
  /\ countShown' = pending[i].n
  /\ pending' = RemoveAt(pending, i)
  /\ UNCHANGED <<selection, listKind, drafts>>

CountFails(i) ==
  /\ pending[i].kind = "count"
  /\ countShown' = IF pending[i].onLoad THEN 0 ELSE countShown
  /\ pending' = RemoveAt(pending, i)
  /\ UNCHANGED <<selection, listKind, drafts>>

(***************************************************************************)
(* Page load: the ready handlers of script.js call searchAutofill for the *)
(* initial selection and fetch the draft count.                            *)
(***************************************************************************)
Init ==
  /\ \E k \in Kinds : /\ selection = k
                      /\ pending = <<AutofillReply(k), CountReply(0, TRUE)>>
  /\ listKind = "none"
  /\ drafts = 0
  /\ countShown = 0

Next ==
  \/ \E k \in Kinds \ {selection} : searchAutofill(k)
  \/ DraftSaved
  \/ \E i \in DOMAIN pending :
       \/ AutofillSuccess(i) \/ AutofillFails(i)
       \/ CountSuccess(i) \/ CountFails(i)

Spec == Init /\ [][Next]_vars

(***************************************************************************)
(* Properties                                                              *)
(***************************************************************************)
TypeOK ==
  /\ selection \in Kinds /\ listKind \in Kinds \cup {"none"}
  /\ drafts \in 0..MaxDrafts /\ countShown \in 0..MaxDrafts

(* Once every autofill request has been answered, the suggestions are    *)
(* the names of the kind the search will look up.                          *)
SuggestionsMatchSelection ==
  (\A i \in DOMAIN pending : pending[i].kind # "autofill")
    => listKind \in {selection, "none"}
=============================================================================
