----------------------------- MODULE SessionForm -----------------------------
(***************************************************************************)
(* The create-session form of the dashboard (createSession.js).  The add *)
(* and delete buttons of the peer, vertical and column tables send the    *)
(* serialized form to /organization/addrow or /deleterow and replace      *)
(* <main> with the page the server renders; Save posts the form and, on  *)
(* success, records the serialization that the unload warning compares    *)
(* against; Submit validates and posts.  Requests are asynchronous: any   *)
(* number may be in flight, their responses arrive in any order, and a   *)
(* failed $.get or $.post never calls its callback.                        *)
(*                                                                         *)
(* The form is abstracted to what serialize() sends: the peer rows and,   *)
(* per vertical, its column rows, each a text input.  The server is not   *)
(* in this repository; it is assumed to render the submitted form with    *)
(* the row added (empty) or removed.                                       *)
(***************************************************************************)
EXTENDS Integers, Sequences, SequencesExt

CONSTANTS
  Texts,          \* values a text input can hold; "" is an empty input
  InitForm,       \* the form the page was loaded with (the stored draft)
  MaxPeers, MaxVerticals, MaxColumns,   \* add buttons modelled below these
  MaxInFlight,    \* requests in flight at once
  Studies         \* the stored studies /organization/allsessionnames lists

ASSUME "" \in Texts

Form == [peers : Seq(Texts), verticals : Seq(Seq(Texts))]

ASSUME Studies \subseteq Form

VARIABLES
  form,           \* what $("main form").serialize() returns
  inflight,       \* requests sent and not yet answered
  formData,       \* createSessionFormData
  saved,          \* the draft the server holds
  guarded,        \* window.onbeforeunload is the dirty check (not a no-op)
  submitted,      \* the form was posted and the page is left
  studiesLoaded,  \* the import <select> has been filled with the studies
  intended        \* history: the form with every change the user made

vars == <<form, inflight, formData, saved, guarded, submitted, studiesLoaded,
          intended>>

(***************************************************************************)
(* The server's addrow / deleterow: the submitted form with one row      *)
(* added at the end of its section, or removed.                            *)
(***************************************************************************)
ApplyRowOp(op, f) ==
  CASE op.kind = "addPeer"        -> [f EXCEPT !.peers = Append(@, "")]
    [] op.kind = "addVertical"    -> [f EXCEPT !.verticals = Append(@, <<>>)]
    [] op.kind = "addColumn"      -> [f EXCEPT !.verticals[op.v] = Append(@, "")]
    [] op.kind = "deletePeer"     -> [f EXCEPT !.peers = RemoveAt(@, op.i)]
    [] op.kind = "deleteVertical" -> [f EXCEPT !.verticals = RemoveAt(@, op.i)]
    [] op.kind = "deleteColumn"   -> [f EXCEPT !.verticals[op.v] = RemoveAt(@, op.i)]

\* ops whose target row no longer exists leave the intended form alone
Applicable(op, f) ==
  CASE op.kind = "deletePeer"     -> op.i \in DOMAIN f.peers
    [] op.kind = "deleteVertical" -> op.i \in DOMAIN f.verticals
    [] op.kind = "addColumn"      -> op.v \in DOMAIN f.verticals
    [] op.kind = "deleteColumn"   -> op.v \in DOMAIN f.verticals
                                     /\ op.i \in DOMAIN f.verticals[op.v]
    [] OTHER                      -> TRUE

Intend(op, f) == IF Applicable(op, f) THEN ApplyRowOp(op, f) ELSE f

(***************************************************************************)
(* The row buttons the rendered form offers, and the operation each sends.*)
(* The delete buttons open a confirmation dialog whose OK sends.           *)
(***************************************************************************)
RowOps ==
  (IF Len(form.peers) < MaxPeers THEN {[kind |-> "addPeer"]} ELSE {})
  \cup (IF Len(form.verticals) < MaxVerticals THEN {[kind |-> "addVertical"]} ELSE {})
  \cup { [kind |-> "addColumn", v |-> v] :
           v \in {u \in DOMAIN form.verticals : Len(form.verticals[u]) < MaxColumns} }
  \cup { [kind |-> "deletePeer", i |-> i] : i \in DOMAIN form.peers }
  \cup { [kind |-> "deleteVertical", i |-> i] : i \in DOMAIN form.verticals }
  \cup UNION { { [kind |-> "deleteColumn", v |-> v, i |-> i] :
                   i \in DOMAIN form.verticals[v] } : v \in DOMAIN form.verticals }

(***************************************************************************)
(* addPeer, addVertical, addColumn, and the OK of deletePeer,             *)
(* deleteVertical and deleteColumn: $.get with the current serialization. *)
(***************************************************************************)
SendRowRequest(op) ==
  /\ ~submitted
  /\ Len(inflight) < MaxInFlight
  /\ inflight' = Append(inflight, [kind |-> "row", op |-> op, snap |-> form])
  /\ UNCHANGED <<form, formData, saved, guarded, submitted, studiesLoaded, intended>>

(***************************************************************************)
(* The success callback: <main> becomes the server's render, and          *)
(* $.getScript re-runs createSession.js, which assigns the dirty-check    *)
(* window.onbeforeunload again (var createSessionFormData keeps its       *)
(* value).  The page link and ordinal options it refreshes are display.  *)
(***************************************************************************)
RowResponse(k) ==
  /\ inflight[k].kind = "row"
  /\ ~submitted
  /\ form' = ApplyRowOp(inflight[k].op, inflight[k].snap)
  /\ guarded' = TRUE
  /\ intended' = Intend(inflight[k].op, intended)
  /\ inflight' = RemoveAt(inflight, k)
  /\ UNCHANGED <<formData, saved, submitted, studiesLoaded>>

\* a request that fails: jQuery calls no callback, nothing changes
RequestFails(k) ==
  /\ inflight' = RemoveAt(inflight, k)
  /\ UNCHANGED <<form, formData, saved, guarded, submitted, studiesLoaded, intended>>

\* createsessionSave: $.post of the serialization
SaveRequest ==
  /\ ~submitted
  /\ Len(inflight) < MaxInFlight
  /\ inflight' = Append(inflight, [kind |-> "save", snap |-> form])
  /\ UNCHANGED <<form, formData, saved, guarded, submitted, studiesLoaded, intended>>

(***************************************************************************)
(* The save callback: on data.success the server holds the posted form   *)
(* and createSessionFormData becomes the serialization of the form as it *)
(* is now; otherwise an error message is appended.                         *)
(***************************************************************************)
SaveResponse(k, ok) ==
  /\ inflight[k].kind = "save"
  /\ ~submitted
  /\ IF ok THEN /\ saved' = inflight[k].snap
                /\ formData' = form
           ELSE UNCHANGED <<saved, formData>>
  /\ inflight' = RemoveAt(inflight, k)
  /\ UNCHANGED <<form, guarded, submitted, studiesLoaded, intended>>

\* typing into a text input
Edit(f) ==
  /\ ~submitted
  /\ form' = f
  /\ intended' = f
  /\ UNCHANGED <<inflight, formData, saved, guarded, submitted, studiesLoaded>>

Edits ==
  { [form EXCEPT !.peers[i] = t] : i \in DOMAIN form.peers, t \in Texts }
  \cup UNION { { [form EXCEPT !.verticals[v][i] = t] :
                   i \in DOMAIN form.verticals[v], t \in Texts } :
               v \in DOMAIN form.verticals }

(***************************************************************************)
(* window.onbeforeunload as createSession.js assigns it: leaving the page *)
(* asks for confirmation when the serialization differs from              *)
(* createSessionFormData.  Submit replaces it with a handler that returns *)
(* nothing, which never asks.                                              *)
(***************************************************************************)
onbeforeunload == guarded /\ formData # form

(***************************************************************************)
(* createsessionSubmit: the unload warning is switched off first; the     *)
(* form is posted only if every vertical has a column, there is a peer    *)
(* and no column or organization name is empty.                            *)
(***************************************************************************)
Valid(f) ==
  /\ Len(f.peers) >= 1
  /\ \A v \in DOMAIN f.verticals : Len(f.verticals[v]) >= 1
  /\ \A i \in DOMAIN f.peers : f.peers[i] # ""
  /\ \A v \in DOMAIN f.verticals : \A i \in DOMAIN f.verticals[v] :
       f.verticals[v][i] # ""

createsessionSubmit ==
  /\ ~submitted
  /\ guarded' = FALSE
  /\ submitted' = Valid(form)
  /\ UNCHANGED <<form, inflight, formData, saved, studiesLoaded, intended>>

(***************************************************************************)
(* The study import.  On page load $.ajax fetches the stored study names; *)
(* on success the <select> is filled, or the import table is removed     *)
(* when there are none.                                                    *)
(***************************************************************************)
StudiesResponse(k) ==
  /\ inflight[k].kind = "studies"
  /\ ~submitted
  /\ studiesLoaded' = (Studies # {})
  /\ inflight' = RemoveAt(inflight, k)
  /\ UNCHANGED <<form, formData, saved, guarded, submitted, intended>>

\* importExistingPrivateStudiesButton: $.get with the selected study only
ImportRequest(study) ==
  /\ ~submitted
  /\ studiesLoaded
  /\ Len(inflight) < MaxInFlight
  /\ inflight' = Append(inflight, [kind |-> "import", study |-> study])
  /\ UNCHANGED <<form, formData, saved, guarded, submitted, studiesLoaded, intended>>

(***************************************************************************)
(* Its success callback: <main> becomes the server's render of the study *)
(* (the session name and about text, not modelled, are put back) and    *)
(* $.getScript re-runs createSession.js, re-arming the dirty check.  The  *)
(* statusTxt tests are moot: the callback runs only on success.  The     *)
(* re-run also fetches the study names again; the list is the same, so   *)
(* the refetch is not modelled.                                            *)
(***************************************************************************)
ImportResponse(k) ==
  /\ inflight[k].kind = "import"
  /\ ~submitted
  /\ form' = inflight[k].study
  /\ guarded' = TRUE
  /\ intended' = inflight[k].study
  /\ inflight' = RemoveAt(inflight, k)
  /\ UNCHANGED <<formData, saved, submitted, studiesLoaded>>

Init ==
  /\ form = InitForm
  /\ inflight = <<[kind |-> "studies"]>>
  /\ formData = InitForm
  /\ saved = InitForm
  /\ guarded = TRUE
  /\ submitted = FALSE
  /\ studiesLoaded = FALSE
  /\ intended = InitForm

Next ==
  \/ \E op \in RowOps : SendRowRequest(op)
  \/ \E k \in DOMAIN inflight : RowResponse(k) \/ RequestFails(k)
  \/ SaveRequest
  \/ \E k \in DOMAIN inflight, ok \in BOOLEAN : SaveResponse(k, ok)
  \/ \E f \in Edits \ {form} : Edit(f)
  \/ createsessionSubmit
  \/ \E k \in DOMAIN inflight : StudiesResponse(k) \/ ImportResponse(k)
  \/ \E study \in Studies : ImportRequest(study)

Spec == Init /\ [][Next]_vars

(***************************************************************************)
(* Properties                                                              *)
(***************************************************************************)
TypeOK ==
  /\ form \in Form /\ saved \in Form /\ formData \in Form
  /\ guarded \in BOOLEAN /\ submitted \in BOOLEAN

(* No change the user made is undone: the form holds every value typed    *)
(* and every row added or deleted whose response has arrived, however    *)
(* the requests overlapped.                                                *)
NoLostUpdate == form = intended

(* The unload warning compares against what the server holds: after a    *)
(* successful save, createSessionFormData is the form that was saved.     *)
BaselineIsSaved == formData = saved

(* Leaving the page never silently loses work: while the form is not     *)
(* submitted and differs from the draft the server holds, the unload      *)
(* handler asks before the page is left.  It is about the order of        *)
(* createsessionSubmit's handler swap and its validation, and about the  *)
(* baseline the save callback records.                                     *)
UnsavedChangesWarned == (~submitted /\ form # saved) => onbeforeunload
=============================================================================
