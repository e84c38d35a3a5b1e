# TLA+ models of the SAFRN analyst query builder

This directory holds TLA+ models of the SAFRN web front ends in `src/`, the TLC configurations that check them, and `PROJECT.json`. `PROJECT.json` lists the components, the runs, the mutants, the line map, the findings and the hazards.

## The system

`src/` contains two front ends:

* **Analyst UI** (`src/analyst-ui/react`). This is a React app. `App`, `BodyContent`, `Header` and `Footer` are layout only. `AnalystView.js` holds all of the behaviour. It keeps four pieces of state in `useState` hooks:
  * `lexicon`: the verticals and their columns. It is fetched by the async `getLexicon` in `Api.js`, which currently delivers `SampleData.js`.
  * `fields`: the column names of each lexicon entry, as parsed by `parseLexicon`. A categorical column contributes its group name once.
  * `verticals`: the vertical chosen for each prefilter slot.
  * `query`: the document being built. It has `preFilters`, `joins`, `postFilters` and `queryFunction`.

  Three editors change the query. Each has its own handlers, all reached through the controls the render shows:
  * the prefilter editor: slots, then OR, then AND terms, then multinomials, then factors;
  * the join editor;
  * the query-function editor, with five function variants.

  Two effects connect the editors to the lexicon:
  * the mount effect starts the fetch;
  * the effect on `[lexicon]` parses the fields and installs the default Order function.

  The Clear button resets everything except the lexicon. The short display (`getQueryShortDisplay*`) prints the query.
* **UI store** (`UIStore.js`). It has a context and a pager reducer `uiReducer`. No component in `src/` dispatches to it yet.
* **Dashboard scripts** (`src/dashboard/.../static/js`). These are jQuery pages:
  * the session wizard (`createSession.js`), whose row add and delete requests replace the form with the server's render;
  * search autofill and the draft count (`script.js`);
  * a table sort (`viewSession.js`).

## Modules

| module | models | state / actions |
|---|---|---|
| `QueryDefs` | the shared state and pure helpers of `AnalystView` | `VARIABLES lexicon, fields, verticals, query`. Also: JavaScript values (`Num`/`Str`, numeric coercion `NumberOf`), `parseLexicon` as a fold, `getColsForVertical`, the `setEmpty*` constructors, the default functions, and `SelectChanges`, the values a controlled `<select>` can report. |
| `PreFilterBuilder` | the prefilter editor | One action per handler, from `addVertical` to `updateExp`. The inputs are the options the rendered selects offer. For a factor's column, those options are `fields[pfIndex]`, exactly as the code has it. |
| `JoinBuilder` | the join editor | `addJoin`, `updateJoinType`, `updateJoinVertical` and `updateJoinColumn`. |
| `QueryFunctionBuilder` | the function editor | `setQueryFuncType`, the `updateQF*` handlers and `addIndependentVar`. Checkboxes report the negation of the shown state. The value input shows `''` for 0. |
| `Renderer` | `getQueryShortDisplay` and its helpers | The token sequence the short display prints. For a constraint: sign, magnitude, `*` separators and exponents. For each slot: its vertical and the OR and AND clauses. For each join: its first condition. For the function: its tag and fields. Whitespace and markup are dropped. `SpecJoinsAndFunction` is the rendering spec.md 4.5 prescribes, kept as the reference. |
| `QueryDocument` | the whole view | It instantiates the three editors on one state. It adds the lexicon fetch completing (`lexiconLoaded`, with the value `Api.js` `getLexicon` delivers), `clearRules`, and the handlers that throw before the lexicon arrives. `threw` records an uncaught exception. |
| `SlotAssignment` | the abstract promise of the prefilter slots | `assigned`: the vertical of each slot. `AddSlot`, `RemoveSlot` and `Rebind` all use a vertical no slot holds. `PreFilterBuilder` maps `assigned <- verticals` and is checked against it (`AssignmentRefinement`). |
| `TableView` | `viewSession.js` | `rows` holds the data rows, the ellipsis row included. `sortTable` is split into `SwitchRows`, `ReverseDirection` and `FinishSort`, one step per iteration of its while loop. The page-load collapse is in `Init`; `ShowMore`/`ShowLess` model `showMoreContent`. Cell texts are integers ordered like their lower-cased strings. The ellipsis row sorts last in column 0 (the character ⋮) and first elsewhere (""). |
| `SessionForm` | the asynchronous parts of `createSession.js` | `form`: the serialization. `inflight`: the requests in flight. `formData`: `createSessionFormData`. `saved`: the server's draft. `guarded`: whether `onbeforeunload` is the dirty check; the definition `onbeforeunload` is when leaving asks for confirmation (`createSession.js:475`). `studiesLoaded`: the study-import select has been filled. The study list fetched on load, the import request and its reply (the stored study replaces the form) are actions too. `intended`: a history variable holding every change the user made. The server, which is not in this repository, is assumed to render the posted form with the row added or removed. |
| `DashboardHeader` | `script.js` search autofill and the draft counter | Replies in flight carry the server's answer from when it handled the request. Replies may be reordered or lost. |
| `Pager` | `UIStore.js` `uiReducer` | `startPage` and `pageSize` per pager. There is one action per reducer case. |
| `Lexicons` | lexicons for the checks | `SampleLexicon` is `SampleData.js`. `SingleVerticalLexicon` has one vertical. |
| `MC_*` | TLC instantiations | The small option sets for selects and inputs. `MC_PreFilterBuilder` adds the `Renderer` properties to the prefilter editor. `MC_QueryEditors` instantiates the join and function editors on one query and lets their handlers interleave. |

Each editor module `EXTENDS QueryDefs` and starts from a loaded lexicon: the state after the effects. `QueryDocument` starts from the mount state (`lexicon = []`, `fields = {}`, function `[]`) and composes the editors with `INSTANCE`.

How the code maps to the model:
* A handler mutates nested arrays in place and then calls the setters. This is one atomic step, because React processes one event at a time.
* Indices are 1-based in the model and 0-based in the code.
* Inputs deliver strings. So a coefficient is `Num("1")` when created and `Str("1")` once typed. This is the difference `!== 1` sees.

## Runs

| run | cfg | result | what it shows |
|---|---|---|---|
| prefilter | `MC_PreFilterBuilder.cfg` | pass, 438,161 states | `AlignedAssignment`: the slot list and the vertical list stay the same length through add, change and delete. `TermsScopedToSlot`: every term names its slot's vertical or none. `AssignmentRefinement`: `PreFilterBuilder` implements `SlotAssignment` under `assigned <- verticals`, so no two slots ever hold one vertical. `RenderedSumFaithful`: the printed sign and magnitude read back as the coefficient, for "0", "-1", numbers and strings. `FactorSeparators`: `*` appears only between factors. |
| prefilter_column_foreign | `..._PrefilterColumnsValid.cfg` | violation | A factor's column list comes from the slot position (line 278). After changing the slot to 2345, `gpa` can be chosen. |
| editors | `MC_QueryEditors.cfg` | pass, 1,103,724 states | Join and function handlers in any interleaving. `JoinRefsValid`: every join operand names a column of its own vertical. `VariantShape`: the function has exactly its type's keys. `FunctionRefsValid`: with the sample lexicon, every column the function names is valid. `ShortDisplayFaithful`: the display ends with the joins and the function exactly as spec 4.5 renders them, including a `false` flag and a value of 0. |
| document | `MC_QueryDocument.cfg` | pass, 496,394 states, liveness | `RenderTotal`: every render finds the `fields` entries it reads, before and after the fetch and across Clear. `FunctionEventuallySet`: the function editor eventually holds a function for good. |
| document_throws_before_load | `MC_QueryDocument_NoUncaughtException.cfg` | violation | Before the fetch completes, `addJoin` and `setQueryFuncType` throw. The spec says errors are reported instead. |
| table_sort | `MC_TableView.cfg` | pass, 29,951 states, liveness | `SortResult`: a finished sort holds the same rows in column order, descending exactly when they were already ascending. `SortTerminates`: the loop always ends. |
| table_show_more_drops_row | `MC_TableView_DataRowsPreserved.cfg` | violation | After sorting moves the ellipsis row, "show more" removes a data row (`viewSession.js:83`). |
| session_form_lost_update | `MC_SessionForm_NoLostUpdate.cfg` | violation | A row reply replaces the form with a render of an older serialization. Typing in between, or a study imported in between, is lost (`createSession.js:90`). |
| session_form_baseline | `MC_SessionForm_BaselineIsSaved.cfg` | violation | The save callback records the form as it is at reply time (`createSession.js:129`). Changes typed while the save was in flight count as saved, and leaving does not warn. |
| session_form_unload_warning | `MC_SessionForm_UnsavedChangesWarned.cfg` | violation | `UnsavedChangesWarned`: while the form differs from the server's draft and is not submitted, leaving asks first. TLC makes the form invalid and submits: in its trace an organization name is cleared (or, in another order of exploration, an empty peer row is added). `createsessionSubmit` has already replaced `onbeforeunload` with a no-op when validation fails (`createSession.js:144`), so the edit can be lost without a warning. The baseline bug violates the same property in four steps. |
| header_suggestions | `MC_DashboardHeader_SuggestionsMatchSelection.cfg` | violation | An autofill reply that is out of order or lost leaves the other kind's names (`script.js:47`). |
| pager_start_below_one | `MC_Pager_StartPageAtLeastOne.cfg` | violation | Incrementing with fewer than five pages (initially 0) gives a start page below 1 (`UIStore.js:151`). |

The project keeps one run per question. Some defects met while modelling have no run of their own. They are listed as hazards in `PROJECT.json`, each with a note:
* `addOrClause` creates a term with no vertical (line 130).
* The default Order function names a raw categorical column when a lexicon's first column is categorical (line 535). `SampleData.js` has no such lexicon.
* A coefficient typed as 1 prints as `1 *` (line 832), where spec 4.5 omits a coefficient of 1. The run for this was given up for `session_form_unload_warning`. The renderer's coercions are still checked by `RenderedSumFaithful`.
* A stale count reply or the load-time `.fail` leaves a wrong draft count (`script.js:176`).

Every property of a passing run has a mutant in `PROJECT.json`. A mutant is a plausible bug in the mapped code, and TLC finds it:
* a dropped guard;
* an unfiltered option list;
* a stale reset;
* a column kept across a vertical change;
* merged function variants;
* a slot deleted from the query but not from the vertical list;
* a missing `Math.abs`;
* a function value tested by truthiness;
* a separator before every factor;
* a load without the parse or without the default function.

### Bounds

* `MaxTerms` caps the total number of slots, ORs, ANDs, multinomials and factors. It is 2 in the editor runs: enough for two slots over two verticals, which the delete, shift and duplicate cases need, or for two multinomials, which the sign rules need. It is 1 in the composed run, where the question is about load and Clear.
* `MaxJoins = 2` and `MaxIndepVars = 2` allow two entries, so that an index past the first is exercised. The editors run offers one join type and one moment type, which keeps the interleaved product under two minutes.
* Selects offer every option the lexicon gives. The comparator, join type and moment type lists are cut to one or two values, because no property depends on which value is chosen.
* Number inputs take the texts in `NumberInputs`:
  * `{"2"}` where only change matters;
  * `{"0","-1"}` in the prefilter run, where the renderer's coercion cases are the point: with the initial `Num("1")`, these cover zero, negative, number and string.

More bounds:
* `TableView` loads tables of 2 or 3 data rows, with two columns and two cell values. Three rows is the smallest table that gets an ellipsis row and a button. Two columns cover both places the ellipsis sorts to.
* `SessionForm` allows up to two peers, one vertical with one column, and two requests in flight. Two requests are needed for an overlap. It has one stored study to import, with no vertical, so that an import changes the form's shape.
* `DashboardHeader` allows two search kinds, two drafts and three replies in flight.
* `Pager` uses page counts 0, 3, 5, 7, 8 and 10. These include the counts below 5, where the start page leaves the range.

### Fairness

The composed spec assumes only `WF` of `lexiconLoaded`: the fetch started on mount eventually completes. `TableView` assumes `WF` of the sort steps: `sortTable` is a synchronous loop, so once called it runs until it returns. User actions have no fairness, since a user may stop at any time. The liveness run therefore also covers a user who never acts.

## Not modelled, and plan

* The window between `setLexicon` and the `[lexicon]` effect (lines 961-969). React runs the effect before it handles the next event, so the load, the parse and the default function are one step; for a moment in the code the lexicon is set while `fields` is still `{}`, and no passing property depends on that moment.
* `$.getScript` after a row or import reply is a second request. The model re-arms the unload check in the reply's own step, which is kinder than the code; no passing property depends on it.
* `postFilters` are never edited.
* `getVendorList` and `getBuyerList` have no caller.

Also not modelled:
* The dashboard wizard's page navigation (`createSessionBack/Next/PageLink/Preview`). Which buttons each page offers is decided by server templates that are not in this repository. So is the page a row reply's render shows before its `createSessionPageLink(3)` or `(2)` moves the user there (`createSession.js:92`). A late reply can therefore pull the user off the page they moved to; this is listed as a hazard.
* Field show/hide by data type or peer type, hover help and CSV upload. These only set DOM attributes or fill an input.
* The connection-info fill when an organization is chosen (`createSession.js:438`). Its reply writes into the row element it was sent from, which a row reply may have replaced. The peers' ip and port are outside the form abstraction, and the hazard is listed in `PROJECT.json`.
* `viewSession.js` column-width synchronisation, which is layout.
* `lockInput`, `showPassword` and the accept/decline/delete dialogs in `script.js`. Each one toggles an attribute or submits a form.

Planned next:
1. A composed dashboard page: `SessionForm` with `DashboardHeader`'s counter, sharing the save.
2. Liveness for the form under fair delivery.
3. The connection-info fill, with the peers' ip and port in the form.
