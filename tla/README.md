# YDMS: specifications, model checking and proofs

YDMS manages a tree of categories, their documents, and the workflows that
process them. The backend (`src/backend`, Go) keeps little itself: nodes and
documents live in NDR, an HTTP service; workflows are executed by Prefect and
reported back by the flows (IDPP); what YDMS owns are the PostgreSQL tables of
workflow runs, synchronisation states, batches, users and permissions. Most of
what can go wrong therefore goes wrong *between* statements: a request is a
sequence of database updates and HTTP calls without a common transaction, and
callbacks, operators, clean-ups, polls and crashes fit in between.

The web client (`src/frontend`, React with TanStack Query) is the other half. It
shows cached answers of the server, changes them through dialogs and handlers
that wait for several calls, and sees the results by fetching or polling. There
it goes wrong between *renders*: an answer arrives after the view, the node or
the dialog it belongs to was left; a handler acts with what an earlier render
knew; a fetch that was read before a change is answered after it.

This directory models both. Every action is one statement, one call, one answer
or one gesture of the code, in the order the code makes them.

## 1. Inventory

### Backend

| Component | State | Operations | Hard part | Correct when |
|---|---|---|---|---|
| Workflow runs (`service/workflow.go`) | `workflow_runs` | trigger, retry, callback, cancel, force-terminate, clean up | the launching request writes its row by primary key while callbacks, operators and clean-ups do the same; a POST is retried; messages are lost, repeated, reordered | verdicts stand, times match the status, flows are not mixed up, retries point to something, every launch resolves |
| Document sync (`service/sync.go`) | `doc_sync_statuses`, sync rows of `workflow_runs` | trigger, callback, status query with time-out | check and write are separate statements, two tables | an answer is not lost, the tables agree, nothing stays pending |
| Batches (`service/batch_workflow.go`, `batch_sync.go`) | `workflow_batches`, a goroutine per batch | preview, execute, poll | workers, semaphore, wait group, many early returns; preview and execution decide separately | counts add up, an ended batch is idle, every batch ends, the preview is honest |
| Workflow definitions (`service/workflow_sync.go`) | `workflow_definitions`, an in-memory flag | synchronise from Prefect | upsert by two keys, definitions that disappear | one definition per deployment, none wrongly missing |
| Category tree (`service/category.go`, `bulk_check.go`) | in NDR | create, move, reorder, recursive delete, bulk copy and move | many HTTP calls, roll-back, paging over a list that shrinks | all or nothing where promised, nothing is lost |
| Documents and references (`service/documents.go`) | in NDR | create, bind, copy, add and remove references | read-modify-write over HTTP | no lost updates, no orphans |
| Document types (`service/document_types*.go`) | none | validate | - | - |
| Assets (`service/assets.go`) | none | pass-through of multipart uploads | - | - |
| Users, courses, permissions (`service/user.go`, `permission.go`, `course.go`) | `users`, `course_permissions` | create, grant, revoke, delete a course | check-then-create, rows of deleted nodes | no access without a grant |
| API keys, authentication (`service/apikey.go`, `auth/`) | `api_keys` | issue, revoke, check | - | - |
| HTTP handlers (`api/`) | none | decode, check rights, call a service | - | - |
| NDR and Prefect clients | none | HTTP with time-outs; `CreateFlowRun` retries | a POST that may have succeeded | taken into the modules that call them |

### Web client

| Component | State | Operations | Hard part | Correct when |
|---|---|---|---|---|
| Batch dialogs (`features/batch/`) | step, options, preview, the node and batch under way, results; `localStorage` | configure, preview, execute node after node, poll, close, open again | each request is made by the closure of an earlier render; an answer may find the dialog closed or opened again | one node at a time with the options shown, results in order, what runs was previewed, an execution ends |
| Category tree (`features/categories/`, `CategoryContext`) | the tree's query, selection, clipboard, one mark for "busy" | select, cut, copy, paste, drag, create, rename, delete, bin | operations overlap, each with a fetch of its own; the tree is replaced under the selection | the tree settles as the server's; what is selected together belongs together |
| Panels of a node (`SourceDocumentManager`, `DocumentTreeSelector`, `WorkflowManager`) | the sources, twice; a selector | bind, unbind, select a node, retry | answers for a node that was left; partial failure of a row of calls | both panels know the sources of the node shown |
| List of documents (`App.tsx`, `DocumentContext`, `useDocumentDrag`) | a query per view, handlers under way | remove, drop (copy or move), restore, purge | check, dialog and calls are apart; a move is several calls; views change meanwhile | the list settles as the server's, no document ends up nowhere |
| Document editor (`DocumentEditor`, `DocumentReferenceModal`, `useFileUpload`) | the form, the query's document, saves, reference changes, an upload | type, paste, save, add or remove a reference, refetch | the form is reset whenever the cached document changes | text is not lost without a cause, the cache settles as the server's, references survive saves |
| Buttons of a document (`SyncButton`, `DocumentWorkflowButton`) | status, poll counter, the run watched | trigger, poll, show and close the progress | polls are limited, fetches fail, a second run replaces the first | ends are shown; a result that was seen is in the editor |
| History of runs (`SystemWorkflowRunsPage`) | a query per filter, row marks, two clean-up dialogs | filter, poll, cancel, terminate, retry, clean up | rows of another filter or an earlier visit; dry run and clean-up share a mutation | what is shown as settled is, what ended is noticed, what is deleted was counted |
| Versions of a document (`DocumentHistoryDrawer`, `DocumentContext`) | a query per document and page, the version previewed, restorations under way | open, close, page, preview, restore | versions are pushed back by new ones while a page is shown; answers of a document that was left | the page settles as the server's, what is restored is the row that was pressed |
| Clipboard of documents (`CategoryTreePanel.tsx:414-561`) | the ids copied, the paste to be confirmed, the mark `isMutating` | copy the documents below a node, paste them as sources of a subtree | a list read page by page while others change it; a row of calls some of which fail | no document that stayed is missed; what is told to be bound is bound |
| Session (`AuthContext`, `http.ts`, `LoginPage`, `PrivateRoute`) | token and user, the token in `localStorage`, the page | log in, load the user, log out, 401 | answers under way for an earlier token; two copies of the token; other tabs | the user shown is the token's, nobody waits for an answer that will not come |
| The rest (users, API keys, courses, assets, reordering) | a form or a table each | one request each | - | - |

How they interact. Handlers call services. `BatchWorkflowService` and
`BatchSyncService` call `TriggerWorkflow` and `TriggerSync` once per item.
Those insert a row, ask Prefect for a flow and record its id; the flow calls
back over HTTP with the id of the row (and, for a sync, of the event). Both
kinds of runs share the table `workflow_runs`, so operators and clean-ups act
on the runs of syncs as well. The web client calls the handlers: its batch
dialogs start one batch per node and poll `workflow_batches`, its buttons poll
`last_sync` and the rows of `workflow_runs`, and its history page cancels,
retries and cleans up those rows. What the server may answer to it is taken
from the backend modules: a batch obeys `BatchLifecycle`, a run `RunLifecycle`
(a settled run never becomes active again), a sync ends in success or failure.

`PROJECT.json` lists every component with its status, and every hazard with the
line where it bites.

## 2. Modules

| Module | Models | Instances |
|---|---|---|
| `RunLifecycle` | what whoever polls a run may rely on (abstract) | - |
| `WorkflowRun` | `workflow.go`: triggering, callbacks, operators, clean-up; the retry loop of `prefectclient/client.go` | `MCWorkflowRun` |
| `WorkflowRunProofs` | its theorems | - |
| `DocSync` | `sync.go` | `MCDocSync` |
| `DocSyncProofs` | its theorems | - |
| `BatchLifecycle` | what whoever polls a batch may rely on (abstract) | - |
| `BatchRun` | `executeBatchAsync` and `executeBatchSyncAsync`: goroutine, workers, semaphore, wait group, counters | itself |
| `BatchFilter` | what preview, worker and `TriggerWorkflow` decide for one node | itself |
| `BatchProofs` | theorems about both | - |
| `CategoryBulk` | `BulkCopyCategories` and `BulkMoveCategories` of `category.go`, with the operations they call | in `CategoryRequests` |
| `CategoryDelete` | `DeleteCategory` of `category.go`, with its recursion | in `CategoryRequests` |
| `CategoryRequests` | the two side by side | `MCCategoryRequests` |
| `CategoryRequestsProofs` | its theorem | - |
| `BatchDialog` | `BatchWorkflowModal` and `BatchSyncModal` | `MCBatchDialog` |
| `BatchDialogProofs` | its theorems | - |
| `CategoryPanel` | `CategoryTreePanel` with its hooks and `CategoryContext` | in `TreePages` |
| `NodePanels` | `SourceDocumentManager`, `DocumentTreeSelector`, and the sources of `WorkflowManager` | in `TreePages` |
| `SourceClipboard` | copying and pasting documents in `CategoryTreePanel` | in `TreePages` |
| `Session` | `AuthContext`, the token of `http.ts`, `LoginPage`, `PrivateRoute` | in `TreePages` |
| `TreePages` | the four side by side | `MCTreePages` |
| `TreePagesProofs` | its theorems | - |
| `DocumentEditor` | `DocumentEditor` in edit mode, references, uploads, and the server's read-modify-write of references (`documents.go`) | in `DocumentPages` |
| `DocumentPlaces` | the list of documents, removal, drag and drop, bin | in `DocumentPages` |
| `DocumentHistory` | the drawer of versions, and restoring one | in `DocumentPages` |
| `RunsCleanup` | the two clean-up dialogs of `SystemWorkflowRunsPage` | in `DocumentPages` |
| `DocumentPages` | the four side by side | `MCDocumentPages` |
| `DocumentPagesProofs` | its theorems | - |
| `RunsPage` | the table of `SystemWorkflowRunsPage` | in `WebPolling` |
| `DocumentWatch` | `SyncButton` and `DocumentWorkflowButton` | in `WebPolling` |
| `WebPolling` | the two side by side | `MCWebPolling` |
| `WebPollingProofs` | its theorems | - |

`TreePages`, `DocumentPages` and `WebPolling` each hold several parts of the web
client side by side: `page` says which of them moves. `CategoryRequests` does the
same for the two kinds of long requests to the tree (`asked`). The parts share no
state, so exploring them one at a time loses nothing; one run and one set of
theorems answer for all of them. Each of these modules names the properties of its parts, so
that what a run checks and what a theorem states is the same formula. The `MC` modules only
add the constants of an instance, and symmetry; `MCCategoryRequests` also leaves out initial states in which every
document is a source.

Definitions named `Mut...` stand right before the definition they spoil. They
are plausible slips (a dropped guard, a missing reset); no specification uses
them, and each is there to show that a property would notice.

### WorkflowRun

One function per column of `workflow_runs`; `status[r] = "none"` before the
insert and `"deleted"` after a clean-up. A trigger request is
`CreateRun`, `FindDeployment`, then any number of `RetryFlowRun`, then
`CreateFlowRun` or `GiveUpFlowRun`, then `RecordFlowRun` or `FailTrigger`;
`trigger[r]` says which comes next. `FailTrigger` is
`s.db.Model(&run).Updates(...)`: by primary key, whatever the status has
become. `HandleCallback` is a single conditional UPDATE and hence a single
action. Cancelling and force-terminating settle the row and then, in a step of
their own, tell Prefect about the flow id the row holds *by then*. A clean-up is
`CleanupBegin` (checks the parameters and collects flow ids),
`CleanupCancelFlow` for each of them, `CleanupSweep` (zombies are marked, or
active rows deleted under force), `CleanupPurge`, `CleanupReturn`. Deleting
clears the row's columns and, as the foreign key demands, the `retry_of_id` of
other rows.

Prefect and its flows are external: a flow is unborn, live, cancelling or
ended, belongs to the run it was created for, and adds reports to `sent`, a set
that never shrinks. A message in it may be delivered at any time, any number of
times, or never. Time is a counter; it matters for zombies and for the
timestamps.

The read-only operations (lists, details, the dry run of a clean-up) are left
out. Database statements succeed, apart from clean-ups, which may return after
any step.

### DocSync

One document: its `doc_sync_statuses` row (`event`, `result`, and `aged` for
"a minute since updated_at"), the `workflow_runs` row of each event (`run`), and
the requests: `step` for triggers, `handler` for callbacks, `polling` for status
queries. `WriteIfPending` is the UPDATE with `last_event_id` and `last_status` in
its WHERE; `Write` is the one by primary key. That difference is most of what
the properties are about. `SettleRun` and `RemoveRun` are what operators and
clean-ups (module `WorkflowRun`) do to these rows. `last_run_id` and messages
are left out, since nothing decides on them.

Two variables are histories. `writer` says which request wrote the row last,
and for which event. `crossed` collects the events for which two requests that
end it differently were under way together: callbacks with different reports,
or a callback beside a launch that failed. Neither the row nor the run locks the
other table, so in that case the row may end as one says and the run as the
other. `TablesInStep` says that otherwise the two tables end alike: "success" with
"success", "failed" with "failed", "skipped" with "cancelled".

### BatchRun

`Dispatch` is one round of the loop in the goroutine (count the wait group up,
take a token, start the worker); `Check`, `Trigger`, `Count`, `Release`, `Done`
are the worker, with the two deferred calls as actions of their own. Which
outcome an item has is left open here. The nodes and documents are collected
before the row is inserted and are only a number. The row is also updated by
`Finish`, after `wg = 0`.

### BatchFilter

One node with source documents, direct documents and their types, and one
request with its options, none of which change while the batch looks at them.
`Preview` and the worker (`CheckName`, `CheckSources`, `CheckOutput`) are
translated separately, since the code has the filters twice; `FindInputs` and
`FindTargets` are the part of `TriggerWorkflow` that the worker's ids reach.
Every call to NDR may fail, and `broken` remembers that one did.

### CategoryBulk

One request against a tree kept by NDR: `kids` maps a node (or the root) to its
children in order, `name` gives names as a base and the numbers of the copy
suffixes. The recursion of `copyCategoryRecursive` is the stack `todo`: a frame
is first a node to copy below `under` (`FetchSource`, `CreateNode`), then a copy
whose children come next (`ListChildren`). `cache` and `made` are the code's
name cache and `createdIDs`; `origin` and `moved` its `moveRecords`. Every call
may fail, and a creation or move may have happened although its answer is lost
(`CreateLost`, `MoveLost`). The roll-back (`undo`) goes on whatever its calls
answer. Reads are taken together with the write they prepare, and nobody else
changes the tree meanwhile. What is done to rows is said without recursion, so
that it can be reasoned about: `Without(row, S)` lists what is left of a row in
increasing order of the places (`InOrder`), and `b` is `Below` `a` when every
set that holds `b` and, with a node, its parent holds `a`. `spoiled` says that a call of
the roll-back failed that would have done something. Not modelled: other requests at the same time,
paths and slugs, repeated ids in `source_ids`, and the length of pages.

### CategoryDelete

The recursion of `deleteCategoryRecursive` is the stack `todo`; `step` is the call to
come for the node on top: list its children, descend into each, list its
sources, list and delete its documents page by page, delete it. Documents are
related to nodes as outputs or as sources (`bound`), and one may be both, of
different nodes. Any call may fail with or without having been
carried out, which ends the whole recursion, and others may create categories at any
time. A page is listed again from what is left, so
beyond the first page documents are passed over: `NothingStranded` speaks of
nodes whose documents fit on one.

### Conventions of the web-client modules

A query of TanStack Query is a pair: what was last answered (`data`, `cache`,
`shown`), and the fetch under way, which is `None`, `Asked` (sent, not yet read by
the server), or the answer the server has given and the page not yet received.
Reading and answering are separate actions, so a change may fall between them.
`invalidateQueries` gives the fetch under way up and asks anew (`Asked`), but only
where the query has data: TanStack Query takes the first load of a query for the
one that is asked for, although it may have been read before the change
(`InvalidateTree`, `InvalidateQueries`, `InvalidateHistory`). The histories `early` and
`outdated` mark what was left on the screen that way; they end with the next
answer or invalidation that makes it good. Opening a view whose fetch is under way
asks for nothing. A failing fetch (after the library's own retries) keeps the old data. A handler that
awaits is a record in `calls` or `tasks` with the arguments its closure has kept. Variables
the comments call *history* are read by properties only; they say, for instance, that
two handlers overlapped, where the code makes no promise for that case.

### BatchDialog

Both dialogs have the same four steps and each its own copy of the code; `dialog`
says which one it is. `calls` holds the requests for a batch with the nodes, key and
options of the render that sent them (`Ask`); `Settle` is the effect on a finished
status, which instead uses the present nodes, index and options. The dialogs are
never unmounted, so `Close` resets only what `resetState` resets. Escape closes
the executing dialog; `clean` says that nothing of an earlier execution reaches
into this one, and properties of an execution are about clean ones. `batches` are
the server's; whatever `BatchRun` does, its row goes from running to completed
or failed.

### CategoryPanel

`parent` is the server's tree, `shown` the client's. A call goes through
`Execute` or `Refuse` (the server), `Answer` (`onSuccess`), `FetchAgain` (a drag
fetches the tree three times), `Finally` (after the awaited fetch) or `OnError`. The effect after
each render that prunes the selection is part of every action that changes selection or tree
(`Select`). Which node is "first" in a selection, and which siblings a
shift-click takes, depend on the order of siblings, which is left out and left
open. The effect of a call on the server (`Effects`, `Execute`, `Refuse`) is that of
`category.go` seen from outside; `CategoryBulk` and `CategoryDelete` have the inside. A
call of several steps may fail after one that changed the tree, which `missed` notes.
Others change nothing: the tree is compared with the operations of this page.

### NodePanels

A handler is a row of binds or an unbind, followed by a fetch of the sources
with the node of its closure. `BindNext` takes the documents in any order and
goes on after failures. After a change, `onSourcesChange` builds the workflow panel anew (`Reload`),
whose earlier load is cancelled; the source panel cancels nothing.

### SourceClipboard

`copies` are `handleCopySubtreeDocIds` under way: how far the pages go (`from`), what they
held (`seen`), and the history `due`, the documents that were there when it began and
have neither left nor been pushed onto a page that was read before. Everybody else
lists and removes documents at any place of the list meanwhile (`Listed`, `Unlisted`); a
change of order is both. A paste goes through the nodes of `asking.targets`, reads
the sources of each (`ReadSources`) and binds what is missing (`BindNext`, `BindFails`).
`owed` and `pasted` are histories: what a paste will tell to be bound, and what
pastes have told. `isMutating` is the mark of all operations of the panel, so others
set and clear it (`OtherOperation`).

### Session

`stored` is `localStorage`, which `http.ts` sends; `token`, `user` and `loading` are the
state of `AuthProvider`. `loads` are the calls of `getCurrentUser` under way, by the
token they were sent with: none is given up when the token changes. `Clear` is what a
logout, a failed load and the listener of `auth:unauthorized` (any answer 401) all do. What the server
answers is open; each login returns a token of its own. `late` says that the load
answered last was begun for another token, `foreign` that another tab wrote `localStorage`. A
reload of the page ends all that is under way. Roles are left out.

### DocumentEditor

A text is abstracted to the set of edits typed since it was loaded, the foreign
version below them, and the state of one pasted file: enough to see what is
lost. `Show` is the effect on `existingDoc`. `Save` sends the form with the
references of the cached document. A change of references is, at the server, a
read and a write of the whole document (`ReferenceRead`, `ReferenceWrite`);
`ForeignText` is a flow or another editor. `Exposing`, `Overlapping` and `Mixing`
spell out when the code promises nothing; the three histories end when form,
cache and server agree again. A change of references that the page gives up, or
whose connection is lost (`heard = FALSE`), goes on at the server. `UploadTexts` are the
texts that the end of an upload may leave.

### DocumentPlaces

Up to two handlers, each at one of its calls or dialogs (`step`). A removal asks
for the bindings, perhaps the user, and unbinds or deletes; a move unbinds from each node seen
before it binds. `CallFails` covers a lost answer too. Each view is a node with filters and a
page; a change refetches the view that is shown when it succeeds. A view whose first
fetch was read before the change keeps that list (`early`); `left` says that a view
was left in the middle of its fetch.

### DocumentHistory

`versions[d]` is the sequence of the contents the server has of a document; restoring a
version appends its content once more, and `Edit` is a save elsewhere. Versions are only
added, so an answer is the number of versions there were when it was read, and a
page is the rows of that number that fall on it (`OnPage`), newest first. `answers` and
`asking` are the query by document and page. The effects on opening and closing (the
page goes back to the first, the preview is dropped) are part of the gesture.
`outdated` and `troubled` are histories: the list may have been read before the last
write of somebody else, or it was first fetched beside a restoration and read before it;
a call has failed, or a page was left while it was fetched.

### RunsPage and RunsCleanup

`shown` differs from the data of the filter in use while that has none: then the rows
of the last filter that had data stand in (`previous`, `StandIn`), also after its
first fetch has failed (`Failed`). `Listed` is the server's answer, `CleanedUp` what
`RunsCleanup` has asked for. In `RunsCleanup`, dry run and clean-up are one mutation
(`cleaning`), as in the code, and answers set state whatever was closed in between.

### DocumentWatch

`pollCount` counts how often the interval of the polls is worked out, as the code does:
when a fetch begins and when it ends, and on every render of the button (`Render`), so it
is used up by renders that poll nothing. A trigger is possible beside a poll, which
is given up when it succeeds; only the first load keeps the button from it. A fetch of the status may
fail (`StatusFails`), and is tried again with the next poll. A run is polled only while
its progress is shown; the effect that has the document fetched compares the run's
data with the data before.

## 3. Runs

TLC with two workers; each run is exhaustive and ends within about two minutes.

| Run | Instance | Shows |
|---|---|---|
| `wr_flows` | one run, two flows, one retry, three times, all clean-ups, crash | times, verdicts, clean-ups, and that the row implements `RunLifecycle` |
| `wr_pairs` | two runs, two flows, two targets, clean-ups of finished rows, fairness | retry links and flow ids, stopping, and that launches resolve |
| `ds_results` | two triggers, two callbacks, one status query | answers and verdicts stand, success was reported; once all requests have returned, row and run of the last event have the same end, if a callback, a failed launch or the time-out of a trigger wrote the row, unless a request was lost, "pending" was reported, or two requests that end it differently crossed |
| `ds_pending` | a crash, lost callbacks, fairness | a pending sync is written off |
| `ds_timeout` | one event | **violated**: a callback answers between the read and the write of a status query, and the query writes "failed" over it by primary key |
| `br_workers` | four items, at most three workers, four kinds of request, crash, fairness | tokens, idleness, `BatchLifecycle`, and that batches end |
| `bf_decisions` | three documents, two types, pages of two, every request and node | preview and worker agree; inputs are the wanted ones |
| `cb_requests` | every ordered tree of three nodes; copies and moves of up to two sources, any target and anchor, at most five nodes created; deletions of any node, with two documents, pages of one, a category created meanwhile | copies are complete and uniquely named, nodes are put where asked, what the roll-back can undo it does, and a deletion takes a node after all that belongs to it and nothing besides |
| `bd_dialogs` | both dialogs; selections of two nodes and of one; two sets of options, two executions, three batches; fairness | one node at a time with what is shown, results in the order of the nodes, what runs was previewed, an execution ends |
| `tree_pages` | two categories, two overlapping operations; a panel with two nodes and two documents, two overlapping handlers; two copies and one paste of documents, pages of one; a session with three tokens of two users | the tree settles as the server's, unless a change was answered beside the very first fetch; selections stay under one parent; both panels know the sources of the node; a copy misses no document that stayed, what a paste tells of is bound; the user shown is the token's |
| `document_pages` | an editor with two references and two writes; a list with three nodes, two views and two handlers; a drawer with two documents, three versions and pages of two; the clean-up dialogs | texts and references end up as the server's, and so do lists, unless a change was answered beside the first fetch of the view; no document is lost between nodes, what is cleaned up was counted, what is restored was pressed |
| `web_polling` | two runs, a filter and none; a document with two starts, the interval worked out four times; fairness | what is shown as settled is, what has ended comes to be shown |

Why the bounds are enough.
- Runs interact in two ways only: by retries, which relate two, and by the flow
  a row names. One run with two flows has every order of the messages of a run;
  two runs with a flow each have every way of mixing them up. Two ticks
  let a run become a zombie and be looked at a tick later.
- The sync row holds one event at a time. A second event is what makes the
  first stale; a second callback what makes a check stale; one query races
  with both.
- Four items with three tokens have workers waiting, working and finished at
  the same time, and a limit that is reached. Requests are below, at, within and
  above the limits; a negative request is clamped by the same comparison as
  zero.
- In `bf_decisions` a node can have inputs, outputs and both, of a kept and of a
  skipped type, and more documents than a page.
- In `cb_requests` three nodes make every relation of sources, target and anchor:
  same, sibling, parent, descendant, unrelated. Two sources let one be done
  when the other fails. A parent may have as many children as there are names to
  try, so that no name is free. Five new nodes are the two largest subtrees
  together; a copy into its own subtree, which never ends, stops at that bound
  only because its next call then fails. For deletions, three nodes make siblings
  and a node two levels down; two documents with pages of one are more than a
  page when they are in the same node; one of them is nobody's source, which
  leaves every pair of relations of the other with each node.
- In `bd_dialogs` two nodes have a first, a next and a last; the third batch is
  the first of an execution that begins while the one before it is still
  answering.
- On the pages of the web client, hazards are about two things that overlap:
  two operations, two handlers or two writes are what it takes, each at any of
  its calls, while the fetches they ask for are read and answered in any order.
  Two nodes, views, documents or filters are one to be on and one to have left.
  A third node lets a document be elsewhere than at either end of a move. Three
  versions on pages of two push one off its page.
- Pages of one document (`PageSize` is 100 in the code) put a boundary between any
  two documents; a second copy can answer before the first. One paste shares its
  mark with all other operations; `PastesCorrect` has any number of them. Two clicks
  allow for a copy and its paste, or two copies.
- Three tokens are the one before, the present one and the one after; two users
  tell a late answer from a harmless one.
- Four evaluations of the interval (`MaxPolls` is 30 in the code) are enough for the
  counter to run out before, at and after the end of a sync, by polls and by renders.

`tree_pages` and `document_pages` use symmetry in sets of nodes, documents and
references nothing tells apart; neither checks liveness. The type invariants of the pages
of the web client are parts of the inductive invariants and proved as theorems
(`TypeCorrect`); their runs spend no check on them.

Deadlock is checked in the `wr_*` runs, where something can always be asked
of the system. The others stop when the document, batch, node or
request is done, or when the bounds on what a user does are used up.

### Fairness

- `WorkflowRun!FairSpec` and the first two conjuncts of `DocSync!FairSpec`: a
  request that was received is served. Every HTTP call has a time-out, so no
  step waits for ever, and the Go scheduler runs every goroutine. Nothing is
  assumed of operators, flows, messages or clean-ups.
- `DocSync!FairSpec` also needs time to pass and *somebody to keep asking* for the
  status: the code has no timer of its own. The web client asks every two
  seconds, but only thirty times (`SyncButton.tsx:53-71`), and again whenever
  the document is opened. `PendingEnds` is about a document somebody looks at
  again.
- `BatchRun!FairSpec`: the Go scheduler.
- `BatchDialog!FairSpec`: a request is answered or refused (weak fairness of
  `Answer`), the timer goes on (`Polls`), and batches end at the server (`Server`),
  which is `BatchRun!BatchEnds`. Nothing is assumed of the user.
- `RunsPage!FairSpec`: the timer goes on; a fetch that the server reads is
  answered. Reading is strongly fair: each fetch may fail, but one that is
  tried again and again succeeds. Nothing makes runs end, users press, or clean-ups happen.
- `DocumentWatch!FairSpec`: the same for its two queries. `EndIsShown` is about what
  the code goes on watching: it allows for the polls used up and the closed
  dialog.
- `MCWebPolling!FairSpec` joins the conditions of both pages, one of each in a
  disjunction: since `page` never changes, a condition of the other page is never
  enabled and adds nothing.

## 4. Proofs

All theorems hold for every value of the constants. What TLC checks on small
instances and TLAPS proves in general:

| Theorem | Argument |
|---|---|
| `WorkflowRunProofs!TimesCorrect` | `TimesMatchStatus` is not inductive alone: an insert must start from blank columns. `Columns` adds that rows not in the table are blank and nothing is from the future. |
| `...!LinksCorrect` | flow ids: on top of `Provenance`, whoever is about to record or has reported a flow talks about one that exists, and owners never change. Retry links: from `Columns`, the age of the retried run |
| `...!HistoryCorrect`, `CleanupCorrect` | action properties (`StepSafe`), one case per action, from `Base == TypeOK /\ Provenance` |
| `...!StopCorrect` | if no clean-up sweeps active runs (`NoSweeps`). `StopInv` adds that runs waiting for Prefect to be told are settled, and settled runs stay so |
| `...!Refinement` | `Simulation`: each action is a step of `RunLifecycle` or leaves what it shows unchanged |
| `DocSyncProofs!VerdictsCorrect` | action properties, from `Knowledge` (events requests work on exist, callbacks were sent) and `Fresh` (an event is created once) |
| `...!ReportedCorrect` | if no callback reports "pending", which `isValidSyncStatus` lets through and the code then takes for a success |
| `...!TablesCorrect` | for any number of requests. The property speaks of histories without crash, "pending" and crossing requests; `InStep` holds in those (`Calm`): requests for one event that did not cross end it alike (`Alike`), what the writer of the row leaves for those still at it (`RowKnown`, `RunKnown`), and until the tables agree, the request that wrote the row, or the trigger that timed it out, owes the run its update (`Owing`). `Unlaunched`: no flow reports for an event before its launch |
| `BatchProofs!WorkersCorrect` | `IInv`: tokens, wait group and counters are cardinalities of the sets of workers at the matching steps; when the wait group is at zero after the last item, that set is empty |
| `...!Refinement` | moreover the sets behind the three counters divide the items once all are done, so the counts add up (`CountsAddUp`) |
| `...!PreviewCorrect`, `RightCorrect` | `FilterIInv`: how far the worker has got tells which filters it has passed |
| `CategoryRequestsProofs!DeletionCorrect` | `Path`: the stack leads up to the target, and all on it or listed in it lies below. `Covered`: a child that was there from the start and is not deleted is still listed, or on the stack. `Loop`: what the pages of the node on top have left of its outputs. `Reach` says "below" without recursion; it grows when others create categories (`ReachStays`), and is what the recursive `Above` of the model finds (`ReachUnder`). |
| `...!CopiesCorrect` | `BulkInv` (below): `PendingInv` and `WholeInv` for completeness, `NamesInv` for names, `TreeInv` for places |
| `...!RollbackCorrect` | `CopyUndoInv`: rows without what was created are the rows from before, and a record that was dealt with left no leaf. `MovedBackInv`: exactly the nodes of the records left are below the target, all others are where they were; a barrier of nodes that do not move keeps NDR from refusing to take them back |
| `...!PlacedCorrect` | `PlaceInv`: the new order is that of the row cut at the anchor (`InsertedIs`), and its other nodes are those of the row from before (`WithoutBetween`) |
| `...!CopyIntoItselfGoesOn` | `EndlessInv`: while the source holds the target, some frame is for a node that holds the place of its copy. The copy becomes one of its descendants, so listing it leaves a frame for a child that holds the copy in turn |
| `BatchDialogProofs!ConfirmedCorrect` | action property, from `PreviewKept`: whatever preview the dialog holds was asked for with the options and nodes shown, unless one of them changed meanwhile |
| `...!SerialCorrect` | `Serial`: a clean execution that goes on waits either for one request, with no batch under way, or for one batch, the last, with no request; with the present index, and all batches before it belong to nodes before it |
| `...!ResultsCorrect` | `Filing`: the results on the screen and those a request carries on (which may have refusals more) are in the order of the nodes, each with what its own batch reported, and miss nothing but the batch that is polled |
| `TreePagesProofs!TreeCorrect` | `TreeComing`: unless a fetch or a half-done call failed (`missed`) or the first fetch was taken for the one asked for (`early`), a tree that differs from the server's is on its way: a fetch is asked for or has read it, or an operation that succeeded has still to ask |
| `...!SelectionCorrect` | action property: each gesture keeps the parent of the selection with it, and the pruning after a render only takes away |
| `...!PanelsCorrect` | `WorkflowsComing` and `ListComing` are the same for the two panels; `ListComing` only holds while handlers do not overlap (`AtMostOne`), and a handler binds before it fetches (`BindsFirst`) |
| `...!CopiesCorrect` | `DueIsAhead`: what is due to a copy was read, or stands behind the pages read; a removal moves a document over that boundary only from the place next to it (`UnlistedStep`) |
| `...!PastesCorrect` | `OwedIsAhead`: what a paste owes a node is bound to it, or the node is still to be read, or the document is among those it is binding |
| `...!SessionCorrect` | `SessionInv`: while a user is awaited a load is under way, the user of the present token is coming or there unless `late`, and the token in `localStorage` is one that was issued |
| `DocumentPagesProofs!CacheCorrect` | `DocumentComing`: a cache older than the server's document will be replaced, by the fetch under way or after a write that has not been answered |
| `...!DraftCorrect` | action property, from `DraftSafe`: in a calm form the cached text is the draft (`Alike`), or the document that is coming contains it (`Ahead`) |
| `...!ReferencesCorrect` | `RefsSafe`: a change of references runs beside nothing (`Alone`), and no save brings other references than the server has; `RefsShown`: nor does any answer that is shown or comes |
| `...!ListCorrect` | `ListKept`: only the view shown is ever fetched, and its answer, kept or under way, is the server's list, except in the middle of a move, whose last call asks again, and except after a change beside its first fetch (`early`). For the versions, `VersionsComing` |
| `...!NowhereCorrect` | `PlacesKept`: what a handler that is alone knows of its document at each step (`Known`); in the middle of a move the nodes left to unbind are exactly those the document is still in, besides the target |
| `...!DoneCorrect` | action property. Of the dialogs, from `OneDialog` and `Untouched`: only one of the two is open, and while a count is shown or awaited the options are those counted unless `touched`. Of the drawer, from `PageThere` and `RowChosen`: the version selected is a row of the page of the document shown |
| `WebPollingProofs!SettledCorrect` | `AllHonest`: not only what is shown but every answer kept or under way, of any filter, is true of the server where it says "settled"; such answers stay true, since a settled run never becomes active (`Onward`) |
| `...!ResultCorrect` | `ResultComes`: whenever a run was seen to succeed, the cached document has what it wrote, or a fetch that will read it is asked for; `RunsKnown` says which runs can have written |

Types are proved for all of these modules (`TypeCorrect`, `FilterTypeCorrect`; those of
`CategoryDelete` as part of `DeletionSound`, those of `CategoryBulk` of `CopiesStand`). Each of the invariants was checked by TLC on the run's
instance before it was proved.

Assumptions on constants (`RunAssumption`, `SyncAssumption`, `BatchAssumption`,
`FilterAssumption`, `DialogAssumption`, and the `...Assumption` definitions of the parts of
a composed module, which it assumes together) only say what kind of value each
is, that the values that stand for "nothing" are none of the others, and for `CategoryDelete` that
documents are finitely many. TLC evaluates them in every run.

### The invariant of copies

`BulkInv` is the largest invariant of the project. A copy is a walk over a
tree that grows under it, and none of the properties is inductive: when a copy
ends, nothing in them says that its children were copied. The parts:

- `BeforeInv`, `TreeInv`, `RequestInv`: `before` stays the tree of the start,
  rows are disjoint and without repetition, ids are given out in order, and what
  a request has not begun is untouched.
- `CopyingInv`, `MadeInv`: the frames belong to one source; its copy is the last
  child of the target, after the copies in `made`, which stand for the sources
  before it.
- `PendingInv`: for each node created there is an offset by which the children
  it lacks are found on the stack, in order and without a gap (`PendingAt`), or
  it is the one to be listed next. An empty stack then means that each copy is
  complete (`CompleteCopies`). This holds when the source does not hold the
  target; when it does, `EndlessInv` says that the stack never gets empty.
- `NamesInv`: the cache of a parent, once read, is the set of the names of its
  children, and the label chosen besides. Below a new node the names are those of the
  children of its source, which differ, so a child keeps its name (`NameIsFree`).
- `CopyUndoInv`, `MoveInv`, `PlaceInv`: see the table.

Below them are lemmas about `InOrder` and `Without`: `InOrder(S)` is defined with
`CHOOSE` and cardinalities, so it is first shown to be the one increasing row
that lists `S` (`IsInOrder`, `InOrderIs`), by the bijection between a set and
its ranks. No induction is needed after that: rows are compared place by place.
TLC checked the parts of `BulkInv` on the instance of `cb_requests` before they were
proved. The one further assumption on constants is that `NULL` is no name and no word of a
request.

Only model-checked:
- liveness, which is out of reach of the provers: `LaunchResolves`, `PendingEnds`,
  `BatchEnds`, `Finishes`, `ActiveIsFollowed`, `EndIsShown`.

## 5. Disagreements between the code and what it says

One has a run (`ds_timeout`) and is listed in `PROJECT.json`. Others that were
met on the way, each from reading the code that the modules translate:

Backend.
- "Is a sync already in progress" (`sync.go:159`) is checked outside the
  transaction that replaces the event (line 229). Two requests may both pass;
  the first event is replaced at once and its callbacks are refused.
- A sync whose deployment is not found is marked failed, and its row in
  `workflow_runs` stays pending (`sync.go:261`); so it does after the time-out
  (line 409).
- A launch that Prefect has accepted and the client reports as failed settles the run
  as failed, while the flow it started reports success to the row, or the other way
  round; so do two callbacks that cross between the two updates
  (`sync.go:277-287`, `354-382`). The two tables then disagree for good: `crossed`.
- `deleted_count` of a clean-up counts zombies twice, once when they are marked
  and once when they are deleted (`workflow.go:1143`); the page shows the number
  as it is (`SystemWorkflowRunsPage.tsx:283`).
- Source documents of skipped types come back when all are skipped: an empty
  list of prefetched ids is taken for none (`workflow.go:224`).
- "Skip source documents - they are inputs, not outputs" (`workflow.go:259`)
  compares with the filtered ids the batch passes in, so a source document of a
  skipped type is handed to the flow as a document to generate.
- `skip_no_output` takes a source document of a skipped type for an output
  document (`batch_workflow.go:504`), since the ids it excludes are the filtered
  ones.
- `TriggerWorkflow` reads one page of 100 direct documents (`workflow.go:245`); a
  flow never learns of the others.
- A failed copy leaves the nodes behind that the recursion has made below the
  source it failed in (`category.go:774`).
- A category copied into itself or below never comes to an end
  (`category.go:873` finds the copy among the children): `CopyIntoItselfGoesOn`. Only the web client
  prevents it (`useTreePaste.ts`), from its own view of the tree.
- A copied category loses its type, and its documents are not copied
  (`category.go:865`).
- `deleteCategoryDocuments` reads page after page of a list it deletes from
  (`category.go:391`), so with more than a hundred documents it skips some; its
  comment says it deletes all.
- The comments on `concurrency` say the default is 3 (`batch_workflow.go:89`,
  `batch_sync.go:66`); the constants are 1 and 10.
- A callback may report "pending" (`sync.go:312`); the row stays pending and the
  run becomes successful, against the comment at `sync.go:331`.

Batch dialogs and history of runs.
- After a refused batch the summary (`BatchWorkflowModal.tsx:976`) counts the
  nodes that have a result, not all of them.
- An execution that is left with Escape goes on in the background, and its
  answers reach into the next one; the properties of an execution are about
  clean ones.

Document list, editor and versions.
- A move unbinds the document from every node before it binds it to the target
  (`useDocumentDrag.tsx:101-131`): a call that fails leaves it in no node. Two
  overlapping removals, or a removal during a move, may do the same, since
  `handleSoftDeleteDocument` (`App.tsx:441`) acts on the bindings it was told of
  before the dialog.
- The dialog of a drop stays usable while its operation is running.
- The total shown for the list subtracts all source documents of the node, also
  those that the filters have left out (`DocumentContext.tsx:397`), and the page
  is not reset when a node is selected or searched.
- What was typed while a save was under way is replaced by the document fetched
  after it (`DocumentEditor.tsx:759`). In create mode (680-721) saving twice
  makes two documents, and one whose binding fails is in no node.
- The trash query is disabled while its parameters are part of its key
  (`DocumentContext.tsx:189-194`): searching or paging the bin (350-362)
  fetches nothing until it is refreshed.
- Opening the drawer of versions first fetches the page the last document was
  left on (`DocumentContext.tsx:364-377`). The mark of a version being restored
  compares numbers only.
- `DocumentReferenceModal` loads its candidates unguarded; a late answer of
  another search is shown.
- A change of references writes back the whole metadata it has read
  (`documents.go:535-539`, `602-606`), so other metadata saved in between are lost
  with it.
- Deleting a document in one view and opening another, never loaded, that lists it too
  before the deletion is answered leaves it on the screen (`DocumentContext.tsx:215-229`);
  the same goes for a page of versions first fetched beside a restoration.

Panels, tree and buttons.
- A second operation on the tree is not kept from starting by the first: one
  mark, `isMutating`, serves all, a drag does not look at it, and a dialog that
  ends clears it. Cut nodes can be pasted twice, and after an error only the
  bin is fetched again.
- Creating a root, restoring or purging while the tree is loaded for the first time
  leaves a tree on the screen that may lack the change (`useTreeActions.ts:29-31`).
- `useDeletePreview` takes its answer even if something else was asked meanwhile, and
  of two copies of documents the one answered last is in the clipboard. A document
  removed while the list is copied pushes one onto a page that was read, which the copy
  then misses. `handlePasteAsSourceDocs` counts every source a node had as skipped,
  pasted or not (`CategoryTreePanel.tsx:542`), and tells the panel of the sources nothing. Two
  tabs overwrite each other's tag cache.
- A load of the user that was begun for an earlier token and is answered last shows that
  token's user; one that fails late, any 401 to a request sent before, a wrong old
  password among them, and any failure of `/me`, be it of the network, drop a
  login made since (`AuthContext.tsx:59-80`, `http.ts:50-62`). A tab notices nothing of another's
  login or logout.
- The query `node-source-docs` is never invalidated; `refreshRuns` of
  `WorkflowManager` puts down the runs of a node that was left.
- `SyncButton` counts evaluations of the interval, not polls. A sync that ends
  before its first refetch shows no change of status, so the document is not
  fetched again. With its progress closed, `DocumentWorkflowButton` never
  refreshes the editor.
- The menu of batch synchronisations does not look for overlapping nodes.

## 6. Not modelled, and plan

In the order of importance:

1. Repositioning one category (`category.go:645`), whose move stands when the
   reordering fails.
2. `BatchRun` composed with `WorkflowRun` and with `DocSync`: what the user
   of a batch may conclude from its counts about the runs.
3. `WorkflowSync`: upsert by deployment id or key, definitions marked missing,
   the in-memory flag. Worth proving: no two definitions share a deployment.
4. `Permissions`: grants and revocations against roles and the deletion of
   courses.
5. Of documents: copying one, the editor's create mode, reordering, and the pages
   of the bin.

A run is spent on each question only once; the runs of the plan replace those
of lesser findings if need be.

Left out for good: document types, assets, clients, configuration, migrations
and command-line tools, which have no state of their own or none that two
actors share; the server's side of authentication, which is cryptography and a look-up; and of the
web client the roles of the session and the pages of administration, which are forms and
tables around one request each.
