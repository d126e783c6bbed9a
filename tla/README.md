# Verification of dte-service

dte-service issues Chilean electronic tax documents (DTE) for several customers: an ERP posts a sale, the service takes
an authorised folio, stamps and signs the document, uploads it to the tax authority (SII) and answers with the signed
XML. What must not go wrong is countable: a folio used twice, a sale emitted twice, a folio lost without a trace, a
document the SII holds and nobody else does. This directory holds TLA+ models of the code where those things are
decided, TLC configurations that check them, and TLAPS proofs of what matters most for any number of workers, CAF files
and folios.

    tlc -workers 2 -config MCFolioAllocator.cfg MCFolioAllocator      # likewise for every run of PROJECT.json
    tlapm FolioAllocatorProofs.tla                                    # likewise for the other *Proofs.tla

## 1. Inventory

The service is a FastAPI application with several workers. A request runs in one thread with one SQLAlchemy session
(`autoflush=False`, `expire_on_commit=False`) on PostgreSQL at READ COMMITTED: nothing but row locks, unique constraints
and conditional updates orders two requests, and a worker may die between any two commits.

| Component | State | Operations | Interacts with | What makes it correct |
|---|---|---|---|---|
| Folio allocator (`folio_service.py`) | `folio_pointer`, `caf`, `folio_assignment` | `next_folio`, `ensure_pointer`, `caf_for_reserved`, `mark_assignment`, `folio_report` | called by every emitter; reads what CAF administration writes | no folio twice, none outside an authorised range, none lost in between, an inventory that agrees with the allocator |
| CAF administration (`customer_service.py`) | `caf`, `customer.environment` | `add_caf`, `retire_caf`, `update_customer` | races with `next_folio` | ranges disjoint, no unusable CAF stored |
| Idempotency (`idempotency.py`) | `emission_request`, `issued_document` | `run`, `stored_xml` | wraps every emitter of `routers/dte.py` | a key emits at most once, a replay tells the truth |
| Emission (`dte_service.py`) | none of its own | `issue`, `issue_export`, `issue_settlement` and their lots | allocator, SII client, idempotency | every folio taken gets an outcome, and the right one |
| SII client (`sii_client.py`, `_http.py`) | token of one session | authenticate, upload with retries, queries | the SII | errors that say whether the document may have arrived |
| Receipts (`receipt_service.py`) | `issued_receipt`, `receipt_submission` | `issue_batch`, `refresh_submission`, folio report | allocator, SII | every receipt sent is stored and counted |
| Certification dossier (`certification_service.py`, its router) | sets, submissions, definitions | `emit`, `send_draft`, `discard`, `refresh`, `capture`, `declare` | emitters, SII client | what the page shows in green was delivered; what is reported about documents is about documents the SII has |
| Certification content (`certification_sheet.py`, `_fill`, `_checks`, `_compare`) | the definitions of the sets | read the SII's text of the test sets and load it, fill a set, generate a book from envelopes, review before emitting, compare two emissions | dossier, allocator, engine | nothing of the text is lost, a note is worth what it says; what the review calls ready can be emitted; equal means equal |
| Users (`user_service.py`) | `user` | create, activate, deactivate, archive, restore | portal | one superadmin remains |
| Second factor (`totp_service.py`) | `user.totp_*`, `recovery_code` | enrol, confirm, login, recover, switch off | portal | a code opens once, what is asked for was confirmed |
| Rate limiter (`ratelimit.py`, `redis_ratelimit.py`) | events per key in memory or Redis | `hit`, `is_limited`, `record` | login, tenant, quota | at most n events per window |
| Engine (`vendor/dte_chile`) | none; `FolioManager` keeps a file | totals, books, settlements, export, dates of a CAF; build, stamp, sign, parse | everything above | amounts that add up to the peso wherever they are read back; folios given once |
| Registry of purchases and sales (`rcv.py`, `rcv_service.py`) | none | query, normalise, reconcile | SII | balanced means equal |
| Exchange, cession, BHE, public site, audit, tenancy, certificates, portals, deployment | rows written once | stateless transformations, queries, uploads | | see "not modelled" |

Where it is hard:

* **Interleavings.** Two calls of `next_folio`; a call against an upload, a retirement or a change of environment that
  take no lock; two requests with one idempotency key; two requests on one reserved folio; two operators of one dossier;
  two removals of superadmins; one code presented twice; processes that share the engine's registry file.
* **Crashes** between taking a folio, uploading, recording the outcome, archiving and closing the key; between writing
  the engine's file and returning the folio.
* **Unreliable delivery.** The upload may arrive and its answer be lost; the HTTP session retries the POST by itself;
  the ERP repeats a request it never saw answered; Redis fails and comes back.
* **Stale reads.** The Customer and the CAF rows are read before the commit that relies on them; the inventory reads
  columns that old rows lack; a dossier page acts on rows that have changed; the review counts folios by code of its own.
* **Boundaries.** The last folio of a range, gaps between ranges, the day a CAF expires by three clocks, halves of a peso.

`PROJECT.json` lists each hazard at its line with the property that covers it, or why none does.

## 2. Modules

### FolioDispenser, OncePerKey — the promises

Two abstract specifications, implemented by the models below (`INSTANCE ... WITH`, checked and proved):

* `FolioDispenser`: calls receive authorised numbers, each above all before it. One action, `Give`. It says nothing of
  locks, CAF rows or expiry. `FolioAllocator` implements it; `Emission` and `Lots` (one dispenser per type) draw on it.
* `OncePerKey`: what an Idempotency-Key promises to whoever repeats a request. One request at a time works under a key
  (`Begin`), takes a number (`Number`), lets its document leave (`Deliver`, for one request of the key only), and answers
  (`Answer`), gives the key back while nothing has left (`GiveBack`) or gives up with the key taken (`GiveUp`); a
  repetition is told the same number (`Repeat`). It says nothing of rows, uploads, retries or crashes. `Emission`
  implements it for the requests that carry a key.

### FolioAllocator — `folio_service.py` with `add_caf`, `retire_caf`, `update_customer`

One customer and one document type; every query of the code filters by both. `next_folio` is a transaction that others
interleave with, so it is several actions:

| Action | Code |
|---|---|
| `Begin` | the tenant dependency loads the Customer, whose environment the session keeps (`seenEnv`) |
| `NoPointer`, `LockPointer` | the `SELECT ... FOR UPDATE`, which waits for the row and reads `last_folio` |
| `ChooseCaf` | the query of candidates and the loop to its `break`: the first usable CAF by `folio_from`; `examined` are the rows it backfilled |
| `Exhausted` | the `else` of the loop: commit, then FoliosExhausted |
| `CommitFolio` | pointer, `exhausted`, backfilled columns and `FolioAssignment` in one commit, with the unique constraint |
| `Abort` | the worker dies or a CAF does not decrypt: rollback |
| `CheckCaf`, `FlushCaf`, `CommitCaf` | `add_caf`: the checks and the overlap query; insert and `ensure_pointer`; the commit of the router |
| `RetireCaf`, `UpdateEnvironment`, `NextDay` | the administrator and the calendar |

`row`, `filled`, `hasPointer`, `last`, `assigned` are the tables (`filled`: the rows whose `key_id` and dates are set);
the rest is the memory of calls and uploads. `CafState`, `Remaining` and `UsableRemaining` are what `folio_report`
computes from the columns. `Legacy` CAFs are the rows stored before those columns existed: loaded at the start, not
filled, possibly expired or without `<IDK>`, which an upload would refuse today.

### Emission — `idempotency.run` around `dte_service.issue`

One customer and one document type, an `Attempt` per HTTP request, a `Sale` per document of the ERP. The key of a sale
is the sale. Every database commit and every exchange with the SII is an action of its own, so that a crash or another
request can come in between. `mark`, `response` are `EmissionRequest`; `archive` is `IssuedDocument`; `status` is
`FolioAssignment.status`; `received` is what the SII has, which the service cannot see. The upload is up to `MaxTries`
POSTs (`build_session`), each of which may be answered, be lost after or before arriving, or not connect. An answer
without TrackID may mean that the SII has the document or not: `send_dte` returns it, and `issue` records it as issued,
in both cases. A document that fails to build raises a data error or an engine error: the engine uses ValueError for
some of the former. Folios come from the `Give` step of `FolioDispenser`, reserved or not; `DrawsFromDispenser` says so
as a refinement.

`KeepsPromise` is the refinement of `OncePerKey`: a key is open while it has no mark, done when the mark is, and taken
otherwise; at work is the attempt between its claim and its answer, if its worker lives; its number is its folio; it has
delivered once the SII has its folio from it; it was told what its answer or its replay said. A crash is `GiveUp`, and so
is `_close_failed` when it keeps the mark. A POST repeated, an outcome recorded, an archived row are stutters.

### Lots — `issue_batch` and its twins, `receipt_service.issue_batch`

One customer, any number of document types. A `Lot` is a request; `Docs[l]` its documents, each with its type, the
reservation it names (receipts only: the schema of a DTE lot has no such field) and the position it refers to. Folios
are taken one transaction per document (`TakeNext`, `TakeReserved`), outcomes recorded one transaction per document
(`RecordOutcome`), so that a crash or another lot can come between any two. `BuildFails` always happens to a lot with a
reference it cannot resolve. `Store` is `_register` and `_store`: submission and receipts in one commit, with the unique
constraint of `issued_receipt`; it runs outside every `except`, so that a clash leaves the folios assigned (`conflict`).
The upload is one step with the outcomes `Emission` shows to be possible. `outcome`, `marked`, `answer` are what the
request has in hand; the rest are tables. DTE lots run inside `idempotency.run`, receipts without any key.

### Certification — `certification_service.py` and its router

The dossier of one customer: `Kind[s]` is the kind of set `s`, `subs` the rows of its envelopes (a draft has `track`
0), `sii` the uploads the SII received, each with the row it came from and the verdict the SII has reached, `declared`
the sets declared. Folios, XML and dates are abstracted; an answer of the SII is a record of state and counts, of which
the code's own classification is kept (`EnProceso`, `Aceptados`, `Rechazos`, `Entregado`).

| Action | Code |
|---|---|
| `EmitDocuments`, `EmitBook`, `FolioReport`, `Store` | `emit`: look for a draft, choose the source of a generated book, emit, insert the row |
| `AskSource`, `AskFails`, `BuildBook` | `refresh_book_sources` and the envelopes a book is read from |
| `Send`, `SendUntracked`, `StoreTrack` | `send_draft`: the upload, with or without answer, and the commit of what it answered |
| `Discard`, `Delete` | `discard_submission` and `discard` |
| `Refresh`, `StoreAnswer` | the query of a status, and the commit of its answer |
| `Emission`, `Capture` | another emitter's upload and `capture`, which files it in the dossier |
| `Assign`, `Declare`, `Crash`, `Decide` | the operator, a worker that dies, and the SII |

`EstadoColour`, `Stages`, `SetState`, `StateOfKind`, `SetsStep`, `Printable` are what the page derives from the rows.

### PortalUsers, SecondFactor, RateLimiter — the portal's shared state

* `PortalUsers`: the rows a superadmin manages. A request reads, counts the other superadmins (`BeginChange`) and
  commits later (`CommitCreate`, `CommitActive`, `CommitArchived`); `raced` remembers that a removal was overtaken.
* `SecondFactor`: one account, whose row a request reads at its beginning and writes at its end, column by column.
  `accepted` lists the codes accepted, `epoch` counts how often the last step was forgotten by switching off, `uses`
  counts the sessions each recovery code opened, `lost` that a request wrote over a row changed since it read it.
* `RateLimiter`: one key. A call acts on Redis or, if that fails, on the memory of the process; "hit" is atomic,
  "is_limited" and "record" are two calls with the verification of a key between them. An event is its position in
  `events`, with its instant and the place that counted it; queues are sets of events. Threads belong to processes and a
  `shared` process is one whose `make_limiter` reached Redis when it started.

### EngineFolios — the engine's `FolioManager`

Processes with their own list of CAFs and their own copy of a registry file. `Lock` reads the file again, `Choose`
moves the copy on, `Save` writes and unlocks, `SaveFails` unlocks without having written, `Return` hands the folio out,
`Restart` is a new process. The service does not use it; it is the engine's own allocator.

### The computations

Pure operators, translated function by function, with the reference definitions beside them:

| Module | Code | Reference |
|---|---|---|
| `Amounts` | `round()`, `ROUND_HALF_UP`, sums, and elements printed only when they say something (`Field`, merged by `++`) | |
| `Documents` | `models.py` (lines, discounts, VAT, retentions, taxes by line), `settlement.py`, `export_invoice.py`, what `xml_builder.py` prints | `TotalsClose`, `TaxOfNet`, `HeaderTaxesOnLines` |
| `Books` | `book_service.py`, `book.py`, `guide_book.py`, `folio_report.py` | the sums of the detail: `BookAddsUp`, `GuidesAddUp`, `ReportCoversFolios` |
| `SalesLines` | `certification_fill.py`: the line of the sales book a document of an envelope becomes | `LineIsWorth` |
| `DossierContent` | `certification_fill.py`: what the system completes in a set, the guides read back from envelopes | `Readiness` |
| `Readiness` | `certification_checks.py`, the requirements of a set, the emission of a simulation | `FoliosSuffice`, `ReceiversDiffer`, `TransfersAreValid`, `SimulationIsWhole`, `NothingIsMissing` |
| `Registry` | `rcv.py` `_normalize`, `rcv_service.py` `reconcile` | `BalancedMeansEqual` |
| `Sheet`, `SheetFile` | `certification_sheet.py`: the text the SII hands out, read line by line, case by case and set by set; `import_sheet` and `_apply_sets`, which load it | `Sheet!SheetsAreWhole` |
| `Template` | `certification_template.py`: the test sets a dossier begins with, run through `Documents`, `Books` and `Readiness` | `SetHoldsTogether` |
| `Comparison` | `certification_compare.py` | `SameContent` |
| `CafDates` | `caf.py` `expires_on`, the dates `next_folio`, `folio_report` and the stamp take | six months, counted day by day (`UsedInTime`) |
| `Computations` | the totals of the three kinds of document, the dates of a CAF, the comparison, the registry and the three kinds of book, each as one step from a question to its answer; a document is asked about if the engine accepts it | `TotalsReachTheBook`, `CafNeverOverstays`, `ComparisonsTell`, `SummaryMatchesDetail` |

In `Sheet` a line of the text is its first cell, what it says, the keywords in it and its numbers: spelling, accents and
tabulators are abstracted, the order of the tests and every refusal are kept. `SheetSamples` holds the texts the run
reads. A definition that was read becomes the request the service would emit (`AsRequest`), and its worth is computed by
`Documents`.

### Composition and MC modules

`MCFolioAllocator`, `MCEmission`, `MCLots` and `MCCertification` give the constants their values. `MCPortal` extends the
three modules of the portal, which share no state, and runs them in one run: its initial state chooses the one that moves.
`MCAlgorithms` does the same for `EngineFolios`, for the computations of `Computations`, whose questions it lists, and for
the others, an input and one step to its output.
Operators whose comment begins with "Seeded fault" are wrong variants of the definition that follows them: each property
was checked to fail under one.

The proofs are in modules of their own: `FolioAllocatorProofs`, `EmissionProofs`, `LotsProofs`, `CertificationProofs`,
`EngineFoliosProofs` and `RateLimiterProofs` each extend the module they are about, `PortalProofs` extends `PortalUsers`
and `SecondFactor`, and `AlgorithmsProofs` extends `Computations`.
What is proved about uses no `RECURSIVE` operator, and no `@@`, which the provers cannot expand.

## 3. Runs

| Run | Question | Result |
|---|---|---|
| `folio_allocator` | do three calls, against every administrative action over four CAFs, keep all the properties below? | holds |
| `first_caf` | from an empty table, do the first uploads of a type, racing with each other and with calls, leave one pointer that never goes back (`ImplementsDispenser`)? | holds |
| `caf_overlap` | does `add_caf` keep loaded ranges disjoint? | violated |
| `emission` | do two requests with one key and one request without, with reservations, retries, cuts and crashes, keep all the properties below? | holds |
| `lots` | do a lot of DTE, a lot of receipts and a second request for its reserved folio, with failures at every step and crashes inside the loops, keep all the properties below? | holds |
| `certification` | do two requests at a time, over a dossier of three sets, with lost answers and crashes, keep all the properties below? | holds |
| `portal` | do concurrent changes of accounts, uses of a second factor and attempts at a limit, with Redis failing, keep all the properties below? | holds |
| `algorithms` | do the computations, over bounded inputs, agree with what reads their results, and does the engine's file lock keep folios unique? | holds |
| `lots_refused` | does a lot refused as malformed spend no folio? | violated |
| `emission_failed` | is a folio recorded as failed only if its document never arrived? | violated |
| `emission_reserved` | is a reserved folio emitted on once? | violated |
| `emission_archive` | is every document emitted archived? | violated |

Properties of the allocator:

* `NoConflict`: no call ever meets the unique constraint on the folio, so the lock alone is enough.
* `NoHoles`: with disjoint ranges the folios assigned from a CAF leave none behind them unassigned.
* `ReportAgrees`: for a row with its columns filled, the inventory says in_use or pending exactly when a call starting
  now would accept the CAF. For a row not yet filled it does not hold, and cannot: the columns are empty until
  `next_folio` opens the file.
* `CountsDown`: `usable_remaining` loses exactly the folio handed out. Where the call's picture was stale (the CAF was
  retired, expired, or a lower one arrived between reading and commit) the property excludes the step, by comparing
  with the state the commit meets.
* `SkippedIsReported`: a CAF passed over for its date or environment is reported so while it has unused folios.
* `CallsEnd`: a call that begins is answered.
* `ImplementsDispenser`: the refinement.

Properties of emission:

* `KeyEmitsOnce`: of the attempts with the key of a sale, the documents of at most one reach the SII, however they
  overlap, fail or crash. A key that ended in failed or was left running by a crash stays closed, which is what makes
  it hold.
* `ReplayNamesDocument`: when the mark is done, the stored response names the document emitted, and it is archived.
* `KeepsPromise`: the refinement of `OncePerKey`. It orders what the invariants say of single states: a key is given back
  only by a request that delivered nothing, and once it is answered or given up no later request begins, delivers or
  changes the answer.
* `OrphansComeFromCrashes`: a folio keeps the status assigned only while its attempt runs, after a crash, or reserved
  and unused: no error path forgets to record the outcome.
* `DrawsFromDispenser`, `AttemptsEnd`: the refinement of `FolioDispenser`, and termination of every request whose worker
  lives. That two sales never share a folio (`FolioIsOfOneSale`) is proved.

Properties of lots:

* `FateIsShared`: once its request is answered, every folio of a lot has the same, final status. Two requests on one
  reservation, or a worker that died in the loop, are the only exceptions.
* `IssuedReceiptIsStored`: a receipt whose folio counts as issued can be fetched, whatever crashed or clashed.
* `SubmissionCounts`: a submission has exactly the receipts of its lot, and no receipt that travelled lacks one.
* `ReservedNotReused`: receipts have no key, so the status of the reserved folio is all that stops a repeated request;
  it does, unless the earlier one is still in service, died, or clashed.
* `DrawsFromDispenser`, `LotsEnd`: the refinement for each type, and termination.

Properties of the certification dossier:

* `GreenIsDelivered`: the light of a set is green only if the SII accepted every document of its last envelope, and
  "with objections" only if that envelope is at the SII and was refused neither as a whole nor in all its documents,
  whatever the order in which TrackIDs and answers are stored; the procedure is then not shown as not begun.
* `ReportsWhatSiiHas`: a generated book comes from an envelope the SII accepted, an RCOF from receipts that reached it,
  and printed samples from something that was uploaded, also when the source was sent again or deleted meanwhile.
* `DraftsBounded`: drafts nobody forced are at most as many as the requests that overlapped.
* `TracksAreOwn`: a TrackID stays on the row of its envelope, and a verdict comes from an upload of it.

Properties of the portal:

* `SuperadminRemains`: a superadmin who can log in remains. Two removals that counted each other are the exception
  (`raced`), and the code allows it: see the disagreements.
* `CodeOpensOnce`: a code opens once, however it is presented, until switching off forgets the last step.
* `RecoveryBounded`: a recovery code opens at most as many sessions as requests read it before one marked it.
* `EnabledIsConfirmed`: the secret that is asked for was confirmed, unless a request wrote over a row it had not read
  (`lost`).
* `LimitHolds`: no window lets through more than the limit: exactly, while all share Redis; once per place where events
  are counted, when it fails; and for the limit on failures, plus the requests that were being verified at the time.

Properties of the computations:

* `TotalsReachTheBook`: what a document, a settlement or an export prints adds up to its total, the tax is the one of
  its net, the header's taxes are carried by lines, and its line in the sales book is worth the same. A total is not
  negative if no line with a tax of its own is: the engine itself only looks at the net and the exempt amount.
* `SummaryMatchesDetail`: the summary of a book, of a guide book and of a report of folios is the sum of its detail; the
  lines come from a request or, of guides, from envelopes.
* `ComparisonsTell`: a reconciliation that balances has equal totals on both sides, and two emissions compare equal
  exactly when they say the same.
* `CafNeverOverstays`: a CAF is used until six months after its authorisation and no day more, by whichever clock.
* `SetsAreWhole`: in the sets of the template, a note that annuls a document carries its amounts and refers backwards, and
  the book made of a set adds up. And what is read of the SII's text is whole. Every set and case of the text is there, in order; no row
  of a table is lost or invented in a document that can be emitted; a note that annuls a document without items of its
  own is worth what that document is, one that corrects a text is worth nothing, and one that gives back units whose
  price the text leaves out is worth at most what it refers to, and as much if it gives back everything. A text refused
  changes no stored set, loading one again changes nothing, and no set of another number is touched.
* `ReadySetsGoOut`: a dossier reviewed without errors has the folios, the receivers and the valid transfers its sets
  take, and a simulation goes out whole or spends nothing.
* `EngineFoliosUnique`: the engine gives a folio once, inside a range, and no process remembers more than the file has
  unless its save failed.

The violated ones are statements of the repository's own comments (quoted in `findings`):

* `Disjoint`: two uploads of the same range run the overlap query before either commits. Both are stored, and the
  administrator sees two CAFs with the same folios. No folio is handed out twice even so (`NoConflict` and the
  refinement do not assume disjoint ranges): the pointer never goes back.
* `FailedNeverArrived`: a try of the upload arrives and is not answered, the last one does not connect, and the
  ConnectTimeout reads as "never left".
* `ReservedEmittedOnce`: `caf_for_reserved` checks a status that changes only after the upload.
* `RefusedLotSpendsNothing`: the position a reference points to is compared with the lot only after every document has
  its folio; the lot is then refused as malformed, its folios burned and its key freed for the next try.
* `EmittedIsArchived`: the archive is written from the result of `issue`, and an upload without an answer has none.

### Bounds

* Allocator: three calls (one waits for the lock while another holds it and a third reads stale rows), four CAFs of two
  folios (a first and a last folio each, a gap between two ranges, one expired after the first day, one of each
  environment, one whose range another already has), two days. `first_caf` starts with
  no CAF and has two calls and two uploads in one environment; `caf_overlap` needs two uploads and one call.
* Emission: a key used twice and a sale without a key (the request that races with a keyed one), two folios so that
  they run out, two POSTs per upload (the shortest sequence in which a retry exists; the code makes four). The
  violation runs use one sale.
* Lots: two documents of DTE that refer to each other, two receipts of which one is reserved, and one request that
  repeats that one; two folios per type, so that the reservation and the other receipt may exhaust them or not.
* Certification: two requests at a time (every race of the router is between two), a set of documents, the book made of
  it and the set of receipts, four rows and uploads in all, two final verdicts: everything accepted, and everything
  refused in an envelope that is processed. The two requests are interchangeable (`SYMMETRY`), which is sound because
  the run checks no liveness. With envelopes accepted in part, with objections or refused as a whole among `Answers`,
  the properties hold at `MaxRecords = 3`; the run prefers the fourth row.
* Portal: three accounts, two requests, five changes; steps of time 2 to 4, two enrolments, two codes accepted; three
  threads in two processes, limit and window of two, five instants, five calls. Two requests overtaking each other is what every one
  of these races needs.
* Algorithms: documents of up to two lines that meet halves of a peso (`Items`), each kind of discount, retention and
  tax; books of up to three lines, one of each kind of content; registries of up to four rows against up to two
  documents; authorisations at the ends of months, of leap and common years, asked about within three days of the end
  at three hours; dossiers that vary in CAFs, pointer, certificates, definitions and receivers, and those begun from
  the template; envelopes of up to two documents. Texts of the SII: about 1900 lists of files, each over three states of
  the stored sets, built from the kinds of case the real texts have (a sale with two notes, an export with its customs, a
  settlement, a guide, the books, the receipts) and from what the reader refuses; amounts are small, because those of
  the real texts in hundredths of a currency overflow TLC's integers. Two processes of the engine, three CAF files of which two overlap,
  one crash. The template is run at two filler prices; its real one overflows TLC's integers in ten-thousandths.
* `CHECK_DEADLOCK FALSE`: calls, attempts, lots and requests are finitely many and end, and computations are one step.

### Fairness

Weak fairness of a call's, attempt's or lot's own steps. The thread of a request keeps running; database and HTTP waits have a
timeout; PostgreSQL grants a freed row lock to a waiter. Nothing is assumed of the ERP, the administrators, the calendar
or crashes. With finitely many calls weak fairness suffices: a call can be overtaken only as often as there are others.
The dossier, the portal and the engine are checked for safety only: nothing obliges an operator to press a button, and a
request there is a single pass without waiting.

### Left out of these models

* Several customers (independent), and `issue_export` and `issue_settlement` (same sequence as `issue` with another
  builder). A lot that names one reserved folio twice counts as contested: the code lets it through.
* The content of documents. Building one either succeeds or fails.
* A reservation whose answer the ERP never sees: a folio that stays assigned and is used by nobody.
* In `FolioAllocator`, one clock for allocator and inventory; `CafDates` compares the three.
* Threads that share one `FolioManager`, and a Redis that comes back without its keys.

## 4. Proofs

`FolioAllocatorProofs` proves, for any set of calls, any CAF files with `from <= to`, any dates and environments
(`CafAssumption` is the only assumption on them):

| Theorem | Statement |
|---|---|
| `Invariance` | `Spec => []IInv` |
| `TypeCorrect` | `Spec => []TypeOK` |
| `LockSuffices` | `Spec => []NoConflict` |
| `Correlativity` | `Spec => []NoHoles` |
| `ReportIsFaithful` | `Spec => []ReportAgrees` |
| `SkippedStaysVisible` | `Spec => SkippedIsReported` |
| `RemainingCountsDown` | `Spec => CountsDown` |
| `Refinement` | `Spec => ImplementsDispenser` |

The properties are not inductive by themselves. `IInv` conjoins `TypeOK`, `NoConflict` and `NoHoles` with what the lock
means: a call between `LockPointer` and its commit is the one that holds it (`LockHeld`), and the target it read is still
`last + 1` (`TargetFresh`); the CAF it settled on is loaded and reaches that target (`PickLoaded`); every assigned folio
is at or behind the pointer (`AssignedBehind`), the pointer itself is assigned (`PointerAssigned`), assigned folios belong
to loaded CAFs (`AssignedAuthorised`), and only served calls have a folio (`GivenServed`). So the folio about to be
committed lies above the pointer, in the chosen range, and nobody has it (`NextFolioFresh`): that gives `NoConflict`, the
type of `last` and the step of the refinement. `NoHoles` follows because the new folio is either the successor of an
assigned one or the first of its range, which is where `PointerAssigned` is needed. The proof goes action by action:
`CallStepIInv`, `CommitIInv`, `AdminIInv`. `SkippedIsReported` needs a second invariant, `PassedOver`: every examined CAF
but the chosen one still fails the test it failed in `ChooseCaf`, unless the environment has changed since the request began.
`CountsDown` follows from `ReportAgrees` before and after the step, which says in terms of the pointer what the inventory
counts, and from `TargetFresh`: no other usable folio lies between the old pointer and the new one.

`EmissionProofs`, for any attempts, sales, keys, number of folios and retries (`EmissionAssumption`):

| Theorem | Statement |
|---|---|
| `Invariance`, `TypeCorrect` | `Spec => []IInv`, `Spec => []TypeOK` |
| `KeysEmitOnce` | `Spec => []KeyEmitsOnce` |
| `ReplayIsFaithful` | `Spec => []ReplayNamesDocument` |
| `FoliosOfOneSale` | `Spec => []FolioIsOfOneSale` |
| `OrphansExplained` | `Spec => []OrphansComeFromCrashes` |
| `Refinement` | `Spec => DrawsFromDispenser` |
| `PromiseKept` | `Spec => KeepsPromise` |

`KeyEmitsOnce` says nothing of attempts that have not sent yet, so `IInv` adds who may still send: an attempt past its
claim finds the mark running (`HolderRuns`) and is alone with the key (`OneHolder`, from the unique constraint); the mark
is deleted only from places where nothing was sent (`Unsent`); hence what was sent keeps the key (`SentKeepsKey`). For
folios: none lies ahead of the pointer (`FoliosBehind`), an attempt has one exactly in the places after it took it
(`Numbered`), a reserved one serves its sale only (`ReservedForSale`), and it has its outcome before the attempt ends
(`Settled`). For the archive: an archived document is of a sale whose attempt has the folio (`ArchiveOfSale`), and a
request that answers has archived (`ArchivedHere`, `DoneIsArchived`). One lemma per action; `MoveInv` covers those that
only change the place of an attempt.

`PromiseKept` maps every action to a step of `OncePerKey` or to a stutter (`OnceStep`). Most change the place of an attempt
without ending its work (`SilentStays`). What ends it leaves nobody at work under the key (`AloneAtWork`, `HolderStops`,
from `OneHolder`); a mark is deleted only when no document of its key has left (from `SentKeepsKey` and `Unsent`), and a
document leaves only when none has. The workers and the documents of the other keys stay (`KeysStay`, `StayApart`). Whoever
was answered finds the mark done (`AnsweredOnceDone`), so what was said under a key never changes.

`EngineFoliosProofs` proves `EngineFoliosUnique` (`FoliosAreUnique`) for any processes, any CAF files with `from <= to`
and any number of crashes (`ProcessAssumption`, `CafFileAssumption`, `CrashesAssumption`): whoever has the lock has the
registry of the last writer (`HolderIsCurrent`), a folio saved and not yet returned is of one process (`PendingIsOwn`)
and of a loaded range (`TargetAuthorised`), and every folio returned was saved (`GivenIsStored`).

`LotsProofs`, for any lots of any documents, any reservations, types and number of folios (`LotsAssumption`: a position
names a reservation only in a lot of receipts and of its own type, as the schemas have it):

| Theorem | Statement |
|---|---|
| `Invariance`, `TypeCorrect` | `Spec => []IInv`, `Spec => []TypeOK` |
| `FatesAreShared` | `Spec => []FateIsShared` |
| `IssuedReceiptsAreStored` | `Spec => []IssuedReceiptIsStored` |
| `SubmissionsCount` | `Spec => []SubmissionCounts` |
| `ReservedIsNotReused` | `Spec => ReservedNotReused` |
| `Refinement` | `Spec => DrawsFromDispenser` |

None of these is inductive. A folio lies behind the pointer of its type from the moment it is given (`Behind`), so what a
position took without naming a folio nobody else has (`OwnAlone`): only a reservation can be shared. What a lot has
recorded is its outcome unless another lot has the folio (`Recorded`); at the end of the loop that is the whole lot,
which gives `FateIsShared`, and "no longer assigned" is what `caf_for_reserved` asks for, which gives
`ReservedNotReused`. A lot of receipts comes to the loop that writes "issued" only through `Store` (`IssuedAreStored`),
stored rows are of lots past it (`StoredAreHeld`), and a lot ends in a conflict only if one of its folios was named twice
(`ConflictIsContested`). Counting receipts is counting the distinct folios of a lot (`HeldCount`, `ImageCount`).

`CertificationProofs`, for any finite set of workers, any sequence of sets and any final answers of the SII
(`CertificationAssumption`):

| Theorem | Statement |
|---|---|
| `Invariance`, `TypeCorrect` | `Spec => []IInv`, `Spec => []TypeOK` |
| `TracksStayOwn` | `Spec => []TracksAreOwn` |
| `DraftsStayBounded` | `Spec => []DraftsBounded` |
| `ReportsAreTrue` | `Spec => []ReportsWhatSiiHas` |
| `GreenStaysDelivered` | `Spec => []GreenIsDelivered` |

The record of the SII only grows (`Grows`): an upload keeps the envelope it is of once it has one, and its verdict once
it is final. So what a request learned and carries in its variables, a TrackID, an answer, a view of the rows, a source
it found accepted, is still true when it is stored, however late (`JobFits`), and what rows say stays true (`RowFits`).
Two captures never hold the same TrackID (`UploadedApart`). `DraftsBounded` is not inductive because a request past the
check will add a draft: the drafts and the requests about to store one are bounded together (`DraftsInv`), since a
request passes the check of `emit` only while there is no draft, and is then one of at most as many as there are workers. `GreenIsDelivered` then follows from `RowFits` for the
last row of the set, with `MaxIsMember`, the existence of the greatest element of a bounded set of naturals, proved from
the well-foundedness of `<`.

`RateLimiterProofs` proves `LimitHolds` (`LimitIsKept`) for any finite sets of threads and processes, any limit, window,
clock and number of calls (`RateLimiterAssumption`). What a place let through in the window that ends now is still in
its queue (`QueueKeeps`), so a queue that is not full means a window that is not; a window that ends later holds no more
than this one, and one that ended before does not change (`HitsBounded`, `FailuresBounded`). For failures, every request
under way found room when it asked, so the events of the window and the requests pending on a place together exceed the
limit by at most the threads less one (`RoomForPending`). With Redis and the memories of the processes all counting, the
bound of a window is the sum over the places (`WindowOfAllPlaces`).

`PortalProofs` proves, for any finite number of requests (`SecondFactorAssumption`): `CodesOpenOnce` from the last step on
the row being the highest accepted (`LastIsHighest`), which the conditional UPDATE maintains; `EnrolmentIsConfirmed` from
what a request that found the factor off had read (`SetupReadOff`); `RecoveryIsBounded` by counting, for each code, its
uses together with the requests that still hold it (`LookupsBounded`), which is where finiteness is needed. And
`SuperadminRemains` (`GuardSuffices`) for any finite number of accounts and any requests (`PortalUsersAssumption`): a
request about to remove a superadmin has counted another one who can log in, unless the rows changed after it did
(`CountedAnother`), and that is what `raced` records.

`AlgorithmsProofs` proves what the computations of `Computations` promise, for any questions of the types its
`QuestionsAssumption` states: those of the schemas and of the SII's formats, and that the registry of the SII writes a RUT
in one form. The invariant is that every answer is what the code computes of its question (`ComputationInv`,
`AnswersAreComputed`); the rest are facts about the operators.

* `CafsNeverOverstay` (`CafNeverOverstays`), from `CafIsUsedInTime`: for any day of authorisation, any instant, any offset
  of Chile behind UTC and a host on either of the two. The order of dates, the day before and after (`YesterdayIsNext`,
  `TomorrowIsAfter`) and the clamping of `_add_months` (`SixMonthsLater`) are lemmas; the three clocks are a day apart at
  most (`ClockOrder`).
* `ComparisonsAlwaysTell` (`ComparisonsTell`). `ComparisonIsExact`: for envelopes of any length whose folios are distinct,
  `Differing` is empty exactly when they say the same. A reference is replaced by the rank of the document it names among
  those of its type, and the rank determines the document (`RankTells`, `NumberedIsRank`). `ReconciliationIsExact`: what
  `_normalize` leaves has one document per key, even though it keys by the RUT as it is written and the reconciliation by
  the taxpayer; both sides' totals are then sums over the same keys (`SameAmountsSameTotal`).
* `TotalsAlwaysReachTheBook` (`TotalsReachTheBook`), for any lines, charges, taxes, retentions and commissions with whole
  percentages and quantities in halves. The engine sums lines, then globals, then takes the tax once; each printed block
  leaves out what is zero. The proof shows that what is left out is zero (`AmountsPrinted`, `DocumentSays`), that the
  entries of `<ImptoReten>`, which drops retentions of nothing, still sum to the taxes less the retentions (`TaxesAddUp`),
  that one rounding over the net, or over the gross where prices include the tax, is off by the bound of `TaxOfNet`
  (`VatOfNet`), that a line whose codes fit carries all of the header's (`LineCarries`), and that the book's line reads
  the same amounts (`BookedLine`, `WorthInPesos`). For exports (`ExportReachesTheBook`) an equivalent in pesos informed as
  zero is converted again, and gives what the document would have informed. Where the proof needed a total not to be
  negative it found no guard of the engine for it: see the disagreements.
* `SummariesAlwaysMatch` (`SummaryMatchesDetail`), for lists of any length. `BooksAddUp`: `book.py` computes summary and
  detail apart from one another, and each total, each tax by its code, each retention and commission of the one is the sum
  of what the other prints, and sums over nothing are what is not printed (`TotalsSay`, `DetailSays`, `DetailAddsUp`); the
  retentions that a purchase adds to the other taxes need the correspondence of two ways of numbering the same entries
  (`SameEntries`, `OtherTaxesMatch`). `GuidesAlwaysAddUp` does it for guides by transfer. `ReportsCoverTheirFolios`: the
  loop of `ranges_of` maintains that the runs so far are separated and are exactly the folios seen (`ExtendedCovers`).

Lemmas about sums: terms of one sort (`SumOfInts`, `SumOfNats`), parts, opposites, and the same terms at other places
(`SumOfParts`, `SumOfOpposites`, `SumOfColumn`). Sums (`SumFunction`) and the fold of `ranges_of` are recursive functions on the subsets of a finite set. That such a
function exists, and what it yields, is proved without the induction theorems of the library, which take an operator: of
the sets for which the statement were false there would be one of least size (`LeastExists`), and taking an element from
it gives a smaller one (`SumsExist`, `SumsAgree`, `SumRemove`, `SumsMatch`, `RunsExist`, `RangesCover`).

### Only model-checked

* `CallsEnd`, `AttemptsEnd` and `LotsEnd`: liveness is beyond the prover.
* `ReadySetsGoOut` and `SetsAreWhole`: they are about readers of text, fillers and templates, made
  of folds over sequences whose invariants would be as long as the code. Of the questions that `MCAlgorithms` asks beyond
  those of `Computations` nothing is proved, except what its engine shares with `EngineFoliosProofs`.

## 5. Observed disagreements

The runs with a violation are recorded as findings. What follows was met while modelling; the models follow the code.

Certification dossier (`certification_service.py` unless said otherwise):

* The last envelope of a set still in process gives "atencion", which `con_reparos` reads as accepted.
* `expected_sets` keys the rows by kind: of two sets of one kind one is hidden.
* Sending an envelope again overwrites its TrackID (with NULL, if the answer brings none) and keeps the old verdict; a
  lost answer leaves a draft the SII already has; a discard that races with a send deletes a row that was sent.
* The answer of an older query of status may overwrite that of a newer one, since each stores what it brought.
* Two requests may create the same set in `find_or_create_set`; from then on its `MultipleResultsFound` is swallowed.
* `printable_envelopes` looks at the state and not at `entregado()`; `declare` does not ask for acceptance at all.
* The draft of an RCOF is the last envelope of the set of receipts; its sequence is a count plus one, not atomic.
* The docstring of `_emitir_mixto` says that an error in the last group must not leave the folios of earlier groups
  spent. Running out of folios in the last group does, and they are marked issued though no envelope exists.
* The text of the simulation says 10 to 100 documents (`certification_catalog.py`); the rule is 20 to 100.
* From 2026-11-01 guides need every field of the transport; `_receivers` fills in two, and the review does not look.
* The internal transfer of the template brings a transport with an empty commune, so that `_receivers`, which fills the
  transport only where there is none, leaves it empty. The template's third export document is a hotel service without
  the passport its own review asks for.
* The review counts folios of `documents` only, not of receipts or of the groups of a mixed definition; it opens the
  first CAF of a type and adds up the folios of all. `_receivers` starts its list again in each group.

Test sets (`certification_sheet.py`):

* The docstring of `_heredar` says that a note which annuls a document must be worth the same. It inherits the items and
  neither the global discounts of the document nor the charges of an export. A note that gives back every unit does not
  inherit the surcharge of a line.
* The docstring of the module says that what is not understood stops the reading. A table of commissions in a document
  that is not a settlement, and commissions abroad in one that is not an export, are read and dropped. A global discount
  right under a table, without an empty line between, is an item without a price.
* Two sets with one number in a file are stored in one row: the second replaces the first.

Portal:

* Two removals at once can leave no superadmin, although the guard's comment (`user_service.py:79`) says one remains. A
  user who is archived keeps the session.
* A recovery code is read, compared and written, so that two requests may both use it. Switching off while another
  request confirms leaves the factor enabled without a secret; enrolling while another confirms enables a secret nobody
  confirmed. A code can be used again once switching off has forgotten the last step.
* If Redis fails only when a failure is recorded, the limit on failures never binds.

Documents, books and engine:

* `validate_content` looks at the net and the exempt amount, not at the total. A line whose discount exceeds it and that
  carries an additional tax makes that tax negative, and the total with it: of a line of 1000 and one of 100 less 1100
  with code 24 at 18 %, the net is zero and the total -180, and the document is not refused before it takes a folio.
* An exempt receipt with prices including VAT and a global discount in pesos over affected lines would print a negative
  tax; no request of the service reaches it. A fixed retention on a document of exempt lines has a code in the header
  that no line carries; a line keeps two codes and drops the rest.
* `ExportItemIn.amount` is said to prevail if it comes; the engine takes it only without quantity or price.
* The summary of the guide book adds the modified amount of voided guides, which the detail drops; partial receipts and
  untyped guides are counted nowhere.
* The report of folios counts lines as emitted while its ranges join repeated ones.
* The sales line of an envelope drops retained and additional taxes, so it does not close; converted lines with
  commissions may be off by a peso.
* The totals a reconciliation shows include repeated documents that its comparison collapses; `_normalize` keys rows by
  the RUT as written and `reconcile` by the normalised one.
* The docstring of `folios.py` says that a file lock should be added; there is one. After a failed save the memory of a
  `FolioManager` is ahead of its file.
* The answers to an exchanged envelope take the receiver of its cover as the one who answers, while `inspect` compares
  with the customer: what is shown as not addressed to the customer is answered as received.

## 6. Not modelled

* XML building, canonicalisation, signatures, the stamp, parsing, PDF and HTML, and check digits: conversions of one
  document, without state.
* Encryption, tenant authentication and API keys (one comparison of hashes), certificates, passwords and their reset.
* `refresh_submission` and `summarize` of receipts, the queries of status of documents, the fees (BHE) and the queries of
  the registry: a query whose answer is stored or passed on as it came.
* Exchange and cession: a request transformed, signed and uploaded, without state of their own.
* The spelling of the SII's text (how a line is cut into cells, accents, what stands outside the cases), previews, causes
  and the known differences of two emissions: wording, layout, and patterns over paths. The set-up of a dossier and its notes are writes of one request.
* `issue_export` and `issue_settlement`: the sequence of `issue` with another builder (their amounts are in `Documents`).
* The audit log (a row in the transaction of the change), configuration, portals, migrations, deployment.

## 7. Plan

1. **Proofs**: `SheetFile` and `Readiness` hold operators that are not folds (`Place`, what a note inherits, the
   receivers); lemmas about those would be the part of `SetsAreWhole` and `ReadySetsGoOut` that can be proved. For
   `LimitHolds`, how far the limit on failures can be passed when Redis fails.
2. **Receipts**: `refresh_submission` against the rows `Lots` stores.
