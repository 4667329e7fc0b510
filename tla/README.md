# DetectionX5: specifications, model checking and proofs

DetectionX5 reads Moroccan licence plates from photos and videos. A Python library
(`plate_reader`) detects, reads and fuses, trains and evaluates its models; a service
(`services/api`) stores reads, keeps a review queue, exports corrections as training data and
runs background jobs; a console (`apps/dashboard`) is its client and can read plates in the
browser; `api.py`, `gui.py` and `cli.py` are the older front ends.

This directory holds TLA+ modules of the parts whose difficulty is in their *behaviour* (steps
that interleave, fail half-way or arrive late) and of the algorithms that decide what a plate is,
the TLC configurations that check them, and proofs for TLAPS. Every action is translated from the
source; `PROJECT.json` maps each definition to its lines.

## 1. Inventory

| Component | State | Operations | What is hard | What makes it correct |
| --- | --- | --- | --- | --- |
| Read store, review queue, export (`services/api/store.py`, `models.py`, `db.py`) | rows of `reads`, `read_views`, `review_items`; crop files; the export folder and `labels.csv` | `save_read`, `decide`, `export`, the lists | database and files share no transaction; requests run in a thread pool; a request can fail between any two steps | what is exported has its labels, no label without a crop or a decision, the three tables agree |
| Background jobs (`main.py` `_enqueue`, `job_events`; `jobs.py`; `worker.py`) | job rows, the RQ list in Redis, what a worker does, open event streams | create, enqueue, refuse, run a folder or a video, report, poll | two processes and Redis; crashes, a lost reply, timeouts; a client that sees only polls | a job ends once, reported work is stored, progress never falls, streams end |
| Video tracking (`tracking.py`) | tracks with observations and misses | `update`, `finish` | greedy matching with ties, closing, order of loops | each detection in exactly one track, one per frame, stable matching |
| HTTP endpoints (`main.py`, `schemas.py`, `uploads.py`) | none of their own | validation and conversion | status codes; limits | handlers above |
| Review policy (`engine.py`) | none | `review_reason` | order of the conditions | exactly the doubtful reads are queued |
| Plate grammar (`grammar.py`) | a compiled, minimised automaton | compile, `step`, `accepts`, `segment`, count, list, draw, display | subset construction, minimisation, numbering of words | the automaton accepts the patterns' language |
| Normalisation (`normalize.py`, `strings.py`) | none | fold, tokenise and parse a text | separators, look-alikes, missing hyphens | a text is read as the one plate it spells, or as none |
| CTC decoding (`crnn/decode.py`) | beams | greedy, prefix beam search, alignment likelihood | merging prefixes with repeated symbols | a wide beam equals the sum over alignments |
| Fusion and conformal sets (`fusion.py`, `crnn/conformal.py`) | none | align, vote, fuse, build sets | ties, empty views, boundaries | fusion does not depend on the order of views |
| Pipeline and legacy reader (`pipeline.py`, `ocr.py`, `segment.py`, `preprocess.py`, `api.py`) | models; the inference lock | detect, read, combine, vote | fallbacks, ties by insertion order | the vote of the evaluation is the vote of the reader |
| Detectors (`detector.py`, `detector_onnx.py`, `detector.ts`) | none | letterbox, scale back, pad, deduplicate | rounding of halves, three coordinate systems | boxes come back into the photo, one crop for a plate |
| Model files (`training/*`, `registry.py`, `crnn/export.py`, `crnn/runtime.py`) | weights, network, metadata, results, `registry.json` | train, calibrate, evaluate, export, promote | commands that overlap or are killed; no lock | a training repairs the directory, the registry is consistent |
| Training (`train_crnn.py`, `data.py`, `sweep.py`) | network, history, best so far, checkpoint | epochs, fine-tuning, trials | early stopping, ties, phases | what is returned is the best of what was seen |
| Sets of crops and evaluation (`synthetic/writer.py`, `eval/*`) | crops, labels, manifest, cache, reports | generate, evaluate, cache | killed and overlapping runs, stale caches | a finished set is what it says; results can be reproduced |
| Scores of reads (`eval/metrics.py`, `bootstrap.py`, `harness.py`, `crnn/conformal.py`, `calibrate_crnn.py`) | none | score, estimate, bin, fuse the first views of a set, measure coverage | bins at their borders, metrics that do not apply, the order of views | scores agree and add up, what is measured is what is served |
| Folder of detector and evaluation data (`data/layout.py`, `data/validate.py`, `synthetic/writer.py`, `eval/sets.py`, `eval/detector.py`) | photos, boxes, `detector.yaml`, `eval/labels.csv`, manifest | generate scenes, edit by hand, validate, read as a set, measure the detector | sets written over older ones, killed generations, two parsers of one row and two image libraries, a manifest read twice | a complete set stands in for real data, what validates can be evaluated (up to the second library), a measurement is named after what it measured |
| Desktop GUI (`gui.py`) | a worker thread, a queue, the buttons | start, run, drain, show | messages of a run that ended | the result shown belongs to the run |
| Console: reading (`stores/read.ts`, `PhotoTray.vue`) | photos, last read, reads on their way | add, remove, drag, clear, read | one thread with awaits; several reads in flight | what is shown belongs together |
| Console: sortable photos (`sortable.ts`, `gesture.ts`) | a drag, offsets, a list that others change | press, move, key, drop, cancel | a list that changes during a drag | the preview is what the drop does |
| Console: models (`stores/browser.ts`, `runtime.ts`) | sessions, promises, parity report | prepare, check, switch | cached promises, retries, switches in between | a quiet session is settled, a failure can be retried |
| Console: jobs page (`JobsPage.vue`, `client.ts`) | list, selected job, stream | refresh, submit, follow | answers out of order, unmounting | what is shown goes forward, the list catches up |
| Console: inference (`inference/*.ts`) | none | ports of grammar, decoding, fusion, boxes | a second implementation of the same rules | it says what the service says |
| Rendering of images, synthetic data, resampling, presentation, documentation tools, telemetry, deployment | files | scripts | numeric code | not modelled (section 8) |

How they interact: the console calls the endpoints over HTTP; the endpoints call the store and
enqueue jobs; a worker calls the same store (`save_read`) and writes the job's row, which the
API polls for its event streams; the export writes the files that `plate data validate` and the
training read; `plate train` leaves the files that the runtime of the service, the evaluation and
the registry read; `plate export web` hands the compiled automaton to the browser, which reads
plates with its own copy of the algorithms. The store's rows and files, the job's row and the Redis
list, and the files of models and crops are the only state that two of these actors share.

## 2. Modules

| Module | Models | Kind |
| --- | --- | --- |
| `ReviewStore` | the store with interleaved requests and faults | specification, properties, inductive invariant |
| `JobLifecycle` | what a client of the jobs API may rely on | abstract specification |
| `Jobs` | API, Redis list, workers, event streams | specification with fairness; implements `JobLifecycle` |
| `JobsPage` | the Jobs page as a client of a service that keeps to `JobLifecycle` | specification with fairness |
| `ReadStore` | the Read page's store with its asynchronous reads | specification with fairness |
| `BrowserStore` | backend, models and parity check of the in-browser reader | specification with fairness |
| `Sortable` | the tray's drag over a list that changes | specification |
| `Gui` | the desktop window, its queue and its threads | specification with fairness |
| `Tracker` | `IoUTracker` | specification |
| `ModelFiles` | the files that the commands of `plate` share | specification |
| `Training` | a training or a sweep | specification |
| `CropSets` | a set of crops, evaluations of it and their cache | specification |
| `DataFolder` | a folder of detector and evaluation data: generation, edits, validation, measurement | specification |
| `Grammar` | `PlateGrammar.compile` with minimisation, and the queries on the automaton | specification; reference: the words of a format |
| `Spelling` (extends `Grammar`) | display forms, normalisation and parsing of texts | operators; reference: the plates a text spells |
| `Decode` (extends `Grammar`) | greedy decoding, prefix beam search, forward algorithm | operators; reference: the sum over all paths |
| `Fusion` (extends `Decode`) | alignment, fusion of views, conformal sets, review policy | operators |
| `Reader` (extends `Fusion`) | one read: compile, configure, decode photo by photo, fuse, judge | specification composed of the three |
| `Browser` | the TypeScript port of all of that | operators |
| `Parity` (extends `Reader`, `Spelling`) | the port against the service on the same read | composition |
| `Evaluation` (extends `Reader`, `Spelling`) | scores of reads, their estimates, coverage, fusion of a set's first views | operators; reference: the service on the same read |
| `Legacy` | the first reader with its votes, and the vote baseline of the evaluation | operators |
| `Detector` (extends `Decode` for `Picked` and `InOrder`) | letterbox, padding and duplicates of boxes, in both languages | operators |
| `ReviewStoreProofs`, `JobsProofs`, `ReadStoreProofs`, `ClientsProofs` (the clients of `MCClients`), `OfflineProofs` (the specifications of `MCOffline`) | theorems for all values of the constants | proofs |
| `Languages` (extends `Grammar`), `DecodeProofs` (extends `Fusion`), `ReaderProofs` (extends `Reader`) | words and automata; decoding, fusion and alignment as computations; the theorems of `Reader` | proofs |
| `MCReviewStore`, `MCJobs`, `MCReadStore`, `MCReader`, `MCClients`, `MCOffline` | instances for TLC | model values, symmetry, composition |

Definitions whose comment begins with "Mutant:" are wrong on purpose. Each is what a plausible
bug would make of the definition below it; a property is only worth its run if a mutant breaks it.

### ReviewStore

A request (`Requests`, the threads of the pool; a worker's `save_read` is one too) is at a
program counter. `SaveCrops` writes the crop files inside the open transaction, `SaveCommit`
commits. `DecideLoad` loads an item and applies the decision to the loaded objects;
`DecideCommit` writes the columns that changed since the load (`Flushed`), which is how
SQLAlchemy's unit of work behaves and why overlapping decisions can mix. `export` is five
steps, because other requests and failures can come between them: is `labels.csv` new
(`ExportStart`), select the decided items (`ExportSelect`), copy crops (`ExportCopy`), open the
file (`ExportOpen`), write at close (`ExportAppend`), commit the marks (`ExportCommit`). `Abort`
is an exception or the end of the process at any step: the transaction is rolled back and the
files stay, including some of the copies or some of the buffered rows. The history `redecided` has the
reads that got another plate after an export had selected or marked them. `Queued` and `Served` are
what the lists and the crop endpoint answer.

Abstracted: the content of a read (its text is a plate or none), timestamps, the `Export` row,
formats of plates, the order of rows within one append.

### Jobs

`Create`, `Enqueue`, `Refuse`, `Reply` are `_enqueue`; `Take` is RQ giving the head of the list to
a worker, once; `Begin` to `Return` are `run_job` with `_run_folder` (phase "photo") and `_run_video`
(phases "frame" and "track"). Its failures are an exception in the try block (`Raise`), which the except clause
records (`RecordFailure`); an exception that leaves `run_job` (`Escape`): before the try block (jobs.py:153-156), or in the
except clause, because the update raises or because the timeout strikes there; and a killed worker (`Kill`). `lost` remembers
the jobs of the last two kinds, which nobody records.
`Open`, `Poll`, `Disconnect` are an event stream: each poll loads the row once and sends events
from that one state, so a poll is atomic. `Update` is `_update`: it writes the named columns
whatever they hold. Progress is in percent; `ProgressOf` has the three formulas of the code.
`Faults` selects which failures may happen.

Abstracted: time (RQ's timeout may strike once, at any point of a job, the except clause included: a job whose timeout has
struck is "overdue"), keep-alives, result payloads (a result is the number of reads it lists), the engine (an item is read or
the job raises). A video has a positive or no reported length; a negative one, which `int(...) or 1` would keep, is left out.

### Tracker

`NewFrame` starts `update`, `Match` is one round of the loop over the sorted pairs (the best pair
whose track and detection are both unused), `Settle` the rest of `update` (misses, closing, new
tracks). Boxes are abstract; `Overlap` is any function to naturals, because the code only compares
overlaps with each other and with the threshold.

### ReadStore, BrowserStore, JobsPage, Sortable

One step is the code between two awaits. In `ReadStore`, `Read` is `read()` up to its first await, `Imported`
the continuation after the import in the browser mode (it is only there that the photos are read
from the store), `Answer` and `Fail` the two ends. While a read is on its way the tray is
disabled, so `Add`, `Remove` and `Lift` need another status, but `Clear`, `SetMode`, `Drop` and
`Cancel` do not.

In `BrowserStore` a call of `prepare` or `check` is at one of its awaits; `UseBackend` is the switch
that may come in between. The models of a backend are one cached promise: all calls that wait for it
go on, or fail, together (`Loaded`, `LoadFails`). `JobsPage` carries the rows an answer was made
from in `pending`, for as long as the answer travels, and the events of the one open stream in order;
the service is free to do what `JobLifecycle` allows, which `Jobs` is shown to implement. The page may be opened at any time
of the jobs (`Kept`). `Sortable`
keeps the store's list apart from what the drag remembers of it (`index`, `target`), because handlers of
the page change the list while a photo is held.

### Gui

The events of the Tk loop (`ChooseFiles`, `StartRun`; `Window` drains the queue) are steps of the window, and between them a
worker thread goes on (`Run`): it loads the models if nobody has, puts messages into the queue and
ends. Dialogs are modal, so an event with a dialog is one step. Handling a message is taken not to raise: an exception
in `_drain_queue` would skip the next `after` and end the draining.

### ModelFiles, Training, CropSets, DataFolder

In `ModelFiles` a command is a process that reads or writes one file at a time; a model is a number that
stands for its bytes and their hash, so metadata, results and the registry can be compared with the model
they are about. `Kill` ends a command between two steps. `clean` remembers that the last
training ran alone, to its end, and that nothing disturbed its files since. Every training gives a new
number: that two of them end with the same weights is left out. `Training` follows
`train()` epoch by epoch with any scores: improvement, patience, the fine-tuning phase, the
checkpoint, and trials of a sweep; a state of the network is what it was trained with. `CropSets` writes a
set over an older one, crop by crop, then labels, then the manifest; evaluations read crops, labels and
manifest at different moments, and take reads from a cache keyed by model and image.

`DataFolder` is the layout of `data/`: `plate synth scenes` writes photos, boxes, `detector.yaml`, rows and manifest
one after another over whatever is there (`WriteScenes` to `FinishScenes`), a person changes one file at a time,
`plate data validate` is the predicate `Valid`, `plate eval --set data` is `Items` and `Raises`, and `plate
eval-detector` reads the manifest, the photos, and the manifest again (`Measure`, `Validation`, `Report`).
`complete` remembers the set that a generation has just finished, until anything changes. A photo, its boxes and the
plate in a row are known by the scene they are of. A photo may also be one of `Damaged`, and two libraries read photos: the
validator opens and verifies them with Pillow (for most formats little more than the header), which raises for those in
`PillowRejects`; the evaluation uses OpenCV, which gives None for those in `OpenCvRejects`. Nothing is assumed of how
the two sets lie to each other; a photo that was written to its end is in neither. `Broken` is a file of boxes, a plate or a `labels.csv` that
its parser rejects. The EXIF orientation, by which OpenCV turns a photo and Pillow's size does not, is left out. A
person edits only while no generation runs. The sets of views are left out.

Abstracted: optimisation, image content, torn files (a file is written or not; only the cache,
written in place by several processes, and a photo of `DataFolder` can be torn).

### Grammar, Spelling, Decode, Fusion, Reader

`Grammar` compiles one of several `Declarations`, a symbol at a time: `Start`, `Determinise` and
`EndRow` are the worklist of the subset construction, `Partition` and `Refine` the rounds of
`_minimise`, `Renumber` and `EndBlock` its renumbering. `_minimise` compares states by the `repr` of frozensets;
the order in which a set of several names is written depends on string hashes, so `Partition`
chooses which states are spelled oddly (at most `MaxOdd`). `_minimise` raises when no word
is accepted; that cannot happen, since every field has members and `max_len` > 0. `segment` is a
backtracking search, longest fields first: `Segment` picks the greatest lengths that fit.

`Reader` is a read on the compiled grammar: `Configure` chooses the decoder (greedy, unconstrained,
constrained), widths, weights and policy; `Detect` or `Undetected` takes the next photo,
`DecodeFrame` is one turn of the loop of `prefix_beam_search`, `Recognise` is `CRNNRuntime.decode` and
the view, `Fuse` is `_finish` of the pipeline and the engine's `review_reason`.

`Spelling` folds a raw text character by character, splits it at separators, joins what belongs
together and tries formats, as `parse_plate` does. Characters are classes: one for every treatment that the
code gives a character.

Abstracted: a photo is what the network says of it, a few frames of weights per class. Weights replace
logarithms (a sum of logs is a product, log-add is +, -inf is 0), so equalities are exact and
rounding is outside the model. A view's distribution is masses out of a common total; the weight of a view
is an exponent, 0 or 1; temperature only changes the weights. Hypotheses without any mass have NaN for posteriors, and
since NaN is below no threshold their prediction set is empty (`Summable`, in both languages). The views of `Reader` have no prediction set
(no step uses it; `Parity` and `Evaluation` compute it), timings and display text are left out.

### Browser, Parity, Evaluation, Legacy, Detector

`Browser` is translated from the TypeScript alone: an automaton given as the exported dictionary, maps with
their order of insertion, stable sorts, code units instead of code points. `Parity` runs it on the views of the same read and
compares plate, probability, hypotheses, sets, fused positions and reason (`BrowserAgrees`): `CropFixture` and
`SceneFixture` are what `plate export fixtures` records of a crop and of a scene, for every photo and every read of the
model instead of the generated ones. `Evaluation` has what the
evaluation computes of reads: `Score1` is the turn of the loop of `score_reads`, `Summarise` the point estimates of a
population, `EvaluateRecognizers` and `CompareCrnn` the paired comparisons, `EvaluateCoverage` and `CalibrationScore` the
reports on conformal sets and on calibration,
`EvaluateFusion` the fusion of the first views of each plate. Confidences are fractions; resampling and latencies are left
out (so is the decision of `compare_crnn`, which rests on a resampled interval). `EvaluationIsServed` holds these against the views and the fused read of the same state of `Reader`. `Legacy` is a
function of what an OCR engine says of each crop (the inference lock makes requests
sequential): candidates by field and by line, their scores, and the vote; `CommandLine` is what `plate read` makes of it,
`RecognizerRead` the view that the evaluation makes of one crop. `Detector` has the
arithmetic of boxes in integers over the scale; rounding of halves is to even in both languages. A photo so narrow that a scaled
side rounds to 0 makes `cv2.resize` raise and has no letterbox (`Resizes`).

### MCClients and MCOffline

`MCClients` puts four specifications that share no variable side by side, `MCOffline` five others.
A variable chosen at the start says which one moves; the rest stays as it began. The states are the sum of
these, not the product, and the fairness of each is stated for the behaviours in which it moves.

## 3. Runs

| Run | Asks | Bounds |
| --- | --- | --- |
| `ReviewStore_decisions` | labels have files and decisions (`LabelsAreTrue`); the tables agree; what is exported has its labels, of its plate unless it was decided again meanwhile; nothing is taken back; full disk included | 1 read, 2 views, 2 plates, 2 requests, faults, 2 appends; 1.9 million states |
| `ReviewStore_serial` | what the validator requires; linked crops are served and the lists are the queue | 2 reads, 1 view, 2 plates, 1 request, no faults, 4 appends; 63 thousand |
| `ReviewStore_retry` (violation) | are crops exported once? | 1 read, 1 request, faults |
| `Jobs_faults` | safety and the lifecycle under crashes, errors, refusals | 2 jobs, 2 workers, 1 stream, 2 items; 1.5 million |
| `Jobs_live` | jobs and streams end, but for what `run_job` cannot record (`JobsAndStreamsEnd`), when jobs raise, time out or lose the database, workers die, clients leave and Redis refuses | 2 jobs, 1 worker, 1 stream, 1 item; 234 thousand |
| `Jobs_lost_reply` (violation) | is "done" the end? | 1 job |
| `ReadStore_page` | status, result and crops agree; reads end | 2 photos, 2 reads in flight; 160 thousand |
| `ReadStore_views` (violation) | is a view the photo it is shown with? | 2 photos, 2 reads in flight |
| `Reader` | automaton against words; beams against the forward algorithm, that against all paths; order of views; review; alignment; quantile; the browser against the service; texts; boxes; votes; scores; the evaluation against the service | 9 declarations, 5 symbols, 14 photos of 3 or 4 frames, 6 configurations, 2 photos a read; 11 thousand |
| `Reader_no_mass` (violation) | does a plate that is named have mass? | the same |
| `Clients` | the session settles; the preview is true; one run at a time; what is followed goes forward; the list catches up; buttons return | 2 calls and 2 backends; 3 photos; 2 jobs (one with the bound `Short`), 2 requests, 1 failure; 2 selections, 2 threads; 479 thousand |
| `Offline` | tracks partition the detections and close in time (`TracksAreKept`), and pass no pair over; a training repairs the directory, the registry is consistent (`ModelsAgree`); the best state is returned; sets and results are what they say; a set of scenes stands in for `data/`, what validates can be evaluated up to photos that only Pillow reads (`FolderIsUsable`), measurements are named | 4 frames, 2 detections, 3 boxes; 2 commands, 3 starts, 1 growth of the labels; 3 epochs, 2 fine-tuning epochs, 2 trials; 2 crops, 2 seeds, 2 versions, 2 evaluations, 3 runs; 2 seeds, 2 scenes, 4 kinds of damage, 3 commands or edits; 1.2 million |

Why the bounds are enough to be interesting. Two requests give every overlap of two operations,
and one operation that fails and is retried by the other; two reads let an export hold one item
while another is decided; two views tell a partial copy from a complete one; `MaxChunks` = 2
allows an append, a failed append and a repeated one. Two jobs and one worker make a job wait; two
workers make jobs overlap; two items are the least for a "some done" state; `MaxWork` = 2 includes videos
that are longer and shorter than they report. Two reads in flight let answers overtake each other. The
declarations have empty and full fields, shared prefixes, words that split in several ways, states that
merge in a second round, two names for the same words, no format and a repeated name; four frames are the
least for a repeated symbol with a blank; photos have clear and tied frames; configurations
have beams that cut nothing, that cut, and that prune, with and without thresholds. The texts are
all of up to four characters out of a class each, which is long enough for every combination of separators
around a letter; the photos for boxes have all sizes up to 13 by 13 and a side of 17 on a grid of 8, with both kinds of odd
padding and a side that rounds to 0. Two calls of the browser's session overlap in every pair of awaits, and a third could only
join a promise that two already share; three photos let a neighbour move while another is held; two
requests of the Jobs page let an older list arrive last. Its second job is there for the rows that the page does not
follow: it has no life of its own beyond that (`Short`: either it does not exist, or it runs when the page opens and may finish,
and then no job reports progress before its end), since two full lives are too many states. One job with its full life, and two
of which either can be followed while the other ends, are both in the run. The four kinds of damage are the
four ways in which the two image libraries can judge a photo. Four frames with `MaxMisses` = 1 let a track open,
miss, close and a plate come back. Two commands and three starts allow a killed training or two that overlap,
a repair after either and, after the first, a promotion; three epochs and three scores allow ties, a patience that runs out and
a best epoch that is not the last; two seeds and three runs allow a set to be written over another while it is
evaluated, and an evaluation that finds reads of an earlier one; three commands or edits of the data folder are an older set, a
newer one over it and a measurement, or a set, a hand in it and an evaluation.
`CHECK_DEADLOCK FALSE` is set everywhere because the inputs are used up: reads are stored once,
jobs created once, a video ends, appends and starts are bounded, a viewer may do nothing.

### What the violations show

* `ReviewStore_retry`: rows are appended before the marks commit. A failure in between (the
  database, the process) and a second try write the same crops twice, which the validator
  reports as an error. The order itself is the safe one: `ExportedHasLabels` holds, so an
  exported item always has labels, and those of its plate but for the case of a second decision below.
* `Jobs_lost_reply`: a reply lost after Redis queued the job. The API marks the job failed and
  answers 503, a follower gets "done", then a worker runs the job. A timeout that strikes
  after the last update has the same effect in the other direction, from finished to failed.
* `ReadStore_views`: remove all photos during a read and add another; the answer numbers the new
  photo. A drag that is dropped during a read, and the browser mode's late look at the tray, lead
  to the same state.
* `Reader_no_mass`: with three frames for a plate that needs four (two equal symbols need a blank
  in between), the constrained search still carries the prefix, with probability zero, and returns it when
  nothing else is accepted. Its posterior is 0/0: the view names a plate with confidence NaN and
  gives fusion nothing.

### What does not hold and has no run of its own

Some statements of the repository are defined beside the properties and fail in their modules; they are not
part of a passing run.

* `ClosedAtMaxMisses` (`Tracker`): the docstring of `tracking.py` says a track unmatched for `max_misses`
  frames is closed; the code needs one more (`ClosedAfterMisses` is what holds).
* `Minimal` (`Grammar`): states that are equal but where two formats with the same words are possible are
  merged or not depending on the hash seed of the process; recognition is never affected
  (`RecognisesTheFormats` and `MinimalUnlessShared`, the parts of `AutomatonIsRight`).
* `ReportOfTheBackend` (`BrowserStore`): the mode toggle shows the report as the outcome for the backend
  in use; when the backend is switched during a check, the report of the old one arrives last and stays.
* `HeldPhotoLands` (`Sortable`): an arrow key or a removal during a drag puts another photo where the held
  one was, and the drop moves that one.
* `FingerprintOfTraining` (`ModelFiles`): `promote` records the labels as they are when it runs, which may have
  grown since the training it promotes.
* `NeverMislabelled` (`CropSets`): a generation that is killed, or still runs, leaves labels without a manifest,
  and `eval/sets.py` takes such a folder for real data.
* `ProvenanceIsMeasured` (`DataFolder`): `write_scenes` removes nothing, so a set of one scene over a set of two leaves the
  photos of the older one in their split. `plate eval-detector` measures and counts them and writes the seed and the
  digest of the newer set beside the numbers, although `eval/detector.py` says that it writes "the set's provenance and
  how many photos and plates were measured". `MeasurementsAreNamed` is what does hold: the scenes of the named set are
  among what was read.
* `Validates` (`ReviewStore`) with two requests: two overlapping exports both find no `labels.csv` and write the
  column names twice. `StoredViewsHaveCrops` with a full disk: `cv2.imwrite` returns False, nobody looks, and the
  path is stored. One reviewer confirming while another corrects ends "confirmed" with the corrected plate:
  each UPDATE writes the columns it changed.
* An item that is decided again, while an export holds it or after it was exported, keeps the label of the earlier plate:
  `decide` leaves `exported_at` alone, so no later export takes it (store.py:256). `ExportedHasLabels` excepts the
  reads in `redecided`, and shows that a label is of another plate than its row in no other way.
* `run_job` says "Failures are recorded on the job row, not re-raised." (jobs.py:147). An exception before its try block, in
  the update of its except clause, or from a timeout there, leaves it, and the row stays "queued" or "running" for ever, as
  it does after a kill; streams of the job never end. `JobsAndStreamsEnd` excepts the jobs in `lost`, and shows that every
  other one ends.
* While the Jobs page follows a job that runs, its timer does not poll (JobsPage.vue:137-139), so the rows of other jobs
  stay as they were, also after those jobs ended. `ListCatchesUp` says that a row catches up, or a job that runs is being followed.
* A photo that Pillow accepts and OpenCV does not read validates without errors, and `plate eval --set data` raises for its
  row with the advice to run `plate data validate` (`eval/sets.py`). `FolderIsUsable` shows that what validates raises in no
  other way.

The models also show, by traces and without a property: a calibration after `plate calibrate-fused` keeps the
fused thresholds of the older temperature; a training killed between export and metadata, followed by
`plate export onnx`, keeps the old calibration for the new network; overlapping promotions lose
an entry, though never the consistency of the registry; a cached read that was torn makes later evaluations
fail until somebody removes it; the row that the Jobs page has selected can stay "running" if a list
request is lost and its stream was closed (`ListCatchesUp` is about the list); a submit that resumes
after the page was left opens a stream that nobody closes; the images that agree with a vote may be none; the read rate of an evaluation counts whatever
was named, although `metrics.py` calls it a grammar-valid plate, which the greedy and the unconstrained decoder do not
promise; at a threshold of 1 the report on conformal sets counts every truth as covered and `score_reads` only those in
the beam.

## 4. Fairness

`ReviewStore`, `Tracker`, `Reader`, `Sortable`, `ModelFiles`, `Training`, `CropSets` and `DataFolder` have none: their
properties are safety. `Jobs` assumes weak fairness of
the API's own steps, of each worker's loop and of each stream's poll: RQ's worker blocks on the list and
goes on, a request's thread is scheduled, the poll has a timer. Nothing is assumed of clients or of
failures. The code does not recover from a killed worker or from a failure that it cannot record (RQ gives a job out once,
and the row stays as it is), so liveness excepts the jobs in `lost`, and those only: kills, timeouts and a failing database
are among the faults of `Jobs_live`. It is not checked for an API that dies in the middle of a request, whose job nobody may have
queued, nor for a lost reply.
`ReadStore` and `BrowserStore` assume that an import and a fetch end, one way or the other,
as the browser guarantees for a closed connection; nothing is assumed of the viewer. `JobsPage` assumes that
requests are answered or fail and that the service's generator polls; strong
fairness of the arrival of an event, because a viewer who reopens the stream again and again is not faster than its
events every time; and strong fairness of the page's timer, because a viewer who opens and closes streams does not have one open
at every tick. No stream has to fail, and no job has to end. `Gui` assumes that Tk's timer fires and that a thread that was started runs;
reading ends or raises. In `MCClients` the same formulas are stated for the client that moves.

## 5. Proofs

Of the properties of passing runs, every action property and every invariant is stated by a theorem, except those that are
about particular inputs, about the port to TypeScript or about the evaluation (see the end of this section) and the
liveness properties. A theorem holds for every value of the constants that satisfies the named assumptions
of the modules (TLC evaluates those on every run); where it needs more, the hypothesis is in its statement.

`ReviewStoreProofs` proves, for any sets of reads, views, plates and requests, with and without
faults: the types (`TypeCorrect`), the inductive invariant (`StoreInvariant`) and from it
`ExportIsNotLost`, `LabelsStayTrue` (with its halves `LabelsNeverDangle` and `LabelsComeFromDecisions`), `TablesAlwaysAgree`, `CropsAreServed` (for a disk
that is not full, which is an assumption of the theorem) and the action property `NothingIsTakenBack`.

The properties speak of committed rows and of files, but what keeps them is what requests hold in
memory between their steps, so the invariant adds two parts. `DraftsAgree`: an uncommitted decision
is for an item that still exists and is internally consistent, and if the loaded state was decided
the row still is (a flush that writes only changed columns relies on it). `BatchesAgree`: what an export
picked is reviewed and was decided, with the plate that it still has unless it was decided again, each of its rows has its
copy, and each crop has its row. `LabelsSuffice` says what a step must leave alone for exported items to keep their labels.
`PlatesWereDecided` links rows to the history. There is one lemma per action and under it one step
per conjunct. `TypeOK` is needed first, to know that records have their fields.

`FileValidates` needs more than `StoreInvariant`, and a hypothesis: requests come one at a time (`OneAtATime`) and do not
fail (`~Faults`). Both are needed: the finding of `ReviewStore_retry` is an export repeated after a failure, and two
exports that overlap write the header twice (section 3). Its
invariant `FileInv` says what an export may rely on between looking at the file and appending to it: only the first line is a
header (`HeaderIsFirst`), a crop that has a row belongs to a read that was exported or is in the batch that is being
written (`LabelsAnswered`), so that no crop is appended twice (`EachCropOnce`), and an export knows whether the
file was empty (`FileMatches`).

`JobsProofs` proves five theorems of `Jobs`, for any numbers of jobs, workers and streams.

* `TypeCorrect`, for any set of faults: `[]TypeOK`. Types alone are not inductive, because a percentage is a
  division by the number of items: the invariant `TInv` adds `Counted` (a worker has done no more items
  than there are, in each phase) and `Followed` (an open stream follows a row that exists).
* `RowsImplementLifecycle`, for any set of faults without "lost_reply" and "timeout", the two that break it:
  the rows implement `JobLifecycle`. The invariant `OneOwner` says who holds a job (its request, the list
  or one worker), which statuses go with that, and that a worker's next report is at least what the row
  says, which rests on two lemmas about integer division.
* `ReportedIsStored`, for any set of faults: `[]StoredBeforeReported`. With a lost reply or a timeout a row is
  written by two sides, so the argument cannot go through `OneOwner`. `SInv` keeps what survives:
  a job is in at most one place (`OnePlace`), the reads a row names are stored (`Told`), and a worker that has
  reported nothing yet works on a row that names none (`Fresh`, `Listed`).
* `DoneStaysLast`, under the hypothesis `Orderly` ("lost_reply" and "timeout" are not among the faults, as above: with them a
  row that ended is written again): `[]DoneIsLast`. By `OneOwner` nobody holds a job that ended, so the row from which a
  stream took its done event does not change (`SaidTheEnd`).
* `StreamsGoForward`, for any set of faults: `StreamForward`. Here two sides may write one row, and yet no progress goes
  back: a row that no worker has begun is at zero (`AtZero`), and what a worker will report next is at least what it has
  reported (`Pace`, by the lemmas about division). `Sent` carries that over to what a stream sent last.

`ReadStoreProofs` proves `PageStaysConsistent`, for any files, any number of reads in flight and any size of the
tray: types, status and result, and the crops of the read that is shown. The property is inductive; the work is in
the trays that `Add`, `Remove` and `Drop` make, which are sequences again (`WithoutOne`, `WithOne`).

`ClientsProofs` proves a theorem about each of the four clients; `MCClients` names their properties, and the
theorems are about the specifications that `BrowserStore`, `Gui`, `JobsPage` and `Sortable` state.

* `SessionSettles`: `SettledSession` for any number of calls, if `null` is not a report. The invariant counts
  spinners against the calls that will turn them off: `loading` or `checking` needs a call that is at such an await, a
  promise that is kept has a call, a report or an error behind it, and a call that waits for models waits for models
  that are being fetched or are there.
* `OneRunOnly`: one run or one unhandled outcome at a time, about the selected files, for any number of threads.
  The invariant says that the buttons are a lock: they are off while there is a thread or an unhandled end in the
  queue, there are never both, and never two of either.
* `ThePageGoesForward`, an action property: what the Jobs page shows of the job it follows never goes back. The invariant
  `PageInv` is about age. Every row on the page or on its way is behind the service's row of that job (`ListIsOld`,
  `RequestsAreOld`), and rows only go forward, which is taken from `JobLifecycle` (`RowsGoForward`) and so from what
  `RowsImplementLifecycle` proves of the service. The events under way come from one look at
  the row, and are not behind what is shown (`FollowsOne`). A list cannot take the shown row back, because
  it is not applied to a job whose stream is open; that guard is what the mutant of the property drops.
* `ThePreviewIsTrue`: `PreviewIsTrue` for any number of photos, if `null` is not a drag (`NoneAssumption`). `moveItem`
  cuts and joins lists, and `slotAfterMove` is a case analysis on indices. `Moved` says slot by slot where the photos of the
  moved list come from (`From`), and `PreviewedSlot` that `slotAfterMove` is the inverse of that. The invariant adds what holds
  before a press is a drag (its target is its own slot, and every photo is at home) and that a drag
  draws as many slots as there are photos, unless another handler has changed the list.

`OfflineProofs` proves ten theorems, and three that join two of them as the runs do: `TracksStayKept`, `ModelsAlwaysAgree`
and `FolderStaysUsable`. Three are about `Tracker`, for any boxes, overlaps, thresholds and videos. `TracksAlwaysPartition`: between
frames the property is inductive; in the middle of one it is not, since a pair that is matched must go to a track and
to a detection that have nothing of this frame yet. `TInv` adds that `matched` is exactly who has seen what of the
frame (`MatchedIsSeen`, `SeenIsMatched`). The end of a frame opens one track for every detection that is left over,
numbered by how many come before it: `Ranking` proves that this numbering is a bijection.

`TracksCloseAfterMisses`: in the middle of a frame a track that was not matched is one miss behind what
`ClosedAfterMisses` says of it, and one that was matched is a frame ahead (`Misses`).
`TracksTakeTheBestPairs`: `NoPairPassedOver` is about pairs that were never looked at, so its invariant `Settled` follows every
candidate and detection that overlap enough: their pair is still to come, or one of the two already has a
partner that overlaps at least as much. That stays true because pairs come in the order of
their overlap, computed before the loop changes any box (`Unmoved`: a candidate without a partner is where it was).

Two are about the files of `ModelFiles`, for any number of commands, models
and kills. `RegistryStaysConsistent`: no version is listed twice and the active one is listed, also in the copy of the registry
that a command is about to write. `TrainingAlwaysRepairs`: after a training that ran undisturbed the files agree, whatever was
there before. Its invariant `FInv` needs that no file and no command knows a model that was not made yet (`Known`, or an
old result could name the new version), who runs alone (`Alone`), and for each step of a command that does how
far it has repaired the files (`InStep`, for the commands that `Trusted` names). `TrainingReturnsTheBest` is about `Training`, for any numbers of epochs, of
crops in one, of epochs of tuning and of trials: what is kept is the earliest best of the epochs so
far and is in the checkpoint (`BestSoFar`), and every crop of the stream was drawn once, at the strength of its epoch
(`Drawn`; `EpochOf` and `NextSlice` are the arithmetic of the slices).

`FinishedSetsFit` and `ResultsCanBeReproduced` are about `CropSets`, for sets of any size and any number of
evaluations. The first needs what a generation has written so far (`Written`). The second needs that the
cache is true (`CacheIsTrue`: a read that is kept is what the model says of the image that its key names, not of the crop's
path) and what an evaluation has in memory at each of its steps (`InMemory`), since the folder may change under it.

Two are about `DataFolder`, for sets of any size, any seeds, any rows that a person may write and any photos that either library
rejects. `ScenesAlwaysStandIn`
needs two facts about the folder at any moment: what a running generation has written up to where it is (`ScenesWritten`), and
that a folder which `complete` names is whole (`Whole`): each photo and its boxes are the scene's, rows and manifest are the
set's. That the validator and the evaluation are content with such a folder follows. `MeasurementsStayNamed` adds
what a measurement has in memory while the folder may change (`Metered`): as long as `complete` is what it was at the
start, nothing was written in between. `FolderStaysUsable` joins the first of these with what holds of any folder: the
validator and the evaluation parse a row on their own, and the first lets nothing pass that the second cannot use, but for
a photo that OpenCV rejects and Pillow does not. No relation between the two libraries is assumed.

The next three modules are about what the code computes. Their model has no RECURSIVE operator: a recursion is a
function over an interval, over pairs of numbers or over the subsets of a set. What such a function returns for every input is
proved by induction in set form (`Induction` and `SubsetInduction` of `Languages`: a set of numbers, or of subsets, that
holds the first and with each the next holds all), after its existence (`RecursionExists`, `RankedRecursion`) and
its uniqueness (`RecursionUnique`).

`ReaderProofs` proves first that the grammar compiles right, for any declarations of formats.

* `CompileIsSound`: the inductive invariant of the construction. Every set of NFA states that was found is what some word
  denotes (`Found`), a finished row leads where the word that is one symbol longer does (`Rows`), the row under work does so
  for the symbols it has had; all those sets are live, because every class has members (`LiveAll`), so trimming, which the model
  leaves out, has nothing to remove; blocks agree on the formats that are accepted and possible and, once
  a round changes nothing, on where their members lead (`Stable`); the rows of the result are those of the blocks.
* `CompiledIsRight` (`RecognisesTheFormats`): from that invariant, a run of the automaton is at the block of the set which the
  word denotes (`TrackRun`), and `Languages` says what a denoted set means: it accepts the formats the word belongs to and
  may become the formats of which the word is a beginning (`Completable`, `BeginningsAre`). For `segment` it is shown that the
  greedy choice of lengths finds a splitting into fields whenever there is one (`SplitsAre`, `SegmentIs`).
* `CompiledIsMinimal` (`MinimalUnlessShared`): the invariant is strengthened by the converse of `Stable`. States that a
  bisimulation relates and in which a single format is possible stay in one block (`Together`), and two blocks are
  different states (`Distinct`), so states with the same future are one, unless formats share words there.
* `ReaderCompiles`, `AutomatonStaysRight` and `ServiceGrammarIsRight` (`GrammarIsRight`) carry this over to `Reader`:
  the read, which shares the automaton, is a stutter of `Compile`.

Then it proves that reads are right, for any such grammar, any photos (rows of positive weights, as softmax
gives: `PhotosAssumption`), any settings and any number of photos. `DecodeProofs` has what this needs of one computation.

* `ReadingIsSound`: the inductive invariant `ReaderInv`. While a photo is decoded, `Decoded` compares the beams with two masses
  of each prefix: those of the alignments that end in a blank and of those that end in its last symbol. `TurnGathers` says what
  one beam adds to the table, `NextTableIs` what the table of a frame holds for each prefix, and `BlankMassNext` and
  `SymbolMassNext` that the masses follow the same equations. A beam never holds more than these masses; it holds exactly
  them as long as nothing was cut, and `FewBeams` with `WideAssumption` says when nothing can be.
* `BeamsStayExact` (`BeamsAreExact`): one beam per prefix, in the right state of the automaton, with such a mass.
* `SearchStaysComplete` (`SearchIsComplete`): if nothing is cut, the result is every plate that some path spells, with the mass
  of all its paths. `ForwardIsExact` closes the chain: the masses of the forward algorithm are the sums over all paths of the
  photo that collapse to the word (`EndsBlank` and `EndsSymbol` are these sets of paths, `MoreBlank` and `MoreSymbol` how they
  grow by a frame, `MassesAreSums` the induction). The empty word is not among them, since `prefix_beam_search` drops it.
* `UnreviewedStaysCertain` (`UnreviewedIsCertain`): what nobody reviews is a plate, as probable as the level asks and alone in
  its set. `LetThrough` is the argument about fusion; what it needs of views is part of `ReaderInv`.
* `OrderNeverMatters` (`OrderOfViewsIsIrrelevant`). Fusion is products over the views, a maximum with a tie broken by the order of
  strings, and votes. `ProductShuffled` is about the products; the votes are a sum over pairs of a view and a candidate, and a
  sum does not change when its indices are renamed one to one (`SumOverMapped`, `VotesShuffled`, `PartsShuffled`, `FusionShuffled`).
* `ThresholdsAlwaysCover` (`ThresholdsCover`) is an instance of `QuantileCovers`: for any number of scores and any level,
  of n + 1 scores at least the share 1 - alpha is not above the threshold that the other n give. The score that is left out
  is covered if its rank is not above the one that `quantile` picks (`RankCovered`), with ties and at every rounding.
* `AlignmentsStayMinimal` (`AlignmentsAreMinimal`). `TableIs` and `DistancesAre` say that the table satisfies the equations of
  the edit distance in every cell; neighbouring cells differ by at most one (`AdjacentCells`), and tables of words that differ in
  one place stay within one of each other (`NearTables`, `OneEdit`). Walking back, a column always comes from a cell that explains the cost
  (`ColumnIs`), so the columns up to a cell align the beginnings with as many changes as the cell says (`AlignsMore`, `AlignIs`).
* `EvaluationStaysServed` (`EvaluationIsServed`). The masses of the hypotheses of a photo are apart from each other
  (`HypothesesApart`), so the nonconformity of a truth is the mass of its rivals and is covered exactly if the set names
  it (`PhotoMeasured`); the items of a plate, however they lie in the set, come out in the order of the views
  (`ViewsInOrder`), and fusing them is what fusion makes of the read in `ReaderInv` (`FusionMeasured`).

The boxes of plates are proved for all photos and answers, not for those of the run only.

* `LetterboxAlwaysFits`: for any width and height that can be resized, `round` errs by half a unit at most (`RoundedIs`), so the scaled side is
  no longer than the input and the padding is a number; its two halves, rounded apart, make it whole (`HalvesRound`); what
  padding to the stride leaves is a multiple of it (`SideIs`); clipping only moves a point closer (`PointComesBack`).
* `PlatesAreCroppedOnce`: for any answer. The sort keeps every detection (`ByScoreIs`), and the invariant of the loop of
  `deduplicate` (`KeptOf`) is that what is kept is apart, in order of confidence, and covers what has been dropped;
  that `iou` does not depend on the order of its arguments (`ApartBothWays`) is needed, because the loop
  compares the less confident box with the more confident one. `BoxesAlwaysComeBack` (`MCBoxesComeBack`) is the instance of both that the run evaluates.

The assumptions on constants are few: symbols are numbered and classes have members (`SymbolsAssumption`),
declarations are sequences of formats, characters differ in their code points (`CodeAssumption`), the
floor of fusion is positive (`FloorAssumption`), the side of the network's input is a multiple of the stride
(`DetectorAssumption`), and those named above.

Only model-checked: liveness (`JobsAndStreamsEnd`, `ReadingEnds`, `ListCatchesUp`, `ButtonsReturn`) and
anything with ENABLED, which the prover does not handle; `BrowserAgrees`, whose proof would repeat each lemma of
`DecodeProofs` for the TypeScript port; and `MCTextsDenote`, `MCVoteIsReproduced` and
`MCScoresAddUp`, which evaluate a computation on finite sets of inputs that the instance names. These computations pass texts and
votes through `SelectSeq`, `SortSeq` and folds that take an operator, of which the provers know nothing. The four
findings are violations; there is nothing to prove about them.

## 6. Findings

The violations of section 3; `PROJECT.json` quotes the sentence of the repository each one contradicts.

## 7. Order of the work, and what could follow

The order was: state that two actors share (`ReviewStore`, `Jobs`), clients with asynchronous answers
(`ReadStore`, then the four of `MCClients`), algorithms (`Grammar` to `Reader`, `Spelling`, `Detector`, `Legacy`), the
second implementation (`Browser`, `Parity`), and files that commands share (`MCOffline`). What would add most now:

1. A proof of `BrowserAgrees`, with the port's maps and stable sorts shown equal to the tables of `Decode`.
2. An abstract life of a correction (queued, decided, exported at least once) implemented by `ReviewStore`.
3. The folders of sets of views (`eval/sets.py`), which fusion is evaluated on, as `DataFolder` has the scenes.

## 8. Not modelled

Neural networks, image processing, rendering of synthetic plates, optimisation, and the resampling of reports are numeric
code without interacting state; what they answer is any value in the models. Telemetry
never changes behaviour. Migrations and containers are configuration; documentation tools write tables and
figures. Uploads, health, metrics and read-only queries change nothing. The review page holds one answer at a
time. The presentation of the console renders what its stores hold. Component `status` and `note` in
`PROJECT.json` say what of each part is left out.
