# A verification development for OCR Suite

OCR Suite recognises the text in a video and stores it in a SQLite database, one per
video. This directory holds TLA+ models of its parts, translated from the source, the TLC
configurations that check them on small instances, and proofs for every size of the
instance that `tlapm` checks.

    tlc -workers 2 -config rec_exit.cfg MCRecognition.tla      # a run of the table below
    tlapm RecognitionProofs.tla                                # all proofs of a module

Paths are relative to the repository.

## 1. Inventory

| Part | Source | State | Operations |
|---|---|---|---|
| buffer queue | `include/ocs/common/value_queue.h` | two deques of buffers, two mutexes and condition variables, two stop flags | `get_producer_value`, `add_consumer_value`, `get_consumer_value`, `add_producer_value`, `shutdown` |
| recognition process | `src/recognition/main.cpp`, `ocr.cpp`, `src/common/video.cpp` | threads, `done`, `stopping`, `final_text` | decode, OCR loop, signal handler, joins, exit code |
| decoder | `src/ffmpeg/decoder.cpp`, `traits.cpp` | position in the file, frames in the codec, starting frame, filter | seek, `run`, `handle_decoded_frames` |
| database | `src/common/database.cpp` | `last_processed_frame`, texts and their instances, the static maximum | `store`, `is_frame_processed`, `get_starting_frame_number`, `find_text` |
| migrations | `src/common/db/updates/*.inl` | schema version, tables | `update_v0` ... `update_v3` |
| OCR providers | `src/recognition/provider/*` | per thread, inside the library | `do_ocr` |
| ocs-watcher | `tools/ocs-watcher/src/ocsw/*.py` | `_should_run`, last check, thread pool, child programs | event, periodic check, execute, Ctrl-C |
| single instance | `ocsw/single_instance.py` | the lock file | enter, exit |
| viewer: search | `src/viewer/search.cpp`, `results.cpp` | per thread its databases, text and flags; `remaining_size_`, the table of results | `find_text`, `start`, `stop`, `work_once`, `decrement_remaining_size`, `store` |
| viewer: views | `src/viewer/views/*` | text field, tree of results, frame shown with pointers into the tree | draw, search, select, jump, close |
| viewer: rendering | `src/viewer/render/*` | window, GL context, ImGui, backend; the objects and bindings of GL | construct, `update`, `new_frame`, `render`, destroy |
| query tools | `src/tools/ocr-cli.cpp`, `ocr-results-viewer.cpp` | the document printed; its entries, selection and scroll position | recognise an image, print, load, draw, drag, select |
| progress display | `src/recognition/speed_meter.cpp`, `main.cpp`, `ocsw/executor.py` | counters, spinner, two pipes, the monitor's buffers, the bar | add a frame, report, print, monitor, flush |
| options | `options.cpp` | none | read the command line once |

How they interact. `main()` owns the queue. The decoder calls `video::on_frame` on the
main thread for every frame; that takes a free buffer, fills it and publishes it. OCR
threads take published buffers, ask the database whether the frame is known, call the
provider, store the result and return the buffer. A signal, an exception in any thread
and the end of the video each call `shutdown()`, from different threads. The number of
the last frame in the database is where the decoder of the next process starts. The
watcher starts one such process per file, again and again, while the file may still be
growing, so the database must survive a process that is killed at any point.

The viewer reads the same databases. The thread that draws calls `find_text`, which tells
the search threads to start; each goes through its own databases, puts the rows it finds
into the table and subtracts the size of the database from `remaining_size_`. The views ask
`is_finished()` on every draw: the search view so that no two searches overlap, the results
view to read the table once a search is over. The frame view jumps along pointers into the
tree the results view builds. Selecting a frame or jumping to one replaces the image, in the
middle of a pass whose draw list may already refer to the old one by name.

OCR threads tell the speed meter which frames they finished or skipped; every five seconds
the one that happens to be there makes a report, which becomes the text of the spinner. The
spinner writes to a pipe that a thread of the watcher reads line by line, beside the
pipe of the standard error. `ocr-results-viewer` reads the document that `ocr-cli` printed.

What is hard, and where the properties come from (`hazards` in `PROJECT.json` has every
item with its line):

* `add_producer_value` touches the free list under the *other* queue's mutex, and reads
  `stop_consumer_` after unlocking;
* `shutdown()` runs on three kinds of threads, possibly several times, while buffers are
  in hand; every sleeping thread must still be woken by somebody;
* the resume point and the text are stored by separate commits, by several OCR threads
  that finish out of order, and a process may die between any two;
* frame numbers are truncated from time stamps: they repeat, and the seek back is by a
  bisection over a file that may refuse to seek;
* updates of an old database consist of several commits and cannot be repeated;
* the watcher's event flag, its list of files, its periodic timer, its pool and Ctrl-C
  interleave; its lock is a file that is looked at and created by separate calls;
* only `is_finished()` keeps a search apart from the one before, although `find_text` sets
  the size, the table and the texts one after the other while threads run; the views notice
  its changes between draws; keys follow pointers that a refresh may have freed;
* textures are deleted and made in the middle of a pass, the driver gives their names out
  again, and an exception may leave a pass anywhere;
* the spinner ends a line only with the next one, two pipes of limited size are read by
  one thread through buffers `select` cannot see, and the program may end or be ended at
  any moment.

## 2. Modules

| Module | Models | Extends |
|---|---|---|
| `ValueQueue` | the queue, at the level of mutexes and condition variables, with the threads that use it | |
| `FramePipeline` | what the queue promises (abstract): frames are handed over in order, each to one thread, none lost while open | |
| `Recognition` | the process: exceptions, signal handler, joins, exit code | `ValueQueue` |
| `Progress` | the database of one video over any number of processes | |
| `Decoder` | bisection, packet loop, filter, flush, errors | |
| `Migration` | the updates of an old database, by several processes | |
| `SingleInstance` | the lock file | |
| `Watcher` | loop, pool, events, Ctrl-C, kills | `SingleInstance` |
| `Search` | the search threads of the viewer, their share of the databases, the table of results | |
| `ResultsTree` | pure: the rows sorted into days, hours, minutes and frames, and the jumps between frames | |
| `Viewer` | the thread that draws: searches, refresh, selection, keys, the end | `Search`, `ResultsTree` |
| `Gl` | pure: the GL context, and what each renderer does to it | |
| `Window` | construction, passes and destruction of a window, with the calls that may fail | `Gl` |
| `OcrTools` | pure: the loops of both OCR providers, `ocr-cli`, the document it prints and how it is read back | |
| `Display` | the frame view of `ocs-viewer` and the whole of `ocr-results-viewer` in that window | `Window`, `OcrTools` |
| `Reporting` | speed meter, spinner, pipes, and the watcher's thread that reads them | |
| `RecognitionProofs`, `ProgressProofs`, `DecoderProofs`, `MigrationProofs`, `WatcherProofs`, `ViewerProofs`, `DisplayProofs`, `ReportingProofs` | theorems about the module they are named after and those it extends (`RecognitionProofs` also has those of the queue, `ViewerProofs` those of the search) | that module |
| `MC*` | the instances TLC checks | |

In each module an operator whose name ends in `_Something` after the name of an action
and is marked *Mutant* is the action with a plausible bug. No specification uses these
operators; each property is known to fail when the mutant takes the place of the action.

### ValueQueue

State: `producer_values` and `consumer_values` are the two deques, `stop_producer` and
`stop_consumer` the flags, `producer_mutex` and `consumer_mutex` the holder of each
mutex, `pc` what each thread does next. `hand` is the buffer a thread holds in a local
variable, `frame` the frame stored in a buffer. `decoded`, `published`, `recognized` and
`abandoned` are history.

Steps: `get_producer_value` is `FetchStopped`, `FetchAvailable` and `FetchPop`,
`FetchEmpty` and `FetchBlock`: the mutex is held in between because
`add_producer_value` changes the same deque without it, and going to sleep is a step
after the test of the predicate. `get_consumer_value` is `TakeStopped`, `TakeValue` or
`TakeBlock`, one step each, as `consumer_mutex_` does protect all it uses.
`add_consumer_value` is `Publish`, `Announce`; `add_producer_value` is `GiveBack`,
`Settle`, `Recycle`, `Flush`; `shutdown` is `CloseProducer`, `WakeProducer`,
`CloseConsumers`, `WakeConsumers`. A thread asleep may wake for no reason
(`SpuriousWake`), and a worker in `Failing` may throw wherever its code may.

`SharedCount` selects what two overlapping operations on both ends of a `std::deque` do.
The code has a data race there (`value_queue.h:97` and `:128`), so its effect is up to
the library: libstdc++ keeps two iterators, of which `push_back` writes one and
`pop_front` the other (`FALSE`: the two do not disturb each other); libc++ and the MSVC
library keep one element count that both update (`TRUE`: one of the updates may be lost). All
passing runs and those theorems that say so are for `FALSE`.

### Recognition

Adds what `main()` knows: which worker left its `try` block (`thrown`), `done`,
`stopping`, `final_text`, and how far the end of `main()` has come (`phase`:
joined the consumers, stopped the signal thread, exited). `stopping` and `final_text` are
plain variables written by several threads; the model takes each access as one step in
any order.

### Progress

`last` and `stored` are on disk and survive `Crash`; `max_frame_number`, the static
variable of `store_last_frame_number`, does not. `store` is two steps, `StoreLast` and
`Store`, since the code commits them separately. Frames in `Poison` end the thread that
recognises them in every run (`FailAlways`). The filter (`FilterSkips`,
`FilterPasses`) is a step of its own, before recognition. `Repeated` are numbers that two frames
share. `Record` lets the video grow.

Between decoder and OCR threads this module assumes what `FramePipeline` promises: `pending` is
what was published and not taken yet, `stopped` that the queue was shut down. `Deliver` publishes
the next frame, until the end of the file (`EndOfFile`), a signal (`Interrupt`), or an OCR thread
that throws (`Die`, `ConstructFails`), which shuts the queue down before it ends. The other
threads still take what is pending, no new frame comes, and `main()` ends when they have left
(`Close`). The number of buffers is left out: a main thread that waits for one is a main thread
that is slow.

### Decoder

The bisection is a loop on `min`, `max`, `last_working`: `SeekStart`, `SeekMax`,
`SeekLast` (no more divisions) and `SeekMiddle`. `run()` is `SkipPacket`, `Send`,
`Flush`; `handle_decoded_frames` is `SendFails`, `NoFrame`, `ReceiveFails`, `SkipFrame`,
`TransferFails`, `Deliver`. FFmpeg is external: which frames it can seek to
(`seekable`) is any set, chosen at the start, and a failed `av_read_frame` is possible
anywhere, as the file may still be growing. Times are integers in units of the time base,
converted with the truncation of the code; the code uses doubles, whose rounding is not
modelled.

### Migration

Each commit of an update is a step. `versioned_database` is part of the library
sqlite-burrito: that it reads the version, calls `db_update` and stores the next version
separately is read off the way the updates are written (each has its own
transaction, and `update_v0` inserts version 0). `entries` remembers the rows of the file
for comparison. A failed call and a kill are the same for the file: SQLite rolls back the
open transaction.

### SingleInstance and Watcher

Each file system call on the lock is a step, and instances start, leave and are killed between
any two of them; `opened` are the instances whose handle still refers to the file under the
lock's name. `raced` remembers that two instances were on their way in together: both had looked
for the file and neither had its id in it yet. In `Watcher`, `runner` is what the main
thread does, `pending` and `running` the pool, `event` a change not yet delivered by
watchdog, `due` that `checking_frequency` has passed. `version` counts the changes of a
file and `seen` is the change the last successful program has read to its end. Processes that a killed or
impatiently interrupted watcher started stay in `running`.

### Search, ResultsTree and Viewer

In `Search` the variables `search_text`, `should_start`, `should_stop` and `current_entries` are
fields of the thread objects, `pc` and `at` say where a thread is in its loop and
`call`, `next` where the drawing thread is in `find_text` or the destructor. `find_text` is
`FindText` (the size), `ClearResults`, and `SetText`, `StartThread` for each thread;
`~search` is `StopThread`, `JoinThread` for each. `work_once` is `SearchFile` or `SearchFails`
and then `Report`, under the engine's mutex, with `NextFile`. `Deal` is how `collect_files()`
shares the files out. An exception in `results::store` ends the process (`ReportThrows`).

`ResultsTree` has no state: `SortResults` folds `AddRow` over the rows of the query in
`get_next`, as `sort_results` does. The nested vectors of days, hours, minutes and frames are
a sequence of frames in the order they are reached, each with its position `at` in the tree
and the day, hour and minute its nodes were made for. The eight jumps are written on
positions with the tests of `frame_view.cpp`.

In `Viewer`, `gui` is the view to be drawn next; the draw of each view is one step, except
that `find_text` is as fine as above. `owned` says that the frame shown still has its
nodes: `Refresh` destroys them, and a key pressed after that does anything
(`PressKeyOnOldFrame`). Whether the decoder delivers an image is a choice (`loaded`).

Assumed: videos do not overlap in time, there is at least one search thread
(`hardware_concurrency()` above 1), and some database was not empty when the viewer started;
where all are empty, `is_finished()` is always true.

### Gl, Window, OcrTools and Display

`Gl` keeps of the context what the renderers save and restore: bindings, the element buffer
and the attributes that belong to a vertex array, what every texture contains, and one value
for all modes that are handled together. A renderer is a function from context and draw
list to the context afterwards and what was seen. `RenderDrawLists` of the two ES backends is
`Save`, `Setup`, `DrawLists`, `Restore` as in the code; ImGui's own two backends are external. A
name that was deleted is `dead`; `Free` are the names the driver may give out, old ones included.

`Window` has `pc` for the step that is next, `made` for which of window, context, ImGui and backend
exist, and `Calls`, which records in `orphaned` that a library was used before or after its
time. The destructors are steps in the `DestructionOrder` that members and `~window` give them.

`Display` runs one of the two programs. In `ocs-viewer` a pass is `DrawResults` or
`SelectFrame`, then `DrawNoImage`, `DrawImage`, or `DrawImageAndJump`, where a key changes
the frame once its image is in the draw list. Decoding gives an image, none, or an exception.
`ocr-results-viewer` begins with the `ocr-cli` whose output it is given (`RunOcrCli`),
which may fail for each of `Obstacles`, or with a document from elsewhere. Of the scroll
position only the entry in the middle is kept.

`OcrTools` has the two `do_ocr` as functions on the words the library finds (with or without a
box, letters, blanks around them), and `ocr-cli` from arguments to document: the confidence is
cut to two decimal places in JSON.

### Reporting

`meter` is the speed meter with its three numbers; `CheckProgress` gives both outcomes of the
test for five seconds. `postfix` is the text of the spinner, which `SetProgress` prints with
the percentage of the frame of that thread: other threads may have reported in between. A line
of the spinner is complete for its reader only when something follows, as `\r` comes first.
`written`, `read` and `done` count, per stream, the lines the program wrote, those in the
buffers of the monitor and those it handled; `Capacity` is the room of a pipe. `Poll` is
`process.poll` and `select`, which only sees what is still in a pipe. `readline` is
`ReadLine`, or `ReadChunk` as long as the line is not complete; there, text that does not
decode is an exception, after which the pipes are closed and the program dies when it writes
(`BrokenPipe`). `shut` says that the queue was shut down: by a signal, by the end of the file or
by an OCR thread that throws (`ConsumerFails`), which logs that. A line of the log is a record of
its own, as is the final message; the program begins with three lines of the spinner
(`StartDecoder`). `counted` is history.

`Stuck` names the one way a run can hang: the monitor waits in `readline` for the end of a
spinner line, and the main thread waits for room in the pipe of the standard error while the
OCR threads have nothing to do. `EndsOrStuck` says that the display has no other: the queue has no
limit in this module, so that the sleep of `vq_lost_wakeup` is not in it. An OCR thread whose
constructor throws is left out; it logs one line and shuts the queue down, as one that throws at its first frame.

## 3. Runs

| Run | Instance | Shows |
|---|---|---|
| `rec_exit` | 2 OCR threads, 2 buffers, 3 frames, main and one OCR thread may throw, a signal | buffers have one owner, frames are processed at most once and in order, nobody sleeps with work to do, and the queue implements `FramePipeline`; whoever calls `shutdown()`, all threads leave their loops, a main thread asleep for want of a buffer included, and the process exits; "Done!" is only said if every frame was recognised, published frames are recognised if nothing stops the process |
| `vq_torn` (violated) | 2 OCR threads and one element count for both ends of a deque | `push_back` overlapping `pop_front` puts a buffer on the free list twice; the main thread publishes it, fetches it again and is about to fill it while an OCR thread works on the frame in it |
| `vq_lost_wakeup` (violated) | 1 OCR thread, 2 buffers | the producer sleeps next to a free buffer for ever |
| `rec_success` (violated) | 2 frames, all may throw | one frame is decoded, an OCR thread's constructor throws and shuts the queue down, the next frame is discarded: one decoded frame was not recognised, and the exit code is success |
| `progress_faults` | 2 OCR threads, frames 0, 1, 2, 4, 5, 6, two of them double, frame 4 always throws, 2 faults | text is stored once; the resume point never goes back, and passes only frames that are stored, in hand or were given up; all other frames get stored unless the one that throws is still in their way |
| `decoder` | 8 packets, every start 0 to 6, every set of seekable frames, 3 filters | the place that is found is never too late; frames arrive in order without gaps; the run ends |
| `migration` | 3 processes, 4 files, versions 0 to 3, 2 faults | rows survive, the version never goes back, a file that opens is complete |
| `watcher` | 2 instances that start, leave and are killed at any time, 1 file changed twice, 1 fault | two watchers only if both looked for the lock before either wrote it, and otherwise one program per file; every change is seen, Ctrl-C ends the watcher, a stale lock keeps nobody out |
| `two_watchers` (violated) | 2 instances, no changes, no faults | both look for the lock before either creates it, and both are inside |
| `viewer` | 2 search threads, 3 databases (2 layouts of sizes, empty ones included), 2 texts, 2 searches, 1 fault | searches do not overlap and end when the last file is done, the table has exactly the rows of the running search, the tree shows it in order, keys go through it without a gap, closing ends the process |
| `display` | both programs, 4 backends, 4 texture names, 2 frames with 2 and 1 texts, 4 pages, 3 foreign documents | one image at a time and none left behind, what is on the screen is the current frame, the view goes where it was sent, GL is put back as it was, nothing is called after its time, what is shown was recognised |
| `reporting` | 2 OCR threads, 2 frames, pipes for 1 line, 2 warnings, a signal, OCR threads that throw | each frame is in one report, each line is handled, the bar ends where the lines put it, the run ends or is `Stuck` |

Bounds. Two OCR threads are enough for all races between consumers: the code treats
them alike, and a third would only repeat the role of one of the two. `main.cpp:57` makes
twice as many buffers as OCR threads; with fewer, the free list runs empty sooner, which is
the harder case: with two buffers and three frames the main thread sleeps on an empty free
list, and a buffer comes round again. The safety properties of the queue are proved for
all sizes. In `progress_faults` each of two
numbers belongs to two frames, the decoder's filter leaves number 3 out, and frame 4 has no text
and ends every run that meets it; before it, three frames are enough for two threads to finish out of
order, and behind it are two for the other thread to take from what is pending. Two faults are a
crash during the run that repairs an earlier crash. `decoder` has more than one group of pictures, reordered frames and numbers used
twice; starting frames go from the first to the last. `migration` has one process more than
needed to find the file half updated by one and failed by another. `watcher` has one file,
as files only meet in the pool, and two changes: the second falls into the run started
for the first; `two_watchers` needs neither. In `viewer` a minute has two frames, an hour two minutes and a day twelve
frames, so that three videos make the jumps cross every kind of border, and two videos end
and begin in one minute; two searches are the fewest that can disturb each other, and with
two threads one of the two may have nothing to do. `display` has names for two images and the
font with one to spare, so that a name may come back or not; pages with words that are too
short, have no box or blanks around them, and confidences that rounding would change. In
`reporting` a pipe has room for one line, so that every write may have to wait and all
lines can be in the pipe, in the monitor's buffers or in between; two frames for two threads
finish in either order; of two warnings the second meets a full pipe. The length of the file is
known in the run: with an unknown one the bar stays at 0 (the theorem is for both).
`MaxFaults` bounds kills and failures together.

Deadlock is checked in every run. A model that is done has an explicit stuttering step
(`AllDone`, `RFinished`, `Finished`, `Exited`, the end of `Decoder!Next`) enabled only where the
program has really ended; in `Reporting` also where it is `Stuck`.

Fairness. `ValueQueue` and `Recognition`: every thread that can take a step does in the
end (weak fairness per thread), as the operating system schedules them; no fairness for a
signal, an exception or a spurious wakeup. The main thread
holds the producer mutex over several steps, again and again; a thread in `shutdown()` gets
it in between (strong fairness of `CloseProducer`). `Progress`: the user
or the watcher starts the program again and again (`Open`), and the main thread and each OCR thread of a
run do what they can (all weak); which thread gets how far before one of them shuts the queue down
is open, and there is no fairness for faults, signals or the recording. That programs end assumes
that somebody interrupts one that hangs as in `vq_lost_wakeup`. `Decoder`: the one thread runs. `Watcher`: its threads
run, time passes, programs end; nobody has to press Ctrl-C or start an instance, and the
observer's events need not arrive, so `EveryChangeSeen` rests on the periodic check alone.
`Viewer`: the window draws its views again and again, and search threads run; the user need
not do anything. The draw of the results is one of several actions, so its fairness is
stated as the change of `gui` it makes. `Reporting`: the main thread, each OCR thread, the
monitor and `_run_one` run; nobody need send a signal, and FFmpeg need not complain. `Display` has
no liveness property and no fairness.

### Disagreements with the text of the repository

* `value_queue.h:54` says `producer_mutex_` protects the producer queue;
  `add_producer_value` changes that queue under `consumer_mutex_` (`vq_torn`), and notifies
  `producer_cv_` without having held the mutex of the waiting thread
  (`vq_lost_wakeup`).
* The exit code ignores OCR threads that failed (`rec_success`); the watcher then logs the
  file as done.
* Two watchers started together both look for the lock (`single_instance.py:13`) before either
  creates it (`:16`), and both run (`two_watchers`), though `config.py:58` rules out several
  instances. `OnlyEntrantsRace` says that there is no other way in.

Seen on the way, as coded and not claimed otherwise by a text that says precisely this, so that no run is
about them:

* The resume point is committed before the text, so that a process killed in between never
  stores the text of that frame, though `config.py:54` asks for a program that is re-entrant.
  `NothingSkipped` and `UpToDateOrDropped` say that only frames in hand are lost in this way.
* A frame whose recognition throws in every run ends every run. Frames behind it are stored only if
  they were published before it threw; if it is the first of each run and throws at once, they
  never are. `UpToDateOrDropped` promises nothing for them until the number of a later frame is on disk.
* `do_ocr` of the Tesseract provider calls `Next()` before it reads the first word
  (`tesseract.cpp:99`), so that this word of each page is in no result. `DoOcr` does the same.
* A search that ends between two draws is not noticed by the results view and not shown;
  `NoticedIsShown` is about those that are noticed.
* A key that jumps to another frame deletes the image that is in the draw list already. For one
  pass its old name is drawn: nothing, the new image under that name, or on an ES backend a
  blank texture that binding the dead name makes.
* `executor.py` reads two digits of a percentage, so that a report at 100 % takes the bar back
  to 0. The timeout of its `select` is `max_parallelism`.
* `ocr-results-viewer` looks for its files before it shows its help.

## 4. Theorems

For any number of threads, buffers, frames (`RecognitionProofs`):

* `TypeCorrect`, `NoConsumerStrandedCorrect`: for both kinds of deque.
* `OwnershipCorrect`, `FramesCorrect` and `QueueImplementsPipeline`: assuming
  `SharedCount = FALSE`. With `TRUE` ownership is lost, which `vq_torn` shows.

The argument. The inductive invariant begins with `TypeInv`, which joins `TypeOK`
and `ControlState` (who holds a mutex is at a step that holds it; a worker has a
buffer exactly at the steps that need one). Without it, nothing says that the buffer a
thread publishes is its own. On top of it, ownership is proved step by step from the fact
that a queue without repetition stays so when its head is taken or an element from a hand
that is in neither queue is added. `FramesCorrect` needs ownership: a buffer that another
thread could write would change the frame under the reader. The refinement
maps the consumer queue to the frames stored in its buffers; each step of the queue is shown to
be a step of `FramePipeline` or to leave its variables alone.

For any frames, texts, numbers of threads and faults (`ProgressProofs`): `InvCorrect` is the
inductive invariant; `ProgressTypeCorrect`, `StoredOnceCorrect`, `StoredIsBehindCorrect`,
`NothingSkippedCorrect` and `LastNeverDecreasesCorrect` follow from it. It
strengthens the properties by `RunState`, in four parts: a frame in a thread's hand lies between `start` and
`newest` (`HandsInRange`); what is pending is in order and behind what is in hand
(`PendingInOrder`); what `max_frame_number` is during a run, relative to `last` and `start`
(`NumbersAgree`); and a frame with text that the decoder has passed is stored, in hand, pending or
dropped (`AllSeen`). That `last` never goes back needs that the first number a run stores is at
least its starting frame, although the static maximum starts at -1.

For any threads, failures and signals (`RecognitionProofs` as well): every step of the process is a
step of its queue or leaves it alone, so that the theorems of the queue hold of the process.
`DoneIsTruthfulCorrect` adds an invariant on how the end is recorded: who threw has closed
the queue before it is done, "Done!" is not said after that or after a signal, and unless
one of the two happened the queue is closed only behind the last frame, and an OCR thread
leaves only when none is pending. It assumes `SharedCount = FALSE` and that there are no buffers
if there are no OCR threads (`main.cpp:57` makes two for each); with buffers and nobody to
read them, "Done!" would be said of frames nobody looked at.

For every file, every set of frames FFmpeg can seek to and every start (`DecoderProofs`):
`SeekIsBehindCorrect`. The bisection only goes to frames at or before the starting frame, a seek lands on
a key frame shown by the time asked for, and truncation keeps the order of times and frame
numbers. What the container allows and codecs do not do is assumed away by
`KeyFramesInOrder`: no picture that comes before a key frame in the file is shown after it.
`SeekIsClosestCorrect` is about the search itself: where FFmpeg can seek to every frame up to some
limit and to none behind it, the bisection ends at that limit, as the interval between a place that
worked and one that did not only gets smaller.

`NoGapCorrect` and `EndsCompleteCorrect` say what arrives after the seek, for every filter and every
error of reading, sending, receiving or converting. Their invariant, `ReadInv`, ties what was
delivered or skipped to the packets sent and the frames still in the codec: whatever left the codec comes before
what is in it. This rests on two facts about the file: no two pictures have one time
(`DistinctTimes`), and no picture waits for more others than the codec holds back
(`ReorderFits`); where a codec holds back less, its frames come in another order and the
filter drops some.

For any number of processes that open one file (`MigrationProofs`): `VersionCorrect` rests on
`Claimed`: the first statement of each update fails if it was executed before, so that
of several processes only one gets from there to the next version. `OpenedCorrect` adds
what tables each version has and may have on the way to the next, and that the
resume point, once it is there, is the last frame of the old rows. `EntriesCorrect` follows the
old rows through every statement: the new tables are a fold over them, of which it is shown by counting
up that each row reaches its text and its frame, and `CopyState` says how far a file that was
left between two commits has come.

For any instances and files (`WatcherProofs`): `OnlyEntrantsRaceCorrect` from an invariant that ties the
lock file to the instance that is inside, and what an instance found in the file to the one it
met, as long as no two were on their way in together; instances that leave or are killed
meanwhile do not disturb it, as nobody unlinks a file that holds another id.
`RefusedByAnotherCorrect` holds after a race too, as none finds its own process id before it has
written it; `OneProgramCorrect` is from the first and from where the pool of an instance can have work.

For any databases, files, threads and texts (`ViewerProofs`): `RemainingCorrect`,
`SearchesApartCorrect` and `ResultsCorrect`, from one invariant in four parts, `SearchInv`.

* `FilesInv`: `collect_files()` gives each database to exactly one thread, and a thread that has any has
  one that is not empty as its last. The second half is proved of the fold `Deal`, from the order of
  the sizes and from "to the thread with the least to do". It is why `remaining_size_` reaches 0
  only with the last file of the last thread, and needs the assumption that some database is not empty.
* `ThreadInv`: which threads are at work, asked to start or idle, by what `find_text` has come to.
* `RemainingInv`: the counter is the sum of the files that are unread, so it never wraps around.
  Sums over finite sets are unfolded one element at a time.
* `MatchInv`: no match of a file that was read is missing and no other row is there, except for
  databases that could not be read.

About what is shown (`ShownInv`: the rows are finitely many, and the tree has its places):

* `TreeShowsResultsCorrect` and `TreeListsResults`. The selection is shown to be every row once in
  the order of time; then the tree is followed through the fold, row by row. A row goes to the
  last frame or to the next node of some depth (`Placed`), so frames in one node are next to each other
  and have one time, and the texts of all frames, joined, are the rows so far.
* `JumpsFollowOrderCorrect`, from `Placed` alone: a frame is the last of its node exactly where the
  tests of `frame_view.cpp` say so, and then the jump of the depth above is right. `TreeInv` adds that
  the frame shown is in the tree while its owner pointers are good, with Shift too.

For both programs, any frames, texture names and documents (`DisplayProofs`):

* `TornDownCorrect`, from what exists at each step whichever call failed.
* `AskedIsShownCorrect`, from what a request may leave for the rest of its pass.
* `ImagesOwnedCorrect`, `StateRestoredCorrect`, `ImageShownCorrect`, from `ImageInv`: the
  image and the font have names of their own, no other name holds the image of a frame, and the
  draw list has one or two names, the second that of the image unless a key changed the frame. What a
  renderer does is a fold over the draw list, of which it is shown that every binding it
  changes is put back and that it draws what each name contains. Contents are told apart by
  `FramesAssumption`.
* `ShownIsRecognizedCorrect`, from `PagesInv`, which follows the document from `ocr-cli` to
  the entries that were read: only a document with all fields is readable, a failing
  or raw run prints none, and JSON keeps texts, places and order. The loop of each
  provider is a fold over the words of which it is shown that it returns entries.

For any OCR threads, frames, pipes and intervals (`ReportingProofs`): `MeterCorrect`. That a report
never counts back needs that no frame of a run is before its resume point, wherever
the frame is: in the decoder, in the queue or in the hands of a thread. `ShownCorrect` adds
`ShownInv`: the bar is where the lines that were handled put it, and what was written and not handled is
in a pipe or in a buffer of the monitor; `Flush` leaves neither.

`Viewer` assumes that a search finds finitely many frames and that start times are natural numbers, as
they are when time is counted from day 0 of the Julian days by which `sort_results` numbers the days;
the day of `Root`, -1, stands for the null pointers it begins with.

Other assumptions than those named here are only the `ASSUME`s of the modules (types of the
constants, names that are distinct), which TLC evaluates in every run.

Only model-checked: all liveness properties, as fairness is out of reach of the prover. Every other
property of a passing run is a theorem.

## 5. Not modelled

The OCR engines and image conversion (data, not control); the options, which are read once; layout,
fonts, shaders, input translation and pixels of the viewers; the wording of reports and their rates. The start of
`recognition` (threads are created, their priority
is set) and a viewer on a machine with one
core. Doubles, the memory model below single accesses, and file systems or disks that lose
what was committed are not modelled either. A process id is never used twice.

## 6. What could be added

1. `Viewer`: a search that ends between two draws is not noticed, and its results are not
   shown; databases that are all empty at the start.
2. `Watcher`: two files with one database, with `max_parallelism` above 1.
3. `Progress` composed with `Decoder`: the frames a run delivers as `Decoder` delivers
   them, instead of all from `start` on.
