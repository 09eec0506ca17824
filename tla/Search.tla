------------------------------- MODULE Search -------------------------------
(***************************************************************************)
(* The search engine of the viewer (viewer/search.cpp) and the table of    *)
(* its results (viewer/results.cpp).  A fixed set of threads, each with    *)
(* its own databases, waits for find_text(), which the thread that draws   *)
(* calls; every thread stores what it finds and subtracts the size of each *)
(* database it is through with from remaining_size_.                       *)
(*                                                                         *)
(* A database stands for the video beside it.  Matches are rows: the video *)
(* they are stored for, the database and the text they were found with,    *)
(* and the frame.                                                          *)
(***************************************************************************)
EXTENDS Integers, Sequences, SequencesExt, FiniteSetsExt

CONSTANTS
  Databases,
  NumThreads,   \* hardware_concurrency() - 1
  Texts,        \* texts of three letters or more
  NoText,       \* the empty string
  Hits(_, _),   \* the frames of a database that match a text
  Layouts,      \* the sizes of the databases, in the cases looked at
  MaxFaults,    \* bound on failing databases
  SizeLimit     \* sizes are unsigned: one more than the largest

Sum(w, S) == MapThenSumSet(LAMBDA d : w[d], S)

ASSUME SearchAssumption ==
  /\ NumThreads \in Nat \ {0} /\ MaxFaults \in Nat
  /\ IsFiniteSet(Databases)
  /\ Layouts \subseteq [Databases -> Nat]
  /\ NoText \notin Texts
  /\ \A d \in Databases, t \in Texts : Hits(d, t) \subseteq Nat /\ IsFiniteSet(Hits(d, t))
  /\ SizeLimit \in Nat
  /\ \A s \in Layouts : Sum(s, Databases) < SizeLimit

VARIABLES
  size,             \* of each database, when collect_files() saw it
  files,            \* the databases of each thread
  search_text, should_start, should_stop, current_entries,  \* of each thread
  pc,               \* what each thread does
  at,               \* the number of the file it works on
  remaining_size, results,
  failed,           \* databases whose search failed since find_text() (history)
  faults,
  call,             \* what the drawing thread does inside this class
  next              \* the thread it does it with

collected == <<size, files>>
requests == <<search_text, should_start, should_stop>>
work == <<pc, at, current_entries>>
found == <<remaining_size, results, failed, faults>>
caller == <<call, next>>
search_vars == <<collected, requests, work, found, caller>>

SearchThreads == 1 .. NumThreads

TotalSize(S) == Sum(size, S)
total_size == TotalSize(Databases)
FilesOf(t) == ToSet(files[t])
Wrap(n) == n % SizeLimit

is_finished == remaining_size = 0

Found(d, text) ==
  IF text = NoText THEN {} ELSE {[from |-> d, text |-> text, frame |-> f] : f \in Hits(d, text)}
StoredFor(d, entries) ==
  {[video |-> d, from |-> e.from, text |-> e.text, frame |-> e.frame] : e \in entries}
Rows == UNION {StoredFor(d, Found(e, x)) : d, e \in Databases, x \in Texts}

SearchTypeOK ==
  /\ size \in Layouts
  /\ files \in [SearchThreads -> Seq(Databases)]
  /\ search_text \in [SearchThreads -> Texts \cup {NoText}]
  /\ should_start \in [SearchThreads -> BOOLEAN]
  /\ should_stop \in [SearchThreads -> BOOLEAN]
  /\ current_entries \in
       [SearchThreads -> SUBSET UNION {Found(d, x) : d \in Databases, x \in Texts}]
  /\ pc \in [SearchThreads -> {"wait", "search", "report", "exited", "thrown"}]
  /\ \A t \in SearchThreads : pc[t] \in {"search", "report"} => at[t] \in DOMAIN files[t]
  /\ remaining_size \in 0 .. total_size
  /\ results \subseteq Rows
  /\ failed \subseteq Databases
  /\ faults \in 0 .. MaxFaults
  /\ call \in {"none", "clear", "text", "start", "stop", "join", "gone"}
  /\ next \in SearchThreads
-----------------------------------------------------------------------------
(* Mutant: the largest first. *)
BySize_Descending(s) ==
  {order \in SetToSeqs(Databases) : IsSorted(order, LAMBDA d, e : s[d] >= s[e])}

(* collect_files(): smallest first, to the thread with the least to do.    *)
BySize(s) == {order \in SetToSeqs(Databases) : IsSorted(order, LAMBDA d, e : s[d] <= s[e])}

Load(s, fs) == Sum(s, ToSet(fs))

LeastLoaded(s, deal) ==
  Min({t \in SearchThreads :
         \A u \in SearchThreads : Load(s, deal[t]) <= Load(s, deal[u])})

Deal(s, order) ==
  FoldLeft(LAMBDA deal, d : [deal EXCEPT ![LeastLoaded(s, deal)] = Append(@, d)],
           [t \in SearchThreads |-> <<>>], order)

SearchInit ==
  /\ size \in Layouts
  /\ \E order \in BySize(size) : files = Deal(size, order)
  /\ search_text = [t \in SearchThreads |-> NoText]
  /\ should_start = [t \in SearchThreads |-> FALSE]
  /\ should_stop = [t \in SearchThreads |-> FALSE]
  /\ current_entries = [t \in SearchThreads |-> {}]
  /\ pc = [t \in SearchThreads |-> "wait"]
  /\ at = [t \in SearchThreads |-> 1]
  /\ remaining_size = 0 /\ results = {} /\ failed = {} /\ faults = 0
  /\ call = "none" /\ next = 1
-----------------------------------------------------------------------------
(* search::find_text, up to results_->clear().                             *)
FindText ==
  /\ call = "none"
  /\ remaining_size' = total_size
  /\ call' = "clear"
  /\ UNCHANGED <<collected, requests, work, results, failed, faults, next>>

(* Mutant: the results of the search before stay. *)
ClearResults_Keeps ==
  /\ call = "clear"
  /\ failed' = {}
  /\ call' = "text" /\ next' = 1
  /\ UNCHANGED <<collected, requests, work, results, remaining_size, faults>>

ClearResults ==
  /\ call = "clear"
  /\ results' = {} /\ failed' = {}
  /\ call' = "text" /\ next' = 1
  /\ UNCHANGED <<collected, requests, work, remaining_size, faults>>

(* thread::run: the text, and then start() with the flag and notify_one.   *)
SetText(text) ==
  /\ call = "text"
  /\ search_text' = [search_text EXCEPT ![next] = text]
  /\ call' = "start"
  /\ UNCHANGED <<collected, should_start, should_stop, work, found, next>>

StartThread ==
  /\ call = "start"
  /\ should_start' = [should_start EXCEPT ![next] = TRUE]
  /\ IF next = NumThreads THEN call' = "none" /\ next' = 1
                          ELSE call' = "text" /\ next' = next + 1
  /\ UNCHANGED <<collected, search_text, should_stop, work, found>>

(* ~search: for each thread stop() and join().                             *)
Close ==
  /\ call = "none"
  /\ call' = "stop" /\ next' = 1
  /\ UNCHANGED <<collected, requests, work, found>>

StopThread ==
  /\ call = "stop"
  /\ should_stop' = [should_stop EXCEPT ![next] = TRUE]
  /\ call' = "join"
  /\ UNCHANGED <<collected, search_text, should_start, work, found, next>>

JoinThread ==
  /\ call = "join" /\ pc[next] = "exited"
  /\ IF next = NumThreads THEN call' = "gone" /\ next' = next
                          ELSE call' = "stop" /\ next' = next + 1
  /\ UNCHANGED <<collected, requests, work, found>>
-----------------------------------------------------------------------------
(* thread_func: the wait is over, and there is nothing to do but leave.    *)
Leave(t) ==
  /\ pc[t] = "wait" /\ should_stop[t]
  /\ pc' = [pc EXCEPT ![t] = "exited"]
  /\ UNCHANGED <<collected, requests, at, current_entries, found, caller>>

StartWork(t) ==
  /\ pc[t] = "wait" /\ ~ should_stop[t] /\ should_start[t]
  /\ should_start' = [should_start EXCEPT ![t] = FALSE]
  /\ pc' = [pc EXCEPT ![t] = IF files[t] = <<>> THEN "wait" ELSE "search"]
  /\ UNCHANGED <<collected, search_text, should_stop, at, current_entries, found, caller>>

(* database::find_text on the next file.                                   *)
SearchFile(t) ==
  /\ pc[t] = "search"
  /\ current_entries' = [current_entries EXCEPT ![t] = Found(files[t][at[t]], search_text[t])]
  /\ pc' = [pc EXCEPT ![t] = "report"]
  /\ UNCHANGED <<collected, requests, at, found, caller>>

(* Opening it fails, and the entries of another file stay; or reading it   *)
(* fails after they were cleared.  The exception is logged.                *)
SearchFails(t) ==
  /\ pc[t] = "search" /\ faults < MaxFaults
  /\ faults' = faults + 1
  /\ failed' = failed \cup {files[t][at[t]]}
  /\ \/ UNCHANGED current_entries
     \/ current_entries' = [current_entries EXCEPT ![t] = {}]
  /\ pc' = [pc EXCEPT ![t] = "report"]
  /\ UNCHANGED <<collected, requests, at, remaining_size, results, caller>>

(* Mutant: the loop over the files starts over. *)
NextFile_Again(t) ==
  at' = [at EXCEPT ![t] = (@ % Len(files[t])) + 1] /\ pc' = [pc EXCEPT ![t] = "search"]

(* The loop of work_once goes on, or is left.                              *)
NextFile(t) ==
  IF at[t] = Len(files[t])
  THEN at' = [at EXCEPT ![t] = 1] /\ pc' = [pc EXCEPT ![t] = "wait"]
  ELSE at' = [at EXCEPT ![t] = @ + 1] /\ pc' = [pc EXCEPT ![t] = "search"]

(* Mutant: a file without matches is not subtracted. *)
Report_OnlyMatches(t) ==
  LET file == files[t][at[t]] IN
  /\ pc[t] = "report"
  /\ results' = results \cup StoredFor(file, current_entries[t])
  /\ remaining_size' =
       IF current_entries[t] = {} THEN remaining_size ELSE Wrap(remaining_size - size[file])
  /\ NextFile(t)
  /\ UNCHANGED <<collected, requests, current_entries, failed, faults, caller>>

(* decrement_remaining_size, under the mutex of the engine.                *)
Report(t) ==
  LET file == files[t][at[t]] IN
  /\ pc[t] = "report"
  /\ results' = results \cup StoredFor(file, current_entries[t])
  /\ remaining_size' = Wrap(remaining_size - size[file])
  /\ NextFile(t)
  /\ UNCHANGED <<collected, requests, current_entries, failed, faults, caller>>

(* results::store throws, as when there is no video beside the database.   *)
(* Nobody catches it: std::terminate.                                      *)
ReportThrows(t) ==
  /\ pc[t] = "report" /\ current_entries[t] # {} /\ faults < MaxFaults
  /\ faults' = faults + 1
  /\ pc' = [pc EXCEPT ![t] = "thrown"]
  /\ UNCHANGED <<collected, requests, at, current_entries, remaining_size, results, failed,
                 caller>>

Terminated == \E t \in SearchThreads : pc[t] = "thrown"

ThreadStep(t) ==
  Leave(t) \/ StartWork(t) \/ SearchFile(t) \/ SearchFails(t) \/ Report(t) \/ ReportThrows(t)
-----------------------------------------------------------------------------
(* What a thread has left of its current pass over its files.              *)
Unread(t) ==
  IF pc[t] \in {"search", "report", "thrown"}
  THEN {files[t][i] : i \in at[t] .. Len(files[t])} ELSE {}

(* Threads of the running find_text() that have not been started yet.      *)
NotStarted(t) == call = "clear" \/ (call \in {"text", "start"} /\ t >= next)

(* remaining_size_ is the size of the files the search still has to go     *)
(* through, neither less (finished too early) nor more (never finished),   *)
(* for every order of the threads and of the start of the next search.     *)
RemainingIsExact ==
  LET ahead(t) == should_start[t] \/ NotStarted(t)
      left == [t \in SearchThreads |->
                 TotalSize(Unread(t)) + (IF ahead(t) THEN TotalSize(FilesOf(t)) ELSE 0)] IN
  remaining_size = Sum(left, SearchThreads)

(* A search starts only when every thread that has files is through with   *)
(* the one before: is_finished() says so, although empty databases do not  *)
(* count, because they come first, in the thread that gets the next one.   *)
SearchesApart ==
  [][FindText => \A t \in SearchThreads :
       files[t] # <<>> => pc[t] = "wait" /\ ~ should_start[t]]_search_vars
=============================================================================
