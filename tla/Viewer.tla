------------------------------- MODULE Viewer -------------------------------
(***************************************************************************)
(* ocs-viewer (viewer/views): the thread that draws the three views again  *)
(* and again, with the search engine and the tree of results between       *)
(* them.  The user types and starts searches, selects frames, jumps        *)
(* between them and closes the window, all at any time the views allow.    *)
(***************************************************************************)
EXTENDS Search, ResultsTree

CONSTANTS
  ShortText,     \* a text too short to search for
  MaxSearches    \* bound on how often a search is started

ASSUME ViewerAssumption ==
  /\ ShortText \notin Texts \cup {NoText}
  /\ MaxSearches \in Nat
  /\ \A s \in Layouts : \E d \in Databases : s[d] > 0
  /\ \A d \in Databases : StartTime(d) \in Nat

VARIABLES
  gui,               \* the view that is drawn next
  last_search_text,
  query,             \* the text of the last search (history)
  searches,
  view_finished,     \* is_finished_ of the results view
  days,
  current,           \* position of the frame shown, or NoFrame
  owned,             \* the nodes its owner pointers lead to still exist
  loaded             \* it has a texture

text_field == <<last_search_text, query, searches>>
results_view == <<view_finished, days>>
frame_view == <<current, owned, loaded>>
vars == <<search_vars, gui, text_field, results_view, frame_view>>

ViewerTypeOK ==
  /\ SearchTypeOK
  /\ gui \in {"search", "engine", "results", "frame", "closing", "crashed"}
  /\ gui = "closing" <=> call \in {"stop", "join", "gone"}
  /\ call \in {"clear", "text", "start"} => gui = "engine"
  /\ last_search_text \in Texts \cup {NoText, ShortText}
  /\ query \in Texts \cup {NoText}
  /\ searches \in 0 .. MaxSearches
  /\ view_finished \in BOOLEAN /\ owned \in BOOLEAN /\ loaded \in BOOLEAN
  /\ owned => \E i \in DOMAIN days : days[i].at = current

Init ==
  /\ SearchInit
  /\ gui = "search"
  /\ last_search_text = NoText /\ query = NoText /\ searches = 0
  /\ view_finished = TRUE /\ days = <<>>
  /\ current = NoFrame /\ owned = FALSE /\ loaded = FALSE

Ended == Terminated \/ gui = "crashed" \/ call = "gone"
-----------------------------------------------------------------------------
(* search_view::draw without a press of the button or of Enter, or while   *)
(* the button says Searching.                                              *)
DrawSearch ==
  /\ gui = "search"
  /\ gui' = "results"
  /\ UNCHANGED <<search_vars, text_field, results_view, frame_view>>

(* find_text returns at once.                                              *)
SearchShort ==
  /\ gui = "search" /\ is_finished /\ last_search_text # ShortText
  /\ last_search_text' = ShortText
  /\ gui' = "results"
  /\ UNCHANGED <<search_vars, query, searches, results_view, frame_view>>

StartSearch(text) ==
  /\ gui = "search" /\ is_finished /\ last_search_text # text /\ searches < MaxSearches
  /\ FindText
  /\ last_search_text' = text /\ query' = text /\ searches' = searches + 1
  /\ gui' = "engine"
  /\ UNCHANGED <<results_view, frame_view>>

EngineStep ==
  /\ gui = "engine"
  /\ ClearResults \/ SetText(query) \/ StartThread
  /\ gui' = IF call' = "none" THEN "results" ELSE "engine"
  /\ UNCHANGED <<text_field, results_view, frame_view>>

(* Mutant: only the first results are sorted. *)
Refresh_Once ==
  /\ view_finished' = is_finished
  /\ days' = IF is_finished /\ ~ view_finished /\ days = <<>> THEN SortResults(results) ELSE days

(* The edge search_results_view::draw looks for; a new tree frees the old. *)
Refresh ==
  /\ view_finished' = is_finished
  /\ days' = IF is_finished /\ ~ view_finished THEN SortResults(results) ELSE days

Refreshed == is_finished /\ ~ view_finished

(* set_current_frame with a frame of the tree: decoding may deliver it, or *)
(* end without one.                                                        *)
Show(place) ==
  /\ current' = place /\ owned' = TRUE
  /\ loaded' \in BOOLEAN

DrawResults ==
  /\ gui = "results"
  /\ Refresh
  /\ owned' = (owned /\ ~ Refreshed)
  /\ gui' = "frame"
  /\ UNCHANGED <<search_vars, text_field, current, loaded>>

SelectFrame ==
  /\ gui = "results"
  /\ Refresh
  /\ \E i \in DOMAIN days' : Show(days'[i].at)
  /\ gui' = "frame"
  /\ UNCHANGED <<search_vars, text_field>>

(* frame_view::draw without a key, or without an image to draw.            *)
DrawFrame ==
  /\ gui = "frame"
  /\ gui' = "search"
  /\ UNCHANGED <<search_vars, text_field, results_view, frame_view>>

PressKey(key, shift) ==
  /\ gui = "frame" /\ current # NoFrame /\ loaded /\ owned
  /\ Show(Jump(days, current, key, shift))
  /\ gui' = "search"
  /\ UNCHANGED <<search_vars, text_field, results_view>>

(* The pointers of a frame selected before the last refresh lead to freed  *)
(* memory: it may still hold what it did, or the process crashes.          *)
PressKeyOnOldFrame ==
  /\ gui = "frame" /\ current # NoFrame /\ loaded /\ ~ owned
  /\ \/ gui' = "crashed" /\ UNCHANGED loaded
     \/ gui' = "search" /\ loaded' \in BOOLEAN
  /\ UNCHANGED <<search_vars, text_field, results_view, current, owned>>

(* The window is closed, or a frame's video cannot be opened and the       *)
(* exception leaves run(): either way viewer is destroyed.                 *)
CloseWindow ==
  /\ gui = "frame"
  /\ Close
  /\ gui' = "closing"
  /\ UNCHANGED <<text_field, results_view, frame_view>>

Destroy ==
  /\ gui = "closing"
  /\ StopThread \/ JoinThread
  /\ UNCHANGED <<gui, text_field, results_view, frame_view>>

GuiStep ==
  \/ DrawSearch \/ SearchShort \/ (\E text \in Texts : StartSearch(text)) \/ EngineStep
  \/ DrawResults \/ SelectFrame
  \/ DrawFrame \/ (\E key \in Keys, shift \in BOOLEAN : PressKey(key, shift))
  \/ PressKeyOnOldFrame
  \/ CloseWindow \/ Destroy

EngineThread(t) ==
  /\ ThreadStep(t)
  /\ UNCHANGED <<gui, text_field, results_view, frame_view>>

Next ==
  \/ ~ Ended /\ (GuiStep \/ \E t \in SearchThreads : EngineThread(t))
  \/ Ended /\ UNCHANGED vars

Spec == Init /\ [][Next]_vars

(* Drawing goes on as long as the window is there, whatever the user does  *)
(* or does not do, and so does a search: reading a database ends.          *)
Fairness ==
  /\ WF_vars(~ Ended /\ (DrawSearch \/ DrawFrame))
  /\ WF_gui(~ Ended /\ gui = "results" /\ gui' = "frame")
  /\ WF_vars(~ Ended /\ (EngineStep \/ Destroy))
  /\ \A t \in SearchThreads : WF_vars(~ Ended /\ EngineThread(t))

FairSpec == Spec /\ Fairness
-----------------------------------------------------------------------------
(* Each row belongs to the running search and to its own video, and a      *)
(* finished search has stored every match, except for databases that could *)
(* not be read: for those the entries of another one may appear.           *)
ResultsAreExact ==
  call \notin {"clear", "stop", "join", "gone"} =>
    LET wanted == UNION {StoredFor(d, Found(d, query)) : d \in Databases \ failed}
        sound == {row \in results : row.video \notin failed} IN
    /\ sound \subseteq wanted
    /\ is_finished => sound = wanted

SameNode(f, g, depth) == SubSeq(f.at, 1, depth) = SubSeq(g.at, 1, depth)

(* A refresh shows each row of the table once, in the order of time, under *)
(* the day, hour and minute it belongs to, and each frame's name says how  *)
(* many texts it has.                                                      *)
TreeShowsResults ==
  [][days' # days =>
       /\ FlattenSeq([i \in DOMAIN days' |-> days'[i].texts]) = Selection(results)
       /\ \A i \in DOMAIN days' : LET f == days'[i] IN
            /\ f.name = <<f.number, Len(f.texts)>>
            /\ \A row \in ToSet(f.texts) :
                 <<Day(row), Hour(row), Minute(row), row.frame>>
                   = <<f.day, f.hour, f.minute, f.number>>
       /\ \A i, j \in DOMAIN days' : LET f == days'[i]  g == days'[j] IN
            /\ SameNode(f, g, 1) => f.day = g.day
            /\ SameNode(f, g, 2) => f.hour = g.hour
            /\ SameNode(f, g, 3) => f.minute = g.minute
            /\ SameNode(f, g, 4) => i = j]_vars

(* The frame the user sees next in a list of all frames: the first behind, *)
(* or the last before, that is in another node of the given depth.         *)
Behind(i, depth) ==
  LET others == {j \in i .. Len(days) : ~ SameNode(days[i], days[j], depth)} IN
  IF others = {} THEN Len(days) ELSE Min(others)
Before(i, depth) ==
  LET others == {j \in 1 .. i : ~ SameNode(days[i], days[j], depth)} IN
  IF others = {} THEN 1 ELSE Max(others)

Target(i, key, shift) ==
  CASE key = "down" -> Behind(i, 4)
    [] key = "right" -> Behind(i, 3)
    [] key = "page_down" -> Behind(i, IF shift THEN 1 ELSE 2)
    [] key = "up" -> Before(i, 4)
    [] key = "left" -> Before(i, 3)
    [] key = "page_up" -> Before(i, IF shift THEN 1 ELSE 2)

(* The keys go through the frames in order, without leaving one out or     *)
(* getting stuck at the border of a minute, hour or day, and stay at the   *)
(* first and last frame.  (Shift only has a meaning with the page keys.)   *)
JumpsFollowOrder ==
  [][\A key \in Keys, shift \in BOOLEAN :
       PressKey(key, shift) /\ (shift => key \in {"page_up", "page_down"}) =>
         \E i \in DOMAIN days :
           days[i].at = current /\ current' = days[Target(i, key, shift)].at]_vars

RowsShown == UNION {ToSet(days[i].texts) : i \in DOMAIN days}

(* Once the results view has noticed a search it comes to show what was    *)
(* found, unless the viewer ends before.                                   *)
NoticedIsShown ==
  ~ view_finished ~> (view_finished /\ RowsShown = results) \/ Ended

(* Closing the window ends the process, in the middle of a search too.     *)
CloseEnds == gui = "closing" ~> Ended
=============================================================================
