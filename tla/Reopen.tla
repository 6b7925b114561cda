-------------------------------- MODULE Reopen --------------------------------
(* "Reopen browser windows": the dialog, the engine that launches one window  *)
(* at a time from a timer, the browsers it launches, and the layout records   *)
(* and bindings the reopened windows are written to (vde.cpp).  Everything of *)
(* the program runs on the UI thread, one message at a time; the browsers     *)
(* open, close and report windows whenever they like.  A window is an         *)
(* identity (handle, process, start time), so a closed one never comes back.  *)
EXTENDS ReopenSelection

CONSTANTS
  Checkpoints,   \* the saved sessions, newest first
  Desks, Here,   \* the desktops there are now, by position, and the user's
  Spare,         \* record identifiers NewRecordId may hand out
  Filters,       \* the filters the user may set
  Budgets,       \* the scenarios (see budget)
  None

VARIABLES
  dialog,        \* g_reopenUi, g_snapshotDialog
  engine,        \* g_reopen
  live,          \* the browser windows: [app, desk, urls]
  arriving,      \* launched windows that have not appeared: [app, urls, job]
  home,          \* g_autoRecords: the desktop of each record
  bound,         \* g_recordByRuntime
  flight,        \* a window and the record an automatic restore holds for it
  file,          \* the tabs in the session file each browser wrote last
  told,          \* the tabs reopened so far that are still open
  heard,         \* those of told an open dialog has been able to learn of
  given,         \* the tabs a browser ever held
  born,          \* how many windows appeared
  budget         \* dialogs, clicks, reopens and disturbances left; the faults
                 \* of "partial", "memory", "slow", "moves", "records" and
                 \* "launches" that may happen; the browsers whose file at the
                 \* start is that of the newest checkpoint

browsers == <<live, arriving, file, given, born>>
layout == <<home, bound, flight>>

vars == <<dialog, engine, browsers, layout, told, heard, budget>>

\* The records of the checkpoints: the desktop each says its window was on.
Saved == UNION {ToSet(Checkpoints[k]) : k \in DOMAIN Checkpoints}

Records == {win.rec : win \in Saved} \cup Spare

Browsers == {win.app : win \in Saved}

LastSession(app) == UNION {ToSet(win.urls) : win \in {x \in ToSet(Checkpoints[1]) : x.app = app}}

ASSUME ReopenAssumption ==
  /\ Checkpoints \in Seq(Seq(Saved)) /\ Checkpoints # <<>>
  /\ \A win \in Saved : win.urls \in Seq(ToSet(win.urls))
  /\ \A b \in Budgets :
       DOMAIN b = {"dialogs", "clicks", "reopens", "disturbances", "faults", "left"}

Closed == [open |-> FALSE, busy |-> FALSE, slot |-> None, model |-> None,
           urls |-> {}, unknown |-> {}, asked |-> {}]

Idle == [active |-> FALSE, cancel |-> FALSE, jobs |-> <<>>, exe |-> {}, at |-> 1, next |-> 1,
         phase |-> "Idle", before |-> {}, born |-> 0, target |-> None, launched |-> {},
         opened |-> {}, alone |-> FALSE]

Start == CHOOSE d \in Desks : \A e \in Desks : d <= e

Init ==
  /\ dialog = Closed /\ engine = Idle
  /\ live = <<>> /\ arriving = <<>> /\ born = 0 /\ told = {} /\ heard = {}
  /\ home = [r \in {win.rec : win \in ToSet(Checkpoints[1])} |->
               LET win == CHOOSE x \in ToSet(Checkpoints[1]) : x.rec = r IN
               [app |-> win.app, desk |-> win.desk]]
  /\ bound = <<>> /\ flight = None
  /\ budget \in Budgets
  /\ file = [app \in Browsers |-> IF app \in budget.left THEN LastSession(app) ELSE {}]
  /\ given = UNION {{app} \X file[app] : app \in Browsers}

Spend(k) == budget[k] > 0 /\ budget' = [budget EXCEPT ![k] = @ - 1]

WindowsOf(app) == {w \in DOMAIN live : live[w].app = app}

UrlsOpen(app) == UNION {live[w].urls : w \in WindowsOf(app)}

\* The identifier that is generated next.  All are alike: which one is new does
\* not matter, and there is one as long as Spare lasts.
NewRecordId ==
  IF Spare \subseteq DOMAIN home THEN {} ELSE {CHOOSE r \in Spare : r \notin DOMAIN home}

Put(f, k, v) == [x \in DOMAIN f \cup {k} |-> IF x = k THEN v ELSE f[x]]

------------------------------------------------------------------------------
(* The dialog.                                                                *)

\* The model of a checkpoint, with every window of a browser whose tabs could
\* not be read unchecked: what it has open is not known.
LoadedModel(k, open, unknown) ==
  LET m == BuildReopenModel(Checkpoints[k], open) IN
  SetWindowsChecked(m, {w \in DOMAIN m.snapshot : m.snapshot[w].app \in unknown}, FALSE)

RoLoadSlot(d, k) ==
  dialog' = [d EXCEPT !.slot = k, !.model = LoadedModel(k, d.urls, d.unknown), !.asked = {}]

\* The browsers CollectFastSnapshots finds windows of: one whose windows cannot
\* be read for a moment looks as if it did not run.
RunningBrowsers ==
  LET running == {app \in Browsers : WindowsOf(app) # {}} IN
  IF "partial" \in budget.faults THEN SUBSET running ELSE {running}

\* CollectOpenTabUrls, once when the dialog is made: the session files of the
\* browsers that seem to run.  A file may be older than the tabs, and may not
\* be readable: then the browser is unknown.
OpenDialog ==
  /\ ~dialog.open /\ Spend("dialogs")
  /\ \E running \in RunningBrowsers : \E unknown \in SUBSET running :
     \E read \in {running \ unknown} \cup (IF "memory" \in budget.faults THEN {{}} ELSE {}) :
       LET urls == UNION {{app} \X file[app] : app \in read} IN
         /\ RoLoadSlot([Closed EXCEPT !.open = TRUE, !.urls = urls, !.unknown = unknown], 1)
         /\ heard' = {p \in told : p[1] \in read /\ file[p[1]] = UrlsOpen(p[1])}
  /\ UNCHANGED <<engine, browsers, layout, told>>

\* WM_DESTROY: the dialog forgets everything, the engine goes on.
CloseDialog ==
  /\ dialog.open
  /\ dialog' = Closed /\ heard' = {}
  /\ UNCHANGED <<engine, browsers, layout, told, budget>>

PickSlot ==
  /\ dialog.open /\ ~dialog.busy /\ Spend("clicks")
  /\ \E k \in DOMAIN Checkpoints \ {dialog.slot} : RoLoadSlot(dialog, k)
  /\ UNCHANGED <<engine, browsers, layout, told, heard>>

\* A change of the selection; what the user asks for by name is remembered.
Select(m, named) ==
  dialog' = [dialog EXCEPT !.model = m, !.asked = (@ \cup named) \cap m.tabs]

\* RoHandleListCheck: one row of a column.
CheckRow(f) ==
  LET m == dialog.model IN
  \/ \E d \in VisibleDesktops(m, f) : Select(SetDesktopsChecked(m, {d}, d \notin m.desks), {})
  \/ \E w \in VisibleWindows(m, f) : Select(SetWindowsChecked(m, {w}, w \notin m.wins), {})
  \/ \E tab \in VisibleTabs(m, f) : Select(SetTabChecked(m, tab, tab \notin m.tabs), {tab} \cap m.open)

\* RoHandleHeaderCheck: everything a column shows.
CheckAll(f) ==
  LET m == dialog.model IN
  \/ Select(SetDesktopsChecked(m, VisibleDesktops(m, f), ~AllDesktopsChecked(m, f)), {})
  \/ Select(SetWindowsChecked(m, VisibleWindows(m, f), ~AllWindowsChecked(m, f)), {})
  \/ Select(SetAllTabsChecked(m, f, ~AllTabsChecked(m, f)), {})

\* RoApplyBrowserFilter offers the browsers the checkpoint holds.
FilterBrowsers ==
  \E apps \in SUBSET SnapshotApps(dialog.model.snapshot) :
    Select([dialog.model EXCEPT !.apps = apps], {})

Click ==
  /\ dialog.open /\ ~dialog.busy /\ Spend("clicks")
  /\ \/ \E f \in Filters : CheckRow(f)
     \/ \E f \in Filters : CheckAll(f)
     \/ FilterBrowsers
  /\ UNCHANGED <<engine, browsers, layout, told, heard>>

\* RoStartReopen and StartReopenJobs.  Refused: the dialog is not busy.
StartReopen ==
  /\ dialog.open /\ ~dialog.busy /\ ~engine.active /\ Spend("reopens")
  /\ \E jobs \in JobsFromSelection(dialog.model) :
       LET apps == {jobs[j].app : j \in DOMAIN jobs} IN
       \E exe \in IF "launches" \in budget.faults THEN SUBSET apps \ {{}} ELSE {apps} \ {{}} :
          /\ engine' = [Idle EXCEPT !.active = TRUE, !.jobs = jobs, !.exe = exe, !.phase = "Launch",
                                    !.alone = budget.faults = {} /\ arriving = <<>>]
          /\ dialog' = [dialog EXCEPT !.busy = TRUE]
  /\ UNCHANGED <<browsers, layout, told, heard>>

CancelReopen ==
  /\ dialog.open /\ dialog.busy /\ engine.active /\ ~engine.cancel
  /\ engine' = [engine EXCEPT !.cancel = TRUE]
  /\ UNCHANGED <<dialog, browsers, layout, told, heard, budget>>

------------------------------------------------------------------------------
(* The engine, driven by TIMER_REOPEN.                                        *)

Job == engine.jobs[engine.at]

Over == \/ engine.at > Len(engine.jobs)
        \/ engine.cancel /\ engine.phase = "Launch"

\* Mutant: a dialog opened during the run is not told.
NotifyStarterOnly(d) ==
  IF ~d.busy THEN d
  ELSE LET m == MarkJobsOpen(d.model, engine.opened) IN
       [d EXCEPT !.urls = @ \cup engine.opened, !.model = m, !.busy = FALSE]

\* NotifyReopenFinished: the dialog, whichever is open now, takes what was
\* opened as open.
NotifyReopenFinished(d) ==
  IF ~d.open THEN d
  ELSE LET m == MarkJobsOpen(d.model, engine.opened) IN
       [d EXCEPT !.urls = @ \cup engine.opened, !.model = m, !.busy = FALSE,
                 !.asked = @ \cap m.tabs]

\* What the run brought back and is still there.
Returned == {p \in engine.opened : p[2] \in UrlsOpen(p[1])}

\* Mutant: the run is not over while no dialog listens.
FinishNeedsDialog ==
  /\ engine.active /\ Over /\ dialog.open
  /\ engine' = Idle
  /\ dialog' = NotifyReopenFinished(dialog)
  /\ told' = told \cup Returned
  /\ heard' = IF dialog.open THEN heard \cup Returned ELSE heard
  /\ UNCHANGED <<browsers, layout, budget>>

FinishReopen ==
  /\ engine.active /\ Over
  /\ engine' = Idle
  /\ dialog' = NotifyReopenFinished(dialog)
  /\ told' = told \cup Returned
  /\ heard' = IF dialog.open THEN heard \cup Returned ELSE heard
  /\ UNCHANGED <<browsers, layout, budget>>

\* ReopenScheduleNextJob: what went out for a window that appeared is opened.
NextJob(e) ==
  [e EXCEPT !.at = @ + 1, !.next = 1, !.phase = "Launch", !.target = None, !.launched = {},
            !.opened = @ \cup (IF e.target = None THEN {} ELSE {Job.app} \X e.launched)]

\* CollectFastSnapshots: the windows of a browser.  One whose process or title
\* cannot be read is left out, and the snapshot is only marked incomplete.
Enumerations(app) ==
  IF "partial" \in budget.faults THEN SUBSET WindowsOf(app) ELSE {WindowsOf(app)}

Appears(app, urls) ==
  /\ arriving' = Append(arriving, [app |-> app, urls |-> urls, job |-> engine.at])
  /\ given' = given \cup ({app} \X urls)

\* Phase Launch: the windows there are now, then the first command.
LaunchWindow ==
  /\ engine.active /\ ~Over /\ engine.phase = "Launch"
  /\ \/ /\ Job.app \notin engine.exe \/ "launches" \in budget.faults
        /\ engine' = NextJob(engine)
        /\ UNCHANGED <<arriving, given>>
     \/ /\ Job.app \in engine.exe
        /\ \E seen \in Enumerations(Job.app) :
             engine' = [engine EXCEPT !.before = seen, !.born = born,
                          !.launched = ToSet(Job.launches[1]), !.next = 2, !.phase = "AwaitWindow"]
        /\ Appears(Job.app, ToSet(Job.launches[1]))
  /\ UNCHANGED <<dialog, live, file, born, layout, told, heard, budget>>

\* Mutant: any window of the browser is the new one.
NoticeAnyWindow ==
  /\ engine.active /\ ~Over /\ engine.phase = "AwaitWindow"
  /\ \E seen \in Enumerations(Job.app) : \E w \in seen :
       engine' = [engine EXCEPT !.target = w,
                    !.phase = IF engine.next <= Len(Job.launches) THEN "Tabs" ELSE "Move"]
  /\ UNCHANGED <<dialog, browsers, layout, told, heard, budget>>

\* Phase AwaitWindow: any window that was not there before is the new one.
NoticeWindow ==
  /\ engine.active /\ ~Over /\ engine.phase = "AwaitWindow"
  /\ \E seen \in Enumerations(Job.app) : \E w \in seen \ engine.before :
       engine' = [engine EXCEPT !.target = w,
                    !.phase = IF engine.next <= Len(Job.launches) THEN "Tabs" ELSE "Move"]
  /\ UNCHANGED <<dialog, browsers, layout, told, heard, budget>>

\* REOPEN_WINDOW_TIMEOUT_MS without a window: the job is given up.  Only a
\* slow browser shows its window later than that.
WindowTimesOut ==
  /\ engine.active /\ ~Over /\ engine.phase = "AwaitWindow"
  /\ "slow" \in budget.faults \/ \A k \in DOMAIN arriving : arriving[k].job # engine.at
  /\ \E seen \in Enumerations(Job.app) : seen \subseteq engine.before
  /\ engine' = NextJob(engine)
  /\ UNCHANGED <<dialog, browsers, layout, told, heard, budget>>

\* Phase Tabs: one more command; a browser gives the tabs to its newest window,
\* or to a window of their own when it has none.
LaunchTabs ==
  /\ engine.active /\ ~Over /\ engine.phase = "Tabs"
  /\ LET urls == ToSet(Job.launches[engine.next])
         sent == [engine EXCEPT !.next = @ + 1,
                    !.phase = IF engine.next + 1 > Len(Job.launches) THEN "Move" ELSE "Tabs"]
         newest == CHOOSE w \in WindowsOf(Job.app) : \A v \in WindowsOf(Job.app) : v <= w
     IN \/ /\ engine' = [sent EXCEPT !.launched = @ \cup urls]
           /\ IF WindowsOf(Job.app) = {}
              THEN Appears(Job.app, urls) /\ UNCHANGED live
              ELSE /\ live' = [live EXCEPT ![newest].urls = @ \cup urls]
                   /\ given' = given \cup ({Job.app} \X urls)
                   /\ UNCHANGED arriving
        \/ /\ "launches" \in budget.faults
           /\ engine' = sent
           /\ UNCHANGED <<live, arriving, given>>
  /\ UNCHANGED <<dialog, file, born, layout, told, heard, budget>>

\* ResolveReopenDestination: the saved desktop, or the first one.
ResolveReopenDestination(job) == IF job.desk \in Desks THEN job.desk ELSE Start

\* RecordReopenedWindow: the checkpoint's record, unless another window has it.
ReusesRecord(job, w) == \A v \in DOMAIN bound : bound[v] = job.rec => v = w

\* Nothing is written when automatic layouts are off or may not be saved, or
\* the record is refused.
RecordReopenedWindow(job, w, d) ==
  \/ /\ "records" \in budget.faults
     /\ UNCHANGED <<home, bound>>
  \/ \E r \in IF ReusesRecord(job, w) THEN {job.rec} ELSE NewRecordId :
       IF r \in DOMAIN home /\ home[r].app # job.app THEN UNCHANGED <<home, bound>>
       ELSE /\ home' = Put(home, r, [app |-> job.app, desk |-> d])
            /\ bound' = Put(bound, w, r)

\* Phase Move.  The guarded move needs the window to exist still; a call that is
\* accepted is trusted, also when the window stays where it is.
MoveWindow ==
  /\ engine.active /\ ~Over /\ engine.phase = "Move"
  /\ LET w == engine.target
         d == ResolveReopenDestination(Job)
     IN \/ /\ w \in DOMAIN live
           /\ \E to \in {d} \cup (IF "moves" \in budget.faults THEN {live[w].desk} ELSE {}) :
                live' = [live EXCEPT ![w].desk = to]
           /\ RecordReopenedWindow(Job, w, d)
        \/ /\ w \notin DOMAIN live \/ "moves" \in budget.faults
           /\ UNCHANGED <<live, home, bound>>
  /\ engine' = NextJob(engine)
  /\ UNCHANGED <<dialog, arriving, file, given, born, flight, told, heard, budget>>

AdvanceReopen ==
  FinishReopen \/ LaunchWindow \/ NoticeWindow \/ WindowTimesOut \/ LaunchTabs \/ MoveWindow

------------------------------------------------------------------------------
(* The monitor: it observes only while no reopen runs, but what it started    *)
(* before goes on.                                                            *)

\* ObserveFastSnapshots: bindings of closed windows go; an unbound window is
\* matched to a record no window has, or to a new one, and the operation starts.
Observe ==
  /\ ~engine.active /\ flight = None
  /\ LET kept == [w \in DOMAIN bound \cap DOMAIN live |-> bound[w]] IN
       /\ bound' = kept
       /\ \E w \in DOMAIN live \ DOMAIN kept, r \in (DOMAIN home \cup NewRecordId) \ Range(kept) :
            /\ r \in DOMAIN home => home[r].app = live[w].app
            /\ flight' = [win |-> w, rec |-> r]
  /\ UNCHANGED <<dialog, engine, browsers, home, told, heard, budget>>

\* FinishAutoOperation: the window gets the record of the plan and, when the
\* record is an old one, the place the record says.
FinishAutoOperation ==
  /\ flight # None /\ flight' = None
  /\ LET w == flight.win
         r == flight.rec
     IN IF w \notin DOMAIN live THEN UNCHANGED <<live, home, bound>>
        ELSE /\ live' = IF r \in DOMAIN home /\ home[r].desk \in Desks
                        THEN [live EXCEPT ![w].desk = home[r].desk] ELSE live
             /\ home' = IF r \in DOMAIN home THEN home
                        ELSE Put(home, r, [app |-> live[w].app, desk |-> live[w].desk])
             /\ bound' = Put(bound, w, r)
  /\ UNCHANGED <<dialog, engine, arriving, file, given, born, told, heard, budget>>

------------------------------------------------------------------------------
(* The browsers and their user.                                               *)

Opens(app, urls) ==
  /\ born' = born + 1
  /\ given' = given \cup ({app} \X urls)
  /\ live' = Put(live, born + 1, [app |-> app, desk |-> Here, urls |-> urls])

WindowAppears ==
  /\ \E k \in DOMAIN arriving :
       /\ Opens(arriving[k].app, arriving[k].urls)
       /\ arriving' = RemoveAt(arriving, k)
  /\ UNCHANGED <<dialog, engine, file, layout, told, heard, budget>>

\* A browser writes its session file now and then.  One without windows keeps
\* the file of its last session.
SessionWritten ==
  /\ \E app \in Browsers :
       /\ WindowsOf(app) # {} /\ file[app] # UrlsOpen(app)
       /\ file' = [file EXCEPT ![app] = UrlsOpen(app)]
  /\ UNCHANGED <<dialog, engine, live, arriving, given, born, layout, told, heard, budget>>

\* A run is no longer alone when the user opens or closes a window during it.
UserOpensWindow ==
  /\ Spend("disturbances")
  /\ \E win \in Saved : Opens(win.app, {win.urls[1]})
  /\ engine' = [engine EXCEPT !.alone = FALSE]
  /\ UNCHANGED <<dialog, arriving, file, layout, told, heard>>

UserClosesWindow ==
  /\ Spend("disturbances")
  /\ \E w \in DOMAIN live : live' = [v \in DOMAIN live \ {w} |-> live[v]]
  /\ LET open == UNION {{live'[v].app} \X live'[v].urls : v \in DOMAIN live'} IN
       /\ told' = told \cap open
       /\ heard' = heard \cap open
  /\ engine' = [engine EXCEPT !.alone = FALSE]
  /\ UNCHANGED <<dialog, arriving, file, given, born, layout>>

Next ==
  \/ OpenDialog \/ CloseDialog \/ PickSlot \/ Click \/ StartReopen \/ CancelReopen
  \/ AdvanceReopen \/ Observe \/ FinishAutoOperation
  \/ WindowAppears \/ SessionWritten \/ UserOpensWindow \/ UserClosesWindow

\* The timer is periodic while a reopen runs, and a launched window appears.
Spec == Init /\ [][Next]_vars

FairSpec == Spec /\ WF_vars(AdvanceReopen) /\ WF_vars(WindowAppears)

------------------------------------------------------------------------------
(* Properties.                                                                *)

TypeOK ==
  /\ dialog.open \in BOOLEAN /\ dialog.busy \in BOOLEAN
  /\ dialog.open => /\ dialog.slot \in DOMAIN Checkpoints
                    /\ dialog.model.tabs \cup dialog.model.open \subseteq Tabs(dialog.model.snapshot)
  /\ engine.phase \in {"Idle", "Launch", "AwaitWindow", "Tabs", "Move"}
  /\ engine.active <=> engine.phase # "Idle"
  /\ engine.phase \in {"Tabs", "Move"} => engine.target \in 1..born
  /\ DOMAIN live \subseteq 1..born /\ DOMAIN bound \subseteq 1..born
  /\ DOMAIN home \subseteq Records /\ Range(bound) \subseteq DOMAIN home

(* "A tab that is already open in the browser is shown but stays unchecked so *)
(* a reopen never duplicates it" (reopen_model.hpp): through every cascade,   *)
(* filter, checkpoint and finished reopen, an open tab is checked only when   *)
(* the user checked that very tab.                                            *)
OpenTabsNeedAsking ==
  dialog.open => dialog.model.tabs \cap dialog.model.open \subseteq dialog.asked

(* What one reopen brought back is not brought back again by the next, from   *)
(* the same dialog or another, opened before, during or after the first run,  *)
(* unless the user asks for that tab: as far as the dialog can know of it,    *)
(* because it is open when the run ends, or because it reads the session file *)
(* of a browser it sees when the file says what is open.                      *)
NeverReopenedTwice ==
  [][~engine.active /\ engine'.active =>
       \A tab \in SelectedTabs(dialog.model) :
         LET s == dialog.model.snapshot IN
         <<s[tab[1]].app, UrlOf(s, tab)>> \in heard => tab \in dialog.asked]_vars

(* "The URLs open in every running browser right now, so the dialog can grey  *)
(* out what a reopen would only duplicate.  [...]  A browser whose session    *)
(* still cannot be read while it has live windows is reported" as unknown     *)
(* (CollectOpenTabUrls): a dialog that opens knows every open tab of a        *)
(* browser it does not report.  It does not hold (see README.md, "Known       *)
(* disagreements").                                                           *)
OpenTabsAreShown ==
  [][~dialog.open /\ dialog'.open =>
       \A w \in DOMAIN live :
         live[w].app \notin dialog'.unknown => {live[w].app} \X live[w].urls \subseteq dialog'.urls]_vars

(* "The dialog greys out exactly these, never a tab whose launch failed or    *)
(* timed out" (ReopenRuntime): a tab shown open was in the session file when  *)
(* the dialog read it, or was given to a browser in a launch that succeeded   *)
(* for a window that was seen.                                                *)
MarkedWereLaunched ==
  /\ engine.opened \subseteq given
  /\ dialog.open => \A tab \in dialog.model.open :
       <<dialog.model.snapshot[tab[1]].app, UrlOf(dialog.model.snapshot, tab)>> \in given

(* A dialog says it is busy only while the engine runs, also when dialogs     *)
(* were closed and opened during the run: its button cancels a run there is,  *)
(* and the controls come back when it ends.                                   *)
BusyMeansRunning == dialog.busy => dialog.open /\ engine.active

(* "Two windows must never share one record" (RecordReopenedWindow), as a     *)
(* state of the program.  It does not hold (see README.md, "Known             *)
(* disagreements").                                                           *)
RecordIsOneWindow == \A v, w \in DOMAIN bound : bound[v] = bound[w] => v = w

(* "The new window is recognized as the difference in the browser's window    *)
(* set" (AdvanceReopen): a window that was there before the launch is never   *)
(* taken for the one the launch opened, filled, moved and recorded.  It does  *)
(* not hold when an enumeration misses a window (see README.md, "Known        *)
(* disagreements").                                                           *)
TargetIsNew == engine.target # None => engine.target > engine.born

(* When the windows are all enumerated, a window that was there before the    *)
(* launch stays where it is, however late the launched window appears and     *)
(* whatever the user, failed launches and an automatic restore do meanwhile.  *)
OldWindowsStay == "partial" \notin budget.faults => TargetIsNew

(* "Its desktop is the one it was just moved to" (RecordReopenedWindow): a    *)
(* record that a reopen writes says where the window is.  It does not hold    *)
(* (see README.md, "Known disagreements").                                    *)
RecordedIsHome ==
  [][engine' # engine /\ bound' # bound =>
       LET w == engine.target IN home'[bound'[w]].desk = live'[w].desk]_vars

(* "The new window is recognized as the difference in the browser's window    *)
(* set, and Firefox routes extra tabs to its most recent window, so launches  *)
(* cannot overlap" (AdvanceReopen), and "every window returns to the desktop  *)
(* it was on" (reopen_model.hpp): when nothing fails and nobody else opens or *)
(* closes windows during the run, each job that is done has a window of its   *)
(* own, with all the tabs of the job, whatever batches they went out in, no   *)
(* tab of another job or window, and on the desktop of the job.               *)
ReopenIsExact ==
  engine.alone =>
    \E window \in [1..engine.at - 1 -> DOMAIN live] :
      /\ \A i, j \in 1..engine.at - 1 : i # j => window[i] # window[j]
      /\ \A j \in 1..engine.at - 1 :
           LET job == engine.jobs[j] IN
           live[window[j]] = [app |-> job.app, desk |-> ResolveReopenDestination(job),
                              urls |-> ToSet(job.urls)]

(* "Reopen without further clicks brings back exactly what is missing"        *)
(* (BuildReopenModel), for the browsers whose tabs could be read.             *)
FreshSelectionIsMissing ==
  [][dialog'.open /\ dialog'.slot # dialog.slot =>
       LET s == Checkpoints[dialog'.slot] IN
       SelectedTabs(dialog'.model) =
         {tab \in Tabs(s) : /\ s[tab[1]].app \notin dialog'.unknown
                            /\ ~TabIsOpen(s, tab, dialog'.urls)}]_vars

(* What the dialog offers is what is missing: nothing open is selected        *)
(* unasked, when a checkpoint is shown, after any click and when a run ends,  *)
(* whichever dialog started it; nothing counts as open that no browser held;  *)
(* and no second run brings back what the dialog could know the first did.    *)
SelectionIsMissing ==
  /\ [](TypeOK /\ OpenTabsNeedAsking /\ MarkedWereLaunched /\ BusyMeansRunning)
  /\ NeverReopenedTwice /\ FreshSelectionIsMissing

(* Every reopen ends, cancelled or not, whatever fails: the monitor observes  *)
(* nothing until it does.                                                     *)
ReopenEnds == engine.active ~> ~engine.active

==============================================================================
