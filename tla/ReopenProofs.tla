------------------------------ MODULE ReopenProofs ------------------------------
(***************************************************************************)
(* Theorems about Reopen for any checkpoints, browsers, desktops, filters, *)
(* faults and budgets.  What a dialog shows as open is, all along, what    *)
(* its own list of open tabs says; that list holds what the session files  *)
(* it read said and every tab a finished run brought back, also a run that *)
(* another dialog started; every tab in it was once given to a browser.    *)
(* Windows that were there before a launch are left alone while the        *)
(* enumerations are complete, and a run that nothing disturbs gives each   *)
(* job a window of its own with its tabs on its desktop.                   *)
(***************************************************************************)
EXTENDS Reopen, FiniteSetTheorems, SequenceTheorems, WellFoundedInduction, TLAPS

-----------------------------------------------------------------------------
(* The inductive invariant.                                                *)

DialogFields == {"open", "busy", "slot", "model", "urls", "unknown", "asked"}
ModelFields == {"snapshot", "apps", "desks", "wins", "tabs", "open"}
EngineFields == {"active", "cancel", "jobs", "exe", "at", "next", "phase",
                 "before", "born", "target", "launched", "opened", "alone"}
WindowFields == {"app", "desk", "urls"}

OpenTabs(s, urls) == {tab \in Tabs(s) : TabIsOpen(s, tab, urls)}

\* A model shows its checkpoint, and as open just the tabs of the list.
Shows(m, k, urls, asked) ==
  /\ DOMAIN m = ModelFields
  /\ k \in DOMAIN Checkpoints /\ m.snapshot = Checkpoints[k]
  /\ m.open = OpenTabs(m.snapshot, urls)
  /\ m.tabs \subseteq Tabs(m.snapshot)
  /\ m.tabs \cap m.open \subseteq asked

DialogInv ==
  /\ DOMAIN dialog = DialogFields
  /\ dialog.open \in BOOLEAN /\ dialog.busy \in BOOLEAN
  /\ dialog.busy => dialog.open /\ engine.active
  /\ dialog.open => Shows(dialog.model, dialog.slot, dialog.urls, dialog.asked)
  /\ dialog.urls \subseteq given

AreJobs(jobs) ==
  /\ \E n \in Nat : DOMAIN jobs = 1..n
  /\ \A j \in DOMAIN jobs : jobs[j].rec \in Records

EngineInv ==
  /\ DOMAIN engine = EngineFields
  /\ engine.active \in BOOLEAN
  /\ engine.phase \in {"Idle", "Launch", "AwaitWindow", "Tabs", "Move"}
  /\ engine.active <=> engine.phase # "Idle"
  /\ engine.phase \in {"Tabs", "Move"} => engine.target \in 1..born
  /\ AreJobs(engine.jobs) /\ engine.at \in Nat \ {0}
  /\ engine.opened \subseteq given
  /\ {Job.app} \X engine.launched \subseteq given

BrowsersInv ==
  /\ DOMAIN file = Browsers
  /\ \A app \in Browsers : {app} \X file[app] \subseteq given
  /\ born \in Nat /\ DOMAIN live \subseteq 1..born
  /\ \A w \in DOMAIN live : /\ DOMAIN live[w] = WindowFields
                            /\ {live[w].app} \X live[w].urls \subseteq given

LayoutInv ==
  /\ DOMAIN bound \subseteq 1..born /\ DOMAIN home \subseteq Records
  /\ \A v \in DOMAIN bound : bound[v] \in DOMAIN home
  /\ flight # None => flight.rec \in Records /\ flight.win \in 1..born

\* What was brought back is still there, and what an open dialog could learn of
\* it is in its list.
ToldInv ==
  /\ \A a, u : <<a, u>> \in told => \E v \in DOMAIN live : live[v].app = a /\ u \in live[v].urls
  /\ dialog.open => \A a, u : <<a, u>> \in heard => <<a, u>> \in dialog.urls

IInv == DialogInv /\ EngineInv /\ BrowsersInv /\ LayoutInv /\ ToldInv

-----------------------------------------------------------------------------
(* Selections.                                                             *)

\* m was made of n by a click that named the tabs `named'.
Reselects(m, n, named) ==
  /\ DOMAIN n = ModelFields
  /\ n.snapshot = m.snapshot /\ n.open = m.open
  /\ n.tabs \subseteq m.tabs \cup Tabs(m.snapshot)
  /\ n.tabs \cap m.open \subseteq m.tabs \cup named

\* Checking windows and all that is under them checks no tab that is open.
LEMMA WindowsReselect ==
  ASSUME NEW m, DOMAIN m = ModelFields, NEW ws, NEW checked
  PROVE  Reselects(m, SetWindowsChecked(m, ws, checked), {})
BY DEF Reselects, SetWindowsChecked, ModelFields

LEMMA DesktopsReselect ==
  ASSUME NEW m, DOMAIN m = ModelFields, NEW ds, NEW checked
  PROVE  Reselects(m, SetDesktopsChecked(m, ds, checked), {})
<1> DEFINE n == [m EXCEPT !.desks = IF checked THEN @ \cup ds ELSE @ \ ds]
           ws == {w \in UNION {WindowsOn(m, d) : d \in ds} : Passes(m, w)}
<1>1. /\ DOMAIN n = ModelFields /\ n.snapshot = m.snapshot /\ n.open = m.open
      /\ n.tabs = m.tabs
  BY DEF ModelFields
<1> HIDE DEF n, ws
<1>2. Reselects(n, SetWindowsChecked(n, ws, checked), {})
  BY <1>1, WindowsReselect
<1>3. Reselects(m, SetWindowsChecked(n, ws, checked), {})
  BY <1>1, <1>2 DEF Reselects
<1>4. QED BY <1>3 DEF SetDesktopsChecked, n, ws

LEMMA TabReselects ==
  ASSUME NEW m, DOMAIN m = ModelFields, NEW tab \in Tabs(m.snapshot), NEW checked
  PROVE  Reselects(m, SetTabChecked(m, tab, checked), {tab} \cap m.open)
BY DEF Reselects, SetTabChecked, ModelFields

LEMMA AllTabsReselect ==
  ASSUME NEW m, DOMAIN m = ModelFields, NEW f, NEW checked
  PROVE  Reselects(m, SetAllTabsChecked(m, f, checked), {})
BY DEF Reselects, SetAllTabsChecked, VisibleTabs, ModelFields

LEMMA BrowsersReselect ==
  ASSUME NEW m, DOMAIN m = ModelFields, NEW apps
  PROVE  Reselects(m, [m EXCEPT !.apps = apps], {})
BY DEF Reselects, ModelFields

\* A dialog that selects anew shows what it showed.
LEMMA SelectShows ==
  ASSUME NEW m, NEW n, NEW k, NEW urls, NEW asked, NEW named,
         Shows(m, k, urls, asked), Reselects(m, n, named)
  PROVE  Shows(n, k, urls, (asked \cup named) \cap n.tabs)
BY DEF Shows, Reselects

\* A checkpoint that is shown anew has nothing open selected.
LEMMA LoadedShows ==
  ASSUME NEW k \in DOMAIN Checkpoints, NEW urls, NEW unknown
  PROVE  Shows(LoadedModel(k, urls, unknown), k, urls, {})
<1> DEFINE m == BuildReopenModel(Checkpoints[k], urls)
           ws == {w \in DOMAIN m.snapshot : m.snapshot[w].app \in unknown}
<1>1. Shows(m, k, urls, {})
  BY DEF Shows, BuildReopenModel, ModelFields, OpenTabs
<1>2. DOMAIN m = ModelFields
  BY DEF BuildReopenModel, ModelFields
<1> HIDE DEF m, ws
<1>3. Reselects(m, SetWindowsChecked(m, ws, FALSE), {})
  BY <1>2, WindowsReselect
<1>4. Shows(SetWindowsChecked(m, ws, FALSE), k, urls, {})
  BY <1>1, <1>3 DEF Shows, Reselects
<1>5. QED BY <1>4 DEF LoadedModel, m, ws

\* A model that is told what a run opened shows it as open.
LEMMA MarkedShows ==
  ASSUME NEW m, NEW k, NEW urls, NEW asked, NEW opened, Shows(m, k, urls, asked)
  PROVE  Shows(MarkJobsOpen(m, opened), k, urls \cup opened,
               asked \cap MarkJobsOpen(m, opened).tabs)
<1> DEFINE now == {tab \in Tabs(m.snapshot) : TabIsOpen(m.snapshot, tab, opened)}
           n == MarkJobsOpen(m, opened)
<1>1. /\ DOMAIN n = ModelFields /\ n.snapshot = m.snapshot
      /\ n.open = m.open \cup now /\ n.tabs = m.tabs \ now
  BY DEF Shows, MarkJobsOpen, ModelFields
<1>2. OpenTabs(m.snapshot, urls \cup opened) = OpenTabs(m.snapshot, urls) \cup now
  BY DEF OpenTabs, TabIsOpen
<1> HIDE DEF now, n
<1>3. Shows(n, k, urls \cup opened, asked \cap n.tabs)
  BY <1>1, <1>2 DEF Shows
<1>4. QED BY <1>3 DEF n

\* The jobs of a selection are of records of the checkpoint.
LEMMA SelectionGivesJobs ==
  ASSUME NEW m, NEW k \in DOMAIN Checkpoints, m.snapshot = Checkpoints[k],
         NEW jobs \in JobsFromSelection(m)
  PROVE  AreJobs(jobs)
<1> DEFINE ws == SelectedWindows(m)
<1>1. PICK o \in [1..Cardinality(ws) -> ws] :
        /\ DOMAIN jobs = DOMAIN o
        /\ \A i \in DOMAIN o : jobs[i].rec = m.snapshot[o[i]].rec
  BY DEF JobsFromSelection
<1>2. Checkpoints[k] \in Seq(Saved)
  BY ReopenAssumption
<1>3. IsFiniteSet(ws) /\ ws \subseteq DOMAIN m.snapshot
  <2>1. IsFiniteSet(1..Len(Checkpoints[k]))
    BY <1>2, FS_Interval
  <2>2. ws \subseteq 1..Len(Checkpoints[k])
    BY <1>2 DEF SelectedWindows
  <2>3. QED BY <2>1, <2>2, <1>2, FS_Subset
<1>4. Cardinality(ws) \in Nat
  BY <1>3, FS_CardinalityType
<1>5. \A w \in DOMAIN m.snapshot : m.snapshot[w].rec \in Records
  BY <1>2 DEF Records
<1> HIDE DEF ws
<1>6. QED BY <1>1, <1>3, <1>4, <1>5 DEF AreJobs

-----------------------------------------------------------------------------
(* The dialog's steps.                                                     *)

LEMMA InitEstablishes == Init => IInv
<1> SUFFICES ASSUME Init PROVE IInv
  OBVIOUS
<1>1. DialogInv
  BY DEF Init, DialogInv, DialogFields, Closed
<1>2. EngineInv
  BY DEF Init, EngineInv, EngineFields, AreJobs, Idle, Job
<1>3. BrowsersInv
  <2>1. DOMAIN file = Browsers
    BY DEF Init
  <2>2. \A app \in Browsers : {app} \X file[app] \subseteq given
    BY DEF Init
  <2>3. QED BY <2>1, <2>2 DEF Init, BrowsersInv
<1>4. LayoutInv
  <2>1. 1 \in DOMAIN Checkpoints
    BY ReopenAssumption
  <2>2. DOMAIN home \subseteq Records
    BY <2>1 DEF Init, Records, Saved
  <2>3. QED BY <2>2 DEF Init, LayoutInv
<1>5. ToldInv
  BY DEF Init, ToldInv, Closed
<1>6. QED BY <1>1, <1>2, <1>3, <1>4, <1>5 DEF IInv

\* Opening a dialog or picking a slot: the list of open tabs is d's.
LEMMA LoadKeepsDialog ==
  ASSUME NEW d, DOMAIN d = DialogFields, d.open = TRUE, d.busy = FALSE,
         NEW k \in DOMAIN Checkpoints, RoLoadSlot(d, k)
  PROVE  /\ DOMAIN dialog' = DialogFields
         /\ dialog'.open = TRUE /\ dialog'.busy = FALSE
         /\ dialog'.urls = d.urls /\ dialog'.unknown = d.unknown
         /\ dialog'.slot = k /\ dialog'.model = LoadedModel(k, d.urls, d.unknown)
         /\ Shows(dialog'.model, dialog'.slot, dialog'.urls, dialog'.asked)
<1>1. Shows(LoadedModel(k, d.urls, d.unknown), k, d.urls, {})
  BY LoadedShows
<1>2. QED BY <1>1 DEF RoLoadSlot, DialogFields

\* What the session files that are read hold, and what of it was brought back.
LEMMA ReadIsGiven ==
  ASSUME IInv, NEW reads, reads \subseteq Browsers
  PROVE  LET urls == UNION {{app} \X file[app] : app \in reads}
         IN /\ urls \subseteq given
            /\ \A a, u : <<a, u>> \in told /\ a \in reads /\ file[a] = UrlsOpen(a) => <<a, u>> \in urls
<1> DEFINE urls == UNION {{app} \X file[app] : app \in reads}
<1>1. urls \subseteq given
  BY DEF IInv, BrowsersInv
<1>2. ASSUME NEW a, NEW u, <<a, u>> \in told, a \in reads, file[a] = UrlsOpen(a)
      PROVE  <<a, u>> \in urls
  BY <1>2 DEF IInv, ToldInv, UrlsOpen, WindowsOf
<1>3. QED BY <1>1, <1>2

LEMMA OpenDialogKeeps == IInv /\ OpenDialog => IInv'
<1> SUFFICES ASSUME IInv, OpenDialog PROVE IInv'
  OBVIOUS
<1>1a. PICK running \in RunningBrowsers :
         \E unknown \in SUBSET running : \E read \in {running \ unknown} \cup {{}} :
           LET urls == UNION {{app} \X file[app] : app \in read} IN
           /\ RoLoadSlot([Closed EXCEPT !.open = TRUE, !.urls = urls, !.unknown = unknown], 1)
           /\ heard' = {p \in told : p[1] \in read /\ file[p[1]] = UrlsOpen(p[1])}
  BY DEF OpenDialog
<1>1. PICK unknown \in SUBSET running :
        \E read \in {running \ unknown} \cup {{}} :
          LET urls == UNION {{app} \X file[app] : app \in read} IN
          /\ RoLoadSlot([Closed EXCEPT !.open = TRUE, !.urls = urls, !.unknown = unknown], 1)
          /\ heard' = {p \in told : p[1] \in read /\ file[p[1]] = UrlsOpen(p[1])}
  BY <1>1a
<1>2. PICK reads \in {running \ unknown} \cup {{}} :
        LET urls == UNION {{app} \X file[app] : app \in reads} IN
        /\ RoLoadSlot([Closed EXCEPT !.open = TRUE, !.urls = urls, !.unknown = unknown], 1)
        /\ heard' = {p \in told : p[1] \in reads /\ file[p[1]] = UrlsOpen(p[1])}
  BY <1>1
<1>3. reads \subseteq Browsers
  BY DEF RunningBrowsers
<1> DEFINE urls == UNION {{app} \X file[app] : app \in reads}
           d == [Closed EXCEPT !.open = TRUE, !.urls = urls, !.unknown = unknown]
<1>4. /\ DOMAIN d = DialogFields /\ d.open = TRUE /\ d.busy = FALSE
      /\ d.urls = urls /\ d.unknown = unknown
  BY DEF Closed, DialogFields
<1>5. RoLoadSlot(d, 1) /\ 1 \in DOMAIN Checkpoints
  BY <1>2, ReopenAssumption
<1>6. /\ urls \subseteq given
      /\ \A a, u : <<a, u>> \in heard' => <<a, u>> \in urls
  BY <1>2, <1>3, ReadIsGiven
<1> HIDE DEF d, urls
<1>7. /\ DOMAIN dialog' = DialogFields
      /\ dialog'.open = TRUE /\ dialog'.busy = FALSE
      /\ dialog'.urls = urls /\ dialog'.unknown = unknown
      /\ Shows(dialog'.model, dialog'.slot, dialog'.urls, dialog'.asked)
  BY <1>4, <1>5, LoadKeepsDialog
<1>8. UNCHANGED <<engine, browsers, layout, told>>
  BY DEF OpenDialog
<1>9. DialogInv'
  BY <1>6, <1>7, <1>8 DEF DialogInv, browsers
<1>10. ToldInv'
  BY <1>6, <1>7, <1>8 DEF IInv, ToldInv, browsers
<1>11. EngineInv' /\ BrowsersInv' /\ LayoutInv'
  BY <1>8 DEF IInv, EngineInv, BrowsersInv, LayoutInv, browsers, layout, Job
<1>12. QED BY <1>9, <1>10, <1>11 DEF IInv

\* A step of the dialog that leaves the list of open tabs as it is.
LEMMA DialogStepKeeps ==
  ASSUME IInv, UNCHANGED <<engine, browsers, layout, told>>, heard' \subseteq heard,
         DOMAIN dialog' = DialogFields, dialog'.open \in BOOLEAN,
         dialog'.busy \in BOOLEAN, dialog'.busy => dialog'.open /\ engine.active,
         dialog'.open => /\ Shows(dialog'.model, dialog'.slot, dialog'.urls, dialog'.asked)
                         /\ dialog.open /\ dialog'.unknown = dialog.unknown
                         /\ dialog'.urls = dialog.urls,
         dialog'.urls \subseteq given
  PROVE  IInv'
<1>1. DialogInv'
  BY DEF DialogInv, browsers
<1>2. ToldInv'
  BY DEF IInv, ToldInv, browsers
<1>3. EngineInv' /\ BrowsersInv' /\ LayoutInv'
  BY DEF IInv, EngineInv, BrowsersInv, LayoutInv, browsers, layout, Job
<1>4. QED BY <1>1, <1>2, <1>3 DEF IInv

LEMMA CloseDialogKeeps == IInv /\ CloseDialog => IInv'
<1> SUFFICES ASSUME IInv, CloseDialog PROVE IInv'
  OBVIOUS
<1>1. /\ DOMAIN dialog' = DialogFields /\ dialog'.open = FALSE
      /\ dialog'.busy = FALSE /\ dialog'.urls = {}
  BY DEF CloseDialog, Closed, DialogFields
<1>2. UNCHANGED <<engine, browsers, layout, told>> /\ heard' = {}
  BY DEF CloseDialog
<1>3. QED BY <1>1, <1>2, DialogStepKeeps

LEMMA PickSlotKeeps == IInv /\ PickSlot => IInv'
<1> SUFFICES ASSUME IInv, PickSlot PROVE IInv'
  OBVIOUS
<1>1. PICK k \in DOMAIN Checkpoints : RoLoadSlot(dialog, k)
  BY DEF PickSlot
<1>2. /\ DOMAIN dialog = DialogFields /\ dialog.open = TRUE /\ dialog.busy = FALSE
      /\ dialog.urls \subseteq given
  BY DEF PickSlot, IInv, DialogInv
<1>3. /\ DOMAIN dialog' = DialogFields
      /\ dialog'.open = TRUE /\ dialog'.busy = FALSE
      /\ dialog'.urls = dialog.urls /\ dialog'.unknown = dialog.unknown
      /\ Shows(dialog'.model, dialog'.slot, dialog'.urls, dialog'.asked)
  BY <1>1, <1>2, LoadKeepsDialog
<1>4. UNCHANGED <<engine, browsers, layout, told, heard>>
  BY DEF PickSlot
<1>5. QED BY <1>2, <1>3, <1>4, DialogStepKeeps

\* What a click makes of the model.
LEMMA ClickReselects ==
  ASSUME IInv, Click
  PROVE  \E n, named : Select(n, named) /\ Reselects(dialog.model, n, named)
<1>1. DOMAIN dialog.model = ModelFields /\ dialog.open
  BY DEF Click, IInv, DialogInv, Shows
<1>2. ASSUME NEW f, CheckRow(f)
      PROVE  \E n, named : Select(n, named) /\ Reselects(dialog.model, n, named)
  <2>1. \A tab \in VisibleTabs(dialog.model, f) : tab \in Tabs(dialog.model.snapshot)
    BY DEF VisibleTabs
  <2>2. QED
    BY <1>1, <1>2, <2>1, DesktopsReselect, WindowsReselect, TabReselects DEF CheckRow
<1>3. ASSUME NEW f, CheckAll(f)
      PROVE  \E n, named : Select(n, named) /\ Reselects(dialog.model, n, named)
  BY <1>1, <1>3, DesktopsReselect, WindowsReselect, AllTabsReselect DEF CheckAll
<1>4. ASSUME FilterBrowsers
      PROVE  \E n, named : Select(n, named) /\ Reselects(dialog.model, n, named)
  BY <1>1, <1>4, BrowsersReselect DEF FilterBrowsers
<1>5. QED BY <1>2, <1>3, <1>4 DEF Click

LEMMA ClickKeeps == IInv /\ Click => IInv'
<1> SUFFICES ASSUME IInv, Click PROVE IInv'
  OBVIOUS
<1>1. PICK n, named : Select(n, named) /\ Reselects(dialog.model, n, named)
  BY ClickReselects
<1>2. /\ DOMAIN dialog = DialogFields /\ dialog.open = TRUE /\ dialog.busy = FALSE
      /\ dialog.urls \subseteq given
      /\ Shows(dialog.model, dialog.slot, dialog.urls, dialog.asked)
  BY DEF Click, IInv, DialogInv
<1>3. /\ DOMAIN dialog' = DialogFields
      /\ dialog'.open = TRUE /\ dialog'.busy = FALSE /\ dialog'.slot = dialog.slot
      /\ dialog'.urls = dialog.urls /\ dialog'.unknown = dialog.unknown
      /\ dialog'.model = n /\ dialog'.asked = (dialog.asked \cup named) \cap n.tabs
  BY <1>1, <1>2 DEF Select, DialogFields
<1>4. Shows(dialog'.model, dialog'.slot, dialog'.urls, dialog'.asked)
  BY <1>1, <1>2, <1>3, SelectShows
<1>5. UNCHANGED <<engine, browsers, layout, told, heard>>
  BY DEF Click
<1>6. QED BY <1>2, <1>3, <1>4, <1>5, DialogStepKeeps

-----------------------------------------------------------------------------
(* The engine's steps.                                                     *)

LEMMA StartReopenKeeps == IInv /\ StartReopen => IInv'
<1> SUFFICES ASSUME IInv, StartReopen PROVE IInv'
  OBVIOUS
<1>1. \E jobs \in JobsFromSelection(dialog.model) : \E exe :
        engine' = [Idle EXCEPT !.active = TRUE, !.jobs = jobs, !.exe = exe, !.phase = "Launch",
                               !.alone = budget.faults = {} /\ arriving = <<>>]
  BY DEF StartReopen
<1>1a. PICK jobs \in JobsFromSelection(dialog.model) : \E exe :
        engine' = [Idle EXCEPT !.active = TRUE, !.jobs = jobs, !.exe = exe, !.phase = "Launch",
                               !.alone = budget.faults = {} /\ arriving = <<>>]
  BY <1>1
<1>1b. PICK exe :
        engine' = [Idle EXCEPT !.active = TRUE, !.jobs = jobs, !.exe = exe, !.phase = "Launch",
                               !.alone = budget.faults = {} /\ arriving = <<>>]
  BY <1>1a
<1>2. /\ dialog.open = TRUE /\ dialog' = [dialog EXCEPT !.busy = TRUE]
      /\ UNCHANGED <<browsers, layout, told, heard>>
  BY DEF StartReopen, IInv, DialogInv
<1>3. AreJobs(jobs)
  BY <1>1b, <1>1a, <1>2, SelectionGivesJobs DEF IInv, DialogInv, Shows
<1>4. /\ DOMAIN engine' = EngineFields /\ engine'.active = TRUE
      /\ engine'.phase = "Launch" /\ engine'.jobs = jobs /\ engine'.at = 1
      /\ engine'.opened = {} /\ engine'.launched = {}
  BY <1>1b DEF Idle, EngineFields
<1>5. EngineInv'
  <2>1. {Job.app}' \X engine'.launched = {}
    BY <1>4
  <2>2. engine'.active \in BOOLEAN /\ (engine'.active <=> engine'.phase # "Idle")
    BY <1>4
  <2>3. {Job.app}' \X engine'.launched \subseteq given'
    BY <2>1
  <2>4. engine'.at \in Nat \ {0} /\ engine'.opened \subseteq given'
    BY <1>4
  <2>5. QED BY <2>2, <2>3, <2>4, <1>3, <1>4 DEF EngineInv
<1>6. /\ DOMAIN dialog' = DialogFields /\ dialog'.open = TRUE /\ dialog'.busy = TRUE
      /\ dialog'.model = dialog.model /\ dialog'.slot = dialog.slot
      /\ dialog'.urls = dialog.urls /\ dialog'.asked = dialog.asked
      /\ dialog'.unknown = dialog.unknown
  BY <1>2 DEF IInv, DialogInv, DialogFields
<1>7. DialogInv'
  BY <1>2, <1>4, <1>6 DEF IInv, DialogInv, browsers
<1>8. ToldInv'
  BY <1>2, <1>6 DEF IInv, ToldInv, browsers
<1>9. BrowsersInv' /\ LayoutInv'
  BY <1>2 DEF IInv, BrowsersInv, LayoutInv, browsers, layout
<1>10. QED BY <1>5, <1>7, <1>8, <1>9 DEF IInv

\* A step of the engine in the middle of a run: what it opened was given to a
\* browser, and the dialog and the layout do not notice.
LEMMA RunStepKeeps ==
  ASSUME IInv, UNCHANGED <<dialog, layout, told, heard>>, engine'.active <=> engine.active,
         EngineInv', BrowsersInv', given \subseteq given', born' = born,
         \A v \in DOMAIN live : /\ v \in DOMAIN live' /\ live'[v].app = live[v].app
                                /\ live[v].urls \subseteq live'[v].urls
  PROVE  IInv'
<1>1. DialogInv'
  BY DEF IInv, DialogInv
<1>2. ToldInv'
  BY DEF IInv, ToldInv
<1>3. LayoutInv'
  BY DEF IInv, LayoutInv, layout
<1>4. QED BY <1>1, <1>2, <1>3 DEF IInv

LEMMA CancelReopenKeeps == IInv /\ CancelReopen => IInv'
<1> SUFFICES ASSUME IInv, CancelReopen PROVE IInv'
  OBVIOUS
<1>1. engine' = [engine EXCEPT !.cancel = TRUE] /\ UNCHANGED <<dialog, browsers, layout, told, heard>>
  BY DEF CancelReopen
<1>2. /\ DOMAIN engine' = EngineFields
      /\ \A k \in EngineFields \ {"cancel"} : engine'[k] = engine[k]
  BY <1>1 DEF IInv, EngineInv, EngineFields
<1>3. EngineInv'
  BY <1>1, <1>2 DEF IInv, EngineInv, EngineFields, browsers, Job
<1>4. BrowsersInv'
  BY <1>1 DEF IInv, BrowsersInv, browsers
<1>5. engine'.active <=> engine.active
  BY <1>2 DEF EngineFields
<1>6. QED BY <1>1, <1>3, <1>4, <1>5, RunStepKeeps DEF browsers

\* The end of a run, whichever dialog listens.
LEMMA FinishReopenKeeps == IInv /\ FinishReopen => IInv'
<1> SUFFICES ASSUME IInv, FinishReopen PROVE IInv'
  OBVIOUS
<1> DEFINE opened == engine.opened
           n == MarkJobsOpen(dialog.model, opened)
<1>1. /\ engine' = Idle /\ dialog' = NotifyReopenFinished(dialog)
      /\ told' = told \cup {p \in opened : p[2] \in UrlsOpen(p[1])}
      /\ dialog.open => heard' \subseteq heard \cup opened
      /\ UNCHANGED <<browsers, layout>>
  BY DEF FinishReopen, Returned
<1>2. EngineInv'
  BY <1>1 DEF EngineInv, EngineFields, AreJobs, Idle, Job
<1>3. /\ DOMAIN dialog = DialogFields /\ dialog.open \in BOOLEAN /\ dialog.busy \in BOOLEAN
      /\ dialog.busy => dialog.open
      /\ dialog.open => Shows(dialog.model, dialog.slot, dialog.urls, dialog.asked)
      /\ dialog.urls \subseteq given /\ opened \subseteq given
  BY DEF IInv, DialogInv, EngineInv
<1>4. DialogInv'
  <2>1. CASE dialog.open
    <3>1. Shows(n, dialog.slot, dialog.urls \cup opened, dialog.asked \cap n.tabs)
      BY <1>3, <2>1, MarkedShows
    <3>2. dialog' = [dialog EXCEPT !.urls = @ \cup opened, !.model = n, !.busy = FALSE,
                                   !.asked = @ \cap n.tabs]
      BY <1>1, <2>1 DEF NotifyReopenFinished
    <3> HIDE DEF n, opened
    <3>3. /\ DOMAIN dialog' = DialogFields /\ dialog'.open = dialog.open
          /\ dialog'.busy = FALSE /\ dialog'.slot = dialog.slot /\ dialog'.model = n
          /\ dialog'.urls = dialog.urls \cup opened
          /\ dialog'.asked = dialog.asked \cap n.tabs
      BY <3>2, <1>3 DEF DialogFields
    <3>4. QED BY <3>1, <3>3, <1>1, <1>3 DEF DialogInv, browsers
  <2>2. CASE ~dialog.open
    BY <2>2, <1>1, <1>3 DEF NotifyReopenFinished, DialogInv, browsers
  <2>3. QED BY <2>1, <2>2
<1>5. ToldInv'
  <2>1. ASSUME dialog'.open
        PROVE  /\ dialog.open /\ dialog'.unknown = dialog.unknown
               /\ dialog'.urls = dialog.urls \cup opened
    BY <1>1, <1>3, <2>1 DEF NotifyReopenFinished, DialogFields
  <2>2. ASSUME NEW a, NEW u, <<a, u>> \in opened, u \in UrlsOpen(a)
        PROVE  \E v \in DOMAIN live : live[v].app = a /\ u \in live[v].urls
    BY <2>2 DEF UrlsOpen, WindowsOf
  <2> HIDE DEF opened
  <2>3. QED BY <2>1, <2>2, <1>1 DEF IInv, ToldInv, browsers
<1>6. BrowsersInv' /\ LayoutInv'
  BY <1>1 DEF IInv, BrowsersInv, LayoutInv, browsers, layout
<1>7. QED BY <1>2, <1>4, <1>5, <1>6 DEF IInv

\* Going on to the next job: what went out was given to the job's browser.
LEMMA NextJobKeeps ==
  ASSUME EngineInv, engine.active, engine' = NextJob(engine), given \subseteq given'
  PROVE  EngineInv' /\ (engine'.active <=> engine.active)
<1> DEFINE more == IF engine.target = None THEN {} ELSE {Job.app} \X engine.launched
<1>1. more \subseteq given
  BY DEF EngineInv
<1>2. engine' = [engine EXCEPT !.at = @ + 1, !.next = 1, !.phase = "Launch", !.target = None,
                               !.launched = {}, !.opened = @ \cup more]
  BY DEF NextJob
<1> HIDE DEF more
<1>3. /\ DOMAIN engine' = EngineFields
      /\ engine'.jobs = engine.jobs /\ engine'.phase = "Launch"
      /\ engine'.at = engine.at + 1 /\ engine'.launched = {}
      /\ engine'.opened = engine.opened \cup more
  BY <1>2 DEF EngineInv, EngineFields
<1>4. engine'.active = engine.active
  BY <1>2 DEF EngineInv, EngineFields
<1>5. {Job.app}' \X engine'.launched \subseteq given'
  BY <1>3
<1>6. engine'.at \in Nat \ {0}
  BY <1>3 DEF EngineInv
<1>7. engine'.active \in BOOLEAN /\ (engine'.active <=> engine'.phase # "Idle")
  BY <1>3, <1>4 DEF EngineInv
<1>8. engine'.opened \subseteq given'
  BY <1>1, <1>3 DEF EngineInv
<1>9. QED BY <1>3, <1>4, <1>5, <1>6, <1>7, <1>8 DEF EngineInv

LEMMA BrowsersKept ==
  ASSUME BrowsersInv, UNCHANGED <<live, file, born>>, given \subseteq given'
  PROVE  BrowsersInv'
BY DEF BrowsersInv

LEMMA LaunchWindowKeeps == IInv /\ LaunchWindow => IInv'
<1> SUFFICES ASSUME IInv, LaunchWindow PROVE IInv'
  OBVIOUS
<1>1. /\ engine.active /\ EngineInv /\ BrowsersInv
      /\ UNCHANGED <<dialog, live, file, born, layout, told, heard>>
  BY DEF LaunchWindow, IInv
<1>2. CASE engine' = NextJob(engine) /\ UNCHANGED <<arriving, given>>
  <2>1. EngineInv' /\ BrowsersInv' /\ (engine'.active <=> engine.active)
    BY <1>1, <1>2, NextJobKeeps, BrowsersKept
  <2>2. QED BY <1>1, <1>2, <2>1, RunStepKeeps
<1>3. ASSUME NEW seen,
             engine' = [engine EXCEPT !.before = seen, !.born = born,
                          !.launched = ToSet(Job.launches[1]), !.next = 2,
                          !.phase = "AwaitWindow"],
             Appears(Job.app, ToSet(Job.launches[1]))
      PROVE  IInv'
  <2> DEFINE urls == ToSet(Job.launches[1])
  <2>1. /\ DOMAIN engine' = EngineFields /\ engine'.jobs = engine.jobs
        /\ engine'.phase = "AwaitWindow" /\ engine'.at = engine.at
        /\ engine'.launched = urls /\ engine'.opened = engine.opened
    BY <1>1, <1>3 DEF EngineInv, EngineFields
  <2>2. engine'.active = engine.active
    BY <1>1, <1>3 DEF EngineInv, EngineFields
  <2>3. given' = given \cup ({Job.app} \X urls)
    BY <1>3 DEF Appears
  <2> HIDE DEF urls
  <2>4. {Job.app}' \X engine'.launched \subseteq given'
    BY <2>1, <2>3 DEF Job
  <2>5. engine'.active \in BOOLEAN /\ (engine'.active <=> engine'.phase # "Idle")
    BY <1>1, <2>1, <2>2 DEF EngineInv
  <2>6. EngineInv'
    BY <1>1, <2>1, <2>3, <2>4, <2>5 DEF EngineInv
  <2>7. QED BY <1>1, <2>2, <2>3, <2>6, BrowsersKept, RunStepKeeps
<1>4. QED BY <1>2, <1>3 DEF LaunchWindow

LEMMA NoticeWindowKeeps == IInv /\ NoticeWindow => IInv'
<1> SUFFICES ASSUME IInv, NoticeWindow PROVE IInv'
  OBVIOUS
<1>1. /\ engine.active /\ EngineInv /\ BrowsersInv
      /\ UNCHANGED <<dialog, browsers, layout, told, heard>>
  BY DEF NoticeWindow, IInv
<1>2. PICK seen \in Enumerations(Job.app) : \E w \in seen \ engine.before :
        engine' = [engine EXCEPT !.target = w,
                     !.phase = IF engine.next <= Len(Job.launches) THEN "Tabs" ELSE "Move"]
  BY DEF NoticeWindow
<1>3. PICK w \in seen :
        engine' = [engine EXCEPT !.target = w,
                     !.phase = IF engine.next <= Len(Job.launches) THEN "Tabs" ELSE "Move"]
  BY <1>2
<1>4. w \in DOMAIN live
  BY <1>3 DEF Enumerations, WindowsOf
<1>5. /\ DOMAIN engine' = EngineFields /\ engine'.jobs = engine.jobs
      /\ engine'.phase \in {"Tabs", "Move"} /\ engine'.at = engine.at
      /\ engine'.launched = engine.launched /\ engine'.opened = engine.opened
      /\ engine'.target = w
  BY <1>1, <1>3 DEF EngineInv, EngineFields
<1>6. engine'.active = engine.active
  BY <1>1, <1>3 DEF EngineInv, EngineFields
<1>7. w \in 1..born'
  BY <1>1, <1>4 DEF BrowsersInv, browsers
<1>8. engine'.active \in BOOLEAN /\ (engine'.active <=> engine'.phase # "Idle")
  BY <1>1, <1>5, <1>6 DEF EngineInv
<1>9. EngineInv'
  BY <1>1, <1>5, <1>7, <1>8 DEF EngineInv, browsers, Job
<1>10. QED BY <1>1, <1>6, <1>9, BrowsersKept, RunStepKeeps DEF browsers

LEMMA WindowTimesOutKeeps == IInv /\ WindowTimesOut => IInv'
<1> SUFFICES ASSUME IInv, WindowTimesOut PROVE IInv'
  OBVIOUS
<1>1. /\ engine.active /\ EngineInv /\ BrowsersInv /\ engine' = NextJob(engine)
      /\ UNCHANGED <<dialog, browsers, layout, told, heard>>
  BY DEF WindowTimesOut, IInv
<1>2. EngineInv' /\ BrowsersInv' /\ (engine'.active <=> engine.active)
  BY <1>1, NextJobKeeps, BrowsersKept DEF browsers
<1>3. QED BY <1>1, <1>2, RunStepKeeps DEF browsers

\* Of the windows that were born, some are the newest: there is a smallest
\* distance from the last.
LEMMA SomeNewest ==
  ASSUME NEW n \in Nat, NEW S, S \subseteq 1..n, S # {}
  PROVE  \E w \in S : \A v \in S : v <= w
<1> DEFINE T == {n - w : w \in S}
<1>1. T \subseteq Nat /\ T # {}
  <2>1. \A w \in S : n - w \in Nat
    OBVIOUS
  <2>2. QED BY <2>1
<1> HIDE DEF T
<1>2. PICK x \in T : \A y \in T : ~ (<<y, x>> \in OpToRel(<, Nat))
  BY <1>1, NatLessThanWellFounded, WFMin
<1>3. \A y \in T : x <= y
  <2>1. ASSUME NEW y \in T, y < x PROVE FALSE
    <3>1. <<y, x>> \in {ss \in Nat \X Nat : ss[1] < ss[2]}
      BY <2>1, <1>1
    <3>2. QED BY <3>1, <1>2 DEF OpToRel
  <2>2. \A y \in T : y \in Nat /\ x \in Nat
    BY <1>1
  <2>3. QED BY <2>1, <2>2
<1>4. PICK w \in S : x = n - w
  BY DEF T
<1>5. \A v \in S : n - v \in T
  BY DEF T
<1>6. \A v \in S : v <= w
  BY <1>3, <1>4, <1>5
<1>7. QED BY <1>6

LEMMA LaunchTabsKeeps == IInv /\ LaunchTabs => IInv'
<1> SUFFICES ASSUME IInv, LaunchTabs PROVE IInv'
  OBVIOUS
<1> DEFINE urls == ToSet(Job.launches[engine.next])
           phase == IF engine.next + 1 > Len(Job.launches) THEN "Move" ELSE "Tabs"
           sent == [engine EXCEPT !.next = @ + 1, !.phase = phase]
           newest == CHOOSE w \in WindowsOf(Job.app) : \A v \in WindowsOf(Job.app) : v <= w
<1>1. /\ engine.active /\ engine.phase = "Tabs" /\ EngineInv /\ BrowsersInv
      /\ UNCHANGED <<dialog, file, born, layout, told, heard>>
  BY DEF LaunchTabs, IInv
<1>2. /\ DOMAIN sent = EngineFields /\ sent.jobs = engine.jobs
      /\ sent.phase \in {"Tabs", "Move"} /\ sent.at = engine.at
      /\ sent.launched = engine.launched /\ sent.opened = engine.opened
      /\ sent.target = engine.target
  BY <1>1 DEF EngineInv, EngineFields
<1>3. sent.active = engine.active
  BY <1>1 DEF EngineInv, EngineFields
<1>4. CASE engine' = sent /\ UNCHANGED <<live, arriving, given>>
  <2> HIDE DEF sent
  <2>1. engine'.active \in BOOLEAN /\ (engine'.active <=> engine'.phase # "Idle")
    BY <1>1, <1>2, <1>3, <1>4 DEF EngineInv
  <2>2. EngineInv'
    BY <1>1, <1>2, <1>4, <2>1 DEF EngineInv, Job
  <2>3. QED BY <1>1, <1>3, <1>4, <2>2, BrowsersKept, RunStepKeeps
<1>5. ASSUME engine' = [sent EXCEPT !.launched = @ \cup urls],
             given' = given \cup ({Job.app} \X urls), BrowsersInv',
             \A v \in DOMAIN live : /\ v \in DOMAIN live' /\ live'[v].app = live[v].app
                                    /\ live[v].urls \subseteq live'[v].urls
      PROVE  IInv'
  <2> HIDE DEF sent, urls
  <2>1. /\ DOMAIN engine' = EngineFields /\ engine'.jobs = engine.jobs
        /\ engine'.phase \in {"Tabs", "Move"} /\ engine'.at = engine.at
        /\ engine'.launched = engine.launched \cup urls /\ engine'.opened = engine.opened
        /\ engine'.target = engine.target
    BY <1>2, <1>5 DEF EngineFields
  <2>2. engine'.active = engine.active
    BY <1>2, <1>3, <1>5 DEF EngineFields
  <2>3. engine'.active \in BOOLEAN /\ (engine'.active <=> engine'.phase # "Idle")
    BY <1>1, <2>1, <2>2 DEF EngineInv
  <2>4. {Job.app}' \X engine'.launched \subseteq given'
    BY <1>1, <1>5, <2>1 DEF EngineInv, Job
  <2>5. EngineInv'
    BY <1>1, <1>5, <2>1, <2>3, <2>4 DEF EngineInv
  <2>6. QED BY <1>1, <1>5, <2>2, <2>5, RunStepKeeps
<1>6. CASE /\ engine' = [sent EXCEPT !.launched = @ \cup urls]
           /\ WindowsOf(Job.app) = {} /\ Appears(Job.app, urls) /\ UNCHANGED live
  <2> HIDE DEF sent, urls
  <2>1. given' = given \cup ({Job.app} \X urls)
    BY <1>6 DEF Appears
  <2>2. BrowsersInv'
    BY <1>1, <1>6, <2>1, BrowsersKept
  <2>3. QED BY <1>5, <1>6, <2>1, <2>2
<1>7. CASE /\ engine' = [sent EXCEPT !.launched = @ \cup urls]
           /\ live' = [live EXCEPT ![newest].urls = @ \cup urls]
           /\ given' = given \cup ({Job.app} \X urls)
           /\ WindowsOf(Job.app) # {}
  <2> HIDE DEF sent, urls, newest
  <2>1. DOMAIN live' = DOMAIN live
    BY <1>7
  <2>2. \A v \in DOMAIN live : /\ DOMAIN live'[v] = WindowFields
                               /\ live'[v].app = live[v].app
                               /\ live'[v].urls = live[v].urls \cup
                                    (IF v = newest THEN urls ELSE {})
    BY <1>1, <1>7 DEF BrowsersInv, WindowFields
  <2>3. newest \in WindowsOf(Job.app)
    <3>1. WindowsOf(Job.app) \subseteq 1..born /\ born \in Nat
      BY <1>1 DEF WindowsOf, BrowsersInv
    <3>2. \E w \in WindowsOf(Job.app) : \A v \in WindowsOf(Job.app) : v <= w
      BY <1>7, <3>1, SomeNewest
    <3>3. QED BY <3>2 DEF newest
  <2>4. newest \in DOMAIN live /\ live[newest].app = Job.app
    BY <2>3 DEF WindowsOf
  <2>5. BrowsersInv'
    <3>1. born' \in Nat /\ DOMAIN live' \subseteq 1..born'
      BY <1>1, <2>1 DEF BrowsersInv
    <3>2. ASSUME NEW v \in DOMAIN live'
          PROVE  DOMAIN live'[v] = WindowFields /\ {live'[v].app} \X live'[v].urls \subseteq given'
      BY <1>1, <1>7, <2>1, <2>2, <2>4 DEF BrowsersInv
    <3>3. DOMAIN file' = Browsers /\ \A app \in Browsers : {app} \X file'[app] \subseteq given'
      BY <1>1, <1>7 DEF BrowsersInv
    <3>4. QED BY <3>1, <3>2, <3>3 DEF BrowsersInv
  <2>6. QED BY <1>5, <1>7, <2>1, <2>2, <2>5
<1>8. QED BY <1>4, <1>6, <1>7 DEF LaunchTabs

\* What the recording of a reopened window leaves of the layout.
LEMMA RecordingKeeps ==
  ASSUME NEW job, NEW w, NEW d, job.rec \in Records, w \in 1..born,
         LayoutInv, RecordReopenedWindow(job, w, d), UNCHANGED <<flight, born>>
  PROVE  LayoutInv'
<1>1. \/ UNCHANGED <<home, bound>>
      \/ \E r \in IF ReusesRecord(job, w) THEN {job.rec} ELSE NewRecordId :
           /\ home' = Put(home, r, [app |-> job.app, desk |-> d])
           /\ bound' = Put(bound, w, r)
  BY DEF RecordReopenedWindow
<1>2. NewRecordId \subseteq Spare
  BY DEF NewRecordId
<1>4. CASE UNCHANGED <<home, bound>>
  BY <1>4 DEF LayoutInv
<1>5. ASSUME NEW r \in IF ReusesRecord(job, w) THEN {job.rec} ELSE NewRecordId,
             home' = Put(home, r, [app |-> job.app, desk |-> d]), bound' = Put(bound, w, r)
      PROVE  LayoutInv'
  <2>0. r \in Records
    BY <1>2 DEF Records
  <2>1. /\ DOMAIN home' = DOMAIN home \cup {r}
        /\ DOMAIN bound' = DOMAIN bound \cup {w}
        /\ \A v \in DOMAIN bound' : bound'[v] = IF v = w THEN r ELSE bound[v]
    BY <1>5 DEF Put
  <2>2. QED BY <2>0, <2>1 DEF LayoutInv
<1>6. QED BY <1>1, <1>4, <1>5

\* While a run has a job under way, the job is one of the selection's.
LEMMA JobIsListed ==
  ASSUME EngineInv, ~Over
  PROVE  Job.rec \in Records
<1>1. PICK n \in Nat : DOMAIN engine.jobs = 1..n
  BY DEF EngineInv, AreJobs
<1>2. Len(engine.jobs) = n
  BY <1>1
<1>3. engine.at \in DOMAIN engine.jobs
  BY <1>1, <1>2 DEF EngineInv, Over
<1>4. QED BY <1>3 DEF EngineInv, AreJobs, Job

\* Moving a window changes neither what windows there are nor their tabs.
LEMMA MovedKeeps ==
  ASSUME BrowsersInv, NEW w \in DOMAIN live, NEW d,
         live' = [live EXCEPT ![w].desk = d], UNCHANGED <<file, born, given>>
  PROVE  /\ BrowsersInv' /\ DOMAIN live' = DOMAIN live
         /\ \A v \in DOMAIN live : /\ live'[v].app = live[v].app
                                   /\ live'[v].urls = live[v].urls
         /\ live'[w].desk = d
<1>1. DOMAIN live' = DOMAIN live
  OBVIOUS
<1>2. \A v \in DOMAIN live : /\ DOMAIN live'[v] = WindowFields
                             /\ live'[v].app = live[v].app
                             /\ live'[v].urls = live[v].urls
  BY DEF BrowsersInv, WindowFields
<1>3. live'[w].desk = d
  BY DEF BrowsersInv, WindowFields
<1>4. QED BY <1>1, <1>2, <1>3 DEF BrowsersInv

LEMMA MoveWindowKeeps == IInv /\ MoveWindow => IInv'
<1> SUFFICES ASSUME IInv, MoveWindow PROVE IInv'
  OBVIOUS
<1>1. /\ engine.active /\ ~Over /\ engine.phase = "Move" /\ engine' = NextJob(engine)
      /\ UNCHANGED <<dialog, arriving, file, given, born, flight, told, heard>>
      /\ DialogInv /\ EngineInv /\ BrowsersInv /\ LayoutInv /\ ToldInv
  BY DEF MoveWindow, IInv
<1>2. EngineInv' /\ (engine'.active <=> engine.active)
  BY <1>1, NextJobKeeps
<1>3. DialogInv'
  BY <1>1, <1>2 DEF DialogInv
<1>4. CASE UNCHANGED <<live, home, bound>>
  <2>1. BrowsersInv' /\ LayoutInv' /\ ToldInv'
    BY <1>1, <1>4 DEF BrowsersInv, LayoutInv, ToldInv
  <2>2. QED BY <2>1, <1>2, <1>3 DEF IInv
<1>5. ASSUME NEW d, NEW to, engine.target \in DOMAIN live,
             live' = [live EXCEPT ![engine.target].desk = to],
             RecordReopenedWindow(Job, engine.target, d)
      PROVE  IInv'
  <2>1. /\ BrowsersInv' /\ DOMAIN live' = DOMAIN live
        /\ \A v \in DOMAIN live : live'[v].app = live[v].app /\ live'[v].urls = live[v].urls
    BY <1>1, <1>5, MovedKeeps
  <2>2. ToldInv'
    BY <2>1, <1>1 DEF ToldInv
  <2>3. LayoutInv'
    <3>1. Job.rec \in Records
      BY <1>1, JobIsListed
    <3>2. engine.target \in 1..born
      BY <1>1 DEF EngineInv
    <3>3. QED BY <3>1, <3>2, <1>1, <1>5, RecordingKeeps
  <2>4. QED BY <2>1, <2>2, <2>3, <1>2, <1>3 DEF IInv
<1>6. QED BY <1>4, <1>5 DEF MoveWindow

-----------------------------------------------------------------------------
(* The monitor, the browsers and their user.                               *)

LEMMA ObserveKeeps == IInv /\ Observe => IInv'
<1> SUFFICES ASSUME IInv, Observe PROVE IInv'
  OBVIOUS
<1>1. UNCHANGED <<dialog, engine, browsers, home, told, heard>>
  BY DEF Observe
<1>2. bound' = [w \in DOMAIN bound \cap DOMAIN live |-> bound[w]]
  BY DEF Observe
<1>3. flight'.rec \in Records
  <2>1. NewRecordId \subseteq Records
    BY DEF NewRecordId, Records
  <2>2. DOMAIN home \subseteq Records
    BY DEF IInv, LayoutInv
  <2>3. QED BY <2>1, <2>2 DEF Observe
<1>3a. flight'.win \in 1..born
  <2>1. flight'.win \in DOMAIN live
    BY DEF Observe
  <2>2. QED BY <2>1 DEF IInv, BrowsersInv
<1>4. LayoutInv'
  BY <1>1, <1>2, <1>3, <1>3a DEF IInv, LayoutInv, browsers
<1>5. DialogInv' /\ EngineInv' /\ BrowsersInv' /\ ToldInv'
  BY <1>1 DEF IInv, DialogInv, EngineInv, BrowsersInv, ToldInv, browsers, Job
<1>6. QED BY <1>4, <1>5 DEF IInv

LEMMA FinishAutoOperationKeeps == IInv /\ FinishAutoOperation => IInv'
<1> SUFFICES ASSUME IInv, FinishAutoOperation PROVE IInv'
  OBVIOUS
<1> DEFINE w == flight.win
           r == flight.rec
<1>1. /\ flight # None /\ flight' = None
      /\ UNCHANGED <<dialog, engine, arriving, file, given, born, told, heard>>
      /\ DialogInv /\ EngineInv /\ BrowsersInv /\ LayoutInv /\ ToldInv
  BY DEF FinishAutoOperation, IInv
<1>2. DialogInv' /\ EngineInv'
  BY <1>1 DEF DialogInv, EngineInv, Job
<1>3. CASE UNCHANGED <<live, home, bound>>
  BY <1>1, <1>2, <1>3 DEF IInv, BrowsersInv, LayoutInv, ToldInv
<1>4. ASSUME w \in DOMAIN live,
             live' = live \/ \E d : live' = [live EXCEPT ![w].desk = d],
             (home' = home /\ r \in DOMAIN home) \/ \E x : home' = Put(home, r, x),
             bound' = Put(bound, w, r)
      PROVE  IInv'
  <2> HIDE DEF w, r
  <2>1. /\ BrowsersInv' /\ DOMAIN live' = DOMAIN live
        /\ \A v \in DOMAIN live : live'[v].app = live[v].app /\ live'[v].urls = live[v].urls
    <3>1. CASE live' = live
      BY <3>1, <1>1 DEF BrowsersInv
    <3>2. CASE \E d : live' = [live EXCEPT ![w].desk = d]
      BY <3>2, <1>1, <1>4, MovedKeeps
    <3>3. QED BY <3>1, <3>2, <1>4
  <2>2. ToldInv'
    BY <2>1, <1>1 DEF ToldInv
  <2>3. LayoutInv'
    <3>1. /\ DOMAIN home' = DOMAIN home \cup {r}
          /\ DOMAIN bound' = DOMAIN bound \cup {w}
          /\ \A v \in DOMAIN bound' : bound'[v] = IF v = w THEN r ELSE bound[v]
      BY <1>4 DEF Put
    <3>2. r \in Records /\ w \in 1..born
      BY <1>1, <1>4 DEF LayoutInv, BrowsersInv, r
    <3>3. QED BY <3>1, <3>2, <1>1 DEF LayoutInv
  <2>4. QED BY <2>1, <2>2, <2>3, <1>2 DEF IInv
<1>5. QED BY <1>3, <1>4 DEF FinishAutoOperation

\* A window that opens brings its tabs with it.
LEMMA OpensKeeps ==
  ASSUME IInv, NEW app, NEW urls, Opens(app, urls),
         UNCHANGED <<dialog, file, layout, told, heard>>,
         DOMAIN engine' = EngineFields, \A k \in EngineFields \ {"alone"} : engine'[k] = engine[k]
  PROVE  IInv'
<1>1. /\ born' = born + 1 /\ given' = given \cup ({app} \X urls)
      /\ DOMAIN live' = DOMAIN live \cup {born + 1}
      /\ \A v \in DOMAIN live' :
           live'[v] = IF v = born + 1 THEN [app |-> app, desk |-> Here, urls |-> urls]
                      ELSE live[v]
  BY DEF Opens, Put
<1>2. born + 1 \notin DOMAIN live /\ born \in Nat /\ 1..born \subseteq 1..born'
  BY <1>1 DEF IInv, BrowsersInv
<1>3. BrowsersInv'
  <2>1. born' \in Nat /\ DOMAIN live' \subseteq 1..born'
    BY <1>1, <1>2 DEF IInv, BrowsersInv
  <2>2. ASSUME NEW v \in DOMAIN live', v = born + 1
        PROVE  DOMAIN live'[v] = WindowFields /\ {live'[v].app} \X live'[v].urls \subseteq given'
    <3>1. live'[v] = [app |-> app, desk |-> Here, urls |-> urls]
      BY <2>2, <1>1
    <3>2. QED BY <3>1, <1>1 DEF WindowFields
  <2>3. ASSUME NEW v \in DOMAIN live', v # born + 1
        PROVE  DOMAIN live'[v] = WindowFields /\ {live'[v].app} \X live'[v].urls \subseteq given'
    BY <2>3, <1>1 DEF IInv, BrowsersInv
  <2>4. DOMAIN file' = Browsers /\ \A b \in Browsers : {b} \X file'[b] \subseteq given'
    BY <1>1 DEF IInv, BrowsersInv
  <2>5. QED BY <2>1, <2>2, <2>3, <2>4 DEF BrowsersInv
<1>4. engine'.active = engine.active /\ Job' = Job
  BY DEF EngineFields, Job
<1>5. DialogInv'
  BY <1>1, <1>4 DEF IInv, DialogInv
<1>6. EngineInv'
  <2>1. engine.phase \in {"Tabs", "Move"} => engine.target \in 1..born'
    BY <1>2 DEF IInv, EngineInv
  <2>2. /\ engine'.phase = engine.phase /\ engine'.target = engine.target
        /\ engine'.jobs = engine.jobs /\ engine'.at = engine.at
        /\ engine'.opened = engine.opened /\ engine'.launched = engine.launched
    BY DEF EngineFields
  <2>3. QED BY <1>1, <1>4, <2>1, <2>2 DEF IInv, EngineInv
<1>7. LayoutInv'
  BY <1>1, <1>2 DEF IInv, LayoutInv, layout
<1>8. ToldInv'
  <2>1. \A v \in DOMAIN live : v \in DOMAIN live' /\ live'[v] = live[v]
    BY <1>1, <1>2
  <2>2. QED BY <2>1 DEF IInv, ToldInv
<1>9. QED BY <1>3, <1>5, <1>6, <1>7, <1>8 DEF IInv

\* A run that the user disturbs goes on as it was.
LEMMA DisturbedGoesOn ==
  ASSUME IInv, engine' = [engine EXCEPT !.alone = FALSE]
  PROVE  /\ DOMAIN engine' = EngineFields
         /\ \A k \in EngineFields \ {"alone"} : engine'[k] = engine[k]
         /\ engine'.alone = FALSE
BY DEF IInv, EngineInv, EngineFields

LEMMA SessionWrittenKeeps == IInv /\ SessionWritten => IInv'
<1> SUFFICES ASSUME IInv, SessionWritten PROVE IInv'
  OBVIOUS
<1>1. PICK app \in Browsers : file' = [file EXCEPT ![app] = UrlsOpen(app)]
  BY DEF SessionWritten
<1>2. UNCHANGED <<dialog, engine, live, arriving, given, born, layout, told, heard>>
  BY DEF SessionWritten
<1>3. {app} \X UrlsOpen(app) \subseteq given
  BY DEF IInv, BrowsersInv, UrlsOpen, WindowsOf
<1>4. BrowsersInv'
  BY <1>1, <1>2, <1>3 DEF IInv, BrowsersInv
<1>5. DialogInv' /\ EngineInv' /\ LayoutInv' /\ ToldInv'
  BY <1>2 DEF IInv, DialogInv, EngineInv, LayoutInv, ToldInv, layout, Job
<1>6. QED BY <1>4, <1>5 DEF IInv

LEMMA UserClosesWindowKeeps == IInv /\ UserClosesWindow => IInv'
<1> SUFFICES ASSUME IInv, UserClosesWindow PROVE IInv'
  OBVIOUS
<1>1. PICK w \in DOMAIN live : live' = [v \in DOMAIN live \ {w} |-> live[v]]
  BY DEF UserClosesWindow
<1>2. /\ UNCHANGED <<dialog, arriving, file, given, born, layout>>
      /\ engine' = [engine EXCEPT !.alone = FALSE]
      /\ told' \subseteq UNION {{live'[v].app} \X live'[v].urls : v \in DOMAIN live'}
      /\ heard' \subseteq heard
  BY DEF UserClosesWindow
<1>3. BrowsersInv'
  BY <1>1, <1>2 DEF IInv, BrowsersInv
<1>4. ToldInv'
  <2>1. \A a, u : <<a, u>> \in told' => \E v \in DOMAIN live' : live'[v].app = a /\ u \in live'[v].urls
    BY <1>2
  <2>2. QED BY <1>2, <2>1 DEF IInv, ToldInv
<1>5. /\ DOMAIN engine' = EngineFields
      /\ \A k \in EngineFields \ {"alone"} : engine'[k] = engine[k]
  BY <1>2, DisturbedGoesOn
<1>6. /\ engine'.active = engine.active /\ Job' = Job
      /\ engine'.phase = engine.phase /\ engine'.target = engine.target
      /\ engine'.jobs = engine.jobs /\ engine'.at = engine.at
      /\ engine'.opened = engine.opened /\ engine'.launched = engine.launched
  BY <1>5 DEF EngineFields, Job
<1>7. DialogInv' /\ EngineInv'
  BY <1>2, <1>5, <1>6 DEF IInv, DialogInv, EngineInv
<1>8. LayoutInv'
  BY <1>2 DEF IInv, LayoutInv, layout
<1>9. QED BY <1>3, <1>4, <1>7, <1>8 DEF IInv

LEMMA StepKeeps == IInv /\ [Next]_vars => IInv'
<1> SUFFICES ASSUME IInv, [Next]_vars PROVE IInv'
  OBVIOUS
<1>1. CASE AdvanceReopen
  BY <1>1, FinishReopenKeeps, LaunchWindowKeeps, NoticeWindowKeeps, WindowTimesOutKeeps,
     LaunchTabsKeeps, MoveWindowKeeps DEF AdvanceReopen
<1>2. CASE WindowAppears
  <2>1. UNCHANGED <<dialog, engine, file, layout, told, heard>>
    BY <1>2 DEF WindowAppears
  <2>2. DOMAIN engine' = EngineFields /\ \A k \in EngineFields \ {"alone"} : engine'[k] = engine[k]
    BY <2>1 DEF IInv, EngineInv
  <2>3. QED BY <1>2, <2>1, <2>2, OpensKeeps DEF WindowAppears
<1>3. CASE UserOpensWindow
  <2>1. /\ UNCHANGED <<dialog, file, layout, told, heard>>
        /\ engine' = [engine EXCEPT !.alone = FALSE]
    BY <1>3 DEF UserOpensWindow
  <2>2. QED BY <1>3, <2>1, DisturbedGoesOn, OpensKeeps DEF UserOpensWindow
<1>4. CASE UNCHANGED vars
  BY <1>4 DEF vars, browsers, layout, IInv, DialogInv, EngineInv, BrowsersInv, LayoutInv,
     ToldInv, Job
<1>5. QED
  BY <1>1, <1>2, <1>3, <1>4, OpenDialogKeeps, CloseDialogKeeps, PickSlotKeeps, ClickKeeps,
     StartReopenKeeps, CancelReopenKeeps, ObserveKeeps, FinishAutoOperationKeeps,
     SessionWrittenKeeps, UserClosesWindowKeeps DEF Next

-----------------------------------------------------------------------------
(* The theorems.                                                           *)

\* The invariant of the dialog and of the runs it starts: what is shown as
\* open is what the dialog's list says, and the list follows every run
\* (RoLoadSlot, NotifyReopenFinished, ReopenScheduleNextJob).
THEOREM ReopenInvariant == Spec => []IInv
<1>1. Init => IInv
  BY InitEstablishes
<1>2. IInv /\ [Next]_vars => IInv'
  BY StepKeeps
<1>3. QED BY <1>1, <1>2, PTL DEF Spec

\* No cascade, filter, checkpoint or finished run checks an open tab unasked;
\* nothing is marked open that was not given to a browser; and a dialog is
\* busy only while a run is under way.
LEMMA InvariantImplies ==
  IInv => TypeOK /\ OpenTabsNeedAsking /\ MarkedWereLaunched /\ BusyMeansRunning
<1> SUFFICES ASSUME IInv
             PROVE  TypeOK /\ OpenTabsNeedAsking /\ MarkedWereLaunched /\ BusyMeansRunning
  OBVIOUS
<1>1. dialog.open => /\ dialog.slot \in DOMAIN Checkpoints
                     /\ dialog.model.tabs \cup dialog.model.open \subseteq Tabs(dialog.model.snapshot)
  BY DEF IInv, DialogInv, Shows, OpenTabs
<1>2. TypeOK
  <2>1. Range(bound) \subseteq DOMAIN home
    BY DEF IInv, LayoutInv, Range
  <2>2. QED BY <1>1, <2>1 DEF TypeOK, IInv, DialogInv, EngineInv, BrowsersInv, LayoutInv
<1>3. OpenTabsNeedAsking
  BY DEF OpenTabsNeedAsking, IInv, DialogInv, Shows
<1>4. MarkedWereLaunched
  <2>1. ASSUME dialog.open, NEW tab \in dialog.model.open
        PROVE  <<dialog.model.snapshot[tab[1]].app, UrlOf(dialog.model.snapshot, tab)>> \in given
    BY <2>1 DEF IInv, DialogInv, Shows, OpenTabs, TabIsOpen
  <2>2. engine.opened \subseteq given
    BY DEF IInv, EngineInv
  <2>3. QED BY <2>1, <2>2 DEF MarkedWereLaunched
<1>5. BusyMeansRunning
  BY DEF BusyMeansRunning, IInv, DialogInv
<1>6. QED BY <1>2, <1>3, <1>4, <1>5

\* A run starts when the user says so and at no other step.
LEMMA RunsAreStarted ==
  ASSUME IInv, [Next]_vars, ~engine.active, engine'.active
  PROVE  StartReopen
<1>1. ASSUME engine' = engine \/ engine' = Idle PROVE FALSE
  BY <1>1 DEF Idle
<1>2. ~OpenDialog /\ ~CloseDialog /\ ~PickSlot /\ ~Click
  BY <1>1 DEF OpenDialog, CloseDialog, PickSlot, Click
<1>3. ~CancelReopen /\ ~AdvanceReopen
  BY DEF CancelReopen, AdvanceReopen, FinishReopen, LaunchWindow, NoticeWindow,
     WindowTimesOut, LaunchTabs, MoveWindow
<1>4. ~Observe /\ ~FinishAutoOperation /\ ~WindowAppears /\ ~SessionWritten
  BY <1>1 DEF Observe, FinishAutoOperation, WindowAppears, SessionWritten
<1>4a. ~UserOpensWindow /\ ~UserClosesWindow
  BY DisturbedGoesOn DEF UserOpensWindow, UserClosesWindow, EngineFields
<1>5. ~UNCHANGED vars
  BY <1>1 DEF vars
<1>6. QED BY <1>2, <1>3, <1>4, <1>4a, <1>5 DEF Next

\* What a selection that starts a run has of tabs the dialog heard of.
LEMMA HeardNeedAsking ==
  ASSUME IInv, dialog.open, NEW tab \in SelectedTabs(dialog.model),
         NEW app, app = dialog.model.snapshot[tab[1]].app,
         <<app, UrlOf(dialog.model.snapshot, tab)>> \in heard
  PROVE  tab \in dialog.asked
<1>1. tab \in dialog.model.tabs /\ tab \in Tabs(dialog.model.snapshot)
  BY DEF SelectedTabs, IInv, DialogInv, Shows
<1>2. <<app, UrlOf(dialog.model.snapshot, tab)>> \in dialog.urls
  BY DEF IInv, ToldInv
<1>3. tab \in dialog.model.open
  BY <1>1, <1>2 DEF IInv, DialogInv, Shows, OpenTabs, TabIsOpen
<1>4. QED BY <1>1, <1>3 DEF IInv, DialogInv, Shows

\* A checkpoint shown anew selects what is missing of the browsers whose tabs
\* could be read.
LEMMA LoadedSelectsMissing ==
  ASSUME NEW k, NEW urls, NEW unknown
  PROVE  SelectedTabs(LoadedModel(k, urls, unknown)) =
           {tab \in Tabs(Checkpoints[k]) :
              /\ Checkpoints[k][tab[1]].app \notin unknown
              /\ ~TabIsOpen(Checkpoints[k], tab, urls)}
<1> DEFINE s == Checkpoints[k]
           m == BuildReopenModel(s, urls)
           ws == {w \in DOMAIN s : s[w].app \in unknown}
           n == LoadedModel(k, urls, unknown)
<1>1. /\ m.snapshot = s /\ m.apps = SnapshotApps(s) /\ m.desks = {s[w].desk : w \in DOMAIN s}
      /\ m.wins = DOMAIN s /\ m.tabs = Tabs(s) \ m.open
      /\ m.open = {tab \in Tabs(s) : TabIsOpen(s, tab, urls)}
      /\ DOMAIN m = ModelFields
  BY DEF BuildReopenModel, ModelFields
<1> HIDE DEF m
<1>2. n = SetWindowsChecked(m, ws, FALSE)
  BY <1>1 DEF LoadedModel, m
<1>3. /\ n.snapshot = s /\ n.apps = m.apps /\ n.desks = m.desks
      /\ n.wins = DOMAIN s \ ws /\ n.tabs = m.tabs \ {tab \in Tabs(s) : tab[1] \in ws}
  BY <1>1, <1>2 DEF SetWindowsChecked, ModelFields
<1>4. \A tab \in Tabs(s) : tab[1] \in DOMAIN s
  BY DEF Tabs
<1> HIDE DEF n
<1>5. \A w \in DOMAIN s : WindowSelected(n, w) <=> w \notin ws
  BY <1>1, <1>3 DEF WindowSelected, Passes, SnapshotApps
<1> HIDE DEF s
<1>6. SelectedTabs(n) = {tab \in m.tabs : tab[1] \notin ws}
  BY <1>1, <1>3, <1>4, <1>5 DEF SelectedTabs
<1>7. QED BY <1>1, <1>4, <1>6 DEF s, n

\* The slot changes only when a checkpoint is shown anew.
LEMMA ShowingAnewLoads ==
  ASSUME IInv, [Next]_vars, dialog'.open, dialog'.slot # dialog.slot
  PROVE  dialog'.model = LoadedModel(dialog'.slot, dialog'.urls, dialog'.unknown)
<1>1. DOMAIN dialog = DialogFields
  BY DEF IInv, DialogInv
<1>2. ASSUME NEW d, NEW k, DOMAIN d = DialogFields, RoLoadSlot(d, k)
      PROVE  dialog'.model = LoadedModel(dialog'.slot, dialog'.urls, dialog'.unknown)
  BY <1>2 DEF RoLoadSlot, DialogFields
<1>3. CASE OpenDialog
  <2>1. PICK urls, unknown :
          RoLoadSlot([Closed EXCEPT !.open = TRUE, !.urls = urls, !.unknown = unknown], 1)
    BY <1>3 DEF OpenDialog
  <2>2. DOMAIN [Closed EXCEPT !.open = TRUE, !.urls = urls, !.unknown = unknown] = DialogFields
    BY DEF Closed, DialogFields
  <2>3. QED BY <1>2, <2>1, <2>2
<1>4. CASE PickSlot
  BY <1>1, <1>2, <1>4 DEF PickSlot
<1>5. ~CloseDialog
  BY DEF CloseDialog, Closed
<1>6. ASSUME NEW n, NEW named, Select(n, named) PROVE FALSE
  BY <1>1, <1>6 DEF Select, DialogFields
<1>7. ~Click
  BY <1>6, ClickReselects
<1>8. ~StartReopen
  BY <1>1 DEF StartReopen, DialogFields
<1>9. ~FinishReopen
  BY <1>1 DEF FinishReopen, NotifyReopenFinished, DialogFields
<1>10. ASSUME UNCHANGED dialog PROVE FALSE
  BY <1>10
<1>11. ~CancelReopen /\ ~AdvanceReopen
  BY <1>9, <1>10 DEF CancelReopen, AdvanceReopen, LaunchWindow, NoticeWindow,
     WindowTimesOut, LaunchTabs, MoveWindow
<1>12. /\ ~Observe /\ ~FinishAutoOperation /\ ~WindowAppears /\ ~SessionWritten
       /\ ~UserOpensWindow /\ ~UserClosesWindow
  BY <1>10 DEF Observe, FinishAutoOperation, WindowAppears, SessionWritten, UserOpensWindow,
     UserClosesWindow
<1>13. ~UNCHANGED vars
  BY <1>10 DEF vars
<1>14. QED BY <1>3, <1>4, <1>5, <1>7, <1>8, <1>11, <1>12, <1>13 DEF Next

\* What the dialog offers is what is missing (BuildReopenModel,
\* ReopenMarkJobsOpen, RoLoadSlot, NotifyReopenFinished): nothing the dialog
\* shows open is selected unasked, a run never brings back what an earlier one
\* brought back as far as the dialog can know of it (it was open when the run
\* ended, or it read a session file that is up to date), and nothing counts as
\* open that no browser was given.
THEOREM SelectionIsMissingAlways == Spec => SelectionIsMissing
<1>1. IInv => TypeOK /\ OpenTabsNeedAsking /\ MarkedWereLaunched /\ BusyMeansRunning
  BY InvariantImplies
<1> DEFINE Again == ~engine.active /\ engine'.active =>
             \A tab \in SelectedTabs(dialog.model) :
               LET s == dialog.model.snapshot IN
               <<s[tab[1]].app, UrlOf(s, tab)>> \in heard => tab \in dialog.asked
<1>2. IInv /\ [Next]_vars => Again
  <2> SUFFICES ASSUME IInv, [Next]_vars, ~engine.active, engine'.active,
                      NEW tab \in SelectedTabs(dialog.model),
                      <<dialog.model.snapshot[tab[1]].app, UrlOf(dialog.model.snapshot, tab)>> \in heard
               PROVE  tab \in dialog.asked
    OBVIOUS
  <2>1. dialog.open
    BY RunsAreStarted DEF StartReopen
  <2>2. QED BY <2>1, HeardNeedAsking
<1> DEFINE Missing == dialog'.open /\ dialog'.slot # dialog.slot =>
             LET s == Checkpoints[dialog'.slot] IN
             SelectedTabs(dialog'.model) =
               {tab \in Tabs(s) : /\ s[tab[1]].app \notin dialog'.unknown
                                  /\ ~TabIsOpen(s, tab, dialog'.urls)}
<1>3. IInv /\ [Next]_vars => Missing
  BY ShowingAnewLoads, LoadedSelectsMissing
<1>4. Spec => []IInv
  BY ReopenInvariant
<1>5. Spec => [][Again]_vars
  BY <1>2, <1>4, PTL DEF Spec
<1>6. Spec => [][Missing]_vars
  BY <1>3, <1>4, PTL DEF Spec
<1>7. QED
  BY <1>1, <1>4, <1>5, <1>6, PTL
     DEF SelectionIsMissing, NeverReopenedTwice, FreshSelectionIsMissing

-----------------------------------------------------------------------------
(* A run that is alone: nothing fails, and nobody else opens or closes     *)
(* windows.  The windows of its jobs are born one after the other.         *)

\* What batches of M make of n things: the last one is needed and is enough.
LEMMA Batches ==
  ASSUME NEW n \in Nat, NEW M \in Nat \ {0}
  PROVE  LET q == (n + M - 1) \div M IN
         /\ q \in Nat
         /\ \A b \in 1..q : (b - 1) * M \in Nat /\ b * M = (b - 1) * M + M /\ (b - 1) * M < n
         /\ \A i \in 1..n : \E b \in 1..q : (b - 1) * M + 1 <= i /\ i <= b * M
<1> DEFINE q == (n + M - 1) \div M
<1>1. q \in Nat /\ n <= q * M /\ q * M < n + M
  OBVIOUS
<1> HIDE DEF q
<1>2. ASSUME NEW b \in 1..q
      PROVE  (b - 1) * M \in Nat /\ b * M = (b - 1) * M + M /\ (b - 1) * M < n
  <2>1. b - 1 \in Nat /\ (b - 1) * M \in Nat /\ b * M = (b - 1) * M + M
    BY <1>1
  <2>2. q - b \in Nat /\ (q - b) * M \in Nat /\ q * M = b * M + (q - b) * M
    BY <1>1
  <2>3. b * M <= q * M /\ b * M \in Nat /\ q * M \in Nat
    BY <1>1, <2>2
  <2>4. QED BY <1>1, <2>1, <2>3
<1>3. ASSUME NEW i \in 1..n
      PROVE  \E b \in 1..q : (b - 1) * M + 1 <= i /\ i <= b * M
  <2> DEFINE p == (i - 1) \div M
  <2>1. p \in Nat /\ p * M <= i - 1 /\ i - 1 < p * M + M
    OBVIOUS
  <2> HIDE DEF p
  <2>2. (p + 1) * M = p * M + M /\ (p + 1 - 1) * M = p * M /\ p * M \in Nat
    BY <2>1
  <2>3. p + 1 \in 1..q
    <3>1. SUFFICES ASSUME q <= p PROVE FALSE
      BY <1>1, <2>1
    <3>2. p - q \in Nat /\ (p - q) * M \in Nat /\ p * M = q * M + (p - q) * M
      BY <1>1, <2>1, <3>1
    <3>3. q * M <= p * M /\ q * M \in Nat
      BY <1>1, <2>2, <3>2
    <3>4. QED BY <1>1, <2>1, <2>2, <3>3
  <2>4. QED BY <2>1, <2>2, <2>3
<1>4. QED BY <1>1, <1>2, <1>3 DEF q

LEMMA SubSeqSet ==
  ASSUME NEW S, NEW s \in Seq(S), NEW a \in Nat \ {0}, NEW b \in Nat, b <= Len(s), a <= b
  PROVE  SubSeq(s, a, b) \in Seq(S) /\ ToSet(SubSeq(s, a, b)) = {s[i] : i \in a..b}
<1> DEFINE t == SubSeq(s, a, b)
<1>1. /\ t \in Seq(S) /\ Len(t) = b - a + 1
      /\ \A i \in 1..b - a + 1 : t[i] = s[a + i - 1]
  BY SubSeqProperties
<1>2. DOMAIN t = 1..b - a + 1
  BY <1>1
<1> HIDE DEF t
<1>3. \A i \in a..b : i - a + 1 \in DOMAIN t /\ t[i - a + 1] = s[i]
  BY <1>1, <1>2
<1>4. \A i \in DOMAIN t : a + i - 1 \in a..b /\ t[i] = s[a + i - 1]
  BY <1>1, <1>2
<1>5. ToSet(t) = {s[i] : i \in a..b}
  <2>1. ToSet(t) = {t[i] : i \in DOMAIN t}
    BY DEF ToSet
  <2>2. \A x \in ToSet(t) : x \in {s[i] : i \in a..b}
    BY <1>4, <2>1
  <2>3. \A i \in a..b : s[i] \in ToSet(t)
    BY <1>3, <2>1
  <2>4. QED BY <2>2, <2>3
<1>6. QED BY <1>1, <1>5 DEF t

\* All tabs of a window go out, in one launch or another (BuildReopenLaunches).
LEMMA LaunchesCover ==
  ASSUME NEW S, NEW urls \in Seq(S), urls # <<>>, NEW app
  PROVE  LET l == BuildReopenLaunches(app, urls) IN
         /\ l \in Seq(Seq(S)) /\ Len(l) >= 1
         /\ UNION {ToSet(l[k]) : k \in 1..Len(l)} = ToSet(urls)
<1> DEFINE M == MaxUrls
           n == Len(urls)
           first == IF app = Firefox THEN 1 ELSE IF n < M THEN n ELSE M
           q == (n - first + M - 1) \div M
           to(b) == IF first + b * M < n THEN first + b * M ELSE n
           batch(b) == SubSeq(urls, first + (b - 1) * M + 1, to(b))
           rest == [b \in 1..q |-> batch(b)]
           l == <<SubSeq(urls, 1, first)>> \o rest
<1>1. M \in Nat \ {0} /\ n \in Nat \ {0} /\ first \in 1..n
  BY ReopenSelectionAssumption, EmptySeq
<1>2. l = BuildReopenLaunches(app, urls)
  BY DEF BuildReopenLaunches
<1> HIDE DEF M, n, first
<1>2a. n - first \in Nat
  BY <1>1
<1>3. /\ q \in Nat
      /\ \A b \in 1..q : (b - 1) * M \in Nat /\ b * M = (b - 1) * M + M /\ (b - 1) * M < n - first
      /\ \A i \in 1..n - first : \E b \in 1..q : (b - 1) * M + 1 <= i /\ i <= b * M
  BY <1>1, <1>2a, Batches
<1> HIDE DEF q
<1>4. ASSUME NEW b \in 1..q
      PROVE  /\ batch(b) \in Seq(S)
             /\ ToSet(batch(b)) = {urls[i] : i \in first + (b - 1) * M + 1..to(b)}
             /\ first + (b - 1) * M + 1 \in 1..n /\ to(b) \in 1..n
             /\ b * M = (b - 1) * M + M /\ (b - 1) * M \in Nat
  <2> DEFINE z == (b - 1) * M
  <2>1. z \in Nat /\ b * M = z + M /\ z < n - first
    BY <1>3
  <2> HIDE DEF z
  <2>2. first + z + 1 \in 1..n /\ to(b) \in 1..n /\ first + z + 1 <= to(b)
    BY <1>1, <2>1
  <2> HIDE DEF to
  <2>3. /\ SubSeq(urls, first + z + 1, to(b)) \in Seq(S)
        /\ ToSet(SubSeq(urls, first + z + 1, to(b))) = {urls[i] : i \in first + z + 1..to(b)}
    BY <2>2, SubSeqSet DEF n
  <2>4. QED BY <2>1, <2>2, <2>3 DEF z
<1>5. SubSeq(urls, 1, first) \in Seq(S) /\ ToSet(SubSeq(urls, 1, first)) = {urls[i] : i \in 1..first}
  BY <1>1, SubSeqSet DEF n
<1> HIDE DEF batch
<1>6. rest \in Seq(Seq(S)) /\ Len(rest) = q /\ \A b \in 1..q : rest[b] = batch(b)
  BY <1>3, <1>4
<1> HIDE DEF rest
<1>7. /\ l \in Seq(Seq(S)) /\ Len(l) = q + 1 /\ l[1] = SubSeq(urls, 1, first)
      /\ \A b \in 1..q : l[b + 1] = batch(b)
  BY <1>3, <1>5, <1>6
<1> HIDE DEF l
<1>8. ASSUME NEW k \in 1..q + 1 PROVE ToSet(l[k]) \subseteq ToSet(urls)
  <2>1. ToSet(urls) = {urls[i] : i \in 1..n}
    BY DEF ToSet, n
  <2>2. CASE k = 1
    <3>1. ToSet(l[k]) = {urls[i] : i \in 1..first}
      BY <1>5, <1>7, <2>2
    <3>2. 1..first \subseteq 1..n
      BY <1>1
    <3>3. QED BY <2>1, <3>1, <3>2
  <2>3. CASE k # 1
    <3>1. k - 1 \in 1..q /\ l[k] = batch(k - 1)
      BY <1>3, <1>7, <2>3
    <3>2. PICK b \in 1..q : l[k] = batch(b)
      BY <3>1
    <3>3. \A i \in first + (b - 1) * M + 1..to(b) : i \in 1..n
      <4>1. first + (b - 1) * M + 1 \in 1..n /\ to(b) \in 1..n
        BY <1>4
      <4> HIDE DEF to
      <4>2. QED BY <4>1, <1>1
    <3>4. QED BY <1>4, <2>1, <3>2, <3>3
  <2>4. QED BY <2>2, <2>3
<1>9. ASSUME NEW i \in 1..n PROVE \E k \in 1..q + 1 : urls[i] \in ToSet(l[k])
  <2>1. CASE i <= first
    <3>1. ToSet(l[1]) = {urls[j] : j \in 1..first} /\ i \in 1..first
      BY <1>1, <1>5, <1>7, <2>1
    <3>2. 1 \in 1..q + 1
      BY <1>3
    <3>3. QED BY <3>1, <3>2
  <2>2. CASE ~(i <= first)
    <3>1. i - first \in 1..n - first
      BY <1>1, <2>2
    <3>2. PICK b \in 1..q : (b - 1) * M + 1 <= i - first /\ i - first <= b * M
      BY <1>3, <3>1
    <3>3. i \in first + (b - 1) * M + 1..to(b)
      <4> DEFINE z == (b - 1) * M
                 y == b * M
      <4>1. z \in Nat /\ y \in Nat /\ z + 1 <= i - first /\ i - first <= y
        BY <1>1, <1>4, <3>2
      <4> HIDE DEF z, y
      <4>2. i \in first + z + 1..(IF first + y < n THEN first + y ELSE n)
        BY <1>1, <4>1
      <4>3. QED BY <4>2 DEF z, y
    <3>4. urls[i] \in ToSet(batch(b))
      BY <1>4, <3>3
    <3>5. b + 1 \in 1..q + 1 /\ l[b + 1] = batch(b)
      BY <1>3, <1>7
    <3>6. QED BY <3>4, <3>5
  <2>3. QED BY <2>1, <2>2
<1>10. UNION {ToSet(l[k]) : k \in 1..q + 1} = ToSet(urls)
  <2>1. ToSet(urls) = {urls[i] : i \in 1..n}
    BY DEF ToSet, n
  <2>2. UNION {ToSet(l[k]) : k \in 1..q + 1} \subseteq ToSet(urls)
    BY <1>8
  <2>3. ToSet(urls) \subseteq UNION {ToSet(l[k]) : k \in 1..q + 1}
    BY <2>1, <1>9
  <2>4. QED BY <2>2, <2>3
<1>11. QED BY <1>2, <1>3, <1>7, <1>10

\* The launches of a job hold the tabs of the job, and there is one at least.
IsWhole(job) ==
  /\ \E n \in Nat \ {0} : DOMAIN job.launches = 1..n /\ Len(job.launches) = n
  /\ UNION {ToSet(job.launches[k]) : k \in 1..Len(job.launches)} = ToSet(job.urls)

\* The addresses of a window that are brought back are a sequence.
LEMMA JobUrlsAreListed ==
  ASSUME NEW m, NEW k \in DOMAIN Checkpoints, m.snapshot = Checkpoints[k],
         NEW w \in DOMAIN m.snapshot
  PROVE  JobUrls(m, w) \in Seq(ToSet(JobUrls(m, w)))
<1> DEFINE keep == {t \in DOMAIN m.snapshot[w].urls :
                      <<w, t>> \in m.tabs /\ m.snapshot[w].urls[t] \in Replayable}
           order == CHOOSE o \in [1..Cardinality(keep) -> keep] :
                      \A i, j \in DOMAIN o : i < j => o[i] < o[j]
           urls == [i \in 1..Cardinality(keep) |-> m.snapshot[w].urls[order[i]]]
<1>1. Checkpoints[k] \in Seq(Saved)
  BY ReopenAssumption
<1>2. m.snapshot[w] \in Saved
  BY <1>1
<1>3. m.snapshot[w].urls \in Seq(ToSet(m.snapshot[w].urls))
  BY <1>2, ReopenAssumption
<1>4. IsFiniteSet(keep)
  <2>1. IsFiniteSet(1..Len(m.snapshot[w].urls))
    BY <1>3, FS_Interval
  <2>2. keep \subseteq 1..Len(m.snapshot[w].urls)
    BY <1>3
  <2>3. QED BY <2>1, <2>2, FS_Subset
<1>5. Cardinality(keep) \in Nat
  BY <1>4, FS_CardinalityType
<1>6. urls = JobUrls(m, w)
  BY DEF JobUrls
<1> HIDE DEF keep, order
<1>7. /\ urls = [i \in 1..Cardinality(keep) |-> urls[i]]
      /\ \A i \in 1..Cardinality(keep) : urls[i] \in ToSet(urls)
  BY DEF ToSet
<1> HIDE DEF urls
<1>8. urls \in [1..Cardinality(keep) -> ToSet(urls)]
  BY <1>7
<1>9. urls \in Seq(ToSet(urls))
  BY <1>5, <1>8
<1>10. QED BY <1>6, <1>9

LEMMA SelectionGivesWhole ==
  ASSUME NEW m, NEW k \in DOMAIN Checkpoints, m.snapshot = Checkpoints[k],
         NEW jobs \in JobsFromSelection(m), NEW j \in DOMAIN jobs
  PROVE  IsWhole(jobs[j])
<1> DEFINE ws == SelectedWindows(m)
<1>1. PICK o \in [1..Cardinality(ws) -> ws] :
        /\ DOMAIN jobs = DOMAIN o
        /\ \A i \in DOMAIN o :
             /\ jobs[i].urls = JobUrls(m, o[i])
             /\ jobs[i].launches = BuildReopenLaunches(m.snapshot[o[i]].app, JobUrls(m, o[i]))
  BY DEF JobsFromSelection
<1>2. PICK w \in ws : /\ jobs[j].urls = JobUrls(m, w)
                      /\ jobs[j].launches = BuildReopenLaunches(m.snapshot[w].app, JobUrls(m, w))
  BY <1>1
<1>3. w \in DOMAIN m.snapshot /\ JobUrls(m, w) # <<>>
  BY DEF SelectedWindows
<1> HIDE DEF ws
<1> DEFINE urls == JobUrls(m, w)
           l == BuildReopenLaunches(m.snapshot[w].app, urls)
<1>4. urls \in Seq(ToSet(urls)) /\ urls # <<>>
  BY <1>3, JobUrlsAreListed
<1> HIDE DEF urls
<1>4a. \A app : LET x == BuildReopenLaunches(app, urls) IN
         /\ x \in Seq(Seq(ToSet(urls))) /\ Len(x) >= 1
         /\ UNION {ToSet(x[n]) : n \in 1..Len(x)} = ToSet(urls)
  BY <1>4, LaunchesCover, Zenon
<1>5. /\ l \in Seq(Seq(ToSet(urls))) /\ Len(l) >= 1
      /\ UNION {ToSet(l[n]) : n \in 1..Len(l)} = ToSet(urls)
  BY <1>4a
<1> HIDE DEF l
<1>6. DOMAIN l = 1..Len(l) /\ Len(l) \in Nat \ {0}
  BY <1>5
<1>7. jobs[j].launches = l /\ jobs[j].urls = urls
  BY <1>2 DEF l, urls
<1>8. QED BY <1>5, <1>6, <1>7 DEF IsWhole

\* The tabs of a job's first n launches.
SentBy(job, n) == UNION {ToSet(job.launches[k]) : k \in 1..n}

\* The window of a job that is done, and of one that is under way.
Placed(job) ==
  [app |-> job.app, desk |-> ResolveReopenDestination(job), urls |-> ToSet(job.urls)]

Fresh(job, urls) == [app |-> job.app, desk |-> Here, urls |-> urls]

\* The windows born before the job, and before the run.
Before == IF engine.phase = "Launch" THEN born ELSE engine.born

First == Before - engine.at + 1

JobsInv ==
  \A j \in DOMAIN engine.jobs : IsWhole(engine.jobs[j]) /\ engine.jobs[j].app \in engine.exe

DoneInv ==
  /\ engine.active /\ budget.faults = {}
  /\ Before \in Nat /\ First \in Nat
  /\ flight # None => flight.win <= First
  /\ \A j \in 1..engine.at - 1 :
       First + j \in DOMAIN live /\ live[First + j] = Placed(engine.jobs[j])

Arrived ==
  /\ arriving = <<>> /\ born = engine.born + 1
  /\ born \in DOMAIN live /\ live[born] = Fresh(Job, engine.launched)

AwaitInv ==
  /\ engine.next = 2 /\ engine.launched = SentBy(Job, 1)
  /\ \A w \in WindowsOf(Job.app) : w <= engine.born => w \in engine.before
  /\ \A w \in engine.before : w <= engine.born
  /\ \/ Arrived
     \/ /\ born = engine.born
        /\ arriving = <<[app |-> Job.app, urls |-> engine.launched, job |-> engine.at]>>

TabsInv ==
  /\ Arrived
  /\ engine.target = born /\ engine.launched = SentBy(Job, engine.next - 1)
  /\ engine.phase = "Tabs" => engine.next \in 2..Len(Job.launches)
  /\ engine.phase = "Move" => engine.next = Len(Job.launches) + 1

AloneInv ==
  /\ "faults" \in DOMAIN budget
  /\ engine.alone =>
       /\ JobsInv /\ DoneInv
       /\ engine.phase = "Launch" => arriving = <<>>
       /\ engine.phase = "AwaitWindow" => AwaitInv
       /\ engine.phase \in {"Tabs", "Move"} => TabsInv

\* What may fail does not change.
LEMMA FaultsStay ==
  ASSUME "faults" \in DOMAIN budget, [Next]_vars
  PROVE  "faults" \in DOMAIN budget' /\ budget'.faults = budget.faults
<1>1. ASSUME NEW k \in {"dialogs", "clicks", "reopens", "disturbances"}, Spend(k)
      PROVE  "faults" \in DOMAIN budget' /\ budget'.faults = budget.faults
  BY <1>1 DEF Spend
<1>2. CASE UNCHANGED budget
  BY <1>2
<1>3. CASE OpenDialog
  BY <1>1, <1>3 DEF OpenDialog
<1>4. CASE PickSlot
  BY <1>1, <1>4 DEF PickSlot
<1>5. CASE Click
  BY <1>1, <1>5 DEF Click
<1>6. CASE StartReopen
  BY <1>1, <1>6 DEF StartReopen
<1>7. CASE UserOpensWindow
  BY <1>1, <1>7 DEF UserOpensWindow
<1>8. CASE UserClosesWindow
  BY <1>1, <1>8 DEF UserClosesWindow
<1>9. CASE AdvanceReopen
  BY <1>2, <1>9 DEF AdvanceReopen, FinishReopen, LaunchWindow, NoticeWindow, WindowTimesOut,
     LaunchTabs, MoveWindow
<1>10. CASE CloseDialog \/ CancelReopen \/ Observe \/ FinishAutoOperation \/ WindowAppears
            \/ SessionWritten \/ UNCHANGED vars
  BY <1>2, <1>10 DEF CloseDialog, CancelReopen, Observe, FinishAutoOperation, WindowAppears,
     SessionWritten, vars
<1>11. QED BY <1>3, <1>4, <1>5, <1>6, <1>7, <1>8, <1>9, <1>10 DEF Next

\* A step that changes neither the run nor the windows.
LEMMA AloneUnnoticed ==
  ASSUME AloneInv, UNCHANGED <<engine, live, arriving, born, flight>>,
         "faults" \in DOMAIN budget', budget'.faults = budget.faults
  PROVE  AloneInv'
<1>1. Before' = Before /\ First' = First /\ Job' = Job
  BY DEF Before, First, Job
<1>2. (JobsInv <=> JobsInv') /\ (DoneInv <=> DoneInv')
  BY <1>1 DEF JobsInv, DoneInv, Placed, IsWhole, ResolveReopenDestination
<1>3. (Arrived <=> Arrived') /\ (AwaitInv <=> AwaitInv') /\ (TabsInv <=> TabsInv')
  BY <1>1 DEF Arrived, AwaitInv, TabsInv, SentBy, Fresh, WindowsOf
<1>4. QED BY <1>2, <1>3 DEF AloneInv

LEMMA StartAlone ==
  ASSUME IInv, AloneInv, StartReopen,
         "faults" \in DOMAIN budget', budget'.faults = budget.faults
  PROVE  AloneInv'
<1> SUFFICES ASSUME engine'.alone PROVE AloneInv'
  BY DEF AloneInv
<1>1. \E jobs \in JobsFromSelection(dialog.model) :
        LET apps == {jobs[j].app : j \in DOMAIN jobs} IN
        \E exe \in IF "launches" \in budget.faults THEN SUBSET apps \ {{}} ELSE {apps} \ {{}} :
          engine' = [Idle EXCEPT !.active = TRUE, !.jobs = jobs, !.exe = exe, !.phase = "Launch",
                                 !.alone = budget.faults = {} /\ arriving = <<>>]
  BY DEF StartReopen
<1>2. PICK jobs \in JobsFromSelection(dialog.model) :
        LET apps == {jobs[j].app : j \in DOMAIN jobs} IN
        \E exe \in IF "launches" \in budget.faults THEN SUBSET apps \ {{}} ELSE {apps} \ {{}} :
          engine' = [Idle EXCEPT !.active = TRUE, !.jobs = jobs, !.exe = exe, !.phase = "Launch",
                                 !.alone = budget.faults = {} /\ arriving = <<>>]
  BY <1>1
<1> DEFINE apps == {jobs[j].app : j \in DOMAIN jobs}
<1>3. PICK exe \in IF "launches" \in budget.faults THEN SUBSET apps \ {{}} ELSE {apps} \ {{}} :
          engine' = [Idle EXCEPT !.active = TRUE, !.jobs = jobs, !.exe = exe, !.phase = "Launch",
                                 !.alone = budget.faults = {} /\ arriving = <<>>]
  BY <1>2
<1>4. /\ engine'.active = TRUE /\ engine'.phase = "Launch" /\ engine'.jobs = jobs
      /\ engine'.exe = exe /\ engine'.at = 1
      /\ engine'.alone = (budget.faults = {} /\ arriving = <<>>)
  BY <1>3 DEF Idle
<1>5. budget.faults = {} /\ arriving = <<>> /\ exe = apps
  BY <1>3, <1>4
<1>6. ASSUME NEW j \in DOMAIN jobs PROVE IsWhole(jobs[j]) /\ jobs[j].app \in exe
  BY <1>5, SelectionGivesWhole DEF StartReopen, IInv, DialogInv, Shows
<1>7. JobsInv'
  BY <1>4, <1>6 DEF JobsInv
<1>8. UNCHANGED <<browsers, layout>>
  BY DEF StartReopen
<1>9. DoneInv'
  <2>1. Before' = born /\ First' = born /\ born \in Nat
    BY <1>4, <1>8 DEF Before, First, IInv, BrowsersInv, browsers
  <2>2. flight' # None => flight'.win <= First'
    BY <1>8, <2>1 DEF IInv, LayoutInv, layout
  <2>3. 1..engine'.at - 1 = {}
    BY <1>4
  <2>4. QED BY <1>4, <1>5, <2>1, <2>2, <2>3 DEF DoneInv
<1>10. QED BY <1>4, <1>5, <1>7, <1>8, <1>9 DEF AloneInv, browsers

\* Cancelling takes effect before the next launch.
LEMMA CancelAlone ==
  ASSUME IInv, AloneInv, CancelReopen,
         "faults" \in DOMAIN budget', budget'.faults = budget.faults
  PROVE  AloneInv'
<1>1. engine' = [engine EXCEPT !.cancel = TRUE] /\ UNCHANGED <<browsers, layout>>
  BY DEF CancelReopen
<1>2. \A k \in EngineFields \ {"cancel"} : engine'[k] = engine[k]
  BY <1>1 DEF IInv, EngineInv, EngineFields
<1>3. /\ engine'.active = engine.active /\ engine'.jobs = engine.jobs /\ engine'.exe = engine.exe
      /\ engine'.at = engine.at /\ engine'.next = engine.next /\ engine'.phase = engine.phase
      /\ engine'.before = engine.before /\ engine'.born = engine.born
      /\ engine'.target = engine.target /\ engine'.launched = engine.launched
      /\ engine'.alone = engine.alone
  BY <1>2 DEF EngineFields
<1>4. Before' = Before /\ First' = First /\ Job' = Job
  BY <1>1, <1>3 DEF Before, First, Job, browsers
<1>5. (JobsInv <=> JobsInv') /\ (DoneInv <=> DoneInv')
  BY <1>1, <1>3, <1>4 DEF JobsInv, DoneInv, browsers, layout, Placed, IsWhole, ResolveReopenDestination
<1>6. (Arrived <=> Arrived') /\ (AwaitInv <=> AwaitInv') /\ (TabsInv <=> TabsInv')
  BY <1>1, <1>3, <1>4 DEF Arrived, AwaitInv, TabsInv, browsers, SentBy, Fresh, WindowsOf
<1>7. QED BY <1>1, <1>3, <1>5, <1>6 DEF AloneInv, browsers

\* The fields of a run that a step of a job leaves.
JobStep ==
  /\ engine'.active = engine.active /\ engine'.jobs = engine.jobs /\ engine'.exe = engine.exe
  /\ engine'.at = engine.at /\ engine'.alone = engine.alone

\* What is done stays done in a step of a job.
LEMMA DoneStays ==
  ASSUME DoneInv, JobStep, Before' = Before, UNCHANGED flight, budget'.faults = budget.faults,
         engine.at \in Nat,
         \A w \in DOMAIN live : w <= Before => w \in DOMAIN live' /\ live'[w] = live[w]
  PROVE  DoneInv'
<1>1. First' = First /\ 1..engine'.at - 1 = 1..engine.at - 1
  BY DEF JobStep, First
<1>2. \A j \in 1..engine.at - 1 : First + j <= Before
  BY DEF First, DoneInv
<1>3. \A j \in 1..engine.at - 1 :
        First + j \in DOMAIN live' /\ live'[First + j] = Placed(engine.jobs[j])
  BY <1>2 DEF DoneInv
<1>4. QED BY <1>1, <1>3 DEF DoneInv, JobStep

\* What a job that is under way has of its list of launches.
LEMMA JobIsWhole ==
  ASSUME IInv, JobsInv, ~Over
  PROVE  IsWhole(Job) /\ Job.app \in engine.exe /\ engine.at \in DOMAIN engine.jobs
<1>1. PICK n \in Nat : DOMAIN engine.jobs = 1..n
  BY DEF IInv, EngineInv, AreJobs
<1>2. Len(engine.jobs) = n
  BY <1>1
<1>3. engine.at \in DOMAIN engine.jobs
  BY <1>1, <1>2 DEF IInv, EngineInv, Over
<1>4. QED BY <1>3 DEF JobsInv, Job

LEMMA LaunchAlone ==
  ASSUME IInv, AloneInv, LaunchWindow,
         "faults" \in DOMAIN budget', budget'.faults = budget.faults
  PROVE  AloneInv'
<1> DEFINE sent == ToSet(Job.launches[1])
<1>1. CASE engine' = NextJob(engine) /\ (Job.app \notin engine.exe \/ "launches" \in budget.faults)
  <2>1. engine'.alone = engine.alone
    BY <1>1 DEF NextJob, IInv, EngineInv, EngineFields
  <2>2. SUFFICES ASSUME engine.alone PROVE FALSE
    BY <2>1 DEF AloneInv
  <2>3. QED BY <1>1, <2>2, JobIsWhole DEF LaunchWindow, AloneInv, DoneInv
<1>2. ASSUME NEW seen \in Enumerations(Job.app),
             engine' = [engine EXCEPT !.before = seen, !.born = born, !.launched = sent,
                                      !.next = 2, !.phase = "AwaitWindow"],
             Appears(Job.app, sent)
      PROVE  AloneInv'
  <2>1. /\ engine'.before = seen /\ engine'.born = born /\ engine'.launched = sent
        /\ engine'.next = 2 /\ engine'.phase = "AwaitWindow" /\ JobStep
    BY <1>2 DEF IInv, EngineInv, EngineFields, JobStep
  <2> HIDE DEF sent
  <2>2. SUFFICES ASSUME engine.alone PROVE AloneInv'
    BY <2>1 DEF AloneInv, JobStep
  <2>3. engine.phase = "Launch" /\ UNCHANGED <<live, born, layout>>
    BY DEF LaunchWindow
  <2>4. JobsInv /\ DoneInv /\ arriving = <<>> /\ budget.faults = {}
    BY <2>2, <2>3 DEF AloneInv, DoneInv
  <2>5. Job' = Job /\ Before' = Before
    BY <2>1, <2>3 DEF Job, Before, JobStep
  <2>6. JobsInv'
    BY <2>1, <2>4 DEF JobsInv, JobStep
  <2>7. DoneInv'
    BY <2>1, <2>3, <2>4, <2>5, DoneStays DEF layout, IInv, EngineInv
  <2>8. AwaitInv'
    <3>1. arriving' = <<[app |-> Job.app, urls |-> sent, job |-> engine.at]>>
      BY <1>2, <2>4 DEF Appears
    <3>2. seen = WindowsOf(Job.app)
      BY <2>4 DEF Enumerations
    <3>3. WindowsOf(Job.app)' = WindowsOf(Job.app) /\ \A w \in WindowsOf(Job.app) : w <= born
      BY <2>3, <2>5 DEF WindowsOf, IInv, BrowsersInv
    <3>4. sent = SentBy(Job, 1)
      BY DEF sent, SentBy
    <3>5. SentBy(Job, 1)' = SentBy(Job, 1)
      BY <2>5 DEF SentBy
    <3>6. QED BY <2>1, <2>3, <2>5, <3>1, <3>2, <3>3, <3>4, <3>5 DEF AwaitInv, JobStep
  <2>9. QED BY <2>1, <2>6, <2>7, <2>8 DEF AloneInv
<1>3. QED BY <1>1, <1>2 DEF LaunchWindow

LEMMA NoticeAlone ==
  ASSUME IInv, AloneInv, NoticeWindow,
         "faults" \in DOMAIN budget', budget'.faults = budget.faults
  PROVE  AloneInv'
<1> DEFINE phase == IF engine.next <= Len(Job.launches) THEN "Tabs" ELSE "Move"
<1>1. PICK seen \in Enumerations(Job.app) : \E w \in seen \ engine.before :
        engine' = [engine EXCEPT !.target = w, !.phase = phase]
  BY DEF NoticeWindow
<1>2. PICK w \in seen \ engine.before : engine' = [engine EXCEPT !.target = w, !.phase = phase]
  BY <1>1
<1>3. /\ engine'.target = w /\ engine'.phase = phase /\ JobStep
      /\ engine'.born = engine.born /\ engine'.launched = engine.launched
      /\ engine'.next = engine.next
  BY <1>2 DEF IInv, EngineInv, EngineFields, JobStep
<1>4. phase \in {"Tabs", "Move"}
  OBVIOUS
<1>5. SUFFICES ASSUME engine.alone PROVE AloneInv'
  BY <1>3 DEF AloneInv, JobStep
<1>6. engine.phase = "AwaitWindow" /\ ~Over /\ UNCHANGED <<browsers, layout>>
  BY DEF NoticeWindow
<1>7. JobsInv /\ DoneInv /\ AwaitInv
  BY <1>5, <1>6 DEF AloneInv
<1>8. Job' = Job /\ Before' = Before
  BY <1>3, <1>4, <1>6 DEF Job, Before, JobStep
<1>9. JobsInv' /\ DoneInv'
  <2>1. JobsInv'
    BY <1>3, <1>7 DEF JobsInv, JobStep
  <2>2. DoneInv'
    BY <1>3, <1>6, <1>7, <1>8, DoneStays DEF browsers, layout, IInv, EngineInv
  <2>3. QED BY <2>1, <2>2
<1>10. TabsInv'
  <2>1. w \in WindowsOf(Job.app) /\ w \notin engine.before
    BY DEF Enumerations
  <2>2. w \in 1..born /\ ~(w <= engine.born)
    BY <1>7, <2>1 DEF AwaitInv, WindowsOf, IInv, BrowsersInv
  <2>3. engine.born \in Nat /\ born \in Nat
    BY <1>6, <1>7 DEF DoneInv, Before, IInv, BrowsersInv
  <2>4. born # engine.born
    BY <2>2, <2>3
  <2>5. Arrived
    BY <1>7, <2>4 DEF AwaitInv
  <2>6. w = born
    BY <2>2, <2>3, <2>5 DEF Arrived
  <2>7. Arrived'
    BY <1>3, <1>6, <1>8, <2>5 DEF Arrived, browsers, Fresh
  <2>8. SentBy(Job, engine.next - 1)' = SentBy(Job, 1) /\ engine.next = 2
    BY <1>3, <1>7, <1>8 DEF SentBy, AwaitInv
  <2>9. PICK n \in Nat \ {0} : Len(Job.launches) = n
    BY <1>6, <1>7, JobIsWhole DEF IsWhole
  <2>10. /\ phase = "Tabs" => engine.next \in 2..Len(Job.launches)
         /\ phase = "Move" => engine.next = Len(Job.launches) + 1
    BY <2>8, <2>9
  <2> HIDE DEF phase
  <2>11. engine'.target = born' /\ engine'.launched = SentBy(Job, engine.next - 1)'
    BY <1>3, <1>6, <1>7, <2>6, <2>8 DEF browsers, AwaitInv
  <2>12. QED BY <1>3, <1>8, <2>7, <2>10, <2>11 DEF TabsInv
<1>11. QED BY <1>3, <1>4, <1>9, <1>10 DEF AloneInv

\* The window of the run's launch is the browser's newest.
LEMMA NewestIsTarget ==
  ASSUME IInv, Arrived, NEW newest \in WindowsOf(Job.app),
         \A v \in WindowsOf(Job.app) : v <= newest
  PROVE  newest = born
<1>1. born \in WindowsOf(Job.app)
  BY DEF Arrived, WindowsOf, Fresh
<1>2. newest \in 1..born /\ born \in Nat
  BY DEF WindowsOf, IInv, BrowsersInv
<1>3. born <= newest
  BY <1>1
<1>4. QED BY <1>2, <1>3

LEMMA TabsAlone ==
  ASSUME IInv, AloneInv, LaunchTabs,
         "faults" \in DOMAIN budget', budget'.faults = budget.faults
  PROVE  AloneInv'
<1> DEFINE urls == ToSet(Job.launches[engine.next])
           phase == IF engine.next + 1 > Len(Job.launches) THEN "Move" ELSE "Tabs"
           sent == [engine EXCEPT !.next = @ + 1, !.phase = phase]
           newest == CHOOSE w \in WindowsOf(Job.app) : \A v \in WindowsOf(Job.app) : v <= w
           all == [sent EXCEPT !.launched = @ \cup urls]
<1>1. \/ /\ engine' = all
         /\ IF WindowsOf(Job.app) = {} THEN Appears(Job.app, urls) /\ UNCHANGED live
            ELSE /\ live' = [live EXCEPT ![newest].urls = @ \cup urls]
                 /\ given' = given \cup ({Job.app} \X urls)
                 /\ UNCHANGED arriving
      \/ "launches" \in budget.faults /\ engine' = sent
  BY DEF LaunchTabs
<1>2. /\ engine.phase = "Tabs" /\ ~Over /\ UNCHANGED <<born, layout>>
  BY DEF LaunchTabs
<1>3. /\ all.next = engine.next + 1 /\ all.phase = phase /\ all.launched = engine.launched \cup urls
      /\ all.target = engine.target /\ all.born = engine.born
      /\ all.active = engine.active /\ all.jobs = engine.jobs /\ all.exe = engine.exe
      /\ all.at = engine.at /\ all.alone = engine.alone /\ sent.alone = engine.alone
  BY DEF IInv, EngineInv, EngineFields
<1> HIDE DEF all, sent, newest
<1>4. SUFFICES ASSUME engine.alone PROVE AloneInv'
  BY <1>1, <1>3 DEF AloneInv
<1>5. JobsInv /\ DoneInv /\ TabsInv /\ Arrived
  BY <1>2, <1>4 DEF AloneInv, TabsInv
<1>6. born \in WindowsOf(Job.app)
  BY <1>5 DEF Arrived, WindowsOf, Fresh
<1>7. engine' = all /\ live' = [live EXCEPT ![newest].urls = @ \cup urls] /\ UNCHANGED arriving
  BY <1>1, <1>5, <1>6 DEF DoneInv
<1>8. newest = born
  <2>1. WindowsOf(Job.app) \subseteq 1..born /\ born \in Nat
    BY DEF WindowsOf, IInv, BrowsersInv
  <2>2. \E w \in WindowsOf(Job.app) : \A v \in WindowsOf(Job.app) : v <= w
    BY <1>6, <2>1, SomeNewest
  <2>3. newest \in WindowsOf(Job.app) /\ \A v \in WindowsOf(Job.app) : v <= newest
    BY <2>2 DEF newest
  <2>4. QED BY <1>5, <2>3, NewestIsTarget
<1>9. /\ engine'.next = engine.next + 1 /\ engine'.phase = phase
      /\ engine'.launched = engine.launched \cup urls
      /\ engine'.target = engine.target /\ engine'.born = engine.born /\ JobStep
  BY <1>3, <1>7 DEF JobStep
<1>10. phase \in {"Tabs", "Move"}
  OBVIOUS
<1> HIDE DEF urls
<1>11. Job' = Job /\ Before' = Before
  BY <1>2, <1>9, <1>10 DEF Job, Before, JobStep
<1>12. JobsInv'
  BY <1>5, <1>9 DEF JobsInv, JobStep
<1>13. /\ DOMAIN live' = DOMAIN live
       /\ \A v \in DOMAIN live : v # born => live'[v] = live[v]
       /\ live'[born] = Fresh(Job, engine.launched \cup urls)
  <2>1. born \in DOMAIN live /\ live[born] = Fresh(Job, engine.launched)
    BY <1>5 DEF Arrived
  <2>2. live' = [live EXCEPT ![born] = [live[born] EXCEPT !.urls = live[born].urls \cup urls]]
    BY <1>7, <1>8
  <2>3. [live[born] EXCEPT !.urls = live[born].urls \cup urls] = Fresh(Job, engine.launched \cup urls)
    BY <2>1 DEF Fresh
  <2>4. QED BY <2>1, <2>2, <2>3
<1>14. engine.born \in Nat /\ Before = engine.born
  BY <1>2, <1>5 DEF DoneInv, Before
<1>15. DoneInv'
  <2>1. \A w \in DOMAIN live : w <= Before => w \in DOMAIN live' /\ live'[w] = live[w]
    BY <1>5, <1>13, <1>14 DEF Arrived
  <2>2. QED BY <1>2, <1>5, <1>9, <1>11, <2>1, DoneStays DEF layout, IInv, EngineInv
<1>16. TabsInv'
  <2>1. Arrived'
    BY <1>2, <1>5, <1>7, <1>9, <1>11, <1>13 DEF Arrived, Fresh
  <2>2. engine.next \in 2..Len(Job.launches)
    BY <1>2, <1>5 DEF TabsInv
  <2>3. PICK n \in Nat \ {0} : Len(Job.launches) = n
    BY <1>2, <1>5, JobIsWhole DEF IsWhole
  <2>4. engine'.launched = SentBy(Job, engine.next)
    <3>1. 1..engine.next = 1..engine.next - 1 \cup {engine.next}
      BY <2>2, <2>3
    <3>2. QED BY <1>5, <1>9, <3>1 DEF TabsInv, SentBy, urls
  <2>5. SentBy(Job, engine.next - 1)' = SentBy(Job, engine.next)
    <3>1. engine'.next - 1 = engine.next
      BY <1>9, <2>2, <2>3
    <3>2. QED BY <1>11, <3>1 DEF SentBy
  <2>6. /\ phase = "Tabs" => engine.next + 1 \in 2..Len(Job.launches)
        /\ phase = "Move" => engine.next + 1 = Len(Job.launches) + 1
    BY <2>2, <2>3
  <2> HIDE DEF phase
  <2>7. engine'.target = born'
    BY <1>2, <1>5, <1>9 DEF TabsInv
  <2>8. QED BY <1>9, <1>11, <2>1, <2>4, <2>5, <2>6, <2>7 DEF TabsInv
<1>17. QED BY <1>9, <1>10, <1>12, <1>15, <1>16 DEF AloneInv, JobStep

\* The window of a job that is done goes to the done ones.
LEMMA MoveAlone ==
  ASSUME IInv, AloneInv, MoveWindow,
         "faults" \in DOMAIN budget', budget'.faults = budget.faults
  PROVE  AloneInv'
<1>1. /\ engine' = NextJob(engine) /\ engine.phase = "Move" /\ ~Over
      /\ UNCHANGED <<arriving, born, flight>>
  BY DEF MoveWindow
<1>2. /\ engine'.active = engine.active /\ engine'.jobs = engine.jobs /\ engine'.exe = engine.exe
      /\ engine'.at = engine.at + 1 /\ engine'.alone = engine.alone /\ engine'.phase = "Launch"
  BY <1>1 DEF NextJob, IInv, EngineInv, EngineFields
<1>3. SUFFICES ASSUME engine.alone PROVE AloneInv'
  BY <1>2 DEF AloneInv
<1>4. JobsInv /\ DoneInv /\ TabsInv /\ Arrived
  BY <1>1, <1>3 DEF AloneInv, TabsInv
<1>5. engine.target = born /\ born \in DOMAIN live /\ budget.faults = {}
  BY <1>4 DEF TabsInv, Arrived, DoneInv
<1>6. live' = [live EXCEPT ![born].desk = ResolveReopenDestination(Job)]
  BY <1>5 DEF MoveWindow
<1>7. engine.launched = ToSet(Job.urls)
  <2>1. PICK n \in Nat \ {0} : Len(Job.launches) = n
    BY <1>1, <1>4, JobIsWhole DEF IsWhole
  <2>2. engine.next - 1 = Len(Job.launches)
    BY <1>1, <1>4, <2>1 DEF TabsInv
  <2>3. QED BY <1>1, <1>4, <2>2, JobIsWhole DEF TabsInv, SentBy, IsWhole
<1>8. DOMAIN live' = DOMAIN live /\ \A v \in DOMAIN live : v # born => live'[v] = live[v]
  BY <1>6
<1>9. live'[born] = Placed(Job)
  <2>1. live[born] = Fresh(Job, ToSet(Job.urls))
    BY <1>4, <1>7 DEF Arrived
  <2>2. live'[born] = [live[born] EXCEPT !.desk = ResolveReopenDestination(Job)]
    BY <1>5, <1>6
  <2>3. [live[born] EXCEPT !.desk = ResolveReopenDestination(Job)] = Placed(Job)
    BY <2>1 DEF Fresh, Placed
  <2>4. QED BY <2>2, <2>3
<1>10. /\ engine.born \in Nat /\ Before = engine.born /\ born = engine.born + 1
       /\ engine.at \in Nat \ {0} /\ Before' = born
  BY <1>1, <1>2, <1>4 DEF DoneInv, Before, Arrived, IInv, EngineInv
<1>11. First' = First /\ First + engine.at = born /\ First \in Nat
  BY <1>2, <1>4, <1>10 DEF First, DoneInv
<1>12. JobsInv'
  BY <1>2, <1>4 DEF JobsInv
<1>13. DoneInv'
  <2>1. ASSUME NEW j \in 1..engine'.at - 1
        PROVE  First + j \in DOMAIN live' /\ live'[First + j] = Placed(engine.jobs[j])
    <3>1. CASE j = engine.at
      BY <1>5, <1>8, <1>9, <1>11, <3>1 DEF Job
    <3>2. CASE j # engine.at
      <4>1. j \in 1..engine.at - 1 /\ First + j # born
        BY <1>2, <1>10, <1>11, <3>2
      <4>2. QED BY <1>4, <1>8, <4>1 DEF DoneInv
    <3>3. QED BY <3>1, <3>2
  <2>2. Before' \in Nat
    BY <1>10
  <2>3. QED BY <1>1, <1>2, <1>4, <1>11, <2>1, <2>2 DEF DoneInv
<1>14. arriving' = <<>>
  BY <1>1, <1>4 DEF Arrived
<1>15. QED BY <1>2, <1>12, <1>13, <1>14 DEF AloneInv

\* A window that is launched appears, so nothing times out.
LEMMA NothingTimesOut ==
  ASSUME IInv, AloneInv, WindowTimesOut
  PROVE  ~engine.alone
<1> SUFFICES ASSUME engine.alone PROVE FALSE
  OBVIOUS
<1>1. AwaitInv /\ DoneInv
  BY DEF AloneInv, WindowTimesOut
<1>2. \A k \in DOMAIN arriving : arriving[k].job # engine.at
  BY <1>1 DEF WindowTimesOut, DoneInv
<1>3. Arrived
  <2>1. SUFFICES ASSUME arriving = <<[app |-> Job.app, urls |-> engine.launched, job |-> engine.at]>>
                 PROVE  FALSE
    BY <1>1 DEF AwaitInv
  <2>2. 1 \in DOMAIN arriving /\ arriving[1].job = engine.at
    BY <2>1
  <2>3. QED BY <1>2, <2>2
<1>4. PICK seen \in Enumerations(Job.app) : seen \subseteq engine.before
  BY DEF WindowTimesOut
<1>5. seen = WindowsOf(Job.app)
  BY <1>1 DEF Enumerations, DoneInv
<1>6. born \in WindowsOf(Job.app)
  BY <1>3 DEF Arrived, WindowsOf, Fresh
<1>7. born <= engine.born
  BY <1>1, <1>4, <1>5, <1>6 DEF AwaitInv
<1>8. engine.born \in Nat
  BY <1>1 DEF DoneInv, Before, WindowTimesOut
<1>9. QED BY <1>3, <1>7, <1>8 DEF Arrived

\* An automatic restore that was under way when the run began moves a window
\* that was there before.
LEMMA RestoreAlone ==
  ASSUME IInv, AloneInv, FinishAutoOperation,
         "faults" \in DOMAIN budget', budget'.faults = budget.faults
  PROVE  AloneInv'
<1> DEFINE f == flight.win
<1>1. /\ flight # None /\ flight' = None /\ UNCHANGED <<engine, arriving, born>>
  BY DEF FinishAutoOperation
<1>2. live' = live \/ \E d : f \in DOMAIN live /\ live' = [live EXCEPT ![f].desk = d]
  BY DEF FinishAutoOperation
<1>3. SUFFICES ASSUME engine.alone PROVE AloneInv'
  BY <1>1 DEF AloneInv
<1>4. JobsInv /\ DoneInv /\ f <= First /\ f \in 1..born
  BY <1>1, <1>3 DEF AloneInv, DoneInv, IInv, LayoutInv
<1>5. /\ DOMAIN live' = DOMAIN live /\ \A v \in DOMAIN live : v # f => live'[v] = live[v]
      /\ \A v \in DOMAIN live : live'[v].app = live[v].app
  <2>1. CASE live' = live
    BY <2>1
  <2>2. ASSUME NEW d, f \in DOMAIN live, live' = [live EXCEPT ![f].desk = d]
        PROVE  /\ DOMAIN live' = DOMAIN live /\ \A v \in DOMAIN live : v # f => live'[v] = live[v]
               /\ \A v \in DOMAIN live : live'[v].app = live[v].app
    BY <2>2 DEF IInv, BrowsersInv, WindowFields
  <2>3. QED BY <1>2, <2>1, <2>2
<1> HIDE DEF f
<1>6. Job' = Job /\ Before' = Before /\ First' = First
  BY <1>1 DEF Job, Before, First
<1>7. JobsInv'
  BY <1>1, <1>4 DEF JobsInv
<1>8. First \in Nat /\ Before \in Nat /\ engine.at \in Nat \ {0} /\ Before = First + engine.at - 1
  BY <1>4 DEF DoneInv, First, IInv, EngineInv
<1>9. DoneInv'
  <2>1. \A j \in 1..engine.at - 1 :
          First + j \in DOMAIN live' /\ live'[First + j] = Placed(engine.jobs[j])
    BY <1>4, <1>5, <1>8 DEF DoneInv
  <2>2. QED BY <1>1, <1>4, <1>6, <2>1 DEF DoneInv
<1>10. WindowsOf(Job.app)' = WindowsOf(Job.app)
  BY <1>5, <1>6 DEF WindowsOf
<1>11. ASSUME engine.phase # "Launch", Arrived PROVE Arrived'
  <2>1. f # born
    BY <1>4, <1>8, <1>11 DEF Arrived, Before
  <2>2. QED BY <1>1, <1>5, <1>6, <1>11, <2>1 DEF Arrived, Fresh
<1>12. ASSUME engine.phase = "AwaitWindow" PROVE AwaitInv'
  <2>1. AwaitInv
    BY <1>3, <1>12 DEF AloneInv
  <2>2. SentBy(Job, 1)' = SentBy(Job, 1)
    BY <1>6 DEF SentBy
  <2>3. QED BY <1>1, <1>6, <1>10, <1>11, <1>12, <2>1, <2>2 DEF AwaitInv
<1>13. ASSUME engine.phase \in {"Tabs", "Move"} PROVE TabsInv'
  <2>1. TabsInv
    BY <1>3, <1>13 DEF AloneInv
  <2>2. SentBy(Job, engine.next - 1)' = SentBy(Job, engine.next - 1)
    BY <1>1, <1>6 DEF SentBy
  <2>3. QED BY <1>1, <1>6, <1>11, <1>13, <2>1, <2>2 DEF TabsInv
<1>14. QED BY <1>1, <1>3, <1>7, <1>9, <1>12, <1>13 DEF AloneInv

\* What appears during the run is what the run launched.
LEMMA AppearsAlone ==
  ASSUME IInv, AloneInv, WindowAppears,
         "faults" \in DOMAIN budget', budget'.faults = budget.faults
  PROVE  AloneInv'
<1>1. PICK k \in DOMAIN arriving :
        Opens(arriving[k].app, arriving[k].urls) /\ arriving' = RemoveAt(arriving, k)
  BY DEF WindowAppears
<1>2. UNCHANGED <<engine, flight>>
  BY DEF WindowAppears, layout
<1>3. SUFFICES ASSUME engine.alone PROVE AloneInv'
  BY <1>2 DEF AloneInv
<1>4. engine.phase = "AwaitWindow"
  <2>1. arriving # <<>>
    BY <1>1
  <2>2. engine.phase \in {"Launch", "AwaitWindow", "Tabs", "Move"}
    BY <1>3 DEF AloneInv, DoneInv, IInv, EngineInv
  <2>3. QED BY <1>3, <2>1, <2>2 DEF AloneInv, TabsInv, Arrived
<1>5. JobsInv /\ DoneInv /\ AwaitInv
  BY <1>3, <1>4 DEF AloneInv
<1>6. /\ arriving = <<[app |-> Job.app, urls |-> engine.launched, job |-> engine.at]>>
      /\ born = engine.born
  BY <1>1, <1>5 DEF AwaitInv, Arrived
<1>7. k = 1 /\ arriving' = <<>>
  <2>1. k = 1 /\ Len(arriving) = 1
    BY <1>1, <1>6
  <2>2. SubSeq(arriving, 1, 0) = <<>> /\ SubSeq(arriving, 2, 1) = <<>>
    BY SubSeqEmpty
  <2>3. QED BY <1>1, <2>1, <2>2 DEF RemoveAt
<1>8. /\ born' = born + 1 /\ DOMAIN live' = DOMAIN live \cup {born + 1}
      /\ \A v \in DOMAIN live' :
           live'[v] = IF v = born + 1 THEN Fresh(Job, engine.launched) ELSE live[v]
  BY <1>1, <1>6, <1>7 DEF Opens, Put, Fresh
<1>9. born \in Nat /\ DOMAIN live \subseteq 1..born
  BY DEF IInv, BrowsersInv
<1>10. Job' = Job /\ Before' = Before
  BY <1>2, <1>4 DEF Job, Before
<1>11. JobsInv'
  BY <1>2, <1>5 DEF JobsInv
<1>12. DoneInv'
  <2>1. \A w \in DOMAIN live : w <= Before => w \in DOMAIN live' /\ live'[w] = live[w]
    BY <1>8, <1>9
  <2>2. JobStep
    BY <1>2 DEF JobStep
  <2>3. QED BY <1>2, <1>5, <1>10, <2>1, <2>2, DoneStays DEF IInv, EngineInv
<1>13. Arrived'
  BY <1>2, <1>6, <1>7, <1>8, <1>10 DEF Arrived
<1>14. AwaitInv'
  <2>1. SentBy(Job, 1)' = SentBy(Job, 1)
    BY <1>10 DEF SentBy
  <2>2. ASSUME NEW w \in WindowsOf(Job.app)'
        PROVE  w <= engine.born => w \in engine.before
    <3>1. CASE w = born + 1
      BY <1>6, <1>9, <3>1
    <3>2. CASE w # born + 1
      <4>1. w \in WindowsOf(Job.app)
        BY <1>8, <1>10, <2>2, <3>2 DEF WindowsOf
      <4>2. QED BY <1>5, <4>1 DEF AwaitInv
    <3>3. QED BY <3>1, <3>2
  <2>3. QED BY <1>2, <1>5, <1>10, <1>13, <2>1, <2>2 DEF AwaitInv
<1>15. QED BY <1>2, <1>4, <1>11, <1>12, <1>14 DEF AloneInv

LEMMA AloneStepKeeps == IInv /\ AloneInv /\ [Next]_vars => AloneInv'
<1> SUFFICES ASSUME IInv, AloneInv, [Next]_vars PROVE AloneInv'
  OBVIOUS
<1>1. "faults" \in DOMAIN budget' /\ budget'.faults = budget.faults
  BY FaultsStay DEF AloneInv
<1>2. ASSUME ~engine'.alone PROVE AloneInv'
  BY <1>1, <1>2 DEF AloneInv
<1>3. CASE OpenDialog \/ CloseDialog \/ PickSlot \/ Click \/ SessionWritten \/ UNCHANGED vars
  <2>1. UNCHANGED <<engine, live, arriving, born, flight>>
    BY <1>3 DEF OpenDialog, CloseDialog, PickSlot, Click, SessionWritten, vars, browsers, layout
  <2>2. QED BY <1>1, <2>1, AloneUnnoticed
<1>4. CASE FinishReopen
  BY <1>2, <1>4 DEF FinishReopen, Idle
<1>5. CASE WindowTimesOut
  <2>1. engine'.alone = engine.alone
    BY <1>5 DEF WindowTimesOut, NextJob, IInv, EngineInv, EngineFields
  <2>2. QED BY <1>2, <1>5, <2>1, NothingTimesOut
<1>6. CASE Observe
  <2>1. ~engine.alone
    BY <1>6 DEF Observe, AloneInv, DoneInv
  <2>2. UNCHANGED engine
    BY <1>6 DEF Observe
  <2>3. QED BY <1>2, <2>1, <2>2
<1>7. CASE UserOpensWindow \/ UserClosesWindow
  BY <1>2, <1>7, DisturbedGoesOn DEF UserOpensWindow, UserClosesWindow
<1>8. CASE AdvanceReopen
  BY <1>1, <1>4, <1>5, <1>8, LaunchAlone, NoticeAlone, TabsAlone, MoveAlone DEF AdvanceReopen
<1>9. QED
  BY <1>1, <1>3, <1>6, <1>7, <1>8, StartAlone, CancelAlone, RestoreAlone, AppearsAlone DEF Next

\* Reopening window by window is exact (AdvanceReopen, BuildReopenLaunches,
\* ResolveReopenDestination): a run that nothing fails in, and during which
\* nobody else opens or closes a window, gives every job that is done a window
\* of its own with all its tabs, no other tab, on its desktop.
THEOREM ReopenIsExactAlways == Spec => []ReopenIsExact
<1>1. Init => AloneInv
  BY ReopenAssumption DEF Init, AloneInv, Idle
<1>2. Spec => []IInv
  BY ReopenInvariant
<1>3. Spec => []AloneInv
  BY <1>1, <1>2, AloneStepKeeps, PTL DEF Spec
<1>4. AloneInv => ReopenIsExact
  <2> SUFFICES ASSUME AloneInv, engine.alone PROVE ReopenIsExact
    BY DEF ReopenIsExact
  <2> DEFINE window == [j \in 1..engine.at - 1 |-> First + j]
  <2>1. /\ \A j \in 1..engine.at - 1 :
             First + j \in DOMAIN live /\ live[First + j] = Placed(engine.jobs[j])
        /\ First \in Nat
    BY DEF AloneInv, DoneInv
  <2>2. window \in [1..engine.at - 1 -> DOMAIN live]
    BY <2>1
  <2>3. \A i, j \in 1..engine.at - 1 : i # j => window[i] # window[j]
    BY <2>1
  <2>4. \A j \in 1..engine.at - 1 : live[window[j]] = Placed(engine.jobs[j])
    BY <2>1
  <2>5. QED BY <2>2, <2>3, <2>4 DEF ReopenIsExact, Placed
<1>5. QED BY <1>3, <1>4, PTL

-----------------------------------------------------------------------------
(* The new window.                                                         *)

\* When a window is waited for, those older than the launch were enumerated.
NewInv ==
  /\ "faults" \in DOMAIN budget /\ engine.born \in 0..born
  /\ engine.target # None => engine.phase \in {"Tabs", "Move"}
  /\ "partial" \notin budget.faults =>
       /\ TargetIsNew
       /\ engine.phase = "AwaitWindow" =>
            \A w \in WindowsOf(Job.app) : w <= engine.born => w \in engine.before

\* A step that leaves what the engine waits for and adds no old window.
LEMMA NewUnnoticed ==
  ASSUME IInv, NewInv, "faults" \in DOMAIN budget', budget'.faults = budget.faults,
         engine'.born = engine.born, engine'.target = engine.target,
         engine'.phase = engine.phase, engine'.before = engine.before, Job' = Job,
         born' \in Nat, born <= born', DOMAIN live' \subseteq 1..born',
         \A w \in DOMAIN live' : w <= born => w \in DOMAIN live /\ live'[w].app = live[w].app
  PROVE  NewInv'
<1>1. born \in Nat
  BY DEF IInv, BrowsersInv
<1>2. engine'.born \in 0..born'
  BY <1>1 DEF NewInv
<1>3. \A w \in WindowsOf(Job.app)' : w <= engine.born => w \in WindowsOf(Job.app)
  <2>1. SUFFICES ASSUME NEW w \in DOMAIN live', live'[w].app = Job.app, w <= engine.born
                 PROVE  w \in WindowsOf(Job.app)
    BY DEF WindowsOf
  <2>2. w <= born
    BY <1>1, <2>1 DEF NewInv
  <2>3. QED BY <2>1, <2>2 DEF WindowsOf
<1>4. QED BY <1>2, <1>3 DEF NewInv, TargetIsNew

LEMMA NewStepKeeps == IInv /\ IInv' /\ NewInv /\ [Next]_vars => NewInv'
<1> SUFFICES ASSUME IInv, IInv', NewInv, [Next]_vars PROVE NewInv'
  OBVIOUS
<1>1. "faults" \in DOMAIN budget' /\ budget'.faults = budget.faults
  BY FaultsStay DEF NewInv
<1>2. born \in Nat /\ DOMAIN live \subseteq 1..born /\ DOMAIN engine = EngineFields
  BY DEF IInv, BrowsersInv, EngineInv
<1>0. born' \in Nat /\ DOMAIN live' \subseteq 1..born'
  BY DEF IInv, BrowsersInv
<1>3. CASE OpenDialog \/ CloseDialog \/ PickSlot \/ Click \/ SessionWritten \/ Observe \/ UNCHANGED vars
  <2>1. UNCHANGED <<engine, live, born>>
    BY <1>3 DEF OpenDialog, CloseDialog, PickSlot, Click, SessionWritten, Observe, vars, browsers
  <2>2. QED BY <1>0, <1>1, <1>2, <2>1, NewUnnoticed DEF Job
<1>4. CASE CancelReopen
  <2>1. engine' = [engine EXCEPT !.cancel = TRUE] /\ UNCHANGED <<live, born>>
    BY <1>4 DEF CancelReopen, browsers
  <2>2. QED BY <1>0, <1>1, <1>2, <2>1, NewUnnoticed DEF Job, EngineFields
<1>5. ASSUME engine'.born = 0, engine'.target = None, engine'.phase \in {"Idle", "Launch"}
      PROVE  NewInv'
  <2>1. born' \in Nat
    BY DEF IInv, BrowsersInv
  <2>2. QED BY <1>1, <1>5, <2>1 DEF NewInv, TargetIsNew
<1>6. CASE StartReopen
  <2>1. PICK jobs \in JobsFromSelection(dialog.model) :
          \E exe : engine' = [Idle EXCEPT !.active = TRUE, !.jobs = jobs, !.exe = exe, !.phase = "Launch",
                               !.alone = budget.faults = {} /\ arriving = <<>>]
    BY <1>6 DEF StartReopen
  <2>2. PICK exe : engine' = [Idle EXCEPT !.active = TRUE, !.jobs = jobs, !.exe = exe, !.phase = "Launch",
                                !.alone = budget.faults = {} /\ arriving = <<>>]
    BY <2>1
  <2>3. QED BY <1>5, <2>2 DEF Idle
<1>7. CASE FinishReopen
  BY <1>5, <1>7 DEF FinishReopen, Idle
<1>8. ASSUME engine' = NextJob(engine), UNCHANGED born PROVE NewInv'
  <2>1. engine'.target = None /\ engine'.phase = "Launch" /\ engine'.born = engine.born
    BY <1>2, <1>8 DEF NextJob, EngineFields
  <2>2. QED BY <1>1, <1>8, <2>1 DEF NewInv, TargetIsNew
<1>9. CASE LaunchWindow
  <2>1. SUFFICES ASSUME NEW seen \in Enumerations(Job.app), engine.phase = "Launch",
                        engine' = [engine EXCEPT !.before = seen, !.born = born,
                                     !.launched = ToSet(Job.launches[1]), !.next = 2,
                                     !.phase = "AwaitWindow"],
                        UNCHANGED <<live, born>>
                 PROVE  NewInv'
    BY <1>8, <1>9 DEF LaunchWindow
  <2>2. /\ engine'.before = seen /\ engine'.born = born /\ engine'.phase = "AwaitWindow"
        /\ engine'.target = engine.target /\ Job' = Job
    BY <1>2, <2>1 DEF EngineFields, Job
  <2>3. engine.target = None
    BY <2>1 DEF NewInv
  <2>4. "partial" \notin budget.faults => seen = WindowsOf(Job.app)
    BY DEF Enumerations
  <2>5. QED BY <1>1, <1>2, <2>1, <2>2, <2>3, <2>4 DEF NewInv, TargetIsNew, WindowsOf
<1>10. CASE NoticeWindow
  <2>1. PICK seen \in Enumerations(Job.app) : \E w \in seen \ engine.before :
          engine' = [engine EXCEPT !.target = w,
                       !.phase = IF engine.next <= Len(Job.launches) THEN "Tabs" ELSE "Move"]
    BY <1>10 DEF NoticeWindow
  <2>2. PICK w \in seen \ engine.before :
          engine' = [engine EXCEPT !.target = w,
                       !.phase = IF engine.next <= Len(Job.launches) THEN "Tabs" ELSE "Move"]
    BY <2>1
  <2>3. w \in WindowsOf(Job.app) /\ w \in 1..born
    BY <1>2 DEF Enumerations, WindowsOf
  <2>4. engine'.target = w /\ engine'.phase \in {"Tabs", "Move"} /\ engine'.born = engine.born
    BY <1>2, <2>2 DEF EngineFields
  <2>5. engine.phase = "AwaitWindow" /\ UNCHANGED <<live, born>>
    BY <1>10 DEF NoticeWindow, browsers
  <2>6. "partial" \notin budget.faults => w > engine.born
    BY <1>2, <2>2, <2>3, <2>5 DEF NewInv
  <2>7. QED BY <1>1, <2>4, <2>5, <2>6 DEF NewInv, TargetIsNew
<1>11. CASE WindowTimesOut
  BY <1>8, <1>11 DEF WindowTimesOut, browsers
<1>12. CASE LaunchTabs
  <2> DEFINE phase == IF engine.next + 1 > Len(Job.launches) THEN "Move" ELSE "Tabs"
             sent == [engine EXCEPT !.next = @ + 1, !.phase = phase]
  <2>1. /\ \/ engine' = sent
           \/ \E urls : engine' = [sent EXCEPT !.launched = @ \cup urls]
        /\ engine.phase = "Tabs" /\ UNCHANGED born
    BY <1>12 DEF LaunchTabs
  <2>2. phase \in {"Tabs", "Move"}
    OBVIOUS
  <2> HIDE DEF phase
  <2>3. engine'.born = engine.born /\ engine'.target = engine.target /\ engine'.phase = phase
    BY <1>2, <2>1 DEF EngineFields
  <2>4. QED BY <1>1, <2>1, <2>2, <2>3 DEF NewInv, TargetIsNew
<1>13. CASE MoveWindow
  BY <1>8, <1>13 DEF MoveWindow
<1>14. CASE FinishAutoOperation
  <2>1. /\ UNCHANGED <<engine, born>>
        /\ live' = live \/ \E w \in DOMAIN live : \E d : live' = [live EXCEPT ![w].desk = d]
    BY <1>14 DEF FinishAutoOperation
  <2>2. \A w \in DOMAIN live' : w \in DOMAIN live /\ live'[w].app = live[w].app
    BY <2>1 DEF IInv, BrowsersInv, WindowFields
  <2>3. QED BY <1>0, <1>1, <1>2, <2>1, <2>2, NewUnnoticed DEF Job
<1>15. ASSUME NEW app, NEW urls, Opens(app, urls),
              engine' = engine \/ engine' = [engine EXCEPT !.alone = FALSE]
       PROVE  NewInv'
  <2>1. /\ engine'.born = engine.born /\ engine'.target = engine.target
        /\ engine'.phase = engine.phase /\ engine'.before = engine.before /\ Job' = Job
    BY <1>2, <1>15 DEF EngineFields, Job
  <2>2. born' = born + 1
    BY <1>15 DEF Opens
  <2>3. \A w \in DOMAIN live' : w <= born => w \in DOMAIN live /\ live'[w] = live[w]
    BY <1>2, <1>15 DEF Opens, Put
  <2>4. QED BY <1>0, <1>1, <1>2, <2>1, <2>2, <2>3, NewUnnoticed
<1>16. CASE WindowAppears
  BY <1>15, <1>16 DEF WindowAppears
<1>17. CASE UserOpensWindow
  BY <1>15, <1>17 DEF UserOpensWindow
<1>18. CASE UserClosesWindow
  <2>1. /\ engine' = [engine EXCEPT !.alone = FALSE] /\ UNCHANGED born
        /\ \E w \in DOMAIN live : live' = [v \in DOMAIN live \ {w} |-> live[v]]
    BY <1>18 DEF UserClosesWindow
  <2>2. /\ engine'.born = engine.born /\ engine'.target = engine.target
        /\ engine'.phase = engine.phase /\ engine'.before = engine.before /\ Job' = Job
    BY <1>2, <2>1 DEF EngineFields, Job
  <2>3. QED BY <1>0, <1>1, <1>2, <2>1, <2>2, NewUnnoticed
<1>19. QED
  BY <1>3, <1>4, <1>6, <1>7, <1>9, <1>10, <1>11, <1>12, <1>13, <1>14, <1>16, <1>17, <1>18
     DEF Next, AdvanceReopen

\* What the difference of two enumerations gives (AdvanceReopen): as long as
\* no enumeration misses a window, a run never takes a window that was there
\* before its launch for the new one, whatever happens meanwhile.
THEOREM OldWindowsStayAlways == Spec => []OldWindowsStay
<1>1. Init => NewInv
  BY ReopenAssumption DEF Init, NewInv, Idle, TargetIsNew
<1>2. Spec => []IInv
  BY ReopenInvariant
<1>3. Spec => []NewInv
  BY <1>1, <1>2, NewStepKeeps, PTL DEF Spec
<1>4. NewInv => OldWindowsStay
  BY DEF NewInv, OldWindowsStay
<1>5. QED BY <1>3, <1>4, PTL

==============================================================================
