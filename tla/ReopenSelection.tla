--------------------------- MODULE ReopenSelection ---------------------------
(* The selection behind "Reopen browser windows" (reopen_model.hpp) and the   *)
(* launch plan made from it (tabsnap.hpp).  A checkpoint is a sequence of     *)
(* windows [app, rec, desk, urls]; desktops are their on-screen positions.    *)
(* The model of the dialog keeps, for the checkpoint shown, which desktops,   *)
(* windows and tabs are checked and which tabs are open; a tab is the pair of *)
(* its window's and its own position.  Titles, names and the text of a filter *)
(* are left out: a filter is the set of rows its text matches, so every text  *)
(* is one of the filters TLC tries.                                           *)
EXTENDS Naturals, FiniteSets, Sequences, SequencesExt

CONSTANTS
  Firefox,       \* the browser that takes one address after -new-window
  Replayable,    \* the addresses a browser accepts from a command line
  MaxUrls        \* addresses that fit in one command line

ASSUME ReopenSelectionAssumption == MaxUrls \in Nat \ {0}

SnapshotApps(s) == {s[w].app : w \in DOMAIN s}

Tabs(s) == UNION {{<<w, t>> : t \in DOMAIN s[w].urls} : w \in DOMAIN s}

UrlOf(s, tab) == s[tab[1]].urls[tab[2]]

TabIsOpen(s, tab, open) == <<s[tab[1]].app, UrlOf(s, tab)>> \in open

\* Everything starts checked but the tabs that are open.
BuildReopenModel(s, open) ==
  LET shown == {tab \in Tabs(s) : TabIsOpen(s, tab, open)} IN
  [snapshot |-> s, apps |-> SnapshotApps(s), desks |-> {s[w].desk : w \in DOMAIN s},
   wins |-> DOMAIN s, tabs |-> Tabs(s) \ shown, open |-> shown]

------------------------------------------------------------------------------
(* What the columns show under filters f = [desks, wins, tabs: the rows the   *)
(* texts match, hide: the columns that hide what is open].                    *)

TabsOf(m, w) == {tab \in Tabs(m.snapshot) : tab[1] = w}

WindowsOn(m, d) == {w \in DOMAIN m.snapshot : m.snapshot[w].desk = d}

Passes(m, w) == m.snapshot[w].app \in m.apps

WindowFullyOpen(m, w) == TabsOf(m, w) # {} /\ TabsOf(m, w) \subseteq m.open

DesktopFullyOpen(m, d) ==
  LET on == {w \in WindowsOn(m, d) : Passes(m, w)} IN
  on # {} /\ \A w \in on : WindowFullyOpen(m, w)

DesktopShown(m, f, d) ==
  d \in f.desks /\ ~("desks" \in f.hide /\ DesktopFullyOpen(m, d))

VisibleDesktops(m, f) ==
  {d \in {m.snapshot[w].desk : w \in DOMAIN m.snapshot} :
     DesktopShown(m, f, d) /\ \E w \in WindowsOn(m, d) : Passes(m, w)}

WindowSelected(m, w) == Passes(m, w) /\ m.snapshot[w].desk \in m.desks /\ w \in m.wins

VisibleWindows(m, f) ==
  {w \in DOMAIN m.snapshot :
     /\ Passes(m, w)
     /\ m.snapshot[w].desk \in m.desks
     /\ DesktopShown(m, f, m.snapshot[w].desk)
     /\ w \in f.wins
     /\ ~("wins" \in f.hide /\ WindowFullyOpen(m, w))}

VisibleTabs(m, f) ==
  {tab \in Tabs(m.snapshot) :
     /\ tab[1] \in VisibleWindows(m, f) \cap m.wins
     /\ ~("tabs" \in f.hide /\ tab \in m.open)
     /\ tab \in f.tabs}

------------------------------------------------------------------------------
(* The check boxes.  Checking a parent checks what is under it, but never a   *)
(* tab that is open; unchecking it clears them all.                           *)

SetTabChecked(m, tab, checked) ==
  [m EXCEPT !.tabs = IF checked THEN @ \cup {tab} ELSE @ \ {tab}]

SetWindowsChecked(m, ws, checked) ==
  LET under == {tab \in Tabs(m.snapshot) : tab[1] \in ws} IN
  [m EXCEPT !.wins = IF checked THEN @ \cup ws ELSE @ \ ws,
            !.tabs = IF checked THEN (@ \ under) \cup (under \ m.open) ELSE @ \ under]

SetDesktopsChecked(m, ds, checked) ==
  SetWindowsChecked([m EXCEPT !.desks = IF checked THEN @ \cup ds ELSE @ \ ds],
                    {w \in UNION {WindowsOn(m, d) : d \in ds} : Passes(m, w)}, checked)

SetAllTabsChecked(m, f, checked) ==
  LET shown == VisibleTabs(m, f) IN
  [m EXCEPT !.tabs = (@ \ shown) \cup (IF checked THEN shown \ m.open ELSE {})]

\* "All" boxes: TRUE when every row the column shows is checked.
AllDesktopsChecked(m, f) == VisibleDesktops(m, f) # {} /\ VisibleDesktops(m, f) \subseteq m.desks

AllWindowsChecked(m, f) == VisibleWindows(m, f) # {} /\ VisibleWindows(m, f) \subseteq m.wins

AllTabsChecked(m, f) ==
  LET counted == VisibleTabs(m, f) \ m.open IN counted # {} /\ counted \subseteq m.tabs

------------------------------------------------------------------------------
(* From a selection to launches.                                              *)

\* The first launch opens the window, the others add tabs to it.
BuildReopenLaunches(app, urls) ==
  LET first == IF app = Firefox THEN 1 ELSE IF Len(urls) < MaxUrls THEN Len(urls) ELSE MaxUrls
      rest == Len(urls) - first
      batches == (rest + MaxUrls - 1) \div MaxUrls
      batch(b) == SubSeq(urls, first + (b - 1) * MaxUrls + 1,
                         IF first + b * MaxUrls < Len(urls) THEN first + b * MaxUrls ELSE Len(urls))
  IN IF urls = <<>> THEN <<>>
     ELSE <<SubSeq(urls, 1, first)>> \o [b \in 1..batches |-> batch(b)]

\* Windows come in the order of their desktops, as the columns list them.
ListedBefore(m, v, w) ==
  \/ m.snapshot[v].desk < m.snapshot[w].desk
  \/ m.snapshot[v].desk = m.snapshot[w].desk /\ v < w

\* The checked tabs of one window that a browser accepts, in tab order.
JobUrls(m, w) ==
  LET keep == {t \in DOMAIN m.snapshot[w].urls :
                 <<w, t>> \in m.tabs /\ m.snapshot[w].urls[t] \in Replayable}
      order == CHOOSE o \in [1..Cardinality(keep) -> keep] :
                 \A i, j \in DOMAIN o : i < j => o[i] < o[j]
  IN [i \in 1..Cardinality(keep) |-> m.snapshot[w].urls[order[i]]]

\* The windows of which something is brought back.
SelectedWindows(m) == {w \in DOMAIN m.snapshot : WindowSelected(m, w) /\ JobUrls(m, w) # <<>>}

\* The jobs of a selection; there is one list of them.
JobsFromSelection(m) ==
  LET ws == SelectedWindows(m)
      order == {o \in [1..Cardinality(ws) -> ws] :
                  \A i, j \in DOMAIN o : i < j => ListedBefore(m, o[i], o[j])}
      job(w) == [win |-> w, app |-> m.snapshot[w].app, rec |-> m.snapshot[w].rec,
                 desk |-> m.snapshot[w].desk, urls |-> JobUrls(m, w),
                 launches |-> BuildReopenLaunches(m.snapshot[w].app, JobUrls(m, w))]
  IN {[i \in DOMAIN o |-> job(o[i])] : o \in order}

\* The tabs the status line counts.
SelectedTabs(m) == {tab \in m.tabs : WindowSelected(m, tab[1])}

\* What a reopen brought back is open: offered again only when asked for.
MarkJobsOpen(m, opened) ==
  LET now == {tab \in Tabs(m.snapshot) : TabIsOpen(m.snapshot, tab, opened)} IN
  [m EXCEPT !.open = @ \cup now, !.tabs = @ \ now]

==============================================================================
