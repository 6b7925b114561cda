------------------------------ MODULE MCReopen -------------------------------
EXTENDS Reopen, TLC

\* Two checkpoints.  The newer has a Firefox window on the second desktop with
\* two tabs, and a Chrome window of a desktop that is gone with a tab of its
\* own and one no browser accepts; the older has the Firefox window only.
MCCheckpoints ==
  << << [app |-> "firefox", rec |-> "r1", desk |-> 2, urls |-> <<"a", "b">>],
        [app |-> "chrome",  rec |-> "r2", desk |-> 3, urls |-> <<"c", "bad">>] >>,
     << [app |-> "firefox", rec |-> "r1", desk |-> 1, urls |-> <<"a">>] >> >>

\* Everything shown, everything that is not open, and one row of each column.
MCFilters ==
  LET all == [desks |-> 1..3, wins |-> 1..2, tabs |-> (1..2) \X (1..2), hide |-> {}] IN
  {all, [all EXCEPT !.hide = {"desks", "wins", "tabs"}],
   [all EXCEPT !.wins = {1}, !.tabs = {<<1, 1>>}]}

MCDesks == 1..2

\* Two reopens without faults, of two dialogs and a window the user opens or
\* closes; one reopen and two such windows; reopens with the faults of launches
\* and memory, of moves and records, and of browsers (a browser that is only
\* slow, beside a window of the user); with every fault, one reopen and a
\* window of the user, and one reopen after two clicks.
MCBudgets ==
  LET all == {"partial", "memory", "slow", "moves", "records", "launches"}
      b(d, c, r, x, f, l) == [dialogs |-> d, clicks |-> c, reopens |-> r, disturbances |-> x,
                              faults |-> f, left |-> l]
  IN {b(2, 0, 2, 1, {}, {}), b(1, 0, 1, 2, {}, {}),
      b(2, 0, 2, 0, {"launches", "memory"}, {}), b(2, 0, 2, 0, {"moves", "records"}, {"firefox"}),
      b(1, 0, 2, 0, {"partial", "slow"}, {}), b(1, 0, 1, 1, {"slow"}, {}),
      b(1, 0, 1, 1, all, {"firefox"}), b(1, 2, 1, 0, all, {})}
==============================================================================
