--------------------------- MODULE MCReconcilePlan ----------------------------
EXTENDS ReconcilePlan

CONSTANTS d1, d2, siteA, siteB, t1, t2

MCDomains == {siteA, siteB}

Look(title, domain, ofA, ofB, signature) ==
  [title |-> title, domain |-> domain, counts |-> (siteA :> ofA) @@ (siteB :> ofB),
   tabs |-> ofA + ofB, signature |-> signature]

\* A window, a part of it, windows with pages of both domains and the rest of
\* one; a window of which only the title is known, and one without a title.
Both == Look(t1, siteA, 1, 1, 3)
Twice == Look(t1, siteA, 2, 0, 1)
Once == Look(t2, siteA, 1, 0, 2)
Other == Look(t2, siteB, 0, 1, 0)
Most == Look(t2, siteB, 1, 2, 4)
Titled == Look(t1, NoTitle, 0, 0, 0)
Untitled == Look(NoTitle, NoTitle, 0, 0, 0)

MCLooks == {Both, Twice, Once, Other, Most, Titled, Untitled}

Record(id, app, look, desktop, seen, missing, provisional) ==
  [id |-> id, app |-> app, desktop |-> desktop, look |-> look, seen |-> seen,
   missing |-> missing, provisional |-> provisional]

Window(app, look, desktop) == [app |-> app, desktop |-> desktop, look |-> look]

Input(records, windows, ids) == [existing |-> records, live |-> windows, reserved |-> ids]

Desktops == {d1, d2}

Known(id, looks) == {Record(id, "firefox", k, d, "recent", Never, FALSE) : k \in looks, d \in Desktops}

Provisional(id) ==
  {Record(id, "firefox", k, d, "recent", Never, TRUE) : k \in {Titled, Untitled}, d \in Desktops}

Aged(id, looks) ==
  {Record(id, "firefox", k, d1, g[1], g[2], FALSE) :
     k \in looks, g \in {<<"old", Never>>, <<"old", "recent">>, <<"old", "old">>}}

\* Two records of any kind and up to two windows.
Pairs ==
  LET firsts == Known(1, {Twice, Both, Titled}) \cup Provisional(1)
      seconds == Known(2, {Twice, Once, Titled}) \cup Provisional(2) \cup Aged(2, {Twice, Once})
      ones == {Window("firefox", k, d1) : k \in {Twice, Both, Once, Titled}}
      twos == {Window("firefox", k, d) : k \in {Twice, Once, Titled}, d \in Desktops}
  IN {Input(<<r, s>>, w, ids) :
        r \in firsts, s \in seconds, ids \in {{}, {1}},
        w \in {<<x>> : x \in ones} \cup {<<x, y>> : x \in ones, y \in twos}}

\* Three records and three windows, each on a desktop of its own or not.
Triples ==
  LET looks == {Twice, Both, Most} IN
  {Input([i \in 1..3 |-> Record(i, "firefox", k[i], IF i \in s THEN d1 ELSE d2, "recent", Never, FALSE)],
         [i \in 1..3 |-> Window("firefox", l[i], IF i = w THEN d1 ELSE d2)], {}) :
     k \in [1..3 -> looks], l \in [1..3 -> looks], s \in {{1}, {1, 2}}, w \in 1..3}

\* A record of another browser, and a window that has none.
Mixed ==
  {Input(<<Record(1, "chrome", Twice, d2, g, Never, FALSE), r>>, <<w, Window("firefox", Other, d2)>>, {}) :
     g \in Ages, r \in Known(2, {Twice, Both}),
     w \in {Window("firefox", k, d1) : k \in {Twice, Both, Titled}}}

\* Records and windows that have nothing in common, more than there is room for.
Full ==
  {Input(<<r, Record(2, "firefox", Once, d1, "recent", Never, FALSE),
           Record(3, "firefox", k, d2, s, Never, FALSE)>>,
         <<Window("firefox", Other, d1), w>>, {}) :
     r \in Known(1, {Twice, Titled}), k \in {Twice, Once}, s \in Ages,
     w \in {Window("firefox", l, d2) : l \in {Other, Both, Once}}}

MCInputs == Pairs \cup Triples \cup Mixed \cup Full
==============================================================================
