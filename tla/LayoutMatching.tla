---------------------------- MODULE LayoutMatching ----------------------------
(* How alike a saved record and a live window are, and when their difference  *)
(* is a tab dragged out or two windows merged (layout.hpp).  What a window    *)
(* shows is its look: the title without its unread counter, the domain of the *)
(* active tab, the tabs of each domain, the number of tabs and the signature  *)
(* of the addresses.  Scores are in thousandths, rounded down.                *)
EXTENDS Naturals, FiniteSets, FiniteSetsExt

CONSTANTS
  Looks,         \* what a window can show: [title, domain, counts, tabs, signature]
  Domains,
  NoTitle        \* an empty title, and the domain of a window whose tabs are unknown

ASSUME LayoutMatchingAssumption ==
  \A k \in Looks : k.counts \in [Domains -> Nat] /\ k.tabs \in Nat /\ k.signature \in Nat

Pages(k) == {d \in Domains : k.counts[d] > 0}

------------------------------------------------------------------------------
(* The score of two looks.                                                    *)

\* The largest number of thousandths whose square is at most n.
Root(n) == CHOOSE r \in 0..1000 : r * r <= n /\ (r = 1000 \/ (r + 1) * (r + 1) > n)

Dot(a, b) == MapThenSumSet(LAMBDA d : a.counts[d] * b.counts[d], Domains)

Cosine(a, b) ==
  IF a.counts = b.counts THEN 1000
  ELSE Root((1000000 * Dot(a, b) * Dot(a, b)) \div (Dot(a, a) * Dot(b, b)))

Jaccard(a, b) ==
  (1000 * Cardinality(Pages(a) \cap Pages(b))) \div Cardinality(Pages(a) \cup Pages(b))

SameActiveTitle(a, b) == a.title # NoTitle /\ a.title = b.title

Active(a, b) ==
  IF SameActiveTitle(a, b) THEN 1000
  ELSE IF a.domain # NoTitle /\ a.domain = b.domain THEN 500 ELSE 0

\* 1 - min(1, difference / larger).
TabsAlike(a, b) ==
  LET larger == IF a.tabs > b.tabs THEN a.tabs ELSE b.tabs
      smaller == IF a.tabs > b.tabs THEN b.tabs ELSE a.tabs
  IN IF larger = 0 THEN 1000 ELSE 1000 - ((1000 * (larger - smaller)) \div larger)

LookScore ==
  [p \in Looks \X Looks |->
     LET a == p[1]
         b == p[2]
     IN IF a.signature # 0 /\ a.signature = b.signature THEN 1000
        ELSE IF Pages(a) = {} \/ Pages(b) = {} THEN (IF SameActiveTitle(a, b) THEN 1000 ELSE 0)
        ELSE (40 * Cosine(a, b) + 25 * Jaccard(a, b) + 20 * Active(a, b) + 15 * TabsAlike(a, b)) \div 100]

\* LayoutScore of a record and a window.
LayoutScore(saved, window) ==
  IF saved.app # window.app \/ (saved.provisional /\ Pages(saved.look) = {}) THEN 0
  ELSE LookScore[<<saved.look, window.look>>]

------------------------------------------------------------------------------
(* Splits and merges.  CountsIntersect adds nothing to CountsContainedIn,     *)
(* which asks for a page.                                                     *)

CountsContainedIn(a, b) == Pages(a) # {} /\ \A d \in Domains : a.counts[d] <= b.counts[d]

\* Other windows hold pages of the record too: a tab was dragged out.
LooksLikeWindowSplit(saved, windows, i) ==
  /\ CountsContainedIn(windows[i].look, saved.look)
  /\ windows[i].look.tabs < saved.look.tabs
  /\ \E j \in DOMAIN windows \ {i} :
       windows[j].app = saved.app /\ CountsContainedIn(windows[j].look, saved.look)

\* The window holds the pages of other records too: windows were merged.
LooksLikeWindowMerge(records, r, window, expired) ==
  /\ CountsContainedIn(records[r].look, window.look)
  /\ window.look.tabs > records[r].look.tabs
  /\ \E q \in DOMAIN records \ (expired \cup {r}) :
       /\ records[q].app = records[r].app
       /\ CountsContainedIn(records[q].look, window.look)

==============================================================================
