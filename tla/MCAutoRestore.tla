---------------------------- MODULE MCAutoRestore ----------------------------
EXTENDS AutoRestore, Sequences

CONSTANTS d1, d2, r1, r2, r3

MCWindow == 1..3
MCDesktop == {d1, d2}
MCRecord == {r1, r2, r3}
\* Window 3 shows what window 1 showed: it is its later identity.
MCPage == <<"news", "mail", "news">>
MCTitles == 0..1
MCStamp == 0..3

At(places) == [w \in MCWindow |-> IF w <= Len(places) THEN places[w] ELSE Away]
MCStarted == {At(<<>>), At(<<d2, d2>>)}

Blank == [r \in MCRecord |-> Nothing]
MCSaved ==
  {Blank,
   [Blank EXCEPT ![r1] = Kept("news", d1, FALSE),
                 ![r2] = Kept("mail", d2, FALSE)]}
==============================================================================
