---------------------------- MODULE MCShopSession ----------------------------
\* An instance of ShopSession for TLC.  Requests in flight and session keys are
\* interchangeable.
EXTENDS ShopSession, TLC

\* $9.99 at half price is 499.5 cents, in hundredths.
MCPrice == [i \in Items |-> 49950]
Symmetry == Permutations(Requests) \cup Permutations(Keys)
=============================================================================
