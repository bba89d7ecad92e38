--------------------------- MODULE AnswersProofs ---------------------------
(***************************************************************************)
(* What is read of a pair of stores: every query answers alike, and the     *)
(* reports of the books add up.  Rows that are twins are read as the same, sets *)
(* of twins have the same size, and a sum over rows does not depend on the  *)
(* order in which they are taken, so that it may be grouped, joined, scaled. *)
(***************************************************************************)
EXTENDS StoresProofs

-----------------------------------------------------------------------------
(* Sets of rows that stand for each other have the same size.               *)

\* A key column with one row each.
OneRowEach(T, key) == \A r, s \in T : r[key] = s[key] => r = s

LEMMA SameSize ==
  ASSUME NEW A, NEW B, IsFiniteSet(A), IsFiniteSet(B), NEW key, OneRowEach(A, key), OneRowEach(B, key),
         \A r \in A : \E q \in B : q[key] = r[key], \A q \in B : \E r \in A : r[key] = q[key]
  PROVE  Cardinality(A) = Cardinality(B)
<1> DEFINE f == [r \in A |-> CHOOSE q \in B : q[key] = r[key]]
<1>1. \A r \in A : f[r] \in B /\ f[r][key] = r[key]
  OBVIOUS
<1> HIDE DEF f
<1>2. \A r, s \in A : f[r] = f[s] => r = s
  BY <1>1 DEF OneRowEach
<1>3. \A q \in B : \E r \in A : f[r] = q
  BY <1>1 DEF OneRowEach
<1>4. [r \in A |-> f[r]] \in Bijection(A, B)
  BY <1>1, <1>2, <1>3 DEF Bijection, Injection, Surjection, IsInjective
<1> QED
  BY <1>4, FS_Bijection DEF ExistsBijection

\* The last of finitely many rows.
LEMMA LastRow ==
  ASSUME NEW A, IsFiniteSet(A), A # {}, \A r \in A : r.at \in Nat
  PROVE  \E r \in A : \A s \in A : s.at <= r.at
<1> DEFINE upto(r) == {s \in A : s.at <= r.at}
           after(r) == Cardinality(A) - Cardinality(upto(r))
           D == {after(r) : r \in A}
<1>1. \A r \in A : IsFiniteSet(upto(r)) /\ upto(r) \subseteq A
  BY FS_Subset
<1>2. Cardinality(A) \in Nat /\ \A r \in A : Cardinality(upto(r)) \in Nat /\ Cardinality(upto(r)) <= Cardinality(A)
  <2> HIDE DEF upto
  <2> QED
    BY <1>1, FS_CardinalityType, FS_Subset
<1> HIDE DEF upto
<1>3. D \subseteq Nat /\ D # {}
  BY <1>2
<1>4. PICK n \in D : \A m \in D : n <= m
  <2> HIDE DEF D
  <2> QED
    BY <1>3, LeastNat
<1>5. PICK r \in A : n = after(r)
  BY <1>4
<1>6. ASSUME NEW s \in A, ~(s.at <= r.at) PROVE FALSE
  <2>1. upto(r) \subseteq upto(s) /\ s \in upto(s) /\ s \notin upto(r)
    BY <1>6 DEF upto
  <2>2. Cardinality(upto(r)) < Cardinality(upto(s))
    <3>1. IsFiniteSet(upto(s)) /\ upto(r) # upto(s)
      BY <1>1, <2>1
    <3> QED
      BY <2>1, <3>1, FS_Subset, FS_CardinalityType
  <2>3. after(r) <= after(s)
    BY <1>4, <1>5
  <2> QED
    BY <1>2, <2>2, <2>3
<1> QED
  BY <1>6

\* With at least k rows there is a choice of the k latest.
LEMMA LatestRows ==
  ASSUME NEW A, IsFiniteSet(A), \A r \in A : r.at \in Nat, NEW k \in Nat, k <= Cardinality(A)
  PROVE  \E t \in SUBSET A : Cardinality(t) = k /\ \A r \in t, s \in A \ t : s.at <= r.at
<1> DEFINE S == {n \in Nat : n <= Cardinality(A) =>
                   \E t \in SUBSET A : Cardinality(t) = n /\ \A r \in t, s \in A \ t : s.at <= r.at}
<1>0. Cardinality(A) \in Nat
  BY FS_CardinalityType
<1>1. 0 \in S
  <2>1. Cardinality({}) = 0 /\ {} \in SUBSET A
    BY FS_EmptySet
  <2> QED
    BY <2>1
<1>2. ASSUME NEW n \in Nat, n \in S, n + 1 <= Cardinality(A)
      PROVE  \E t \in SUBSET A : Cardinality(t) = n + 1 /\ \A r \in t, s \in A \ t : s.at <= r.at
  <2>1. PICK t \in SUBSET A : Cardinality(t) = n /\ \A r \in t, s \in A \ t : s.at <= r.at
    BY <1>0, <1>2
  <2>2. IsFiniteSet(t) /\ IsFiniteSet(A \ t) /\ A \ t # {}
    <3>1. IsFiniteSet(t) /\ IsFiniteSet(A \ t)
      BY FS_Subset
    <3>2. t # A
      BY <1>0, <1>2, <2>1
    <3> QED
      BY <3>1, <3>2
  <2>3. PICK m \in A \ t : \A s \in A \ t : s.at <= m.at
    BY <2>2, LastRow
  <2>4. Cardinality(t \cup {m}) = n + 1
    BY <2>1, <2>2, <2>3, FS_AddElement
  <2>5. \A r \in t \cup {m}, s \in A \ (t \cup {m}) : s.at <= r.at
    BY <2>1, <2>3
  <2> QED
    BY <2>4, <2>5
<1>3. Nat \subseteq S
  <2>1. \A n \in Nat : n \in S => n + 1 \in S
    BY <1>2
  <2> HIDE DEF S
  <2> QED
    BY <1>1, <2>1, SetInduction
<1> QED
  BY <1>3

LEMMA Sums ==
  ASSUME NEW P
  PROVE  SQLite!SumOf(P) = SumOf(P) /\ Postgres!SumOf(P) = SumOf(P) /\ SQLiteB!SumOf(P) = SumOf(P) /\ PostgresB!SumOf(P) = SumOf(P)
<1>1. SQLite!SumOf(P) = SumOf(P)
  BY DEF SQLite!SumOf, SumOf, SQLite!FoldSet, FoldSet, SQLite!MapThenFoldSet, MapThenFoldSet
<1>2. Postgres!SumOf(P) = SumOf(P)
  BY DEF Postgres!SumOf, SumOf, Postgres!FoldSet, FoldSet, Postgres!MapThenFoldSet, MapThenFoldSet
<1>3. SQLiteB!SumOf(P) = SumOf(P)
  BY DEF SQLiteB!SumOf, SumOf, SQLiteB!FoldSet, FoldSet, SQLiteB!MapThenFoldSet, MapThenFoldSet
<1>4. PostgresB!SumOf(P) = SumOf(P)
  BY DEF PostgresB!SumOf, SumOf, PostgresB!FoldSet, FoldSet, PostgresB!MapThenFoldSet, MapThenFoldSet
<1> QED
  BY <1>1, <1>2, <1>3, <1>4

-----------------------------------------------------------------------------
(* What is read of listings.                                                *)

\* Rows chosen alike are twins again.
LEMMA SomeListings ==
  ASSUME NEW S, NEW T, ListingTwins(S, T), NEW A, NEW B, A \subseteq S, B \subseteq T,
         \A r \in S, q \in T : ListingTwin(r, q) => (r \in A <=> q \in B)
  PROVE  ListingTwins(A, B)
  BY DEF ListingTwins

\* Twins are shown alike.
LEMMA TwinShown ==
  ASSUME NEW r, NEW q, ListingTwin(r, q)
  PROVE  SQLite!Listing(r) = Postgres!Listing(q) /\ SQLite!Deal(r) = Postgres!Deal(q)
<1>1. SQLite!unscopedItemID(r.item) = Postgres!unscopedItemID(q.item)
  BY Zenon DEF ListingTwin, SQLite!unscopedItemID, Postgres!unscopedItemID
<1> HIDE DEF SQLite!unscopedItemID, Postgres!unscopedItemID
<1>2. SQLite!Listing(r) = Postgres!Listing(q)
  BY <1>1, Blanks DEF ListingTwin, SQLite!Listing, Postgres!Listing
<1>3. SQLite!Deal(r) = Postgres!Deal(q)
  BY <1>1 DEF ListingTwin, SQLite!Deal, Postgres!Deal
<1> QED
  BY <1>2, <1>3

LEMMA TwinsShown ==
  ASSUME NEW A, NEW B, ListingTwins(A, B)
  PROVE  /\ {SQLite!Listing(l) : l \in A} = {Postgres!Listing(l) : l \in B}
         /\ {SQLite!Deal(l) : l \in A} = {Postgres!Deal(l) : l \in B}
<1>1. \A r \in A, q \in B : ListingTwin(r, q) => SQLite!Listing(r) = Postgres!Listing(q) /\ SQLite!Deal(r) = Postgres!Deal(q)
  BY TwinShown
<1> HIDE DEF SQLite!Listing, Postgres!Listing, SQLite!Deal, Postgres!Deal, ListingTwin
<1> QED
  BY <1>1 DEF ListingTwins

LEMMA TwinsRead ==
  ASSUME NEW A, NEW B, ListingTwins(A, B)
  PROVE  /\ (A = {} <=> B = {})
         /\ {l.score : l \in A} = {l.score : l \in B}
         /\ {<<l.price, l.source>> : l \in A} = {<<l.price, l.source>> : l \in B}
         /\ ((\E l \in A : l.offered) <=> (\E l \in B : l.offered))
         /\ {l.market : l \in A} = {l.market : l \in B}
         /\ {l.outreach : l \in A} = {l.outreach : l \in B}
<1>1. (A = {} <=> B = {})
  BY DEF ListingTwins
<1>2. {l.score : l \in A} = {l.score : l \in B}
  BY DEF ListingTwins, ListingTwin
<1>3. {<<l.price, l.source>> : l \in A} = {<<l.price, l.source>> : l \in B}
  BY DEF ListingTwins, ListingTwin
<1>4. ((\E l \in A : l.offered) <=> (\E l \in B : l.offered))
  BY DEF ListingTwins, ListingTwin
<1>5. {l.market : l \in A} = {l.market : l \in B}
  BY DEF ListingTwins, ListingTwin
<1>6. {l.outreach : l \in A} = {l.outreach : l \in B}
  BY DEF ListingTwins, ListingTwin
<1> QED
  BY <1>1, <1>2, <1>3, <1>4, <1>5, <1>6

\* As many here as there.
LEMMA TwinsCount ==
  ASSUME NEW S, NEW T, ListingsPair(S, T), NEW A, NEW B, A \subseteq S, B \subseteq T, ListingTwins(A, B)
  PROVE  Cardinality(A) = Cardinality(B)
<1>1. IsFiniteSet(A) /\ IsFiniteSet(B)
  BY FS_Subset DEF ListingsPair, ListingsOK
<1>2. (\A r, s \in S : r.item = s.item => r = s) /\ (\A r, s \in T : r.item = s.item => r = s)
  BY DEF ListingsPair, ListingsOK, OnePerKey
<1>3. OneRowEach(A, "item") /\ OneRowEach(B, "item")
  BY <1>2 DEF OneRowEach
<1>4. (\A r \in A : \E q \in B : q["item"] = r["item"]) /\ (\A q \in B : \E r \in A : r["item"] = q["item"])
  BY DEF ListingTwins, ListingTwin
<1> QED
  BY <1>1, <1>3, <1>4, SameSize

\* The row of a key, in each store.
LEMMA KeyTwins ==
  ASSUME NEW s, NEW p, Paired(s, p), NEW u \in Users, NEW i
  PROVE  ListingTwins(SQLite!OfKey(s, u, i), Postgres!OfKey(p, u, i))
<1>1. ListingTwins(s.listings, p.listings)
  BY Pairs DEF ListingsPair
<1>2. SQLite!scopedItemID(u, i) = <<u, i>> /\ Postgres!scopedItemID(u, i) = <<u, i>>
  BY Scoped
<1>3. SQLite!OfKey(s, u, i) = {l \in s.listings : l.item = <<u, i>>} /\ Postgres!OfKey(p, u, i) = {l \in p.listings : l.item = <<u, i>>}
  BY <1>2, Zenon DEF SQLite!OfKey, Postgres!OfKey
<1> DEFINE A == {l \in s.listings : l.item = <<u, i>>}
           B == {l \in p.listings : l.item = <<u, i>>}
<1>4. \A r \in s.listings, q \in p.listings : ListingTwin(r, q) => (r \in A <=> q \in B)
  BY DEF ListingTwin
<1>5. A \subseteq s.listings /\ B \subseteq p.listings
  OBVIOUS
<1> HIDE DEF A, B
<1>6. ListingTwins(A, B)
  BY <1>1, <1>4, <1>5, SomeListings
<1> QED
  BY <1>3, <1>6 DEF A, B

\* The listings a user is shown.
LEMMA ShownTwins ==
  ASSUME NEW s, NEW p, Paired(s, p), NEW u \in Users
  PROVE  /\ ListingTwins(SQLite!Shown(s, u, 0), Postgres!Shown(p, u, 0))
         /\ SQLite!Shown(s, u, 0) \subseteq s.listings /\ Postgres!Shown(p, u, 0) \subseteq p.listings
<1>1. ListingTwins(s.listings, p.listings)
  BY Pairs DEF ListingsPair
<1>2. /\ \A l : SQLite!OfUser(l, u) <=> l.item[1] = u
      /\ \A l : Postgres!OfUser(l, u) <=> l.item[1] = u
  BY OwnedBy
<1> DEFINE A == SQLite!Shown(s, u, 0)
           B == Postgres!Shown(p, u, 0)
<1>3. /\ \A l : l \in A <=> l \in s.listings /\ l.item[1] = u /\ l.feedback # "dismissed"
      /\ \A l : l \in B <=> l \in p.listings /\ l.item[1] = u /\ l.feedback # "dismissed"
  BY <1>2 DEF SQLite!Shown, Postgres!Shown
<1> HIDE DEF A, B
<1>4. \A r \in s.listings, q \in p.listings : ListingTwin(r, q) => (r \in A <=> q \in B)
  BY <1>3 DEF ListingTwin
<1>5. A \subseteq s.listings /\ B \subseteq p.listings
  BY <1>3
<1>6. ListingTwins(A, B)
  BY <1>1, <1>4, <1>5, SomeListings
<1> QED
  BY <1>5, <1>6 DEF A, B

-----------------------------------------------------------------------------
LEMMA ListingReads ==
  ASSUME NEW s, NEW p, Paired(s, p), NEW u \in Users, NEW i
  PROVE  /\ SQLite!GetListing(s, u, i) = Postgres!GetListing(p, u, i)
         /\ SQLite!IsNew(s, u, i) = Postgres!IsNew(p, u, i)
         /\ SQLite!GetListingScore(s, u, i) = Postgres!GetListingScore(p, u, i)
         /\ SQLite!GetListingScoringState(s, u, i) = Postgres!GetListingScoringState(p, u, i)
         /\ SQLite!WasOffered(s, u, i) = Postgres!WasOffered(p, u, i)
<1> DEFINE A == SQLite!OfKey(s, u, i)
           B == Postgres!OfKey(p, u, i)
<1>1. ListingTwins(A, B)
  BY KeyTwins
<1>2. /\ SQLite!GetListing(s, u, i) = {SQLite!Listing(l) : l \in A} /\ Postgres!GetListing(p, u, i) = {Postgres!Listing(l) : l \in B}
      /\ SQLite!IsNew(s, u, i) = (A = {}) /\ Postgres!IsNew(p, u, i) = (B = {})
      /\ SQLite!GetListingScore(s, u, i) = {l.score : l \in A} /\ Postgres!GetListingScore(p, u, i) = {l.score : l \in B}
      /\ SQLite!GetListingScoringState(s, u, i) = {<<l.price, l.source>> : l \in A}
      /\ Postgres!GetListingScoringState(p, u, i) = {<<l.price, l.source>> : l \in B}
      /\ SQLite!WasOffered(s, u, i) = (\E l \in A : l.offered) /\ Postgres!WasOffered(p, u, i) = (\E l \in B : l.offered)
  BY Zenon DEF SQLite!GetListing, Postgres!GetListing, SQLite!IsNew, Postgres!IsNew, SQLite!GetListingScore,
    Postgres!GetListingScore, SQLite!GetListingScoringState, Postgres!GetListingScoringState, SQLite!WasOffered, Postgres!WasOffered
<1> HIDE DEF A, B
<1>3. {SQLite!Listing(l) : l \in A} = {Postgres!Listing(l) : l \in B}
  BY <1>1, TwinsShown
<1>4. (A = {} <=> B = {}) /\ ((\E l \in A : l.offered) <=> (\E l \in B : l.offered))
  BY <1>1, TwinsRead, Zenon
<1>5. {l.score : l \in A} = {l.score : l \in B}
  BY <1>1, TwinsRead, Zenon
<1>6. {<<l.price, l.source>> : l \in A} = {<<l.price, l.source>> : l \in B}
  BY <1>1, TwinsRead, Zenon
<1> QED
  BY <1>2, <1>3, <1>4, <1>5, <1>6, Zenon

\* An entry of the shortlist, with what the user's listing says.
LEMMA EntryRead ==
  ASSUME NEW s, NEW p, Paired(s, p), NEW e, e.user \in Users
  PROVE  SQLite!ShortlistEntry(s, e) = Postgres!ShortlistEntry(p, e)
<1> DEFINE A == {k \in s.listings : k.item = <<e.user, e.item>>}
           B == {k \in p.listings : k.item = <<e.user, e.item>>}
<1>1. ListingTwins(A, B)
  <2>1. SQLite!OfKey(s, e.user, e.item) = A /\ Postgres!OfKey(p, e.user, e.item) = B
    BY Scoped, Zenon DEF SQLite!OfKey, Postgres!OfKey
  <2>2. \A u \in Users : \A i : ListingTwins(SQLite!OfKey(s, u, i), Postgres!OfKey(p, u, i))
    BY KeyTwins
  <2> QED
    BY <2>1, <2>2, Zenon
<1>2. (A = {} <=> B = {}) /\ {l.market : l \in A} = {l.market : l \in B} /\ {l.outreach : l \in A} = {l.outreach : l \in B}
  <2> HIDE DEF A, B
  <2> QED
    BY <1>1, TwinsRead, Zenon
<1>3. /\ SQLite!ShortlistEntry(s, e) = [entry |-> e, market |-> {k.market : k \in A},
                                        outreach |-> IF A = {} THEN {"none"} ELSE {k.outreach : k \in A}]
      /\ Postgres!ShortlistEntry(p, e) = [entry |-> e, market |-> {k.market : k \in B},
                                          outreach |-> IF B = {} THEN {"none"} ELSE {k.outreach : k \in B}]
  BY Zenon DEF SQLite!ShortlistEntry, Postgres!ShortlistEntry
<1> HIDE DEF A, B
<1> QED
  BY <1>2, <1>3, Zenon

LEMMA ShortlistReads ==
  ASSUME NEW s, NEW p, Paired(s, p), NEW u \in Users, NEW i
  PROVE  /\ SQLite!GetShortlist(s, u) = Postgres!GetShortlist(p, u)
         /\ SQLite!GetShortlistEntry(s, u, i) = Postgres!GetShortlistEntry(p, u, i)
<1>1. s.shortlist = p.shortlist
  BY Pairs
<1>2. \A e \in s.shortlist : e.user = u => SQLite!ShortlistEntry(s, e) = Postgres!ShortlistEntry(p, e)
  BY EntryRead
<1> HIDE DEF SQLite!ShortlistEntry, Postgres!ShortlistEntry
<1>3. SQLite!GetShortlist(s, u) = Postgres!GetShortlist(p, u)
  BY <1>1, <1>2 DEF SQLite!GetShortlist, Postgres!GetShortlist
<1>4. SQLite!GetShortlistEntry(s, u, i) = Postgres!GetShortlistEntry(p, u, i)
  BY <1>1, <1>2 DEF SQLite!GetShortlistEntry, Postgres!GetShortlistEntry
<1> QED
  BY <1>3, <1>4

LEMMA ListReads ==
  ASSUME NEW s, NEW p, Paired(s, p), NEW u \in Users
  PROVE  /\ SQLite!ListRecentListings(s, u, 0) = Postgres!ListRecentListings(p, u, 0)
         /\ SQLite!GetApprovedComparables(s, u, 0) = Postgres!GetApprovedComparables(p, u, 0)
         /\ \A text, i : SQLite!GetComparableDeals(s, u, text, i) = Postgres!GetComparableDeals(p, u, text, i)
<1> DEFINE A == SQLite!Shown(s, u, 0)
           B == Postgres!Shown(p, u, 0)
<1>1. ListingTwins(A, B)
  BY ShownTwins
<1> DEFINE A1 == {k \in A : k.feedback = "approved" /\ k.price > 0}
           B1 == {k \in B : k.feedback = "approved" /\ k.price > 0}
           A2(text, i) == {k \in A : k.query = text /\ k.price > 0 /\ k.item # <<u, i>>}
           B2(text, i) == {k \in B : k.query = text /\ k.price > 0 /\ k.item # <<u, i>>}
<1>2. \A i : SQLite!scopedItemID(u, i) = <<u, i>> /\ Postgres!scopedItemID(u, i) = <<u, i>>
  BY Scoped
<1>3. /\ SQLite!ListRecentListings(s, u, 0) = {SQLite!Listing(l) : l \in A}
      /\ Postgres!ListRecentListings(p, u, 0) = {Postgres!Listing(l) : l \in B}
      /\ SQLite!GetApprovedComparables(s, u, 0) = {SQLite!Deal(l) : l \in A1}
      /\ Postgres!GetApprovedComparables(p, u, 0) = {Postgres!Deal(l) : l \in B1}
  BY Zenon DEF SQLite!ListRecentListings, Postgres!ListRecentListings, SQLite!GetApprovedComparables, Postgres!GetApprovedComparables
<1>4. ASSUME NEW text, NEW i
      PROVE  /\ SQLite!GetComparableDeals(s, u, text, i) = {SQLite!Deal(l) : l \in A2(text, i)}
             /\ Postgres!GetComparableDeals(p, u, text, i) = {Postgres!Deal(l) : l \in B2(text, i)}
  BY <1>2, Zenon DEF SQLite!GetComparableDeals, Postgres!GetComparableDeals
<1> HIDE DEF A, B
<1>5. ListingTwins(A1, B1)
  <2>1. \A r \in A, q \in B : ListingTwin(r, q) => (r \in A1 <=> q \in B1)
    BY DEF ListingTwin
  <2>2. A1 \subseteq A /\ B1 \subseteq B
    OBVIOUS
  <2> HIDE DEF A1, B1
  <2> QED
    BY <1>1, <2>1, <2>2, SomeListings
<1>6. ASSUME NEW text, NEW i PROVE ListingTwins(A2(text, i), B2(text, i))
  <2> DEFINE C == A2(text, i)
             D == B2(text, i)
  <2>1. \A r \in A, q \in B : ListingTwin(r, q) => (r \in C <=> q \in D)
    BY DEF ListingTwin
  <2>2. C \subseteq A /\ D \subseteq B
    OBVIOUS
  <2> HIDE DEF C, D
  <2>3. ListingTwins(C, D)
    BY <1>1, <2>1, <2>2, SomeListings
  <2> QED
    BY <2>3 DEF C, D
<1> HIDE DEF A1, B1, A2, B2
<1>7. {SQLite!Listing(l) : l \in A} = {Postgres!Listing(l) : l \in B}
  BY <1>1, TwinsShown
<1>8. {SQLite!Deal(l) : l \in A1} = {Postgres!Deal(l) : l \in B1}
  BY <1>5, TwinsShown
<1>9. ASSUME NEW text, NEW i PROVE SQLite!GetComparableDeals(s, u, text, i) = Postgres!GetComparableDeals(p, u, text, i)
  <2>1. {SQLite!Deal(l) : l \in A2(text, i)} = {Postgres!Deal(l) : l \in B2(text, i)}
    BY <1>6, TwinsShown
  <2> QED
    BY <1>4, <2>1
<1> QED
  BY <1>3, <1>7, <1>8, <1>9, Zenon

\* The instances count as this module does.
LEMMA Sizes == \A S : SQLite!Cardinality(S) = Cardinality(S) /\ Postgres!Cardinality(S) = Cardinality(S)
  BY DEF SQLite!Cardinality, Postgres!Cardinality, Cardinality

-----------------------------------------------------------------------------
(* Pages.                                                                   *)

\* Time halved keeps its order.
LEMMA Halves ==
  ASSUME NEW m \in Nat, NEW n \in Nat, m <= n
  PROVE  m \div 2 <= n \div 2
  OBVIOUS

\* Postgres tells two rows apart by time only where SQLite does.
SameSecondSameTime(x, y, r, q) == y.seen \in Nat /\ q.seen \in Nat /\ (x.seen = r.seen => y.seen = q.seen)

LEMMA OrdersAlike ==
  ASSUME NEW x, NEW y, ListingTwin(x, y), NEW r, NEW q, ListingTwin(r, q), NEW sort \in Sorts,
         sort # "newest" \/ SameSecondSameTime(x, y, r, q)
  PROVE  SQLite!sqliteOrderBy(sort, x, r) <=> Postgres!postgresOrderBy(sort, y, q)
<1>1. /\ x.item = y.item /\ x.score = y.score /\ x.offer = y.offer
      /\ r.item = q.item /\ r.score = q.score /\ r.offer = q.offer
  BY DEF ListingTwin
<1>2. CASE sort = "score"
  BY <1>1, <1>2 DEF SQLite!sqliteOrderBy, Postgres!postgresOrderBy
<1>3. CASE sort = "price_asc"
  BY <1>1, <1>3 DEF SQLite!sqliteOrderBy, Postgres!postgresOrderBy
<1>4. CASE sort = "price_desc"
  BY <1>1, <1>4 DEF SQLite!sqliteOrderBy, Postgres!postgresOrderBy
<1>5. CASE sort = "newest"
  <2>1. x.seen = y.seen \div 2 /\ r.seen = q.seen \div 2
    BY DEF ListingTwin
  <2>2. y.seen \in Nat /\ q.seen \in Nat /\ (x.seen = r.seen => y.seen = q.seen)
    BY <1>5 DEF SameSecondSameTime
  <2>3. (x.seen > r.seen <=> y.seen > q.seen) /\ (x.seen = r.seen <=> y.seen = q.seen)
    BY <2>1, <2>2, Halves
  <2>4. /\ SQLite!sqliteOrderBy(sort, x, r) <=> x.seen > r.seen \/ (x.seen = r.seen /\ x.item[2] < r.item[2])
        /\ Postgres!postgresOrderBy(sort, y, q) <=> y.seen > q.seen \/ (y.seen = q.seen /\ y.item[2] < q.item[2])
    BY <1>5 DEF SQLite!sqliteOrderBy, Postgres!postgresOrderBy
  <2> QED
    BY <1>1, <2>3, <2>4
<1> QED
  BY <1>2, <1>3, <1>4, <1>5 DEF Sorts

\* In any order as many listings; and the same page, but with the newest first
\* only if the times of the listings shown differ in SQLite.
SamePages(s, p, u, sort, f, page) ==
  LET one == SQLite!ListRecentListingsPaginated(s, u, 1, page, 0, f)
      other == Postgres!ListRecentListingsPaginated(p, u, 1, page, 0, f)
  IN /\ one.total = other.total
     /\ sort # "newest" \/ (\A x, r \in SQLite!Shown(s, u, 0) : x.seen = r.seen => x = r) => one.page = other.page

LEMMA PageReads ==
  ASSUME NEW s, NEW p, Paired(s, p), NEW u \in Users, NEW sort \in Sorts, NEW f \in Filters(sort), NEW page
  PROVE  SamePages(s, p, u, sort, f, page)
<1> DEFINE A == SQLite!Filtered(SQLite!Shown(s, u, 0), f)
           B == Postgres!Filtered(Postgres!Shown(p, u, 0), f)
<1>1. A \subseteq s.listings /\ B \subseteq p.listings
  BY ShownTwins DEF SQLite!Filtered, Postgres!Filtered
<1>2. ListingTwins(A, B)
  <2> DEFINE S == SQLite!Shown(s, u, 0)
             T == Postgres!Shown(p, u, 0)
  <2>1. ListingTwins(S, T)
    BY ShownTwins
  <2> HIDE DEF S, T
  <2>2. /\ \A l : l \in A <=> l \in S /\ f.market \in {Blank, l.market} /\ (f.score > 0 => l.score >= f.score)
        /\ \A l : l \in B <=> l \in T /\ f.market \in {Blank, l.market} /\ (f.score > 0 => l.score >= f.score)
    BY Blanks DEF SQLite!Filtered, Postgres!Filtered, S, T
  <2> HIDE DEF A, B
  <2>3. \A r \in S, q \in T : ListingTwin(r, q) => (r \in A <=> q \in B)
    BY <2>2 DEF ListingTwin
  <2>4. A \subseteq S /\ B \subseteq T
    BY <2>2
  <2> QED
    BY <2>1, <2>3, <2>4, SomeListings
<1>3. f.sort = sort
  BY DEF Filters
<1> DEFINE before(r) == {q \in A : SQLite!sqliteOrderBy(sort, q, r)}
           ahead(r) == {q \in B : Postgres!postgresOrderBy(sort, q, r)}
           n(r) == SQLite!Cardinality(before(r))
           m(r) == Postgres!Cardinality(ahead(r))
           P == {<<n(r), r>> : r \in {q \in A : n(q) \in page..(page + 1 - 1)}}
           Q == {<<m(r), r>> : r \in {q \in B : m(q) \in page..(page + 1 - 1)}}
           V == {<<at[1], SQLite!Listing(at[2])>> : at \in P}
           W == {<<at[1], Postgres!Listing(at[2])>> : at \in Q}
<1>4. /\ SQLite!ListRecentListingsPaginated(s, u, 1, page, 0, f) = [total |-> SQLite!Cardinality(A), page |-> V]
      /\ Postgres!ListRecentListingsPaginated(p, u, 1, page, 0, f) = [total |-> Postgres!Cardinality(B), page |-> W]
  <2>1. ~(1 <= 0)
    OBVIOUS
  <2>2. SQLite!ListRecentListingsPaginated(s, u, 1, page, 0, f) = [total |-> SQLite!Cardinality(A), page |-> V]
    BY <1>3, <2>1, Zenon DEF SQLite!ListRecentListingsPaginated, SQLite!Paged
  <2>3. Postgres!ListRecentListingsPaginated(p, u, 1, page, 0, f) = [total |-> Postgres!Cardinality(B), page |-> W]
    BY <1>3, <2>1, Zenon DEF Postgres!ListRecentListingsPaginated, Postgres!Paged
  <2> QED
    BY <2>2, <2>3
<1> HIDE DEF A, B
<1>5. ListingsPair(s.listings, p.listings)
  BY Pairs
<1>6. SQLite!Cardinality(A) = Postgres!Cardinality(B)
  BY <1>1, <1>2, <1>5, TwinsCount, Sizes
<1> DEFINE Clear == sort # "newest" \/ \A x, r \in SQLite!Shown(s, u, 0) : x.seen = r.seen => x = r
<1>0. ASSUME Clear, NEW x \in A, NEW y \in B, ListingTwin(x, y), NEW r \in A, NEW q \in B, ListingTwin(r, q)
      PROVE  sort # "newest" \/ SameSecondSameTime(x, y, r, q)
  <2>1. y.seen \in Nat /\ q.seen \in Nat /\ (y.item = q.item => y = q)
    BY <1>1, <1>5 DEF ListingsPair, ListingsOK, ListingRow, OnePerKey
  <2>2. A \subseteq SQLite!Shown(s, u, 0)
    BY DEF A, SQLite!Filtered
  <2>4. CASE sort = "newest"
    <3>1. x.seen = r.seen => x = r
      BY <1>0, <2>2, <2>4
    <3>2. x = r => y.item = q.item
      BY <1>0 DEF ListingTwin
    <3> QED
      BY <2>1, <3>1, <3>2 DEF SameSecondSameTime
  <2> QED
    BY <2>4
<1> HIDE DEF Clear
<1>7. ASSUME Clear, NEW r \in A, NEW q \in B, ListingTwin(r, q) PROVE n(r) = m(q)
  <2>1. \A x \in A, y \in B : ListingTwin(x, y) => (x \in before(r) <=> y \in ahead(q))
    BY <1>0, <1>7, OrdersAlike
  <2>2. before(r) \subseteq A /\ ahead(q) \subseteq B
    OBVIOUS
  <2> DEFINE C == before(r)
             D == ahead(q)
  <2> HIDE DEF before, ahead
  <2>3. ListingTwins(C, D)
    <3> HIDE DEF C, D
    <3> QED
      BY <1>2, <2>1, <2>2, SomeListings DEF C, D
  <2>4. C \subseteq s.listings /\ D \subseteq p.listings
    BY <1>1, <2>2
  <2> HIDE DEF C, D
  <2>5. Cardinality(C) = Cardinality(D)
    BY <1>5, <2>3, <2>4, TwinsCount
  <2> QED
    BY <2>5, Sizes DEF C, D
<1>8. ASSUME Clear PROVE V = W
  <2>1. \A r \in A, q \in B : ListingTwin(r, q) => n(r) = m(q) /\ SQLite!Listing(r) = Postgres!Listing(q)
    BY <1>7, <1>8, TwinShown
  <2>2. /\ V = {<<n(r), SQLite!Listing(r)>> : r \in {q \in A : n(q) \in page..(page + 1 - 1)}}
        /\ W = {<<m(r), Postgres!Listing(r)>> : r \in {q \in B : m(q) \in page..(page + 1 - 1)}}
    <3> DEFINE X == {q \in A : n(q) \in page..(page + 1 - 1)}
               Y == {q \in B : m(q) \in page..(page + 1 - 1)}
    <3>1. P = {<<n(r), r>> : r \in X} /\ Q = {<<m(r), r>> : r \in Y}
      OBVIOUS
    <3>2. /\ V = {<<at[1], SQLite!Listing(at[2])>> : at \in P}
          /\ W = {<<at[1], Postgres!Listing(at[2])>> : at \in Q}
      OBVIOUS
    <3> HIDE DEF P, Q, V, W, X, Y, n, m, SQLite!Listing, Postgres!Listing
    <3>3. \A r : LET at == <<n(r), r>> IN at[1] = n(r) /\ at[2] = r
      OBVIOUS
    <3>4. \A r : LET at == <<m(r), r>> IN at[1] = m(r) /\ at[2] = r
      OBVIOUS
    <3>5. V = {<<n(r), SQLite!Listing(r)>> : r \in X}
      <4>1. ASSUME NEW x \in V PROVE \E r \in X : x = <<n(r), SQLite!Listing(r)>>
        <5>1. PICK at \in P : x = <<at[1], SQLite!Listing(at[2])>>
          BY <3>2, <4>1
        <5>2. PICK r \in X : at = <<n(r), r>>
          BY <3>1
        <5>3. at[1] = n(r) /\ at[2] = r
          BY <3>3, <5>2, Zenon
        <5> QED
          BY <5>1, <5>3, Zenon
      <4>2. ASSUME NEW r \in X PROVE <<n(r), SQLite!Listing(r)>> \in V
        <5>1. PICK at : at = <<n(r), r>>
          OBVIOUS
        <5>2. at \in P
          BY <3>1, <5>1
        <5>3. <<at[1], SQLite!Listing(at[2])>> \in V
          BY <3>2, <5>2
        <5>4. at[1] = n(r) /\ at[2] = r
          BY <3>3, <5>1, Zenon
        <5> QED
          BY <5>3, <5>4, Zenon
      <4> QED
        BY <4>1, <4>2
    <3>6. W = {<<m(r), Postgres!Listing(r)>> : r \in Y}
      <4>1. ASSUME NEW x \in W PROVE \E r \in Y : x = <<m(r), Postgres!Listing(r)>>
        <5>1. PICK at \in Q : x = <<at[1], Postgres!Listing(at[2])>>
          BY <3>2, <4>1
        <5>2. PICK r \in Y : at = <<m(r), r>>
          BY <3>1
        <5>3. at[1] = m(r) /\ at[2] = r
          BY <3>4, <5>2, Zenon
        <5> QED
          BY <5>1, <5>3, Zenon
      <4>2. ASSUME NEW r \in Y PROVE <<m(r), Postgres!Listing(r)>> \in W
        <5>1. PICK at : at = <<m(r), r>>
          OBVIOUS
        <5>2. at \in Q
          BY <3>1, <5>1
        <5>3. <<at[1], Postgres!Listing(at[2])>> \in W
          BY <3>2, <5>2
        <5>4. at[1] = m(r) /\ at[2] = r
          BY <3>4, <5>1, Zenon
        <5> QED
          BY <5>3, <5>4, Zenon
      <4> QED
        BY <4>1, <4>2
    <3> QED
      BY <3>5, <3>6 DEF X, Y
  <2>3. (\A r \in A : \E q \in B : ListingTwin(r, q)) /\ (\A q \in B : \E r \in A : ListingTwin(r, q))
    BY <1>2 DEF ListingTwins
  <2> HIDE DEF n, m, V, W, SQLite!Listing, Postgres!Listing, ListingTwin
  <2>4. ASSUME NEW x \in V PROVE x \in W
    <3>1. PICK r \in A : n(r) \in page..(page + 1 - 1) /\ x = <<n(r), SQLite!Listing(r)>>
      BY <2>2, <2>4
    <3>2. PICK q \in B : ListingTwin(r, q)
      BY <2>3
    <3>3. n(r) = m(q) /\ SQLite!Listing(r) = Postgres!Listing(q)
      BY <2>1, <3>2
    <3> QED
      BY <2>2, <3>1, <3>3
  <2>5. ASSUME NEW x \in W PROVE x \in V
    <3>1. PICK q \in B : m(q) \in page..(page + 1 - 1) /\ x = <<m(q), Postgres!Listing(q)>>
      BY <2>2, <2>5
    <3>2. PICK r \in A : ListingTwin(r, q)
      BY <2>3
    <3>3. n(r) = m(q) /\ SQLite!Listing(r) = Postgres!Listing(q)
      BY <2>1, <3>2
    <3> QED
      BY <2>2, <3>1, <3>3
  <2> QED
    BY <2>4, <2>5
<1> HIDE DEF V, W
<1>9. /\ SQLite!ListRecentListingsPaginated(s, u, 1, page, 0, f).total = Postgres!ListRecentListingsPaginated(p, u, 1, page, 0, f).total
      /\ SQLite!ListRecentListingsPaginated(s, u, 1, page, 0, f).page = V
      /\ Postgres!ListRecentListingsPaginated(p, u, 1, page, 0, f).page = W
  BY <1>4, <1>6
<1>10. Clear => V = W
  BY <1>8
<1> QED
  BY <1>9, <1>10, Zenon DEF Clear, SamePages

-----------------------------------------------------------------------------
(* Missions and searches.                                                   *)

LEMMA TwinMission ==
  ASSUME NEW r, NEW q, MissionTwin(r, q)
  PROVE  SQLite!Mission(r) = Postgres!Mission(q)
  BY Blanks DEF MissionTwin, SQLite!Mission, Postgres!Mission

LEMMA MissionReads ==
  ASSUME NEW s, NEW p, Paired(s, p), NEW u \in Users
  PROVE  SQLite!ListMissions(s, u) = Postgres!ListMissions(p, u)
<1>1. MissionsPair(s.missions, p.missions, s.ids) /\ ListingsPair(s.listings, p.listings)
  BY Pairs
<1>2. MissionTwins(s.missions, p.missions) /\ ListingTwins(s.listings, p.listings)
  BY <1>1 DEF MissionsPair, ListingsPair
<1> DEFINE S == {m \in s.missions : m.user = u}
           T == {m \in p.missions : m.user = u}
           n(r) == SQLite!Cardinality(SQLite!MatchesOf(s, r))
           k(r) == Postgres!Cardinality(Postgres!MatchesOf(p, r))
           f(r) == [mission |-> SQLite!Mission(r), matches |-> n(r)]
           g(r) == [mission |-> Postgres!Mission(r), matches |-> k(r)]
<1>3. ASSUME NEW r \in S, NEW q \in T, MissionTwin(r, q) PROVE f(r) = g(q)
  <2> DEFINE A == SQLite!MatchesOf(s, r)
             B == Postgres!MatchesOf(p, q)
  <2>1. r.user = u /\ q.user = u /\ r.id = q.id
    BY <1>3 DEF MissionTwin
  <2>2. (\A l : SQLite!OfUser(l, u) <=> l.item[1] = u) /\ (\A l : Postgres!OfUser(l, u) <=> l.item[1] = u)
    BY OwnedBy
  <2>3. /\ \A l : l \in A <=> l \in s.listings /\ l.mission = r.id /\ l.item[1] = u
        /\ \A l : l \in B <=> l \in p.listings /\ l.mission = r.id /\ l.item[1] = u
    BY <2>1, <2>2 DEF SQLite!MatchesOf, Postgres!MatchesOf
  <2> HIDE DEF A, B
  <2>4. \A x \in s.listings, y \in p.listings : ListingTwin(x, y) => (x \in A <=> y \in B)
    BY <2>3 DEF ListingTwin
  <2>5. A \subseteq s.listings /\ B \subseteq p.listings
    BY <2>3
  <2>6. ListingTwins(A, B)
    BY <1>2, <2>4, <2>5, SomeListings
  <2>7. Cardinality(A) = Cardinality(B)
    BY <1>1, <2>5, <2>6, TwinsCount
  <2>8. n(r) = k(q)
    BY <2>7, Sizes DEF A, B
  <2>9. SQLite!Mission(r) = Postgres!Mission(q)
    BY <1>3, TwinMission
  <2> HIDE DEF n, k, SQLite!Mission, Postgres!Mission
  <2> QED
    BY <2>8, <2>9
<1>4. SQLite!ListMissions(s, u) = {f(r) : r \in S} /\ Postgres!ListMissions(p, u) = {g(q) : q \in T}
  BY Zenon DEF SQLite!ListMissions, Postgres!ListMissions
<1>5. (\A r \in S : \E q \in T : MissionTwin(r, q)) /\ (\A q \in T : \E r \in S : MissionTwin(r, q))
  BY <1>2 DEF MissionTwins, MissionTwin
<1> HIDE DEF f, g, S, T, MissionTwin
<1> QED
  BY <1>3, <1>4, <1>5

LEMMA GetMissionReads ==
  ASSUME NEW s, NEW p, Paired(s, p), NEW id
  PROVE  SQLite!GetMission(s, id) = Postgres!GetMission(p, id)
<1> DEFINE S == {m \in s.missions : m.id = id}
           T == {m \in p.missions : m.id = id}
<1>1. MissionTwins(s.missions, p.missions)
  BY Pairs DEF MissionsPair
<1>2. (\A r \in S : \E q \in T : MissionTwin(r, q)) /\ (\A q \in T : \E r \in S : MissionTwin(r, q))
  BY <1>1 DEF MissionTwins, MissionTwin
<1>3. \A r, q : MissionTwin(r, q) => SQLite!Mission(r) = Postgres!Mission(q)
  BY TwinMission
<1>4. SQLite!GetMission(s, id) = {SQLite!Mission(r) : r \in S} /\ Postgres!GetMission(p, id) = {Postgres!Mission(q) : q \in T}
  BY Zenon DEF SQLite!GetMission, Postgres!GetMission
<1> HIDE DEF S, T, MissionTwin, SQLite!Mission, Postgres!Mission
<1> QED
  BY <1>2, <1>3, <1>4

LEMMA ActiveMission ==
  ASSUME NEW s, NEW p, Paired(s, p), NEW u
  PROVE  /\ Postgres!GetActiveMission(p, u) \subseteq SQLite!GetActiveMission(s, u)
         /\ (SQLite!GetActiveMission(s, u) = {}) = (Postgres!GetActiveMission(p, u) = {})
<1>1. MissionsOK(s.missions, s.ids) /\ MissionsOK(p.missions, s.ids) /\ MissionTwins(s.missions, p.missions)
  BY Pairs DEF MissionsPair
<1> DEFINE S == {m \in s.missions : m.user = u /\ m.active /\ m.status = "active"}
           T == {m \in p.missions : m.user = u /\ m.active /\ m.status = "active"}
<1>2. /\ SQLite!GetActiveMission(s, u) = {SQLite!Mission(r) : r \in {x \in S : \A y \in S : y.at <= x.at}}
      /\ Postgres!GetActiveMission(p, u) = {Postgres!Mission(r) : r \in {x \in T : \A y \in T : y.at <= x.at}}
  BY Zenon DEF SQLite!GetActiveMission, Postgres!GetActiveMission, SQLite!Latest, Postgres!Latest
<1>3. IsFiniteSet(S) /\ IsFiniteSet(T)
  BY <1>1, FS_Subset DEF MissionsOK
<1>4. (\A r \in S : r.at \in Nat) /\ (\A q \in T : q.at \in Nat)
  BY <1>1 DEF MissionsOK, MissionRow
<1>5. (\A r \in S : \E q \in T : MissionTwin(r, q)) /\ (\A q \in T : \E r \in S : MissionTwin(r, q))
  BY <1>1 DEF MissionTwins, MissionTwin
<1> HIDE DEF S, T
<1> HIDE DEF SQLite!Mission, Postgres!Mission
<1>6. ASSUME NEW q \in T, \A y \in T : y.at <= q.at
      PROVE  Postgres!Mission(q) \in SQLite!GetActiveMission(s, u)
  <2>1. PICK r \in S : MissionTwin(r, q)
    BY <1>5
  <2>2. ASSUME NEW x \in S PROVE x.at <= r.at
    <3>1. PICK y \in T : MissionTwin(x, y)
      BY <1>5
    <3>2. y.at <= q.at /\ y.at \in Nat /\ q.at \in Nat
      BY <1>4, <1>6
    <3>3. x.at = y.at \div 2 /\ r.at = q.at \div 2
      BY <2>1, <3>1 DEF MissionTwin
    <3> QED
      BY <3>2, <3>3, Halves
  <2>3. SQLite!Mission(r) = Postgres!Mission(q)
    BY <2>1, TwinMission
  <2> QED
    BY <1>2, <2>2, <2>3
<1>7. Postgres!GetActiveMission(p, u) \subseteq SQLite!GetActiveMission(s, u)
  BY <1>2, <1>6
<1>8. S # {} => SQLite!GetActiveMission(s, u) # {}
  <2> SUFFICES ASSUME S # {} PROVE SQLite!GetActiveMission(s, u) # {}
    OBVIOUS
  <2>1. PICK r \in S : \A y \in S : y.at <= r.at
    BY <1>3, <1>4, LastRow
  <2> QED
    BY <1>2, <2>1
<1>9. T # {} => Postgres!GetActiveMission(p, u) # {}
  <2> SUFFICES ASSUME T # {} PROVE Postgres!GetActiveMission(p, u) # {}
    OBVIOUS
  <2>1. PICK r \in T : \A y \in T : y.at <= r.at
    BY <1>3, <1>4, LastRow
  <2> QED
    BY <1>2, <2>1
<1>10. (S = {}) <=> (T = {})
  BY <1>5
<1>11. (S = {} => SQLite!GetActiveMission(s, u) = {}) /\ (T = {} => Postgres!GetActiveMission(p, u) = {})
  BY <1>2
<1> QED
  BY <1>7, <1>8, <1>9, <1>10, <1>11

\* A search as it is read back, but for its next run.
LEMMA TwinSearch ==
  ASSUME NEW r, NEW q, SearchTwin(r, q)
  PROVE  [SQLite!SearchSpec(r) EXCEPT !.next = 0] = [Postgres!SearchSpec(q) EXCEPT !.next = 0]
<1>1. SQLite!NormalizedMarket(r.market) = Postgres!NormalizedMarket(q.market)
  BY Markets DEF SearchTwin
<1> HIDE DEF SQLite!NormalizedMarket, Postgres!NormalizedMarket
<1> QED
  BY <1>1 DEF SearchTwin, SQLite!SearchSpec, Postgres!SearchSpec

LEMMA TwinSearches ==
  ASSUME NEW A, NEW B, SearchTwins(A, B)
  PROVE  Unscheduled({SQLite!SearchSpec(r) : r \in A}) = Unscheduled({Postgres!SearchSpec(q) : q \in B})
<1> DEFINE f(r) == [SQLite!SearchSpec(r) EXCEPT !.next = 0]
           g(q) == [Postgres!SearchSpec(q) EXCEPT !.next = 0]
<1>1. \A r \in A, q \in B : SearchTwin(r, q) => f(r) = g(q)
  BY TwinSearch
<1>2. /\ Unscheduled({SQLite!SearchSpec(r) : r \in A}) = {f(r) : r \in A}
      /\ Unscheduled({Postgres!SearchSpec(q) : q \in B}) = {g(q) : q \in B}
  <2> HIDE DEF SQLite!SearchSpec, Postgres!SearchSpec
  <2> QED
    BY DEF Unscheduled
<1>3. (\A r \in A : \E q \in B : SearchTwin(r, q)) /\ (\A q \in B : \E r \in A : SearchTwin(r, q))
  BY DEF SearchTwins
<1> HIDE DEF f, g, SearchTwin
<1>4. {f(r) : r \in A} = {g(q) : q \in B}
  BY <1>1, <1>3
<1> QED
  BY <1>2, <1>4, Zenon

LEMMA SearchReads ==
  ASSUME NEW s, NEW p, Paired(s, p), NEW u
  PROVE  /\ Unscheduled(SQLite!GetSearchConfigs(s, u)) = Unscheduled(Postgres!GetSearchConfigs(p, u))
         /\ Unscheduled(SQLite!GetAllEnabledSearchConfigs(s)) = Unscheduled(Postgres!GetAllEnabledSearchConfigs(p))
         /\ SQLite!CountSearchConfigs(s, u) = Postgres!CountSearchConfigs(p, u)
         /\ SQLite!CountActiveMissions(s, u) = Postgres!CountActiveMissions(p, u)
         /\ \A id : Unscheduled(SQLite!GetSearchConfigByID(s, id)) = Unscheduled(Postgres!GetSearchConfigByID(p, id))
<1>1. SearchesOK(s.searches, s.ids) /\ SearchesOK(p.searches, s.ids) /\ SearchTwins(s.searches, p.searches)
  BY Pairs DEF SearchesPair
<1>2. MissionsOK(s.missions, s.ids) /\ MissionsOK(p.missions, s.ids) /\ MissionTwins(s.missions, p.missions)
  BY Pairs DEF MissionsPair
<1>3. /\ SearchTwins({x \in s.searches : x.user = u}, {x \in p.searches : x.user = u})
      /\ SearchTwins({x \in s.searches : x.enabled}, {x \in p.searches : x.enabled})
  BY <1>1 DEF SearchTwins, SearchTwin
<1>4. Unscheduled(SQLite!GetSearchConfigs(s, u)) = Unscheduled(Postgres!GetSearchConfigs(p, u))
  BY <1>3, TwinSearches, Zenon DEF SQLite!GetSearchConfigs, Postgres!GetSearchConfigs
<1>5. Unscheduled(SQLite!GetAllEnabledSearchConfigs(s)) = Unscheduled(Postgres!GetAllEnabledSearchConfigs(p))
  BY <1>3, TwinSearches, Zenon DEF SQLite!GetAllEnabledSearchConfigs, Postgres!GetAllEnabledSearchConfigs
<1>6. SQLite!CountSearchConfigs(s, u) = Postgres!CountSearchConfigs(p, u)
  <2> DEFINE A == {x \in s.searches : x.user = u /\ x.enabled}
             B == {x \in p.searches : x.user = u /\ x.enabled}
  <2>1. IsFiniteSet(A) /\ IsFiniteSet(B)
    BY <1>1, FS_Subset DEF SearchesOK
  <2>2. OneRowEach(A, "id") /\ OneRowEach(B, "id")
    BY <1>1 DEF SearchesOK, Keyed, OneRowEach
  <2>3. (\A r \in A : \E q \in B : q["id"] = r["id"]) /\ (\A q \in B : \E r \in A : r["id"] = q["id"])
    BY <1>1 DEF SearchTwins, SearchTwin
  <2> HIDE DEF A, B
  <2>4. Cardinality(A) = Cardinality(B)
    BY <2>1, <2>2, <2>3, SameSize
  <2> QED
    BY <2>4, Sizes, Zenon DEF A, B, SQLite!CountSearchConfigs, Postgres!CountSearchConfigs
<1>7. SQLite!CountActiveMissions(s, u) = Postgres!CountActiveMissions(p, u)
  <2> DEFINE A == {m \in s.missions : m.user = u /\ m.status = "active"}
             B == {m \in p.missions : m.user = u /\ m.status = "active"}
  <2>1. IsFiniteSet(A) /\ IsFiniteSet(B)
    BY <1>2, FS_Subset DEF MissionsOK
  <2>2. OneRowEach(A, "id") /\ OneRowEach(B, "id")
    BY <1>2 DEF MissionsOK, Keyed, OneRowEach
  <2>3. (\A r \in A : \E q \in B : q["id"] = r["id"]) /\ (\A q \in B : \E r \in A : r["id"] = q["id"])
    BY <1>2 DEF MissionTwins, MissionTwin
  <2> HIDE DEF A, B
  <2>4. Cardinality(A) = Cardinality(B)
    BY <2>1, <2>2, <2>3, SameSize
  <2> QED
    BY <2>4, Sizes, Zenon DEF A, B, SQLite!CountActiveMissions, Postgres!CountActiveMissions
<1>8. ASSUME NEW id
      PROVE  Unscheduled(SQLite!GetSearchConfigByID(s, id)) = Unscheduled(Postgres!GetSearchConfigByID(p, id))
  <2>1. SearchTwins({x \in s.searches : x.id = id}, {x \in p.searches : x.id = id})
    BY <1>1 DEF SearchTwins, SearchTwin
  <2> QED
    BY <2>1, TwinSearches, Zenon DEF SQLite!GetSearchConfigByID, Postgres!GetSearchConfigByID
<1> QED
  BY <1>4, <1>5, <1>6, <1>7, <1>8

-----------------------------------------------------------------------------
(* The assistant, scores and prices.                                        *)

LEMMA TwinSession ==
  ASSUME NEW r, NEW q, SessionTwin(r, q)
  PROVE  /\ r.user = q.user
         /\ [r EXCEPT !.draft = IF @ = SQLite!Blank THEN "none" ELSE @]
              = [q EXCEPT !.draft = IF @ \in {Postgres!Blank, "{}", "null"} THEN "none" ELSE @]
<1>1. PICK u \in Users, question \in Nat, d \in SessionDrafts : r = SQLiteSession(u, question, d) /\ q = PostgresSession(u, question, d)
  BY DEF SessionTwin
<1>2. d \notin {Blank, "{}", "null"}
  BY StoresAssumption
<1> DEFINE a == IF d = "none" THEN Blank ELSE d
           b == IF d = "none" THEN "{}" ELSE d
<1>3. r = [user |-> u, question |-> question, draft |-> a] /\ q = [user |-> u, question |-> question, draft |-> b]
  BY <1>1, Zenon DEF SQLiteSession, PostgresSession
<1>4. (IF a = Blank THEN "none" ELSE a) = d /\ (IF b \in {Blank, "{}", "null"} THEN "none" ELSE b) = d
  BY <1>2
<1> HIDE DEF a, b
<1>5. r.user = u /\ q.user = u /\ r.draft = a /\ q.draft = b
  BY <1>3
<1> DEFINE e == [user |-> u, question |-> question, draft |-> d]
<1>8. [r EXCEPT !.draft = d] = e /\ [q EXCEPT !.draft = d] = e
  BY <1>3
<1> HIDE DEF e
<1>6. [r EXCEPT !.draft = IF @ = Blank THEN "none" ELSE @] = e
  BY <1>4, <1>5, <1>8, Zenon
<1>7. [q EXCEPT !.draft = IF @ \in {Blank, "{}", "null"} THEN "none" ELSE @] = e
  BY <1>4, <1>5, <1>8, Zenon
<1> QED
  BY <1>5, <1>6, <1>7, Blanks, Zenon

LEMMA AssistantReads ==
  ASSUME NEW s, NEW p, Paired(s, p), NEW u
  PROVE  /\ SQLite!GetAssistantSession(s, u) = Postgres!GetAssistantSession(p, u)
         /\ SQLite!ListActionDrafts(s, u) = Postgres!ListActionDrafts(p, u)
<1>1. SessionTwins(s.sessions, p.sessions) /\ s.drafts = p.drafts
  BY Pairs DEF SessionsPair
<1> DEFINE f(r) == [r EXCEPT !.draft = IF @ = SQLite!Blank THEN "none" ELSE @]
           g(q) == [q EXCEPT !.draft = IF @ \in {Postgres!Blank, "{}", "null"} THEN "none" ELSE @]
           A == {r \in s.sessions : r.user = u}
           B == {r \in p.sessions : r.user = u}
<1>2. \A r \in A, q \in B : SessionTwin(r, q) => f(r) = g(q)
  BY TwinSession
<1>3. (\A r \in A : \E q \in B : SessionTwin(r, q)) /\ (\A q \in B : \E r \in A : SessionTwin(r, q))
  <2>1. \A r, q : SessionTwin(r, q) => r.user = q.user
    BY TwinSession
  <2> QED
    BY <1>1, <2>1 DEF SessionTwins
<1>4. SQLite!GetAssistantSession(s, u) = {f(r) : r \in A} /\ Postgres!GetAssistantSession(p, u) = {g(r) : r \in B}
  BY Zenon DEF SQLite!GetAssistantSession, Postgres!GetAssistantSession
<1>5. SQLite!ListActionDrafts(s, u) = Postgres!ListActionDrafts(p, u)
  BY <1>1 DEF SQLite!ListActionDrafts, Postgres!ListActionDrafts
<1> HIDE DEF f, g, A, B, SessionTwin
<1> QED
  BY <1>2, <1>3, <1>4, <1>5

LEMMA ScoreReads ==
  ASSUME NEW s, NEW p, Paired(s, p), NEW key, NEW v
  PROVE  SQLite!GetAIScoreCache(s, key, v) = Postgres!GetAIScoreCache(p, key, v)
<1>1. s.scores = p.scores
  BY Pairs
<1>2. SQLite!Version(v) = Postgres!Version(v)
  BY Zenon DEF SQLite!Version, Postgres!Version
<1> QED
  BY <1>1, <1>2, Zenon DEF SQLite!GetAIScoreCache, Postgres!GetAIScoreCache

\* Of two pools of the same samples the newest are averaged: to the second, so
\* that SQLite may choose among more.
LEMMA Averages ==
  ASSUME NEW A, NEW B, NEW n, Keyed(A, n), Keyed(B, n), IsFiniteSet(A), IsFiniteSet(B), PriceTwins(A, B)
  PROVE  /\ Postgres!marketAverageByKey(B, Enough) \subseteq SQLite!sqliteMarketAverageByKey(A, Enough)
         /\ (SQLite!sqliteMarketAverageByKey(A, Enough) = {}) <=> (Postgres!marketAverageByKey(B, Enough) = {})
<1> DEFINE newest(P, t) == /\ Cardinality(t) = Enough /\ Enough > 0
                           /\ \A r \in t, x \in P \ t : x.at <= r.at
           first(P, t) == /\ SQLite!Cardinality(t) = Enough /\ Enough > 0
                          /\ \A r \in t, x \in P \ t : x.at <= r.at
           last(P, t) == /\ Postgres!Cardinality(t) = Enough /\ Enough > 0
                         /\ \A r \in t, x \in P \ t : x.at <= r.at
           of(t) == {<<r.id, r.price>> : r \in t}
<1>0. Enough \in Nat /\ Enough > 0
  <2>1. Enough \in Nat \ {0}
    BY StoresAssumption, Zenon
  <2> QED
    BY <2>1
<1>1. SQLite!sqliteMarketAverageByKey(A, Enough) = {SQLite!SumOf(of(t)) \div Enough : t \in {x \in SUBSET A : first(A, x)}}
  BY Zenon DEF SQLite!sqliteMarketAverageByKey
<1>2. Postgres!marketAverageByKey(B, Enough) = {Postgres!SumOf(of(t)) \div Enough : t \in {x \in SUBSET B : last(B, x)}}
  BY Zenon DEF Postgres!marketAverageByKey
<1>9. (\A t : first(A, t) <=> newest(A, t)) /\ (\A t : last(B, t) <=> newest(B, t))
  BY Sizes, Zenon
<1>10. \A t : SQLite!SumOf(of(t)) = SumOf(of(t)) /\ Postgres!SumOf(of(t)) = SumOf(of(t))
  BY Sums
<1>3. (\A r \in A : r.at \in Nat) /\ (\A q \in B : q.at \in Nat)
  BY DEF PriceTwins, PriceTwin
<1>4. Cardinality(A) = Cardinality(B) /\ Cardinality(A) \in Nat
  <2>1. OneRowEach(A, "id") /\ OneRowEach(B, "id")
    BY DEF Keyed, OneRowEach
  <2>2. (\A r \in A : \E q \in B : q["id"] = r["id"]) /\ (\A q \in B : \E r \in A : r["id"] = q["id"])
    BY DEF PriceTwins, PriceTwin
  <2> QED
    BY <2>1, <2>2, SameSize, FS_CardinalityType
<1>5. ASSUME NEW t \in SUBSET B, newest(B, t)
      PROVE  \E x \in SUBSET A : newest(A, x) /\ of(x) = of(t)
  <2> DEFINE x == {r \in A : \E q \in t : PriceTwin(r, q)}
  <2>1. x \subseteq A /\ IsFiniteSet(x) /\ IsFiniteSet(t)
    BY FS_Subset
  <2>2. (\A r \in x : \E q \in t : PriceTwin(r, q)) /\ (\A q \in t : \E r \in x : PriceTwin(r, q))
    BY DEF PriceTwins
  <2>3. of(x) = of(t)
    <3>1. \A r, q : PriceTwin(r, q) => <<r.id, r.price>> = <<q.id, q.price>>
      BY DEF PriceTwin
    <3> HIDE DEF x, PriceTwin
    <3> QED
      BY <2>2, <3>1
  <2>4. ASSUME NEW r \in x, NEW y \in A \ x PROVE y.at <= r.at
    <3>1. PICK q \in t : PriceTwin(r, q)
      BY <2>2
    <3>2. PICK z \in B : PriceTwin(y, z)
      BY DEF PriceTwins
    <3>3. z \notin t
      BY <2>4, <3>2
    <3>4. z.at <= q.at
      BY <1>5, <3>3
    <3>5. z.at \in Nat /\ q.at \in Nat /\ y.at = z.at \div 2 /\ r.at = q.at \div 2
      BY <3>1, <3>2 DEF PriceTwin
    <3> QED
      BY <3>4, <3>5, Halves
  <2>5. Cardinality(x) = Cardinality(t)
    <3>1. OneRowEach(x, "id") /\ OneRowEach(t, "id")
      BY DEF Keyed, OneRowEach
    <3>2. (\A r \in x : \E q \in t : q["id"] = r["id"]) /\ (\A q \in t : \E r \in x : r["id"] = q["id"])
      BY <2>2 DEF PriceTwin
    <3> HIDE DEF x
    <3> QED
      BY <2>1, <3>1, <3>2, SameSize
  <2> HIDE DEF x
  <2> QED
    BY <1>5, <2>1, <2>3, <2>4, <2>5
<1>6. Postgres!marketAverageByKey(B, Enough) \subseteq SQLite!sqliteMarketAverageByKey(A, Enough)
  <2> HIDE DEF newest, first, last, of
  <2> QED
    BY <1>1, <1>2, <1>5, <1>9, <1>10
<1>7. ASSUME NEW t \in SUBSET A, newest(A, t) PROVE \E x \in SUBSET B : newest(B, x)
  <2>1. Enough <= Cardinality(B)
    BY <1>0, <1>4, <1>7, FS_Subset, FS_CardinalityType
  <2>2. PICK x \in SUBSET B : Cardinality(x) = Enough /\ \A r \in x, y \in B \ x : y.at <= r.at
    BY <1>0, <1>3, <2>1, LatestRows
  <2> QED
    BY <1>0, <2>2
<1>8. SQLite!sqliteMarketAverageByKey(A, Enough) # {} => Postgres!marketAverageByKey(B, Enough) # {}
  <2> HIDE DEF newest, first, last, of
  <2> QED
    BY <1>1, <1>2, <1>7, <1>9
<1> QED
  BY <1>6, <1>8

LEMMA PriceHistoryReads ==
  ASSUME NEW s, NEW p, Paired(s, p), NEW query
  PROVE  SQLite!GetPriceHistory(s, query) = Postgres!GetPriceHistory(p, query)
<1> DEFINE S == {r \in s.prices : r.query = query}
           T == {r \in p.prices : r.query = query}
<1>1. PriceTwins(s.prices, p.prices)
  BY Pairs DEF PricesPair
<1>2. (\A r \in S : \E q \in T : PriceTwin(r, q)) /\ (\A q \in T : \E r \in S : PriceTwin(r, q))
  BY <1>1 DEF PriceTwins, PriceTwin
<1>3. \A r, q : PriceTwin(r, q) => <<r.id, r.price>> = <<q.id, q.price>>
  BY DEF PriceTwin
<1>4. SQLite!GetPriceHistory(s, query) = {<<r.id, r.price>> : r \in S} /\ Postgres!GetPriceHistory(p, query) = {<<q.id, q.price>> : q \in T}
  BY Zenon DEF SQLite!GetPriceHistory, Postgres!GetPriceHistory
<1> HIDE DEF S, T, PriceTwin
<1> QED
  BY <1>2, <1>3, <1>4

LEMMA PriceReads ==
  ASSUME NEW s, NEW p, Paired(s, p), NEW query, NEW model, NEW market
  PROVE  /\ Postgres!GetMarketAverage(p, query, model, market, Enough) \subseteq SQLite!GetMarketAverage(s, query, model, market, Enough)
         /\ (SQLite!GetMarketAverage(s, query, model, market, Enough) = {})
              <=> (Postgres!GetMarketAverage(p, query, model, market, Enough) = {})
<1>1. PricesPair(s.prices, p.prices, s.ids)
  BY Pairs
<1> DEFINE A == {r \in s.prices : r.model = model /\ r.market = market}
           B == {r \in p.prices : r.model = model /\ r.market = market}
           C == {r \in s.prices : r.query = query /\ r.market = market}
           D == {r \in p.prices : r.query = query /\ r.market = market}
<1>2. Keyed(A, s.ids) /\ Keyed(B, s.ids) /\ IsFiniteSet(A) /\ IsFiniteSet(B) /\ PriceTwins(A, B)
  <2>1. IsFiniteSet(A) /\ IsFiniteSet(B)
    BY <1>1, FS_Subset DEF PricesPair
  <2> QED
    BY <1>1, <2>1 DEF PricesPair, Keyed, PriceTwins, PriceTwin
<1>3. Keyed(C, s.ids) /\ Keyed(D, s.ids) /\ IsFiniteSet(C) /\ IsFiniteSet(D) /\ PriceTwins(C, D)
  <2>1. IsFiniteSet(C) /\ IsFiniteSet(D)
    BY <1>1, FS_Subset DEF PricesPair
  <2> QED
    BY <1>1, <2>1 DEF PricesPair, Keyed, PriceTwins, PriceTwin
<1> DEFINE a == SQLite!sqliteMarketAverageByKey(A, Enough)
           b == Postgres!marketAverageByKey(B, Enough)
           c == SQLite!sqliteMarketAverageByKey(C, Enough)
           d == Postgres!marketAverageByKey(D, Enough)
<1>4. /\ SQLite!GetMarketAverage(s, query, model, market, Enough) = IF model # Blank /\ a # {} THEN a ELSE c
      /\ Postgres!GetMarketAverage(p, query, model, market, Enough) = IF model # Blank /\ b # {} THEN b ELSE d
  BY Blanks, Zenon DEF SQLite!GetMarketAverage, Postgres!GetMarketAverage
<1> HIDE DEF A, B, C, D
<1>5. b \subseteq a /\ (a = {} <=> b = {})
  BY <1>2, Averages
<1>6. d \subseteq c /\ (c = {} <=> d = {})
  BY <1>3, Averages
<1> HIDE DEF a, b, c, d
<1> QED
  BY <1>4, <1>5, <1>6

-----------------------------------------------------------------------------
(* The stores agree.                                                        *)

LEMMA ReadsAlike ==
  ASSUME Paired(sqlite, postgres), NEW u \in Users
  PROVE  AlikeReads(SQLiteReads(u)) = AlikeReads(PostgresReads(u))
<1> DEFINE s == sqlite
           p == postgres
           L == {<<SQLite!GetListing(s, u, i), SQLite!IsNew(s, u, i), SQLite!GetListingScore(s, u, i),
                   SQLite!GetListingScoringState(s, u, i), SQLite!WasOffered(s, u, i),
                   SQLite!GetShortlistEntry(s, u, i)>> : i \in Items}
           M == {<<Postgres!GetListing(p, u, i), Postgres!IsNew(p, u, i), Postgres!GetListingScore(p, u, i),
                   Postgres!GetListingScoringState(p, u, i), Postgres!WasOffered(p, u, i),
                   Postgres!GetShortlistEntry(p, u, i)>> : i \in Items}
           C == {SQLite!GetComparableDeals(s, u, f.text, f.item) : f \in Finds}
           D == {Postgres!GetComparableDeals(p, u, f.text, f.item) : f \in Finds}
           E == <<SQLite!ListRecentListings(s, u, 0), SQLite!GetApprovedComparables(s, u, 0), C, SQLite!GetShortlist(s, u)>>
           F == <<Postgres!ListRecentListings(p, u, 0), Postgres!GetApprovedComparables(p, u, 0), D, Postgres!GetShortlist(p, u)>>
           X == SQLite!GetSearchConfigs(s, u)
           Y == Postgres!GetSearchConfigs(p, u)
           a == SQLite!CountSearchConfigs(s, u)
           b == SQLite!CountActiveMissions(s, u)
           c == Postgres!CountSearchConfigs(p, u)
           d == Postgres!CountActiveMissions(p, u)
           G == <<SQLite!GetAssistantSession(s, u), SQLite!ListActionDrafts(s, u)>>
           H == <<Postgres!GetAssistantSession(p, u), Postgres!ListActionDrafts(p, u)>>
           m == SQLite!ListMissions(s, u)
           n == Postgres!ListMissions(p, u)
<1>1. L = M
  <2>1. ASSUME NEW i
        PROVE  <<SQLite!GetListing(s, u, i), SQLite!IsNew(s, u, i), SQLite!GetListingScore(s, u, i),
                 SQLite!GetListingScoringState(s, u, i), SQLite!WasOffered(s, u, i), SQLite!GetShortlistEntry(s, u, i)>>
               = <<Postgres!GetListing(p, u, i), Postgres!IsNew(p, u, i), Postgres!GetListingScore(p, u, i),
                   Postgres!GetListingScoringState(p, u, i), Postgres!WasOffered(p, u, i), Postgres!GetShortlistEntry(p, u, i)>>
    <3>1. /\ SQLite!GetListing(s, u, i) = Postgres!GetListing(p, u, i)
          /\ SQLite!IsNew(s, u, i) = Postgres!IsNew(p, u, i)
          /\ SQLite!GetListingScore(s, u, i) = Postgres!GetListingScore(p, u, i)
          /\ SQLite!GetListingScoringState(s, u, i) = Postgres!GetListingScoringState(p, u, i)
          /\ SQLite!WasOffered(s, u, i) = Postgres!WasOffered(p, u, i)
      BY ListingReads
    <3>2. SQLite!GetShortlistEntry(s, u, i) = Postgres!GetShortlistEntry(p, u, i)
      BY ShortlistReads
    <3> QED
      BY <3>1, <3>2
  <2> QED
    BY <2>1
<1>2. C = D
  <2>1. \A text, i : SQLite!GetComparableDeals(s, u, text, i) = Postgres!GetComparableDeals(p, u, text, i)
    BY ListReads
  <2> HIDE DEF SQLite!GetComparableDeals, Postgres!GetComparableDeals
  <2> QED
    BY <2>1
<1>3. /\ SQLite!ListRecentListings(s, u, 0) = Postgres!ListRecentListings(p, u, 0)
      /\ SQLite!GetApprovedComparables(s, u, 0) = Postgres!GetApprovedComparables(p, u, 0)
  BY ListReads
<1>4. SQLite!GetShortlist(s, u) = Postgres!GetShortlist(p, u)
  BY ShortlistReads
<1>5. E = F
  BY <1>2, <1>3, <1>4, Zenon
<1>6. Unscheduled(X) = Unscheduled(Y) /\ a = c /\ b = d
  BY SearchReads
<1>7. G = H
  BY AssistantReads, Zenon
<1>8. m = n
  BY MissionReads
<1>9. /\ SQLiteReads(u) = [listings |-> L, lists |-> E, missions |-> m, searches |-> <<X, a, b>>, assistant |-> G]
      /\ PostgresReads(u) = [listings |-> M, lists |-> F, missions |-> n, searches |-> <<Y, c, d>>, assistant |-> H]
  BY Zenon DEF SQLiteReads, PostgresReads
<1> HIDE DEF L, M, C, D, E, F, X, Y, a, b, c, d, G, H, m, n
<1>10. /\ [<<X, a, b>> EXCEPT ![1] = Unscheduled(X)] = <<Unscheduled(X), a, b>>
       /\ [<<Y, c, d>> EXCEPT ![1] = Unscheduled(Y)] = <<Unscheduled(Y), c, d>>
  <2> HIDE DEF Unscheduled
  <2> QED
    OBVIOUS
<1> DEFINE q == [listings |-> L, lists |-> E, missions |-> m, searches |-> <<X, a, b>>, assistant |-> G]
           r == [listings |-> M, lists |-> F, missions |-> n, searches |-> <<Y, c, d>>, assistant |-> H]
<1>11. q.searches = <<X, a, b>> /\ q.searches[1] = X /\ r.searches = <<Y, c, d>> /\ r.searches[1] = Y
  OBVIOUS
<1>12. /\ AlikeReads(q) = [q EXCEPT !.searches = <<Unscheduled(X), a, b>>]
       /\ AlikeReads(r) = [r EXCEPT !.searches = <<Unscheduled(Y), c, d>>]
  <2> HIDE DEF q, r
  <2> QED
    BY <1>10, <1>11, Zenon DEF AlikeReads
<1>13. [q EXCEPT !.searches = <<Unscheduled(X), a, b>>] = [r EXCEPT !.searches = <<Unscheduled(Y), c, d>>]
  <2> HIDE DEF Unscheduled
  <2> QED
    BY <1>1, <1>5, <1>6, <1>7, <1>8
<1> QED
  BY <1>9, <1>12, <1>13, Zenon

LEMMA InvAgree ==
  ASSUME StoresInv
  PROVE  StoresAgree
<1>1. Paired(sqlite, postgres)
  BY DEF StoresInv
<1>2. ASSUME NEW u \in Users
      PROVE  /\ AlikeReads(SQLiteReads(u)) = AlikeReads(PostgresReads(u))
             /\ Postgres!GetActiveMission(postgres, u) \subseteq SQLite!GetActiveMission(sqlite, u)
             /\ (SQLite!GetActiveMission(sqlite, u) = {}) = (Postgres!GetActiveMission(postgres, u) = {})
             /\ \A sort \in Sorts : \A f \in Filters(sort), page \in 0..1 :
                  LET one == SQLite!ListRecentListingsPaginated(sqlite, u, 1, page, 0, f)
                      other == Postgres!ListRecentListingsPaginated(postgres, u, 1, page, 0, f)
                  IN one.total = other.total /\ (sort # "newest" \/ SeenApart(u) => one.page = other.page)
  <2>1. AlikeReads(SQLiteReads(u)) = AlikeReads(PostgresReads(u))
    BY <1>1, ReadsAlike
  <2>2. /\ Postgres!GetActiveMission(postgres, u) \subseteq SQLite!GetActiveMission(sqlite, u)
        /\ (SQLite!GetActiveMission(sqlite, u) = {}) = (Postgres!GetActiveMission(postgres, u) = {})
    BY <1>1, ActiveMission
  <2>3. ASSUME NEW sort \in Sorts, NEW f \in Filters(sort), NEW page \in 0..1
        PROVE  LET one == SQLite!ListRecentListingsPaginated(sqlite, u, 1, page, 0, f)
                   other == Postgres!ListRecentListingsPaginated(postgres, u, 1, page, 0, f)
               IN one.total = other.total /\ (sort # "newest" \/ SeenApart(u) => one.page = other.page)
    <3>1. SamePages(sqlite, postgres, u, sort, f, page)
      BY <1>1, PageReads
    <3> QED
      BY <3>1, Zenon DEF SamePages, SeenApart
  <2> QED
    BY <2>1, <2>2, <2>3, Zenon
<1>3. Unscheduled(SQLite!GetAllEnabledSearchConfigs(sqlite)) = Unscheduled(Postgres!GetAllEnabledSearchConfigs(postgres))
  BY <1>1, SearchReads
<1>4. \A v \in 0..2 : SQLite!GetAIScoreCache(sqlite, "k", v) = Postgres!GetAIScoreCache(postgres, "k", v)
  BY <1>1, ScoreReads
<1>5. ASSUME NEW x \in Samples
      PROVE  LET one == SQLite!GetMarketAverage(sqlite, x[1], x[2], x[3], Enough)
                 other == Postgres!GetMarketAverage(postgres, x[1], x[2], x[3], Enough)
             IN other \subseteq one /\ (one = {}) = (other = {})
  <2> DEFINE one == SQLite!GetMarketAverage(sqlite, x[1], x[2], x[3], Enough)
             other == Postgres!GetMarketAverage(postgres, x[1], x[2], x[3], Enough)
  <2>1. other \subseteq one /\ ((one = {}) <=> (other = {}))
    BY <1>1, PriceReads
  <2> HIDE DEF one, other
  <2>2. other \subseteq one /\ (one = {}) = (other = {})
    BY <2>1
  <2> QED
    BY <2>2 DEF one, other
<1>6. ASSUME NEW id \in 1..sqlite.ids
      PROVE  /\ SQLite!GetMission(sqlite, id) = Postgres!GetMission(postgres, id)
             /\ Unscheduled(SQLite!GetSearchConfigByID(sqlite, id)) = Unscheduled(Postgres!GetSearchConfigByID(postgres, id))
  BY <1>1, GetMissionReads, SearchReads
<1>7. \A x \in Samples : SQLite!GetPriceHistory(sqlite, x[1]) = Postgres!GetPriceHistory(postgres, x[1])
  BY <1>1, PriceHistoryReads
<1> QED
  BY <1>2, <1>3, <1>4, <1>5, <1>6, <1>7, Zenon DEF StoresAgree

\* StoresAgree for any users, items, finds and calls: the queries of store.Store
\* read the same from SQLite and from Postgres, but for the rechecks that SQLite
\* does not keep and for what ties within one of SQLite's seconds: the active
\* mission, the market average, and the pages with the newest listing first.
THEOREM StoresAnswerAlike == BothSpec => []StoresAgree
<1> QED
  BY StoresStayPaired, InvAgree, PTL

-----------------------------------------------------------------------------
(* The reports: the same text in both stores, over the same tables.         *)

LEMMA ListUsersWithStripeCustomerIDsAlike ==
  ASSUME NEW s, NEW p, s.users = p.users
  PROVE  SQLiteB!ListUsersWithStripeCustomerIDs(s) = PostgresB!ListUsersWithStripeCustomerIDs(p)
<1>1. SQLiteB!ListUsersWithStripeCustomerIDs(p) = PostgresB!ListUsersWithStripeCustomerIDs(p)
  BY DEF SQLiteB!ListUsersWithStripeCustomerIDs, SQLiteB!Blank, PostgresB!ListUsersWithStripeCustomerIDs,
    PostgresB!Blank
<1>2. SQLiteB!ListUsersWithStripeCustomerIDs(s) = SQLiteB!ListUsersWithStripeCustomerIDs(p)
  BY Zenon DEF SQLiteB!ListUsersWithStripeCustomerIDs
<1> QED
  BY <1>1, <1>2

LEMMA ListAdminAuditLogAlike ==
  ASSUME NEW s, NEW p, s.audit = p.audit
  PROVE  SQLiteB!ListAdminAuditLog(s) = PostgresB!ListAdminAuditLog(p)
<1>1. SQLiteB!ListAdminAuditLog(p) = PostgresB!ListAdminAuditLog(p)
  BY DEF SQLiteB!ListAdminAuditLog, PostgresB!ListAdminAuditLog
<1>2. SQLiteB!ListAdminAuditLog(s) = SQLiteB!ListAdminAuditLog(p)
  BY Zenon DEF SQLiteB!ListAdminAuditLog
<1> QED
  BY <1>1, <1>2

LEMMA GetAIUsageTimelineAlike ==
  ASSUME NEW s, NEW p, NEW t, NEW days, s.usage = p.usage
  PROVE  SQLiteB!GetAIUsageTimeline(s, t, days) = PostgresB!GetAIUsageTimeline(p, t, days)
<1>1. SQLiteB!GetAIUsageTimeline(p, t, days) = PostgresB!GetAIUsageTimeline(p, t, days)
  BY DEF SQLiteB!GetAIUsageTimeline, SQLiteB!Within, PostgresB!GetAIUsageTimeline, PostgresB!Within
<1>2. SQLiteB!GetAIUsageTimeline(s, t, days) = SQLiteB!GetAIUsageTimeline(p, t, days)
  BY Zenon DEF SQLiteB!GetAIUsageTimeline
<1> QED
  BY <1>1, <1>2

LEMMA ListBusinessSubscriptionsAlike ==
  ASSUME NEW s, NEW p, NEW status, s.snapshots = p.snapshots, s.users = p.users, s.invoices = p.invoices
  PROVE  SQLiteB!ListBusinessSubscriptions(s, status) = PostgresB!ListBusinessSubscriptions(p, status)
<1>1. SQLiteB!ListBusinessSubscriptions(p, status) = PostgresB!ListBusinessSubscriptions(p, status)
  BY DEF SQLiteB!ListBusinessSubscriptions, SQLiteB!GetUserByID, SQLiteB!Blank, PostgresB!ListBusinessSubscriptions,
    PostgresB!GetUserByID, PostgresB!Blank
<1>2. SQLiteB!ListBusinessSubscriptions(s, status) = SQLiteB!ListBusinessSubscriptions(p, status)
  BY Zenon DEF SQLiteB!ListBusinessSubscriptions, SQLiteB!GetUserByID
<1> QED
  BY <1>1, <1>2

LEMMA GetUserByIDAlike ==
  ASSUME NEW s, NEW p, NEW u, s.users = p.users
  PROVE  SQLiteB!GetUserByID(s, u) = PostgresB!GetUserByID(p, u)
<1>1. SQLiteB!GetUserByID(p, u) = PostgresB!GetUserByID(p, u)
  BY DEF SQLiteB!GetUserByID, PostgresB!GetUserByID
<1>2. SQLiteB!GetUserByID(s, u) = SQLiteB!GetUserByID(p, u)
  BY Zenon DEF SQLiteB!GetUserByID
<1> QED
  BY <1>1, <1>2

LEMMA ListUserAuthMethodsAlike ==
  ASSUME NEW s, NEW p, NEW u, s.users = p.users, s.identities = p.identities
  PROVE  SQLiteB!ListUserAuthMethods(s, u) = PostgresB!ListUserAuthMethods(p, u)
<1>1. SQLiteB!ListUserAuthMethods(p, u) = PostgresB!ListUserAuthMethods(p, u)
  BY DEF SQLiteB!ListUserAuthMethods, SQLiteB!GetUserByID, PostgresB!ListUserAuthMethods, PostgresB!GetUserByID
<1>2. SQLiteB!ListUserAuthMethods(s, u) = SQLiteB!ListUserAuthMethods(p, u)
  BY Zenon DEF SQLiteB!ListUserAuthMethods, SQLiteB!GetUserByID
<1> QED
  BY <1>1, <1>2

LEMMA GetUserAIUsageStatsAlike ==
  ASSUME NEW s, NEW p, NEW t, NEW u, NEW days, s.usage = p.usage
  PROVE  SQLiteB!GetUserAIUsageStats(s, t, u, days) = PostgresB!GetUserAIUsageStats(p, t, u, days)
<1>1. SQLiteB!GetUserAIUsageStats(p, t, u, days) = PostgresB!GetUserAIUsageStats(p, t, u, days)
  BY DEF SQLiteB!GetUserAIUsageStats, SQLiteB!UsageStats, SQLiteB!Within, SQLiteB!SumOf, SQLiteB!FoldSet,
    SQLiteB!MapThenFoldSet, SQLiteB!Cardinality, PostgresB!GetUserAIUsageStats, PostgresB!UsageStats,
    PostgresB!Within, PostgresB!SumOf, PostgresB!FoldSet, PostgresB!MapThenFoldSet, PostgresB!Cardinality
<1>2. SQLiteB!GetUserAIUsageStats(s, t, u, days) = SQLiteB!GetUserAIUsageStats(p, t, u, days)
  BY Zenon DEF SQLiteB!GetUserAIUsageStats
<1> QED
  BY <1>1, <1>2

LEMMA GetAIUsageStatsAlike ==
  ASSUME NEW s, NEW p, NEW t, NEW days, s.usage = p.usage
  PROVE  SQLiteB!GetAIUsageStats(s, t, days) = PostgresB!GetAIUsageStats(p, t, days)
<1>1. SQLiteB!GetAIUsageStats(p, t, days) = PostgresB!GetAIUsageStats(p, t, days)
  BY DEF SQLiteB!GetAIUsageStats, SQLiteB!UsageStats, SQLiteB!Within, SQLiteB!SumOf, SQLiteB!FoldSet,
    SQLiteB!MapThenFoldSet, SQLiteB!Cardinality, PostgresB!GetAIUsageStats, PostgresB!UsageStats, PostgresB!Within,
    PostgresB!SumOf, PostgresB!FoldSet, PostgresB!MapThenFoldSet, PostgresB!Cardinality
<1>2. SQLiteB!GetAIUsageStats(s, t, days) = SQLiteB!GetAIUsageStats(p, t, days)
  BY Zenon DEF SQLiteB!GetAIUsageStats
<1> QED
  BY <1>1, <1>2

LEMMA GetUserByEmailAlike ==
  ASSUME NEW s, NEW p, NEW e, s.users = p.users
  PROVE  SQLiteB!GetUserByEmail(s, e) = PostgresB!GetUserByEmail(p, e)
<1>1. SQLiteB!GetUserByEmail(p, e) = PostgresB!GetUserByEmail(p, e)
  BY DEF SQLiteB!GetUserByEmail, SQLiteB!Lowered, PostgresB!GetUserByEmail, PostgresB!Lowered
<1>2. SQLiteB!GetUserByEmail(s, e) = SQLiteB!GetUserByEmail(p, e)
  BY Zenon DEF SQLiteB!GetUserByEmail
<1> QED
  BY <1>1, <1>2

LEMMA GetUserByAuthIdentityAlike ==
  ASSUME NEW s, NEW p, NEW provider, NEW subject, s.users = p.users, s.identities = p.identities
  PROVE  SQLiteB!GetUserByAuthIdentity(s, provider, subject) = PostgresB!GetUserByAuthIdentity(p, provider, subject)
<1>1. SQLiteB!GetUserByAuthIdentity(p, provider, subject) = PostgresB!GetUserByAuthIdentity(p, provider, subject)
  BY DEF SQLiteB!GetUserByAuthIdentity, PostgresB!GetUserByAuthIdentity
<1>2. SQLiteB!GetUserByAuthIdentity(s, provider, subject) = SQLiteB!GetUserByAuthIdentity(p, provider, subject)
  BY Zenon DEF SQLiteB!GetUserByAuthIdentity
<1> QED
  BY <1>1, <1>2

LEMMA GetStripeSubscriptionSnapshotAlike ==
  ASSUME NEW s, NEW p, NEW sub, s.snapshots = p.snapshots
  PROVE  SQLiteB!GetStripeSubscriptionSnapshot(s, sub) = PostgresB!GetStripeSubscriptionSnapshot(p, sub)
<1>1. SQLiteB!GetStripeSubscriptionSnapshot(p, sub) = PostgresB!GetStripeSubscriptionSnapshot(p, sub)
  BY DEF SQLiteB!GetStripeSubscriptionSnapshot, PostgresB!GetStripeSubscriptionSnapshot
<1>2. SQLiteB!GetStripeSubscriptionSnapshot(s, sub) = SQLiteB!GetStripeSubscriptionSnapshot(p, sub)
  BY Zenon DEF SQLiteB!GetStripeSubscriptionSnapshot
<1> QED
  BY <1>1, <1>2

LEMMA ProcessedAnewAlike ==
  ASSUME NEW s, NEW p, NEW e, s.processed = p.processed
  PROVE  SQLiteB!ProcessedAnew(s, e) = PostgresB!ProcessedAnew(p, e)
<1>1. SQLiteB!ProcessedAnew(p, e) = PostgresB!ProcessedAnew(p, e)
  BY DEF SQLiteB!ProcessedAnew, SQLiteB!Blank, PostgresB!ProcessedAnew, PostgresB!Blank
<1>2. SQLiteB!ProcessedAnew(s, e) = SQLiteB!ProcessedAnew(p, e)
  BY Zenon DEF SQLiteB!ProcessedAnew
<1> QED
  BY <1>1, <1>2

LEMMA GetBusinessRevenueAlike ==
  ASSUME NEW s, NEW p, NEW t, NEW days, s.invoices = p.invoices
  PROVE  SQLiteB!GetBusinessRevenue(s, t, days) = PostgresB!GetBusinessRevenue(p, t, days)
<1>1. SQLiteB!GetBusinessRevenue(p, t, days) = PostgresB!GetBusinessRevenue(p, t, days)
  BY DEF SQLiteB!GetBusinessRevenue, SQLiteB!Paid, SQLiteB!Within, SQLiteB!SumOf, SQLiteB!FoldSet,
    SQLiteB!MapThenFoldSet, SQLiteB!Cardinality, PostgresB!GetBusinessRevenue, PostgresB!Paid, PostgresB!Within,
    PostgresB!SumOf, PostgresB!FoldSet, PostgresB!MapThenFoldSet, PostgresB!Cardinality
<1>2. SQLiteB!GetBusinessRevenue(s, t, days) = SQLiteB!GetBusinessRevenue(p, t, days)
  BY Zenon DEF SQLiteB!GetBusinessRevenue, SQLiteB!Paid
<1> QED
  BY <1>1, <1>2

LEMMA GetBusinessOverviewAlike ==
  ASSUME NEW s, NEW p, NEW t, NEW days, s.snapshots = p.snapshots, s.invoices = p.invoices, s.history = p.history, s.webhooks = p.webhooks, s.reconciles = p.reconciles
  PROVE  SQLiteB!GetBusinessOverview(s, t, days) = PostgresB!GetBusinessOverview(p, t, days)
<1>1. SQLiteB!GetBusinessOverview(p, t, days) = PostgresB!GetBusinessOverview(p, t, days)
  BY DEF SQLiteB!GetBusinessOverview, SQLiteB!subscriptionIsPaidActive, SQLiteB!Monthly, SQLiteB!amountToEUR,
    SQLiteB!Unpaid, SQLiteB!Within, SQLiteB!sumPaidRevenueInWindow, SQLiteB!sumPaidRevenueRange, SQLiteB!RevenueOf,
    SQLiteB!Paid, SQLiteB!Churned, SQLiteB!Latest, SQLiteB!GetLatestBusinessReconcileRun, SQLiteB!Blank,
    SQLiteB!SumOf, SQLiteB!FoldSet, SQLiteB!MapThenFoldSet, SQLiteB!Cardinality, PostgresB!GetBusinessOverview,
    PostgresB!subscriptionIsPaidActive, PostgresB!Monthly, PostgresB!amountToEUR, PostgresB!Unpaid, PostgresB!Within,
    PostgresB!sumPaidRevenueInWindow, PostgresB!sumPaidRevenueRange, PostgresB!RevenueOf, PostgresB!Paid,
    PostgresB!Churned, PostgresB!Latest, PostgresB!GetLatestBusinessReconcileRun, PostgresB!Blank, PostgresB!SumOf,
    PostgresB!FoldSet, PostgresB!MapThenFoldSet, PostgresB!Cardinality
<1>2. SQLiteB!GetBusinessOverview(s, t, days) = SQLiteB!GetBusinessOverview(p, t, days)
  BY Zenon DEF SQLiteB!GetBusinessOverview, SQLiteB!Unpaid, SQLiteB!sumPaidRevenueInWindow,
    SQLiteB!sumPaidRevenueRange, SQLiteB!Paid, SQLiteB!Churned, SQLiteB!Latest, SQLiteB!GetLatestBusinessReconcileRun
<1> QED
  BY <1>1, <1>2

LEMMA BookSizes == \A S : SQLiteB!Cardinality(S) = Cardinality(S) /\ PostgresB!Cardinality(S) = Cardinality(S)
  BY DEF SQLiteB!Cardinality, PostgresB!Cardinality, Cardinality

LEMMA GetBusinessAlertsAlike ==
  ASSUME NEW s, NEW p, NEW t, NEW days, s.snapshots = p.snapshots, s.invoices = p.invoices, s.history = p.history, s.webhooks = p.webhooks, s.reconciles = p.reconciles
  PROVE  SQLiteB!GetBusinessAlerts(s, t, days) = PostgresB!GetBusinessAlerts(p, t, days)
<1>1. SQLiteB!GetBusinessOverview(s, t, days) = PostgresB!GetBusinessOverview(p, t, days)
  BY GetBusinessOverviewAlike
<1>2. SQLiteB!Cardinality(SQLiteB!Unpaid(s, t, 1)) = PostgresB!Cardinality(PostgresB!Unpaid(p, t, 1))
  <2>1. SQLiteB!Unpaid(s, t, 1) = PostgresB!Unpaid(p, t, 1)
    BY DEF SQLiteB!Unpaid, PostgresB!Unpaid, SQLiteB!Within, PostgresB!Within
  <2> QED
    BY <2>1, BookSizes
<1> QED
  BY <1>1, <1>2 DEF SQLiteB!GetBusinessAlerts, PostgresB!GetBusinessAlerts

LEMMA GetBusinessFunnelAlike ==
  ASSUME NEW s, NEW p, NEW t, NEW days, s.users = p.users, s.snapshots = p.snapshots,
         MissionTwins(s.missions, p.missions), SearchTwins(s.searches, p.searches)
  PROVE  SQLiteB!GetBusinessFunnel(s, t, days) = PostgresB!GetBusinessFunnel(p, t, days)
<1> DEFINE S == {u \in s.users : SQLiteB!Within(u.at, t, days)}
           P == {u \in p.users : PostgresB!Within(u.at, t, days)}
           A == {u \in S : \E r \in s.missions \cup s.searches : r.user = u.id}
           B == {u \in P : \E r \in p.missions \cup p.searches : r.user = u.id}
           C == {u \in S : \E r \in s.snapshots : r.user = u.id /\ SQLiteB!subscriptionIsPaidActive(r.status)}
           D == {u \in P : \E r \in p.snapshots : r.user = u.id /\ PostgresB!subscriptionIsPaidActive(r.status)}
<1>1. S = P
  BY DEF SQLiteB!Within, PostgresB!Within
<1>2. A = B
  <2>1. /\ \A r \in s.missions \cup s.searches : \E q \in p.missions \cup p.searches : q.user = r.user
        /\ \A q \in p.missions \cup p.searches : \E r \in s.missions \cup s.searches : r.user = q.user
    BY DEF MissionTwins, MissionTwin, SearchTwins, SearchTwin
  <2> HIDE DEF S, P
  <2> QED
    BY <1>1, <2>1
<1>3. C = D
  BY <1>1 DEF SQLiteB!subscriptionIsPaidActive, PostgresB!subscriptionIsPaidActive
<1>4. /\ SQLiteB!GetBusinessFunnel(s, t, days)
           = [signups |-> SQLiteB!Cardinality(S), activated |-> SQLiteB!Cardinality(A), paid |-> SQLiteB!Cardinality(C)]
      /\ PostgresB!GetBusinessFunnel(p, t, days)
           = [signups |-> PostgresB!Cardinality(P), activated |-> PostgresB!Cardinality(B), paid |-> PostgresB!Cardinality(D)]
  BY DEF SQLiteB!GetBusinessFunnel, PostgresB!GetBusinessFunnel
<1> HIDE DEF S, P, A, B, C, D
<1> QED
  BY <1>1, <1>2, <1>3, <1>4, BookSizes

LEMMA GetBusinessCohortsAlike ==
  ASSUME NEW s, NEW p, NEW t, NEW months, s.users = p.users, s.snapshots = p.snapshots, s.invoices = p.invoices
  PROVE  SQLiteB!GetBusinessCohorts(s, t, months) = PostgresB!GetBusinessCohorts(p, t, months)
<1>1. SQLiteB!GetBusinessCohorts(p, t, months) = PostgresB!GetBusinessCohorts(p, t, months)
  BY DEF SQLiteB!GetBusinessCohorts, PostgresB!GetBusinessCohorts, SQLiteB!Paid, PostgresB!Paid,
    SQLiteB!Month, PostgresB!Month, SQLiteB!Cardinality, PostgresB!Cardinality
<1> DEFINE users(db) == {u \in db.users : u.at + 8 * months >= t}
           subs(db, u) == {r \in db.snapshots : r.user = u.id}
           of(db, u) == {<<u, {r}>> : r \in subs(db, u)} \cup (IF subs(db, u) = {} THEN {<<u, {}>>} ELSE {})
           joined(db) == UNION {of(db, u) : u \in users(db)}
           paidAfter(db, u, m) == \E i \in SQLiteB!Paid(db) : i.user = u.id /\ SQLiteB!Month(i.at) = SQLiteB!Month(u.at) + m
           ended(in, ages) == {e \in in : \E r \in e[2] : r.status \in {"canceled", "incomplete_expired"} /\ r.at - e[1].at \in ages}
           Row(in, F, m) == [month |-> m, users |-> SQLiteB!Cardinality(in), paid |-> F,
                    churned |-> <<SQLiteB!Cardinality(ended(in, 0..8)), SQLiteB!Cardinality(ended(in, 9..24)), SQLiteB!Cardinality(ended(in, Nat \ (0..24)))>>]
           In(db, m) == {e \in joined(db) : SQLiteB!Month(e[1].at) = m}
           Paying(db, m) == [k \in 0..2 |-> SQLiteB!Cardinality({e \in In(db, m) : paidAfter(db, e[1], k)})]
           row(db, m) == Row(In(db, m), Paying(db, m), m)
           all(db) == {SQLiteB!Month(u.at) : u \in users(db)}
           Rows(db) == {row(db, m) : m \in {n \in all(db) : SQLiteB!Cardinality({k \in all(db) : k > n}) < months}}
<1>2. \A db : SQLiteB!GetBusinessCohorts(db, t, months) = Rows(db)
  BY DEF SQLiteB!GetBusinessCohorts
<1>3. users(s) = users(p) /\ all(s) = all(p)
  OBVIOUS
<1>4. joined(s) = joined(p)
  BY ZenonT(60)
<1>5. \A u, m : paidAfter(s, u, m) <=> paidAfter(p, u, m)
  BY DEF SQLiteB!Paid
<1> HIDE DEF users, all, joined, paidAfter, Row
<1>6. \A m : In(s, m) = In(p, m)
  BY <1>4
<1> HIDE DEF In
<1>7. \A m : Paying(s, m) = Paying(p, m)
  <2> TAKE m
  <2>1. \A k : {e \in In(s, m) : paidAfter(s, e[1], k)} = {e \in In(p, m) : paidAfter(p, e[1], k)}
    BY <1>5, <1>6
  <2> QED
    BY <2>1, Zenon
<1> HIDE DEF Paying
<1>8. \A m : row(s, m) = row(p, m)
  BY <1>6, <1>7
<1> HIDE DEF row
<1>9. Rows(s) = Rows(p)
  BY <1>3, <1>8, Zenon
<1> QED
  BY <1>1, <1>2, <1>9

-----------------------------------------------------------------------------
(* Users, in the order of their ids.                                        *)

LEMMA ListAllUsersAlike ==
  ASSUME NEW s, NEW p, Paired(s, p), s.users = p.users, s.usage = p.usage
  PROVE  SQLiteB!ListAllUsers(s) = PostgresB!ListAllUsers(p)
<1> DEFINE ms(u) == {r \in s.missions : r.user = u.id}
           mp(u) == {r \in p.missions : r.user = u.id}
           ss(u) == {r \in s.searches : r.user = u.id}
           sp(u) == {r \in p.searches : r.user = u.id}
           us(u) == {r \in s.usage : r.user = u.id}
           up(u) == {r \in p.usage : r.user = u.id}
           a(u) == [user |-> u, missions |-> SQLiteB!Cardinality(ms(u)), searches |-> SQLiteB!Cardinality(ss(u)),
                    usage |-> SQLiteB!UsageStats(us(u)).tokens]
           b(u) == [user |-> u, missions |-> PostgresB!Cardinality(mp(u)), searches |-> PostgresB!Cardinality(sp(u)),
                    usage |-> PostgresB!UsageStats(up(u)).tokens]
<1>1. MissionsPair(s.missions, p.missions, s.ids) /\ SearchesPair(s.searches, p.searches, s.ids)
  BY Pairs
<1>2. \A u : SQLiteB!Cardinality(ms(u)) = PostgresB!Cardinality(mp(u))
  <2> TAKE u
  <2>1. ms(u) \subseteq s.missions /\ mp(u) \subseteq p.missions
    OBVIOUS
  <2>2. IsFiniteSet(ms(u)) /\ IsFiniteSet(mp(u))
    <3> HIDE DEF ms, mp
    <3> QED
      BY <1>1, <2>1, FS_Subset DEF MissionsPair, MissionsOK
  <2>3. OneRowEach(ms(u), "id") /\ OneRowEach(mp(u), "id")
    BY <1>1 DEF OneRowEach, MissionsPair, MissionsOK, Keyed
  <2>4. (\A r \in ms(u) : \E q \in mp(u) : q["id"] = r["id"]) /\ (\A q \in mp(u) : \E r \in ms(u) : r["id"] = q["id"])
    BY <1>1 DEF MissionsPair, MissionTwins, MissionTwin
  <2> HIDE DEF ms, mp
  <2>5. Cardinality(ms(u)) = Cardinality(mp(u))
    BY <2>2, <2>3, <2>4, SameSize
  <2> QED
    BY <2>5, BookSizes
<1>3. \A u : SQLiteB!Cardinality(ss(u)) = PostgresB!Cardinality(sp(u))
  <2> TAKE u
  <2>1. ss(u) \subseteq s.searches /\ sp(u) \subseteq p.searches
    OBVIOUS
  <2>2. IsFiniteSet(ss(u)) /\ IsFiniteSet(sp(u))
    <3> HIDE DEF ss, sp
    <3> QED
      BY <1>1, <2>1, FS_Subset DEF SearchesPair, SearchesOK
  <2>3. OneRowEach(ss(u), "id") /\ OneRowEach(sp(u), "id")
    BY <1>1 DEF OneRowEach, SearchesPair, SearchesOK, Keyed
  <2>4. (\A r \in ss(u) : \E q \in sp(u) : q["id"] = r["id"]) /\ (\A q \in sp(u) : \E r \in ss(u) : r["id"] = q["id"])
    BY <1>1 DEF SearchesPair, SearchTwins, SearchTwin
  <2> HIDE DEF ss, sp
  <2>5. Cardinality(ss(u)) = Cardinality(sp(u))
    BY <2>2, <2>3, <2>4, SameSize
  <2> QED
    BY <2>5, BookSizes
<1>4. \A R : SQLiteB!UsageStats(R) = PostgresB!UsageStats(R)
  BY DEF SQLiteB!UsageStats, PostgresB!UsageStats, SQLiteB!SumOf, SQLiteB!FoldSet, SQLiteB!MapThenFoldSet, SQLiteB!Cardinality,
    PostgresB!SumOf, PostgresB!FoldSet, PostgresB!MapThenFoldSet, PostgresB!Cardinality
<1>5. \A u : us(u) = up(u)
  OBVIOUS
<1>6. /\ SQLiteB!ListAllUsers(s) = {a(u) : u \in s.users}
      /\ PostgresB!ListAllUsers(p) = {b(u) : u \in p.users}
  BY DEF SQLiteB!ListAllUsers, PostgresB!ListAllUsers
<1> HIDE DEF ms, mp, ss, sp, us, up
<1>7. \A u : a(u) = b(u)
  BY <1>2, <1>3, <1>4, <1>5
<1> HIDE DEF a, b
<1> QED
  BY <1>6, <1>7

-----------------------------------------------------------------------------
(* Search runs: SQLite's window reaches back further, by less than a day.   *)

LEMMA Windows ==
  ASSUME NEW at \in Nat, NEW t \in Nat, NEW days \in Nat
  PROVE  /\ PostgresB!Within(at, t, days) => SQLiteB!StartedWithin(at, t, days)
         /\ SQLiteB!StartedWithin(at, t, days) => PostgresB!Within(at, t, days + 1)
  BY DEF PostgresB!Within, SQLiteB!StartedWithin

LEMMA FiniteWhenKeyed ==
  ASSUME NEW T, NEW n \in Nat, Keyed(T, n)
  PROVE  IsFiniteSet(T)
<1>1. [r \in T |-> r.id] \in Injection(T, 1..n)
  BY DEF Keyed, Injection, IsInjective
<1> QED
  BY <1>1, FS_Injection, FS_Interval

LEMMA RunsRead ==
  ASSUME NEW s, NEW p, s.runs = p.runs, s.users = p.users, \A r \in s.runs : r.at \in Nat, IsFiniteSet(s.runs),
         NEW t \in Nat, NEW days \in Nat
  PROVE  /\ PostgresB!ListSearchRuns(p, t, days, Blank) \subseteq SQLiteB!ListSearchRuns(s, t, days, Blank)
         /\ SQLiteB!ListSearchRuns(s, t, days, Blank) \subseteq PostgresB!ListSearchRuns(p, t, days + 1, Blank)
         /\ SQLiteB!GetSearchOpsStats(s, t, days).total <= PostgresB!GetSearchOpsStats(p, t, days + 1).total
<1> DEFINE S(d) == {e \in s.runs : SQLiteB!StartedWithin(e.at, t, d)}
           P(d) == {e \in p.runs : PostgresB!Within(e.at, t, d)}
           line(r) == [run |-> r, email |-> {u.email : u \in SQLiteB!GetUserByID(s, r.user)}]
<1>1. P(days) \subseteq S(days) /\ S(days) \subseteq P(days + 1)
  BY Windows
<1>2. \A d : SQLiteB!ListSearchRuns(s, t, d, Blank) = {line(r) : r \in S(d)}
  <2>1. \A d : {e \in s.runs : SQLiteB!StartedWithin(e.at, t, d) /\ Blank \in {SQLiteB!Blank, e.status}} = S(d)
    BY BookBlanks
  <2> HIDE DEF S
  <2> QED
    BY <2>1, Zenon DEF SQLiteB!ListSearchRuns
<1>3. \A d : PostgresB!ListSearchRuns(p, t, d, Blank) = {line(r) : r \in P(d)}
  <2>1. \A d : {e \in p.runs : PostgresB!Within(e.at, t, d) /\ Blank \in {PostgresB!Blank, e.status}} = P(d)
    BY BookBlanks
  <2> DEFINE other(r) == [run |-> r, email |-> {u.email : u \in PostgresB!GetUserByID(p, r.user)}]
  <2>2. \A r : other(r) = line(r)
    BY GetUserByIDAlike
  <2> HIDE DEF P
  <2>3. \A d : PostgresB!ListSearchRuns(p, t, d, Blank) = {other(r) : r \in P(d)}
    BY <2>1, Zenon DEF PostgresB!ListSearchRuns
  <2> HIDE DEF other, line
  <2> QED
    BY <2>2, <2>3
<1>4. /\ SQLiteB!GetSearchOpsStats(s, t, days).total = Cardinality(S(days))
      /\ PostgresB!GetSearchOpsStats(p, t, days + 1).total = Cardinality(P(days + 1))
  BY BookSizes DEF SQLiteB!GetSearchOpsStats, PostgresB!GetSearchOpsStats
<1>5. Cardinality(S(days)) <= Cardinality(P(days + 1))
  <2>1. P(days + 1) \subseteq s.runs
    OBVIOUS
  <2> HIDE DEF S, P
  <2> QED
    BY <1>1, <2>1, FS_Subset
<1> HIDE DEF S, P, line
<1> QED
  BY <1>1, <1>2, <1>3, <1>4, <1>5

-----------------------------------------------------------------------------
(* The books agree.                                                         *)

LEMMA BookTables ==
  ASSUME NEW s, NEW p, Paired(s, p)
  PROVE  /\ s.users = p.users /\ s.identities = p.identities /\ s.audit = p.audit /\ s.usage = p.usage /\ s.runs = p.runs
         /\ s.snapshots = p.snapshots /\ s.invoices = p.invoices /\ s.history = p.history /\ s.webhooks = p.webhooks
         /\ s.reconciles = p.reconciles /\ s.processed = p.processed
<1>1. \A k \in Tables \ Twinned : s[k] = p[k]
  BY DEF Paired, TablePair
<1>2. \A k \in {"users", "identities", "audit", "usage", "runs", "snapshots", "invoices", "history", "webhooks",
                "reconciles", "processed"} : k \in Tables \ Twinned
  BY DEF Tables, Twinned
<1> QED
  BY <1>1, <1>2

LEMMA RunsKept ==
  ASSUME NEW s, NEW p, Paired(s, p)
  PROVE  IsFiniteSet(s.runs) /\ \A r \in s.runs : r.at \in Nat /\ (r.status = "success" => r.code = Blank)
<1>1. TablePair("runs", s["runs"], p["runs"], s.ids) /\ s.ids \in Nat
  BY DEF Paired, Tables, Schema
<1>2. Keyed(s.runs, s.ids)
  BY <1>1 DEF TablePair, Numbered
<1>3. \A r \in s.runs : LogRow("runs", r)
  BY <1>1 DEF TablePair, Unique
<1> QED
  BY <1>1, <1>2, <1>3, FiniteWhenKeyed DEF LogRow

LEMMA ReportsAlike ==
  ASSUME Paired(sqlite, postgres), NEW days
  PROVE  SQLiteReports(days) = PostgresReports(days)
<1> DEFINE s == sqlite
           p == postgres
           X1 == SQLiteB!ListAllUsers(s)
           X2 == SQLiteB!ListUsersWithStripeCustomerIDs(s)
           X3 == SQLiteB!ListAdminAuditLog(s)
           X4 == SQLiteB!GetAIUsageTimeline(s, now, days)
           X5 == {SQLiteB!ListBusinessSubscriptions(s, x) : x \in {Blank, "active"}}
           Y1 == PostgresB!ListAllUsers(p)
           Y2 == PostgresB!ListUsersWithStripeCustomerIDs(p)
           Y3 == PostgresB!ListAdminAuditLog(p)
           Y4 == PostgresB!GetAIUsageTimeline(p, now, days)
           Y5 == {PostgresB!ListBusinessSubscriptions(p, x) : x \in {Blank, "active"}}
           a(u) == <<u, SQLiteB!GetUserByID(s, u), SQLiteB!ListUserAuthMethods(s, u), SQLiteB!GetUserAIUsageStats(s, now, u, days)>>
           b(u) == <<u, PostgresB!GetUserByID(p, u), PostgresB!ListUserAuthMethods(p, u), PostgresB!GetUserAIUsageStats(p, now, u, days)>>
           F1 == {SQLiteB!GetUserByEmail(s, e) : e \in Emails}
           F2 == SQLiteB!GetUserByAuthIdentity(s, "google", "s")
           F3 == {SQLiteB!GetStripeSubscriptionSnapshot(s, x.sub) : x \in Subscriptions}
           F4 == SQLiteB!ProcessedAnew(s, "e")
           G1 == {PostgresB!GetUserByEmail(p, e) : e \in Emails}
           G2 == PostgresB!GetUserByAuthIdentity(p, "google", "s")
           G3 == {PostgresB!GetStripeSubscriptionSnapshot(p, x.sub) : x \in Subscriptions}
           G4 == PostgresB!ProcessedAnew(p, "e")
           B1 == <<SQLiteB!GetBusinessOverview(s, now, days), SQLiteB!GetBusinessRevenue(s, now, days),
                   SQLiteB!GetBusinessFunnel(s, now, days), SQLiteB!GetBusinessAlerts(s, now, days),
                   SQLiteB!GetBusinessCohorts(s, now, days), SQLiteB!GetAIUsageStats(s, now, days)>>
           C1 == <<PostgresB!GetBusinessOverview(p, now, days), PostgresB!GetBusinessRevenue(p, now, days),
                   PostgresB!GetBusinessFunnel(p, now, days), PostgresB!GetBusinessAlerts(p, now, days),
                   PostgresB!GetBusinessCohorts(p, now, days), PostgresB!GetAIUsageStats(p, now, days)>>
<1>0. /\ s.users = p.users /\ s.identities = p.identities /\ s.audit = p.audit /\ s.usage = p.usage /\ s.runs = p.runs
      /\ s.snapshots = p.snapshots /\ s.invoices = p.invoices /\ s.history = p.history /\ s.webhooks = p.webhooks
      /\ s.reconciles = p.reconciles /\ s.processed = p.processed
  BY BookTables
<1>1. X1 = Y1 /\ X2 = Y2 /\ X3 = Y3 /\ X4 = Y4
  <2>1. X1 = Y1
    BY <1>0, ListAllUsersAlike
  <2>2. X2 = Y2
    BY <1>0, ListUsersWithStripeCustomerIDsAlike
  <2>3. X3 = Y3
    BY <1>0, ListAdminAuditLogAlike
  <2>4. X4 = Y4
    BY <1>0, GetAIUsageTimelineAlike
  <2> QED
    BY <2>1, <2>2, <2>3, <2>4
<1>2. X5 = Y5
  <2>1. \A x : SQLiteB!ListBusinessSubscriptions(s, x) = PostgresB!ListBusinessSubscriptions(p, x)
    BY <1>0, ListBusinessSubscriptionsAlike
  <2> QED
    BY <2>1
<1>3. {a(u) : u \in Users} = {b(u) : u \in Users}
  <2>1. \A u : SQLiteB!GetUserByID(s, u) = PostgresB!GetUserByID(p, u)
    BY <1>0, GetUserByIDAlike
  <2>2. \A u : SQLiteB!ListUserAuthMethods(s, u) = PostgresB!ListUserAuthMethods(p, u)
    BY <1>0, ListUserAuthMethodsAlike
  <2>3. \A u : SQLiteB!GetUserAIUsageStats(s, now, u, days) = PostgresB!GetUserAIUsageStats(p, now, u, days)
    BY <1>0, GetUserAIUsageStatsAlike
  <2>4. \A u : a(u) = b(u)
    BY <2>1, <2>2, <2>3
  <2> HIDE DEF a, b
  <2> QED
    BY <2>4
<1>4. F1 = G1 /\ F2 = G2 /\ F3 = G3
  <2>1. \A e : SQLiteB!GetUserByEmail(s, e) = PostgresB!GetUserByEmail(p, e)
    BY <1>0, GetUserByEmailAlike
  <2>2. F2 = G2
    BY <1>0, GetUserByAuthIdentityAlike
  <2>3. \A x : SQLiteB!GetStripeSubscriptionSnapshot(s, x) = PostgresB!GetStripeSubscriptionSnapshot(p, x)
    BY <1>0, GetStripeSubscriptionSnapshotAlike
  <2>4. F1 = G1
    BY <2>1
  <2>5. F3 = G3
    BY <2>3
  <2> QED
    BY <2>2, <2>4, <2>5
<1>5. F4 = G4
  BY <1>0, ProcessedAnewAlike
<1>6. B1 = C1
  <2>1. SQLiteB!GetBusinessOverview(s, now, days) = PostgresB!GetBusinessOverview(p, now, days)
    BY <1>0, GetBusinessOverviewAlike
  <2>2. SQLiteB!GetBusinessRevenue(s, now, days) = PostgresB!GetBusinessRevenue(p, now, days)
    BY <1>0, GetBusinessRevenueAlike
  <2>3. SQLiteB!GetBusinessFunnel(s, now, days) = PostgresB!GetBusinessFunnel(p, now, days)
    <3>1. MissionTwins(s.missions, p.missions) /\ SearchTwins(s.searches, p.searches)
      BY Pairs DEF MissionsPair, SearchesPair
    <3> QED
      BY <1>0, <3>1, GetBusinessFunnelAlike
  <2>4. SQLiteB!GetBusinessAlerts(s, now, days) = PostgresB!GetBusinessAlerts(p, now, days)
    BY <1>0, GetBusinessAlertsAlike
  <2>5. SQLiteB!GetBusinessCohorts(s, now, days) = PostgresB!GetBusinessCohorts(p, now, days)
    BY <1>0, GetBusinessCohortsAlike
  <2>6. SQLiteB!GetAIUsageStats(s, now, days) = PostgresB!GetAIUsageStats(p, now, days)
    BY <1>0, GetAIUsageStatsAlike
  <2> QED
    BY <2>1, <2>2, <2>3, <2>4, <2>5, <2>6
<1>7. SQLiteReports(days) = [lists |-> <<X1, X2, X3, X4, X5>>, accounts |-> {a(u) : u \in Users}, found |-> <<F1, F2, F3, F4>>,
                             business |-> B1]
  BY Zenon DEF SQLiteReports
<1>8. PostgresReports(days) = [lists |-> <<Y1, Y2, Y3, Y4, Y5>>, accounts |-> {b(u) : u \in Users}, found |-> <<G1, G2, G3, G4>>,
                               business |-> C1]
  BY Zenon DEF PostgresReports
<1> HIDE DEF s, p, X1, X2, X3, X4, X5, Y1, Y2, Y3, Y4, Y5, a, b, F1, F2, F3, F4, G1, G2, G3, G4, B1, C1
<1> QED
  BY <1>1, <1>2, <1>3, <1>4, <1>5, <1>6, <1>7, <1>8

LEMMA InvBooks ==
  ASSUME StoresInv
  PROVE  BooksAgree
<1>1. Paired(sqlite, postgres) /\ now \in Nat
  BY DEF StoresInv
<1>2. /\ sqlite.runs = postgres.runs /\ sqlite.users = postgres.users
      /\ IsFiniteSet(sqlite.runs) /\ \A r \in sqlite.runs : r.at \in Nat
  BY <1>1, BookTables, RunsKept
<1>3. ASSUME NEW days \in 1..2
      PROVE  /\ SQLiteReports(days) = PostgresReports(days)
             /\ PostgresB!ListSearchRuns(postgres, now, days, Blank) \subseteq SQLiteB!ListSearchRuns(sqlite, now, days, Blank)
             /\ SQLiteB!ListSearchRuns(sqlite, now, days, Blank) \subseteq PostgresB!ListSearchRuns(postgres, now, days + 1, Blank)
             /\ SQLiteB!GetSearchOpsStats(sqlite, now, days).total <= PostgresB!GetSearchOpsStats(postgres, now, days + 1).total
  <2>1. SQLiteReports(days) = PostgresReports(days)
    BY <1>1, ReportsAlike
  <2>2. days \in Nat
    OBVIOUS
  <2>3. /\ PostgresB!ListSearchRuns(postgres, now, days, Blank) \subseteq SQLiteB!ListSearchRuns(sqlite, now, days, Blank)
        /\ SQLiteB!ListSearchRuns(sqlite, now, days, Blank) \subseteq PostgresB!ListSearchRuns(postgres, now, days + 1, Blank)
        /\ SQLiteB!GetSearchOpsStats(sqlite, now, days).total <= PostgresB!GetSearchOpsStats(postgres, now, days + 1).total
    BY <1>1, <1>2, <2>2, RunsRead, Zenon
  <2> QED
    BY <2>1, <2>3
<1> QED
  BY <1>3, Zenon DEF BooksAgree

\* BooksAgree for any emails, subscriptions and invoices: accounts, logs and the
\* owner's reports read the same from both stores, but for the window of runs.
THEOREM BooksReadAlike == BothSpec => []BooksAgree
<1> QED
  BY StoresStayPaired, InvBooks, PTL

-----------------------------------------------------------------------------
(* Sums.                                                                    *)

\* g sums the subsets of S of at most n pairs, one pair after the other.
Chosen(T) == CHOOSE y \in T : TRUE
Small(S, n) == {T \in SUBSET S : Cardinality(T) <= n}
SumsOn(g, D) == \A T \in D : g[T] = IF T = {} THEN 0 ELSE Chosen(T)[2] + g[T \ {Chosen(T)}]
Valued(S) == IsFiniteSet(S) /\ \A y \in S : y[2] \in Int

LEMMA Smaller ==
  ASSUME NEW S, IsFiniteSet(S), NEW T \in SUBSET S, T # {}
  PROVE  /\ Chosen(T) \in T /\ T \ {Chosen(T)} \in SUBSET S
         /\ Cardinality(T) \in Nat /\ Cardinality(T) <= Cardinality(S) /\ Cardinality(T \ {Chosen(T)}) = Cardinality(T) - 1
<1>1. Chosen(T) \in T /\ T \ {Chosen(T)} \in SUBSET S
  BY DEF Chosen
<1>2. IsFiniteSet(T) /\ Cardinality(T) <= Cardinality(S)
  BY FS_Subset
<1>3. Cardinality(T) \in Nat /\ Cardinality(T \ {Chosen(T)}) = Cardinality(T) - 1
  BY <1>1, <1>2, FS_CardinalityType, FS_RemoveElement
<1> QED
  BY <1>1, <1>2, <1>3

LEMMA SumsExist ==
  ASSUME NEW S, Valued(S)
  PROVE  \E g \in [SUBSET S -> Int] : SumsOn(g, SUBSET S)
<1> DEFINE N == {n \in Nat : \E g \in [Small(S, n) -> Int] : SumsOn(g, Small(S, n))}
<1>1. 0 \in N
  <2> DEFINE g == [T \in Small(S, 0) |-> 0]
  <2>1. \A T \in Small(S, 0) : T = {}
    <3> SUFFICES ASSUME NEW T \in Small(S, 0), T # {} PROVE FALSE
      OBVIOUS
    <3>1. T \in SUBSET S /\ Cardinality(T) <= 0
      BY DEF Small
    <3>2. IsFiniteSet(T) /\ Cardinality(T) \in Nat
      BY <3>1, FS_Subset, FS_CardinalityType DEF Valued
    <3> QED
      BY <3>1, <3>2, FS_EmptySet
  <2>2. g \in [Small(S, 0) -> Int] /\ SumsOn(g, Small(S, 0))
    BY <2>1 DEF SumsOn
  <2> QED
    BY <2>2
<1>2. ASSUME NEW n \in Nat, n \in N
      PROVE  n + 1 \in N
  <2>1. PICK g \in [Small(S, n) -> Int] : SumsOn(g, Small(S, n))
    BY <1>2
  <2> DEFINE h == [T \in Small(S, n + 1) |-> IF T \in Small(S, n) THEN g[T] ELSE Chosen(T)[2] + g[T \ {Chosen(T)}]]
  <2>2. \A T \in Small(S, n + 1) : T # {} => Chosen(T)[2] \in Int /\ T \ {Chosen(T)} \in Small(S, n)
    <3> SUFFICES ASSUME NEW T \in Small(S, n + 1), T # {} PROVE Chosen(T)[2] \in Int /\ T \ {Chosen(T)} \in Small(S, n)
      OBVIOUS
    <3>1. T \in SUBSET S /\ Cardinality(T) <= n + 1
      BY DEF Small
    <3>2. /\ Chosen(T) \in T /\ T \ {Chosen(T)} \in SUBSET S
          /\ Cardinality(T) \in Nat /\ Cardinality(T \ {Chosen(T)}) = Cardinality(T) - 1
      BY <3>1, Smaller DEF Valued
    <3> QED
      BY <3>1, <3>2 DEF Small, Valued
  <2>3. {} \in Small(S, n) /\ Small(S, n) \subseteq Small(S, n + 1)
    <3>1. \A T \in SUBSET S : Cardinality(T) \in Nat
      BY FS_Subset, FS_CardinalityType DEF Valued
    <3> QED
      BY <3>1, FS_EmptySet DEF Small
  <2>4. h \in [Small(S, n + 1) -> Int]
    <3> SUFFICES ASSUME NEW T \in Small(S, n + 1)
                 PROVE  (IF T \in Small(S, n) THEN g[T] ELSE Chosen(T)[2] + g[T \ {Chosen(T)}]) \in Int
      OBVIOUS
    <3>1. CASE T \in Small(S, n)
      BY <3>1
    <3>2. CASE T \notin Small(S, n)
      <4>1. T # {}
        BY <2>3, <3>2
      <4>2. Chosen(T)[2] \in Int /\ g[T \ {Chosen(T)}] \in Int
        BY <2>2, <4>1
      <4> QED
        BY <3>2, <4>2
    <3> QED
      BY <3>1, <3>2
  <2>5. ASSUME NEW T \in Small(S, n + 1)
        PROVE  h[T] = IF T = {} THEN 0 ELSE Chosen(T)[2] + h[T \ {Chosen(T)}]
    <3>1. CASE T = {}
      BY <2>1, <2>3, <3>1 DEF SumsOn
    <3>2. CASE T # {}
      <4>1. T \ {Chosen(T)} \in Small(S, n) /\ h[T \ {Chosen(T)}] = g[T \ {Chosen(T)}]
        BY <2>2, <2>3, <3>2
      <4>2. h[T] = Chosen(T)[2] + g[T \ {Chosen(T)}]
        BY <2>1, <3>2 DEF SumsOn
      <4> QED
        BY <3>2, <4>1, <4>2
    <3> QED
      BY <3>1, <3>2
  <2> HIDE DEF h
  <2>6. SumsOn(h, Small(S, n + 1))
    BY <2>5 DEF SumsOn
  <2> QED
    BY <2>4, <2>6
<1>3. Nat \subseteq N
  <2>1. \A n \in Nat : n \in N => n + 1 \in N
    BY <1>2
  <2> HIDE DEF N
  <2> QED
    BY <1>1, <2>1, SetInduction
<1>4. Cardinality(S) \in Nat /\ Small(S, Cardinality(S)) = SUBSET S
  <2>1. Cardinality(S) \in Nat /\ \A T \in SUBSET S : Cardinality(T) <= Cardinality(S)
    BY FS_Subset, FS_CardinalityType DEF Valued
  <2> QED
    BY <2>1 DEF Small
<1> QED
  BY <1>3, <1>4

\* Two such functions agree where both are defined.
LEMMA SumsUnique ==
  ASSUME NEW S, IsFiniteSet(S), NEW T \in SUBSET S, NEW g, NEW h, SumsOn(g, SUBSET S), SumsOn(h, SUBSET T)
  PROVE  g[T] = h[T]
<1> DEFINE N == {n \in Nat : \A V \in SUBSET T : Cardinality(V) = n => g[V] = h[V]}
<1>0. \A V \in SUBSET T : V \in SUBSET S
  OBVIOUS
<1>1. 0 \in N
  <2> SUFFICES ASSUME NEW V \in SUBSET T, Cardinality(V) = 0 PROVE g[V] = h[V]
    OBVIOUS
  <2>1. V = {}
    BY FS_Subset, FS_EmptySet
  <2> QED
    BY <2>1 DEF SumsOn
<1>2. ASSUME NEW n \in Nat, n \in N
      PROVE  n + 1 \in N
  <2> SUFFICES ASSUME NEW V \in SUBSET T, Cardinality(V) = n + 1 PROVE g[V] = h[V]
    OBVIOUS
  <2>1. V # {}
    <3>1. Cardinality(V) # 0
      BY <1>2
    <3> QED
      BY <3>1, FS_EmptySet, Zenon
  <2>2. /\ V \ {Chosen(V)} \in SUBSET T /\ Cardinality(V \ {Chosen(V)}) = n
    BY <2>1, Smaller
  <2>3. g[V \ {Chosen(V)}] = h[V \ {Chosen(V)}]
    BY <1>2, <2>2
  <2> QED
    BY <1>0, <2>1, <2>3 DEF SumsOn
<1>3. Nat \subseteq N
  <2>1. \A n \in Nat : n \in N => n + 1 \in N
    BY <1>2
  <2> HIDE DEF N
  <2> QED
    BY <1>1, <2>1, SetInduction
<1>4. Cardinality(T) \in Nat
  BY FS_Subset, FS_CardinalityType
<1> QED
  BY <1>3, <1>4

\* The fold is such a function's value.
LEMMA SumOfIs ==
  ASSUME NEW S, Valued(S)
  PROVE  \E g \in [SUBSET S -> Int] : SumsOn(g, SUBSET S) /\ \A T \in SUBSET S : SumOf(T) = g[T]
<1>1. PICK g \in [SUBSET S -> Int] : SumsOn(g, SUBSET S)
  BY SumsExist
<1>2. ASSUME NEW T \in SUBSET S
      PROVE  SumOf(T) = g[T]
  <2> DEFINE iter == CHOOSE i : i = [V \in SUBSET T |-> IF V = {} THEN 0 ELSE Chosen(V)[2] + i[V \ {Chosen(V)}]]
  <2>1. Valued(T)
    BY FS_Subset DEF Valued
  <2>2. PICK k \in [SUBSET T -> Int] : SumsOn(k, SUBSET T)
    BY <2>1, SumsExist
  <2>3. k = [V \in SUBSET T |-> IF V = {} THEN 0 ELSE Chosen(V)[2] + k[V \ {Chosen(V)}]]
    BY <2>2 DEF SumsOn
  <2>4. iter = [V \in SUBSET T |-> IF V = {} THEN 0 ELSE Chosen(V)[2] + iter[V \ {Chosen(V)}]]
    BY <2>3, Zenon
  <2>5. SumOf(T) = iter[T]
    BY Zenon DEF SumOf, FoldSet, MapThenFoldSet, Chosen
  <2> HIDE DEF iter
  <2>6. SumsOn(iter, SUBSET T)
    BY <2>4 DEF SumsOn
  <2>7. iter[T] = g[T]
    BY <1>1, <2>6, SumsUnique DEF Valued
  <2> QED
    BY <2>5, <2>7
<1> QED
  BY <1>1, <1>2

LEMMA SumOfChosen ==
  ASSUME NEW S, Valued(S)
  PROVE  /\ SumOf({}) = 0 /\ SumOf(S) \in Int
         /\ S # {} => SumOf(S) = Chosen(S)[2] + SumOf(S \ {Chosen(S)})
<1>1. PICK g \in [SUBSET S -> Int] : SumsOn(g, SUBSET S) /\ \A T \in SUBSET S : SumOf(T) = g[T]
  BY SumOfIs
<1>2. /\ {} \in SUBSET S /\ S \in SUBSET S /\ S \ {Chosen(S)} \in SUBSET S
  OBVIOUS
<1>3. SumOf({}) = 0
  BY <1>1, <1>2 DEF SumsOn
<1>4. SumOf(S) \in Int
  BY <1>1, <1>2
<1>5. S # {} => SumOf(S) = Chosen(S)[2] + SumOf(S \ {Chosen(S)})
  BY <1>1, <1>2 DEF SumsOn
<1> QED
  BY <1>3, <1>4, <1>5

\* Whichever pair is taken first.
LEMMA SumOfTaken ==
  ASSUME NEW S, Valued(S), NEW y \in S
  PROVE  SumOf(S) = y[2] + SumOf(S \ {y})
<1> DEFINE N == {n \in Nat : \A T \in SUBSET S : Cardinality(T) = n => \A x \in T : SumOf(T) = x[2] + SumOf(T \ {x})}
<1>1. 0 \in N
  <2>1. \A T \in SUBSET S : Cardinality(T) = 0 => T = {}
    BY FS_Subset, FS_EmptySet DEF Valued
  <2> QED
    BY <2>1
<1>2. ASSUME NEW n \in Nat, n \in N
      PROVE  n + 1 \in N
  <2> SUFFICES ASSUME NEW T \in SUBSET S, Cardinality(T) = n + 1, NEW x \in T PROVE SumOf(T) = x[2] + SumOf(T \ {x})
    BY <1>2
  <2> DEFINE c == Chosen(T)
             U == T \ {c, x}
  <2>1. c \in T
    BY DEF Chosen
  <2>2. /\ Valued(T) /\ Valued(T \ {c}) /\ Valued(T \ {x}) /\ Valued(U)
        /\ T \ {c} \in SUBSET S /\ T \ {x} \in SUBSET S
    BY FS_Subset DEF Valued
  <2>3. /\ c[2] \in Int /\ x[2] \in Int /\ SumOf(U) \in Int
    BY <2>1, <2>2, SumOfChosen DEF Valued
  <2>4. SumOf(T) = c[2] + SumOf(T \ {c})
    BY <2>1, <2>2, SumOfChosen
  <2>5. CASE c = x
    BY <2>4, <2>5
  <2>6. CASE c # x
    <3>1. Cardinality(T \ {c}) = n /\ Cardinality(T \ {x}) = n
      <4>1. /\ Cardinality(T \ {c}) = IF c \in T THEN Cardinality(T) - 1 ELSE Cardinality(T)
            /\ Cardinality(T \ {x}) = IF x \in T THEN Cardinality(T) - 1 ELSE Cardinality(T)
        BY <2>2, FS_RemoveElement, Zenon DEF Valued
      <4> HIDE DEF c
      <4> QED
        BY <1>2, <2>1, <4>1
    <3>2. (T \ {c}) \ {x} = U /\ (T \ {x}) \ {c} = U /\ x \in T \ {c} /\ c \in T \ {x}
      BY <2>1, <2>6
    <3> HIDE DEF c, U
    <3>3. SumOf(T \ {c}) = x[2] + SumOf((T \ {c}) \ {x}) /\ SumOf(T \ {x}) = c[2] + SumOf((T \ {x}) \ {c})
      BY <1>2, <2>2, <3>1, <3>2
    <3>4. SumOf((T \ {c}) \ {x}) = SumOf(U) /\ SumOf((T \ {x}) \ {c}) = SumOf(U)
      BY <3>2, Zenon
    <3> DEFINE a == SumOf(T \ {c})
               b == SumOf(T \ {x})
               d == SumOf(U)
               e == SumOf(T)
    <3>5. a = x[2] + d /\ b = c[2] + d /\ e = c[2] + a
      BY <2>4, <3>3, <3>4, Zenon
    <3>6. d \in Int
      BY <2>3
    <3> HIDE DEF a, b, d, e
    <3>7. e = x[2] + b
      BY <2>3, <3>5, <3>6
    <3> QED
      BY <3>7 DEF b, e
  <2> QED
    BY <2>5, <2>6
<1>3. Nat \subseteq N
  <2>1. \A n \in Nat : n \in N => n + 1 \in N
    BY <1>2
  <2> HIDE DEF N
  <2> QED
    BY <1>1, <2>1, SetInduction
<1>4. Cardinality(S) \in Nat
  BY FS_CardinalityType DEF Valued
<1> QED
  BY <1>3, <1>4

-----------------------------------------------------------------------------
\* Induction over a finite set: C holds the subsets that are done.
LEMMA OneByOne ==
  ASSUME NEW S, IsFiniteSet(S), NEW C, {} \in C, \A T \in SUBSET S : \A x \in S \ T : T \in C => T \cup {x} \in C
  PROVE  S \in C
<1> DEFINE N == {n \in Nat : \A T \in SUBSET S : Cardinality(T) = n => T \in C}
<1>1. 0 \in N
  <2>1. \A T \in SUBSET S : Cardinality(T) = 0 => T = {}
    BY FS_Subset, FS_EmptySet
  <2> QED
    BY <2>1
<1>2. ASSUME NEW n \in Nat, n \in N
      PROVE  n + 1 \in N
  <2> SUFFICES ASSUME NEW T \in SUBSET S, Cardinality(T) = n + 1 PROVE T \in C
    BY <1>2
  <2>1. T # {}
    <3>1. Cardinality(T) # 0
      BY <1>2
    <3> QED
      BY <3>1, FS_EmptySet, Zenon
  <2>2. PICK x : x \in T
    BY <2>1
  <2>3. T \ {x} \in SUBSET S /\ x \in S \ (T \ {x}) /\ (T \ {x}) \cup {x} = T
    BY <2>2
  <2>4. Cardinality(T \ {x}) = n
    <3>1. IsFiniteSet(T)
      BY FS_Subset
    <3>2. Cardinality(T \ {x}) = IF x \in T THEN Cardinality(T) - 1 ELSE Cardinality(T)
      BY <3>1, FS_RemoveElement, Zenon
    <3> QED
      BY <1>2, <2>2, <3>2
  <2>5. T \ {x} \in C
    BY <1>2, <2>3, <2>4
  <2>6. (T \ {x}) \cup {x} \in C
    BY <2>3, <2>5
  <2> QED
    BY <2>3, <2>6
<1>3. Nat \subseteq N
  <2>1. \A n \in Nat : n \in N => n + 1 \in N
    BY <1>2
  <2> HIDE DEF N
  <2> QED
    BY <1>1, <2>1, SetInduction
<1>4. Cardinality(S) \in Nat
  BY FS_CardinalityType
<1> QED
  BY <1>3, <1>4

\* The sum of w over the rows of R, which k tells apart.
Weigh(k, w, R) == SumOf({<<k[r], w[r]>> : r \in R})
Weighed(k, w, R) == IsFiniteSet(R) /\ (\A r \in R : w[r] \in Int) /\ \A r, s \in R : k[r] = k[s] => r = s

LEMMA WeighedPairs ==
  ASSUME NEW k, NEW w, NEW R, Weighed(k, w, R)
  PROVE  Valued({<<k[r], w[r]>> : r \in R})
<1> DEFINE P == {<<k[r], w[r]>> : r \in R}
<1>1. [r \in R |-> <<k[r], w[r]>>] \in Surjection(R, P)
  BY DEF Surjection
<1>2. IsFiniteSet(P)
  BY <1>1, FS_Surjection DEF Weighed
<1>3. \A y \in P : y[2] \in Int
  BY DEF Weighed
<1> QED
  BY <1>2, <1>3 DEF Valued

LEMMA WeighOne ==
  ASSUME NEW k, NEW w, NEW R, NEW x, Weighed(k, w, R \cup {x}), x \notin R
  PROVE  /\ Weighed(k, w, R) /\ w[x] \in Int /\ Weigh(k, w, R) \in Int
         /\ Weigh(k, w, R \cup {x}) = w[x] + Weigh(k, w, R)
<1> DEFINE P == {<<k[r], w[r]>> : r \in R}
           Q == {<<k[r], w[r]>> : r \in R \cup {x}}
           y == <<k[x], w[x]>>
<1>1. Weighed(k, w, R) /\ w[x] \in Int
  BY FS_Subset DEF Weighed
<1>2. Valued(P) /\ Valued(Q)
  BY <1>1, WeighedPairs
<1>3. y \in Q /\ Q \ {y} = P /\ y[2] = w[x]
  BY DEF Weighed
<1>4. Weigh(k, w, R) = SumOf(P) /\ Weigh(k, w, R \cup {x}) = SumOf(Q)
  BY DEF Weigh
<1> HIDE DEF P, Q, y
<1>5. SumOf(Q) = y[2] + SumOf(Q \ {y}) /\ SumOf(P) \in Int
  BY <1>2, <1>3, SumOfTaken, SumOfChosen
<1> QED
  BY <1>1, <1>3, <1>4, <1>5

LEMMA WeighNone ==
  ASSUME NEW k, NEW w
  PROVE  Weigh(k, w, {}) = 0
<1>1. {<<k[r], w[r]>> : r \in {}} = {}
  OBVIOUS
<1>2. SumOf({}) = 0
  BY SumOfChosen, FS_EmptySet DEF Valued
<1> QED
  BY <1>1, <1>2 DEF Weigh

LEMMA WeighType ==
  ASSUME NEW k, NEW w, NEW R, Weighed(k, w, R)
  PROVE  Weigh(k, w, R) \in Int
<1> DEFINE P == {<<k[r], w[r]>> : r \in R}
<1>1. Valued(P)
  BY WeighedPairs
<1> HIDE DEF P
<1>2. SumOf(P) \in Int
  BY <1>1, SumOfChosen
<1> QED
  BY <1>2 DEF P, Weigh

LEMMA WeighAlike ==
  ASSUME NEW k, NEW v, NEW w, NEW R, \A r \in R : v[r] = w[r]
  PROVE  Weigh(k, v, R) = Weigh(k, w, R)
<1>1. {<<k[r], v[r]>> : r \in R} = {<<k[r], w[r]>> : r \in R}
  OBVIOUS
<1> QED
  BY <1>1 DEF Weigh

LEMMA WeighedPart ==
  ASSUME NEW k, NEW w, NEW R, Weighed(k, w, R), NEW T \in SUBSET R
  PROVE  Weighed(k, w, T)
  BY FS_Subset DEF Weighed

LEMMA WeighJoined ==
  ASSUME NEW k, NEW w, NEW A, NEW B, Weighed(k, w, A \cup B), A \cap B = {}
  PROVE  Weigh(k, w, A \cup B) = Weigh(k, w, A) + Weigh(k, w, B)
<1> DEFINE C == {T \in SUBSET A : Weigh(k, w, T \cup B) = Weigh(k, w, T) + Weigh(k, w, B)}
<1>0. IsFiniteSet(A) /\ Weighed(k, w, A) /\ Weighed(k, w, B)
  BY FS_Subset DEF Weighed
<1>1. {} \in C
  <2>1. Weigh(k, w, B) \in Int /\ {} \cup B = B
    BY <1>0, WeighType
  <2> QED
    BY <2>1, WeighNone
<1>2. ASSUME NEW T \in SUBSET A, NEW x \in A \ T, T \in C
      PROVE  T \cup {x} \in C
  <2>1. /\ T \cup {x} \in SUBSET A /\ x \notin T /\ x \notin T \cup B /\ (T \cup B) \cup {x} \in SUBSET (A \cup B)
        /\ (T \cup B) \cup {x} = (T \cup {x}) \cup B
    OBVIOUS
  <2>2. Weighed(k, w, T \cup {x}) /\ Weighed(k, w, (T \cup B) \cup {x})
    BY <1>0, <2>1, WeighedPart
  <2>3. /\ Weigh(k, w, T \cup {x}) = w[x] + Weigh(k, w, T) /\ w[x] \in Int /\ Weigh(k, w, T) \in Int
        /\ Weigh(k, w, (T \cup B) \cup {x}) = w[x] + Weigh(k, w, T \cup B)
    <3>1. x \notin T /\ Weighed(k, w, T \cup {x})
      BY <2>1, <2>2
    <3>2. x \notin T \cup B /\ Weighed(k, w, (T \cup B) \cup {x})
      BY <2>1, <2>2
    <3>3. Weigh(k, w, T \cup {x}) = w[x] + Weigh(k, w, T) /\ w[x] \in Int /\ Weigh(k, w, T) \in Int
      BY ONLY <3>1, WeighOne, Zenon
    <3>4. Weigh(k, w, (T \cup B) \cup {x}) = w[x] + Weigh(k, w, T \cup B)
      BY ONLY <3>2, WeighOne, Zenon
    <3> QED
      BY <3>3, <3>4
  <2>4. Weigh(k, w, T \cup B) = Weigh(k, w, T) + Weigh(k, w, B) /\ Weigh(k, w, B) \in Int
    BY <1>0, <1>2, WeighType
  <2> DEFINE a == Weigh(k, w, (T \cup B) \cup {x})
             b == Weigh(k, w, T \cup {x})
             c == Weigh(k, w, T)
             d == Weigh(k, w, B)
             e == Weigh(k, w, T \cup B)
  <2>5. b = w[x] + c /\ w[x] \in Int /\ c \in Int /\ a = w[x] + e /\ e = c + d /\ d \in Int
    BY <2>3, <2>4
  <2> HIDE DEF a, b, c, d, e
  <2>6. a = b + d
    BY <2>5
  <2> QED
    BY <2>1, <2>6 DEF a, b, d
<1> HIDE DEF C
<1>3. A \in C
  BY <1>0, <1>1, <1>2, OneByOne
<1> QED
  BY <1>3 DEF C

LEMMA Distributes ==
  ASSUME NEW c \in Int, NEW a \in Int, NEW b \in Int
  PROVE  c * (a + b) = c * a + c * b
  OBVIOUS

LEMMA WeighScaled ==
  ASSUME NEW k, NEW v, NEW w, NEW R, Weighed(k, v, R), NEW c \in Int, \A r \in R : w[r] = c * v[r]
  PROVE  Weigh(k, w, R) = c * Weigh(k, v, R)
<1> DEFINE C == {T \in SUBSET R : Weigh(k, w, T) = c * Weigh(k, v, T)}
<1>0. Weighed(k, w, R)
  BY DEF Weighed
<1>1. {} \in C
  BY WeighNone
<1>2. ASSUME NEW T \in SUBSET R, NEW x \in R \ T, T \in C
      PROVE  T \cup {x} \in C
  <2>1. T \cup {x} \in SUBSET R /\ x \notin T
    OBVIOUS
  <2>2. Weighed(k, v, T \cup {x}) /\ Weighed(k, w, T \cup {x})
    BY <1>0, <2>1, WeighedPart
  <2>3. /\ Weigh(k, w, T \cup {x}) = w[x] + Weigh(k, w, T)
        /\ Weigh(k, v, T \cup {x}) = v[x] + Weigh(k, v, T) /\ v[x] \in Int /\ Weigh(k, v, T) \in Int
    BY <2>1, <2>2, WeighOne
  <2>4. w[x] = c * v[x]
    OBVIOUS
  <2>5. c * (v[x] + Weigh(k, v, T)) = c * v[x] + c * Weigh(k, v, T)
    BY <2>3, Distributes
  <2>6. Weigh(k, w, T) = c * Weigh(k, v, T)
    BY <1>2
  <2>7. Weigh(k, w, T \cup {x}) = c * Weigh(k, v, T \cup {x})
    BY <2>3, <2>4, <2>5, <2>6, Zenon
  <2> QED
    BY <2>1, <2>7
<1> HIDE DEF C
<1>3. R \in C
  BY <1>1, <1>2, OneByOne DEF Weighed
<1> QED
  BY <1>3 DEF C

LEMMA WeighCounted ==
  ASSUME NEW k, NEW w, NEW R, Weighed(k, w, R), \A r \in R : w[r] = 1
  PROVE  Weigh(k, w, R) = Cardinality(R)
<1> DEFINE C == {T \in SUBSET R : Weigh(k, w, T) = Cardinality(T)}
<1>1. {} \in C
  BY WeighNone, FS_EmptySet
<1>2. ASSUME NEW T \in SUBSET R, NEW x \in R \ T, T \in C
      PROVE  T \cup {x} \in C
  <2>1. T \cup {x} \in SUBSET R /\ x \notin T
    OBVIOUS
  <2>2. Weighed(k, w, T \cup {x}) /\ Weighed(k, w, T)
    BY <2>1, WeighedPart
  <2>3. Weigh(k, w, T \cup {x}) = 1 + Weigh(k, w, T)
    <3>1. Weigh(k, w, T \cup {x}) = w[x] + Weigh(k, w, T)
      BY <2>1, <2>2, WeighOne
    <3> QED
      BY <3>1
  <2>4. Cardinality(T \cup {x}) = Cardinality(T) + 1 /\ Cardinality(T) \in Nat
    <3>1. IsFiniteSet(T)
      BY <2>2 DEF Weighed
    <3>2. Cardinality(T \cup {x}) = IF x \in T THEN Cardinality(T) ELSE Cardinality(T) + 1
      BY <3>1, FS_AddElement, Zenon
    <3> QED
      BY <2>1, <3>1, <3>2, FS_CardinalityType
  <2>5. Weigh(k, w, T) = Cardinality(T)
    BY <1>2
  <2>6. Weigh(k, w, T \cup {x}) = Cardinality(T \cup {x})
    BY <2>3, <2>4, <2>5
  <2> QED
    BY <2>1, <2>6
<1> HIDE DEF C
<1>3. R \in C
  BY <1>1, <1>2, OneByOne DEF Weighed
<1> QED
  BY <1>3 DEF C

\* f sorts the rows of R into the groups G, and v sums each of them; l tells
\* the groups apart.
Grouped(k, w, R, f, G, l, v) ==
  /\ Weighed(k, w, R)
  /\ IsFiniteSet(G) /\ \A r \in R : f[r] \in G
  /\ \A a, b \in G : l[a] = l[b] => a = b
  /\ \A b \in G : v[b] = Weigh(k, w, {r \in R : f[r] = b})

LEMMA WeighGrouped ==
  ASSUME NEW k, NEW w, NEW R, NEW f, NEW G, NEW l, NEW v, Grouped(k, w, R, f, G, l, v)
  PROVE  Weigh(l, v, G) = Weigh(k, w, R)
<1> USE DEF Grouped
<1> DEFINE of(T) == [b \in G |-> Weigh(k, w, {r \in T : f[r] = b})]
           C == {T \in SUBSET R : Weigh(l, of(T), G) = Weigh(k, w, T)}
<1>0. \A T \in SUBSET R : Weighed(l, of(T), G)
  <2> SUFFICES ASSUME NEW T \in SUBSET R PROVE \A b \in G : of(T)[b] \in Int
    BY DEF Weighed
  <2> TAKE b \in G
  <2> DEFINE part == {r \in T : f[r] = b}
  <2>1. part \in SUBSET R
    OBVIOUS
  <2>2. of(T)[b] = Weigh(k, w, part)
    OBVIOUS
  <2> HIDE DEF part
  <2> QED
    BY <2>1, <2>2, WeighedPart, WeighType
<1>1. {} \in C
  <2> DEFINE Z == {S \in SUBSET G : Weigh(l, of({}), S) = 0}
  <2>0. Weighed(l, of({}), G)
    BY <1>0
  <2>1. {} \in Z
    BY WeighNone
  <2>2. ASSUME NEW S \in SUBSET G, NEW x \in G \ S, S \in Z
        PROVE  S \cup {x} \in Z
    <3>1. S \cup {x} \in SUBSET G /\ x \notin S
      OBVIOUS
    <3>2. of({})[x] = 0
      <4>1. {r \in {} : f[r] = x} = {}
        OBVIOUS
      <4> QED
        BY <4>1, WeighNone
    <3> HIDE DEF of
    <3>3. Weigh(l, of({}), S \cup {x}) = of({})[x] + Weigh(l, of({}), S)
      <4>1. Weighed(l, of({}), S \cup {x})
        BY <2>0, <3>1, WeighedPart
      <4> QED
        BY ONLY x \notin S, <4>1, WeighOne
    <3> QED
      BY <2>2, <3>1, <3>2, <3>3
  <2> HIDE DEF Z
  <2>3. G \in Z
    BY <2>1, <2>2, OneByOne
  <2> QED
    BY <2>3, WeighNone DEF Z
<1>2. ASSUME NEW T \in SUBSET R, NEW x \in R \ T, T \in C
      PROVE  T \cup {x} \in C
  <2> DEFINE U == T \cup {x}
             g == f[x]
             H == G \ {g}
  <2>1. U \in SUBSET R /\ x \notin T /\ g \in G /\ G = H \cup {g} /\ g \notin H /\ H \in SUBSET G
    OBVIOUS
  <2>2. \A b \in H : of(U)[b] = of(T)[b]
    <3> TAKE b \in H
    <3>1. {r \in U : f[r] = b} = {r \in T : f[r] = b}
      OBVIOUS
    <3> QED
      BY <2>1, <3>1
  <2>3. of(U)[g] = w[x] + of(T)[g] /\ w[x] \in Int
    <3> DEFINE P == {r \in T : f[r] = g}
    <3>1. {r \in U : f[r] = g} = P \cup {x} /\ P \cup {x} \in SUBSET R /\ x \notin P
      OBVIOUS
    <3>2. of(U)[g] = Weigh(k, w, {r \in U : f[r] = g}) /\ of(T)[g] = Weigh(k, w, P)
      BY <2>1
    <3> HIDE DEF P, U, g, of
    <3>3. Weigh(k, w, P \cup {x}) = w[x] + Weigh(k, w, P) /\ w[x] \in Int
      <4>1. Weighed(k, w, P \cup {x})
        BY <3>1, WeighedPart
      <4> QED
        BY <3>1, <4>1, WeighOne
    <3> QED
      BY <3>1, <3>2, <3>3
  <2>4. Weighed(l, of(T), G) /\ Weighed(l, of(U), G)
    BY <1>0, <2>1
  <2> HIDE DEF of, U, g, H
  <2>5. /\ Weigh(l, of(U), G) = of(U)[g] + Weigh(l, of(U), H)
        /\ Weigh(l, of(T), G) = of(T)[g] + Weigh(l, of(T), H)
        /\ Weigh(l, of(T), H) \in Int /\ of(T)[g] \in Int
    <3>1. Weighed(l, of(T), H \cup {g}) /\ Weighed(l, of(U), H \cup {g})
      BY <2>1, <2>4
    <3>2. /\ Weigh(l, of(U), H \cup {g}) = of(U)[g] + Weigh(l, of(U), H)
          /\ Weigh(l, of(T), H \cup {g}) = of(T)[g] + Weigh(l, of(T), H)
          /\ Weigh(l, of(T), H) \in Int /\ of(T)[g] \in Int
      <4>1. g \notin H
        BY <2>1
      <4> QED
        BY ONLY <3>1, <4>1, WeighOne
    <3> QED
      BY <2>1, <3>2
  <2>6. Weigh(l, of(U), H) = Weigh(l, of(T), H)
    BY <2>2, WeighAlike
  <2>7. Weigh(k, w, U) = w[x] + Weigh(k, w, T)
    <3>1. Weighed(k, w, T \cup {x})
      BY <2>1, WeighedPart DEF U
    <3>2. Weigh(k, w, T \cup {x}) = w[x] + Weigh(k, w, T)
      BY ONLY x \notin T, <3>1, WeighOne
    <3> QED
      BY <3>2 DEF U
  <2>8. Weigh(l, of(T), G) = Weigh(k, w, T)
    BY <1>2
  <2>9. Weigh(l, of(U), G) = Weigh(k, w, U)
    BY <2>3, <2>5, <2>6, <2>7, <2>8
  <2> QED
    BY <2>1, <2>9 DEF U
<1>3. \A b \in G : v[b] = of(R)[b]
  OBVIOUS
<1> HIDE DEF C
<1>4. R \in C
  BY <1>1, <1>2, OneByOne DEF Weighed
<1>5. Weigh(l, v, G) = Weigh(l, of(R), G)
  <2> HIDE DEF of
  <2> QED
    BY <1>3, WeighAlike
<1> QED
  BY <1>4, <1>5 DEF C

-----------------------------------------------------------------------------
(* The reports add up.                                                      *)

\* Hundredths of a cent for a hundredth of the currency.
Rate(currency) ==
  CASE currency = "USD" -> 92 [] currency = "GBP" -> 116 [] currency = "BGN" -> 51 [] currency = "DKK" -> 13 [] OTHER -> 100

LEMMA Rates ==
  ASSUME NEW amount \in Int, NEW currency
  PROVE  Rate(currency) \in Int /\ SQLiteB!amountToEUR(amount, currency) = Rate(currency) * amount
                                /\ SQLiteB!amountToEUR(amount, currency) \in Int
<1>1. Rate(currency) \in Int
  BY DEF Rate
<1>2. SQLiteB!amountToEUR(amount, currency) = amount * Rate(currency)
  BY Zenon DEF SQLiteB!amountToEUR, Rate
<1>3. amount * Rate(currency) = Rate(currency) * amount /\ Rate(currency) * amount \in Int
  BY <1>1
<1> QED
  BY <1>1, <1>2, <1>3

\* What an invoice is worth.
Worth(i) == SQLiteB!amountToEUR(i.amount, i.currency)
Numbers(R) == [i \in R |-> i.invoice]
Worths(R) == [i \in R |-> Worth(i)]

LEMMA RevenueIs ==
  ASSUME NEW R, InvoicesOK(R), NEW T \in SUBSET R
  PROVE  /\ Weighed(Numbers(R), Worths(R), T)
         /\ SQLiteB!RevenueOf(T) = Weigh(Numbers(R), Worths(R), T)
<1>1. IsFiniteSet(T)
  BY FS_Subset DEF InvoicesOK
<1>2. \A i \in R : Worths(R)[i] = Worth(i) /\ Worth(i) \in Int /\ Numbers(R)[i] = i.invoice
  <2>1. \A i \in R : i.amount \in Int
    BY DEF InvoicesOK
  <2> QED
    BY <2>1, Rates DEF Worth, Worths, Numbers
<1>3. \A i, j \in R : i.invoice = j.invoice => i = j
  BY Zenon DEF InvoicesOK, OnePerKey
<1>4. {<<i.invoice, Worth(i)>> : i \in T} = {<<Numbers(R)[i], Worths(R)[i]>> : i \in T}
  BY <1>2
<1>5. SQLiteB!RevenueOf(T) = SumOf({<<i.invoice, Worth(i)>> : i \in T})
  BY Sums, Zenon DEF SQLiteB!RevenueOf, Worth
<1> QED
  BY <1>1, <1>2, <1>3, <1>4, <1>5 DEF Weighed, Weigh

LEMMA ChartAddsUp ==
  ASSUME NEW s, InvoicesOK(s.invoices), NEW t, NEW days
  PROVE  SumOf({<<p, SQLiteB!amountToEUR(p.amount, p.currency)>> : p \in SQLiteB!GetBusinessRevenue(s, t, days)})
           = SQLiteB!sumPaidRevenueInWindow(s, t, days)
<1> DEFINE R == s.invoices
           rows == {i \in SQLiteB!Paid(s) : SQLiteB!Within(i.at, t, days)}
           f == [i \in rows |-> <<i.at \div 2, i.currency>>]
           G == {<<i.at \div 2, i.currency>> : i \in rows}
           in(b) == {i \in rows : <<i.at \div 2, i.currency>> = b}
           billed(b) == SQLiteB!SumOf({<<i.invoice, i.amount>> : i \in in(b)})
           point(b) == [day |-> b[1], currency |-> b[2], amount |-> billed(b), invoices |-> SQLiteB!Cardinality(in(b))]
           k == Numbers(R)
           w == Worths(R)
           a == [i \in R |-> i.amount]
           l == [b \in G |-> point(b)]
           v == [b \in G |-> SQLiteB!amountToEUR(billed(b), b[2])]
<1>1. rows \in SUBSET R /\ \A b : in(b) \in SUBSET R /\ in(b) = {i \in rows : f[i] = b}
  BY DEF SQLiteB!Paid
<1>2. IsFiniteSet(G)
  <2>1. f \in Surjection(rows, G)
    BY DEF Surjection
  <2>2. IsFiniteSet(rows)
    BY <1>1, FS_Subset DEF InvoicesOK
  <2> HIDE DEF f, G, rows
  <2> QED
    BY <2>1, <2>2, FS_Surjection
<1>3. \A b \in G : b = <<b[1], b[2]>> /\ \A i \in in(b) : i.currency = b[2]
  OBVIOUS
<1>4. \A b, c \in G : l[b] = l[c] => b = c
  <2> TAKE b, c \in G
  <2> HAVE l[b] = l[c]
  <2>1. point(b) = point(c)
    OBVIOUS
  <2>2. point(b).day = b[1] /\ point(b).currency = b[2] /\ point(c).day = c[1] /\ point(c).currency = c[2]
    OBVIOUS
  <2> HIDE DEF point, G, l
  <2>3. b[1] = c[1] /\ b[2] = c[2]
    BY <2>1, <2>2
  <2>4. b = <<b[1], b[2]>> /\ c = <<c[1], c[2]>>
    BY <1>3
  <2> QED
    BY <2>3, <2>4, Zenon
<1>5. \A b \in G : v[b] = Weigh(k, w, in(b))
  <2> TAKE b \in G
  <2>1. Weighed(k, a, in(b))
    <3>1. Weighed(k, w, in(b))
      BY <1>1, RevenueIs
    <3>2. \A i \in in(b) : a[i] \in Int
      BY <1>1 DEF InvoicesOK
    <3> HIDE DEF k, w, a, in
    <3> QED
      BY <3>1, <3>2 DEF Weighed
  <2>2. billed(b) = Weigh(k, a, in(b))
    <3>1. {<<i.invoice, i.amount>> : i \in in(b)} = {<<k[i], a[i]>> : i \in in(b)}
      BY <1>1 DEF Numbers
    <3> HIDE DEF in, k, a
    <3> QED
      BY <3>1, Sums DEF Weigh
  <2>3. \A i \in in(b) : w[i] = Rate(b[2]) * a[i]
    <3> TAKE i \in in(b)
    <3>1. i \in R /\ i.amount \in Int /\ i.currency = b[2]
      BY <1>1, <1>3 DEF InvoicesOK
    <3>2. w[i] = SQLiteB!amountToEUR(i.amount, i.currency) /\ a[i] = i.amount
      BY <3>1 DEF Worths, Worth
    <3> QED
      BY <3>1, <3>2, Rates
  <2>4. Weigh(k, a, in(b)) \in Int /\ Rate(b[2]) \in Int
    <3> HIDE DEF k, a, in
    <3>1. Rate(b[2]) \in Int
      BY Rates
    <3> QED
      BY <2>1, <3>1, WeighType
  <2>5. v[b] = Rate(b[2]) * Weigh(k, a, in(b))
    <3>1. v[b] = SQLiteB!amountToEUR(Weigh(k, a, in(b)), b[2])
      BY <2>2
    <3> HIDE DEF k, a, in, v
    <3> QED
      BY <2>4, <3>1, Rates
  <2> HIDE DEF k, a, in, v, w
  <2>6. Weigh(k, w, in(b)) = Rate(b[2]) * Weigh(k, a, in(b))
    BY <2>1, <2>3, <2>4, WeighScaled
  <2> QED
    BY <2>5, <2>6
<1>6. Weigh(l, v, G) = Weigh(k, w, rows)
  <2>1. Weighed(k, w, rows)
    BY <1>1, RevenueIs
  <2>2. \A i \in rows : f[i] \in G
    OBVIOUS
  <2>3. \A b \in G : v[b] = Weigh(k, w, {i \in rows : f[i] = b})
    BY <1>1, <1>5, Zenon
  <2> HIDE DEF k, w, rows, f, G, l, v
  <2>4. Grouped(k, w, rows, f, G, l, v)
    BY <1>2, <1>4, <2>1, <2>2, <2>3 DEF Grouped
  <2> QED
    BY <2>4, WeighGrouped
<1>7. SQLiteB!sumPaidRevenueInWindow(s, t, days) = Weigh(k, w, rows)
  <2>1. SQLiteB!sumPaidRevenueInWindow(s, t, days) = SQLiteB!RevenueOf(rows)
    BY DEF SQLiteB!sumPaidRevenueInWindow
  <2> HIDE DEF rows
  <2> QED
    BY <1>1, <2>1, RevenueIs
<1>8. {<<p, SQLiteB!amountToEUR(p.amount, p.currency)>> : p \in SQLiteB!GetBusinessRevenue(s, t, days)}
        = {<<l[b], v[b]>> : b \in G}
  <2>1. SQLiteB!GetBusinessRevenue(s, t, days) = {point(b) : b \in G}
    BY DEF SQLiteB!GetBusinessRevenue
  <2>2. \A b \in G : l[b] = point(b) /\ v[b] = SQLiteB!amountToEUR(point(b).amount, point(b).currency)
    OBVIOUS
  <2> HIDE DEF point, G, l, v
  <2> QED
    BY <2>1, <2>2
<1> HIDE DEF l, v, G, k, w, rows
<1> QED
  BY <1>6, <1>7, <1>8, Zenon DEF Weigh

LEMMA WindowsAddUp ==
  ASSUME NEW s, InvoicesOK(s.invoices), NEW t \in Nat, NEW days \in Nat
  PROVE  SQLiteB!sumPaidRevenueInWindow(s, t, days) + SQLiteB!sumPaidRevenueRange(s, t, 2 * days, days)
           = SQLiteB!sumPaidRevenueInWindow(s, t, 2 * days)
<1> DEFINE R == s.invoices
           late == {i \in SQLiteB!Paid(s) : SQLiteB!Within(i.at, t, days)}
           early == {i \in SQLiteB!Paid(s) : SQLiteB!Within(i.at, t, 2 * days) /\ ~SQLiteB!Within(i.at, t, days)}
           both == {i \in SQLiteB!Paid(s) : SQLiteB!Within(i.at, t, 2 * days)}
           k == Numbers(R)
           w == Worths(R)
<1>1. late \in SUBSET R /\ early \in SUBSET R /\ both \in SUBSET R
  BY DEF SQLiteB!Paid
<1>2. late \cup early = both /\ late \cap early = {}
  <2>1. \A i \in SQLiteB!Paid(s) : SQLiteB!Within(i.at, t, days) => SQLiteB!Within(i.at, t, 2 * days)
    BY DEF SQLiteB!Within, SQLiteB!Paid, InvoicesOK
  <2> QED
    BY <2>1
<1>3. /\ SQLiteB!sumPaidRevenueInWindow(s, t, days) = SQLiteB!RevenueOf(late)
      /\ SQLiteB!sumPaidRevenueRange(s, t, 2 * days, days) = SQLiteB!RevenueOf(early)
      /\ SQLiteB!sumPaidRevenueInWindow(s, t, 2 * days) = SQLiteB!RevenueOf(both)
  BY DEF SQLiteB!sumPaidRevenueInWindow, SQLiteB!sumPaidRevenueRange
<1> HIDE DEF late, early, both
<1>4. /\ SQLiteB!RevenueOf(late) = Weigh(k, w, late) /\ SQLiteB!RevenueOf(early) = Weigh(k, w, early)
      /\ SQLiteB!RevenueOf(both) = Weigh(k, w, both) /\ Weighed(k, w, both)
  BY <1>1, RevenueIs
<1> HIDE DEF k, w
<1>5. Weigh(k, w, late \cup early) = Weigh(k, w, late) + Weigh(k, w, early)
  BY <1>2, <1>4, WeighJoined
<1> QED
  BY <1>2, <1>3, <1>4, <1>5

LEMMA AccountsBounded ==
  ASSUME NEW s, SnapshotsOK(s.snapshots), NEW t, NEW days
  PROVE  LET o == SQLiteB!GetBusinessOverview(s, t, days)
         IN o.accounts <= o.active
<1> DEFINE active == {x \in s.snapshots : SQLiteB!subscriptionIsPaidActive(x.status)}
           customers == {x.customer : x \in active}
<1>1. IsFiniteSet(active)
  <2>1. active \in SUBSET s.snapshots
    OBVIOUS
  <2> HIDE DEF active
  <2> QED
    BY <2>1, FS_Subset DEF SnapshotsOK
<1>2. [x \in active |-> x.customer] \in Surjection(active, customers)
  BY DEF Surjection
<1>3. /\ SQLiteB!GetBusinessOverview(s, t, days).active = Cardinality(active)
      /\ SQLiteB!GetBusinessOverview(s, t, days).accounts = Cardinality(customers \ {Blank})
  BY BookSizes, BookBlanks DEF SQLiteB!GetBusinessOverview
<1> HIDE DEF active, customers
<1>4. IsFiniteSet(customers) /\ Cardinality(customers) <= Cardinality(active)
  BY <1>1, <1>2, FS_Surjection
<1>5. customers \ {Blank} \in SUBSET customers
  OBVIOUS
<1>6. IsFiniteSet(customers \ {Blank}) /\ Cardinality(customers \ {Blank}) <= Cardinality(customers)
  BY <1>4, <1>5, FS_Subset
<1>7. Cardinality(active) \in Nat /\ Cardinality(customers) \in Nat /\ Cardinality(customers \ {Blank}) \in Nat
  BY <1>1, <1>4, <1>6, FS_CardinalityType
<1> QED
  BY <1>3, <1>4, <1>6, <1>7

LEMMA SubscriptionsListed ==
  ASSUME NEW s, SnapshotsOK(s.snapshots), NEW t, NEW days
  PROVE  Cardinality(SQLiteB!ListBusinessSubscriptions(s, Blank)) = SQLiteB!GetBusinessOverview(s, t, days).subscriptions
<1> DEFINE line(x) == [snapshot |-> x, email |-> {u.email : u \in SQLiteB!GetUserByID(s, x.user)},
                       invoice |-> {<<i.paid, i.amount, i.remaining>> : i \in {j \in s.invoices : j.invoice = x.invoice}}]
           all == {r \in s.snapshots : Blank \in {SQLiteB!Blank, r.status}}
           list == {line(x) : x \in s.snapshots}
<1>1. all = s.snapshots
  BY BookBlanks
<1>2. SQLiteB!ListBusinessSubscriptions(s, Blank) = {line(x) : x \in all}
  BY Zenon DEF SQLiteB!ListBusinessSubscriptions
<1>3. \A x, y : line(x) = line(y) => x = y
  <2> TAKE x, y
  <2>1. line(x).snapshot = x /\ line(y).snapshot = y
    OBVIOUS
  <2> HIDE DEF line
  <2> QED
    BY <2>1
<1> HIDE DEF line, all
<1>4. [x \in s.snapshots |-> line(x)] \in Bijection(s.snapshots, list)
  BY <1>3 DEF Bijection, Injection, Surjection, IsInjective
<1>5. Cardinality(list) = Cardinality(s.snapshots)
  <2> HIDE DEF list
  <2> QED
    BY <1>4, FS_Bijection DEF SnapshotsOK, ExistsBijection
<1>6. SQLiteB!GetBusinessOverview(s, t, days).subscriptions = Cardinality(s.snapshots)
  BY BookSizes DEF SQLiteB!GetBusinessOverview
<1> QED
  BY <1>1, <1>2, <1>5, <1>6

\* Counts by a column sum to the count.
LEMMA BreakdownAddsUp ==
  ASSUME NEW rows, IsFiniteSet(rows), NEW key,
         NEW counts, counts = {<<b, SQLiteB!Cardinality({r \in rows : key[r] = b})>> : b \in {key[r] : r \in rows}}
  PROVE  SumOf(counts) = Cardinality(rows)
<1> DEFINE G == {key[r] : r \in rows}
           k == [r \in rows |-> r]
           w == [r \in rows |-> 1]
           l == [b \in G |-> b]
           v == [b \in G |-> SQLiteB!Cardinality({r \in rows : key[r] = b})]
<1>1. Weighed(k, w, rows) /\ \A r \in rows : w[r] = 1
  BY DEF Weighed
<1>2. IsFiniteSet(G)
  <2>1. [r \in rows |-> key[r]] \in Surjection(rows, G)
    BY DEF Surjection
  <2> HIDE DEF G
  <2> QED
    BY <2>1, FS_Surjection
<1>3. \A b \in G : v[b] = Weigh(k, w, {r \in rows : key[r] = b})
  <2> TAKE b \in G
  <2> DEFINE part == {r \in rows : key[r] = b}
  <2>1. part \in SUBSET rows /\ v[b] = SQLiteB!Cardinality(part)
    OBVIOUS
  <2> HIDE DEF part, k, w, v
  <2>2. Weighed(k, w, part) /\ \A r \in part : w[r] = 1
    BY <1>1, <2>1, WeighedPart
  <2>3. Weigh(k, w, part) = Cardinality(part)
    BY <2>2, WeighCounted
  <2> QED
    BY <2>1, <2>3, BookSizes DEF part
<1>4. \A r \in rows : key[r] \in G
  OBVIOUS
<1>5. \A b, c \in G : l[b] = l[c] => b = c
  OBVIOUS
<1>6. counts = {<<l[b], v[b]>> : b \in G}
  OBVIOUS
<1> HIDE DEF G, k, w, l, v
<1>7. Grouped(k, w, rows, key, G, l, v)
  BY <1>1, <1>2, <1>3, <1>4, <1>5 DEF Grouped
<1>8. Weigh(l, v, G) = Weigh(k, w, rows)
  BY <1>7, WeighGrouped
<1>9. Weigh(k, w, rows) = Cardinality(rows)
  BY <1>1, WeighCounted
<1>10. SumOf(counts) = Weigh(l, v, G)
  BY <1>6, Zenon DEF Weigh
<1> QED
  BY <1>8, <1>9, <1>10

LEMMA RunsAddUp ==
  ASSUME NEW s, NEW p, Paired(s, p), NEW t, NEW days
  PROVE  LET runs == SQLiteB!GetSearchOpsStats(s, t, days)
         IN /\ SumOf(runs.byStatus) = runs.total /\ SumOf(runs.byCountry) = runs.total
            /\ runs.success + runs.failed <= runs.total
<1> DEFINE rows == {r \in s.runs : SQLiteB!StartedWithin(r.at, t, days)}
           named(x) == IF x = Blank THEN "unknown" ELSE x
           status == [r \in rows |-> named(r.status)]
           country == [r \in rows |-> named(r.country)]
           A == {<<b, SQLiteB!Cardinality({r \in rows : status[r] = b})>> : b \in {status[r] : r \in rows}}
           B == {<<b, SQLiteB!Cardinality({r \in rows : country[r] = b})>> : b \in {country[r] : r \in rows}}
           good == {r \in rows : r.status = "success"}
           bad == {r \in rows : r.code \notin {Blank, "out_of_scope"}}
           runs == SQLiteB!GetSearchOpsStats(s, t, days)
<1>1. IsFiniteSet(s.runs) /\ \A r \in s.runs : r.status = "success" => r.code = Blank
  BY RunsKept
<1>2. IsFiniteSet(rows)
  <2>1. rows \in SUBSET s.runs
    OBVIOUS
  <2> HIDE DEF rows
  <2> QED
    BY <1>1, <2>1, FS_Subset
<1>3. /\ runs.total = Cardinality(rows) /\ runs.success = Cardinality(good) /\ runs.failed = Cardinality(bad)
  BY BookSizes, BookBlanks DEF SQLiteB!GetSearchOpsStats
<1>4. runs.byStatus = A
  <2>1. runs.byStatus = {<<k, SQLiteB!Cardinality({r \in rows : named(r.status) = k})>> : k \in {named(r.status) : r \in rows}}
    BY BookBlanks, ZenonT(60) DEF SQLiteB!GetSearchOpsStats, SQLiteB!searchOpsBreakdown
  <2>2. \A r \in rows : status[r] = named(r.status)
    OBVIOUS
  <2> HIDE DEF rows, status, named, runs
  <2>3. \A k : {r \in rows : named(r.status) = k} = {r \in rows : status[r] = k}
    BY ONLY <2>2
  <2>4. {named(r.status) : r \in rows} = {status[r] : r \in rows}
    BY ONLY <2>2
  <2> DEFINE X == {named(r.status) : r \in rows}
             Y == {status[r] : r \in rows}
             n(k) == SQLiteB!Cardinality({r \in rows : named(r.status) = k})
             m(k) == SQLiteB!Cardinality({r \in rows : status[r] = k})
  <2>5. X = Y /\ \A k : n(k) = m(k)
    BY <2>3, <2>4
  <2>6. runs.byStatus = {<<k, n(k)>> : k \in X} /\ A = {<<k, m(k)>> : k \in Y}
    BY <2>1
  <2> HIDE DEF X, Y, n, m, A
  <2> QED
    BY <2>5, <2>6
<1>5. runs.byCountry = B
  <2>1. runs.byCountry = {<<k, SQLiteB!Cardinality({r \in rows : named(r.country) = k})>> : k \in {named(r.country) : r \in rows}}
    BY BookBlanks, ZenonT(60) DEF SQLiteB!GetSearchOpsStats, SQLiteB!searchOpsBreakdown
  <2>2. \A r \in rows : country[r] = named(r.country)
    OBVIOUS
  <2> HIDE DEF rows, country, named, runs
  <2>3. \A k : {r \in rows : named(r.country) = k} = {r \in rows : country[r] = k}
    BY ONLY <2>2
  <2>4. {named(r.country) : r \in rows} = {country[r] : r \in rows}
    BY ONLY <2>2
  <2> DEFINE X == {named(r.country) : r \in rows}
             Y == {country[r] : r \in rows}
             n(k) == SQLiteB!Cardinality({r \in rows : named(r.country) = k})
             m(k) == SQLiteB!Cardinality({r \in rows : country[r] = k})
  <2>5. X = Y /\ \A k : n(k) = m(k)
    BY <2>3, <2>4
  <2>6. runs.byCountry = {<<k, n(k)>> : k \in X} /\ B = {<<k, m(k)>> : k \in Y}
    BY <2>1
  <2> HIDE DEF X, Y, n, m, B
  <2> QED
    BY <2>5, <2>6
<1>6. good \cup bad \in SUBSET rows /\ good \in SUBSET rows /\ bad \in SUBSET rows /\ good \cap bad = {}
  BY <1>1
<1> HIDE DEF rows, status, country, good, bad, runs
<1>7. SumOf(A) = Cardinality(rows) /\ SumOf(B) = Cardinality(rows)
  BY <1>2, BreakdownAddsUp
<1>8. Cardinality(good) + Cardinality(bad) <= Cardinality(rows)
  <2>1. IsFiniteSet(good) /\ IsFiniteSet(bad) /\ Cardinality(good \cup bad) <= Cardinality(rows)
    BY <1>2, <1>6, FS_Subset
  <2>2. Cardinality(good \cup bad) = Cardinality(good) + Cardinality(bad) - Cardinality(good \cap bad)
    BY <2>1, FS_Union
  <2>3. Cardinality(good \cap bad) = 0
    BY <1>6, FS_EmptySet
  <2>4. Cardinality(good) \in Nat /\ Cardinality(bad) \in Nat
    BY <2>1, FS_CardinalityType
  <2> QED
    BY <2>1, <2>2, <2>3, <2>4
<1> QED
  BY <1>3, <1>4, <1>5, <1>7, <1>8 DEF runs

\* Booked for a user or for nobody.
LEMMA UsageAddsUp ==
  ASSUME NEW s, NEW p, Paired(s, p), NEW t, NEW days
  PROVE  SumOf({<<u, SQLiteB!GetUserAIUsageStats(s, t, u, days).tokens>> : u \in Users \cup {Blank}})
           = SQLiteB!GetAIUsageStats(s, t, days).tokens
<1> DEFINE Booked == Users \cup {Blank}
           rows == {r \in s.usage : SQLiteB!Within(r.at, t, days)}
           k == [r \in rows |-> r.id]
           w == [r \in rows |-> r.tokens]
           f == [r \in rows |-> r.user]
           l == [u \in Booked |-> u]
           of(u) == {r \in s.usage : r.user = u /\ SQLiteB!Within(r.at, t, days)}
           v == [u \in Booked |-> SQLiteB!GetUserAIUsageStats(s, t, u, days).tokens]
<1>1. /\ IsFiniteSet(s.usage) /\ \A r, q \in s.usage : r.id = q.id => r = q
      /\ \A r \in s.usage : r.user \in Booked /\ r.tokens \in Nat
  <2>1. TablePair("usage", s["usage"], p["usage"], s.ids) /\ s.ids \in Nat
    BY DEF Paired, Tables, Schema
  <2>2. Keyed(s.usage, s.ids)
    BY <2>1 DEF TablePair, Numbered
  <2>3. \A r \in s.usage : LogRow("usage", r)
    BY <2>1 DEF TablePair, Unique
  <2> QED
    BY <2>1, <2>2, <2>3, FiniteWhenKeyed DEF LogRow, Keyed
<1>2. rows \in SUBSET s.usage /\ \A u : of(u) = {r \in rows : f[r] = u}
  OBVIOUS
<1>3. Weighed(k, w, rows)
  <2>1. IsFiniteSet(rows)
    <3> HIDE DEF rows
    <3> QED
      BY <1>1, <1>2, FS_Subset
  <2> QED
    BY <1>1, <2>1 DEF Weighed
<1>4. \A T \in SUBSET rows : SQLiteB!UsageStats(T).tokens = Weigh(k, w, T)
  <2> TAKE T \in SUBSET rows
  <2>1. {<<r.id, r.tokens>> : r \in T} = {<<k[r], w[r]>> : r \in T}
    OBVIOUS
  <2>2. SQLiteB!UsageStats(T).tokens = SQLiteB!SumOf({<<r.id, r.tokens>> : r \in T})
    BY DEF SQLiteB!UsageStats
  <2> HIDE DEF k, w
  <2> QED
    BY <2>1, <2>2, Sums DEF Weigh
<1>5. SQLiteB!GetAIUsageStats(s, t, days).tokens = Weigh(k, w, rows)
  <2>1. SQLiteB!GetAIUsageStats(s, t, days) = SQLiteB!UsageStats(rows)
    BY Zenon DEF SQLiteB!GetAIUsageStats
  <2> HIDE DEF rows, k, w
  <2> QED
    BY <1>4, <2>1
<1>6. \A u \in Booked : v[u] = Weigh(k, w, {r \in rows : f[r] = u})
  <2> TAKE u \in Booked
  <2>1. v[u] = SQLiteB!UsageStats(of(u)).tokens
    BY Zenon DEF SQLiteB!GetUserAIUsageStats
  <2>2. of(u) \in SUBSET rows
    OBVIOUS
  <2> HIDE DEF rows, k, w, of, v, f
  <2>3. SQLiteB!UsageStats(of(u)).tokens = Weigh(k, w, of(u))
    BY <1>4, <2>2
  <2> QED
    BY <1>2, <2>1, <2>3
<1>7. {<<u, SQLiteB!GetUserAIUsageStats(s, t, u, days).tokens>> : u \in Booked} = {<<l[u], v[u]>> : u \in Booked}
  OBVIOUS
<1>8. \A r \in rows : f[r] \in Booked
  BY <1>1
<1>9. \A a, b \in Booked : l[a] = l[b] => a = b
  OBVIOUS
<1>0. IsFiniteSet(Booked)
  BY BooksAssumption, FS_AddElement
<1> HIDE DEF rows, k, w, f, l, v, Booked
<1>10. Grouped(k, w, rows, f, Booked, l, v)
  BY <1>0, <1>3, <1>6, <1>8, <1>9 DEF Grouped
<1>11. Weigh(l, v, Booked) = Weigh(k, w, rows)
  BY <1>10, WeighGrouped
<1> QED
  BY <1>5, <1>7, <1>11, Zenon DEF Weigh, Booked

LEMMA FunnelNarrows ==
  ASSUME NEW s, UsersOK(s.users), NEW t, NEW days
  PROVE  LET funnel == SQLiteB!GetBusinessFunnel(s, t, days)
         IN funnel.activated <= funnel.signups /\ funnel.paid <= funnel.signups
<1> DEFINE S == {u \in s.users : SQLiteB!Within(u.at, t, days)}
           A == {u \in S : \E r \in s.missions \cup s.searches : r.user = u.id}
           C == {u \in S : \E r \in s.snapshots : r.user = u.id /\ SQLiteB!subscriptionIsPaidActive(r.status)}
           funnel == SQLiteB!GetBusinessFunnel(s, t, days)
<1>1. funnel.signups = Cardinality(S) /\ funnel.activated = Cardinality(A) /\ funnel.paid = Cardinality(C)
  BY BookSizes DEF SQLiteB!GetBusinessFunnel
<1>2. S \in SUBSET s.users /\ A \in SUBSET S /\ C \in SUBSET S
  OBVIOUS
<1> HIDE DEF S, A, C
<1>3. IsFiniteSet(S)
  BY <1>2, FS_Subset DEF UsersOK
<1> QED
  BY <1>1, <1>2, <1>3, FS_Subset

LEMMA BooksKept ==
  ASSUME NEW s, NEW p, Paired(s, p)
  PROVE  UsersOK(s.users) /\ SnapshotsOK(s.snapshots) /\ InvoicesOK(s.invoices)
<1>1. /\ TablePair("users", s["users"], p["users"], s.ids) /\ TablePair("snapshots", s["snapshots"], p["snapshots"], s.ids)
      /\ TablePair("invoices", s["invoices"], p["invoices"], s.ids)
  BY DEF Paired, Tables
<1>2. Unique("users", s["users"]) /\ Unique("snapshots", s["snapshots"]) /\ Unique("invoices", s["invoices"])
  BY <1>1, Zenon DEF TablePair
<1> QED
  BY <1>2, Zenon DEF Unique

LEMMA InvReports ==
  ASSUME StoresInv
  PROVE  ReportsAddUp
<1>1. Paired(sqlite, postgres) /\ now \in Nat
  BY DEF StoresInv
<1>2. UsersOK(sqlite.users) /\ SnapshotsOK(sqlite.snapshots) /\ InvoicesOK(sqlite.invoices)
  BY <1>1, BooksKept
<1>3. ASSUME NEW days \in 1..2
      PROVE  LET o == SQLiteB!GetBusinessOverview(sqlite, now, days)
                 funnel == SQLiteB!GetBusinessFunnel(sqlite, now, days)
                 runs == SQLiteB!GetSearchOpsStats(sqlite, now, days)
             IN /\ SumOf({<<p, SQLiteB!amountToEUR(p.amount, p.currency)>> : p \in SQLiteB!GetBusinessRevenue(sqlite, now, days)}) = o.recent
                /\ o.recent + o.previous = SQLiteB!sumPaidRevenueInWindow(sqlite, now, 2 * days)
                /\ o.accounts <= o.active
                /\ Cardinality(SQLiteB!ListBusinessSubscriptions(sqlite, Blank)) = o.subscriptions
                /\ SumOf(runs.byStatus) = runs.total /\ SumOf(runs.byCountry) = runs.total
                /\ runs.success + runs.failed <= runs.total
                /\ SumOf({<<u, SQLiteB!GetUserAIUsageStats(sqlite, now, u, days).tokens>> : u \in Users \cup {Blank}})
                     = SQLiteB!GetAIUsageStats(sqlite, now, days).tokens
                /\ funnel.activated <= funnel.signups /\ funnel.paid <= funnel.signups
  <2> DEFINE o == SQLiteB!GetBusinessOverview(sqlite, now, days)
             funnel == SQLiteB!GetBusinessFunnel(sqlite, now, days)
             runs == SQLiteB!GetSearchOpsStats(sqlite, now, days)
  <2>1. days \in Nat
    OBVIOUS
  <2>2. /\ o.recent = SQLiteB!sumPaidRevenueInWindow(sqlite, now, days)
        /\ o.previous = SQLiteB!sumPaidRevenueRange(sqlite, now, 2 * days, days)
    BY DEF SQLiteB!GetBusinessOverview
  <2>3. SumOf({<<p, SQLiteB!amountToEUR(p.amount, p.currency)>> : p \in SQLiteB!GetBusinessRevenue(sqlite, now, days)}) = o.recent
    <3>1. SumOf({<<p, SQLiteB!amountToEUR(p.amount, p.currency)>> : p \in SQLiteB!GetBusinessRevenue(sqlite, now, days)})
            = SQLiteB!sumPaidRevenueInWindow(sqlite, now, days)
      BY <1>2, ChartAddsUp, Zenon
    <3> QED
      BY <2>2, <3>1, Zenon
  <2>4. o.recent + o.previous = SQLiteB!sumPaidRevenueInWindow(sqlite, now, 2 * days)
    <3>1. SQLiteB!sumPaidRevenueInWindow(sqlite, now, days) + SQLiteB!sumPaidRevenueRange(sqlite, now, 2 * days, days)
            = SQLiteB!sumPaidRevenueInWindow(sqlite, now, 2 * days)
      BY <1>1, <1>2, <2>1, WindowsAddUp, Zenon
    <3> QED
      BY <2>2, <3>1, Zenon
  <2>5. o.accounts <= o.active
    BY <1>2, AccountsBounded, Zenon
  <2>6. Cardinality(SQLiteB!ListBusinessSubscriptions(sqlite, Blank)) = o.subscriptions
    BY <1>2, SubscriptionsListed, Zenon
  <2>7. /\ SumOf(runs.byStatus) = runs.total /\ SumOf(runs.byCountry) = runs.total
        /\ runs.success + runs.failed <= runs.total
    BY <1>1, RunsAddUp, Zenon
  <2>8. SumOf({<<u, SQLiteB!GetUserAIUsageStats(sqlite, now, u, days).tokens>> : u \in Users \cup {Blank}})
          = SQLiteB!GetAIUsageStats(sqlite, now, days).tokens
    BY <1>1, UsageAddsUp, Zenon
  <2>9. funnel.activated <= funnel.signups /\ funnel.paid <= funnel.signups
    BY <1>2, FunnelNarrows, Zenon
  <2> QED
    BY <2>3, <2>4, <2>5, <2>6, <2>7, <2>8, <2>9, Zenon
<1> QED
  BY <1>3, Zenon DEF ReportsAddUp

\* ReportsAddUp for any rows: the revenue chart, the ops counts, the breakdown of
\* subscriptions, the usage totals (with the anonymous analyses, which are in no
\* user's) and the funnel, each computed by a query of its own, agree.
THEOREM BooksAddUp == BothSpec => []ReportsAddUp
<1> QED
  BY StoresStayPaired, InvReports, PTL
=============================================================================
