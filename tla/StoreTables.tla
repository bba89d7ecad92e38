---------------------------- MODULE StoreTables ----------------------------
(***************************************************************************)
(* Tables as sets of rows, and the SQL statements the two stores are made   *)
(* of.  A row is a record; its columns are the ones that decide something,  *)
(* and "text" stands for the columns that are written as they come.         *)
(***************************************************************************)
EXTENDS Naturals, FiniteSets, Sequences, SequencesExt

\* An empty text.
Blank == ""

\* The schema of migrate(); ids: what the next generated id follows.
EmptyDb == [
  listings |-> {}, prices |-> {}, missions |-> {}, shortlist |-> {}, artifacts |-> {}, sessions |-> {}, drafts |-> {},
  users |-> {}, searches |-> {}, events |-> {}, processed |-> {}, identities |-> {}, runs |-> {}, audit |-> {},
  webhooks |-> {}, snapshots |-> {}, history |-> {}, invoices |-> {}, mutations |-> {}, reconciles |-> {},
  scores |-> {}, usage |-> {}, ids |-> 0]

\* UPDATE ... SET With WHERE Where.
Changed(table, Where(_), With(_)) == {IF Where(r) THEN With(r) ELSE r : r \in table}

\* INSERT ... ON CONFLICT (Same) DO UPDATE SET With.
Upserted(table, row, Same(_), With(_)) ==
  IF \E r \in table : Same(r) THEN Changed(table, Same, With) ELSE table \cup {row}

\* INSERT ... ON CONFLICT (Same) DO NOTHING.
InsertedOnce(table, row, Same(_)) == Upserted(table, row, Same, LAMBDA r : r)

\* INSERT with a generated id.
Appended(db, table, row) == [db EXCEPT ![table] = @ \cup {[row EXCEPT !.id = db.ids + 1]}, !.ids = @ + 1]

\* ORDER BY At DESC LIMIT 1: the rows that may come first.
Latest(rows, At(_)) == {r \in rows : \A s \in rows : At(s) <= At(r)}

\* ORDER BY ... LIMIT limit OFFSET offset: rows with their places.
Paged(rows, Before(_, _), limit, offset) ==
  LET place(r) == Cardinality({q \in rows : Before(q, r)})
  IN {<<place(r), r>> : r \in {q \in rows : place(q) \in offset..(offset + limit - 1)}}

\* The sum of the values of <<id, value>> pairs.
SumOf(pairs) == FoldSet(LAMBDA p, sum : p[2] + sum, 0, pairs)

\* A listing belongs to a user by its key; without a user it is "local".
scopedItemID(user, item) == <<IF user = Blank THEN "local" ELSE user, item>>
unscopedItemID(id) == id[2]
\* item_id LIKE 'user::%'.
OfUser(l, user) == l.item[1] = scopedItemID(user, Blank)[1]
=============================================================================
