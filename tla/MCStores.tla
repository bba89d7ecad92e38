------------------------------ MODULE MCStores ------------------------------
(* The two stores behind store.Store, and the outreach threads, whose       *)
(* requests issue their calls one by one; a behaviour runs one of the two.  *)
(*                                                                         *)
(* Two users; two items, one of which is found at two prices; a monthly and *)
(* a yearly subscription; an invoice that is paid late, and another.        *)
EXTENDS Books, Outreach
Found(i, text, price, market, score, offer) ==
  [item |-> i, text |-> text, price |-> price, market |-> market, score |-> score, offer |-> offer,
   action |-> "buy", source |-> "ai"]
MCFinds == {Found(1, "t", 5, "olxbg", 1, 0), Found(1, "s", 4, "olxbg", 3, 4), Found(2, "t", 5, "", 1, 3)}
MCSamples == {<<"q", "", "m", 4>>, <<"q", "k", "m", 8>>, <<"r", "k", "m", 6>>}
MCEmails == {<<"a", "a">>, <<"a", "A">>, <<"b", "b">>}
Subscription(sub, status, yearly, currency) ==
  [sub |-> sub, customer |-> "cus", status |-> status, yearly |-> yearly, amount |-> 24, currency |-> currency, invoice |-> "i1"]
MCSubscriptions == {Subscription("s1", "active", FALSE, "EUR"), Subscription("s1", "canceled", FALSE, "EUR"),
                    Subscription("s2", "past_due", TRUE, "USD")}
Invoice(id, paid, currency) ==
  [invoice |-> id, paid |-> paid, amount |-> IF paid THEN 24 ELSE 0, remaining |-> IF paid THEN 0 ELSE 24, currency |-> currency]
MCInvoices == {Invoice("i1", FALSE, "EUR"), Invoice("i1", TRUE, "EUR"), Invoice("i2", TRUE, "USD")}

VARIABLE part
vars == <<part, storesVars, outreachVars>>

TablesInit ==
  /\ part \in {"stores", "outreach"}
  /\ StoresInit \/ BooksInit
  /\ OutreachInit
  /\ part = "stores" => backend = "postgres"
  /\ part = "outreach" => area = "books"

TablesNext ==
  /\ UNCHANGED part
  /\ \/ part = "stores" /\ (StoresNext \/ BooksNext) /\ UNCHANGED outreachVars
     \/ part = "outreach" /\ OutreachNext /\ UNCHANGED storesVars

TablesSpec ==
  /\ TablesInit /\ [][TablesNext]_vars
  /\ WF_outreachVars(part = "outreach" /\ ThreadsAge)
  /\ WF_outreachVars(part = "outreach" /\ TransitionStaleThreads)
=============================================================================
