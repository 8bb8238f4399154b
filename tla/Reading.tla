------------------------------- MODULE Reading -------------------------------
(***************************************************************************)
(* The reading side of the API: a client lists, or a client follows links. *)
(* Requests share nothing but the database, so that one client at a time   *)
(* and the transactions that commit meanwhile show all there is.           *)
(***************************************************************************)
EXTENDS ListPages, LinkTraversal

NoList == [at |-> "none"]
NoVisit == [at |-> "none"]

readingVars == <<listVars, linkVars>>

ReadingInit ==
  \/ ListInit /\ visit = NoVisit /\ inserts = 0 /\ data = [t \in {} |-> {}]
  \/ LinkInit /\ list = NoList /\ writes = 0 /\ rows = {}

ReadingNext ==
  \/ list # NoList /\ ListNext /\ UNCHANGED linkVars
  \/ visit # NoVisit /\ LinkNext /\ UNCHANGED listVars

ReadingSpec == ReadingInit /\ [][ReadingNext]_readingVars
=============================================================================
