------------------------------ MODULE ListPages ------------------------------
(***************************************************************************)
(* Lists that a client reads page by page: the object search (object       *)
(* runtime and repository), the lists of action executions and of audit    *)
(* logs, and the search of executions that also answers a total.           *)
(*                                                                         *)
(* A page is a statement of its own: the next one skips as many rows as    *)
(* were asked for so far, whatever has been committed in between.          *)
(***************************************************************************)
EXTENDS Integers, Sequences, FiniteSets, SequencesExt

CONSTANTS
  Properties,     \* stored properties of the object type, by name
  Listings,       \* requests a client may make, see below
  Contents,       \* contents the table read from may have at first
  NewRows,        \* rows that another transaction may insert
  MaxWrites       \* bound: transactions that commit during the listing

NullValue == 0    \* no other value of a nullable column
Started == 1      \* execution statuses
Succeeded == 2
Unsuccessful == 3

(* _OPERATOR_TYPES                                                         *)
OperatorsOf == [
  string |-> {"equals", "notEquals", "in", "contains"},
  enum   |-> {"equals", "notEquals", "in"},
  number |-> {"equals", "notEquals", "in", "greaterThan",
              "greaterThanOrEqual", "lessThan", "lessThanOrEqual"}]

ASSUME PropertyAssumption ==
  \A p \in DOMAIN Properties :
    Properties[p] \in [type : DOMAIN OperatorsOf, searchable : BOOLEAN,
                       filterable : BOOLEAN, sortable : BOOLEAN]

Lists == {"objects", "executions", "audits"}

HistoryColumns == [executions |-> {"id", "at", "status", "object", "affected"},
                   audits     |-> {"id", "at", "object"}]

(* A request for a list: pages have room, a sort has a direction, and the  *)
(* filters of a history compare a status and look for an object among      *)
(* those affected.                                                         *)
ListingOK(request) ==
  /\ request.from \in Lists
  /\ request.limit \in Nat \ {0}
  /\ IF request.from = "objects"
     THEN /\ request.sort \in Seq(Range(request.sort))
          /\ \A s \in Range(request.sort) : s.direction \in {"asc", "desc"}
     ELSE /\ request.query = {}
          /\ \A f \in Range(request.filters) :
               /\ f.property \in HistoryColumns[request.from]
               /\ f.property = "status" => f.operator = "equals"
               /\ f.property = "affected" => f.operator = "contains"

(* A row: its primary key and what lists are sorted by; an execution under *)
(* way has no affected objects yet.                                        *)
RowOK(from, row) ==
  /\ "id" \in DOMAIN row /\ row.id \in Nat \ {NullValue}
  /\ IF from = "objects"
     THEN \A p \in DOMAIN Properties :
            Properties[p].sortable => p \in DOMAIN row /\ row[p] \in Int
     ELSE DOMAIN row = HistoryColumns[from] /\ row.at \in Int
  /\ from = "executions" /\ row.status = Started => row.affected = {}

TableOK(from, table) ==
  /\ IsFiniteSet(table)
  /\ \A row \in table : RowOK(from, row)
  /\ \A a, b \in table : a.id = b.id => a = b

ASSUME ListsAssumption ==
  /\ \A request \in Listings : ListingOK(request)
  /\ \A from \in Lists : \A table \in Contents[from] : TableOK(from, table)
  /\ \A from \in Lists : \A row \in NewRows[from] : RowOK(from, row)

VARIABLES
  rows,     \* the table the client reads from: a set of rows
  list,     \* the client's request and what it has got, see below
  writes    \* transactions that have committed

listVars == <<rows, list, writes>>

-----------------------------------------------------------------------------
(* What a request asks for.                                                *)
OfObjects(request) == request.from = "objects"

Queryable(p) == p \in DOMAIN Properties

FilterRefused(f) ==
  \/ ~Queryable(f.property)
  \/ ~Properties[f.property].filterable
  \/ f.operator \notin OperatorsOf[Properties[f.property].type]
  \/ ~f.wellTyped

SortRefused(s) == ~Queryable(s.property) \/ ~Properties[s.property].sortable

(* Audit policies are the audit resources there are.  The first one named  *)
(* for the list counts, else the only one.                                 *)
AuditKey(request) ==
  LET named == {k \in request.policies : request.from \in k.about}
      pool == IF named # {} THEN named ELSE request.policies
  IN IF pool = {} \/ (named = {} /\ Cardinality(pool) # 1) THEN {}
     ELSE {CHOOSE k \in pool : \A other \in pool : k.rank <= other.rank}

ListProblem(request) ==
  IF OfObjects(request)
  THEN CASE ~request.known -> "OBJECT_TYPE_NOT_FOUND"
         [] ~request.mapped -> "INVALID_ONTOLOGY_MAPPING"
         [] \/ request.query # {} /\ ~\E p \in DOMAIN Properties : Properties[p].searchable
            \/ \E f \in Range(request.filters) : FilterRefused(f)
            \/ \E s \in Range(request.sort) : SortRefused(s)
            \/ request.cursor = "malformed" -> "INVALID_REQUEST"
         [] OTHER -> "ok"
  ELSE CASE AuditKey(request) = {} -> "INVALID_REQUEST"
         [] \E k \in AuditKey(request) : ~k.granted -> "OPERATION_NOT_PERMITTED"
         [] OTHER -> "ok"

(* SQL: a comparison with NULL never holds.                                *)
Passes(row, f) ==
  LET value == row[f.property] IN
  CASE f.operator = "contains" -> f.value \in value
    [] f.operator = "equals" -> value # NullValue /\ value = f.value
    [] f.operator = "notEquals" -> value # NullValue /\ value # f.value
    [] f.operator = "in" -> value # NullValue /\ value \in f.value
    [] f.operator = "greaterThan" -> value # NullValue /\ value > f.value
    [] f.operator = "greaterThanOrEqual" -> value # NullValue /\ value >= f.value
    [] f.operator = "lessThan" -> value # NullValue /\ value < f.value
    [] f.operator = "lessThanOrEqual" -> value # NullValue /\ value <= f.value

Answers(request, row) ==
  /\ \A f \in Range(request.filters) : Passes(row, f)
  /\ request.query # {} => \E p \in DOMAIN Properties :
                             Properties[p].searchable /\ request.query \subseteq row[p]

Matching(request, table) == {row \in table : Answers(request, row)}

Ascending(p) == [property |-> p, direction |-> "asc"]
Descending(p) == [property |-> p, direction |-> "desc"]

(* list_audit_logs, and the lists of executions: the latest first.         *)
LatestFirst == <<Descending("at"), Descending("id")>>

(* Mutant of Sorting: the identifier does not break ties.                  *)
SortingAsAsked(request) ==
  IF OfObjects(request) THEN request.sort ELSE <<Descending("at")>>

(* _normalize_sort; the order_by of the two histories                      *)
Sorting(request) ==
  IF ~OfObjects(request) THEN LatestFirst
  ELSE IF request.sort # <<>> /\ Last(request.sort).property = "id" THEN request.sort
  ELSE Append(request.sort, Ascending("id"))

(* NULLS LAST in both directions.                                          *)
Smaller(direction, a, b) ==
  /\ a # NullValue
  /\ \/ b = NullValue
     \/ direction = "asc" /\ a < b
     \/ direction = "desc" /\ a > b

Precedes(sorting, a, b) ==
  \E k \in 1..Len(sorting) :
    /\ \A earlier \in 1..(k - 1) :
         a[sorting[earlier].property] = b[sorting[earlier].property]
    /\ Smaller(sorting[k].direction, a[sorting[k].property], b[sorting[k].property])

Ahead(table, sorting, row) == {other \in table : Precedes(sorting, other, row)}

(* The database orders rows that tie as it likes, at every statement; when *)
(* none do, the row that k - 1 rows are ahead of comes k-th.               *)
Orders(table, sorting) ==
  LET total == \A a, b \in table : a = b \/ Precedes(sorting, a, b) \/ Precedes(sorting, b, a)
      place == [row \in table |-> Cardinality(Ahead(table, sorting, row)) + 1]
      fits(order) == \A k, l \in DOMAIN order : k < l => ~Precedes(sorting, order[l], order[k])
  IN IF total THEN {[k \in 1..Cardinality(table) |-> CHOOSE row \in table : place[row] = k]}
     ELSE {order \in SetToSeqs(table) : fits(order)}

Ids(order) == [k \in DOMAIN order |-> order[k].id]

-----------------------------------------------------------------------------
(* The client's side, and the statements it causes.                        *)
Counts(request) == request.from = "executions" /\ request.total

ListInit ==
  /\ writes = 0
  /\ \E request \in Listings :
       /\ rows \in Contents[request.from]
       /\ list = [request |-> request,
                  at      |-> "asked",    \* count, page, listed or refused
                  code    |-> "ok",
                  offset  |-> 0,
                  total   |-> 0,          \* as the last count found it
                  seen    |-> <<>>,       \* identifiers on the pages so far
                  first   |-> {},         \* rows that matched at the first statement
                  moved   |-> FALSE]      \* have the listed rows changed since

FirstStatement == IF Counts(list.request) THEN "count" ELSE "page"

RefuseList ==
  /\ list.at = "asked"
  /\ ListProblem(list.request) # "ok"
  /\ list' = [list EXCEPT !.at = "refused", !.code = ListProblem(list.request)]
  /\ UNCHANGED <<rows, writes>>

BeginList ==
  /\ list.at = "asked"
  /\ ListProblem(list.request) = "ok"
  /\ list' = [list EXCEPT !.at = FirstStatement,
                          !.first = {row.id : row \in Matching(list.request, rows)}]
  /\ UNCHANGED <<rows, writes>>

(* _count_filtered_executions                                              *)
CountedRows(request) == Cardinality(Matching(request, rows))

CountRows ==
  /\ list.at = "count"
  /\ list' = [list EXCEPT !.at = "page", !.total = CountedRows(list.request)]
  /\ UNCHANGED <<rows, writes>>

(* Mutant of NextOffset: as many rows are skipped as were fetched.         *)
NextOffsetFetched(offset, limit) == offset + limit + 1

NextOffset(offset, limit) == offset + limit

(* One row more than the page holds is fetched.                            *)
HasMore(fetched, limit) == Len(fetched) > limit

Fetched(order, offset, limit) == SubSeq(order, offset + 1, Min({Len(order), offset + limit + 1}))

TakePage ==
  /\ list.at = "page"
  /\ \E order \in Orders(Matching(list.request, rows), Sorting(list.request)) :
       LET limit == list.request.limit
           fetched == Fetched(order, list.offset, limit)
           page == SubSeq(fetched, 1, Min({limit, Len(fetched)}))
           more == IF Counts(list.request) THEN list.offset + limit < list.total
                                           ELSE HasMore(fetched, limit)
       IN list' = [list EXCEPT !.seen = @ \o Ids(page),
                               !.offset = IF more THEN NextOffset(@, limit) ELSE @,
                               !.at = IF more THEN FirstStatement ELSE "listed"]
  /\ UNCHANGED <<rows, writes>>

-----------------------------------------------------------------------------
(* What other transactions commit meanwhile.  Objects come, go and change; *)
(* executions start and end; audit rows are only added.  The time of a row *)
(* is taken before its transaction commits: rows may appear in any order.  *)
Placed(table) ==
  {[k \in DOMAIN Sorting(list.request) |-> row[Sorting(list.request)[k].property]] :
     row \in Matching(list.request, table)}

Commit(table) ==
  /\ list.at \in {"count", "page"}
  /\ writes < MaxWrites
  /\ writes' = writes + 1
  /\ rows' = table
  /\ list' = [list EXCEPT !.moved = (@ \/ Placed(rows) # Placed(table))]

InsertRow == \E row \in NewRows[list.request.from] :
            /\ \A other \in rows : other.id # row.id
            /\ Commit(rows \union {row})

RemoveObject == OfObjects(list.request) /\ \E row \in rows : Commit(rows \ {row})

ChangeObject == OfObjects(list.request) /\ \E row \in rows, other \in NewRows.objects :
            Commit((rows \ {row}) \union {[row EXCEPT !.rank = other.rank]})

(* mark_succeeded, which sets the affected objects, and mark_failed        *)
EndExecution ==
  /\ list.request.from = "executions"
  /\ \E row \in rows :
       /\ row.status = Started
       /\ \E status \in {Succeeded, Unsuccessful} :
            Commit((rows \ {row}) \union
                     {[row EXCEPT !.status = status,
                                  !.affected = IF status = Succeeded THEN {row.object}
                                                                     ELSE {}]})

ListNext ==
  \/ RefuseList \/ BeginList \/ CountRows \/ TakePage
  \/ InsertRow \/ RemoveObject \/ ChangeObject \/ EndExecution

-----------------------------------------------------------------------------
(* A listing during which nothing moved has every matching row once, in    *)
(* the order asked for: ties are broken by the identifier, the offset      *)
(* meets the page's end, and the last page says that it is the last.       *)
QuietPagesListEverything ==
  list.at = "listed" /\ ~list.moved =>
    \E order \in Orders(Matching(list.request, rows), Sorting(list.request)) :
      list.seen = Ids(order)

(* The histories only grow, so that a client that lists one, in spite of   *)
(* executions that start and end meanwhile, is shown every row it was      *)
(* about at first; unless it asks for executions that are under way, which *)
(* leave the list, or stops where a total counted before the page says.    *)
(* (Rows may be shown twice.)                                              *)
HistoryMissesNothing ==
  /\ list.at = "listed"
  /\ ~OfObjects(list.request) /\ ~Counts(list.request)
  /\ \A f \in Range(list.request.filters) : f.property = "status" => f.value # Started
  => list.first \subseteq Range(list.seen)
=============================================================================
