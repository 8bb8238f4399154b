---------------------------- MODULE LinkTraversal ----------------------------
(***************************************************************************)
(* Links from one object to others: the link runtime, with the objects and *)
(* links that the ontology declares and the statements that read them.     *)
(***************************************************************************)
EXTENDS Integers, Sequences, FiniteSets

CONSTANTS
  Types,       \* object types: table, columns, row filter, model, links
  Links,       \* link types, by key
  Traversals,  \* requests a client may make
  Tables,      \* contents the tables may have at first
  Added,       \* <<type, row>> pairs that another transaction may insert
  MaxInserts   \* bound: rows inserted during a request

Null == 0      \* no other value of a column; SQL: it equals nothing

(* A row filter is a set of <<column, value>> pairs.  The join properties  *)
(* are named after their columns.                                          *)
ASSUME LinkAssumption ==
  /\ \A t \in DOMAIN Types : "id" \in Types[t].columns
  /\ \A k \in DOMAIN Links : Links[k].kind = "stored" => Links[k].path = <<>>

VARIABLES
  data,      \* rows of each object type's table, before its row filter
  visit,     \* the client's request and what has been read for it
  inserts    \* rows inserted so far

linkVars == <<data, visit, inserts>>

-----------------------------------------------------------------------------
(* Outcomes of one link from one loaded row.                               *)
Resolved(objects) == [code |-> "ok", objects |-> objects]
Broken(code) == [code |-> code, objects |-> {}]
MappingError == Broken("INVALID_ONTOLOGY_MAPPING")

Mapped(type) == type \in DOMAIN Types /\ Types[type].mapped

HasColumns(type, columns) == columns \subseteq Types[type].columns

ColumnsOf(filter) == {pair[1] : pair \in filter}

(* _merge_row_filters                                                      *)
Conflicting(filter) == \E a, b \in filter : a[1] = b[1] /\ a[2] # b[2]

Kept(row, filter) == \A pair \in filter : row[pair[1]] = pair[2]

(* _validate_stored_link_storage, with _require_stored_property            *)
StorageFits(link) ==
  LET at(type, column) == /\ link.storage.table = Types[type].table
                          /\ link.storage.column = column
  IN /\ Mapped(link.target)
     /\ HasColumns(link.source, {link.from})
     /\ HasColumns(link.target, {link.to})
     /\ \/ at(link.target, link.to) /\ HasColumns(link.target, ColumnsOf(link.storage.filter))
        \/ /\ ~at(link.target, link.to)
           /\ at(link.source, link.from)
           /\ HasColumns(link.source, ColumnsOf(link.storage.filter))

(* _build_link_response                                                    *)
Cardinal(link, objects) ==
  IF link.single /\ Cardinality(objects) > 1 THEN MappingError ELSE Resolved(objects)

(* A filter on a column that the table lacks is a KeyError that nobody     *)
(* expects: it is found out when the statement is built.                   *)
Selected(link, type, filter, objects) ==
  CASE Conflicting(filter) -> MappingError
    [] ~HasColumns(type, ColumnsOf(filter)) -> Broken("INTERNAL_SERVER_ERROR")
    [] OTHER -> Cardinal(link, objects)

(* Mutant of JoinedTo: rows are found by identifier, whatever the link.    *)
JoinedToId(value, row, column) == row.id = value

JoinedTo(value, row, column) == value # Null /\ row[column] = value

TargetFilter(link) == link.storage.filter \union Types[link.target].filter

(* _resolve_stored_link_from_source, get_many_by_column                    *)
StoredLink(link, row) ==
  IF ~StorageFits(link) THEN MappingError
  ELSE IF row[link.from] = Null THEN Cardinal(link, {})
  ELSE Selected(link, link.target, TargetFilter(link),
         {t \in data[link.target] : /\ JoinedTo(row[link.from], t, link.to)
                                    /\ HasColumns(link.target, ColumnsOf(TargetFilter(link)))
                                    /\ Kept(t, TargetFilter(link))})

(* _resolve_flattened_path                                                 *)
PathFits(link) ==
  /\ Len(link.path) = 2
  /\ \A k \in 1..2 : link.path[k] \in DOMAIN Links /\ Links[link.path[k]].kind = "stored"
  /\ Links[link.path[1]].source = link.source
  /\ Links[link.path[1]].target = Links[link.path[2]].source
  /\ Links[link.path[2]].target = link.target

(* Mutant of Between: the association is not restricted to the source.     *)
BetweenAny(link, filter, row) == {a \in data[link.target] : Kept(a, filter)}

Between(link, filter, row) ==
  {a \in data[link.target] : JoinedTo(row[link.from], a, link.to) /\ Kept(a, filter)}

(* _resolve_flattened_link_from_source, get_many_by_flattened_path: both   *)
(* links' filters apply to the rows of the association in the middle.      *)
FlattenedLink(link, row) ==
  IF ~PathFits(link) THEN MappingError
  ELSE LET first == Links[link.path[1]]
           second == Links[link.path[2]]
           middle == first.target
           filter == Types[middle].filter \union first.storage.filter
                                          \union second.storage.filter
           between == IF HasColumns(middle, ColumnsOf(filter))
                      THEN Between(first, filter, row) ELSE {}
       IN IF ~StorageFits(first) \/ ~StorageFits(second) THEN MappingError
          ELSE IF row[first.from] = Null THEN Cardinal(link, {})
          ELSE Selected(link, middle, filter,
                 {t \in data[link.target] : /\ \E a \in between : JoinedTo(a[second.from], t, second.to)
                                            /\ Kept(t, Types[link.target].filter)})

(* _resolve_link_from_source                                               *)
Traverse(link, row) ==
  CASE link.kind = "stored" -> StoredLink(link, row)
    [] link.kind = "flattened" -> FlattenedLink(link, row)
    [] OTHER -> Broken("LINK_RESOLUTION_NOT_IMPLEMENTED")

(* Mutant of Needed: the right to read the target is not asked for.        *)
NeededToTraverse(key) == {Links[key].source, key}

(* _authorize_link_traversal                                               *)
Needed(key) == {Links[key].source, key, Links[key].target}

(* _get_declared_link_definition                                           *)
Declared(type, key) ==
  key \in DOMAIN Links /\ Links[key].source = type
                       /\ key \in {Types[type].links[k] : k \in DOMAIN Types[type].links}

LinkProblem(type, key, granted) ==
  CASE ~Declared(type, key) -> "LINK_NOT_FOUND"
    [] ~(Needed(key) \subseteq granted) -> "OPERATION_NOT_PERMITTED"
    [] OTHER -> "ok"

-----------------------------------------------------------------------------
(* get_linked_objects (one link) and get_all_links (every declared link,   *)
(* of which one that fails fails the request): each link is read by a      *)
(* statement of its own, with the source as it was read at first.          *)
All == "all"

LinkInit ==
  /\ data \in Tables
  /\ inserts = 0
  /\ \E request \in Traversals :
       visit = [request |-> request,
                at      |-> "asked",    \* links, answered or failed
                code    |-> "ok",
                source  |-> {},         \* the loaded row, if any
                todo    |-> <<>>,       \* links still to resolve
                got     |-> <<>>,       \* what each link gave
                calm    |-> TRUE]       \* nothing was inserted meanwhile

Wanted(request) == IF request.link = All THEN Types[request.type].links ELSE <<request.link>>

Found(request) == {row \in data[request.type] : /\ row.id = request.id
                                                /\ Kept(row, Types[request.type].filter)}

SourceProblem(request) ==
  CASE request.type \notin DOMAIN Types -> "OBJECT_TYPE_NOT_FOUND"
    [] ~Mapped(request.type) -> "INVALID_ONTOLOGY_MAPPING"
    [] Found(request) = {} -> "OBJECT_NOT_FOUND"
    [] OTHER -> "ok"

LoadSource ==
  /\ visit.at = "asked"
  /\ LET problem == SourceProblem(visit.request) IN
       visit' = IF problem # "ok" THEN [visit EXCEPT !.at = "failed", !.code = problem]
                ELSE [visit EXCEPT !.at = "links", !.source = Found(visit.request),
                                   !.todo = Wanted(visit.request)]
  /\ UNCHANGED <<data, inserts>>

Entry(key, status, objects) == [link |-> key, status |-> status, objects |-> objects]

LinkStep(key) ==
  LET problem == LinkProblem(visit.request.type, key, visit.request.granted) IN
  IF problem # "ok" THEN [visit EXCEPT !.at = "failed", !.code = problem]
  ELSE IF visit.request.link = All /\ Links[key].kind \notin {"stored", "flattened"}
  THEN [visit EXCEPT !.todo = Tail(@), !.got = Append(@, Entry(key, "notImplemented", {}))]
  ELSE LET result == Traverse(Links[key], CHOOSE row \in visit.source : TRUE) IN
       IF result.code # "ok" THEN [visit EXCEPT !.at = "failed", !.code = result.code]
       ELSE [visit EXCEPT !.todo = Tail(@), !.got = Append(@, Entry(key, "resolved", result.objects))]

ResolveLink ==
  /\ visit.at = "links" /\ visit.todo # <<>>
  /\ visit' = LinkStep(Head(visit.todo))
  /\ UNCHANGED <<data, inserts>>

AnswerLinks ==
  /\ visit.at = "links" /\ visit.todo = <<>>
  /\ visit' = [visit EXCEPT !.at = "answered"]
  /\ UNCHANGED <<data, inserts>>

(* Another transaction adds a row, as generateMitigationPlan adds steps.   *)
AddRow ==
  /\ visit.at \in {"asked", "links"} /\ inserts < MaxInserts
  /\ \E add \in Added : /\ \A row \in data[add[1]] : row.id # add[2].id
                        /\ data' = [data EXCEPT ![add[1]] = @ \union {add[2]}]
  /\ inserts' = inserts + 1
  /\ visit' = [visit EXCEPT !.calm = FALSE]

LinkNext == LoadSource \/ ResolveLink \/ AnswerLinks \/ AddRow

-----------------------------------------------------------------------------
(* What a link declares: its storage filter is about the row of the column *)
(* the storage names, and a flattened link is the composition of its links.*)
InTarget(link) ==
  link.storage.table = Types[link.target].table /\ link.storage.column = link.to

Storing(link, s, t) == Kept(IF InTarget(link) THEN t ELSE s, link.storage.filter)

Related(link, s, t) ==
  /\ s[link.from] # Null /\ s[link.from] = t[link.to]
  /\ Storing(link, s, t)
  /\ Kept(t, Types[link.target].filter)

Meant(link, s) ==
  IF link.kind = "stored" THEN {t \in data[link.target] : Related(link, s, t)}
  ELSE {t \in data[link.target] :
          \E a \in data[Links[link.path[1]].target] :
            Related(Links[link.path[1]], s, a) /\ Related(Links[link.path[2]], a, t)}

(* A link gives exactly the objects it is declared to relate to the source *)
(* (row filters of both types, of the storage, NULL join columns, two hops *)
(* through an association whose rows may repeat).                          *)
LinksMeanTheirRows ==
  visit.at = "answered" /\ visit.calm =>
    \A k \in DOMAIN visit.got :
      LET entry == visit.got[k] IN
      entry.status = "resolved" =>
        entry.objects = Meant(Links[entry.link], CHOOSE s \in visit.source : TRUE)

(* A link and its inverse, where both resolve, relate the same objects:    *)
(* who finds t from s finds s from t, in whatever tables.                  *)
InverseLinksAgree ==
  visit.at # "none" => \A k \in DOMAIN Links :
    LET link == Links[k] IN
    link.inverse \in DOMAIN Links =>
      \A s \in data[link.source], t \in data[link.target] :
        LET there == Traverse(link, s)
            back == Traverse(Links[link.inverse], t)
        IN /\ Kept(s, Types[link.source].filter) /\ Kept(t, Types[link.target].filter)
           /\ there.code = "ok" /\ back.code = "ok"
           => (t \in there.objects <=> s \in back.objects)

(* Whoever sees an object through a link may read the source, traverse the *)
(* link and read the target, for every link of the answer.                 *)
LinkedObjectsArePermitted ==
  visit.at = "answered" =>
    \A k \in DOMAIN visit.got :
      LET link == Links[visit.got[k].link] IN
      {link.source, visit.got[k].link, link.target} \subseteq visit.request.granted
=============================================================================
