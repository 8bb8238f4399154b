---------------------------- MODULE Reading_proofs ----------------------------
(***************************************************************************)
(* What links and lists give, for any object types, links, tables, callers *)
(* and requests.                                                           *)
(*                                                                         *)
(* Links: no object is seen without the rights to it, a link gives the     *)
(* objects it is declared to relate, and a link and its inverse agree. The *)
(* last two say what is wanted of a configuration, which nothing in the    *)
(* code checks: OneSidedFilters and MirroredInverses.                      *)
(*                                                                         *)
(* Lists: the pages of a list that nothing moved are its rows in order,    *)
(* and those of a history miss nothing.  Both rest on what a row's place   *)
(* is, the number of rows ahead of it, which only grows as rows are added. *)
(***************************************************************************)
EXTENDS Reading, FiniteSums, SequenceTheorems

(* A storage filter is about one of the two types: the other one lacks a   *)
(* column of it.  Of the links of ontology.yaml this is so.                *)
OneSidedFilters ==
  \A k \in DOMAIN Links :
    LET link == Links[k] IN
    link.kind = "stored" =>
      \/ link.storage.filter = {}
      \/ ~HasColumns(link.source, ColumnsOf(link.storage.filter))
      \/ ~HasColumns(link.target, ColumnsOf(link.storage.filter))

(* The inverse of a link joins the same columns over the same storage.     *)
MirroredInverses ==
  \A k \in DOMAIN Links :
    LET link == Links[k]
        back == Links[link.inverse]
    IN link.inverse \in DOMAIN Links =>
         /\ link.kind = "stored" /\ back.kind = "stored"
         /\ back.source = link.target /\ back.target = link.source
         /\ back.from = link.to /\ back.to = link.from
         /\ back.storage = link.storage

-----------------------------------------------------------------------------
(* What a statement that gives its rows has passed.                        *)
LEMMA OnlyCompleteIsOk ==
  ASSUME NEW link, NEW type, NEW filter, NEW objects,
         Selected(link, type, filter, objects).code = "ok"
  PROVE  /\ Selected(link, type, filter, objects).objects = objects
         /\ HasColumns(type, ColumnsOf(filter))
<1>1. ~Conflicting(filter) /\ HasColumns(type, ColumnsOf(filter))
  BY DEF Selected, MappingError, Broken
<1>2. Selected(link, type, filter, objects) = Cardinal(link, objects)
  BY <1>1 DEF Selected
<1>3. Cardinal(link, objects) = Resolved(objects)
  BY <1>2 DEF Cardinal, MappingError, Broken
<1> QED
  BY <1>1, <1>2, <1>3 DEF Resolved

LEMMA NothingIsOk ==
  ASSUME NEW link, Cardinal(link, {}).code = "ok"
  PROVE  Cardinal(link, {}).objects = {}
BY DEF Cardinal, MappingError, Broken, Resolved

LEMMA ColumnsOfPart ==
  ASSUME NEW type, NEW filter, NEW more, HasColumns(type, ColumnsOf(filter \union more))
  PROVE  HasColumns(type, ColumnsOf(filter))
BY DEF HasColumns, ColumnsOf

LEMMA KeptBoth ==
  ASSUME NEW row, NEW filter, NEW more
  PROVE  Kept(row, filter \union more) <=> Kept(row, filter) /\ Kept(row, more)
BY DEF Kept

(* Of storage that fits, the filter's columns are where the storage is.    *)
LEMMA StorageHasItsColumns ==
  ASSUME NEW link, StorageFits(link)
  PROVE  HasColumns(IF InTarget(link) THEN link.target ELSE link.source,
                    ColumnsOf(link.storage.filter))
BY DEF StorageFits, InTarget

(* Where the filter could be applied to the target, that is where it is.   *)
LEMMA FilterIsOfTheTarget ==
  ASSUME OneSidedFilters, NEW k \in DOMAIN Links, Links[k].kind = "stored",
         StorageFits(Links[k]),
         HasColumns(Links[k].target, ColumnsOf(Links[k].storage.filter))
  PROVE  \A s, t : Storing(Links[k], s, t) <=> Kept(t, Links[k].storage.filter)
<1>1. CASE Links[k].storage.filter = {}
  BY <1>1 DEF Storing, Kept
<1>2. CASE InTarget(Links[k])
  BY <1>2 DEF Storing
<1> QED
  BY <1>1, <1>2, StorageHasItsColumns DEF OneSidedFilters

(* And where it could be applied to the source of the link, likewise.      *)
LEMMA FilterIsOfTheSource ==
  ASSUME OneSidedFilters, NEW k \in DOMAIN Links, Links[k].kind = "stored",
         StorageFits(Links[k]),
         HasColumns(Links[k].source, ColumnsOf(Links[k].storage.filter))
  PROVE  \A s, t : Storing(Links[k], s, t) <=> Kept(s, Links[k].storage.filter)
<1>1. CASE Links[k].storage.filter = {}
  BY <1>1 DEF Storing, Kept
<1>2. CASE ~InTarget(Links[k])
  BY <1>2 DEF Storing
<1> QED
  BY <1>1, <1>2, StorageHasItsColumns DEF OneSidedFilters

-----------------------------------------------------------------------------
LEMMA StoredLinkGives ==
  ASSUME NEW link, NEW s, StoredLink(link, s).code = "ok"
  PROVE  /\ StorageFits(link)
         /\ \/ s[link.from] = Null /\ StoredLink(link, s).objects = {}
            \/ /\ s[link.from] # Null
               /\ HasColumns(link.target, ColumnsOf(link.storage.filter))
               /\ StoredLink(link, s).objects =
                    {t \in data[link.target] : /\ JoinedTo(s[link.from], t, link.to)
                                               /\ Kept(t, link.storage.filter)
                                               /\ Kept(t, Types[link.target].filter)}
<1>1. StorageFits(link)
  BY DEF StoredLink, MappingError, Broken
<1>2. CASE s[link.from] = Null
  BY <1>1, <1>2, NothingIsOk DEF StoredLink
<1>3. CASE s[link.from] # Null
  <2> DEFINE objects == {t \in data[link.target] :
                           /\ JoinedTo(s[link.from], t, link.to)
                           /\ HasColumns(link.target, ColumnsOf(TargetFilter(link)))
                           /\ Kept(t, TargetFilter(link))}
  <2>1. StoredLink(link, s) = Selected(link, link.target, TargetFilter(link), objects)
    BY <1>1, <1>3 DEF StoredLink
  <2> HIDE DEF objects
  <2>2. /\ StoredLink(link, s).objects = objects
        /\ HasColumns(link.target, ColumnsOf(TargetFilter(link)))
    BY <2>1, OnlyCompleteIsOk
  <2>3. HasColumns(link.target, ColumnsOf(link.storage.filter))
    BY <2>2, ColumnsOfPart DEF TargetFilter
  <2>4. \A t : Kept(t, TargetFilter(link)) <=>
                 Kept(t, link.storage.filter) /\ Kept(t, Types[link.target].filter)
    BY KeptBoth DEF TargetFilter
  <2> QED
    BY <1>1, <1>3, <2>2, <2>3, <2>4 DEF objects
<1> QED
  BY <1>2, <1>3

LEMMA StoredLinkMeans ==
  ASSUME OneSidedFilters, NEW k \in DOMAIN Links, Links[k].kind = "stored", NEW s,
         StoredLink(Links[k], s).code = "ok"
  PROVE  StoredLink(Links[k], s).objects = Meant(Links[k], s)
<1> DEFINE link == Links[k]
<1>1. Meant(link, s) = {t \in data[link.target] : Related(link, s, t)}
  BY DEF Meant
<1>2. CASE s[link.from] = Null /\ StoredLink(link, s).objects = {}
  BY <1>1, <1>2 DEF Related
<1>3. CASE /\ s[link.from] # Null
           /\ HasColumns(link.target, ColumnsOf(link.storage.filter))
           /\ StoredLink(link, s).objects =
                {t \in data[link.target] : /\ JoinedTo(s[link.from], t, link.to)
                                           /\ Kept(t, link.storage.filter)
                                           /\ Kept(t, Types[link.target].filter)}
  <2>1. \A t : Storing(link, s, t) <=> Kept(t, link.storage.filter)
    BY <1>3, FilterIsOfTheTarget, StoredLinkGives
  <2>2. \A t : Related(link, s, t) <=> /\ JoinedTo(s[link.from], t, link.to)
                                       /\ Kept(t, link.storage.filter)
                                       /\ Kept(t, Types[link.target].filter)
    BY <2>1 DEF Related, JoinedTo
  <2> QED
    BY <1>1, <1>3, <2>2
<1> QED
  BY <1>2, <1>3, StoredLinkGives

LEMMA FlattenedLinkMeans ==
  ASSUME OneSidedFilters, NEW link, link.kind = "flattened", NEW s,
         FlattenedLink(link, s).code = "ok"
  PROVE  FlattenedLink(link, s).objects = Meant(link, s)
<1> DEFINE first == Links[link.path[1]]
           second == Links[link.path[2]]
           middle == first.target
           filter == Types[middle].filter \union first.storage.filter
                                          \union second.storage.filter
           between == IF HasColumns(middle, ColumnsOf(filter)) THEN Between(first, filter, s)
                      ELSE {}
           objects == {t \in data[link.target] :
                         /\ \E a \in between : JoinedTo(a[second.from], t, second.to)
                         /\ Kept(t, Types[link.target].filter)}
<1>1. PathFits(link)
  BY DEF FlattenedLink, MappingError, Broken
<1>2. StorageFits(first) /\ StorageFits(second)
  BY <1>1 DEF FlattenedLink, MappingError, Broken
<1>3. /\ link.path[1] \in DOMAIN Links /\ first.kind = "stored"
      /\ link.path[2] \in DOMAIN Links /\ second.kind = "stored"
      /\ second.source = middle /\ second.target = link.target
  BY <1>1 DEF PathFits
<1>4. Meant(link, s) = {t \in data[link.target] :
                          \E a \in data[middle] : Related(first, s, a) /\ Related(second, a, t)}
  BY DEF Meant
<1>5. CASE s[first.from] = Null
  <2>1. FlattenedLink(link, s) = Cardinal(link, {})
    BY <1>1, <1>2, <1>5 DEF FlattenedLink
  <2> QED
    BY <1>4, <1>5, <2>1, NothingIsOk DEF Related
<1>6. CASE s[first.from] # Null
  <2>1. FlattenedLink(link, s) = Selected(link, middle, filter, objects)
    BY <1>1, <1>2, <1>6 DEF FlattenedLink
  <2> HIDE DEF objects, between, filter
  <2>2. FlattenedLink(link, s).objects = objects /\ HasColumns(middle, ColumnsOf(filter))
    BY <2>1, OnlyCompleteIsOk
  <2>3. /\ HasColumns(middle, ColumnsOf(first.storage.filter))
        /\ HasColumns(middle, ColumnsOf(second.storage.filter))
    BY <2>2 DEF filter, HasColumns, ColumnsOf
  <2>4. \A a : Storing(first, s, a) <=> Kept(a, first.storage.filter)
    BY <1>2, <1>3, <2>3, FilterIsOfTheTarget
  <2>5. \A a, t : Storing(second, a, t) <=> Kept(a, second.storage.filter)
    BY <1>2, <1>3, <2>3, FilterIsOfTheSource
  <2>6. \A a : Kept(a, filter) <=> /\ Kept(a, Types[middle].filter)
                                   /\ Kept(a, first.storage.filter)
                                   /\ Kept(a, second.storage.filter)
    BY DEF Kept, filter
  <2>7. between = {a \in data[middle] : JoinedTo(s[first.from], a, first.to) /\ Kept(a, filter)}
    BY <2>2 DEF between, Between
  <2>8. \A a, t : Related(first, s, a) /\ Related(second, a, t) <=>
                    /\ JoinedTo(s[first.from], a, first.to) /\ Kept(a, filter)
                    /\ JoinedTo(a[second.from], t, second.to)
                    /\ Kept(t, Types[link.target].filter)
    BY <1>3, <2>4, <2>5, <2>6 DEF Related, JoinedTo
  <2>9. objects = Meant(link, s)
    BY <1>4, <2>7, <2>8 DEF objects
  <2> QED
    BY <2>2, <2>9
<1> QED
  BY <1>5, <1>6

LEMMA TraversalMeans ==
  ASSUME OneSidedFilters, NEW k \in DOMAIN Links, NEW s, Traverse(Links[k], s).code = "ok"
  PROVE  Traverse(Links[k], s).objects = Meant(Links[k], s)
<1>1. CASE Links[k].kind = "stored"
  BY <1>1, StoredLinkMeans DEF Traverse
<1>2. CASE Links[k].kind = "flattened"
  BY <1>2, FlattenedLinkMeans DEF Traverse
<1> QED
  BY <1>1, <1>2 DEF Traverse, Broken
-----------------------------------------------------------------------------
(* One direction of a mirrored pair: where t is found from s, the inverse  *)
(* finds s from t, if it finds anything at all.                            *)
LEMMA FoundBack ==
  ASSUME OneSidedFilters, MirroredInverses,
         NEW k \in DOMAIN Links, Links[k].inverse \in DOMAIN Links,
         NEW s \in data[Links[k].source], NEW t \in data[Links[k].target],
         Kept(s, Types[Links[k].source].filter), Kept(t, Types[Links[k].target].filter),
         Traverse(Links[k], s).code = "ok", Traverse(Links[Links[k].inverse], t).code = "ok"
  PROVE  t \in Traverse(Links[k], s).objects <=>
           s \in Traverse(Links[Links[k].inverse], t).objects
<1> DEFINE link == Links[k]
           back == Links[link.inverse]
           Joined == s[link.from] # Null /\ s[link.from] = t[link.to]
<1>1. /\ link.kind = "stored" /\ back.kind = "stored"
      /\ back.source = link.target /\ back.target = link.source
      /\ back.from = link.to /\ back.to = link.from /\ back.storage = link.storage
  BY DEF MirroredInverses
<1>2. /\ Traverse(link, s) = StoredLink(link, s) /\ Traverse(back, t) = StoredLink(back, t)
  BY <1>1 DEF Traverse
<1> HIDE DEF back, link
<1>3. ASSUME t \in StoredLink(link, s).objects
      PROVE  Joined /\ HasColumns(link.target, ColumnsOf(link.storage.filter))
  BY <1>2, <1>3, StoredLinkGives DEF JoinedTo, link, back
<1>4. ASSUME s \in StoredLink(back, t).objects
      PROVE  Joined /\ HasColumns(link.source, ColumnsOf(link.storage.filter))
  BY <1>1, <1>2, <1>4, StoredLinkGives DEF JoinedTo, link, back
<1>5. ASSUME Joined PROVE t \in StoredLink(link, s).objects /\ s \in StoredLink(back, t).objects
  <2>1. /\ HasColumns(link.target, ColumnsOf(link.storage.filter))
        /\ StoredLink(link, s).objects =
             {u \in data[link.target] : /\ JoinedTo(s[link.from], u, link.to)
                                        /\ Kept(u, link.storage.filter)
                                        /\ Kept(u, Types[link.target].filter)}
    BY <1>2, <1>5, StoredLinkGives DEF link
  <2>2. /\ HasColumns(back.target, ColumnsOf(back.storage.filter))
        /\ StoredLink(back, t).objects =
             {u \in data[back.target] : /\ JoinedTo(t[back.from], u, back.to)
                                        /\ Kept(u, back.storage.filter)
                                        /\ Kept(u, Types[back.target].filter)}
    BY <1>1, <1>2, <1>5, StoredLinkGives DEF link, back
  <2>3. link.storage.filter = {}
    BY <1>1, <2>1, <2>2 DEF OneSidedFilters, link
  <2>4. Kept(t, link.storage.filter) /\ Kept(s, back.storage.filter)
    BY <1>1, <2>3 DEF Kept
  <2> QED
    BY <1>1, <1>5, <2>1, <2>2, <2>4 DEF JoinedTo, link
<1> QED
  BY <1>2, <1>3, <1>4, <1>5 DEF link, back

(* Who finds t from s finds s from t, in whatever tables, where the two    *)
(* links are declared as the mirror of each other and both give an answer. *)
THEOREM InversesAgree ==
  ASSUME OneSidedFilters, MirroredInverses
  PROVE  ReadingSpec => []InverseLinksAgree
<1>1. InverseLinksAgree
  BY FoundBack DEF InverseLinksAgree
<1> QED
  BY <1>1, PTL

-----------------------------------------------------------------------------
(* What a client has been given while its links are read: of each link the *)
(* rights, and of each resolved one, as long as nothing is inserted, the   *)
(* objects that it is declared to relate.                                  *)
VisitFields == {"request", "at", "code", "source", "todo", "got", "calm"}

IsSequence(q) == q \in Seq({q[k] : k \in DOMAIN q})

TheSource == CHOOSE row \in visit.source : TRUE

Allowed(entry) ==
  entry.link \in DOMAIN Links /\ Needed(entry.link) \subseteq visit.request.granted

Faithful(entry) ==
  entry.status = "resolved" => entry.objects = Meant(Links[entry.link], TheSource)

RightsInv ==
  visit # NoVisit =>
    /\ DOMAIN visit = VisitFields
    /\ IsSequence(visit.got)
    /\ visit.at = "asked" => visit.got = <<>>
    /\ \A k \in DOMAIN visit.got : Allowed(visit.got[k])

FaithInv ==
  visit # NoVisit /\ visit.calm => \A k \in DOMAIN visit.got : Faithful(visit.got[k])

LEMMA AppendedLast ==
  ASSUME NEW q, IsSequence(q), NEW e
  PROVE  /\ IsSequence(Append(q, e))
         /\ \A k \in DOMAIN Append(q, e) :
              (k \in DOMAIN q /\ Append(q, e)[k] = q[k]) \/ Append(q, e)[k] = e
<1> DEFINE values == {q[k] : k \in DOMAIN q}
           longer == Append(q, e)
<1>1. q \in Seq(values) /\ q \in Seq(values \union {e})
  BY DEF IsSequence
<1>2. longer \in Seq(values \union {e}) /\ Len(longer) = Len(q) + 1
  BY <1>1
<1>3. \A k \in 1..Len(q) : longer[k] = q[k]
  BY <1>1
<1>4. longer[Len(q) + 1] = e
  BY <1>1
<1>5. DOMAIN longer = 1..(Len(q) + 1) /\ DOMAIN q = 1..Len(q) /\ Len(q) \in Nat
  BY <1>1, <1>2
<1> HIDE DEF longer, values
<1>6. \A k \in DOMAIN longer : (k \in DOMAIN q /\ longer[k] = q[k]) \/ longer[k] = e
  BY <1>3, <1>4, <1>5
<1>7. longer \in Seq({longer[k] : k \in DOMAIN longer})
  <2>1. longer = [k \in 1..Len(longer) |-> longer[k]] /\ Len(longer) \in Nat
    BY <1>2
  <2>2. DOMAIN longer = 1..Len(longer)
    BY <1>2
  <2> QED
    BY <2>1, <2>2
<1> QED
  BY <1>6, <1>7 DEF IsSequence, longer

(* Reading a link fails the request, or adds an entry that the caller has  *)
(* the rights to, with what the link gave.                                 *)
LEMMA OneLinkMore ==
  ASSUME RightsInv, visit # NoVisit, ResolveLink
  PROVE  /\ DOMAIN visit' = VisitFields /\ data' = data
         /\ visit'.at # "asked"
         /\ visit'.calm = visit.calm /\ visit'.source = visit.source
         /\ visit'.request = visit.request
         /\ \/ visit'.got = visit.got
            \/ \E entry :
                 /\ visit'.got = Append(visit.got, entry)
                 /\ Allowed(entry)
                 /\ entry.status = "resolved" =>
                      /\ Traverse(Links[entry.link], TheSource).code = "ok"
                      /\ entry.objects = Traverse(Links[entry.link], TheSource).objects
<1> DEFINE key == Head(visit.todo)
           result == Traverse(Links[key], TheSource)
           problem == LinkProblem(visit.request.type, key, visit.request.granted)
<1>1. DOMAIN visit = VisitFields /\ visit.at = "links"
  BY DEF RightsInv, ResolveLink
<1>2. visit' = LinkStep(key) /\ data' = data
  BY DEF ResolveLink
<1>3. ASSUME NEW code, visit' = [visit EXCEPT !.at = "failed", !.code = code]
      PROVE  /\ DOMAIN visit' = VisitFields /\ visit'.at # "asked" /\ visit'.got = visit.got
             /\ visit'.calm = visit.calm /\ visit'.source = visit.source
             /\ visit'.request = visit.request
  BY <1>1, <1>3 DEF VisitFields
<1>4. ASSUME NEW entry,
             visit' = [visit EXCEPT !.todo = Tail(@), !.got = Append(@, entry)]
      PROVE  /\ DOMAIN visit' = VisitFields /\ visit'.at # "asked"
             /\ visit'.got = Append(visit.got, entry)
             /\ visit'.calm = visit.calm /\ visit'.source = visit.source
             /\ visit'.request = visit.request
  BY <1>1, <1>4 DEF VisitFields
<1>5. CASE problem # "ok"
  BY <1>2, <1>3, <1>5 DEF LinkStep
<1>6. CASE problem = "ok"
  <2>1. key \in DOMAIN Links /\ Needed(key) \subseteq visit.request.granted
    BY <1>6 DEF LinkProblem, Declared
  <2>2. CASE visit.request.link = All /\ Links[key].kind \notin {"stored", "flattened"}
    <3>1. visit' = [visit EXCEPT !.todo = Tail(@),
                                 !.got = Append(@, Entry(key, "notImplemented", {}))]
      BY <1>2, <1>6, <2>2 DEF LinkStep
    <3>2. Allowed(Entry(key, "notImplemented", {}))
      BY <2>1 DEF Entry, Allowed
    <3>3. Entry(key, "notImplemented", {}).status # "resolved"
      BY DEF Entry
    <3> QED
      BY <1>2, <1>4, <3>1, <3>2, <3>3
  <2>3. CASE ~(visit.request.link = All /\ Links[key].kind \notin {"stored", "flattened"})
    <3>1. CASE result.code # "ok"
      BY <1>2, <1>3, <1>6, <2>3, <3>1 DEF LinkStep, TheSource
    <3>2. CASE result.code = "ok"
      <4> DEFINE entry == Entry(key, "resolved", result.objects)
      <4>1. visit' = [visit EXCEPT !.todo = Tail(@), !.got = Append(@, entry)]
        BY <1>2, <1>6, <2>3, <3>2 DEF LinkStep, TheSource
      <4>2. Allowed(entry) /\ entry.link = key /\ entry.objects = result.objects
        BY <2>1 DEF Entry, Allowed
      <4>3. /\ Traverse(Links[entry.link], TheSource).code = "ok"
            /\ entry.objects = Traverse(Links[entry.link], TheSource).objects
        BY <3>2, <4>2
      <4> HIDE DEF entry, result
      <4>4. /\ DOMAIN visit' = VisitFields /\ visit'.at # "asked"
            /\ visit'.got = Append(visit.got, entry)
            /\ visit'.calm = visit.calm /\ visit'.source = visit.source
            /\ visit'.request = visit.request
        BY <1>4, <4>1
      <4> QED
        BY <1>2, <4>2, <4>3, <4>4
    <3> QED
      BY <3>1, <3>2
  <2> QED
    BY <2>2, <2>3
<1> QED
  BY <1>5, <1>6

LEMMA RightsInvAtFirst ==
  ASSUME ReadingInit PROVE RightsInv /\ FaithInv
<1>1. CASE LinkInit
  <2>1. DOMAIN visit = VisitFields /\ visit.got = <<>>
    BY <1>1 DEF LinkInit, VisitFields
  <2> QED
    BY <2>1 DEF RightsInv, FaithInv, IsSequence
<1>2. CASE visit = NoVisit
  BY <1>2 DEF RightsInv, FaithInv
<1> QED
  BY <1>1, <1>2 DEF ReadingInit

LEMMA RightsInvIsKept ==
  ASSUME RightsInv, [ReadingNext]_readingVars
  PROVE  RightsInv'
<1>1. CASE UNCHANGED linkVars
  BY <1>1 DEF linkVars, RightsInv, Allowed, Needed
<1>2. CASE visit # NoVisit /\ LoadSource
  <2>1. DOMAIN visit = VisitFields /\ visit.got = <<>>
    BY <1>2 DEF RightsInv, LoadSource
  <2>2. DOMAIN visit' = VisitFields /\ visit'.got = <<>>
    BY <1>2, <2>1 DEF LoadSource, VisitFields
  <2> QED
    BY <2>2 DEF RightsInv, IsSequence
<1>3. CASE visit # NoVisit /\ ResolveLink
  <2>1. /\ DOMAIN visit' = VisitFields /\ visit'.at # "asked"
        /\ visit'.request = visit.request
    BY <1>3, OneLinkMore
  <2>2. IsSequence(visit.got) /\ \A k \in DOMAIN visit.got : Allowed(visit.got[k])
    BY <1>3 DEF RightsInv
  <2>3. CASE visit'.got = visit.got
    BY <2>1, <2>2, <2>3 DEF RightsInv, Allowed, Needed
  <2>4. ASSUME NEW entry, visit'.got = Append(visit.got, entry), Allowed(entry)
        PROVE  RightsInv'
    <3>1. /\ IsSequence(visit'.got)
          /\ \A k \in DOMAIN visit'.got :
               (k \in DOMAIN visit.got /\ visit'.got[k] = visit.got[k]) \/ visit'.got[k] = entry
      BY <2>2, <2>4, AppendedLast
    <3>2. \A k \in DOMAIN visit'.got : Allowed(visit'.got[k])
      BY <2>2, <2>4, <3>1
    <3> QED
      BY <2>1, <3>1, <3>2 DEF RightsInv, Allowed, Needed
  <2> QED
    BY <1>3, <2>3, <2>4, OneLinkMore
<1>4. CASE visit # NoVisit /\ AnswerLinks
  <2>1. /\ DOMAIN visit' = VisitFields /\ visit'.got = visit.got /\ visit'.at = "answered"
        /\ visit'.request = visit.request
    BY <1>4 DEF RightsInv, AnswerLinks, VisitFields
  <2> QED
    BY <1>4, <2>1 DEF RightsInv, Allowed, Needed
<1>5. CASE visit # NoVisit /\ AddRow
  <2>1. /\ DOMAIN visit' = VisitFields /\ visit'.got = visit.got /\ visit'.at = visit.at
        /\ visit'.request = visit.request
    BY <1>5 DEF RightsInv, AddRow, VisitFields
  <2> QED
    BY <1>5, <2>1 DEF RightsInv, Allowed, Needed
<1> QED
  BY <1>1, <1>2, <1>3, <1>4, <1>5 DEF ReadingNext, LinkNext, readingVars

(* What a link means is a matter of the tables.                            *)
LEMMA MeaningIsOfTheData ==
  ASSUME data' = data
  PROVE  \A link, s : Meant(link, s)' = Meant(link, s)
BY DEF Meant, Related, Storing, InTarget, Kept

LEMMA FaithInvIsKept ==
  ASSUME OneSidedFilters, RightsInv, FaithInv, [ReadingNext]_readingVars
  PROVE  FaithInv'
<1>1. CASE UNCHANGED linkVars
  <2>1. visit' = visit /\ data' = data
    BY <1>1 DEF linkVars
  <2> QED
    BY <2>1, MeaningIsOfTheData DEF FaithInv, Faithful, TheSource
<1>2. CASE visit # NoVisit /\ LoadSource
  <2>1. visit'.got = <<>>
    BY <1>2 DEF RightsInv, LoadSource, VisitFields
  <2> QED
    BY <2>1 DEF FaithInv
<1>3. CASE visit # NoVisit /\ ResolveLink
  <2>1. /\ data' = data /\ visit'.calm = visit.calm /\ visit'.source = visit.source
        /\ IsSequence(visit.got)
    BY <1>3, OneLinkMore DEF RightsInv
  <2>2. CASE visit'.got = visit.got
    BY <1>3, <2>1, <2>2, MeaningIsOfTheData DEF FaithInv, Faithful, TheSource
  <2>3. ASSUME NEW entry, visit'.got = Append(visit.got, entry), Faithful(entry)
        PROVE  FaithInv'
    <3>1. \A k \in DOMAIN visit'.got :
            (k \in DOMAIN visit.got /\ visit'.got[k] = visit.got[k]) \/ visit'.got[k] = entry
      BY <2>1, <2>3, AppendedLast
    <3>2. visit.calm => \A k \in DOMAIN visit'.got : Faithful(visit'.got[k])
      BY <1>3, <2>3, <3>1 DEF FaithInv
    <3> QED
      BY <2>1, <3>2, MeaningIsOfTheData DEF FaithInv, Faithful, TheSource
  <2>4. ASSUME NEW entry, Allowed(entry),
               entry.status = "resolved" =>
                 /\ Traverse(Links[entry.link], TheSource).code = "ok"
                 /\ entry.objects = Traverse(Links[entry.link], TheSource).objects
        PROVE  Faithful(entry)
    BY <2>4, TraversalMeans DEF Faithful, Allowed
  <2> QED
    BY <1>3, <2>2, <2>3, <2>4, OneLinkMore
<1>4. CASE visit # NoVisit /\ AnswerLinks
  <2>1. /\ visit'.got = visit.got /\ visit'.calm = visit.calm /\ visit'.source = visit.source
        /\ data' = data
    BY <1>4 DEF RightsInv, AnswerLinks, VisitFields
  <2> QED
    BY <1>4, <2>1, MeaningIsOfTheData DEF FaithInv, Faithful, TheSource
<1>5. CASE visit # NoVisit /\ AddRow
  BY <1>5 DEF RightsInv, FaithInv, AddRow, VisitFields
<1> QED
  BY <1>1, <1>2, <1>3, <1>4, <1>5 DEF ReadingNext, LinkNext, readingVars

(* What a traversal has collected and still has to look at belongs to      *)
(* links and types its caller may read (link_runtime.py).                  *)
THEOREM RightsInvHolds == ReadingSpec => []RightsInv
<1>1. ReadingInit => RightsInv
  BY RightsInvAtFirst
<1>2. RightsInv /\ [ReadingNext]_readingVars => RightsInv'
  BY RightsInvIsKept
<1> QED
  BY <1>1, <1>2, PTL DEF ReadingSpec

(* No answer shows an object behind a link to a caller who may not read    *)
(* the source, traverse the link and read the target.                      *)
THEOREM LinksArePermitted == ReadingSpec => []LinkedObjectsArePermitted
<1>1. RightsInv => LinkedObjectsArePermitted
  BY DEF RightsInv, LinkedObjectsArePermitted, Allowed, Needed, NoVisit
<1> QED
  BY <1>1, RightsInvHolds, PTL

(* A link gives the objects that it is declared to relate to the source,   *)
(* and only those, in whatever tables: the statements of the link runtime, *)
(* and the row filters they merge, mean what the ontology says.            *)
THEOREM LinksAreFaithful ==
  ASSUME OneSidedFilters
  PROVE  ReadingSpec => []LinksMeanTheirRows
<1>1. ReadingInit => FaithInv
  BY RightsInvAtFirst
<1>2. RightsInv /\ FaithInv /\ [ReadingNext]_readingVars => FaithInv'
  BY FaithInvIsKept
<1>3. FaithInv => LinksMeanTheirRows
  BY DEF FaithInv, LinksMeanTheirRows, Faithful, TheSource, NoVisit
<1> QED
  BY <1>1, <1>2, <1>3, RightsInvHolds, PTL DEF ReadingSpec

-----------------------------------------------------------------------------
(* A row's place in a list is that of what it is sorted by.                *)
KeyOf(sorting, row) == [k \in DOMAIN sorting |-> row[sorting[k].property]]
KeysOf(sorting, table) == {KeyOf(sorting, row) : row \in table}

(* A key before another: at the first property they differ in.             *)
Before(sorting, u, v) ==
  \E k \in 1..Len(sorting) :
    /\ \A earlier \in 1..(k - 1) : u[earlier] = v[earlier]
    /\ Smaller(sorting[k].direction, u[k], v[k])

(* The place of a key among others, counted from one.                      *)
PlaceOf(sorting, keys, u) == Cardinality({v \in keys : Before(sorting, v, u)}) + 1

(* Some sort property is the identifier.                                   *)
SortingOK(sorting) ==
  /\ Len(sorting) \in Nat /\ DOMAIN sorting = 1..Len(sorting)
  /\ \A k \in 1..Len(sorting) : sorting[k].direction \in {"asc", "desc"}
  /\ \E k \in 1..Len(sorting) : sorting[k].property = "id"

(* A table of such rows.                                                   *)
Sortable(sorting, table) ==
  /\ IsFiniteSet(table)
  /\ \A row \in table : \A k \in 1..Len(sorting) : row[sorting[k].property] \in Int
  /\ \A a, b \in table : a.id = b.id => a = b

Keys(sorting) == [1..Len(sorting) -> Int]

(* NULLS LAST in both directions is a total order.                         *)
LEMMA SmallerOnce == \A d : \A a \in Int : ~Smaller(d, a, a)
  BY DEF Smaller

LEMMA SmallerOnward ==
  ASSUME NEW d, NEW a \in Int, NEW b \in Int, NEW c \in Int, Smaller(d, a, b), Smaller(d, b, c)
  PROVE  Smaller(d, a, c)
  BY DEF Smaller, NullValue

LEMMA SmallerOneWay ==
  ASSUME NEW d \in {"asc", "desc"}, NEW a \in Int, NEW b \in Int, a # b
  PROVE  Smaller(d, a, b) \/ Smaller(d, b, a)
  BY DEF Smaller, NullValue

(* Rows precede each other as what they are sorted by does.                *)
LEMMA PrecedesByKey ==
  ASSUME NEW sorting, SortingOK(sorting), NEW a, NEW b
  PROVE  Precedes(sorting, a, b) <=> Before(sorting, KeyOf(sorting, a), KeyOf(sorting, b))
<1>1. \A k \in 1..Len(sorting) : /\ KeyOf(sorting, a)[k] = a[sorting[k].property]
                                 /\ KeyOf(sorting, b)[k] = b[sorting[k].property]
  BY DEF KeyOf, SortingOK
<1>2. \A k \in 1..Len(sorting) : \A earlier \in 1..(k - 1) : earlier \in 1..Len(sorting)
  BY DEF SortingOK
<1> QED
  BY <1>1, <1>2 DEF Precedes, Before

(* That is a strict total order of the keys.                               *)
LEMMA BeforeOnce ==
  ASSUME NEW sorting, NEW u \in Keys(sorting)
  PROVE  ~Before(sorting, u, u)
  BY SmallerOnce DEF Before, Keys

LEMMA BeforeOnward ==
  ASSUME NEW sorting, SortingOK(sorting),
         NEW u \in Keys(sorting), NEW v \in Keys(sorting), NEW w \in Keys(sorting),
         Before(sorting, u, v), Before(sorting, v, w)
  PROVE  Before(sorting, u, w)
<1>1. PICK i \in 1..Len(sorting) : /\ \A j \in 1..(i - 1) : u[j] = v[j]
                                   /\ Smaller(sorting[i].direction, u[i], v[i])
  BY DEF Before
<1>2. PICK k \in 1..Len(sorting) : /\ \A j \in 1..(k - 1) : v[j] = w[j]
                                   /\ Smaller(sorting[k].direction, v[k], w[k])
  BY DEF Before
<1>3. \A j \in 1..Len(sorting) : u[j] \in Int /\ v[j] \in Int /\ w[j] \in Int
  BY DEF Keys
<1>4. Len(sorting) \in Nat
  BY DEF SortingOK
<1>5. CASE i = k
  <2>1. Smaller(sorting[i].direction, u[i], w[i])
    BY <1>1, <1>2, <1>3, <1>5, SmallerOnward
  <2> QED
    BY <1>1, <1>2, <1>5, <2>1 DEF Before
<1>6. CASE i < k
  <2>1. v[i] = w[i] /\ \A j \in 1..(i - 1) : v[j] = w[j]
    BY <1>2, <1>4, <1>6
  <2> QED
    BY <1>1, <2>1 DEF Before
<1>7. CASE k < i
  <2>1. u[k] = v[k] /\ \A j \in 1..(k - 1) : u[j] = v[j]
    BY <1>1, <1>4, <1>7
  <2> QED
    BY <1>2, <2>1 DEF Before
<1> QED
  BY <1>4, <1>5, <1>6, <1>7

LEMMA BeforeOneWay ==
  ASSUME NEW sorting, SortingOK(sorting), NEW u \in Keys(sorting), NEW v \in Keys(sorting), u # v
  PROVE  Before(sorting, u, v) \/ Before(sorting, v, u)
<1> DEFINE Differ == {k \in 1..Len(sorting) : u[k] # v[k]}
<1>1. Differ # {} /\ Differ \subseteq Nat
  BY DEF Keys
<1>2. PICK k \in Differ : \A j \in Differ : k <= j
  <2> HIDE DEF Differ
  <2> QED
    BY <1>1, LeastNumber
<1>3. \A j \in 1..(k - 1) : u[j] = v[j]
  BY <1>2 DEF SortingOK
<1>4. Smaller(sorting[k].direction, u[k], v[k]) \/ Smaller(sorting[k].direction, v[k], u[k])
  BY SmallerOneWay DEF Keys, SortingOK
<1> QED
  BY <1>3, <1>4 DEF Before

(* Rows have different keys: as many as there are rows.                    *)
LEMMA KeysAre ==
  ASSUME NEW sorting, SortingOK(sorting), NEW table, Sortable(sorting, table)
  PROVE  /\ \A row \in table : KeyOf(sorting, row) \in Keys(sorting)
         /\ \A a, b \in table : KeyOf(sorting, a) = KeyOf(sorting, b) => a.id = b.id /\ a = b
         /\ IsFiniteSet(KeysOf(sorting, table))
         /\ KeysOf(sorting, table) \subseteq Keys(sorting)
         /\ Cardinality(KeysOf(sorting, table)) = Cardinality(table)
<1> DEFINE f == [row \in table |-> KeyOf(sorting, row)]
<1>1. \A row \in table : KeyOf(sorting, row) \in Keys(sorting)
  BY DEF KeyOf, Keys, SortingOK, Sortable
<1>2. \A a, b \in table : KeyOf(sorting, a) = KeyOf(sorting, b) => a.id = b.id /\ a = b
  <2>1. PICK k \in 1..Len(sorting) : sorting[k].property = "id"
    BY DEF SortingOK
  <2>2. \A row \in table : KeyOf(sorting, row)[k] = row.id
    BY <2>1 DEF KeyOf, SortingOK
  <2> QED
    BY <2>2 DEF Sortable
<1>3. KeysOf(sorting, table) = {f[row] : row \in table}
  BY DEF KeysOf
<1>4. IsFiniteSet(table) /\ \A a, b \in table : f[a] = f[b] => a = b
  BY <1>2 DEF Sortable
<1>5. /\ IsFiniteSet({f[row] : row \in table})
      /\ Cardinality({f[row] : row \in table}) = Cardinality(table)
  <2> HIDE DEF f
  <2> QED
    BY <1>4, FiniteImage, ImageCounts
<1> QED
  BY <1>1, <1>2, <1>3, <1>5 DEF KeysOf

(* So many rows are ahead of a row as keys are before its own.             *)
LEMMA AheadByKey ==
  ASSUME NEW sorting, SortingOK(sorting), NEW table, Sortable(sorting, table), NEW row \in table
  PROVE  /\ Cardinality(Ahead(table, sorting, row)) + 1
              = PlaceOf(sorting, KeysOf(sorting, table), KeyOf(sorting, row))
         /\ Cardinality(Ahead(table, sorting, row)) \in Nat
<1> DEFINE S == Ahead(table, sorting, row)
           f == [other \in table |-> KeyOf(sorting, other)]
<1>1. S \subseteq table /\ IsFiniteSet(S)
  BY FS_Subset DEF Ahead, Sortable
<1>2. \A a, b \in S : f[a] = f[b] => a = b
  BY <1>1, KeysAre
<1>3. Cardinality({f[other] : other \in S}) = Cardinality(S)
  <2> HIDE DEF f, S
  <2> QED
    BY <1>1, <1>2, ImageCounts
<1>4. {f[other] : other \in S}
        = {v \in KeysOf(sorting, table) : Before(sorting, v, KeyOf(sorting, row))}
  BY PrecedesByKey DEF Ahead, KeysOf
<1> QED
  BY <1>1, <1>3, <1>4, FS_CardinalityType DEF PlaceOf

(* No two rows have the same number of rows ahead of them.                 *)
LEMMA RowsHavePlaces ==
  ASSUME NEW sorting, SortingOK(sorting), NEW table, Sortable(sorting, table)
  PROVE  /\ [row \in table |-> Cardinality(Ahead(table, sorting, row)) + 1]
              \in Bijection(table, 1..Cardinality(table))
         /\ \A a, b \in table : a = b \/ Precedes(sorting, a, b) \/ Precedes(sorting, b, a)
<1> DEFINE place == [row \in table |-> Cardinality(Ahead(table, sorting, row)) + 1]
<1>0. PICK R : \A a, b \in table : <<a, b>> \in R <=> Precedes(sorting, a, b)
  <2>1. \A a, b \in table :
          <<a, b>> \in {e \in table \X table : Precedes(sorting, e[1], e[2])}
            <=> Precedes(sorting, a, b)
    OBVIOUS
  <2> QED
    BY <2>1
<1>1. \A a, b \in table : <<a, b>> \in R <=> Before(sorting, KeyOf(sorting, a), KeyOf(sorting, b))
  BY <1>0, PrecedesByKey
<1>2. \A a \in table : <<a, a>> \notin R
  BY <1>1, KeysAre, BeforeOnce
<1>3. \A a, b, c \in table : <<a, b>> \in R /\ <<b, c>> \in R => <<a, c>> \in R
  BY <1>1, KeysAre, BeforeOnward
<1>4. \A a, b \in table : a = b \/ <<a, b>> \in R \/ <<b, a>> \in R
  <2> SUFFICES ASSUME NEW a \in table, NEW b \in table, a # b
               PROVE  <<a, b>> \in R \/ <<b, a>> \in R
    OBVIOUS
  <2>1. /\ KeyOf(sorting, a) \in Keys(sorting) /\ KeyOf(sorting, b) \in Keys(sorting)
        /\ KeyOf(sorting, a) # KeyOf(sorting, b)
    BY KeysAre
  <2>2. \/ Before(sorting, KeyOf(sorting, a), KeyOf(sorting, b))
        \/ Before(sorting, KeyOf(sorting, b), KeyOf(sorting, a))
    BY <2>1, BeforeOneWay
  <2> QED
    BY <1>1, <2>2
<1>5. place = [x \in table |-> Cardinality({y \in table : <<y, x>> \in R}) + 1]
  <2>1. \A x \in table : {y \in table : <<y, x>> \in R} = Ahead(table, sorting, x)
    BY <1>0 DEF Ahead
  <2> QED
    BY <2>1
<1>6. place \in Bijection(table, 1..Cardinality(table))
  <2>1. IsFiniteSet(table)
    BY DEF Sortable
  <2>2. [x \in table |-> Cardinality({y \in table : <<y, x>> \in R}) + 1]
          \in Bijection(table, 1..Cardinality(table))
    BY <1>2, <1>3, <1>4, <2>1, PlacesFill
  <2> QED
    BY <1>5, <2>2
<1> QED
  BY <1>0, <1>4, <1>6

(* A list shows the rows of a table, each at its place.                    *)
LEMMA ListedInPlace ==
  ASSUME NEW sorting, SortingOK(sorting), NEW table, Sortable(sorting, table),
         NEW order \in Orders(table, sorting)
  PROVE  /\ order \in [1..Cardinality(table) -> table]
         /\ \A k \in 1..Cardinality(table) :
              PlaceOf(sorting, KeysOf(sorting, table), KeyOf(sorting, order[k])) = k
         /\ \A row \in table :
              LET p == PlaceOf(sorting, KeysOf(sorting, table), KeyOf(sorting, row))
              IN p \in 1..Cardinality(table) /\ order[p] = row
<1> DEFINE place == [row \in table |-> Cardinality(Ahead(table, sorting, row)) + 1]
<1>6. place \in Bijection(table, 1..Cardinality(table))
  BY RowsHavePlaces
<1>7. order = [k \in 1..Cardinality(table) |-> CHOOSE row \in table : place[row] = k]
  <2>1. \A a, b \in table : a = b \/ Precedes(sorting, a, b) \/ Precedes(sorting, b, a)
    BY RowsHavePlaces
  <2> QED
    BY <2>1 DEF Orders
<1>8. ASSUME NEW k \in 1..Cardinality(table) PROVE order[k] \in table /\ place[order[k]] = k
  <2>1. \E row \in table : place[row] = k
    <3> HIDE DEF place
    <3> QED
      BY <1>6 DEF Bijection, Surjection
  <2>2. order[k] = CHOOSE row \in table : place[row] = k
    BY <1>7
  <2> HIDE DEF place
  <2> QED
    BY <2>1, <2>2
<1>9. ASSUME NEW row \in table PROVE place[row] \in 1..Cardinality(table) /\ order[place[row]] = row
  <2> HIDE DEF place
  <2> QED
    BY <1>6, <1>8 DEF Bijection, Injection, IsInjective
<1>10. \A row \in table :
         place[row] = PlaceOf(sorting, KeysOf(sorting, table), KeyOf(sorting, row))
  BY AheadByKey
<1> HIDE DEF place
<1> QED
  BY <1>7, <1>8, <1>9, <1>10

(* Some order is always found.                                             *)
LEMMA ListsExist ==
  ASSUME NEW sorting, SortingOK(sorting), NEW table, Sortable(sorting, table)
  PROVE  Orders(table, sorting) # {}
<1>1. \A a, b \in table : a = b \/ Precedes(sorting, a, b) \/ Precedes(sorting, b, a)
  BY RowsHavePlaces
<1> QED
  BY <1>1 DEF Orders

(* Tables that are sorted by the same values are listed alike.             *)
LEMMA ListedAlike ==
  ASSUME NEW sorting, SortingOK(sorting), NEW one, Sortable(sorting, one),
         NEW other, Sortable(sorting, other), KeysOf(sorting, one) = KeysOf(sorting, other),
         NEW a \in Orders(one, sorting), NEW b \in Orders(other, sorting)
  PROVE  /\ Cardinality(one) = Cardinality(other)
         /\ \A k \in 1..Cardinality(one) : a[k].id = b[k].id
<1>1. Cardinality(one) = Cardinality(other)
  BY KeysAre
<1>2. ASSUME NEW k \in 1..Cardinality(one) PROVE a[k].id = b[k].id
  <2> DEFINE u == KeyOf(sorting, a[k])
  <2>1. a[k] \in one /\ PlaceOf(sorting, KeysOf(sorting, one), u) = k
    <3>1. a \in [1..Cardinality(one) -> one]
      BY ListedInPlace
    <3>2. PlaceOf(sorting, KeysOf(sorting, one), KeyOf(sorting, a[k])) = k
      BY ListedInPlace
    <3> QED
      BY <3>1, <3>2
  <2>2. PICK row \in other : KeyOf(sorting, row) = u
    BY <2>1 DEF KeysOf
  <2>3. b[k] = row
    BY <2>1, <2>2, ListedInPlace
  <2>4. PICK j \in 1..Len(sorting) : sorting[j].property = "id"
    BY DEF SortingOK
  <2>5. u[j] = a[k].id /\ KeyOf(sorting, row)[j] = row.id
    BY <2>4 DEF KeyOf, SortingOK
  <2> QED
    BY <2>2, <2>3, <2>5
<1> QED
  BY <1>1, <1>2

-----------------------------------------------------------------------------
(* A list that is being read.                                              *)
ListFields == {"request", "at", "code", "offset", "total", "seen", "first", "moved"}

Paging == {"count", "page"}

(* What was asked for has been admitted, and the table keeps its shape.    *)
ListInv ==
  list # NoList =>
    /\ DOMAIN list = ListFields
    /\ list.request \in Listings
    /\ list.at \in {"asked", "refused", "listed"} \union Paging
    /\ list.offset \in Nat /\ list.seen \in Seq(Nat) /\ list.moved \in BOOLEAN
    /\ TableOK(list.request.from, rows)
    /\ list.at = "asked" => list.offset = 0 /\ list.seen = <<>>
    /\ list.at \in Paging \union {"listed"} => ListProblem(list.request) = "ok"
    /\ list.at = "count" => Counts(list.request)

(* The rows that the next statement would find, and their order.           *)
Listed == Matching(list.request, rows)
SortedBy == Sorting(list.request)

(* Every request that is admitted is sorted by the identifier at last.     *)
LEMMA SortingIsOK ==
  ASSUME NEW request \in Listings, ListProblem(request) = "ok"
  PROVE  /\ SortingOK(Sorting(request))
         /\ \A k \in 1..Len(Sorting(request)) :
              \/ Sorting(request)[k].property = "id"
              \/ OfObjects(request) /\ ~SortRefused(Sorting(request)[k])
              \/ ~OfObjects(request) /\ Sorting(request)[k].property = "at"
<1>1. ListingOK(request)
  BY ListsAssumption
<1>2. CASE ~OfObjects(request)
  <2>1. Sorting(request) = <<Descending("at"), Descending("id")>>
    BY <1>2 DEF Sorting, LatestFirst
  <2>2. /\ Descending("at").property = "at" /\ Descending("at").direction = "desc"
        /\ Descending("id").property = "id" /\ Descending("id").direction = "desc"
    BY DEF Descending
  <2> HIDE DEF Descending
  <2>3. /\ Len(Sorting(request)) = 2 /\ DOMAIN Sorting(request) = 1..2
        /\ Sorting(request)[1] = Descending("at") /\ Sorting(request)[2] = Descending("id")
    BY <2>1
  <2> QED
    BY <1>2, <2>2, <2>3 DEF SortingOK
<1>3. CASE OfObjects(request)
  <2>1. /\ request.sort \in Seq(Range(request.sort))
        /\ \A s \in Range(request.sort) : s.direction \in {"asc", "desc"}
        /\ \A s \in Range(request.sort) : ~SortRefused(s)
    BY <1>1, <1>3 DEF ListingOK, ListProblem, OfObjects
  <2>2. /\ Len(request.sort) \in Nat /\ DOMAIN request.sort = 1..Len(request.sort)
        /\ \A k \in 1..Len(request.sort) : request.sort[k] \in Range(request.sort)
    BY <2>1
  <2>3. CASE request.sort # <<>> /\ Last(request.sort).property = "id"
    <3>1. Sorting(request) = request.sort
      BY <1>3, <2>3 DEF Sorting, LatestFirst
    <3>2. Len(request.sort) \in 1..Len(request.sort)
      BY <2>1, <2>2, <2>3
    <3>3. request.sort[Len(request.sort)].property = "id"
      BY <2>3 DEF Last
    <3> QED
      BY <1>3, <2>1, <2>2, <3>1, <3>2, <3>3 DEF SortingOK
  <2>4. CASE ~(request.sort # <<>> /\ Last(request.sort).property = "id")
    <3> DEFINE longer == Append(request.sort, Ascending("id"))
    <3>1. Sorting(request) = longer
      BY <1>3, <2>4 DEF Sorting, LatestFirst
    <3>2. Ascending("id").property = "id" /\ Ascending("id").direction = "asc"
      BY DEF Ascending
    <3>3. /\ Len(longer) = Len(request.sort) + 1 /\ DOMAIN longer = 1..Len(longer)
          /\ \A k \in 1..Len(request.sort) : longer[k] = request.sort[k]
          /\ longer[Len(request.sort) + 1] = Ascending("id")
      <4>1. longer \in Seq(Range(request.sort) \union {Ascending("id")})
        BY <2>1
      <4> QED
        BY <2>1, <4>1
    <3> HIDE DEF longer
    <3>4. \A k \in 1..Len(longer) : k \in 1..Len(request.sort) \/ k = Len(request.sort) + 1
      BY <2>2, <3>3
    <3>5. \A k \in 1..Len(longer) : longer[k].property = "id" \/ ~SortRefused(longer[k])
      BY <2>1, <2>2, <3>2, <3>3, <3>4
    <3>6. SortingOK(longer)
      <4>1. \A k \in 1..Len(longer) : longer[k].direction \in {"asc", "desc"}
        BY <2>1, <2>2, <3>2, <3>3, <3>4
      <4>2. Len(longer) \in 1..Len(longer) /\ longer[Len(longer)].property = "id"
        BY <2>2, <3>2, <3>3
      <4> QED
        BY <2>2, <3>3, <4>1, <4>2 DEF SortingOK
    <3> QED
      BY <1>3, <3>1, <3>5, <3>6
  <2> QED
    BY <2>3, <2>4
<1> QED
  BY <1>2, <1>3

(* Its rows can be sorted so.                                              *)
LEMMA ListedIsSortable ==
  ASSUME NEW request \in Listings, ListProblem(request) = "ok",
         NEW table, TableOK(request.from, table)
  PROVE  Sortable(Sorting(request), Matching(request, table))
<1> DEFINE S == Sorting(request)
<1>1. /\ Matching(request, table) \subseteq table /\ IsFiniteSet(Matching(request, table))
      /\ \A a, b \in table : a.id = b.id => a = b
  BY FS_Subset DEF Matching, TableOK
<1>2. ASSUME NEW row \in table, NEW k \in 1..Len(S) PROVE row[S[k].property] \in Int
  <2>1. RowOK(request.from, row)
    BY DEF TableOK
  <2>2. row.id \in Int
    BY <2>1 DEF RowOK
  <2>3. CASE S[k].property = "id"
    BY <2>2, <2>3
  <2>4. CASE OfObjects(request) /\ ~SortRefused(S[k])
    <3> HIDE DEF S
    <3> QED
      BY <2>1, <2>4 DEF RowOK, OfObjects, SortRefused, Queryable
  <2>5. CASE ~OfObjects(request) /\ S[k].property = "at"
    BY <2>1, <2>5 DEF RowOK, OfObjects
  <2> QED
    BY <2>3, <2>4, <2>5, SortingIsOK
<1> QED
  BY <1>1, <1>2 DEF Sortable

(* What the assumption says of a row, to be cited.                         *)
LEMMA NewRowsAreOK ==
  ASSUME NEW from \in Lists, NEW row \in NewRows[from]
  PROVE  RowOK(from, row)
<1>1. \A q \in NewRows[from] : RowOK(from, q)
  BY ListsAssumption
<1> QED
  BY <1>1

(* What transactions commit leaves a table in shape.                       *)
LEMMA RowsStayOK ==
  ASSUME ListInv, list # NoList, InsertRow \/ RemoveObject \/ ChangeObject \/ EndExecution
  PROVE  TableOK(list.request.from, rows')
<1>1. TableOK(list.request.from, rows)
  BY DEF ListInv
<1>2. CASE InsertRow
  <2>1. list.request.from \in Lists
    BY ListsAssumption DEF ListInv, ListingOK
  <2>2. PICK row \in NewRows[list.request.from] :
          /\ \A other \in rows : other.id # row.id
          /\ rows' = rows \union {row}
    BY <1>2 DEF InsertRow, Commit
  <2>3. RowOK(list.request.from, row)
    BY <2>1, NewRowsAreOK
  <2>4. IsFiniteSet(rows \union {row})
    BY <1>1, FS_AddElement DEF TableOK
  <2> QED
    BY <1>1, <2>2, <2>3, <2>4 DEF TableOK
<1>3. CASE RemoveObject
  <2>1. PICK row \in rows : rows' = rows \ {row}
    BY <1>3 DEF RemoveObject, Commit
  <2> QED
    BY <1>1, <2>1, FS_Subset DEF TableOK
<1>4. ASSUME NEW row \in rows, NEW new, new.id = row.id, RowOK(list.request.from, new),
             rows' = (rows \ {row}) \union {new}
      PROVE  TableOK(list.request.from, rows')
  <2>1. IsFiniteSet((rows \ {row}) \union {new})
    <3>1. IsFiniteSet(rows \ {row})
      BY <1>1, FS_Subset DEF TableOK
    <3> QED
      BY <3>1, FS_AddElement
  <2> QED
    BY <1>1, <1>4, <2>1 DEF TableOK
<1>5. CASE ChangeObject
  <2>1. OfObjects(list.request)
    BY <1>5 DEF ChangeObject
  <2>2. PICK row \in rows, other \in NewRows.objects :
          rows' = (rows \ {row}) \union {[row EXCEPT !.rank = other.rank]}
    BY <1>5 DEF ChangeObject, Commit
  <2> DEFINE new == [row EXCEPT !.rank = other.rank]
  <2>3. RowOK("objects", row) /\ RowOK("objects", other)
    <3>1. "objects" \in Lists
      BY DEF Lists
    <3> QED
      BY <1>1, <2>1, <3>1, NewRowsAreOK DEF TableOK, OfObjects
  <2>4. new.id = row.id /\ RowOK("objects", new)
    BY <2>3 DEF RowOK
  <2> QED
    BY <1>4, <2>1, <2>2, <2>4 DEF OfObjects
<1>6. CASE EndExecution
  <2>1. list.request.from = "executions"
    BY <1>6 DEF EndExecution
  <2>2. PICK row \in rows, status \in {Succeeded, Unsuccessful} :
          rows' = (rows \ {row}) \union
                    {[row EXCEPT !.status = status,
                                 !.affected = IF status = Succeeded THEN {row.object} ELSE {}]}
    BY <1>6 DEF EndExecution, Commit
  <2> DEFINE new == [row EXCEPT !.status = status,
                                !.affected = IF status = Succeeded THEN {row.object} ELSE {}]
  <2>3. RowOK("executions", row)
    BY <1>1, <2>1 DEF TableOK
  <2>4. new.id = row.id /\ RowOK("executions", new)
    BY <2>3 DEF RowOK, Started, Succeeded, Unsuccessful
  <2> QED
    BY <1>4, <2>1, <2>2, <2>4
<1> QED
  BY <1>2, <1>3, <1>5, <1>6

-----------------------------------------------------------------------------
(* How far a slice goes.                                                   *)
LEMMA MinOfTwo ==
  ASSUME NEW a \in Int, NEW b \in Int
  PROVE  Min({a, b}) = IF a <= b THEN a ELSE b
<1>1. \E x \in {a, b} : \A y \in {a, b} : x <= y
  OBVIOUS
<1>2. Min({a, b}) \in {a, b} /\ \A y \in {a, b} : Min({a, b}) <= y
  BY <1>1 DEF Min
<1> QED
  BY <1>2

(* The rows of a page.                                                     *)
PageOf(order, offset, limit) ==
  SubSeq(Fetched(order, offset, limit), 1, Min({limit, Len(Fetched(order, offset, limit))}))

(* A page shows the rows from the offset on, and knows if there are more.  *)
PageOK(order, n, offset, limit) ==
  LET fetched == Fetched(order, offset, limit)
      shown == Ids(PageOf(order, offset, limit))
  IN /\ offset <= n => (HasMore(fetched, limit) <=> offset + limit < n)
     /\ offset <= n => Len(shown) = IF offset + limit <= n THEN limit ELSE n - offset
     /\ shown \in Seq(Nat)
     /\ \A k \in 1..Len(shown) : offset + k \in 1..n /\ shown[k] = order[offset + k].id

(* Whatever the rows, the offset and the limit.                            *)
LEMMA PageIs ==
  ASSUME NEW n \in Nat, NEW T, \A row \in T : row.id \in Nat, NEW order \in [1..n -> T],
         NEW offset \in Nat, NEW limit \in Nat \ {0}
  PROVE  PageOK(order, n, offset, limit)
<1> DEFINE fetched == Fetched(order, offset, limit)
           page == PageOf(order, offset, limit)
           last == IF n <= offset + limit + 1 THEN n ELSE offset + limit + 1
           size == IF limit <= Len(fetched) THEN limit ELSE Len(fetched)
<1>1. order \in Seq(T) /\ Len(order) = n
  OBVIOUS
<1>2. fetched = SubSeq(order, offset + 1, last)
  BY <1>1, MinOfTwo DEF Fetched
<1>3. last \in Int /\ last <= n /\ \A k \in (offset + 1)..last : order[k] \in T
  OBVIOUS
<1>4. /\ fetched \in Seq(T)
      /\ Len(fetched) = IF offset + 1 <= last THEN last - (offset + 1) + 1 ELSE 0
      /\ \A k \in 1..(last - (offset + 1) + 1) : fetched[k] = order[offset + 1 + k - 1]
  <2> HIDE DEF fetched, last
  <2> QED
    BY <1>2, <1>3, SubSeqProperties
<1>5. /\ Len(fetched) \in Nat
      /\ \A k \in 1..Len(fetched) : offset + k \in 1..n /\ fetched[k] = order[offset + k]
  <2> HIDE DEF fetched
  <2> QED
    BY <1>3, <1>4
<1>6. page = SubSeq(fetched, 1, size)
  <2>1. Min({limit, Len(fetched)}) = size
    <3> HIDE DEF fetched
    <3> QED
      BY <1>5, MinOfTwo
  <2> QED
    BY <2>1 DEF PageOf
<1>7. size \in Nat /\ size <= Len(fetched) /\ \A k \in 1..size : fetched[k] \in T
  <2> HIDE DEF fetched
  <2> QED
    BY <1>4, <1>5
<1>8. /\ page \in Seq(T) /\ Len(page) = size
      /\ \A k \in 1..size : page[k] = fetched[k]
  <2> HIDE DEF fetched, page, size
  <2>1. /\ page \in Seq(T) /\ Len(page) = IF 1 <= size THEN size - 1 + 1 ELSE 0
        /\ \A k \in 1..(size - 1 + 1) : page[k] = fetched[1 + k - 1]
    BY <1>6, <1>7, SubSeqProperties
  <2> QED
    BY <1>7, <2>1
<1>9. /\ Ids(page) \in Seq(Nat) /\ Len(Ids(page)) = size
      /\ \A k \in 1..size : Ids(page)[k] = page[k].id
  <2> HIDE DEF fetched, page, size
  <2>1. DOMAIN page = 1..size /\ \A k \in 1..size : page[k] \in T
    BY <1>7, <1>8
  <2>2. Ids(page) = [k \in 1..size |-> page[k].id]
    BY <2>1 DEF Ids
  <2> QED
    BY <1>7, <2>1, <2>2
<1>10. offset <= n => (HasMore(fetched, limit) <=> offset + limit < n)
  <2> HIDE DEF fetched
  <2> QED
    BY <1>4 DEF HasMore
<1>11. offset <= n => size = IF offset + limit <= n THEN limit ELSE n - offset
  <2> HIDE DEF fetched
  <2> QED
    BY <1>4
<1>12. \A k \in 1..size : offset + k \in 1..n /\ Ids(page)[k] = order[offset + k].id
  <2> HIDE DEF fetched, page, size
  <2> SUFFICES ASSUME NEW k \in 1..size
               PROVE  offset + k \in 1..n /\ Ids(page)[k] = order[offset + k].id
    OBVIOUS
  <2>1. k \in 1..Len(fetched)
    BY <1>5, <1>7
  <2>2. fetched[k] = order[offset + k] /\ offset + k \in 1..n
    BY <1>5, <2>1
  <2> QED
    BY <1>8, <1>9, <2>2
<1> HIDE DEF fetched, page, size, last
<1> QED
  BY <1>9, <1>10, <1>11, <1>12 DEF fetched, page, PageOK

-----------------------------------------------------------------------------
(* What the client has are the first rows of an order.                     *)
InOrder(order) ==
  /\ Len(list.seen) = IF list.at = "listed" THEN Cardinality(Listed) ELSE list.offset
  /\ \A k \in 1..Len(list.seen) : list.seen[k] = order[k].id

(* While nothing moves, what the client has is the beginning of the list.  *)
QuietInv ==
  list # NoList /\ ~list.moved /\ list.at \in Paging \union {"listed"} =>
    /\ list.at \in Paging => list.offset <= Cardinality(Listed)
    /\ list.at = "page" /\ Counts(list.request) => list.total = Cardinality(Listed)
    /\ \A order \in Orders(Listed, SortedBy) : InOrder(order)

(* A history that is listed to the end and that no row leaves.             *)
OfHistory ==
  /\ ~OfObjects(list.request) /\ ~Counts(list.request)
  /\ \A f \in Range(list.request.filters) : f.property = "status" => f.value # Started

(* A row that is still behind the offset.                                  *)
ToCome(i) ==
  \E row \in Listed :
    row.id = i /\ PlaceOf(SortedBy, KeysOf(SortedBy, Listed), KeyOf(SortedBy, row)) > list.offset

(* Whatever moves, a row of the beginning has been shown or is to come.    *)
HistoryInv ==
  list # NoList /\ list.at \in {"page", "listed"} /\ OfHistory =>
    /\ list.at = "page" => list.offset <= Cardinality(Listed)
    /\ \A i \in list.first : i \in Range(list.seen) \/ (list.at = "page" /\ ToCome(i))

(* What a page leaves alone.                                               *)
Untouched == /\ list'.request = list.request /\ list'.moved = list.moved
             /\ list'.first = list.first /\ rows' = rows

(* While pages are taken, the rows that match have one order.              *)
LEMMA ListedRowsAre ==
  ASSUME ListInv, list # NoList, list.at \in Paging
  PROVE  /\ SortingOK(SortedBy) /\ Sortable(SortedBy, Listed)
         /\ Cardinality(Listed) \in Nat
         /\ \A row \in Listed : row.id \in Nat
<1>1. /\ list.request \in Listings /\ ListProblem(list.request) = "ok"
      /\ TableOK(list.request.from, rows)
  BY DEF ListInv
<1>2. SortingOK(SortedBy) /\ Sortable(SortedBy, Listed)
  BY <1>1, SortingIsOK, ListedIsSortable DEF SortedBy, Listed
<1>3. Cardinality(Listed) \in Nat
  BY <1>2, FS_CardinalityType DEF Sortable
<1>4. \A row \in Listed : row.id \in Nat
  BY <1>1 DEF Listed, Matching, TableOK, RowOK
<1> QED
  BY <1>2, <1>3, <1>4

(* What a page changes, field by field.                                    *)
LEMMA TakePageIs ==
  ASSUME ListInv, list # NoList, TakePage
  PROVE  /\ Untouched /\ DOMAIN list' = ListFields /\ list'.total = list.total
         /\ \E order \in Orders(Listed, SortedBy) :
              LET limit == list.request.limit
                  shown == Ids(PageOf(order, list.offset, limit))
                  more == IF Counts(list.request) THEN list.offset + limit < list.total
                          ELSE HasMore(Fetched(order, list.offset, limit), limit)
              IN /\ list'.seen = list.seen \o shown
                 /\ list'.offset = IF more THEN list.offset + limit ELSE list.offset
                 /\ list'.at = IF more THEN FirstStatement ELSE "listed"
<1> USE DEF TakePage
<1>1. DOMAIN list = ListFields
  BY DEF ListInv
<1>2. PICK order \in Orders(Listed, SortedBy) :
        LET limit == list.request.limit
            shown == Ids(PageOf(order, list.offset, limit))
            more == IF Counts(list.request) THEN list.offset + limit < list.total
                    ELSE HasMore(Fetched(order, list.offset, limit), limit)
        IN list' = [list EXCEPT !.seen = list.seen \o shown,
                                !.offset = IF more THEN list.offset + limit ELSE list.offset,
                                !.at = IF more THEN FirstStatement ELSE "listed"]
  BY DEF Listed, SortedBy, PageOf, NextOffset
<1> DEFINE limit == list.request.limit
           shown == Ids(PageOf(order, list.offset, limit))
           more == IF Counts(list.request) THEN list.offset + limit < list.total
                   ELSE HasMore(Fetched(order, list.offset, limit), limit)
<1>3. list' = [list EXCEPT !.seen = list.seen \o shown,
                           !.offset = IF more THEN list.offset + limit ELSE list.offset,
                           !.at = IF more THEN FirstStatement ELSE "listed"]
  BY <1>2
<1>4. /\ DOMAIN list' = ListFields
      /\ list'.request = list.request /\ list'.moved = list.moved
      /\ list'.first = list.first /\ list'.total = list.total
      /\ list'.seen = list.seen \o shown
      /\ list'.offset = IF more THEN list.offset + limit ELSE list.offset
      /\ list'.at = IF more THEN FirstStatement ELSE "listed"
  <2> HIDE DEF shown, more, limit
  <2> QED
    BY <1>1, <1>3 DEF ListFields
<1> QED
  BY <1>4 DEF Untouched

(* What another transaction changes of the list: only whether it moved.    *)
LEMMA CommitIs ==
  ASSUME ListInv, list # NoList, InsertRow \/ RemoveObject \/ ChangeObject \/ EndExecution
  PROVE  /\ list.at \in Paging /\ list' # NoList
         /\ DOMAIN list' = ListFields
         /\ list'.request = list.request /\ list'.at = list.at /\ list'.offset = list.offset
         /\ list'.total = list.total /\ list'.seen = list.seen /\ list'.first = list.first
         /\ list'.moved \in BOOLEAN
         /\ ~list'.moved => ~list.moved /\ KeysOf(SortedBy, Matching(list.request, rows'))
                                              = KeysOf(SortedBy, Listed)
<1>1. PICK table : Commit(table)
  BY DEF InsertRow, RemoveObject, ChangeObject, EndExecution
<1>2. /\ list.at \in Paging /\ rows' = table
      /\ list' = [list EXCEPT !.moved = (list.moved \/ Placed(rows) # Placed(table))]
  BY <1>1 DEF Commit, Paging
<1>3. DOMAIN list = ListFields /\ list.moved \in BOOLEAN
  BY DEF ListInv
<1>4. /\ DOMAIN list' = ListFields
      /\ list'.request = list.request /\ list'.at = list.at /\ list'.offset = list.offset
      /\ list'.total = list.total /\ list'.seen = list.seen /\ list'.first = list.first
      /\ list'.moved = (list.moved \/ Placed(rows) # Placed(table))
  BY <1>2, <1>3 DEF ListFields
<1>5. \A some : Placed(some) = KeysOf(SortedBy, Matching(list.request, some))
  BY DEF Placed, KeysOf, KeyOf, SortedBy
<1>6. list' # NoList
  BY <1>2, <1>4 DEF NoList, Paging
<1> QED
  BY <1>2, <1>3, <1>4, <1>5, <1>6 DEF Listed

(* The three invariants hold at first, and the first is kept.              *)
LEMMA ListInvAtFirst ==
  ASSUME ReadingInit PROVE ListInv /\ QuietInv /\ HistoryInv
<1>1. CASE ListInit
  <2>1. PICK request \in Listings :
          /\ rows \in Contents[request.from]
          /\ list = [request |-> request, at |-> "asked", code |-> "ok", offset |-> 0,
                     total |-> 0, seen |-> <<>>, first |-> {}, moved |-> FALSE]
    BY <1>1 DEF ListInit
  <2>2. request.from \in Lists
    BY ListsAssumption DEF ListingOK
  <2>3. TableOK(request.from, rows)
    BY <2>1, <2>2, ListsAssumption
  <2> QED
    BY <2>1, <2>3 DEF ListInv, QuietInv, HistoryInv, ListFields, Paging
<1>2. CASE list = NoList
  BY <1>2 DEF ListInv, QuietInv, HistoryInv
<1> QED
  BY <1>1, <1>2 DEF ReadingInit

LEMMA ListInvIsKept ==
  ASSUME ListInv, [ReadingNext]_readingVars
  PROVE  ListInv'
<1>1. CASE UNCHANGED listVars
  BY <1>1 DEF listVars, ListInv
<1>2. CASE list # NoList /\ (RefuseList \/ BeginList \/ CountRows)
  BY <1>2 DEF ListInv, RefuseList, BeginList, CountRows, ListFields, Paging, FirstStatement
<1>3. CASE list # NoList /\ TakePage
  <2>1. list.at \in Paging /\ list.at = "page"
    BY <1>3 DEF TakePage, Paging
  <2>2. PICK order \in Orders(Listed, SortedBy) :
          LET limit == list.request.limit
              shown == Ids(PageOf(order, list.offset, limit))
              more == IF Counts(list.request) THEN list.offset + limit < list.total
                      ELSE HasMore(Fetched(order, list.offset, limit), limit)
          IN /\ list'.seen = list.seen \o shown
             /\ list'.offset = IF more THEN list.offset + limit ELSE list.offset
             /\ list'.at = IF more THEN FirstStatement ELSE "listed"
    BY <1>3, TakePageIs
  <2> DEFINE limit == list.request.limit
             shown == Ids(PageOf(order, list.offset, limit))
  <2>3. limit \in Nat \ {0} /\ list.offset \in Nat /\ list.seen \in Seq(Nat)
    BY <1>3, ListsAssumption DEF ListInv, ListingOK
  <2>4. order \in [1..Cardinality(Listed) -> Listed] /\ \A row \in Listed : row.id \in Nat
    BY <1>3, <2>1, ListedRowsAre, ListedInPlace
  <2>5. shown \in Seq(Nat)
    <3>1. Cardinality(Listed) \in Nat
      BY <1>3, <2>1, ListedRowsAre
    <3> HIDE DEF limit
    <3> QED
      BY <2>3, <2>4, <3>1, PageIs DEF PageOK
  <2>6. list'.seen \in Seq(Nat) /\ list'.offset \in Nat
        /\ list'.at \in {"listed"} \union Paging
        /\ (list'.at = "count" => Counts(list.request))
    <3>1. list'.seen = list.seen \o shown
      BY <2>2
    <3>2. list'.offset \in {list.offset + limit, list.offset}
      BY <2>2
    <3>3. list'.at \in {FirstStatement, "listed"}
      BY <2>2
    <3> HIDE DEF shown, limit
    <3> QED
      BY <2>3, <2>5, <3>1, <3>2, <3>3 DEF FirstStatement, Paging
  <2>7. Untouched /\ DOMAIN list' = ListFields
    BY <1>3, TakePageIs
  <2> QED
    BY <1>3, <2>1, <2>6, <2>7 DEF ListInv, Untouched, Paging
<1>4. CASE list # NoList /\ (InsertRow \/ RemoveObject \/ ChangeObject \/ EndExecution)
  <2>1. TableOK(list.request.from, rows')
    BY <1>4, RowsStayOK
  <2> QED
    BY <1>4, <2>1, CommitIs DEF ListInv, Paging
<1> QED
  BY <1>1, <1>2, <1>3, <1>4 DEF ReadingNext, ListNext, readingVars

-----------------------------------------------------------------------------
(* What the start of a list changes, field by field.                       *)
LEMMA BeginListIs ==
  ASSUME ListInv, list # NoList, BeginList
  PROVE  /\ list'.at = FirstStatement /\ list'.request = list.request /\ rows' = rows
         /\ list'.offset = 0 /\ list'.seen = <<>>
         /\ list'.first = {row.id : row \in Listed}
         /\ Listed' = Listed /\ SortedBy' = SortedBy /\ ListInv'
<1>1. DOMAIN list = ListFields /\ list.at = "asked" /\ list.offset = 0 /\ list.seen = <<>>
  BY DEF ListInv, BeginList
<1>2. /\ list'.at = FirstStatement /\ list'.request = list.request /\ rows' = rows
      /\ list'.offset = list.offset /\ list'.seen = list.seen
      /\ list'.first = {row.id : row \in Matching(list.request, rows)}
  BY <1>1 DEF BeginList, ListFields
<1>3. ListInv'
  BY DEF ListInv, BeginList, ListFields, Paging, FirstStatement
<1> QED
  BY <1>1, <1>2, <1>3 DEF Listed, SortedBy

(* After a page the rows it has shown are those up to the new offset, or,  *)
(* of the last page, all there are.                                        *)
LEMMA PageTaken ==
  ASSUME ListInv, list # NoList, TakePage, list.offset <= Cardinality(Listed),
         Counts(list.request) => list.total = Cardinality(Listed)
  PROVE  \E order \in Orders(Listed, SortedBy) :
           LET n == Cardinality(Listed)
               shown == Ids(PageOf(order, list.offset, list.request.limit))
           IN /\ list'.seen = list.seen \o shown /\ shown \in Seq(Nat)
              /\ \A k \in 1..Len(shown) :
                   list.offset + k \in 1..n /\ shown[k] = order[list.offset + k].id
              /\ \/ /\ list'.at \in Paging /\ list'.offset = list.offset + Len(shown)
                    /\ list'.offset <= n
                 \/ list'.at = "listed" /\ list.offset + Len(shown) = n
<1>1. list.at \in Paging /\ list.at = "page"
  BY DEF TakePage, Paging
<1>2. PICK order \in Orders(Listed, SortedBy) :
        LET limit == list.request.limit
            shown == Ids(PageOf(order, list.offset, limit))
            more == IF Counts(list.request) THEN list.offset + limit < list.total
                    ELSE HasMore(Fetched(order, list.offset, limit), limit)
        IN /\ list'.seen = list.seen \o shown
           /\ list'.offset = IF more THEN list.offset + limit ELSE list.offset
           /\ list'.at = IF more THEN FirstStatement ELSE "listed"
  BY TakePageIs
<1> DEFINE n == Cardinality(Listed)
           limit == list.request.limit
           shown == Ids(PageOf(order, list.offset, limit))
           more == IF Counts(list.request) THEN list.offset + limit < list.total
                   ELSE HasMore(Fetched(order, list.offset, limit), limit)
<1>3. limit \in Nat \ {0} /\ list.offset \in Nat
  BY ListsAssumption DEF ListInv, ListingOK
<1>4. /\ n \in Nat /\ order \in [1..n -> Listed] /\ \A row \in Listed : row.id \in Nat
  BY <1>1, ListedRowsAre, ListedInPlace
<1>5. /\ HasMore(Fetched(order, list.offset, limit), limit) <=> list.offset + limit < n
      /\ Len(shown) = IF list.offset + limit <= n THEN limit ELSE n - list.offset
      /\ shown \in Seq(Nat)
      /\ \A k \in 1..Len(shown) :
           list.offset + k \in 1..n /\ shown[k] = order[list.offset + k].id
  <2>1. list.offset <= n
    OBVIOUS
  <2>2. PageOK(order, n, list.offset, limit)
    <3> HIDE DEF limit, n
    <3> QED
      BY <1>3, <1>4, PageIs
  <2> HIDE DEF limit, n
  <2> QED
    BY <2>1, <2>2 DEF PageOK
<1>6. more <=> list.offset + limit < n
  BY <1>5
<1>7. /\ list'.seen = list.seen \o shown
      /\ list'.offset = IF more THEN list.offset + limit ELSE list.offset
      /\ list'.at = IF more THEN FirstStatement ELSE "listed"
  BY <1>2
<1>8. \/ /\ list'.at \in Paging /\ list'.offset = list.offset + Len(shown)
         /\ list'.offset <= n
      \/ list'.at = "listed" /\ list.offset + Len(shown) = n
  <2>0. list.offset <= n
    OBVIOUS
  <2>1. FirstStatement \in Paging
    BY DEF FirstStatement, Paging
  <2> HIDE DEF n, limit, shown, more
  <2>2. CASE more
    BY <1>3, <1>4, <1>5, <1>6, <1>7, <2>1, <2>2
  <2>3. CASE ~more
    BY <1>3, <1>4, <1>5, <1>6, <1>7, <2>0, <2>3
  <2> QED
    BY <2>2, <2>3
<1> QED
  BY <1>5, <1>7, <1>8

(* A page more of a quiet list: it goes on where the last one ended.       *)
LEMMA QuietPage ==
  ASSUME ListInv, QuietInv, list # NoList, TakePage
  PROVE  QuietInv'
<1> SUFFICES ASSUME ~list'.moved, list' # NoList, list'.at \in Paging \union {"listed"}
             PROVE  QuietInv'
  BY DEF QuietInv
<1>1. list.at \in Paging /\ list.at = "page" /\ Untouched
  BY TakePageIs DEF TakePage, Paging
<1>2. /\ list.offset <= Cardinality(Listed)
      /\ Counts(list.request) => list.total = Cardinality(Listed)
      /\ \A order \in Orders(Listed, SortedBy) : InOrder(order)
  BY <1>1 DEF QuietInv, Untouched
<1>3. Listed' = Listed /\ SortedBy' = SortedBy /\ Counts(list'.request) = Counts(list.request)
  BY <1>1 DEF Untouched, Listed, SortedBy
<1>4. PICK order \in Orders(Listed, SortedBy) :
        LET n == Cardinality(Listed)
            shown == Ids(PageOf(order, list.offset, list.request.limit))
        IN /\ list'.seen = list.seen \o shown /\ shown \in Seq(Nat)
           /\ \A k \in 1..Len(shown) :
                list.offset + k \in 1..n /\ shown[k] = order[list.offset + k].id
           /\ \/ /\ list'.at \in Paging /\ list'.offset = list.offset + Len(shown)
                 /\ list'.offset <= n
              \/ list'.at = "listed" /\ list.offset + Len(shown) = n
  BY <1>2, PageTaken
<1> DEFINE n == Cardinality(Listed)
           shown == Ids(PageOf(order, list.offset, list.request.limit))
<1>5. /\ Len(list.seen) = list.offset /\ list.offset \in Nat /\ list.seen \in Seq(Nat)
      /\ \A k \in 1..Len(list.seen) : list.seen[k] = order[k].id
  BY <1>1, <1>2 DEF InOrder, ListInv
<1>6. /\ Len(list'.seen) = IF list'.at = "listed" THEN n ELSE list'.offset
      /\ Len(list'.seen) = list.offset + Len(shown)
      /\ list'.at \in Paging => list'.offset <= n
  <2>1. Len(list'.seen) = list.offset + Len(shown)
    <3>1. list'.seen = list.seen \o shown /\ shown \in Seq(Nat)
      BY <1>4
    <3> HIDE DEF shown
    <3> QED
      BY <1>5, <3>1
  <2>2. \/ /\ list'.at \in Paging /\ list'.offset = list.offset + Len(shown)
           /\ list'.offset <= n
        \/ list'.at = "listed" /\ list.offset + Len(shown) = n
    BY <1>4
  <2> HIDE DEF shown, n
  <2> QED
    BY <2>1, <2>2 DEF Paging
<1>7. ASSUME NEW k \in 1..Len(list'.seen) PROVE list'.seen[k] = order[k].id
  <2>1. /\ list'.seen = list.seen \o shown /\ shown \in Seq(Nat)
        /\ \A j \in 1..Len(shown) : shown[j] = order[list.offset + j].id
    BY <1>4
  <2> HIDE DEF shown
  <2>2. CASE k <= list.offset
    BY <1>5, <1>6, <2>1, <2>2
  <2>3. CASE k > list.offset
    <3>0. k \in Nat /\ k - list.offset \in 1..Len(shown) /\ Len(shown) \in Nat
      <4>1. Len(shown) \in Nat
        BY <2>1
      <4> QED
        BY <1>5, <1>6, <2>3, <4>1
    <3>1. k - list.offset \in 1..Len(shown) /\ list'.seen[k] = shown[k - list.offset]
      <4>1. \A j \in 1..(Len(list.seen) + Len(shown)) :
              (list.seen \o shown)[j]
                = IF j <= Len(list.seen) THEN list.seen[j] ELSE shown[j - Len(list.seen)]
        BY <1>5, <2>1, ConcatProperties
      <4>2. k \in 1..(Len(list.seen) + Len(shown)) /\ ~(k <= Len(list.seen))
        BY <1>5, <2>3, <3>0
      <4>3. (list.seen \o shown)[k] = shown[k - Len(list.seen)]
        BY <4>1, <4>2
      <4> QED
        BY <1>5, <2>1, <3>0, <4>3
    <3>2. list.offset + (k - list.offset) = k
      BY <1>5
    <3> QED
      BY <2>1, <3>1, <3>2
  <2> QED
    BY <1>5, <2>2, <2>3
<1>8. ASSUME NEW a \in Orders(Listed, SortedBy) PROVE InOrder(a)'
  <2>1. /\ a \in [1..n -> Listed] /\ order \in [1..n -> Listed]
        /\ \A k \in 1..n : a[k].id = order[k].id
    BY <1>1, ListedRowsAre, ListedAlike, ListedInPlace
  <2>2. \A k \in 1..Len(list'.seen) : k \in 1..n
    <3>1. n \in Nat /\ Len(list'.seen) <= n
      <4>1. n \in Nat
        BY <1>1, ListedRowsAre
      <4>2. \/ /\ list'.at \in Paging /\ list'.offset <= n
            \/ list'.at = "listed"
        BY <1>4
      <4> HIDE DEF n, shown
      <4> QED
        BY <1>6, <4>1, <4>2 DEF Paging
    <3> HIDE DEF n, shown
    <3> QED
      BY <3>1
  <2> QED
    BY <1>3, <1>6, <1>7, <2>1, <2>2 DEF InOrder
<1>9. list'.at = "page" /\ Counts(list'.request) => list'.total = Cardinality(Listed')
  <2>1. Counts(list'.request) => FirstStatement = "count"
    BY <1>1 DEF Untouched, FirstStatement
  <2>2. list'.at = "page" => list'.at = FirstStatement
    BY TakePageIs
  <2> QED
    BY <2>1, <2>2
<1> QED
  BY <1>3, <1>6, <1>8, <1>9 DEF QuietInv, Paging

(* No step breaks QuietInv: a commit that leaves the keys alone leaves the *)
(* order alone.                                                            *)
LEMMA QuietInvIsKept ==
  ASSUME ListInv, QuietInv, [ReadingNext]_readingVars
  PROVE  QuietInv'
<1>1. CASE UNCHANGED listVars
  BY <1>1 DEF listVars, QuietInv, InOrder, Listed, SortedBy
<1>2. CASE list # NoList /\ RefuseList
  <2>1. list'.at = "refused"
    BY <1>2 DEF ListInv, RefuseList, ListFields
  <2> QED
    BY <2>1 DEF QuietInv, Paging
<1>3. CASE list # NoList /\ BeginList
  <2>1. /\ list'.at \in Paging /\ list'.offset = 0 /\ list'.seen = <<>> /\ list' # NoList
        /\ list'.request = list.request
        /\ list'.at = FirstStatement /\ ListInv'
    BY <1>3, BeginListIs DEF FirstStatement, Paging, NoList
  <2>2. Cardinality(Listed) \in Nat /\ Listed' = Listed
    <3>1. IsFiniteSet(Listed)
      BY <1>3, FS_Subset DEF ListInv, TableOK, Listed, Matching
    <3> QED
      BY <1>3, <3>1, BeginListIs, FS_CardinalityType
  <2> QED
    BY <2>1, <2>2 DEF QuietInv, InOrder, Paging, FirstStatement
<1>4. CASE list # NoList /\ CountRows
  <2>1. /\ list'.at = "page" /\ list'.request = list.request /\ list'.moved = list.moved
        /\ list'.offset = list.offset /\ list'.seen = list.seen /\ rows' = rows
        /\ list'.total = Cardinality(Listed) /\ list.at = "count"
    BY <1>4 DEF ListInv, CountRows, ListFields, CountedRows, Listed
  <2> QED
    BY <1>4, <2>1 DEF QuietInv, InOrder, Listed, SortedBy, Paging
<1>5. CASE list # NoList /\ TakePage
  BY <1>5, QuietPage
<1>6. CASE list # NoList /\ (InsertRow \/ RemoveObject \/ ChangeObject \/ EndExecution)
  <2> SUFFICES ASSUME ~list'.moved PROVE QuietInv'
    BY DEF QuietInv
  <2>1. /\ list.at \in Paging /\ list'.at = list.at /\ list'.request = list.request
        /\ list'.offset = list.offset /\ list'.total = list.total /\ list'.seen = list.seen
        /\ ~list.moved /\ KeysOf(SortedBy, Matching(list.request, rows')) = KeysOf(SortedBy, Listed)
    BY <1>6, CommitIs
  <2>2. SortedBy' = SortedBy /\ Listed' = Matching(list.request, rows')
    BY <2>1 DEF SortedBy, Listed
  <2>3. /\ list.offset <= Cardinality(Listed)
        /\ list.at = "page" /\ Counts(list.request) => list.total = Cardinality(Listed)
        /\ \A order \in Orders(Listed, SortedBy) : InOrder(order)
    BY <1>6, <2>1 DEF QuietInv
  <2>4. SortingOK(SortedBy) /\ Sortable(SortedBy, Listed) /\ Cardinality(Listed) \in Nat
    BY <1>6, <2>1, ListedRowsAre
  <2>5. Sortable(SortedBy, Listed')
    <3>1. list.request \in Listings /\ ListProblem(list.request) = "ok"
      BY <1>6, <2>1 DEF ListInv
    <3>2. TableOK(list.request.from, rows')
      BY <1>6, RowsStayOK
    <3> QED
      BY <2>2, <3>1, <3>2, ListedIsSortable DEF SortedBy
  <2>6. Cardinality(Listed') = Cardinality(Listed)
    BY <2>1, <2>2, <2>4, <2>5, KeysAre
  <2>7. ASSUME NEW b \in Orders(Listed', SortedBy) PROVE InOrder(b)'
    <3>1. PICK a : a \in Orders(Listed, SortedBy)
      BY <2>4, ListsExist
    <3>2. \A k \in 1..Cardinality(Listed) : a[k].id = b[k].id
      BY <2>1, <2>2, <2>4, <2>5, <3>1, ListedAlike
    <3>3. Len(list.seen) = list.offset /\ \A k \in 1..Len(list.seen) : list.seen[k] = a[k].id
      BY <2>1, <2>3, <3>1 DEF InOrder, Paging
    <3>4. list.offset \in Nat
      BY <1>6 DEF ListInv
    <3>5. \A k \in 1..Len(list.seen) : k \in 1..Cardinality(Listed)
      BY <2>3, <2>4, <3>3, <3>4
    <3> QED
      BY <2>1, <3>2, <3>3, <3>5 DEF InOrder, Paging
  <2> QED
    BY <2>1, <2>2, <2>3, <2>6, <2>7 DEF QuietInv, Paging
<1> QED
  BY <1>1, <1>2, <1>3, <1>4, <1>5, <1>6 DEF ReadingNext, ListNext, readingVars

-----------------------------------------------------------------------------
(* Histories grow: a row that is listed stays in its place or moves back.  *)
LEMMA HistoryGrows ==
  ASSUME ListInv, list # NoList, OfHistory,
         InsertRow \/ RemoveObject \/ ChangeObject \/ EndExecution,
         NEW row \in Listed
  PROVE  \E new \in Matching(list.request, rows') :
           new.id = row.id /\ KeyOf(SortedBy, new) = KeyOf(SortedBy, row)
<1>1. row \in rows /\ Answers(list.request, row) /\ TableOK(list.request.from, rows)
  BY DEF ListInv, Listed, Matching
<1>2. CASE row \in rows'
  BY <1>1, <1>2 DEF Matching
<1>3. CASE row \notin rows'
  <2>1. EndExecution
    <3>1. ~RemoveObject /\ ~ChangeObject
      BY DEF OfHistory, RemoveObject, ChangeObject
    <3>2. ~InsertRow
      BY <1>1, <1>3 DEF InsertRow, Commit
    <3> QED
      BY <3>1, <3>2
  <2>2. PICK old \in rows, status \in {Succeeded, Unsuccessful} :
          /\ old.status = Started
          /\ rows' = (rows \ {old}) \union
                       {[old EXCEPT !.status = status,
                                    !.affected = IF status = Succeeded THEN {old.object} ELSE {}]}
    BY <2>1 DEF EndExecution, Commit
  <2>3. old = row /\ list.request.from = "executions"
    BY <1>1, <1>3, <2>1, <2>2 DEF EndExecution
  <2> DEFINE new == [row EXCEPT !.status = status,
                                !.affected = IF status = Succeeded THEN {row.object} ELSE {}]
  <2>4. RowOK("executions", row)
    BY <1>1, <2>3 DEF TableOK
  <2>5. /\ new.id = row.id /\ new.at = row.at
        /\ \A p \in HistoryColumns["executions"] :
             p # "status" /\ p # "affected" => new[p] = row[p]
    BY <2>4 DEF RowOK, HistoryColumns
  <2>6. Answers(list.request, new)
    <3>1. list.request \in Listings /\ ListingOK(list.request)
      BY ListsAssumption DEF ListInv
    <3>2. list.request.query = {}
      BY <2>3, <3>1 DEF ListingOK
    <3>3. ASSUME NEW f \in Range(list.request.filters) PROVE Passes(new, f)
      <4>1. Passes(row, f)
        BY <1>1 DEF Answers
      <4>2. /\ f.property = "status" => f.operator = "equals" /\ f.value # Started
            /\ f.property = "affected" => f.operator = "contains"
            /\ f.property \in HistoryColumns["executions"]
        BY <2>3, <3>1 DEF ListingOK, OfHistory
      <4>3. row.status = Started /\ row.affected = {}
        BY <2>2, <2>3, <2>4 DEF RowOK
      <4>4. f.property # "status"
        BY <4>1, <4>2, <4>3 DEF Passes
      <4>5. f.property # "affected"
        BY <4>1, <4>2, <4>3 DEF Passes
      <4>6. new[f.property] = row[f.property]
        BY <2>5, <4>2, <4>4, <4>5
      <4> HIDE DEF new
      <4> QED
        BY <4>1, <4>6 DEF Passes
    <3> HIDE DEF new
    <3> QED
      BY <3>2, <3>3 DEF Answers
  <2>7. KeyOf(SortedBy, new) = KeyOf(SortedBy, row)
    <3>1. list.request \in Listings /\ ListProblem(list.request) = "ok"
      BY CommitIs DEF ListInv, Paging
    <3>2. ~OfObjects(list.request)
      BY DEF OfHistory
    <3>3. /\ DOMAIN SortedBy = 1..Len(SortedBy)
          /\ \A k \in 1..Len(SortedBy) :
               SortedBy[k].property = "id" \/ SortedBy[k].property = "at"
      BY <3>1, <3>2, SortingIsOK DEF SortedBy, SortingOK
    <3>4. \A k \in DOMAIN SortedBy : new[SortedBy[k].property] = row[SortedBy[k].property]
      <4> HIDE DEF new
      <4> QED
        BY <2>5, <3>3
    <3> HIDE DEF new
    <3> QED
      BY <3>4 DEF KeyOf
  <2>8. new \in rows'
    BY <2>2, <2>3
  <2> HIDE DEF new
  <2> QED
    BY <2>5, <2>6, <2>7, <2>8 DEF Matching
<1> QED
  BY <1>2, <1>3

(* More keys, and a key stays in its place or moves back.                  *)
LEMMA PlacesGrow ==
  ASSUME NEW sorting, NEW keys, NEW more, keys \subseteq more, IsFiniteSet(more), NEW u
  PROVE  /\ PlaceOf(sorting, keys, u) \in Nat /\ PlaceOf(sorting, more, u) \in Nat
         /\ PlaceOf(sorting, keys, u) <= PlaceOf(sorting, more, u)
<1> DEFINE S == {v \in keys : Before(sorting, v, u)}
           T == {v \in more : Before(sorting, v, u)}
<1>1. S \subseteq T /\ T \subseteq more
  OBVIOUS
<1>2. IsFiniteSet(S) /\ IsFiniteSet(T)
  <2> HIDE DEF S, T
  <2> QED
    BY <1>1, FS_Subset
<1>3. Cardinality(S) <= Cardinality(T) /\ Cardinality(S) \in Nat /\ Cardinality(T) \in Nat
  <2> HIDE DEF S, T
  <2> QED
    BY <1>1, <1>2, FS_Subset, FS_CardinalityType
<1> QED
  BY <1>3 DEF PlaceOf

(* Before the first page every row that matches is to come.                *)
LEMMA HistoryBegins ==
  ASSUME ListInv, list # NoList, BeginList
  PROVE  HistoryInv'
<1>1. /\ list'.at = FirstStatement /\ list'.request = list.request
      /\ list'.offset = 0 /\ list'.first = {row.id : row \in Listed}
      /\ Listed' = Listed /\ SortedBy' = SortedBy
  BY BeginListIs
<1>2. SortingOK(SortedBy) /\ Sortable(SortedBy, Listed) /\ Cardinality(Listed) \in Nat
  <2>1. /\ list.request \in Listings /\ ListProblem(list.request) = "ok"
        /\ TableOK(list.request.from, rows)
    BY DEF ListInv, BeginList
  <2>2. SortingOK(SortedBy) /\ Sortable(SortedBy, Listed)
    BY <2>1, SortingIsOK, ListedIsSortable DEF SortedBy, Listed
  <2> QED
    BY <2>2, FS_CardinalityType DEF Sortable
<1>3. ASSUME NEW row \in Listed
      PROVE  PlaceOf(SortedBy, KeysOf(SortedBy, Listed), KeyOf(SortedBy, row)) > 0
  <2>1. PICK order : order \in Orders(Listed, SortedBy)
    BY <1>2, ListsExist
  <2>2. PlaceOf(SortedBy, KeysOf(SortedBy, Listed), KeyOf(SortedBy, row)) \in 1..Cardinality(Listed)
    BY <1>2, <2>1, ListedInPlace
  <2> QED
    BY <1>2, <2>2
<1> QED
  BY <1>1, <1>2, <1>3 DEF HistoryInv, ToCome, OfHistory, FirstStatement

(* A page shows the rows up to the new offset: the others are yet to come. *)
LEMMA HistoryPage ==
  ASSUME ListInv, HistoryInv, list # NoList, TakePage
  PROVE  HistoryInv'
<1> SUFFICES ASSUME OfHistory PROVE HistoryInv'
  <2>1. OfHistory' <=> OfHistory
    BY TakePageIs DEF Untouched, OfHistory
  <2> QED
    BY <2>1 DEF HistoryInv
<1>1. list.at \in Paging /\ list.at = "page" /\ Untouched
  BY TakePageIs DEF TakePage, Paging
<1>2. /\ list.offset <= Cardinality(Listed)
      /\ \A i \in list.first : i \in Range(list.seen) \/ ToCome(i)
  BY <1>1 DEF HistoryInv
<1>3. Listed' = Listed /\ SortedBy' = SortedBy
  BY <1>1 DEF Untouched, Listed, SortedBy
<1>4. PICK order \in Orders(Listed, SortedBy) :
        LET n == Cardinality(Listed)
            shown == Ids(PageOf(order, list.offset, list.request.limit))
        IN /\ list'.seen = list.seen \o shown /\ shown \in Seq(Nat)
           /\ \A k \in 1..Len(shown) :
                list.offset + k \in 1..n /\ shown[k] = order[list.offset + k].id
           /\ \/ /\ list'.at \in Paging /\ list'.offset = list.offset + Len(shown)
                 /\ list'.offset <= n
              \/ list'.at = "listed" /\ list.offset + Len(shown) = n
  BY <1>2, PageTaken DEF OfHistory
<1> DEFINE n == Cardinality(Listed)
           shown == Ids(PageOf(order, list.offset, list.request.limit))
<1>5. list.seen \in Seq(Nat) /\ list.offset \in Nat /\ n \in Nat /\ Len(shown) \in Nat
  <2>1. shown \in Seq(Nat)
    BY <1>4
  <2> HIDE DEF shown
  <2> QED
    BY <1>1, <2>1, ListedRowsAre DEF ListInv
<1>6. list'.seen = list.seen \o shown /\ shown \in Seq(Nat)
  BY <1>4
<1>7. Range(list'.seen) = Range(list.seen) \union Range(shown)
  <2> HIDE DEF shown
  <2> QED
    BY <1>5, <1>6, RangeConcatenation
<1>8. \/ list'.at = "page" /\ list'.offset = list.offset + Len(shown) /\ list'.offset <= n
      \/ list'.at = "listed" /\ list.offset + Len(shown) = n
  <2>1. list'.at \in {FirstStatement, "listed"}
    BY TakePageIs
  <2>2. FirstStatement = "page"
    BY DEF FirstStatement, OfHistory
  <2>3. \/ /\ list'.at \in Paging /\ list'.offset = list.offset + Len(shown)
           /\ list'.offset <= n
        \/ list'.at = "listed" /\ list.offset + Len(shown) = n
    BY <1>4
  <2> QED
    BY <2>1, <2>2, <2>3 DEF Paging
<1>9. ASSUME NEW i \in list.first, ToCome(i), i \notin Range(shown)
      PROVE  list'.at = "page" /\ ToCome(i)'
  <2>1. PICK row \in Listed :
          /\ row.id = i
          /\ PlaceOf(SortedBy, KeysOf(SortedBy, Listed), KeyOf(SortedBy, row)) > list.offset
    BY <1>9 DEF ToCome
  <2> DEFINE p == PlaceOf(SortedBy, KeysOf(SortedBy, Listed), KeyOf(SortedBy, row))
  <2>2. p \in 1..n /\ order[p] = row /\ p > list.offset
    BY <1>1, <2>1, ListedRowsAre, ListedInPlace
  <2>3. ~(p <= list.offset + Len(shown))
    <3> SUFFICES ASSUME p <= list.offset + Len(shown) PROVE FALSE
      OBVIOUS
    <3>1. p - list.offset \in 1..Len(shown) /\ list.offset + (p - list.offset) = p
      <4> HIDE DEF p, shown, n
      <4> QED
        BY <1>5, <2>2
    <3>2. shown[p - list.offset] = order[p].id
      <4>1. \A k \in 1..Len(shown) : shown[k] = order[list.offset + k].id
        BY <1>4
      <4> HIDE DEF p, shown
      <4> QED
        BY <3>1, <4>1
    <3>3. DOMAIN shown = 1..Len(shown)
      <4> HIDE DEF shown
      <4> QED
        BY <1>6
    <3> HIDE DEF p, shown
    <3> QED
      BY <1>9, <2>1, <2>2, <3>1, <3>2, <3>3 DEF Range
  <2>4. list'.at = "page" /\ list'.offset = list.offset + Len(shown) /\ p > list'.offset
    <3> HIDE DEF p, shown, n
    <3> QED
      BY <1>5, <1>8, <2>2, <2>3
  <2>5. ToCome(i)'
    BY <1>3, <2>1, <2>4 DEF ToCome
  <2> QED
    BY <2>4, <2>5
<1>10. ASSUME NEW i \in list'.first
       PROVE  i \in Range(list'.seen) \/ (list'.at = "page" /\ ToCome(i)')
  <2>1. i \in list.first
    BY <1>1 DEF Untouched
  <2>2. CASE i \in Range(list.seen) \/ i \in Range(shown)
    <3> HIDE DEF shown
    <3> QED
      BY <1>7, <2>2
  <2>3. CASE i \notin Range(list.seen) /\ i \notin Range(shown)
    BY <1>2, <1>9, <2>1, <2>3
  <2> QED
    BY <2>2, <2>3
<1>11. list'.at = "page" => list'.offset <= Cardinality(Listed)'
  BY <1>3, <1>8
<1> QED
  BY <1>10, <1>11 DEF HistoryInv

(* What is committed moves no row to a page that has been taken.           *)
LEMMA HistoryMoves ==
  ASSUME ListInv, HistoryInv, list # NoList,
         InsertRow \/ RemoveObject \/ ChangeObject \/ EndExecution
  PROVE  HistoryInv'
<1>1. /\ list.at \in Paging /\ list'.at = list.at /\ list'.request = list.request
      /\ list'.offset = list.offset /\ list'.seen = list.seen /\ list'.first = list.first
  BY CommitIs
<1> SUFFICES ASSUME list.at = "page", OfHistory PROVE HistoryInv'
  BY <1>1 DEF HistoryInv, OfHistory, Paging
<1>2. SortedBy' = SortedBy /\ Listed' = Matching(list.request, rows')
  BY <1>1 DEF SortedBy, Listed
<1>3. SortingOK(SortedBy) /\ Sortable(SortedBy, Listed) /\ Cardinality(Listed) \in Nat
  BY <1>1, ListedRowsAre
<1>4. Sortable(SortedBy, Listed') /\ Cardinality(Listed') \in Nat
  <2>1. list.request \in Listings /\ ListProblem(list.request) = "ok"
    BY <1>1 DEF ListInv
  <2>2. TableOK(list.request.from, rows')
    BY RowsStayOK
  <2>3. Sortable(SortedBy, Listed')
    BY <1>2, <2>1, <2>2, ListedIsSortable DEF SortedBy
  <2> QED
    BY <2>3, FS_CardinalityType DEF Sortable
<1>5. \A row \in Listed : \E new \in Listed' :
        new.id = row.id /\ KeyOf(SortedBy, new) = KeyOf(SortedBy, row)
  BY <1>2, HistoryGrows
<1>6. KeysOf(SortedBy, Listed) \subseteq KeysOf(SortedBy, Listed')
  BY <1>5 DEF KeysOf
<1>7. IsFiniteSet(KeysOf(SortedBy, Listed')) /\ IsFiniteSet(KeysOf(SortedBy, Listed))
  BY <1>3, <1>4, KeysAre
<1>8. Cardinality(Listed) <= Cardinality(Listed')
  <2>1. Cardinality(KeysOf(SortedBy, Listed)) <= Cardinality(KeysOf(SortedBy, Listed'))
    BY <1>6, <1>7, FS_Subset
  <2> QED
    BY <1>3, <1>4, <2>1, KeysAre
<1>9. ASSUME NEW i, ToCome(i) PROVE ToCome(i)'
  <2>1. PICK row \in Listed :
          /\ row.id = i
          /\ PlaceOf(SortedBy, KeysOf(SortedBy, Listed), KeyOf(SortedBy, row)) > list.offset
    BY <1>9 DEF ToCome
  <2>2. PICK new \in Listed' : new.id = row.id /\ KeyOf(SortedBy, new) = KeyOf(SortedBy, row)
    BY <1>5
  <2>3. /\ PlaceOf(SortedBy, KeysOf(SortedBy, Listed), KeyOf(SortedBy, row)) \in Nat
        /\ PlaceOf(SortedBy, KeysOf(SortedBy, Listed'), KeyOf(SortedBy, row)) \in Nat
        /\ PlaceOf(SortedBy, KeysOf(SortedBy, Listed), KeyOf(SortedBy, row))
             <= PlaceOf(SortedBy, KeysOf(SortedBy, Listed'), KeyOf(SortedBy, row))
    BY <1>6, <1>7, PlacesGrow
  <2>4. list.offset \in Nat
    BY DEF ListInv
  <2>5. PlaceOf(SortedBy, KeysOf(SortedBy, Listed'), KeyOf(SortedBy, new)) > list.offset
    BY <2>1, <2>2, <2>3, <2>4
  <2> QED
    BY <1>1, <1>2, <2>1, <2>2, <2>5 DEF ToCome
<1>10. list.offset <= Cardinality(Listed) /\ list.offset \in Nat
  BY DEF HistoryInv, ListInv
<1>11. \A i \in list.first : i \in Range(list.seen) \/ ToCome(i)'
  BY <1>9 DEF HistoryInv
<1>12. list'.offset <= Cardinality(Listed')
  BY <1>1, <1>3, <1>4, <1>8, <1>10
<1>13. \A i \in list'.first : i \in Range(list'.seen) \/ (list'.at = "page" /\ ToCome(i)')
  BY <1>1, <1>11
<1> QED
  BY <1>12, <1>13 DEF HistoryInv

(* No step breaks HistoryInv.                                              *)
LEMMA HistoryInvIsKept ==
  ASSUME ListInv, HistoryInv, [ReadingNext]_readingVars
  PROVE  HistoryInv'
<1>1. CASE UNCHANGED listVars
  BY <1>1 DEF listVars, HistoryInv, OfHistory, ToCome, Listed, SortedBy
<1>2. CASE list # NoList /\ RefuseList
  <2>1. list'.at = "refused"
    BY <1>2 DEF ListInv, RefuseList, ListFields
  <2> QED
    BY <2>1 DEF HistoryInv
<1>3. CASE list # NoList /\ CountRows
  <2>1. list'.request = list.request /\ Counts(list.request)
    BY <1>3 DEF ListInv, CountRows, ListFields
  <2> QED
    BY <2>1 DEF HistoryInv, OfHistory
<1> QED
  BY <1>1, <1>2, <1>3, HistoryBegins, HistoryPage, HistoryMoves
     DEF ReadingNext, ListNext, readingVars

-----------------------------------------------------------------------------
(* All three are invariants of the specification.                          *)
LEMMA ListInvInvariance ==
  ReadingSpec => [](ListInv /\ QuietInv /\ HistoryInv)
<1>1. ReadingInit => ListInv /\ QuietInv /\ HistoryInv
  BY ListInvAtFirst
<1>2. ListInv /\ QuietInv /\ HistoryInv /\ [ReadingNext]_readingVars
        => (ListInv /\ QuietInv /\ HistoryInv)'
  BY ListInvIsKept, QuietInvIsKept, HistoryInvIsKept
<1> QED
  BY <1>1, <1>2, PTL DEF ReadingSpec

(* A listing during which nothing moved has every matching row once, in    *)
(* the order asked for, for any tables, sorts, filters and page sizes: the *)
(* pages of the object search and of the histories neither leave out a row *)
(* nor give one twice.                                                     *)
THEOREM PagesAreComplete == ReadingSpec => []QuietPagesListEverything
<1>1. ListInv /\ QuietInv => QuietPagesListEverything
  <2> SUFFICES ASSUME ListInv, QuietInv, list.at = "listed", ~list.moved
               PROVE  \E order \in Orders(Listed, SortedBy) : list.seen = Ids(order)
    BY DEF QuietPagesListEverything, Listed, SortedBy
  <2>1. list # NoList
    BY DEF NoList
  <2>2. /\ list.request \in Listings /\ ListProblem(list.request) = "ok"
        /\ TableOK(list.request.from, rows) /\ list.seen \in Seq(Nat)
    BY <2>1 DEF ListInv
  <2>3. SortingOK(SortedBy) /\ Sortable(SortedBy, Listed)
    BY <2>2, SortingIsOK, ListedIsSortable DEF SortedBy, Listed
  <2>4. PICK order \in Orders(Listed, SortedBy) : InOrder(order)
    <3>1. Orders(Listed, SortedBy) # {}
      BY <2>3, ListsExist
    <3> QED
      BY <2>1, <3>1 DEF QuietInv
  <2>5. order \in [1..Cardinality(Listed) -> Listed]
    BY <2>3, ListedInPlace
  <2>6. /\ Len(list.seen) = Cardinality(Listed)
        /\ \A k \in 1..Len(list.seen) : list.seen[k] = order[k].id
    BY <2>4 DEF InOrder
  <2>7. list.seen = Ids(order)
    <3> DEFINE n == Cardinality(Listed)
    <3>1. Ids(order) = [k \in 1..n |-> order[k].id]
      BY <2>5 DEF Ids
    <3>2. /\ DOMAIN list.seen = 1..Len(list.seen)
          /\ list.seen = [k \in 1..Len(list.seen) |-> list.seen[k]]
      BY <2>2
    <3>3. Len(list.seen) = n /\ \A k \in 1..n : list.seen[k] = order[k].id
      BY <2>6
    <3> HIDE DEF n
    <3> QED
      BY <3>1, <3>2, <3>3
  <2> QED
    BY <2>7
<1> QED
  BY <1>1, ListInvInvariance, PTL

(* A history that is listed while executions start and end shows every row *)
(* it was about at first: newest first with the identifier as the tie      *)
(* breaker, a row is moved back by rows that appear, and never forward.    *)
THEOREM HistoriesAreComplete == ReadingSpec => []HistoryMissesNothing
<1>1. ListInv /\ HistoryInv => HistoryMissesNothing
  <2> SUFFICES ASSUME HistoryInv, list.at = "listed", OfHistory
               PROVE  list.first \subseteq Range(list.seen)
    BY DEF HistoryMissesNothing, OfHistory
  <2>1. list # NoList
    BY DEF NoList
  <2> QED
    BY <2>1 DEF HistoryInv
<1> QED
  BY <1>1, ListInvInvariance, PTL
===============================================================================
