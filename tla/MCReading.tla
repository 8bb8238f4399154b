------------------------------ MODULE MCReading ------------------------------
(***************************************************************************)
(* Lists of up to four rows whose sort keys tie and may be NULL, in pages  *)
(* of one and two; and the shapes of links that the ontology declares,     *)
(* with two that a configuration could declare wrongly.                    *)
(***************************************************************************)
EXTENDS Reading, TLC

Property(type, searchable, filterable, sortable) ==
  [type |-> type, searchable |-> searchable, filterable |-> filterable, sortable |-> sortable]

MCProperties ==
  [id    |-> Property("number", FALSE, TRUE, TRUE),
   rank  |-> Property("number", FALSE, TRUE, TRUE),
   words |-> Property("string", TRUE, FALSE, FALSE)]

Object(id, rank, words) == [id |-> id, rank |-> rank, words |-> words]
Execution(id, at, status) ==
  [id |-> id, at |-> at, status |-> status, object |-> id % 2,
   affected |-> IF status = Succeeded THEN {id % 2} ELSE {}]
Audit(id, at) == [id |-> id, at |-> at, object |-> id % 2]

MCContents ==
  [objects    |-> {{Object(1, 2, {"a"}), Object(2, 1, {"a", "b"}), Object(3, 1, {"b"}),
                    Object(4, NullValue, {"a"})},
                   {Object(1, 1, {"a"}), Object(3, 1, {"a"})}},
   executions |-> {{Execution(1, 1, Succeeded), Execution(2, 1, Started), Execution(3, 2, Started)},
                   {Execution(1, 2, Started), Execution(3, 1, Unsuccessful)}},
   audits     |-> {{Audit(1, 1), Audit(2, 1), Audit(3, 2), Audit(4, 1)}}]

MCNewRows ==
  [objects    |-> {Object(5, 1, {"a"}), Object(6, 2, {"b"})},
   executions |-> {Execution(5, 1, Started), Execution(6, 2, Started)},
   audits     |-> {Audit(5, 1), Audit(6, 2)}]

Filter(property, operator, value) ==
  [property |-> property, operator |-> operator, value |-> value, wellTyped |-> TRUE]

Search(query, filters, sort, limit) ==
  [from |-> "objects", known |-> TRUE, mapped |-> TRUE, query |-> query, filters |-> filters,
   sort |-> sort, limit |-> limit, cursor |-> "none"]

Comparisons ==
  {Filter("rank", operator, 1) : operator \in OperatorsOf.number \ {"in", "contains"}}
    \union {Filter("rank", "in", {1, 2})}

Searches ==
  {Search(query, <<>>, sort, limit) :
     query \in {{}, {"a"}}, limit \in {1, 2},
     sort \in {<<>>, <<Ascending("rank")>>, <<Descending("rank")>>, <<Descending("id")>>,
               <<Descending("rank"), Descending("id")>>}}
  \union {Search({}, <<f>>, <<Descending("rank")>>, 1) : f \in Comparisons}
  \union {[Search({}, <<>>, <<>>, 1) EXCEPT !.known = FALSE],
          [Search({}, <<>>, <<>>, 1) EXCEPT !.mapped = FALSE],
          [Search({}, <<>>, <<>>, 1) EXCEPT !.cursor = "malformed"],
          Search({}, <<>>, <<Ascending("words")>>, 1),
          Search({}, <<Filter("words", "contains", "a")>>, <<>>, 1)}

Policy(rank, about, granted) == [rank |-> rank, about |-> about, granted |-> granted]
PolicySets ==
  {{}, {Policy(1, {}, TRUE)}, {Policy(1, {}, TRUE), Policy(2, {"executions"}, FALSE)},
   {Policy(1, {"audits"}, TRUE), Policy(2, {"executions"}, TRUE)}}

History(from, filters, limit, policies, counted) ==
  [from |-> from, filters |-> filters, query |-> {}, limit |-> limit,
   policies |-> policies, total |-> counted]

Histories ==
  {History("executions", filters, limit, {Policy(1, {}, TRUE)}, counted) :
     limit \in {1, 2}, counted \in BOOLEAN,
     filters \in {<<>>, <<Filter("status", "equals", Started)>>,
                  <<Filter("status", "equals", Unsuccessful)>>,
                  <<Filter("affected", "contains", 1)>>,
                  <<Filter("at", "greaterThanOrEqual", 2)>>, <<Filter("at", "lessThanOrEqual", 1)>>}}
  \union {History("audits", filters, limit, {Policy(1, {}, TRUE)}, FALSE) :
            limit \in {1, 2}, filters \in {<<>>, <<Filter("object", "equals", 1)>>}}
  \union {History(from, <<>>, 1, policies, FALSE) :
            from \in {"executions", "audits"}, policies \in PolicySets}

MCListings == Searches \union Histories

-----------------------------------------------------------------------------
(* ontology.yaml: objects of five types, links of every declared shape.    *)
Type(table, columns, filter, mapped, links) ==
  [table |-> table, columns |-> columns \union {"id"}, filter |-> filter, mapped |-> mapped,
   links |-> links]

OfPart == {<<"item", 1>>}

MCTypes ==
  [Warehouse |-> Type("warehouses", {}, {}, TRUE,
                      <<"warehouseToInventoryPositions", "warehouseToShipments",
                        "warehouseStoresParts">>),
   InventoryPosition |-> Type("inventory", {"warehouse", "part", "item"}, OfPart, TRUE,
                              <<"inventoryPositionToWarehouse", "inventoryPositionToPart">>),
   Part |-> Type("parts", {}, {}, TRUE,
                 <<"partToInventoryPositions", "partWithoutPath", "partByFunction">>),
   Shipment |-> Type("shipments", {"warehouse"}, {}, TRUE, <<"shipmentToWarehouse">>),
   InventoryTransfer |-> Type("mitigation_plan_steps", {"plan"}, {}, FALSE, <<>>),
   MitigationPlan |-> Type("mitigation_plans", {}, {}, TRUE,
                           <<"mitigationPlanToInventoryTransfers">>)]

Stored(source, target, from, to, table, column, filter, single, inverse) ==
  [kind |-> "stored", source |-> source, target |-> target, from |-> from, to |-> to,
   storage |-> [table |-> table, column |-> column, filter |-> filter], single |-> single,
   inverse |-> inverse, path |-> <<>>]
Flattened(source, target, path) ==
  [kind |-> "flattened", source |-> source, target |-> target, single |-> FALSE,
   inverse |-> "none", path |-> path]

MCLinks ==
  [warehouseToInventoryPositions |->
     Stored("Warehouse", "InventoryPosition", "id", "warehouse", "inventory", "warehouse",
            OfPart, FALSE, "inventoryPositionToWarehouse"),
   inventoryPositionToWarehouse |->
     Stored("InventoryPosition", "Warehouse", "warehouse", "id", "inventory", "warehouse",
            OfPart, TRUE, "warehouseToInventoryPositions"),
   inventoryPositionToPart |->
     Stored("InventoryPosition", "Part", "part", "id", "inventory", "part",
            OfPart, TRUE, "partToInventoryPositions"),
   partToInventoryPositions |->
     Stored("Part", "InventoryPosition", "id", "part", "inventory", "part",
            OfPart, FALSE, "inventoryPositionToPart"),
   warehouseStoresParts |->
     Flattened("Warehouse", "Part", <<"warehouseToInventoryPositions", "inventoryPositionToPart">>),
   warehouseToShipments |->
     Stored("Warehouse", "Shipment", "id", "warehouse", "shipments", "warehouse",
            {}, FALSE, "shipmentToWarehouse"),
   shipmentToWarehouse |->
     Stored("Shipment", "Warehouse", "warehouse", "id", "shipments", "warehouse",
            {}, TRUE, "warehouseToShipments"),
   mitigationPlanToInventoryTransfers |->
     Stored("MitigationPlan", "InventoryTransfer", "id", "plan", "mitigation_plan_steps", "plan",
            {}, FALSE, "none"),
   partWithoutPath |-> Flattened("Part", "Shipment", <<"partToInventoryPositions">>),
   partByFunction |-> [Flattened("Part", "Shipment", <<>>) EXCEPT !.kind = "derived"]]

Position(id, warehouse, part, item) ==
  [id |-> id, warehouse |-> warehouse, part |-> part, item |-> item]
Ship(id, warehouse) == [id |-> id, warehouse |-> warehouse]
Bare(ids) == {[id |-> k] : k \in ids}

(* A position is of a part or of a product, and then of no part.           *)
Positions ==
  {{Position(1, 1, 1, 1), Position(2, 1, 2, 1), Position(3, 1, Null, 2), Position(4, 2, 1, 1)},
   {Position(1, 1, 1, 1), Position(2, 2, Null, 2)}}
MCTables ==
  {[Warehouse |-> Bare({1, 2}), Part |-> Bare({1, 2}), MitigationPlan |-> Bare({1}),
    InventoryPosition |-> positions, InventoryTransfer |-> {}, Shipment |-> shipments] :
     positions \in Positions, shipments \in {{}, {Ship(1, 1), Ship(2, 2), Ship(3, 1)}}}
MCAdded == {<<"InventoryPosition", Position(5, 1, 2, 1)>>, <<"Shipment", Ship(4, 1)>>}

Everything == DOMAIN MCTypes \union DOMAIN MCLinks
Visit(type, id, link, granted) == [type |-> type, id |-> id, link |-> link, granted |-> granted]

(* What is refused to a caller is told apart at the first object.          *)
MCTraversals ==
  LET Visits(ids, grants) ==
        {Visit(type, id, link, granted) :
           type \in DOMAIN MCTypes \union {"Unknown"}, id \in ids,
           link \in DOMAIN MCLinks \union {All, "unknown"}, granted \in grants}
  IN  Visits({1, 2, 9}, {Everything})
        \union Visits({1}, {Everything \ {"Part"}, Everything \ {"Warehouse"},
                            Everything \ {"warehouseToShipments"}})
=============================================================================
