---------------------------- MODULE MCActionEngine ----------------------------
(***************************************************************************)
(* Instances of ActionEngine for TLC: three deliveries over two request    *)
(* ids, so that an id is delivered once, twice or three times.             *)
(***************************************************************************)
EXTENDS ActionEngine

CONSTANTS d1, d2, d3, x, y

Deliveries == {d1, d2, d3}
Ids == {x, y}
AnyCall == [id : Ids]
Codes == {"DOMAIN_ERROR", "ACTION_EXECUTION_FAILED"}
AllFaults == {"crash", "db_error", "lost_ack"}
ThirdDelivery == {d3}
==============================================================================
