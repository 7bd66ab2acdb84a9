--------------------------- MODULE OrderStatuses ---------------------------
(***************************************************************************)
(* The statuses of a marketplace order and the table of the changes that   *)
(* its buyer and its farmer may ask for (schema.prisma,                    *)
(* update-order-status.dto.ts, marketplace.service.ts).                    *)
(***************************************************************************)

Statuses ==
    {"ORDER_PLACED", "ORDER_ACCEPTED", "PAYMENT_SECURED", "READY_TO_PROCESS", "PROCESSING",
     "READY_FOR_COLLECTION", "RELEASED", "COLLECTED", "IN_TRANSIT", "AT_AGGREGATION",
     "QUALITY_CHECKED", "QUALITY_APPROVED", "QUALITY_REJECTED", "OUT_FOR_DELIVERY", "DELIVERED",
     "COMPLETED", "REJECTED", "DISPUTED", "CANCELLED"}

\* UpdateOrderStatusDto admits the statuses that no other service is to set.
ApiStatuses ==
    Statuses \ {"READY_TO_PROCESS", "PROCESSING", "READY_FOR_COLLECTION", "RELEASED", "COLLECTED"}

validStatusTransitions ==
    [s \in Statuses |->
        CASE s = "ORDER_PLACED"         -> {"ORDER_ACCEPTED", "PAYMENT_SECURED", "ORDER_REJECTED", "CANCELLED"}
          [] s = "ORDER_ACCEPTED"       -> {"PAYMENT_SECURED", "ORDER_REJECTED", "CANCELLED"}
          [] s = "PAYMENT_SECURED"      -> {"READY_TO_PROCESS", "IN_TRANSIT", "CANCELLED"}
          [] s = "READY_TO_PROCESS"     -> {"PROCESSING", "CANCELLED"}
          [] s = "PROCESSING"           -> {"READY_FOR_COLLECTION", "CANCELLED"}
          [] s = "READY_FOR_COLLECTION" -> {"RELEASED", "CANCELLED"}
          [] s = "RELEASED"             -> {"COLLECTED", "CANCELLED"}
          [] s = "COLLECTED"            -> {"OUT_FOR_DELIVERY", "COMPLETED", "CANCELLED"}
          [] s = "IN_TRANSIT"           -> {"AT_AGGREGATION", "CANCELLED"}
          [] s = "AT_AGGREGATION"       -> {"QUALITY_CHECKED", "CANCELLED"}
          [] s = "QUALITY_CHECKED"      -> {"QUALITY_APPROVED", "QUALITY_REJECTED"}
          [] s = "QUALITY_APPROVED"     -> {"OUT_FOR_DELIVERY", "CANCELLED"}
          [] s = "QUALITY_REJECTED"     -> {"CANCELLED", "REFUNDED"}
          [] s = "OUT_FOR_DELIVERY"     -> {"DELIVERED", "CANCELLED"}
          [] s = "DELIVERED"            -> {"COMPLETED", "DISPUTED"}
          [] OTHER                      -> {}]
============================================================================
