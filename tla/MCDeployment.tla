---------------------------- MODULE MCDeployment ----------------------------
(* An instance of Deployment.                                                *)
EXTENDS Deployment, TLC
CONSTANTS a, g

MCKey == (a :> "key") @@ (g :> "")

\* Some settings are left to their defaults, and some are not.
MCEnv == [x \in {"order.PORT", "payment.PORT", "inventory.PORT", "HTTP_ADDR",
                  "ORDER_SERVICE_ADDR", "PAYMENT_SERVICE_ADDR", "INVENTORY_SERVICE_ADDR"} |->
             IF x \in {"order.PORT", "ORDER_SERVICE_ADDR"} THEN "9999" ELSE ""]

Load(requests, n) == [requests |-> requests, faults |-> n]

MCLoads == {Load({a}, 2), Load({a, g}, 0), Load({g}, 1)}
=============================================================================
