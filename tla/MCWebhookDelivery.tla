-------------------------- MODULE MCWebhookDelivery -------------------------
(***************************************************************************)
(* Instances of WebhookDelivery for TLC.                                   *)
(***************************************************************************)
EXTENDS WebhookDelivery

\* Events one after another alternate in type.
TwoTypes == [e \in EventIds |-> IF e % 2 = 1 THEN "receipt" ELSE "shipment"]

AllEvents == {{}}
AllOrShipments == {{}, {"shipment"}}
=============================================================================
