--------------------------- MODULE MCQueueDelivery ---------------------------
(* One queue that holds two events, drops a head after two failures, and sees *)
(* five events and three listeners.                                           *)
EXTENDS QueueDelivery
===============================================================================
