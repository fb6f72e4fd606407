-------------------------- MODULE MCEventDelivery --------------------------
(* Small instances of EventDelivery for TLC.                               *)
EXTENDS EventDelivery, TLC

\* One consumer at a time: the notifier, or one with nothing to push.
EitherConsumer == [Workers -> {"notifier", "photo-processor"}]
=============================================================================
