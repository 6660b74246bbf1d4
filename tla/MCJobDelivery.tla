--------------------------- MODULE MCJobDelivery ----------------------------
EXTENDS JobDelivery

(* modules/ingestion/README.md:28: failures "are retried by the worker     *)
(* before `ingestion.failed` is published on retry exhaustion": a valid    *)
(* job that the broker no longer has was completed or reported failed.     *)
FailuresAreReported ==
    \A j \in submitted \ Invalid :
        \/ j \in completed \cup failed
        \/ \E c \in Copies : c.job = j /\ InBroker(c)
=============================================================================
