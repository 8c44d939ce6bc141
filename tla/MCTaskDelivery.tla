--------------------------- MODULE MCTaskDelivery ---------------------------
(* TaskDelivery on small instances. *)
EXTENDS TaskDelivery

\* DefaultHandlerConfig, with one retry.
DefaultConfig ==
  [MaxRetries |-> 1, AckOnSuccess |-> TRUE, NackOnFailure |-> TRUE,
   RequeueOnNack |-> FALSE]
\* The handler leaves settling to processMessage.
ConsumerSettles ==
  [DefaultConfig EXCEPT !.AckOnSuccess = FALSE, !.NackOnFailure = FALSE]

BothConfigs == {DefaultConfig, ConsumerSettles}

Task(type, empty, expired) == [type |-> type, empty |-> empty, expired |-> expired]
\* Tasks that can end in every way, only in success, only in failure, and one
\* that is always retried.
Kinds == {Task("script", FALSE, FALSE), Task("transform", TRUE, FALSE),
          Task("grpc", FALSE, FALSE), Task("http", FALSE, TRUE)}
=============================================================================
