--------------------------- MODULE MCConsumerGroup ---------------------------
(* The services of the system, and the replicas of one of them. *)
EXTENDS ConsumerGroup

Policy(b, e, d) == [bad |-> b, error |-> e, deferred |-> d]

BaseClass == Policy("dlq", "keep", FALSE)
Enricher  == Policy("dlq", "keep", TRUE)
Writers   == Policy("ack", "keep", FALSE)   \* embedder, graph- and vector-writer
Parser    == Policy("keep", "keep", FALSE)
Resolver  == Policy("ack", "ack", FALSE)

Services == {BaseClass, Enricher, Writers, Parser, Resolver}
OnlyBase == {BaseClass}
OnlyEnricher == {Enricher}
=============================================================================
