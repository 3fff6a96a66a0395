--------------------------- MODULE MCOrchestrator ---------------------------
(* Model-checking instance of Orchestrator: four types of the catalogue,   *)
(* with its dependencies between them and its priorities.  No regime       *)
(* runtime can be built; paper stands for a mode whose PAPER_RUNTIMES      *)
(* names nothing else.                                                     *)
EXTENDS Orchestrator, TLC

CatalogTypes == {"replay", "ingestion", "feature", "regime"}
CatalogDependencies == [replay |-> {}, ingestion |-> {}, feature |-> {"ingestion"},
                        regime |-> {"feature"}]
CatalogPriority == [replay |-> 100, ingestion |-> 90, feature |-> 80, regime |-> 45]
CatalogModes == [backtest |-> {"replay", "feature"}, paper |-> {"regime"},
                 live |-> {"ingestion", "feature", "regime"}]
=============================================================================
