------------------------ MODULE MCKnowledgeIngestion ------------------------
(* Small instances of KnowledgeIngestion. *)
EXTENDS KnowledgeIngestion, TLC

CONSTANTS d1, k1, k2

\* A bound: one source of the three is ever created.
OneSource == \A s, t \in Sources : status[s] # "ABSENT" /\ status[t] # "ABSENT" => s = t

OneOfEach == (d1 :> "DOCUMENT") @@ (k1 :> "WEBSITE") @@ (k2 :> "TEXT_SNIPPET")
DocumentAndSnippet == (d1 :> "DOCUMENT") @@ (k2 :> "TEXT_SNIPPET")
=============================================================================
