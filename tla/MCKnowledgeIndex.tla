--------------------------- MODULE MCKnowledgeIndex ---------------------------
(* Instances of KnowledgeIndex: two workers and a web request.              *)
EXTENDS KnowledgeIndex

CONSTANTS w1, w2, p1

=============================================================================
