----------------------------- MODULE MCKnowledge -----------------------------
EXTENDS Knowledge

FairSpec == KnowledgeSpec /\ KnowledgeFairness
==============================================================================
