------------------------- MODULE MCInferenceClient -------------------------
EXTENDS InferenceClient

CONSTANTS c1, c2, c3, p1, p2

\* Two callers share a prompt.
MCPromptOf == [c \in Calls |-> IF c = c3 THEN p2 ELSE p1]
=============================================================================
