--------------------------- MODULE MCRecordReplay ---------------------------
\* Pipelines of two agent nodes for the model checker: every kind of prompt,
\* twice the same request, and policies with either flag, both or none.
EXTENDS RecordReplay

Agents(prompts, flags) == [prompt : prompts, allow : flags]

MCPlans ==
  {<<a, b>> : a \in Agents({"fixed", "literal", "inputs", "var"}, SUBSET Flags),
              b \in Agents({"fixed", "output", "state"}, {{}, {"mutations"}})}

Says2(roles, texts) == [role : roles, text : texts]

MCAnswers ==
  Says2({"final", "SetState"}, {"plain"}) \cup Says2({"Read"}, {"plain", "secret"})
    \cup Says2({"Bash", "WebFetch"}, {"plain"})
=============================================================================
