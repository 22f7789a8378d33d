-------------------------- MODULE MCEmpireServices --------------------------
\* Instances of EmpireServices: what a .cfg cannot write.
EXTENDS EmpireServices

CheapAndCostlyRpm == [e \in Endpoints |-> IF e = "costly" THEN 1 ELSE 2]
CheapAndCostlyRph == [e \in Endpoints |-> IF e = "costly" THEN 2 ELSE 3]

\* Two models of one provider and one of another, which alone can do what is needed
\* for the last kind of task, although it is assigned to the first model.
Model(key, provider, tier, caps) ==
    [key |-> key, provider |-> provider, tier |-> tier, caps |-> caps]
ThreeModels ==
    <<Model("sonnet", "anthropic", 2, {"reasoning", "vision"}),
      Model("haiku", "anthropic", 3, {"reasoning"}),
      Model("o3-mini", "openai", 3, {"reasoning", "math"})>>
Kind(needs, model, complexity) ==
    [needs |-> needs, model |-> model, complexity |-> complexity]
ThreeKinds ==
    {Kind({"reasoning"}, "haiku", 3), Kind({"vision"}, "sonnet", 2), Kind({"math"}, "sonnet", 3)}

\* Pipelines as they are meant, with two texts and a failure between, and without a plan
ThreePipelines ==
    {<<"planning", "execution", "critic">>, <<"critic", "execution">>,
     <<"execution", "critic", "execution", "custom", "critic">>}
SevenOfTen == <<7, 10>>

=============================================================================
