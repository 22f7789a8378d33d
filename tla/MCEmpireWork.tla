---------------------------- MODULE MCEmpireWork ----------------------------
\* A small empire: two workers, two runners of cycles, two threads at the graph.
EXTENDS EmpireWork, TLC

\* The .cfg gives the constants that are sets of two actors the same two values, so
\* that the two of every kind change places at once: a behaviour is about one part.
Symmetry == Permutations(Workers)

\* Three tasks of these titles, with any dependencies a planner may write
Planned(titles, deps) ==
    LET Deps(i) == SUBSET (deps \ {titles[i]}) IN
    {<<[title |-> titles[1], deps |-> d], [title |-> titles[2], deps |-> e],
       [title |-> titles[3], deps |-> f]>> : d \in Deps(1), e \in Deps(2), f \in Deps(3)}

\* With titles of their own, and with one title twice
Plans == Planned(<<"a", "b", "c">>, Titles) \cup Planned(<<"a", "b", "b">>, {"a", "b"})

\* Every entity is about every topic.
AnyInAny == Found \X Subjects

\* Two lieutenants debate.
Debating == <<"p", "q">>

\* Two ways from "a" to "b", one through another empire's entity, and back
Drawn == {<<"a", "c">>, <<"c", "b">>, <<"a", "d">>, <<"d", "b">>, <<"b", "a">>, <<"c", "d">>}

\* A title that contains the other; facts that are always true, or were once.
ByPart == {<<"x", "x">>, <<"xy", "xy">>, <<"xy", "x">>}
AlwaysOrOnce == {<<0, 0>>, <<1, 1>>}

\* Memories of two kinds: a light one, one that fills the window, and one whose age counts
FactsAndEpisodes == <<"semantic", "episodic">>
Memory(tier, weight, boost, size) ==
    [kind |-> tier, importance |-> weight, boost |-> boost, size |-> size]
ThreeShapes == {Memory("semantic", 1, 0, 1), Memory("semantic", 2, 0, 2), Memory("episodic", 1, 2, 1)}

\* Two lieutenants of one empire that are as good as one another
MatchAlike == [j \in Jobs |-> [l \in Crew |-> 35]]
GradedAlike == [l \in Crew |-> 5]
OneHome == [l \in Crew |-> "empire"]

=============================================================================
