---------------------------- MODULE MCScheduler ----------------------------
EXTENDS Scheduler, TLC

OwnEach == [a \in Agents |-> a]

AllStages == [a \in Agents |-> Roles]

\* One agent implements, the other reviews.
StageEach == CHOOSE f \in [Agents -> SUBSET Roles] :
    /\ \A a \in Agents : Cardinality(f[a]) = 1
    /\ \A a, b \in Agents : a # b => f[a] # f[b]

Pipeline == [role \in Roles |->
    IF role \in HeroRoles THEN {"backlog", "active"} ELSE {"review"}]

\* With one owner each and the same stages, the agents are interchangeable.
AgentSymmetry == Permutations(Agents)
=============================================================================
