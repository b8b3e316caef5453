---------------------------- MODULE MCThreadPools ----------------------------
\* The two thread pools for TLC: the pool of loops or the pool of tasks.  They
\* share no state and no thread, so a behaviour is one of the first with the
\* second at rest, or the other way round.
EXTENDS EventLoopThreadPool, ThreadPool

VARIABLE part

MCInit == part \in {"loops", "tasks"} /\ LoopPoolInit /\ Init

MCNext ==
    /\ UNCHANGED part
    /\ \/ part = "loops" /\ LoopPoolNext /\ UNCHANGED vars
       \/ part = "tasks" /\ Next /\ UNCHANGED loopPoolVars

\* Before Start() and Run() the pool of tasks owes no step.
MCSpec ==
    /\ MCInit /\ [][MCNext]_<<part, loopPoolVars, vars>>
    /\ part = "loops" => LoopPoolFairness
    /\ Fairness

=============================================================================
