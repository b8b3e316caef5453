----------------------------- MODULE MCLoopParts -----------------------------
\* Two parts that a loop owns, for TLC: its poller or its memory pool.  They
\* share no state, so a behaviour is one of the first with the second at rest,
\* or the other way round.
EXTENDS MCPollPoller, MemPool

VARIABLE part

PartsInit == part \in {"poller", "mem_pool"} /\ Init /\ PoolInit

PartsNext ==
    /\ UNCHANGED part
    /\ \/ part = "poller" /\ Next /\ UNCHANGED poolVars
       \/ part = "mem_pool" /\ PoolNext /\ UNCHANGED vars

PartsSpec == PartsInit /\ [][PartsNext]_<<part, vars, poolVars>>

PartsView == <<part, MCView, poolVars>>

=============================================================================
