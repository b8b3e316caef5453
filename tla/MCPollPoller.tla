---------------------------- MODULE MCPollPoller ----------------------------
\* PollPoller for TLC: four channels on three descriptors, so that a
\* descriptor is used again after its first channel was removed; descriptor 0
\* is one of them, the case the encoding -fd - 1 is for.
EXTENDS PollPoller

CONSTANTS ch_a, ch_b, ch_c, ch_d

MCChans == {ch_a, ch_b, ch_c, ch_d}
MCFd == [x \in MCChans |-> CASE x \in {ch_a, ch_d} -> 0 [] x = ch_b -> 1 [] x = ch_c -> 2]
MCReady == {{}, {"read", "write"}, {"unasked"}}

\* Nothing reads the active list of an earlier round.
MCView == <<pollfds_, channels_, index_, events_, removed, disabled>>
=============================================================================
