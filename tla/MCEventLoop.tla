---------------------------- MODULE MCEventLoop ----------------------------
\* EventLoop for TLC: the loop thread and two others, three callbacks, one
\* ordinary channel, one call of Quit (a second one before the loop has
\* returned fails the assert in Quit, EventLoop.cpp:192).
EXTENDS EventLoop

CONSTANTS o1, o2, c1, c2, c3, io1

MCOthers == {o1, o2}
MCCbs == {c1, c2, c3}
MCIoChannels == {io1}
=============================================================================
