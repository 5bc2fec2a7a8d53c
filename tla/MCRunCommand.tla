---------------------------- MODULE MCRunCommand ----------------------------
\* Two servers: a crash of the first and of the second, and a drain in order.
EXTENDS RunCommand
=============================================================================
