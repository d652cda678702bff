---------------------------- MODULE MCChatStream ----------------------------
EXTENDS ChatStream, TLC

\* Streams differ in nothing but their name.
StreamPermutations == Permutations(Streams)
=============================================================================
