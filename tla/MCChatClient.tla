--------------------------- MODULE MCChatClient ---------------------------
(* Small instances of ChatClient for TLC.                                  *)
EXTENDS ChatClient

CONSTANTS MaxMixed  \* exchanges of a behaviour that is not one of plain streams

\* Every exchange is a stream, none has failed, been given up or cut off, and
\* every run that has ended has succeeded or waits for the user.
PlainStreams ==
  \A n \in 1 .. begun :
    /\ IsStream(n)
    /\ wire[n] \notin {"broken", "aborted", "cut"}
    /\ {run[Key(n)], reply[n]} \cap {"failed", "cancelled", "lost"} = {}

MixedOrPlain == begun <= MaxMixed \/ PlainStreams
=============================================================================
