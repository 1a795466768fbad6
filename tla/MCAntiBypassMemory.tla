-------------------------- MODULE MCAntiBypassMemory --------------------------
EXTENDS AntiBypassMemory

CONSTANTS script, retry, edit, place, other, family

Acts(capabilities, targets, families, content, scope) ==
  [capabilities |-> capabilities, targets |-> targets, families |-> families,
   content |-> content, scope |-> scope]

\* A script that writes a line and fetches something, its retry, and a tool that
\* writes something else of the same family.
Effects ==
  [a \in Attempts |->
     IF a = edit THEN Acts(<<"filesystem.write">>, {other}, {family}, {}, "none")
     ELSE Acts(<<"filesystem.write", "network.fetch">>, {place}, {family},
               {"line"}, "none")]

Events == [a \in Attempts |-> IF a = retry THEN script ELSE a]

Likenesses ==
  [a \in Attempts |-> [b \in Attempts |->
     IF Events[a] = Events[b] THEN "exact"
     ELSE IF a = edit THEN "weak" ELSE "cross tool"]]
=============================================================================
