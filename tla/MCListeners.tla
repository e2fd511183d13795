----------------------------- MODULE MCListeners -----------------------------
EXTENDS Listeners

CONSTANTS Prompt, Unwelcome   \* clients that are not silent

MCKind == [c \in Clients |-> IF c \in Prompt THEN "prompt" ELSE IF c \in Unwelcome THEN "unwelcome"
                             ELSE "silent"]

\* Every token has a user of its own.
MCUserOf == [t \in Tokens |-> t]

\* One request of every route, and one of every kind of authorization.
MCHttpRequests ==
  {[path |-> "/metrics", method |-> "GET", authorization |-> a] :
     a \in Tokens \cup {"missing", "other"}}
  \cup {[path |-> p, method |-> "GET", authorization |-> "missing"] : p \in {"/healthz", "other"}}
  \cup {[path |-> "/metrics", method |-> "POST", authorization |-> "missing"]}
=============================================================================
