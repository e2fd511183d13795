------------------------------- MODULE Exchange -------------------------------
(***************************************************************************)
(* What an ExtProc stream promises its peer, without filters, modes or      *)
(* buffers: the answers of a direction go forward through the phases, never *)
(* past what was asked of that direction, a message of one direction moves  *)
(* nothing of the other, and nothing follows the end of the stream.         *)
(***************************************************************************)
EXTENDS Naturals

CONSTANT Sides

VARIABLES
  asked,     \* per direction: the furthest phase that was received
  answered,  \* per direction: the furthest phase that was answered
  over       \* the stream has ended

Stages == {"none", "headers", "body", "final", "trailers"}

\* "final" is the part of a body that ends the stream.
Rank == [none |-> 0, headers |-> 1, body |-> 2, final |-> 3, trailers |-> 4]

UpTo(low, high) == {s \in Stages : Rank[low] <= Rank[s] /\ Rank[s] <= Rank[high]}

Init ==
  /\ asked = [side \in Sides |-> "none"]
  /\ answered = [side \in Sides |-> "none"]
  /\ over = FALSE

\* A message of one direction, with all of its answers, which may be due to
\* earlier messages or wait for later ones.
Message(side) ==
  /\ ~over
  /\ \E a \in UpTo(asked[side], "trailers") :
       /\ asked' = [asked EXCEPT ![side] = a]
       /\ \E b \in UpTo(answered[side], a) : answered' = [answered EXCEPT ![side] = b]
  /\ over' \in BOOLEAN

End ==
  /\ ~over
  /\ over' = TRUE
  /\ UNCHANGED <<asked, answered>>

Next == End \/ \E side \in Sides : Message(side)

Spec == Init /\ [][Next]_<<asked, answered, over>>
=============================================================================
