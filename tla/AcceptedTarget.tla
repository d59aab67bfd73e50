--------------------------- MODULE AcceptedTarget ---------------------------
(***************************************************************************)
(* What the machine registry promises about a target directory: the        *)
(* accepted state is replaced at once and comes first, and what is live    *)
(* only ever moves towards it, one projection at a time.  Nothing that has *)
(* not been accepted is ever shown, and what the user put there stays,     *)
(* unless it came between a command's look at a name and the removal that  *)
(* the look was for.                                                       *)
(***************************************************************************)
EXTENDS Naturals

CONSTANTS Package, Digest, NoDigest, Foreign

VARIABLES
  accepted,    \* package -> digest
  generation,  \* how many states have been accepted
  live,        \* package -> what the directory shows
  withdrawn,   \* package -> contents kept aside, to be put back
  looked,      \* names that a command has looked at and is about to free
  repairing,   \* whether the operator lets commands replace what the user
               \* changed
  edits        \* how often the user has changed the directory

Init ==
  /\ accepted = [n \in Package |-> NoDigest]
  /\ generation = 0
  /\ live = [n \in Package |-> NoDigest]
  /\ withdrawn = [n \in Package |-> {}]
  /\ looked = {}
  /\ repairing = FALSE
  /\ edits = 0

(* What is kept aside may be forgotten at any time.                        *)
Keeping(aside) == \A m \in Package : withdrawn'[m] \subseteq aside[m]

(* A new state is accepted, as a whole, while nothing changes in the       *)
(* directory.                                                              *)
Accept ==
  /\ generation' = generation + 1
  /\ accepted' \in [Package -> Digest \cup {NoDigest}]
  /\ Keeping(withdrawn)
  /\ UNCHANGED live

LiveBecomes(n, content) == live' = [live EXCEPT ![n] = content]

(* A command looks at a name before it frees it, and goes on only if there *)
(* is nothing of the user's.                                               *)
Look(n) ==
  /\ live[n] # Foreign
  /\ looked' = looked \cup {n}
  /\ UNCHANGED <<accepted, generation, live, withdrawn>>

(* Only what is no longer accepted is taken away.                          *)
Withdraw(n) ==
  /\ live[n] # NoDigest
  /\ live[n] # accepted[n]
  /\ live[n] = Foreign => repairing \/ n \in looked
  /\ LiveBecomes(n, NoDigest)
  /\ Keeping([withdrawn EXCEPT ![n] = @ \cup {live[n]}])
  /\ UNCHANGED <<accepted, generation>>

(* Only what is accepted is shown, and only where nothing is.              *)
Show(n) ==
  /\ live[n] = NoDigest
  /\ accepted[n] # NoDigest
  /\ LiveBecomes(n, accepted[n])
  /\ Keeping(withdrawn)
  /\ UNCHANGED <<accepted, generation>>

(* What was withdrawn is put back when its successor cannot be shown.      *)
PutBack(n) ==
  /\ live[n] = NoDigest
  /\ \E content \in withdrawn[n] : LiveBecomes(n, content)
  /\ Keeping(withdrawn)
  /\ UNCHANGED <<accepted, generation>>

Forget ==
  /\ Keeping(withdrawn)
  /\ UNCHANGED <<accepted, generation, live>>

(* Only the user takes away what is accepted, or puts there anything else. *)
UserEdit(n) ==
  /\ edits' = edits + 1
  /\ \E content \in {Foreign, NoDigest} : LiveBecomes(n, content)
  /\ UNCHANGED <<accepted, generation, withdrawn, looked>>

(* What the commands do; a look may have been in vain.                     *)
Move ==
  \/ /\ Accept \/ Forget \/ \E n \in Package : Withdraw(n) \/ Show(n) \/ PutBack(n)
     /\ looked' \subseteq looked
  \/ \E n \in Package : Look(n)

Next ==
  /\ \/ Move /\ UNCHANGED edits
     \/ \E n \in Package : UserEdit(n)
  /\ repairing' \in BOOLEAN

Spec ==
  Init /\ [][Next]_<<accepted, generation, live, withdrawn, looked, repairing, edits>>
=============================================================================
