----------------------------- MODULE BookMirror -----------------------------
(***************************************************************************)
(* What the local order book promises to whoever reads it: it shows        *)
(* nothing, or a book that the exchange really had, never a mixture of     *)
(* two; and as time goes on it shows newer books only.                     *)
(***************************************************************************)
EXTENDS Naturals, Sequences

CONSTANTS
  Books,    \* the books an exchange can have
  NoBook    \* nothing is shown

VARIABLES
  past,     \* the books of the exchange so far, the current one last
  mirror,   \* the book that is shown, or NoBook
  newest    \* the place in `past` of the newest book shown so far

Init ==
  /\ Len(past) > 0
  /\ mirror = NoBook
  /\ newest = 0

Trade(b) ==
  /\ past' = Append(past, b)
  /\ UNCHANGED <<mirror, newest>>

Show(i) ==
  /\ newest <= i
  /\ mirror' = past[i]
  /\ newest' = i
  /\ UNCHANGED past

Withdraw ==
  /\ mirror' = NoBook
  /\ UNCHANGED <<past, newest>>

Next ==
  \/ \E b \in Books : Trade(b)
  \/ \E i \in DOMAIN past : Show(i)
  \/ Withdraw

Spec == Init /\ [][Next]_<<past, mirror, newest>>
=============================================================================
