------------------------------ MODULE TuneQueue ------------------------------
(***************************************************************************)
(* What the retune controller of src/upstream/dsd-neo/src/io/radio/        *)
(* rtl_sdr_fm.cpp promises to the owners of tagged tunes: it holds two of  *)
(* them at most, and answers every one once, the oldest first.  This is    *)
(* the controller that ChannelScan and P25TrunkSM tune through, and the    *)
(* order that OwnedTunes asks of the answers.                              *)
(***************************************************************************)
EXTENDS Naturals, Sequences

CONSTANT Tokens   \* what tells one tune from another

VARIABLES
  held,       \* the tokens of tunes that are accepted and not answered
  answered    \* what was answered, in order

vars == <<held, answered>>

Outcomes == {"OK", "FAILED"}

Known(token) ==
  \/ \E i \in DOMAIN held : held[i] = token
  \/ \E i \in DOMAIN answered : answered[i].token = token

Init == held = << >> /\ answered = << >>

Accept ==
  /\ Len(held) < 2
  /\ \E token \in Tokens : ~ Known(token) /\ held' = Append(held, token)
  /\ UNCHANGED answered

Answer ==
  /\ held # << >>
  /\ held' = Tail(held)
  /\ \E result \in Outcomes :
       answered' = Append(answered, [token |-> Head(held), result |-> result])

Next == Accept \/ Answer

Spec == Init /\ [][Next]_vars
=============================================================================
