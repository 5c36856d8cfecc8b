------------------------------ MODULE PetService ------------------------------
(***************************************************************************)
(* What the pet promises the platform, without connections, threads or     *)
(* motors: it takes commands in the order of their ids, each at most once, *)
(* carries out in one step those it accepts, tells the platform only what  *)
(* it is, and answers with the verdict and, when it accepted, with the     *)
(* state the command produced, after telling that state. A command may be  *)
(* lost before it is taken; once taken it is carried out, and only its     *)
(* answer may be lost.                                                     *)
(***************************************************************************)
EXTENDS PetCommands

CONSTANTS
  Messages,   \* what the platform may send
  None,       \* no document
  MaxSent     \* bound: commands the platform sends

VARIABLES
  state,      \* the pet
  told,       \* what the platform was told: by status, telemetry, event
  last,       \* no command up to this id will be taken any more
  hand,       \* the command being served, or Idle
  done,       \* it was carried out
  answer      \* the last answer

vars == <<state, told, last, hand, done, answer>>

Idle == [id |-> 0, msg |-> None]

Init ==
  /\ state = InitialPetState
  /\ told = [status |-> None, telemetry |-> None, event |-> None]
  /\ last = 0 /\ hand = Idle /\ done = FALSE
  /\ answer = [id |-> 0, code |-> 0, data |-> None]

-----------------------------------------------------------------------------
Take(n, m) ==
  /\ hand = Idle
  /\ n > last /\ last' >= n
  /\ hand' = [id |-> n, msg |-> m] /\ done' = FALSE
  /\ UNCHANGED <<state, told, answer>>

Lose ==
  /\ hand = Idle
  /\ last' > last
  /\ UNCHANGED <<state, told, hand, done, answer>>

CarryOut ==
  /\ hand # Idle /\ ~done /\ Verdict(hand.msg) = 0
  /\ state' = Apply(hand.msg, state)
  /\ done' = TRUE
  /\ UNCHANGED <<told, last, hand, answer>>

Tell ==
  /\ \/ told' = [told EXCEPT !.status = state]
     \/ told' = [told EXCEPT !.telemetry = state]
     \/ done /\ told' = [told EXCEPT !.event = EventOf(hand.msg, state)]
  /\ UNCHANGED <<state, last, hand, done, answer>>

(* A command leaves the hand carried out, or not accepted.                 *)
Finished == hand # Idle /\ (done <=> Verdict(hand.msg) = 0)

Answer ==
  /\ Finished
  /\ done => told = [status |-> state, telemetry |-> state, event |-> EventOf(hand.msg, state)]
  /\ answer' = [id   |-> hand.id, code |-> Verdict(hand.msg),
                data |-> IF done THEN state ELSE None]
  /\ hand' = Idle /\ done' = FALSE
  /\ UNCHANGED <<state, told, last>>

LoseAnswer ==
  /\ Finished
  /\ hand' = Idle /\ done' = FALSE
  /\ UNCHANGED <<state, told, last, answer>>

Next ==
  \/ \E n \in 1..MaxSent, m \in Messages : Take(n, m)
  \/ Lose \/ CarryOut \/ Tell \/ Answer \/ LoseAnswer

Spec == Init /\ [][Next]_vars
=============================================================================
