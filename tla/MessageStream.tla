--------------------------- MODULE MessageStream ---------------------------
(***************************************************************************)
(* What a LinkMessageQueue promises to those who use it: one stream of     *)
(* messages, read by every consumer at its own pace.  A consumer that asks *)
(* is given the first message behind its position that nobody has claimed, *)
(* or learns that there is none; a claimed message is gone for everybody;  *)
(* a message expires once all those it was meant for are done with it.     *)
(***************************************************************************)
EXTENDS Integers

CONSTANTS Consumers, MaxMessages

Messages == 1 .. MaxMessages

VARIABLES log,       \* how many messages were appended
          gone,      \* the messages claimed or expired
          meantFor,  \* the consumers each message was meant for
          position,  \* the message each consumer was given last, 0 for none
          phase,     \* "resting", "asking", or "away": not yet or no longer there
          given,     \* the messages each consumer was given
          done       \* the consumers that are done with each message

vars == <<log, gone, meantFor, position, phase, given, done>>

Init ==
  /\ log = 0
  /\ gone = {}
  /\ meantFor = [m \in Messages |-> {}]
  /\ position = [c \in Consumers |-> 0]
  /\ phase = [c \in Consumers |-> "away"]
  /\ given = [c \in Consumers |-> {}]
  /\ done = [m \in Messages |-> {}]

Waiting(c) == {m \in (1 .. log) \ gone : m > position[c]}

\* The audience is who was there when the push began; some may have left.
Append ==
  /\ log < MaxMessages
  /\ log' = log + 1
  /\ \E audience \in SUBSET Consumers : meantFor' = [meantFor EXCEPT ![log'] = audience]
  /\ UNCHANGED <<gone, position, phase, given, done>>

Join(c) ==
  /\ phase[c] = "away" /\ position[c] = 0
  /\ phase' = [phase EXCEPT ![c] = "resting"]
  /\ UNCHANGED <<log, gone, meantFor, position, given, done>>

Ask(c) ==
  /\ phase[c] = "resting"
  /\ phase' = [phase EXCEPT ![c] = "asking"]
  /\ UNCHANGED <<log, gone, meantFor, position, given, done>>

Give(c) ==
  /\ phase[c] = "asking"
  /\ \E m \in Waiting(c) :
       /\ \A n \in Waiting(c) : m <= n
       /\ position' = [position EXCEPT ![c] = m]
       /\ given' = [given EXCEPT ![c] = @ \union {m}]
  /\ phase' = [phase EXCEPT ![c] = "resting"]
  /\ UNCHANGED <<log, gone, meantFor, done>>

Nothing(c) ==
  /\ phase[c] = "asking"
  /\ Waiting(c) = {}
  /\ phase' = [phase EXCEPT ![c] = "resting"]
  /\ UNCHANGED <<log, gone, meantFor, position, given, done>>

Claim(c, m) ==
  /\ m \in given[c] \ gone
  /\ gone' = gone \union {m}
  /\ UNCHANGED <<log, meantFor, position, phase, given, done>>

\* c asked for more at its message, or left there; the message may expire.
Finish(c) ==
  LET m == position[c] IN
  /\ m # 0
  /\ phase[c] # "resting"
  /\ done' = [done EXCEPT ![m] = @ \union {c}]
  /\ gone' \in {gone, gone \union {m}}
  /\ m \in gone' \ gone =>
       \A d \in meantFor[m] : d \in done'[m] \/ phase[d] = "away"
  /\ UNCHANGED <<log, meantFor, position, phase, given>>

Leave(c) ==
  /\ phase[c] = "resting"
  /\ phase' = [phase EXCEPT ![c] = "away"]
  /\ UNCHANGED <<log, gone, meantFor, position, given, done>>

Answer(c) == Give(c) \/ Nothing(c)

Next ==
  \/ Append
  \/ \E c \in Consumers :
       \/ Join(c) \/ Ask(c) \/ Answer(c) \/ Finish(c) \/ Leave(c)
       \/ \E m \in Messages : Claim(c, m)

\* Whoever asks is answered.
Spec == Init /\ [][Next]_vars /\ \A c \in Consumers : WF_vars(Answer(c))
=============================================================================
