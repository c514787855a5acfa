------------------------------- MODULE Ledger --------------------------------
(***************************************************************************)
(* What command delivery promises, without sockets, threads or tables:     *)
(* at-least-once delivery with a limited number of transmissions           *)
(* (README.md:91).  Somebody decides to transmit a command while it is     *)
(* still open, and transmits it later, or not; a device runs what was      *)
(* transmitted; the verdict on a command only moves forward.               *)
(***************************************************************************)
EXTENDS Integers, FiniteSets

CONSTANTS
  Command,    \* the commands there may be
  Limit       \* how often a command may be transmitted

Sender == {"operator", "retry"}

VARIABLES
  verdict,   \* command -> what the controller has to say of it
  due,       \* transmissions decided on: pairs of a sender and a command
  sent,      \* command -> transmissions
  ran        \* command -> executions

ledger == <<verdict, due, sent, ran>>

Init ==
  /\ verdict = [c \in Command |-> "new"]
  /\ due = {}
  /\ sent = [c \in Command |-> 0]
  /\ ran = [c \in Command |-> 0]

Judge(c, from, to) == verdict[c] \in from /\ verdict' = [verdict EXCEPT ![c] = to]

\* The operator asks for a command, and will transmit it once.
Ask(c) ==
  /\ Judge(c, {"new"}, "open")
  /\ due' = due \cup {<<"operator", c>>}
  /\ UNCHANGED <<sent, ran>>

\* Only an open command is taken up for retransmission.
TakeUp(S) ==
  /\ \A c \in S : verdict[c] = "open"
  /\ due' = due \cup {<<"retry", c>> : c \in S}
  /\ UNCHANGED <<verdict, sent, ran>>

\* One decision, one transmission, whatever became of the command since.
Transmit(s, c) ==
  /\ <<s, c>> \in due /\ sent[c] < Limit
  /\ sent' = [sent EXCEPT ![c] = @ + 1]
  /\ due' = due \ {<<s, c>>}
  /\ UNCHANGED <<verdict, ran>>

\* The link is gone, or the time has not come.
Refrain(s, c) ==
  /\ <<s, c>> \in due
  /\ due' = due \ {<<s, c>>}
  /\ UNCHANGED <<verdict, sent, ran>>

Run(c) ==
  /\ ran[c] < sent[c]
  /\ ran' = [ran EXCEPT ![c] = @ + 1]
  /\ UNCHANGED <<verdict, due, sent>>

\* Done is done for certain; a failed command may turn out to be done.
Confirm(c) ==
  /\ Judge(c, {"open", "failed"}, "done") /\ ran[c] > 0
  /\ UNCHANGED <<due, sent, ran>>

\* A sender that gives up on a command has nothing more to transmit of it.
GiveUp(s, c) ==
  /\ Judge(c, {"open"}, "failed")
  /\ due' = due \ {<<s, c>>}
  /\ UNCHANGED <<sent, ran>>

\* Old entries go, several at a time; nothing brings a command back.
Forget(S) ==
  /\ \A c \in S : verdict[c] # "new"
  /\ verdict' = [c \in Command |-> IF c \in S THEN "forgotten" ELSE verdict[c]]
  /\ UNCHANGED <<due, sent, ran>>

Next ==
  \/ \E S \in SUBSET Command : TakeUp(S) \/ Forget(S)
  \/ \E c \in Command : Ask(c) \/ Run(c) \/ Confirm(c)
  \/ \E s \in Sender, c \in Command : Transmit(s, c) \/ Refrain(s, c) \/ GiveUp(s, c)

Spec == Init /\ [][Next]_ledger
=============================================================================
