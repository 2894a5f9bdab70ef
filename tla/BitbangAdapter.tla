---------------------------- MODULE BitbangAdapter ----------------------------
(***************************************************************************)
(* What a remote bitbang client may rely on: its bytes are executed one at *)
(* a time and in order, each write of the pins is seen by the device, and  *)
(* each read is answered once, with the level TDO has when all the bytes   *)
(* before it have had their effect.  There is one session; it ends with    *)
(* the quit command, or because the client left or does not fetch its      *)
(* answers.                                                                *)
(***************************************************************************)
EXTENDS Integers, Sequences

CONSTANTS
  Clients, NoClient,
  Commands,       \* the bytes clients send
  PinsOf(_),      \* the levels of TCK, TMS, TDI and TRSTn a digit asks for
  High, Low,      \* all of them 1, all of them 0
  OnPins(_, _, _),\* the device after its pins went from one level to another
  Tdo(_),         \* its output
  DeviceReset,
  OutMax          \* answers the socket holds for a client

VARIABLES
  commands,  \* commands[c]: bytes of client c that are not executed
  answers,   \* answers[c]: answers it has not fetched
  left,      \* the clients that have hung up
  session,   \* the client that is served
  over,      \* the simulation has ended
  pins,
  device

vars == <<commands, answers, left, session, over, pins, device>>

Writes == {"0", "1", "2", "3", "4", "5", "6", "7"}

Init ==
  /\ commands = [c \in Clients |-> <<>>]
  /\ answers = [c \in Clients |-> <<>>]
  /\ left = {}
  /\ session = NoClient
  /\ over = FALSE
  /\ pins = Low
  /\ device = DeviceReset

\* The device reacts to a change of its pins.
Move(new) ==
  /\ pins' = new
  /\ device' = IF new = pins THEN device ELSE OnPins(device, pins, new)

Send(c) ==
  /\ c \notin left
  /\ \E b \in Commands : commands' = [commands EXCEPT ![c] = Append(@, b)]
  /\ UNCHANGED <<answers, left, session, over, pins, device>>

Fetch(c) ==
  /\ answers[c] # <<>>
  /\ answers' = [answers EXCEPT ![c] = Tail(@)]
  /\ UNCHANGED <<commands, left, session, over, pins, device>>

HangUp(c) ==
  /\ left' = left \cup {c}
  /\ answers' = [answers EXCEPT ![c] = <<>>]
  /\ UNCHANGED <<commands, session, over, pins, device>>

\* The only session begins; TRSTn and the other pins rise.
Serve(c) ==
  /\ session = NoClient /\ ~over
  /\ session' = c
  /\ Move(High)
  /\ UNCHANGED <<commands, answers, left, over>>

\* What is not executed by then is lost.
End == over' = TRUE /\ commands' = [c \in Clients |-> <<>>]

First(b) ==
  /\ session # NoClient /\ ~over
  /\ commands[session] # <<>>
  /\ b = Head(commands[session])

Take(b) == First(b) /\ commands' = [commands EXCEPT ![session] = Tail(@)]

Write(b) ==
  /\ Take(b) /\ b \in Writes
  /\ Move(PinsOf(b))
  /\ UNCHANGED <<answers, left, session, over>>

Read(b) ==
  /\ Take(b) /\ b = "R"
  /\ answers' = IF session \in left THEN answers
                ELSE [answers EXCEPT ![session] = Append(@, Tdo(device))]
  /\ UNCHANGED <<left, session, over, pins, device>>

Quit(b) ==
  /\ First(b) /\ b = "Q"
  /\ session' = NoClient
  /\ UNCHANGED <<answers, left, pins, device>> /\ End

\* Blink, reset and unknown bytes do nothing.
Ignore(b) ==
  /\ Take(b) /\ b \notin Writes \cup {"R", "Q"}
  /\ UNCHANGED <<answers, left, session, over, pins, device>>

\* The simulation is aborted: only before the first session, or when its
\* client has left or leaves its answers unread.
Abort ==
  /\ ~over
  /\ \/ session = NoClient
     \/ session \in left
     \/ Len(answers[session]) = OutMax
  /\ UNCHANGED <<answers, left, session, pins, device>> /\ End

Next ==
  \/ \E c \in Clients : Send(c) \/ Fetch(c) \/ HangUp(c) \/ Serve(c)
  \/ \E b \in Commands : Write(b) \/ Read(b) \/ Quit(b) \/ Ignore(b)
  \/ Abort

Spec == Init /\ [][Next]_vars
=============================================================================
