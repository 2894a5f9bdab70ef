----------------------------- MODULE RemoteBitbang -----------------------------
(***************************************************************************)
(* The socket bridge of the debug testbench: SimJTAG.sv calls jtag_tick    *)
(* (sim_jtag.c) every TICK_DELAY + 1 clocks, which lets the server of      *)
(* remote_bitbang.c accept a client or execute one of its bytes.  The      *)
(* calls come from the simulator's only thread, so that a server waiting   *)
(* for a client or for a byte holds the simulated clock: pc says where the *)
(* thread is.  Clients and the device behind the pins are external.        *)
(***************************************************************************)
EXTENDS Integers, Sequences

CONSTANTS
  Clients, NoClient,
  Commands,        \* the bytes clients send
  OnPins(_, _, _), \* the device after its pins went from one level to another
  Tdo(_),          \* its output
  DeviceReset,
  OutMax,          \* answers the socket holds for a client
  TICK_DELAY,
  MaxSent          \* bound: bytes the clients send

ASSUME NoClientAssumption == NoClient \notin Clients
ASSUME TickDelayAssumption == TICK_DELAY \in Nat
ASSUME BoundsAssumption == OutMax \in Nat /\ MaxSent \in Nat

VARIABLES
  \* external: the sockets
  inbox, outbox,     \* bytes on their way to and from the server, by client
  hungup,            \* clients that closed their end
  sent,              \* bytes the clients have sent
  backlog,           \* clients that wait to be accepted
  \* remote_bitbang.c, sim_jtag.c
  init,
  client_fd,         \* the client served, NoClient for 0
  regs,              \* tck, tms, tdi, trstn
  tdo, quit,
  pc,                \* the simulator's thread: "clock", "accepting", "reading",
                     \* "writing", "finished" or "aborted"
  \* SimJTAG.sv
  tickCounterReg,
  port,              \* __jtag_TCK, __jtag_TMS, __jtag_TDI, __jtag_TRSTn
  \* external: the device
  device,
  seen               \* the levels it has reacted to

sockets == <<inbox, outbox, hungup, sent, backlog>>
server  == <<init, client_fd, regs, tdo, quit, pc>>
design  == <<tickCounterReg, port, device, seen>>
vars    == <<sockets, server, design>>

Pins == [tck : {0, 1}, tms : {0, 1}, tdi : {0, 1}, trstn : {0, 1}]
High == [tck |-> 1, tms |-> 1, tdi |-> 1, trstn |-> 1]
Low  == [tck |-> 0, tms |-> 0, tdi |-> 0, trstn |-> 0]

Stopped == pc \in {"finished", "aborted"}

Init ==
  /\ inbox = [c \in Clients |-> <<>>]
  /\ outbox = [c \in Clients |-> <<>>]
  /\ hungup = {}
  /\ sent = 0
  /\ backlog = <<>>
  /\ init = FALSE
  /\ client_fd = NoClient
  /\ regs = Low
  /\ tdo = Tdo(DeviceReset)
  /\ quit = FALSE
  /\ pc = "clock"
  /\ tickCounterReg = TICK_DELAY
  /\ port = Low /\ seen = Low
  /\ device = DeviceReset

-----------------------------------------------------------------------------
(* The clients.                                                            *)

Known(c) == c = client_fd \/ \E i \in DOMAIN backlog : backlog[i] = c

\* Only a listening socket takes connections; each client tries once.
Connect(c) ==
  /\ init /\ ~Stopped
  /\ c \notin hungup /\ ~Known(c)
  /\ backlog' = Append(backlog, c)
  /\ UNCHANGED <<inbox, outbox, hungup, sent, server, design>>

Send(c) ==
  /\ Known(c) /\ c \notin hungup /\ ~Stopped
  /\ sent < MaxSent
  /\ \E b \in Commands : inbox' = [inbox EXCEPT ![c] = Append(@, b)]
  /\ sent' = sent + 1
  /\ UNCHANGED <<outbox, hungup, backlog, server, design>>

Fetch(c) ==
  /\ outbox[c] # <<>>
  /\ outbox' = [outbox EXCEPT ![c] = Tail(@)]
  /\ UNCHANGED <<inbox, hungup, sent, backlog, server, design>>

HangUp(c) ==
  /\ Known(c) /\ c \notin hungup /\ ~Stopped
  /\ hungup' = hungup \cup {c}
  /\ outbox' = [outbox EXCEPT ![c] = <<>>]
  /\ UNCHANGED <<inbox, sent, backlog, server, design>>

-----------------------------------------------------------------------------
(* The simulated clock.                                                    *)

\* The design follows its pins before the next clock edge.
Respond ==
  /\ pc = "clock" /\ seen # port
  /\ device' = OnPins(device, seen, port)
  /\ seen' = port
  /\ UNCHANGED <<sockets, server, tickCounterReg, port>>

Count ==
  /\ pc = "clock" /\ seen = port
  /\ tickCounterReg > 0
  /\ tickCounterReg' = tickCounterReg - 1
  /\ UNCHANGED <<sockets, server, port, device, seen>>

\* rbs_tick looks whether there is a client.
Dispatch ==
  IF client_fd # NoClient
  THEN pc' = "reading" /\ tdo' = Tdo(device)
  ELSE pc' = "accepting" /\ UNCHANGED tdo

\* jtag_tick is called.
Tick ==
  /\ pc = "clock" /\ seen = port
  /\ tickCounterReg = 0
  /\ tickCounterReg' = TICK_DELAY
  /\ init' = TRUE
  /\ regs' = IF init THEN regs ELSE High
  /\ Dispatch
  /\ UNCHANGED <<sockets, client_fd, quit, port, device, seen>>

\* rbs_init gets no socket, or not the port.
NoSocket ==
  /\ pc = "clock" /\ seen = port
  /\ tickCounterReg = 0 /\ ~init
  /\ pc' = "aborted"
  /\ UNCHANGED <<sockets, init, client_fd, regs, tdo, quit, design>>

\* What jtag_tick returns; rbs_err is never set.
ExitCode(rbs_done) == IF rbs_done THEN 1 ELSE 0

\* Mutant: the pins are copied before the byte is executed.
Return_Stale ==
  /\ port' = regs
  /\ pc' = IF ExitCode(quit') # 0 THEN "finished" ELSE "clock"

\* rbs_tick hands over the pins; a non-zero result finishes the simulation.
Return ==
  /\ port' = regs'
  /\ pc' = IF ExitCode(quit') # 0 THEN "finished" ELSE "clock"

\* Mutant: the loop is not left.
Accept_Again ==
  /\ pc = "accepting" /\ backlog # <<>>
  /\ client_fd' = Head(backlog)
  /\ backlog' = Tail(backlog)
  /\ UNCHANGED <<inbox, outbox, hungup, sent, init, regs, tdo, quit, pc, design>>

\* rbs_accept asks again and again until there is a client.
Accept ==
  /\ pc = "accepting" /\ backlog # <<>>
  /\ client_fd' = Head(backlog)
  /\ backlog' = Tail(backlog)
  /\ UNCHANGED <<regs, quit>> /\ Return
  /\ UNCHANGED <<inbox, outbox, hungup, sent, init, tdo, tickCounterReg, device, seen>>

\* accept fails for another reason than that no client is waiting.
AcceptFails ==
  /\ pc = "accepting"
  /\ pc' = "aborted"
  /\ UNCHANGED <<sockets, init, client_fd, regs, tdo, quit, design>>

-----------------------------------------------------------------------------
(* rbs_execute_command.  While no byte is there it goes on reading.        *)

Received(b) ==
  /\ pc = "reading"
  /\ inbox[client_fd] # <<>>
  /\ b = Head(inbox[client_fd])
  /\ inbox' = [inbox EXCEPT ![client_fd] = Tail(@)]
  /\ UNCHANGED <<outbox, hungup, sent, backlog, init, tdo, tickCounterReg, device, seen>>

Digit == [b \in {"0", "1", "2", "3", "4", "5", "6", "7"} |->
            CASE b = "0" -> 0 [] b = "1" -> 1 [] b = "2" -> 2 [] b = "3" -> 3
              [] b = "4" -> 4 [] b = "5" -> 5 [] b = "6" -> 6 [] OTHER -> 7]

\* The levels a digit asks for; TRSTn is never driven low again.
PinsOf(b) ==
  [tck |-> Digit[b] \div 4, tms |-> (Digit[b] \div 2) % 2, tdi |-> Digit[b] % 2, trstn |-> 1]

SetPins(b) ==
  /\ b \in DOMAIN Digit
  /\ Received(b)
  /\ regs' = PinsOf(b)
  /\ UNCHANGED <<client_fd, quit>> /\ Return

ReadRequest(b) ==
  /\ b = "R"
  /\ Received(b)
  /\ pc' = "writing"
  /\ UNCHANGED <<client_fd, regs, quit, port>>

QuitRequest(b) ==
  /\ b = "Q"
  /\ Received(b)
  /\ quit' = TRUE
  /\ client_fd' = NoClient
  /\ UNCHANGED regs /\ Return

\* Blink, the four resets, which do nothing, and unsupported bytes.
NoEffect(b) ==
  /\ b \notin DOMAIN Digit \cup {"R", "Q"}
  /\ Received(b)
  /\ UNCHANGED <<client_fd, regs, quit>> /\ Return

\* The client is gone: this and every later call returns at once.
EndOfFile ==
  /\ pc = "reading" /\ inbox[client_fd] = <<>> /\ client_fd \in hungup
  /\ UNCHANGED <<client_fd, regs, quit>> /\ Return
  /\ UNCHANGED <<sockets, init, tdo, tickCounterReg, device, seen>>

Answered ==
  /\ pc = "writing"
  /\ Len(outbox[client_fd]) < OutMax
  /\ outbox' = IF client_fd \in hungup THEN outbox
               ELSE [outbox EXCEPT ![client_fd] = Append(@, tdo)]
  /\ UNCHANGED <<client_fd, regs, quit>> /\ Return
  /\ UNCHANGED <<inbox, hungup, sent, backlog, init, tdo, tickCounterReg, device, seen>>

\* read or write fails for another reason than an empty socket: the peer has
\* reset the connection, or its buffer has no room for the answer.
Failed ==
  /\ \/ pc \in {"reading", "writing"} /\ client_fd \in hungup
     \/ pc = "writing" /\ Len(outbox[client_fd]) = OutMax
  /\ pc' = "aborted"
  /\ UNCHANGED <<sockets, init, client_fd, regs, tdo, quit, design>>

Execute(b) == SetPins(b) \/ ReadRequest(b) \/ QuitRequest(b) \/ NoEffect(b)

ClientNext == \E c \in Clients : Connect(c) \/ Send(c) \/ Fetch(c) \/ HangUp(c)

SimNext ==
  \/ Respond \/ Count \/ Tick \/ NoSocket \/ Accept
  \/ \E b \in Commands : Execute(b)
  \/ EndOfFile \/ Answered \/ Failed

Next == ClientNext \/ SimNext \/ AcceptFails

Spec == Init /\ [][Next]_vars

\* The simulator runs; nothing is assumed of the clients, and accept need not fail.
FairSpec == Spec /\ WF_vars(SimNext)

-----------------------------------------------------------------------------
(***************************************************************************)
(* To its client the bridge is the ideal adapter: a read is executed when  *)
(* its answer is written, and the device has reacted to the pins before    *)
(* anyone can see them.  The sampled tdo is that of the pins all earlier   *)
(* bytes asked for, no level is skipped, bytes are neither lost nor        *)
(* repeated by a retry, and no second client is ever served.               *)
(***************************************************************************)
Pending ==
  IF Stopped THEN [c \in Clients |-> <<>>]
  ELSE IF pc = "writing" THEN [inbox EXCEPT ![client_fd] = <<"R">> \o @]
  ELSE inbox

Adapter == INSTANCE BitbangAdapter
  WITH commands <- Pending, answers <- outbox, left <- hungup,
       session <- client_fd, over <- Stopped, pins <- port,
       device <- IF seen = port THEN device ELSE OnPins(device, seen, port)

ImplementsAdapter == Adapter!Spec

(***************************************************************************)
(* A client that is served gets everything executed it has sent, with its  *)
(* answers, unless the simulation ends: it may be held by a client that is *)
(* silent, but not while there is a byte.                                  *)
(***************************************************************************)
EverythingIsExecuted ==
  \A c \in Clients :
    client_fd = c ~> (inbox[c] = <<>> /\ pc # "writing") \/ Stopped
=============================================================================
