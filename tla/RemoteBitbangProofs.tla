-------------------------- MODULE RemoteBitbangProofs --------------------------
(***************************************************************************)
(* The bridge implements the ideal adapter, for all clients, bytes and     *)
(* devices, every tick delay and every size of the socket's buffer.        *)
(***************************************************************************)
EXTENDS RemoteBitbang, SequenceTheorems, TLAPS

Threads == {"clock", "accepting", "reading", "writing", "finished", "aborted"}

SocketsTyped ==
  /\ inbox \in [Clients -> Seq(Commands)]
  /\ backlog \in Seq(Clients)
  /\ client_fd \in Clients \cup {NoClient}
  /\ pc \in Threads
  /\ pc = "writing" => "R" \in Commands

\* The pins are high until the only session begins, then as the bytes ask.
PinsFollow ==
  /\ init /\ client_fd = NoClient /\ ~Stopped => regs = High
  /\ pc = "accepting" => init
  /\ client_fd # NoClient => init /\ port = regs

\* Within a call the thread and the client agree, the device is at rest and
\* tdo is its output.
CallIsConsistent ==
  /\ quit => pc = "finished"
  /\ pc = "accepting" => client_fd = NoClient
  /\ pc \in {"reading", "writing"} => client_fd # NoClient /\ tdo = Tdo(device)
  /\ pc \in {"accepting", "reading", "writing"} => seen = port

IInv == SocketsTyped /\ PinsFollow /\ CallIsConsistent

-----------------------------------------------------------------------------
LEMMA InitHolds == Init => IInv
  BY NoClientAssumption
  DEF Init, IInv, SocketsTyped, PinsFollow, CallIsConsistent, Threads, Stopped

(* The invariant is kept.                                                  *)
LEMMA StepKeeps == ASSUME IInv, [Next]_vars PROVE IInv'
<1> USE NoClientAssumption
<1> USE DEF IInv, SocketsTyped, PinsFollow, CallIsConsistent, Threads, Stopped
<1>1. CASE UNCHANGED vars
  BY <1>1 DEF vars, sockets, server, design
<1>2. CASE ClientNext
  <2>1. ASSUME NEW c \in Clients, Connect(c) PROVE IInv'
    BY <2>1 DEF Connect, server, design
  <2>2. ASSUME NEW c \in Clients, Send(c) PROVE IInv'
    <3>1. PICK b \in Commands : inbox' = [inbox EXCEPT ![c] = Append(@, b)]
      BY <2>2 DEF Send
    <3>2. Append(inbox[c], b) \in Seq(Commands)
      OBVIOUS
    <3> QED BY <2>2, <3>1, <3>2 DEF Send, server, design
  <2>3. ASSUME NEW c \in Clients, Fetch(c) PROVE IInv'
    BY <2>3 DEF Fetch, server, design
  <2>4. ASSUME NEW c \in Clients, HangUp(c) PROVE IInv'
    BY <2>4 DEF HangUp, server, design
  <2> QED BY <1>2, <2>1, <2>2, <2>3, <2>4 DEF ClientNext
<1>3. CASE SimNext
  <2>1. CASE Respond
    BY <2>1 DEF Respond, sockets, server
  <2>2. CASE Count
    BY <2>2 DEF Count, sockets, server
  <2>3. CASE Tick
    BY <2>3 DEF Tick, Dispatch, sockets
  <2>4. CASE NoSocket
    BY <2>4 DEF NoSocket, sockets, design
  <2>5. CASE Accept
    <3>1. Head(backlog) \in Clients /\ Tail(backlog) \in Seq(Clients)
      BY <2>5 DEF Accept
    <3> QED BY <2>5, <3>1 DEF Accept, Return, ExitCode
  <2>6. ASSUME NEW b \in Commands, Execute(b) PROVE IInv'
    <3>1. inbox' \in [Clients -> Seq(Commands)] /\ pc = "reading"
      <4>1. Received(b)
        BY <2>6 DEF Execute, SetPins, ReadRequest, QuitRequest, NoEffect
      <4>2. client_fd \in Clients /\ Tail(inbox[client_fd]) \in Seq(Commands)
        BY <4>1 DEF Received
      <4> QED BY <4>1, <4>2 DEF Received
    <3>2. CASE SetPins(b)
      BY <3>1, <3>2 DEF SetPins, Received, Return, ExitCode
    <3>3. CASE ReadRequest(b)
      BY <3>1, <3>3 DEF ReadRequest, Received
    <3>4. CASE QuitRequest(b)
      BY <3>1, <3>4 DEF QuitRequest, Received, Return, ExitCode
    <3>5. CASE NoEffect(b)
      BY <3>1, <3>5 DEF NoEffect, Received, Return, ExitCode
    <3> QED BY <2>6, <3>2, <3>3, <3>4, <3>5 DEF Execute
  <2>7. CASE EndOfFile
    BY <2>7 DEF EndOfFile, Return, ExitCode, sockets
  <2>8. CASE Answered
    BY <2>8 DEF Answered, Return, ExitCode
  <2>9. CASE Failed
    BY <2>9 DEF Failed, sockets, design
  <2> QED BY <1>3, <2>1, <2>2, <2>3, <2>4, <2>5, <2>6, <2>7, <2>8, <2>9 DEF SimNext
<1>4. CASE AcceptFails
  BY <1>4 DEF AcceptFails, sockets, design
<1> QED BY <1>1, <1>2, <1>3, <1>4 DEF Next

THEOREM Consistent == Spec => []IInv
<1>1. Init => IInv
  BY InitHolds
<1>2. IInv /\ [Next]_vars => IInv'
  BY StepKeeps
<1> QED BY <1>1, <1>2, PTL DEF Spec

-----------------------------------------------------------------------------
(* The refinement.                                                         *)

Device == IF seen = port THEN device ELSE OnPins(device, seen, port)

adapterVars == <<Pending, outbox, hungup, client_fd, Stopped, port, Device>>

\* The byte whose answer is being written is the first of its client.
LEMMA PendingRead ==
  ASSUME IInv, pc = "writing"
  PROVE  /\ Pending[client_fd] # <<>>
         /\ Head(Pending[client_fd]) = "R"
         /\ [Pending EXCEPT ![client_fd] = Tail(@)] = inbox
<1>1. client_fd \in Clients /\ inbox[client_fd] \in Seq(Commands)
  BY DEF IInv, SocketsTyped, CallIsConsistent
<1> DEFINE rest == inbox[client_fd]
<1> DEFINE all == <<"R">> \o rest
<1>2. Pending = [inbox EXCEPT ![client_fd] = all]
  BY DEF Pending, Stopped
<1>3. all # <<>> /\ Head(all) = "R" /\ Tail(all) = rest
  <2>1. Len(all) = 1 + Len(rest) /\ all[1] = "R"
        /\ \A i \in 1..Len(rest) : all[i + 1] = rest[i]
    BY <1>1
  <2>2. all \in Seq(Commands \cup {"R"}) /\ rest \in Seq(Commands \cup {"R"})
    BY <1>1
  <2> HIDE DEF all, rest
  <2>3. Len(Tail(all)) = Len(rest) /\ Tail(all) \in Seq(Commands \cup {"R"})
        /\ \A i \in 1..Len(rest) : Tail(all)[i] = rest[i]
    BY <2>1, <2>2
  <2>4. Tail(all) = rest
    BY <2>2, <2>3, SeqEqual
  <2> QED BY <2>1, <2>2, <2>4
<1> HIDE DEF all
<1>4. inbox \in [Clients -> Seq(Commands)]
  BY DEF IInv, SocketsTyped
<1> QED BY <1>1, <1>2, <1>3, <1>4

LEMMA InitRefines == Init => Adapter!Init
  BY DEF Init, Adapter!Init, Pending, Stopped, High, Adapter!vars

\* Clients do to the adapter what they do to the sockets.
LEMMA ClientRefines ==
  ASSUME IInv, ClientNext PROVE Adapter!Next \/ UNCHANGED adapterVars
<1>1. ASSUME NEW c \in Clients, Connect(c) PROVE UNCHANGED adapterVars
  BY <1>1 DEF Connect, server, design, adapterVars, Pending, Stopped, Device
<1>2. ASSUME NEW c \in Clients, Send(c) PROVE Adapter!Send(c)
  <2>1. PICK b \in Commands : inbox' = [inbox EXCEPT ![c] = Append(@, b)]
    BY <1>2 DEF Send
  <2>2. Pending' = [Pending EXCEPT ![c] = Append(@, b)]
    <3>1. ~Stopped /\ ~Stopped' /\ UNCHANGED <<pc, client_fd>>
      BY <1>2 DEF Send, Stopped, server
    <3>2. inbox \in [Clients -> Seq(Commands)]
      BY DEF IInv, SocketsTyped
    <3>3. CASE pc = "writing"
      <4>1. <<"R">> \o Append(inbox[c], b) = Append(<<"R">> \o inbox[c], b)
        <5> DEFINE S == Commands \cup {"R"}
        <5>1. inbox[c] \in Seq(S) /\ <<"R">> \in Seq(S) /\ b \in S
          BY <3>2
        <5> HIDE DEF S
        <5> QED BY <5>1
      <4> QED BY <2>1, <3>1, <3>2, <3>3, <4>1 DEF Pending
    <3>4. CASE pc # "writing"
      BY <2>1, <3>1, <3>4 DEF Pending
    <3> QED BY <3>3, <3>4
  <2> QED BY <1>2, <2>2 DEF Send, Adapter!Send, server, design, Stopped
<1>3. ASSUME NEW c \in Clients, Fetch(c) PROVE Adapter!Fetch(c)
  BY <1>3 DEF Fetch, Adapter!Fetch, server, design, Pending, Stopped
<1>4. ASSUME NEW c \in Clients, HangUp(c) PROVE Adapter!HangUp(c)
  BY <1>4 DEF HangUp, Adapter!HangUp, server, design, Pending, Stopped
<1> QED BY <1>1, <1>2, <1>3, <1>4 DEF ClientNext, Adapter!Next

-----------------------------------------------------------------------------
\* A read that has been taken from the socket is still to be executed.
LEMMA ReadIsPending ==
  ASSUME IInv, ReadRequest("R") PROVE UNCHANGED adapterVars
<1> DEFINE s == inbox[client_fd]
<1>1. client_fd \in Clients /\ inbox \in [Clients -> Seq(Commands)]
  BY DEF IInv, SocketsTyped, CallIsConsistent, ReadRequest, Received
<1>2. s \in Seq(Commands) /\ s # <<>> /\ Head(s) = "R"
  BY <1>1 DEF ReadRequest, Received
<1>3. <<"R">> \o Tail(s) = s
  <2>1. <<"R">> \o Tail(s) \in Seq(Commands \cup {"R"}) /\ s \in Seq(Commands \cup {"R"})
    BY <1>2
  <2>2. Len(<<"R">> \o Tail(s)) = Len(s)
        /\ \A i \in 1..Len(s) : (<<"R">> \o Tail(s))[i] = s[i]
    BY <1>2
  <2> QED BY <2>1, <2>2, SeqEqual
<1>4. inbox' = [inbox EXCEPT ![client_fd] = Tail(s)]
  BY DEF ReadRequest, Received
<1>5. [inbox' EXCEPT ![client_fd] = <<"R">> \o @] = inbox
  BY <1>1, <1>3, <1>4
<1>6. pc = "reading" /\ pc' = "writing" /\ UNCHANGED client_fd
  BY DEF ReadRequest, Received
<1>7. Pending' = Pending
  BY <1>5, <1>6 DEF Pending, Stopped
<1> QED
  BY <1>6, <1>7 DEF ReadRequest, Received, adapterVars, Stopped, Device

\* Each byte but a read has its effect when it is received.
LEMMA ByteRefines ==
  ASSUME IInv, NEW b \in Commands, Execute(b)
  PROVE  Adapter!Next \/ UNCHANGED adapterVars
<1> USE DEF Pending, Stopped, Device, Received
<1>1. client_fd # NoClient /\ seen = port /\ port = regs /\ ~quit
  BY DEF Execute, SetPins, ReadRequest, QuitRequest, NoEffect,
         IInv, PinsFollow, CallIsConsistent
<1>2. CASE SetPins(b)
  <2>1. Adapter!Take(b) /\ b \in Adapter!Writes
    BY <1>1, <1>2 DEF SetPins, Return, ExitCode, Adapter!Take, Adapter!First, Adapter!Writes, Digit
  <2>2. Adapter!Move(PinsOf(b))
    BY <1>1, <1>2 DEF SetPins, Return, ExitCode, Adapter!Move
  <2>3. Adapter!Write(b)
    BY <1>1, <1>2, <2>1, <2>2 DEF SetPins, Return, ExitCode, Adapter!Write
  <2> QED BY <2>3 DEF Adapter!Next
<1>3. CASE ReadRequest(b)
  BY <1>3, ReadIsPending DEF ReadRequest
<1>4. CASE QuitRequest(b)
  <2>1. Adapter!Quit(b)
    BY <1>1, <1>4 DEF QuitRequest, Return, ExitCode, Adapter!Quit, Adapter!First, Adapter!End
  <2> QED BY <2>1 DEF Adapter!Next
<1>5. CASE NoEffect(b)
  <2>1. Adapter!Ignore(b)
    BY <1>1, <1>5 DEF NoEffect, Return, ExitCode, Adapter!Ignore, Adapter!Take, Adapter!First,
                      Adapter!Writes, Digit
  <2> QED BY <2>1 DEF Adapter!Next
<1> QED BY <1>2, <1>3, <1>4, <1>5 DEF Execute

\* The simulator: a call that executes a byte is a step of the adapter.
LEMMA SimRefines ==
  ASSUME IInv, SimNext PROVE Adapter!Next \/ UNCHANGED adapterVars
<1> USE DEF Pending, Stopped, Device
<1>1. CASE Respond \/ Count \/ Tick
  BY <1>1 DEF Respond, Count, Tick, Dispatch, sockets, server, adapterVars
<1>2. CASE NoSocket
  <2>1. Adapter!Abort
    BY <1>2 DEF NoSocket, IInv, PinsFollow, sockets, design, Adapter!Abort, Adapter!End
  <2> QED BY <2>1 DEF Adapter!Next
<1>3. CASE Accept
  <2>1. Head(backlog) \in Clients
    BY <1>3 DEF Accept, IInv, SocketsTyped
  <2>2. regs = High /\ client_fd = NoClient /\ ~quit /\ seen = port
    BY <1>3 DEF Accept, IInv, PinsFollow, CallIsConsistent
  <2>3. Adapter!Serve(Head(backlog))
    BY <1>3, <2>2 DEF Accept, Return, ExitCode, Adapter!Serve, Adapter!Move
  <2> QED BY <2>1, <2>3 DEF Adapter!Next
<1>4. ASSUME NEW b \in Commands, Execute(b) PROVE Adapter!Next \/ UNCHANGED adapterVars
  BY <1>4, ByteRefines
<1>5. CASE EndOfFile
  BY <1>5 DEF EndOfFile, Return, ExitCode, sockets, adapterVars, IInv, PinsFollow, CallIsConsistent
<1>6. CASE Answered
  <2>1. pc = "writing" /\ pc' = "clock" /\ UNCHANGED <<inbox, client_fd>>
        /\ client_fd # NoClient /\ "R" \in Commands
        /\ seen = port /\ port' = port /\ tdo = Tdo(device)
    BY <1>6 DEF Answered, Return, ExitCode, IInv, SocketsTyped, PinsFollow, CallIsConsistent
  <2>2. Adapter!First("R") /\ Pending' = [Pending EXCEPT ![client_fd] = Tail(@)]
    <3>1. Pending[client_fd] # <<>> /\ Head(Pending[client_fd]) = "R"
          /\ [Pending EXCEPT ![client_fd] = Tail(@)] = inbox
      BY <2>1, PendingRead
    <3>2. Pending' = inbox
      BY <2>1
    <3> HIDE DEF Pending
    <3> QED BY <2>1, <3>1, <3>2 DEF Adapter!First
  <2>3. Adapter!Read("R")
    <3> HIDE DEF Pending
    <3> QED BY <1>6, <2>1, <2>2 DEF Answered, Adapter!Read, Adapter!Take
  <2> QED BY <2>1, <2>3 DEF Adapter!Next
<1>7. CASE Failed
  <2>1. Adapter!Abort
    BY <1>7 DEF Failed, sockets, design, Adapter!Abort, Adapter!End
  <2> QED BY <2>1 DEF Adapter!Next
<1> QED BY <1>1, <1>2, <1>3, <1>4, <1>5, <1>6, <1>7 DEF SimNext

LEMMA FailedAcceptRefines == ASSUME IInv, AcceptFails PROVE Adapter!Next
<1>1. Adapter!Abort
  BY DEF AcceptFails, IInv, CallIsConsistent, Pending, Stopped, Device, sockets, design,
         Adapter!Abort, Adapter!End
<1> QED BY <1>1 DEF Adapter!Next

(***************************************************************************)
(* The bridge is the ideal adapter: every behaviour of the server, of the  *)
(* clients and of the clock is one of BitbangAdapter.                      *)
(***************************************************************************)
THEOREM Refinement == Spec => ImplementsAdapter
<1>1. Init => Adapter!Init
  BY InitRefines
<1>2. IInv /\ [Next]_vars => [Adapter!Next]_(Adapter!vars)
  <2> SUFFICES ASSUME IInv, [Next]_vars PROVE Adapter!Next \/ UNCHANGED adapterVars
    BY DEF Adapter!vars, adapterVars, Device
  <2>1. CASE UNCHANGED vars
    BY <2>1 DEF vars, sockets, server, design, adapterVars, Pending, Stopped, Device
  <2>2. CASE Next
    BY <2>2, ClientRefines, SimRefines, FailedAcceptRefines DEF Next
  <2> QED BY <2>1, <2>2
<1> QED BY <1>1, <1>2, Consistent, PTL DEF Spec, ImplementsAdapter, Adapter!Spec
=============================================================================
