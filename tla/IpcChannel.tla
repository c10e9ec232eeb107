------------------------------ MODULE IpcChannel ------------------------------
(***************************************************************************)
(* The channel between the PKCS#11 library and the client-card daemon:        *)
(* ipc_call and the global connection of drivers/src/ipc_client.c, the frames *)
(* of clients/internal/ipc/protocol.go, and the server of                    *)
(* clients/internal/ipc/server.go with its pushed events and its shutdown.    *)
(*                                                                         *)
(* A frame is written in two pieces, its head and its body; a write puts one  *)
(* piece into the socket's buffer.  The library has one connection for all    *)
(* the threads of its application and no lock (pInitArgs is ignored); the     *)
(* daemon has a goroutine for each connection, and one for each event pushed  *)
(* to a connection.  A reader that meets another piece than the one it reads  *)
(* has lost its place: from then on the bytes of that direction are torn.     *)
(***************************************************************************)
EXTENDS Naturals, Sequences, FiniteSets

CONSTANTS
    Callers,    \* the threads of the application
    Conns,      \* the connections it makes, one after the other
    NoConn,
    MaxCalls,   \* bound on the calls of ipc_call
    MaxEvents   \* bound on the broadcasts

ASSUME CallsAssumption == MaxCalls \in Nat /\ MaxEvents \in Nat
ASSUME NoConnAssumption == NoConn \notin Conns

Calls == 1 .. MaxCalls
Event == 0                  \* the frame of CmdSlotChanged

VARIABLES
    fd,         \* g_fd, the connection of the library
    call,       \* what each thread does
    conn,       \* what the goroutine of each connection does
    push,       \* the goroutine that pushes an event to a connection
    up, down,   \* the pieces in the two buffers of a connection
    torn,       \* the directions whose reader has lost its place
    left,       \* connections closed by the library
    shut,       \* connections closed by forceCloseAllConns
    daemon,     \* running, or how far GracefulStop has come
    result,     \* history: what a call took as its answer, and where
    executed,   \* history: the calls whose handler has run
    disturbed,  \* history: connections used by two threads at once, or pushed to
    calls, events

ipcVars == <<fd, call, conn, push, up, down, torn, left, shut, daemon, result,
             executed, disturbed, calls, events>>
driverVars == <<fd, call, calls>>
daemonVars == <<conn, push, shut, daemon, executed, events>>

Asked == {"head", "body"} \X Calls
Pieces == {"head", "body"} \X (Calls \cup {Event})
NoCall == [pc |-> "idle", k |-> 0, on |-> NoConn, shakes |-> FALSE, from |-> 0]
ThreadStates ==
    [pc : {"idle", "head", "body", "wait", "rest"}, k : Calls \cup {0},
     on : Conns \cup {NoConn}, shakes : BOOLEAN, from : Calls \cup {Event}]
\* "bad" is a frame whose body was not its own.
ConnStates ==
    [pc : {"none", "queued", "accepted", "read", "check", "run", "head", "body", "closed"},
     k : Calls \cup {0}, bad : BOOLEAN]
NoFrame(pc) == [pc |-> pc, k |-> 0, bad |-> FALSE]

IpcInit ==
    /\ fd = NoConn
    /\ call = [t \in Callers |-> NoCall]
    /\ conn = [c \in Conns |-> NoFrame("none")]
    /\ push = [c \in Conns |-> "none"]
    /\ up = [c \in Conns |-> <<>>] /\ down = [c \in Conns |-> <<>>]
    /\ torn = {} /\ left = {} /\ shut = {}
    /\ daemon = "running"
    /\ result = [k \in Calls |-> [got |-> "none", on |-> NoConn]]
    /\ executed = {} /\ disturbed = {}
    /\ calls = 0 /\ events = 0

\* conns of the server: trackConn to untrackConn.
Tracked == {c \in Conns : conn[c].pc \in {"read", "check", "run", "head", "body"}}
Closed(c) == conn[c].pc = "closed" \/ c \in shut

----------------------------------------------------------------------------
\* The library

Starts(t, c, shakes) ==
    /\ call[t] = NoCall /\ calls < MaxCalls
    /\ calls' = calls + 1
    /\ call' = [call EXCEPT ![t] = [NoCall EXCEPT
                    !.pc = "head", !.k = calls + 1, !.on = c, !.shakes = shakes]]

\* C_Initialize: connect waits for nobody to accept; the handshake is a call.
Initialize(t, c) ==
    /\ fd = NoConn /\ conn[c].pc = "none" /\ daemon = "running"
    /\ Starts(t, c, TRUE)
    /\ fd' = c
    /\ conn' = [conn EXCEPT ![c] = NoFrame("queued")]
    /\ UNCHANGED <<push, up, down, torn, left, shut, daemon, result, executed,
                   disturbed, events>>

\* Any other C_ function.
BeginCall(t) ==
    /\ fd # NoConn
    /\ \A s \in Callers : ~call[s].shakes
    /\ Starts(t, fd, FALSE)
    /\ disturbed' = IF \E s \in Callers : call[s].on = fd
                    THEN disturbed \cup {fd} ELSE disturbed
    /\ UNCHANGED <<fd, daemonVars, up, down, torn, left, result>>

\* A handshake that the daemon refuses, or seems to refuse, drops the
\* connection; one that gets no answer is taken for an old daemon.
Ends(t, got) ==
    LET refused == call[t].shakes /\ got \notin {"failed", "answered"}
    IN  /\ call' = [call EXCEPT ![t] = NoCall]
        /\ result' = [result EXCEPT ![call[t].k] = [got |-> got, on |-> call[t].on]]
        /\ fd' = IF refused THEN NoConn ELSE fd
        /\ left' = IF refused THEN left \cup {call[t].on} ELSE left

Got(t, from) ==
    IF from = call[t].k THEN "answered" ELSE IF from = Event THEN "event" ELSE "other"

\* ipc_send_frame: two writes.
Send(t) ==
    /\ call[t].pc \in {"head", "body"}
    /\ LET c == call[t].on
       IN  \/ /\ Closed(c) /\ Ends(t, "failed")
              /\ UNCHANGED up
           \/ /\ ~Closed(c)
              /\ up' = [up EXCEPT ![c] = Append(@, <<call[t].pc, call[t].k>>)]
              /\ call' = [call EXCEPT ![t] = [@ EXCEPT
                        !.pc = IF call[t].pc = "head" THEN "body" ELSE "wait"]]
              /\ UNCHANGED <<fd, left, result>>
    /\ UNCHANGED <<calls, daemonVars, down, torn, disturbed>>

\* ipc_recv_frame: the next 12 bytes are a head, whoever's it is.
ReceiveHead(t) ==
    /\ call[t].pc = "wait"
    /\ LET c == call[t].on
           fits == down[c] # <<>> /\ Head(down[c])[1] = "head" /\ <<"down", c>> \notin torn
       IN  \/ /\ fits
              /\ call' = [call EXCEPT ![t] = [@ EXCEPT
                            !.pc = "rest", !.from = Head(down[c])[2]]]
              /\ UNCHANGED <<fd, left, result, torn>>
              /\ down' = [down EXCEPT ![c] = Tail(@)]
           \/ /\ down[c] # <<>> /\ ~fits
              /\ Ends(t, "failed")
              /\ torn' = torn \cup {<<"down", c>>}
              /\ down' = [down EXCEPT ![c] = Tail(@)]
           \/ /\ down[c] = <<>> /\ Closed(c)
              /\ Ends(t, "failed")
              /\ UNCHANGED <<torn, down>>
    /\ UNCHANGED <<calls, daemonVars, up, disturbed>>

\* The next bytes are the body, whoever's they are; an answer without "rv" is a
\* general error.  ipc_call does not look at the command of the frame.
ReceiveRest(t) ==
    /\ call[t].pc = "rest"
    /\ LET c == call[t].on
           fits == /\ down[c] # <<>> /\ Head(down[c]) = <<"body", call[t].from>>
                   /\ <<"down", c>> \notin torn
       IN  \/ /\ fits
              /\ Ends(t, Got(t, call[t].from))
              /\ down' = [down EXCEPT ![c] = Tail(@)]
              /\ UNCHANGED torn
           \/ /\ down[c] # <<>> /\ ~fits
              /\ \/ Ends(t, "garbled")
                 \/ UNCHANGED <<call, fd, left, result>>   \* and waits for more
              /\ torn' = torn \cup {<<"down", c>>}
              /\ down' = [down EXCEPT ![c] = Tail(@)]
           \/ /\ down[c] = <<>> /\ Closed(c)
              /\ Ends(t, "failed")
              /\ UNCHANGED <<torn, down>>
    /\ UNCHANGED <<calls, daemonVars, up, disturbed>>

\* C_Finalize, with no call under way.
Finalize ==
    /\ fd # NoConn /\ \A t \in Callers : call[t] = NoCall
    /\ fd' = NoConn /\ left' = left \cup {fd}
    /\ UNCHANGED <<call, calls, daemonVars, up, down, torn, result, disturbed>>

----------------------------------------------------------------------------
\* The daemon

\* acceptLoop: Accept has returned, then trackConn and the goroutine.
Accept(c) ==
    /\ conn[c].pc = "queued" /\ daemon = "running"
    /\ conn' = [conn EXCEPT ![c] = [@ EXCEPT !.pc = "accepted"]]
    /\ UNCHANGED <<driverVars, push, up, down, torn, left, shut, daemon, result,
                   executed, disturbed, events>>

Track(c) ==
    /\ conn[c].pc = "accepted"
    /\ conn' = [conn EXCEPT ![c] = [@ EXCEPT !.pc = "read"]]
    /\ UNCHANGED <<driverVars, push, up, down, torn, left, shut, daemon, result,
                   executed, disturbed, events>>

\* handleConn returns: Close, untrackConn.
Leaves(c) == conn' = [conn EXCEPT ![c] = NoFrame("closed")]

\* ReadFrame: a head and the bytes after it; a bad head ends the connection, bytes
\* that are not its body are a malformed request.
ReadFrame(c) ==
    /\ conn[c].pc = "read"
    /\ LET whole == Len(up[c]) >= 2 /\ c \notin shut
           lost == whole => (<<"up", c>> \in torn \/ up[c][1][1] # "head")
           bad == whole => up[c][2] # <<"body", up[c][1][2]>>
       IN  \/ /\ whole /\ ~lost
              /\ conn' = [conn EXCEPT ![c] = [pc |-> "check", k |-> up[c][1][2], bad |-> bad]]
              /\ up' = [up EXCEPT ![c] = Tail(Tail(@))]
              /\ torn' = IF bad THEN torn \cup {<<"up", c>>} ELSE torn
           \/ /\ (whole /\ lost) \/ c \in shut \/ (c \in left /\ ~whole)
              /\ Leaves(c)
              /\ UNCHANGED <<up, torn>>
    /\ UNCHANGED <<driverVars, push, down, left, shut, daemon, result, executed,
                   disturbed, events>>

TimesOutInFrame(c) ==
    /\ conn[c].pc = "read" /\ Len(up[c]) = 1
    /\ Leaves(c)
    /\ UNCHANGED <<driverVars, push, up, down, torn, left, shut, daemon, result,
                   executed, disturbed, events>>

\* The read deadline of 60 seconds: no frame has come, or not all the bytes that a
\* head asked for.
IdleTimeout(c) ==
    /\ conn[c].pc = "read"
    /\ Len(up[c]) >= 2 => up[c][2] # <<"body", up[c][1][2]>>
    /\ Leaves(c)
    /\ UNCHANGED <<driverVars, push, up, down, torn, left, shut, daemon, result,
                   executed, disturbed, events>>

ChecksNothing(c) ==
    /\ conn[c].pc = "check"
    /\ conn' = [conn EXCEPT ![c] = [@ EXCEPT !.pc = "run"]]
    /\ UNCHANGED <<driverVars, push, up, down, torn, left, shut, daemon, result,
                   executed, disturbed, events>>

AnswersAnyway(c) ==
    /\ conn[c].pc = "check"
    /\ conn' = [conn EXCEPT ![c] = [@ EXCEPT !.pc = IF daemon = "running" THEN "run" ELSE "head"]]
    /\ UNCHANGED <<driverVars, push, up, down, torn, left, shut, daemon, result,
                   executed, disturbed, events>>

\* <-s.done: a request read while the daemon stops is not executed.
CheckDone(c) ==
    /\ conn[c].pc = "check"
    /\ \/ daemon = "running" /\ conn' = [conn EXCEPT ![c] = [@ EXCEPT !.pc = "run"]]
       \/ daemon # "running" /\ Leaves(c)
    /\ UNCHANGED <<driverVars, push, up, down, torn, left, shut, daemon, result,
                   executed, disturbed, events>>

Execute(c) ==
    /\ conn[c].pc = "run"
    /\ executed' = IF conn[c].bad THEN executed ELSE executed \cup {conn[c].k}
    /\ conn' = [conn EXCEPT ![c] = [@ EXCEPT !.pc = "head"]]
    /\ UNCHANGED <<driverVars, push, up, down, torn, left, shut, daemon, result,
                   disturbed, events>>

\* WriteResponse, in the two writes of WriteFrame.
Write(c) ==
    /\ conn[c].pc \in {"head", "body"}
    /\ \/ /\ c \in shut \cup left
          /\ Leaves(c) /\ UNCHANGED down
       \/ /\ c \notin shut \cup left
          /\ down' = [down EXCEPT ![c] = Append(@, <<conn[c].pc, conn[c].k>>)]
          /\ conn' = [conn EXCEPT ![c] =
                         IF @.pc = "head" THEN [@ EXCEPT !.pc = "body"] ELSE NoFrame("read")]
    /\ UNCHANGED <<driverVars, push, up, torn, left, shut, daemon, result,
                   executed, disturbed, events>>

\* BroadcastSlotChanged, called by a REST handler: the connections of that moment
\* (bound: one broadcast at a time).
Broadcast ==
    /\ daemon # "exited" /\ events < MaxEvents
    /\ \A c \in Conns : push[c] = "none"
    /\ events' = events + 1
    /\ push' = [c \in Conns |-> IF c \in Tracked THEN "head" ELSE push[c]]
    /\ disturbed' = disturbed \cup Tracked
    /\ UNCHANGED <<driverVars, conn, up, down, torn, left, shut, daemon, result, executed>>

PushFrame(c) ==
    /\ push[c] # "none"
    /\ \/ /\ Closed(c) \/ c \in left
          /\ push' = [push EXCEPT ![c] = "none"] /\ UNCHANGED down
       \/ /\ ~Closed(c) /\ c \notin left
          /\ down' = [down EXCEPT ![c] = Append(@, <<push[c], Event>>)]
          /\ push' = [push EXCEPT ![c] = IF @ = "head" THEN "body" ELSE "none"]
    /\ UNCHANGED <<driverVars, conn, up, torn, left, shut, daemon, result, executed,
                   disturbed, events>>

----------------------------------------------------------------------------
\* GracefulStop; then the process ends.

Stop ==
    /\ daemon = "running" /\ daemon' = "stopping"
    /\ conn' = [c \in Conns |-> IF conn[c].pc = "queued" THEN NoFrame("closed") ELSE conn[c]]
    /\ UNCHANGED <<driverVars, push, up, down, torn, left, shut, result, executed,
                   disturbed, events>>

\* wg.Wait has returned.
Drain ==
    /\ daemon = "stopping" /\ Tracked = {}
    /\ daemon' = "drained"
    /\ UNCHANGED <<driverVars, conn, push, up, down, torn, left, shut, result, executed,
                   disturbed, events>>

\* time.After(maxWait) was first.
ForceClose ==
    /\ daemon = "stopping"
    /\ daemon' = "forced" /\ shut' = shut \cup Tracked
    /\ UNCHANGED <<driverVars, conn, push, up, down, torn, left, result, executed,
                   disturbed, events>>

Exit ==
    /\ daemon \in {"drained", "forced"}
    /\ daemon' = "exited"
    /\ conn' = [c \in Conns |-> IF conn[c].pc = "none" THEN conn[c] ELSE NoFrame("closed")]
    /\ push' = [c \in Conns |-> "none"]
    /\ UNCHANGED <<driverVars, up, down, torn, left, shut, result, executed,
                   disturbed, events>>

----------------------------------------------------------------------------
Thread(t) == Send(t) \/ ReceiveHead(t) \/ ReceiveRest(t)
Serve(c) == \/ Accept(c) \/ Track(c) \/ ReadFrame(c) \/ CheckDone(c)
            \/ Execute(c) \/ Write(c)

IpcNext ==
    \/ \E t \in Callers : BeginCall(t) \/ Thread(t) \/ \E c \in Conns : Initialize(t, c)
    \/ Finalize
    \/ \E c \in Conns : Serve(c) \/ IdleTimeout(c) \/ PushFrame(c)
    \/ Broadcast \/ Stop \/ Drain \/ ForceClose \/ Exit

IpcSpec == IpcInit /\ [][IpcNext]_ipcVars

\* The threads run, the goroutines run, and the read deadline comes.
IpcFairSpec ==
    /\ IpcSpec
    /\ \A t \in Callers : WF_ipcVars(Thread(t))
    /\ \A c \in Conns : WF_ipcVars(Serve(c)) /\ WF_ipcVars(IdleTimeout(c)) /\ WF_ipcVars(PushFrame(c))

----------------------------------------------------------------------------
IpcTypeOK ==
    /\ fd \in Conns \cup {NoConn}
    /\ call \in [Callers -> ThreadStates] /\ conn \in [Conns -> ConnStates]
    /\ push \in [Conns -> {"none", "head", "body"}]
    /\ up \in [Conns -> Seq(Asked)] /\ down \in [Conns -> Seq(Pieces)]
    /\ torn \subseteq {"up", "down"} \X Conns
    /\ left \subseteq Conns /\ shut \subseteq Conns /\ disturbed \subseteq Conns
    /\ daemon \in {"running", "stopping", "drained", "forced", "exited"}
    /\ result \in [Calls ->
                    [got : {"none", "answered", "event", "other", "garbled", "failed"},
                     on : Conns \cup {NoConn}]]
    /\ \A c \in Conns : conn[c].pc \in {"check", "run", "head", "body"} => conn[c].k \in Calls
    /\ executed \subseteq Calls /\ calls \in 0 .. MaxCalls /\ events \in 0 .. MaxEvents

\* A call ends with its own answer, which only its executed handler has written, or
\* fails because the connection was closed.  Another frame, or bytes that are no frame,
\* are taken for the answer only where two threads shared the connection or an event was
\* pushed (ipc_client.c:270-303, server.go:206-226, :296, protocol.go:123-130).
AnswersExplained ==
    /\ \A c \in Conns : c \notin disturbed =>
            /\ \A side \in {"up", "down"} : <<side, c>> \notin torn
            /\ \A t \in Callers : call[t].on = c /\ call[t].pc = "rest" =>
                    call[t].from = call[t].k
    /\ \A k \in Calls : result[k].on \notin disturbed =>
            /\ result[k].got = "answered" => k \in executed
            /\ result[k].got = "failed" => Closed(result[k].on)
            /\ result[k].got \in {"none", "answered", "failed"}

\* Once GracefulStop has found every connection ended no handler runs any more, even on
\* a connection that was accepted before and is tracked after (server.go:123-137,
\* :185, :249-254).
DrainedIsQuiet ==
    daemon = "drained" => \A c \in Conns : conn[c].pc \notin {"run", "head", "body"}

\* Every call returns: its answer comes, or another thread takes it or the place in the
\* stream is lost and the daemon's read deadline ends the connection (server.go:240,
\* ipc_client.c:88-112, which waits without a limit).
CallsReturn ==
    \A t \in Callers : call[t].pc # "idle" ~> call[t].pc = "idle"

\* An event is not the answer of a call: protocol.go:66-68, "该事件不需要请求/响应配对".
EventsAreNotAnswers == \A k \in Calls : result[k].got # "event"
=============================================================================
