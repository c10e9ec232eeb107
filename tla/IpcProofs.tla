------------------------------ MODULE IpcProofs ------------------------------
(***************************************************************************)
(* Proofs about the two halves of clients/internal/ipc.  IpcChannel, for any    *)
(* number of threads, connections, calls and events; then SessionOperations, *)
(* for any number of threads, sessions, certificates, logins and operations. *)
(***************************************************************************)
EXTENDS IpcChannel, SessionOperations, SequenceTheorems, TLAPS

----------------------------------------------------------------------------
(* The library: its threads use one connection, g_fd. *)

\* A thread in a call uses the connection of that moment.
UsesFd ==
    \A t \in Callers :
        \/ call[t] = NoCall
        \/ call[t].pc # "idle" /\ call[t].k \in Calls /\ call[t].on = fd /\ fd \in Conns

\* During a handshake no other thread is in a call.
ShakesAlone ==
    \A s, t \in Callers : call[s].shakes /\ s # t => call[t] = NoCall

\* Two threads in a call have disturbed the connection, and so has an event, which is
\* pushed to open connections.
Disturbing ==
    /\ \A s, t \in Callers : s # t /\ call[s] # NoCall /\ call[t] # NoCall => fd \in disturbed
    /\ \A c \in Conns : push[c] # "none" => c \in disturbed /\ conn[c].pc # "none"

\* What was never opened has nothing in it.
Unopened ==
    \A c \in Conns : conn[c].pc = "none" => up[c] = <<>> /\ down[c] = <<>> /\ fd # c

----------------------------------------------------------------------------
(* A connection that was never disturbed: where the frames of a call are. *)

Quiet(c) == conn[c].pc \in {"none", "queued", "accepted", "read"}

\* Nobody waits for an answer: none is under way.
AtRest(c) == down[c] = <<>> /\ (Closed(c) \/ (up[c] = <<>> /\ Quiet(c)))

\* The answer of a call, as far as it has been written and not been read.
Answering(c, w) ==
    LET head == <<"head", w.k>>
        body == <<"body", w.k>>
    IN  /\ w.pc \in {"head", "body"} => down[c] = <<>>
        /\ w.pc = "wait" => down[c] \in {<<>>, <<head>>, <<head, body>>}
        /\ w.pc = "rest" => w.from = w.k /\ down[c] \in {<<>>, <<body>>}
        /\ w.pc = "rest" \/ down[c] # <<>> => w.k \in executed

\* The request of a call, as far as it has been written and not been read; then the
\* goroutine that handles it, and its answer.
Asking(c, w) ==
    LET head == <<"head", w.k>>
        body == <<"body", w.k>>
    IN  /\ w.pc = "head" => up[c] = <<>> /\ Quiet(c)
        /\ w.pc = "body" => up[c] = <<head>> /\ Quiet(c)
        /\ w.pc = "wait" =>
              \/ up[c] = <<head, body>> /\ Quiet(c) /\ down[c] = <<>>
              \/ /\ up[c] = <<>> /\ down[c] = <<>> /\ conn[c].k = w.k
                 /\ conn[c].pc \in {"check", "run", "head"}
              \/ up[c] = <<>> /\ down[c] = <<head>> /\ conn[c].k = w.k /\ conn[c].pc = "body"
              \/ up[c] = <<>> /\ down[c] = <<head, body>> /\ Quiet(c)
        /\ w.pc = "rest" =>
              \/ up[c] = <<>> /\ down[c] = <<>> /\ conn[c].k = w.k /\ conn[c].pc = "body"
              \/ up[c] = <<>> /\ down[c] = <<body>> /\ Quiet(c)

Clean(c) ==
    /\ <<"up", c>> \notin torn /\ <<"down", c>> \notin torn
    /\ ~conn[c].bad
    /\ conn[c].pc \in {"head", "body"} => conn[c].k \in executed
    /\ (\A t \in Callers : call[t].on # c) => AtRest(c)
    /\ \A t \in Callers : call[t].on = c =>
          Answering(c, call[t]) /\ (Closed(c) \/ Asking(c, call[t]))

Streams == \A c \in Conns \ disturbed : Clean(c)

\* A call that has ended was on a connection.
Ended ==
    \A k \in Calls :
        /\ result[k].got # "none" => result[k].on \in Conns
        /\ result[k].on \notin disturbed =>
            /\ result[k].got = "answered" => k \in executed
            /\ result[k].got = "failed" => Closed(result[k].on)
            /\ result[k].got \in {"none", "answered", "failed"}

IpcInv == /\ IpcTypeOK /\ UsesFd /\ ShakesAlone /\ Disturbing /\ Unopened
          /\ Streams /\ Ended /\ DrainedIsQuiet

----------------------------------------------------------------------------
(* Pieces in a row. *)

LEMMA OnePiece ==
  ASSUME NEW x
  PROVE  <<x>> # <<>> /\ Len(<<x>>) = 1 /\ Head(<<x>>) = x /\ Tail(<<x>>) = <<>>
            /\ Append(<<>>, x) = <<x>>
  OBVIOUS

LEMMA TwoPieces ==
  ASSUME NEW x, NEW y
  PROVE  /\ <<x, y>> # <<>> /\ Len(<<x, y>>) = 2 /\ <<x, y>>[1] = x /\ <<x, y>>[2] = y
         /\ Head(<<x, y>>) = x /\ Tail(<<x, y>>) = <<y>> /\ Tail(Tail(<<x, y>>)) = <<>>
         /\ Append(<<x>>, y) = <<x, y>>
<1> DEFINE S == {x, y}
<1>1. <<x>> \in Seq(S) /\ y \in S /\ <<x, y>> \in Seq(S)
  OBVIOUS
<1>2. /\ Len(<<x>>) = 1 /\ <<x>>[1] = x
      /\ Len(<<x, y>>) = 2 /\ <<x, y>>[1] = x /\ <<x, y>>[2] = y
  OBVIOUS
<1>3. /\ Append(<<x>>, y) \in Seq(S) /\ Len(Append(<<x>>, y)) = 2
      /\ Append(<<x>>, y)[1] = x /\ Append(<<x>>, y)[2] = y
  BY <1>1, <1>2, AppendProperties
<1>4. \A i \in 1 .. 2 : Append(<<x>>, y)[i] = <<x, y>>[i]
  BY <1>2, <1>3
<1>5. Append(<<x>>, y) = <<x, y>>
  BY <1>1, <1>2, <1>3, <1>4, SeqEqual
<1>6. Head(<<x, y>>) = x /\ Tail(<<x, y>>) = <<y>> /\ Tail(<<y>>) = <<>>
  OBVIOUS
<1> QED BY <1>2, <1>5, <1>6

----------------------------------------------------------------------------
(* Types. *)

LEMMA InitTypes == IpcInit => IpcTypeOK
  BY CallsAssumption, NoConnAssumption
  DEF IpcInit, IpcTypeOK, NoCall, ThreadStates, ConnStates, NoFrame, Calls, Event, Asked, Pieces

LEMMA ThreadMoves ==
  ASSUME NEW w \in ThreadStates, NEW f \in Calls \cup {Event},
         NEW p \in {"head", "body", "wait", "rest"}
  PROVE  [w EXCEPT !.pc = p] \in ThreadStates
            /\ [w EXCEPT !.pc = p, !.from = f] \in ThreadStates
  BY DEF ThreadStates

LEMMA ConnMoves ==
  ASSUME NEW w \in ConnStates,
         NEW p \in {"none", "queued", "accepted", "read", "check", "run", "head", "body", "closed"}
  PROVE  [w EXCEPT !.pc = p] \in ConnStates /\ NoFrame(p) \in ConnStates
  BY DEF ConnStates, NoFrame

LEMMA StartsTypes ==
  ASSUME IpcTypeOK, NEW t \in Callers, NEW c \in Conns, NEW b \in BOOLEAN, Starts(t, c, b)
  PROVE  /\ call' \in [Callers -> ThreadStates] /\ calls' \in 0 .. MaxCalls
         /\ calls + 1 \in Calls
<1>1. calls + 1 \in Calls /\ calls' \in 0 .. MaxCalls
  BY CallsAssumption DEF Starts, Calls, IpcTypeOK
<1>2. [NoCall EXCEPT !.pc = "head", !.k = calls + 1, !.on = c, !.shakes = b] \in ThreadStates
  BY <1>1 DEF NoCall, ThreadStates, Event
<1> QED BY <1>1, <1>2 DEF Starts, IpcTypeOK

LEMMA EndsTypes ==
  ASSUME IpcTypeOK, UsesFd, NEW t \in Callers, call[t] # NoCall,
         NEW got \in {"answered", "event", "other", "garbled", "failed"}, Ends(t, got)
  PROVE  /\ call' \in [Callers -> ThreadStates] /\ fd' \in Conns \cup {NoConn}
         /\ left' \subseteq Conns
         /\ result' \in [Calls ->
              [got : {"none", "answered", "event", "other", "garbled", "failed"},
               on : Conns \cup {NoConn}]]
<1>1. NoCall \in ThreadStates
  BY DEF NoCall, ThreadStates, Event
<1>2. call[t].on \in Conns /\ call[t].k \in Calls
  BY DEF UsesFd
<1> QED BY <1>1, <1>2 DEF Ends, IpcTypeOK

LEMMA NextTypes == IpcTypeOK /\ UsesFd /\ [IpcNext]_ipcVars => IpcTypeOK'
<1> SUFFICES ASSUME IpcTypeOK, UsesFd, [IpcNext]_ipcVars PROVE IpcTypeOK'
  OBVIOUS
<1>1. ASSUME NEW t \in Callers, BeginCall(t) PROVE IpcTypeOK'
  <2>1. fd \in Conns
    BY <1>1 DEF BeginCall, IpcTypeOK
  <2>2. call' \in [Callers -> ThreadStates] /\ calls' \in 0 .. MaxCalls
    BY <1>1, <2>1, StartsTypes DEF BeginCall
  <2> QED BY <1>1, <2>1, <2>2 DEF BeginCall, daemonVars, IpcTypeOK
<1>2. ASSUME NEW t \in Callers, NEW c \in Conns, Initialize(t, c) PROVE IpcTypeOK'
  <2>1. call' \in [Callers -> ThreadStates] /\ calls' \in 0 .. MaxCalls
    BY <1>2, StartsTypes DEF Initialize
  <2>2. NoFrame("queued") \in ConnStates /\ NoFrame("queued").pc = "queued"
    BY DEF NoFrame, ConnStates
  <2>3. conn' \in [Conns -> ConnStates] /\ fd' \in Conns
    BY <1>2, <2>2 DEF Initialize, IpcTypeOK
  <2>4. \A d \in Conns : conn'[d].pc \in {"check", "run", "head", "body"} => conn'[d].k \in Calls
    BY <1>2, <2>2 DEF Initialize, IpcTypeOK
  <2> QED BY <1>2, <2>1, <2>3, <2>4 DEF Initialize, IpcTypeOK
<1>3. ASSUME NEW t \in Callers, Send(t) PROVE IpcTypeOK'
  <2>1. call[t] # NoCall
    BY <1>3 DEF Send, NoCall
  <2> DEFINE c == call[t].on
  <2>2. CASE Closed(c)
    BY <1>3, <2>1, <2>2, EndsTypes DEF Send, daemonVars, IpcTypeOK
  <2>3. CASE ~Closed(c)
    <3>1. c \in Conns /\ call[t].pc \in {"head", "body"} /\ call[t].k \in Calls
      BY <1>3, <2>1 DEF UsesFd, Send
    <3>2. <<call[t].pc, call[t].k>> \in Asked
      BY <3>1 DEF Asked
    <3>3. Append(up[c], <<call[t].pc, call[t].k>>) \in Seq(Asked)
      BY <3>1, <3>2, AppendProperties DEF IpcTypeOK
    <3>4. up' \in [Conns -> Seq(Asked)]
      BY <1>3, <2>3, <3>1, <3>3 DEF Send, IpcTypeOK
    <3> DEFINE next == IF call[t].pc = "head" THEN "body" ELSE "wait"
    <3>5. [call[t] EXCEPT !.pc = next] \in ThreadStates
      BY ThreadMoves DEF IpcTypeOK, Event
    <3>6. call' = [call EXCEPT ![t] = [call[t] EXCEPT !.pc = next]]
      BY <1>3, <2>3 DEF Send
    <3>7. call' \in [Callers -> ThreadStates]
      BY <3>5, <3>6 DEF IpcTypeOK
    <3> QED BY <1>3, <2>3, <3>4, <3>7 DEF Send, daemonVars, IpcTypeOK
  <2> QED BY <2>2, <2>3
<1>4. ASSUME NEW t \in Callers, ReceiveHead(t) PROVE IpcTypeOK'
  <2> DEFINE c == call[t].on
  <2>1. call[t] # NoCall /\ c \in Conns
    BY <1>4 DEF ReceiveHead, NoCall, UsesFd
  <2>2. torn \cup {<<"down", c>>} \subseteq {"up", "down"} \X Conns
    BY <2>1 DEF IpcTypeOK
  <2>3. CASE Ends(t, "failed") /\ down' \in [Conns -> Seq(Pieces)]
    BY <1>4, <2>1, <2>2, <2>3, EndsTypes DEF ReceiveHead, daemonVars, IpcTypeOK
  <2>4. down[c] # <<>> => Tail(down[c]) \in Seq(Pieces) /\ Head(down[c]) \in Pieces
    BY <2>1, HeadTailProperties DEF IpcTypeOK
  <2>5. down' \in [Conns -> Seq(Pieces)]
    BY <1>4, <2>1, <2>4 DEF ReceiveHead, IpcTypeOK
  <2>6. CASE ~Ends(t, "failed")
    <3>1. Head(down[c])[2] \in Calls \cup {Event}
      BY <1>4, <2>4, <2>6 DEF ReceiveHead, Pieces
    <3>2. [call[t] EXCEPT !.pc = "rest", !.from = Head(down[c])[2]] \in ThreadStates
      BY <3>1, ThreadMoves DEF IpcTypeOK
    <3>3. call' = [call EXCEPT ![t] =
                     [call[t] EXCEPT !.pc = "rest", !.from = Head(down[c])[2]]]
      BY <1>4, <2>6 DEF ReceiveHead
    <3>4. call' \in [Callers -> ThreadStates]
      BY <3>2, <3>3 DEF IpcTypeOK
    <3> QED BY <1>4, <2>5, <2>6, <3>4 DEF ReceiveHead, daemonVars, IpcTypeOK
  <2> QED BY <2>3, <2>5, <2>6
<1>5. ASSUME NEW t \in Callers, ReceiveRest(t) PROVE IpcTypeOK'
  <2> DEFINE c == call[t].on
  <2>1. call[t] # NoCall /\ c \in Conns
    BY <1>5 DEF ReceiveRest, NoCall, UsesFd
  <2>2. torn \cup {<<"down", c>>} \subseteq {"up", "down"} \X Conns
    BY <2>1 DEF IpcTypeOK
  <2>3. down[c] # <<>> => Tail(down[c]) \in Seq(Pieces)
    BY <2>1, HeadTailProperties DEF IpcTypeOK
  <2>4. down' \in [Conns -> Seq(Pieces)]
    BY <1>5, <2>1, <2>3 DEF ReceiveRest, IpcTypeOK
  <2>5. Got(t, call[t].from) \in {"answered", "event", "other"}
    BY DEF Got
  <2>6. \/ \E got \in {"answered", "event", "other", "garbled", "failed"} : Ends(t, got)
        \/ UNCHANGED <<call, fd, left, result>>
    BY <1>5, <2>5 DEF ReceiveRest
  <2>7. /\ call' \in [Callers -> ThreadStates] /\ fd' \in Conns \cup {NoConn}
        /\ left' \subseteq Conns
        /\ result' \in [Calls ->
             [got : {"none", "answered", "event", "other", "garbled", "failed"},
              on : Conns \cup {NoConn}]]
    BY <2>1, <2>6, EndsTypes DEF IpcTypeOK
  <2> QED BY <1>5, <2>2, <2>4, <2>7 DEF ReceiveRest, daemonVars, IpcTypeOK
<1>6. CASE Finalize
  BY <1>6 DEF Finalize, daemonVars, IpcTypeOK
<1>7. ASSUME NEW c \in Conns, Accept(c) \/ Track(c) \/ CheckDone(c) \/ IdleTimeout(c) PROVE IpcTypeOK'
  <2>1. conn[c] \in ConnStates /\ (conn[c].pc = "check" => conn[c].k \in Calls)
    BY DEF IpcTypeOK
  <2>2. PICK w \in ConnStates : conn' = [conn EXCEPT ![c] = w]
                              /\ (w.pc \in {"check", "run", "head", "body"} => w.k \in Calls)
    <3>1. CASE Accept(c)
      <4>1. [conn[c] EXCEPT !.pc = "accepted"] \in ConnStates
               /\ [conn[c] EXCEPT !.pc = "accepted"].pc = "accepted"
        BY <2>1 DEF ConnStates
      <4> QED BY <3>1, <4>1 DEF Accept
    <3>2. CASE Track(c)
      <4>1. [conn[c] EXCEPT !.pc = "read"] \in ConnStates
               /\ [conn[c] EXCEPT !.pc = "read"].pc = "read"
        BY <2>1 DEF ConnStates
      <4> QED BY <3>2, <4>1 DEF Track
    <3>3. CASE CheckDone(c) /\ daemon = "running"
      <4>1. [conn[c] EXCEPT !.pc = "run"] \in ConnStates
        BY <2>1, ConnMoves
      <4>2. [conn[c] EXCEPT !.pc = "run"].k \in Calls
        BY <2>1, <3>3 DEF CheckDone, ConnStates
      <4> QED BY <3>3, <4>1, <4>2 DEF CheckDone
    <3>4. CASE Leaves(c)
      <4>1. NoFrame("closed") \in ConnStates
        BY ConnMoves, <2>1
      <4> QED BY <3>4, <4>1 DEF Leaves, NoFrame
    <3> QED BY <1>7, <3>1, <3>2, <3>3, <3>4 DEF CheckDone, IdleTimeout
  <2>3. conn' \in [Conns -> ConnStates]
    BY <2>2 DEF IpcTypeOK
  <2>4. \A d \in Conns : conn'[d].pc \in {"check", "run", "head", "body"} => conn'[d].k \in Calls
    BY <2>2 DEF IpcTypeOK
  <2> QED BY <1>7, <2>3, <2>4 DEF Accept, Track, CheckDone, IdleTimeout, driverVars, IpcTypeOK
<1>8. ASSUME NEW c \in Conns, ReadFrame(c) PROVE IpcTypeOK'
  <2> DEFINE bad == up[c][2] # <<"body", up[c][1][2]>>
  <2>1. CASE Leaves(c) /\ UNCHANGED <<up, torn>>
    <3>1. NoFrame("closed") \in ConnStates /\ NoFrame("closed").pc = "closed"
      BY DEF NoFrame, ConnStates
    <3>2. conn' \in [Conns -> ConnStates]
      BY <2>1, <3>1 DEF Leaves, IpcTypeOK
    <3>3. \A d \in Conns : conn'[d].pc \in {"check", "run", "head", "body"} => conn'[d].k \in Calls
      BY <2>1, <3>1 DEF Leaves, IpcTypeOK
    <3> QED BY <1>8, <2>1, <3>2, <3>3 DEF ReadFrame, driverVars, IpcTypeOK
  <2>2. CASE /\ Len(up[c]) >= 2
             /\ conn' = [conn EXCEPT ![c] = [pc |-> "check", k |-> up[c][1][2], bad |-> bad]]
             /\ up' = [up EXCEPT ![c] = Tail(Tail(@))]
             /\ torn' = IF bad THEN torn \cup {<<"up", c>>} ELSE torn
    <3>1. up[c] \in Seq(Asked) /\ up[c] # <<>> /\ Len(up[c]) \in Nat
      BY <2>2, LenProperties DEF IpcTypeOK
    <3>2. Tail(up[c]) \in Seq(Asked) /\ Len(Tail(up[c])) = Len(up[c]) - 1
      BY <3>1, HeadTailProperties
    <3>3. Tail(up[c]) # <<>>
      <4>1. Len(Tail(up[c])) # 0
        BY <2>2, <3>1, <3>2
      <4>2. Len(<<>>) = 0
        OBVIOUS
      <4> QED BY <4>1, <4>2
    <3>4. Tail(Tail(up[c])) \in Seq(Asked)
      BY <3>2, <3>3, HeadTailProperties
    <3>5. up[c][1] \in Asked
      BY <2>2, <3>1, ElementOfSeq
    <3>6. up[c][1][2] \in Calls /\ bad \in BOOLEAN
      BY <3>5 DEF Asked
    <3> DEFINE w == [pc |-> "check", k |-> up[c][1][2], bad |-> bad]
    <3>7. w \in ConnStates /\ w.k \in Calls
      BY <3>6 DEF ConnStates
    <3>8. conn' = [conn EXCEPT ![c] = w]
      BY <2>2
    <3> HIDE DEF w
    <3>9. conn' \in [Conns -> ConnStates]
      BY <3>7, <3>8 DEF IpcTypeOK
    <3>10. \A d \in Conns : conn'[d].pc \in {"check", "run", "head", "body"} => conn'[d].k \in Calls
      BY <3>7, <3>8 DEF IpcTypeOK
    <3>11. torn' \subseteq {"up", "down"} \X Conns
      BY <2>2 DEF IpcTypeOK
    <3>12. up' \in [Conns -> Seq(Asked)]
      BY <2>2, <3>4 DEF IpcTypeOK
    <3> QED BY <1>8, <3>9, <3>10, <3>11, <3>12 DEF ReadFrame, driverVars, IpcTypeOK
  <2> QED BY <1>8, <2>1, <2>2 DEF ReadFrame
<1>9. ASSUME NEW c \in Conns, Execute(c) PROVE IpcTypeOK'
  <2>1. conn[c] \in ConnStates /\ conn[c].k \in Calls
    BY <1>9 DEF IpcTypeOK, Execute
  <2> DEFINE w == [conn[c] EXCEPT !.pc = "head"]
  <2>2. w \in ConnStates /\ w.k \in Calls
    BY <2>1 DEF ConnStates
  <2>3. conn' = [conn EXCEPT ![c] = w]
    BY <1>9 DEF Execute
  <2> HIDE DEF w
  <2>4. conn' \in [Conns -> ConnStates]
    BY <2>2, <2>3 DEF IpcTypeOK
  <2>5. \A d \in Conns : conn'[d].pc \in {"check", "run", "head", "body"} => conn'[d].k \in Calls
    BY <2>2, <2>3 DEF IpcTypeOK
  <2>6. executed' \subseteq Calls
    BY <1>9, <2>1 DEF Execute, IpcTypeOK
  <2> QED BY <1>9, <2>4, <2>5, <2>6 DEF Execute, driverVars, IpcTypeOK
<1>10. ASSUME NEW c \in Conns, Write(c) PROVE IpcTypeOK'
  <2>1. conn[c] \in ConnStates /\ conn[c].k \in Calls /\ down[c] \in Seq(Pieces)
    BY <1>10 DEF IpcTypeOK, Write
  <2>2. PICK w \in ConnStates : conn' = [conn EXCEPT ![c] = w]
                              /\ (w.pc \in {"check", "run", "head", "body"} => w.k \in Calls)
    <3>1. [conn[c] EXCEPT !.pc = "body"] \in ConnStates /\ [conn[c] EXCEPT !.pc = "body"].k \in Calls
      BY <2>1 DEF ConnStates
    <3>2. NoFrame("closed") \in ConnStates /\ NoFrame("read") \in ConnStates
      BY DEF NoFrame, ConnStates
    <3>3. NoFrame("closed").pc = "closed" /\ NoFrame("read").pc = "read"
      BY DEF NoFrame
    <3>4. CASE Leaves(c)
      BY <3>2, <3>3, <3>4 DEF Leaves
    <3>5. CASE conn' = [conn EXCEPT ![c] = [conn[c] EXCEPT !.pc = "body"]]
      BY <3>1, <3>5
    <3>6. CASE conn' = [conn EXCEPT ![c] = NoFrame("read")]
      BY <3>2, <3>3, <3>6
    <3> QED BY <1>10, <3>4, <3>5, <3>6 DEF Write
  <2>3. conn' \in [Conns -> ConnStates]
    BY <2>2 DEF IpcTypeOK
  <2>4. \A d \in Conns : conn'[d].pc \in {"check", "run", "head", "body"} => conn'[d].k \in Calls
    BY <2>2 DEF IpcTypeOK
  <2>5. <<conn[c].pc, conn[c].k>> \in Pieces
    BY <1>10, <2>1 DEF Write, Pieces
  <2>6. Append(down[c], <<conn[c].pc, conn[c].k>>) \in Seq(Pieces)
    BY <2>1, <2>5, AppendProperties
  <2>7. down' \in [Conns -> Seq(Pieces)]
    BY <1>10, <2>6 DEF Write, IpcTypeOK
  <2> QED BY <1>10, <2>3, <2>4, <2>7 DEF Write, driverVars, IpcTypeOK
<1>11. CASE Broadcast
  <2>1. events' \in 0 .. MaxEvents
    BY <1>11, CallsAssumption DEF Broadcast, IpcTypeOK
  <2> QED BY <1>11, <2>1 DEF Broadcast, Tracked, driverVars, IpcTypeOK
<1>12. ASSUME NEW c \in Conns, PushFrame(c) PROVE IpcTypeOK'
  <2>1. <<push[c], Event>> \in Pieces /\ down[c] \in Seq(Pieces)
    BY <1>12 DEF PushFrame, Pieces, IpcTypeOK
  <2>2. Append(down[c], <<push[c], Event>>) \in Seq(Pieces)
    BY <2>1, AppendProperties
  <2>3. down' \in [Conns -> Seq(Pieces)]
    BY <1>12, <2>2 DEF PushFrame, IpcTypeOK
  <2>4. push' \in [Conns -> {"none", "head", "body"}]
    BY <1>12 DEF PushFrame, IpcTypeOK
  <2> QED BY <1>12, <2>3, <2>4 DEF PushFrame, driverVars, IpcTypeOK
<1>13. CASE Stop \/ Exit
  <2>1. NoFrame("closed") \in ConnStates /\ NoFrame("closed").pc = "closed"
    BY DEF NoFrame, ConnStates
  <2>2. conn' \in [Conns -> ConnStates]
    BY <1>13, <2>1 DEF Stop, Exit, IpcTypeOK
  <2>3. \A d \in Conns : conn'[d].pc \in {"check", "run", "head", "body"} => conn'[d].k \in Calls
    BY <1>13, <2>1, ZenonT(40) DEF Stop, Exit, IpcTypeOK
  <2>4. push' \in [Conns -> {"none", "head", "body"}]
    BY <1>13 DEF Stop, Exit, IpcTypeOK
  <2>5. daemon' \in {"running", "stopping", "drained", "forced", "exited"}
    BY <1>13 DEF Stop, Exit
  <2> QED BY <1>13, <2>2, <2>3, <2>4, <2>5 DEF Stop, Exit, driverVars, IpcTypeOK
<1>14. CASE Drain \/ ForceClose
  <2>1. Tracked \subseteq Conns
    BY DEF Tracked
  <2>2. CASE Drain
    BY <2>2 DEF Drain, driverVars, IpcTypeOK
  <2>3. CASE ForceClose
    <3>1. shut' \subseteq Conns
      BY <2>1, <2>3 DEF ForceClose, IpcTypeOK
    <3> QED BY <2>3, <3>1 DEF ForceClose, driverVars, IpcTypeOK
  <2> QED BY <1>14, <2>2, <2>3
<1>15. CASE UNCHANGED ipcVars
  BY <1>15 DEF ipcVars, IpcTypeOK
<1> QED BY <1>1, <1>2, <1>3, <1>4, <1>5, <1>6, <1>7, <1>8, <1>9, <1>10, <1>11, <1>12, <1>13, <1>14, <1>15
       DEF IpcNext, Thread, Serve

----------------------------------------------------------------------------
(* What a step of a thread in a call does. *)

Outcomes == {"answered", "event", "other", "garbled", "failed"}

\* The call goes on.
GoesOn(t) ==
    /\ UNCHANGED <<fd, left, result>>
    /\ \E w \in ThreadStates :
          /\ call' = [call EXCEPT ![t] = w]
          /\ w.pc # "idle" /\ w.on = call[t].on /\ w.k = call[t].k /\ w.shakes = call[t].shakes

LEMMA ThreadEffect ==
  ASSUME IpcTypeOK, UsesFd, NEW t \in Callers, Thread(t)
  PROVE  /\ call[t] # NoCall
         /\ call[t].on = fd /\ fd \in Conns /\ call[t].k \in Calls
         /\ GoesOn(t) \/ \E got \in Outcomes : Ends(t, got)
         /\ UNCHANGED <<calls, daemonVars, disturbed>>
<1>1. call[t] # NoCall
  <2>1. Send(t) => call[t].pc \in {"head", "body"}
    BY DEF Send
  <2>2. ReceiveHead(t) => call[t].pc = "wait"
    BY DEF ReceiveHead
  <2>3. ReceiveRest(t) => call[t].pc = "rest"
    BY DEF ReceiveRest
  <2>4. call[t].pc # "idle"
    BY <2>1, <2>2, <2>3 DEF Thread
  <2> QED BY <2>4 DEF NoCall
<1>2. call[t].on = fd /\ fd \in Conns /\ call[t].k \in Calls /\ call[t] \in ThreadStates
  BY <1>1 DEF UsesFd, IpcTypeOK
<1> DEFINE c == call[t].on
<1>3. UNCHANGED <<calls, daemonVars, disturbed>>
  <2>1. Send(t) => UNCHANGED <<calls, daemonVars, disturbed>>
    BY DEF Send
  <2>2. ReceiveHead(t) => UNCHANGED <<calls, daemonVars, disturbed>>
    BY DEF ReceiveHead
  <2>3. ReceiveRest(t) => UNCHANGED <<calls, daemonVars, disturbed>>
    BY DEF ReceiveRest
  <2> QED BY <2>1, <2>2, <2>3 DEF Thread
<1>4. GoesOn(t) \/ \E got \in Outcomes : Ends(t, got)
  <2>1. CASE Send(t) /\ ~Closed(c)
    <3> DEFINE w == [call[t] EXCEPT !.pc = IF call[t].pc = "head" THEN "body" ELSE "wait"]
    <3>1. call' = [call EXCEPT ![t] = w] /\ UNCHANGED <<fd, left, result>>
      BY <2>1 DEF Send
    <3>2. w \in ThreadStates /\ w.pc # "idle" /\ w.on = c /\ w.k = call[t].k
             /\ w.shakes = call[t].shakes
      BY <1>2 DEF ThreadStates
    <3> QED BY <3>1, <3>2 DEF GoesOn
  <2>2. CASE ReceiveHead(t) /\ ~Ends(t, "failed")
    <3> DEFINE w == [call[t] EXCEPT !.pc = "rest", !.from = Head(down[c])[2]]
    <3>1. call' = [call EXCEPT ![t] = w] /\ UNCHANGED <<fd, left, result>> /\ down[c] # <<>>
      BY <2>2 DEF ReceiveHead
    <3>2. Head(down[c]) \in Pieces
      BY <1>2, <3>1, HeadTailProperties DEF IpcTypeOK
    <3>3. Head(down[c])[2] \in Calls \cup {Event}
      BY <3>2 DEF Pieces
    <3>4. w \in ThreadStates /\ w.pc # "idle" /\ w.on = c /\ w.k = call[t].k
             /\ w.shakes = call[t].shakes
      BY <1>2, <3>3 DEF ThreadStates
    <3> QED BY <3>1, <3>4 DEF GoesOn
  <2>3. CASE ReceiveRest(t)
    <3>1. Got(t, call[t].from) \in Outcomes /\ {"garbled", "failed"} \subseteq Outcomes
      BY DEF Got, Outcomes
    <3>2. CASE UNCHANGED <<call, fd, left, result>>
      <4>1. call' = [call EXCEPT ![t] = call[t]]
        BY <3>2 DEF IpcTypeOK
      <4>2. call[t].pc # "idle"
        BY <2>3 DEF ReceiveRest
      <4> QED BY <1>2, <3>2, <4>1, <4>2 DEF GoesOn
    <3> QED BY <2>3, <3>1, <3>2 DEF ReceiveRest
  <2>4. Ends(t, "failed") => \E got \in Outcomes : Ends(t, got)
    BY DEF Outcomes
  <2> QED BY <2>1, <2>2, <2>3, <2>4 DEF Thread, Send
<1> QED BY <1>1, <1>2, <1>3, <1>4

\* It touches its own connection alone.
LEMMA ThreadTouches ==
  ASSUME IpcTypeOK, UsesFd, NEW t \in Callers, Thread(t), NEW c \in Conns, c # fd
  PROVE  /\ up'[c] = up[c] /\ down'[c] = down[c]
         /\ \A side : <<side, c>> \in torn' <=> <<side, c>> \in torn
<1>1. call[t].on = fd /\ fd \in Conns
  BY ThreadEffect
<1>2. CASE Send(t)
  BY <1>1, <1>2 DEF Send, IpcTypeOK
<1>3. CASE ReceiveHead(t)
  BY <1>1, <1>3 DEF ReceiveHead, IpcTypeOK
<1>4. CASE ReceiveRest(t)
  BY <1>1, <1>4 DEF ReceiveRest, IpcTypeOK
<1> QED BY <1>2, <1>3, <1>4 DEF Thread

----------------------------------------------------------------------------
(* The threads of the library share one connection. *)

Library == UsesFd /\ ShakesAlone /\ Disturbing /\ Unopened

LEMMA BeginKeepsLibrary ==
  ASSUME IpcTypeOK, Library, NEW t \in Callers, BeginCall(t)
  PROVE  Library'
<1> DEFINE w == [NoCall EXCEPT !.pc = "head", !.k = calls + 1, !.on = fd, !.shakes = FALSE]
<1>1. call' = [call EXCEPT ![t] = w] /\ call[t] = NoCall /\ calls + 1 \in Calls
  BY StartsTypes DEF BeginCall, Starts, Calls, IpcTypeOK
<1>2. w.pc = "head" /\ w.k = calls + 1 /\ w.on = fd /\ ~w.shakes
  BY DEF NoCall
<1>3. fd \in Conns /\ UNCHANGED <<fd, daemonVars, up, down>>
  BY <1>1 DEF BeginCall, IpcTypeOK
<1> HIDE DEF w
<1>4. \A s \in Callers : s # t => call'[s] = call[s]
  BY <1>1 DEF IpcTypeOK
<1>5. call'[t] = w
  BY <1>1 DEF IpcTypeOK
<1>6. UsesFd'
  BY <1>1, <1>2, <1>3, <1>4, <1>5 DEF Library, UsesFd
<1>7. ShakesAlone'
  BY <1>2, <1>4, <1>5 DEF BeginCall, ShakesAlone
<1>8. Disturbing'
  <2>1. \A s \in Callers : s # t /\ call[s] # NoCall => fd \in disturbed'
    BY <1>3 DEF BeginCall, Library, UsesFd
  <2>2. disturbed \subseteq disturbed'
    BY DEF BeginCall
  <2> QED BY <1>3, <1>4, <2>1, <2>2 DEF Library, Disturbing, daemonVars
<1>9. Unopened'
  BY <1>3 DEF Library, Unopened, daemonVars
<1> QED BY <1>6, <1>7, <1>8, <1>9 DEF Library

LEMMA InitializeKeepsLibrary ==
  ASSUME IpcTypeOK, Library, NEW t \in Callers, NEW c \in Conns, Initialize(t, c)
  PROVE  Library'
<1> DEFINE w == [NoCall EXCEPT !.pc = "head", !.k = calls + 1, !.on = c, !.shakes = TRUE]
<1>1. call' = [call EXCEPT ![t] = w] /\ calls + 1 \in Calls
  BY StartsTypes DEF Initialize, Starts, Calls, IpcTypeOK
<1>2. w.pc = "head" /\ w.k = calls + 1 /\ w.on = c
  BY DEF NoCall
<1>3. \A s \in Callers : call[s] = NoCall
  BY NoConnAssumption DEF Initialize, Library, UsesFd
<1> HIDE DEF w
<1>4. \A s \in Callers : s # t => call'[s] = NoCall
  BY <1>1, <1>3 DEF IpcTypeOK
<1>5. call'[t] = w /\ fd' = c
  BY <1>1 DEF IpcTypeOK, Initialize
<1>6. NoCall.shakes = FALSE
  BY DEF NoCall
<1>7. UsesFd' /\ ShakesAlone'
  BY <1>1, <1>2, <1>4, <1>5, <1>6 DEF UsesFd, ShakesAlone
<1>8. Disturbing'
  <2>1. \A d \in Conns : conn'[d].pc = "none" => conn[d].pc = "none"
    BY DEF Initialize, IpcTypeOK, NoFrame
  <2> QED BY <1>4, <2>1 DEF Initialize, Library, Disturbing
<1>9. Unopened'
  <2>1. \A d \in Conns : conn'[d].pc = "none" => d # c /\ conn[d].pc = "none"
    BY DEF Initialize, IpcTypeOK, NoFrame
  <2> QED BY <1>5, <2>1 DEF Initialize, Library, Unopened
<1> QED BY <1>7, <1>8, <1>9 DEF Library

LEMMA ThreadKeepsLibrary ==
  ASSUME IpcTypeOK, Library, NEW t \in Callers, Thread(t)
  PROVE  Library'
<1>1. UsesFd
  BY DEF Library
<1>2. /\ call[t] # NoCall /\ call[t].on = fd /\ fd \in Conns /\ call[t].k \in Calls
      /\ GoesOn(t) \/ \E got \in Outcomes : Ends(t, got)
      /\ UNCHANGED <<calls, daemonVars, disturbed>>
  BY <1>1, ThreadEffect
<1>3. UsesFd' /\ ShakesAlone' /\ (fd' = fd \/ fd' = NoConn)
  <2>1. CASE GoesOn(t)
    <3>1. PICK w \in ThreadStates :
             /\ call' = [call EXCEPT ![t] = w]
             /\ w.pc # "idle" /\ w.on = call[t].on /\ w.k = call[t].k
             /\ w.shakes = call[t].shakes
      BY <2>1 DEF GoesOn
    <3>2. call'[t] = w /\ \A s \in Callers : s # t => call'[s] = call[s]
      BY <3>1 DEF IpcTypeOK
    <3>3. UsesFd'
      BY <1>1, <1>2, <2>1, <3>1, <3>2 DEF UsesFd, GoesOn
    <3>4. ShakesAlone'
      BY <1>2, <3>1, <3>2 DEF Library, ShakesAlone
    <3> QED BY <2>1, <3>3, <3>4 DEF GoesOn
  <2>2. ASSUME NEW got \in Outcomes, Ends(t, got)
        PROVE  UsesFd' /\ ShakesAlone' /\ (fd' = fd \/ fd' = NoConn)
    <3>1. call'[t] = NoCall /\ \A s \in Callers : s # t => call'[s] = call[s]
      BY <2>2 DEF Ends, IpcTypeOK
    <3>2. fd' = fd \/ (fd' = NoConn /\ \A s \in Callers : s # t => call[s] = NoCall)
      BY <2>2 DEF Ends, Library, ShakesAlone
    <3>3. ~NoCall.shakes
      BY DEF NoCall
    <3> QED BY <1>1, <3>1, <3>2, <3>3 DEF UsesFd, Library, ShakesAlone
  <2> QED BY <1>2, <2>1, <2>2
<1>4. \A s \in Callers : call'[s] # NoCall => call[s] # NoCall /\ fd' = fd
  <2>1. CASE GoesOn(t)
    BY <1>2, <2>1 DEF GoesOn, IpcTypeOK
  <2>2. ASSUME NEW got \in Outcomes, Ends(t, got)
        PROVE  \A s \in Callers : call'[s] # NoCall => call[s] # NoCall /\ fd' = fd
    <3>1. call'[t] = NoCall /\ \A s \in Callers : s # t => call'[s] = call[s]
      BY <2>2 DEF Ends, IpcTypeOK
    <3>2. fd' = fd \/ \A s \in Callers : s # t => call[s] = NoCall
      BY <2>2 DEF Ends, Library, ShakesAlone
    <3> QED BY <3>1, <3>2
  <2> QED BY <1>2, <2>1, <2>2
<1>5. Disturbing'
  BY <1>2, <1>4 DEF Library, Disturbing, daemonVars
<1>6. Unopened'
  <2>1. \A c \in Conns : c # fd => up'[c] = up[c] /\ down'[c] = down[c]
    BY <1>1, ThreadTouches
  <2> QED BY <1>2, <1>3, <2>1, NoConnAssumption DEF Library, Unopened, daemonVars
<1> QED BY <1>3, <1>5, <1>6 DEF Library

\* The steps of the daemon, which leave the library alone.
Daemon ==
    \/ \E c \in Conns : Serve(c) \/ IdleTimeout(c) \/ PushFrame(c)
    \/ Broadcast \/ Stop \/ Drain \/ ForceClose \/ Exit

\* A connection that is not open yet stays so, and empty.
LEMMA DaemonOpensNone ==
  ASSUME IpcTypeOK, Library, Daemon, NEW c \in Conns, conn'[c].pc = "none"
  PROVE  conn[c].pc = "none" /\ up'[c] = up[c] /\ down'[c] = down[c]
<1>1. \A p : NoFrame(p).pc = p
  BY DEF NoFrame
<1>2. ASSUME NEW d \in Conns, Serve(d) \/ IdleTimeout(d)
      PROVE  conn[c].pc = "none" /\ up'[c] = up[c] /\ down'[c] = down[c]
  <2>1. conn[d].pc # "none" /\ conn'[d].pc # "none"
    <3>1. CASE Accept(d) \/ Track(d) \/ Execute(d)
      BY <3>1 DEF Accept, Track, Execute, IpcTypeOK, ConnStates
    <3>2. CASE ReadFrame(d)
      BY <1>1, <3>2 DEF ReadFrame, Leaves, IpcTypeOK
    <3>3. CASE CheckDone(d) \/ IdleTimeout(d)
      BY <1>1, <3>3 DEF CheckDone, IdleTimeout, Leaves, IpcTypeOK, ConnStates
    <3>4. CASE Write(d)
      BY <1>1, <3>4 DEF Write, Leaves, IpcTypeOK, ConnStates
    <3> QED BY <1>2, <3>1, <3>2, <3>3, <3>4 DEF Serve
  <2>2. d # c => conn'[c] = conn[c] /\ up'[c] = up[c] /\ down'[c] = down[c]
    BY <1>2 DEF Serve, Accept, Track, ReadFrame, CheckDone, Execute, Write, IdleTimeout,
                Leaves, IpcTypeOK
  <2> QED BY <2>1, <2>2
<1>3. ASSUME NEW d \in Conns, PushFrame(d)
      PROVE  conn[c].pc = "none" /\ up'[c] = up[c] /\ down'[c] = down[c]
  <2>1. UNCHANGED <<conn, up>> /\ conn[d].pc # "none"
    BY <1>3 DEF PushFrame, Library, Disturbing
  <2>2. d # c => down'[c] = down[c]
    BY <1>3 DEF PushFrame, IpcTypeOK
  <2> QED BY <2>1, <2>2
<1>4. CASE Broadcast \/ Drain \/ ForceClose
  BY <1>4 DEF Broadcast, Drain, ForceClose
<1>5. CASE Stop \/ Exit
  BY <1>1, <1>5 DEF Stop, Exit
<1> QED BY <1>2, <1>3, <1>4, <1>5 DEF Daemon

LEMMA DaemonKeepsLibrary ==
  ASSUME IpcTypeOK, Library, Daemon
  PROVE  Library'
<1>1. UNCHANGED driverVars /\ disturbed \subseteq disturbed'
  BY DEF Daemon, Serve, Accept, Track, ReadFrame, CheckDone, Execute, Write, IdleTimeout,
         PushFrame, Broadcast, Stop, Drain, ForceClose, Exit
<1>2. UsesFd' /\ ShakesAlone'
  BY <1>1 DEF driverVars, Library, UsesFd, ShakesAlone
<1>3. Unopened'
  BY <1>1, DaemonOpensNone DEF driverVars, Library, Unopened
<1>4. \A c \in Conns : push'[c] # "none" => c \in disturbed' /\ conn[c].pc # "none"
  <2>1. CASE UNCHANGED push
    BY <1>1, <2>1 DEF Library, Disturbing
  <2>2. CASE Broadcast
    BY <2>2 DEF Broadcast, Tracked, Library, Disturbing
  <2>3. CASE Exit
    BY <2>3 DEF Exit
  <2>4. ASSUME NEW c \in Conns, PushFrame(c)
        PROVE  \A d \in Conns : push'[d] # "none" => d \in disturbed' /\ conn[d].pc # "none"
    BY <2>4 DEF PushFrame, Library, Disturbing, IpcTypeOK
  <2> QED BY <2>1, <2>2, <2>3, <2>4
          DEF Daemon, Serve, Accept, Track, ReadFrame, CheckDone, Execute, Write, IdleTimeout,
              Stop, Drain, ForceClose
<1>5. Disturbing'
  BY <1>1, <1>4, DaemonOpensNone DEF driverVars, Library, Disturbing
<1> QED BY <1>2, <1>3, <1>5 DEF Library

LEMMA FinalizeKeepsLibrary ==
  ASSUME IpcTypeOK, Library, Finalize
  PROVE  Library'
  BY NoConnAssumption DEF Finalize, daemonVars, Library, UsesFd, ShakesAlone, Disturbing, Unopened

\* The steps of the specification, by who takes them.
LEMMA NextSplits ==
  IpcNext <=> \/ \E t \in Callers : BeginCall(t) \/ Thread(t) \/ \E c \in Conns : Initialize(t, c)
              \/ Finalize \/ Daemon
  BY DEF IpcNext, Daemon

LEMMA LibraryKeeps == IpcTypeOK /\ Library /\ [IpcNext]_ipcVars => Library'
<1> SUFFICES ASSUME IpcTypeOK, Library, [IpcNext]_ipcVars PROVE Library'
  OBVIOUS
<1>1. CASE UNCHANGED ipcVars
  BY <1>1 DEF ipcVars, Library, UsesFd, ShakesAlone, Disturbing, Unopened
<1> QED BY <1>1, NextSplits, BeginKeepsLibrary, InitializeKeepsLibrary, ThreadKeepsLibrary,
           DaemonKeepsLibrary, FinalizeKeepsLibrary

----------------------------------------------------------------------------
(* Shutdown. *)

LEMMA DrainedKeeps == IpcTypeOK /\ UsesFd /\ DrainedIsQuiet /\ [IpcNext]_ipcVars => DrainedIsQuiet'
<1> SUFFICES ASSUME IpcTypeOK, UsesFd, DrainedIsQuiet, [IpcNext]_ipcVars,
                    daemon' = "drained", NEW c \in Conns
             PROVE  conn'[c].pc \notin {"run", "head", "body"}
  BY DEF DrainedIsQuiet
<1>1. CASE Drain
  BY <1>1 DEF Drain, Tracked
<1>2. CASE daemon = "drained"
  <2>1. conn[c].pc \notin {"run", "head", "body"}
    BY <1>2 DEF DrainedIsQuiet
  <2>2. CASE conn'[c] = conn[c]
    BY <2>1, <2>2
  <2>3. ASSUME NEW t \in Callers, NEW d \in Conns, Initialize(t, d)
        PROVE  FALSE
    BY <1>2, <2>3 DEF Initialize
  <2>4. ASSUME NEW d \in Conns, Serve(d) \/ IdleTimeout(d)
        PROVE  conn'[c].pc \notin {"run", "head", "body"}
    <3>1. d # c => conn'[c] = conn[c]
      BY <2>4 DEF Serve, Accept, Track, ReadFrame, CheckDone, Execute, Write, IdleTimeout,
                  Leaves, IpcTypeOK
    <3>2. conn'[d].pc \notin {"run", "head", "body"}
      <4>1. CASE Accept(d) \/ Execute(d) \/ Write(d)
        BY <1>2, <4>1 DEF Accept, Execute, Write, DrainedIsQuiet
      <4>2. CASE Track(d)
        BY <4>2 DEF Track, IpcTypeOK, ConnStates
      <4>3. CASE CheckDone(d) \/ IdleTimeout(d)
        BY <1>2, <4>3 DEF CheckDone, IdleTimeout, Leaves, NoFrame, IpcTypeOK
      <4>4. CASE ReadFrame(d)
        BY <4>4 DEF ReadFrame, Leaves, NoFrame, IpcTypeOK
      <4> QED BY <2>4, <4>1, <4>2, <4>3, <4>4 DEF Serve
    <3> QED BY <2>1, <3>1, <3>2
  <2>5. CASE Stop \/ Exit
    BY <1>2, <2>5 DEF Stop, Exit
  <2>6. ASSUME NEW t \in Callers, BeginCall(t) \/ Thread(t) PROVE conn' = conn
    BY <2>6, ThreadEffect DEF BeginCall, daemonVars
  <2>7. CASE Finalize \/ Broadcast \/ Drain \/ ForceClose \/ \E d \in Conns : PushFrame(d)
    BY <2>1, <2>7 DEF Finalize, Broadcast, Drain, ForceClose, PushFrame, daemonVars
  <2> QED BY <2>2, <2>3, <2>4, <2>5, <2>6, <2>7, NextSplits DEF Daemon, ipcVars
<1>3. daemon' # daemon => Drain
  <2>1. ASSUME NEW t \in Callers, BeginCall(t) \/ Thread(t) PROVE daemon' = daemon
    BY <2>1, ThreadEffect DEF BeginCall, daemonVars
  <2>2. ASSUME NEW t \in Callers, NEW d \in Conns, Initialize(t, d) PROVE daemon' = daemon
    BY <2>2 DEF Initialize
  <2> QED BY <2>1, <2>2, NextSplits
          DEF Daemon, Serve, Accept, Track, ReadFrame, CheckDone, Execute, Write, IdleTimeout,
              PushFrame, Broadcast, Stop, ForceClose, Exit, Finalize, daemonVars, ipcVars
<1> QED BY <1>1, <1>2, <1>3

----------------------------------------------------------------------------
(* What only grows. *)

LEMMA Grows ==
  ASSUME IpcTypeOK, UsesFd, [IpcNext]_ipcVars
  PROVE  /\ disturbed \subseteq disturbed' /\ executed \subseteq executed'
         /\ shut \subseteq shut'
         /\ \A c \in Conns : Closed(c) => Closed(c)'
<1>1. disturbed \subseteq disturbed' /\ executed \subseteq executed' /\ shut \subseteq shut'
  <2>1. ASSUME NEW t \in Callers, BeginCall(t) \/ Thread(t) \/ \E c \in Conns : Initialize(t, c)
        PROVE  disturbed \subseteq disturbed' /\ UNCHANGED <<executed, shut>>
    BY <2>1, ThreadEffect DEF BeginCall, Initialize, daemonVars
  <2> QED BY <2>1, NextSplits
          DEF Daemon, Serve, Accept, Track, ReadFrame, CheckDone, Execute, Write, IdleTimeout,
              PushFrame, Broadcast, Stop, Drain, ForceClose, Exit, Finalize, daemonVars, ipcVars
<1>2. ASSUME NEW c \in Conns, conn[c].pc = "closed" PROVE conn'[c].pc = "closed"
  <2>1. ASSUME NEW t \in Callers, BeginCall(t) \/ Thread(t) PROVE conn' = conn
    BY <2>1, ThreadEffect DEF BeginCall, daemonVars
  <2>2. ASSUME NEW t \in Callers, NEW d \in Conns, Initialize(t, d) PROVE conn'[c] = conn[c]
    BY <1>2, <2>2 DEF Initialize, IpcTypeOK
  <2>3. ASSUME NEW d \in Conns, Serve(d) \/ IdleTimeout(d) PROVE conn'[c] = conn[c]
    BY <1>2, <2>3
    DEF Serve, Accept, Track, ReadFrame, CheckDone, Execute, Write, IdleTimeout, Leaves, IpcTypeOK
  <2>4. CASE Stop \/ Exit
    BY <1>2, <2>4 DEF Stop, Exit, NoFrame
  <2>5. CASE Finalize \/ Broadcast \/ Drain \/ ForceClose \/ \E d \in Conns : PushFrame(d)
    BY <1>2, <2>5 DEF Finalize, Broadcast, Drain, ForceClose, PushFrame, daemonVars
  <2> QED BY <1>2, <2>1, <2>2, <2>3, <2>4, <2>5, NextSplits DEF Daemon, ipcVars
<1> QED BY <1>1, <1>2 DEF Closed

----------------------------------------------------------------------------
(* On a connection that was not disturbed. *)

\* What the step of a thread can be: each receive finds the piece it looks for.
Fails(t) ==
    Ends(t, "failed") /\ Closed(fd) /\ down[fd] = <<>> /\ UNCHANGED <<up, down>>
SendsOn(t) ==
    /\ call[t].pc \in {"head", "body"} /\ ~Closed(fd)
    /\ up' = [up EXCEPT ![fd] = Append(up[fd], <<call[t].pc, call[t].k>>)]
    /\ call' = [call EXCEPT ![t] =
                  [call[t] EXCEPT !.pc = IF call[t].pc = "head" THEN "body" ELSE "wait"]]
    /\ UNCHANGED <<fd, left, result, down>>
HearsHead(t) ==
    /\ call[t].pc = "wait" /\ down[fd] # <<>>
    /\ call' = [call EXCEPT ![t] = [call[t] EXCEPT !.pc = "rest", !.from = call[t].k]]
    /\ down' = [down EXCEPT ![fd] = Tail(down[fd])]
    /\ UNCHANGED <<fd, left, result, up>>
HearsBody(t) ==
    /\ call[t].pc = "rest" /\ down[fd] # <<>>
    /\ Ends(t, "answered") /\ call[t].k \in executed
    /\ down' = [down EXCEPT ![fd] = Tail(down[fd])]
    /\ UNCHANGED up

LEMMA CleanThread ==
  ASSUME IpcTypeOK, UsesFd, NEW t \in Callers, Thread(t), Clean(fd)
  PROVE  UNCHANGED torn /\ (Fails(t) \/ SendsOn(t) \/ HearsHead(t) \/ HearsBody(t))
<1> DEFINE w == call[t]
           head == <<"head", w.k>>
           body == <<"body", w.k>>
<1>1. w.on = fd /\ fd \in Conns /\ w.k \in Calls
  BY ThreadEffect
<1>2. Answering(fd, w) /\ <<"down", fd>> \notin torn
  BY <1>1 DEF Clean
<1>3. CASE Send(t)
  <2>1. w.pc \in {"head", "body"} /\ down[fd] = <<>> /\ UNCHANGED <<torn, down>>
    BY <1>2, <1>3 DEF Send, Answering
  <2> QED BY <1>1, <1>3, <2>1 DEF Send, Fails, SendsOn
<1>4. CASE ReceiveHead(t)
  <2>1. w.pc = "wait" /\ down[fd] \in {<<>>, <<head>>, <<head, body>>}
    BY <1>2, <1>4 DEF ReceiveHead, Answering
  <2>2. down[fd] # <<>> => Head(down[fd]) = head
    BY <2>1, OnePiece, TwoPieces
  <2>3. head[1] = "head" /\ head[2] = w.k
    OBVIOUS
  <2>4. CASE down[fd] = <<>>
    BY <1>1, <1>4, <2>4 DEF ReceiveHead, Fails
  <2>5. CASE down[fd] # <<>>
    BY <1>1, <1>2, <1>4, <2>1, <2>2, <2>3, <2>5 DEF ReceiveHead, HearsHead
  <2> QED BY <2>4, <2>5
<1>5. CASE ReceiveRest(t)
  <2>1. w.pc = "rest" /\ w.from = w.k /\ down[fd] \in {<<>>, <<body>>} /\ w.k \in executed
    BY <1>2, <1>5 DEF ReceiveRest, Answering
  <2>2. down[fd] # <<>> => Head(down[fd]) = body
    BY <2>1, OnePiece
  <2>3. Got(t, w.from) = "answered"
    BY <2>1 DEF Got
  <2>4. CASE down[fd] = <<>>
    BY <1>1, <1>5, <2>4 DEF ReceiveRest, Fails
  <2>5. CASE down[fd] # <<>>
    BY <1>1, <1>2, <1>5, <2>1, <2>2, <2>3, <2>5 DEF ReceiveRest, HearsBody
  <2> QED BY <2>4, <2>5
<1> QED BY <1>3, <1>4, <1>5 DEF Thread

\* What has ended stays explained.
LEMMA EndedKeeps ==
  ASSUME IpcTypeOK, Library, Streams, Ended, [IpcNext]_ipcVars
  PROVE  Ended'
<1>1. UsesFd
  BY DEF Library
<1>2. /\ disturbed \subseteq disturbed' /\ executed \subseteq executed'
      /\ \A c \in Conns : Closed(c) => Closed(c)'
  BY <1>1, Grows
<1>3. ASSUME NEW k \in Calls, result'[k] = result[k]
      PROVE  /\ result'[k].got # "none" => result'[k].on \in Conns
             /\ result'[k].on \notin disturbed' =>
                  /\ result'[k].got = "answered" => k \in executed'
                  /\ result'[k].got = "failed" => Closed(result[k].on)'
                  /\ result'[k].got \in {"none", "answered", "failed"}
  BY <1>2, <1>3 DEF Ended
<1>4. CASE UNCHANGED result
  BY <1>3, <1>4 DEF Ended
<1>5. ASSUME NEW t \in Callers, Thread(t) PROVE Ended'
  <2>1. call[t].on = fd /\ fd \in Conns /\ call[t].k \in Calls
        /\ (GoesOn(t) \/ \E got \in Outcomes : Ends(t, got))
    BY <1>1, <1>5, ThreadEffect
  <2>2. CASE GoesOn(t)
    BY <1>4, <2>2 DEF GoesOn
  <2>3. ASSUME NEW got \in Outcomes, Ends(t, got) PROVE Ended'
    <3> DEFINE k == call[t].k
    <3>1. result' = [result EXCEPT ![k] = [got |-> got, on |-> fd]]
      BY <2>1, <2>3 DEF Ends
    <3>2. result'[k].got = got /\ result'[k].on = fd
      BY <2>1, <3>1 DEF IpcTypeOK
    <3>3. ASSUME fd \notin disturbed'
          PROVE  \/ got = "answered" /\ k \in executed
                 \/ got = "failed" /\ Closed(fd)
      <4>1. Clean(fd)
        BY <1>2, <2>1, <3>3 DEF Streams
      <4>2. Fails(t) \/ SendsOn(t) \/ HearsHead(t) \/ HearsBody(t)
        BY <1>1, <1>5, <4>1, CleanThread
      <4>3. call'[t] = NoCall /\ NoCall.pc = "idle"
        BY <2>3 DEF Ends, IpcTypeOK, NoCall
      <4>4. ~SendsOn(t) /\ ~HearsHead(t)
        <5>1. call[t] \in ThreadStates /\ call'[t].pc = "idle"
          BY <4>3 DEF IpcTypeOK
        <5>2. SendsOn(t) => call'[t].pc \in {"body", "wait"}
          BY <5>1 DEF SendsOn, IpcTypeOK, ThreadStates
        <5>3. HearsHead(t) => call'[t].pc = "rest"
          BY <5>1 DEF HearsHead, IpcTypeOK, ThreadStates
        <5> QED BY <5>1, <5>2, <5>3
      <4>5. Fails(t) => result'[k].got = "failed" /\ Closed(fd)
        BY <2>1 DEF Fails, Ends, IpcTypeOK
      <4>6. HearsBody(t) => result'[k].got = "answered" /\ k \in executed
        BY <2>1 DEF HearsBody, Ends, IpcTypeOK
      <4> QED BY <3>2, <4>2, <4>4, <4>5, <4>6
    <3>4. \A j \in Calls : j # k => result'[j] = result[j]
      BY <3>1 DEF IpcTypeOK
    <3> HIDE DEF k
    <3>5. Ended'
      BY <1>2, <1>3, <2>1, <3>2, <3>3, <3>4 DEF Ended
    <3> QED BY <3>5
  <2> QED BY <2>1, <2>2, <2>3
<1>6. ASSUME NEW t \in Callers, BeginCall(t) \/ \E c \in Conns : Initialize(t, c)
      PROVE  UNCHANGED result
  BY <1>6 DEF BeginCall, Initialize
<1>7. CASE Finalize \/ Daemon \/ UNCHANGED ipcVars
  BY <1>4, <1>7
  DEF Daemon, Serve, Accept, Track, ReadFrame, CheckDone, Execute, Write, IdleTimeout,
      PushFrame, Broadcast, Stop, Drain, ForceClose, Exit, Finalize, ipcVars
<1> QED BY <1>4, <1>5, <1>6, <1>7, NextSplits

\* A step that does nothing to a connection leaves it clean.
LEMMA CleanFrame ==
  ASSUME NEW c \in Conns, Clean(c),
         conn'[c] = conn[c], up'[c] = up[c], down'[c] = down[c],
         \A side : <<side, c>> \in torn' => <<side, c>> \in torn,
         executed \subseteq executed', Closed(c) => Closed(c)',
         \A t \in Callers : call'[t].on = c => call'[t] = call[t],
         \A t \in Callers : call[t].on = c => call'[t].on = c
  PROVE  Clean(c)'
<1>1. AtRest(c) => AtRest(c)'
  BY DEF AtRest, Quiet
<1>2. ASSUME NEW t \in Callers, call'[t].on = c
      PROVE  Answering(c, call[t])' /\ (Closed(c)' \/ Asking(c, call[t])')
  <2>1. call'[t] = call[t] /\ call[t].on = c
    BY <1>2
  <2>2. Answering(c, call[t]) /\ (Closed(c) \/ Asking(c, call[t]))
    BY <2>1 DEF Clean
  <2>3. Answering(c, call[t])'
    BY <2>1, <2>2 DEF Answering
  <2>4. Asking(c, call[t]) => Asking(c, call[t])'
    BY <2>1 DEF Asking, Quiet
  <2> QED BY <2>2, <2>3, <2>4
<1> QED BY <1>1, <1>2 DEF Clean

\* One that its goroutine leaves, or loses, too.
LEMMA CleanLeft ==
  ASSUME NEW c \in Conns, Clean(c), conn'[c] = NoFrame("closed"),
         UNCHANGED <<call, up, down, torn, executed>>
  PROVE  Clean(c)'
<1>1. conn'[c].pc = "closed" /\ ~conn'[c].bad /\ Closed(c)'
  BY DEF NoFrame, Closed
<1>2. AtRest(c) => AtRest(c)'
  BY <1>1 DEF AtRest
<1>3. ASSUME NEW t \in Callers, call'[t].on = c PROVE Answering(c, call[t])'
  <2>1. Answering(c, call[t])
    BY <1>3 DEF Clean
  <2> QED BY <2>1 DEF Answering
<1> QED BY <1>1, <1>2, <1>3 DEF Clean

\* A goroutine that is with no frame may go on.
LEMMA CleanQuiet ==
  ASSUME NEW c \in Conns, Clean(c), Quiet(c), Quiet(c)', ~conn'[c].bad,
         UNCHANGED <<call, up, down, torn, executed, shut>>
  PROVE  Clean(c)'
<1>1. conn'[c].pc \notin {"head", "body"} /\ (Closed(c) => Closed(c)')
  BY DEF Quiet, Closed
<1>2. AtRest(c) => AtRest(c)'
  BY <1>1 DEF AtRest
<1>3. ASSUME NEW t \in Callers, call'[t].on = c
      PROVE  Answering(c, call[t])' /\ (Closed(c)' \/ Asking(c, call[t])')
  <2>1. Answering(c, call[t]) /\ (Closed(c) \/ Asking(c, call[t]))
    BY <1>3 DEF Clean
  <2>2. Answering(c, call[t])'
    BY <2>1 DEF Answering
  <2>3. Asking(c, call[t]) => Asking(c, call[t])'
    BY DEF Asking, Quiet
  <2> QED BY <1>1, <2>1, <2>2, <2>3
<1> QED BY <1>1, <1>2, <1>3 DEF Clean

\* Who is in a call on a connection that was not disturbed is alone on it.
LEMMA Alone ==
  ASSUME Library, NEW t \in Callers, call[t] # NoCall, fd \notin disturbed
  PROVE  \A s \in Callers : s # t => call[s] = NoCall
  BY DEF Library, Disturbing

LEMMA NoCallNowhere == NoCall.on = NoConn /\ NoCall.pc = "idle"
  BY DEF NoCall

LEMMA FailsKeepsClean ==
  ASSUME IpcTypeOK, Library, NEW t \in Callers, Thread(t), Clean(fd), fd \notin disturbed,
         Fails(t), UNCHANGED torn
  PROVE  \A c \in Conns : c = fd => Clean(c)'
<1> SUFFICES ASSUME NEW c \in Conns, c = fd PROVE Clean(c)'
  OBVIOUS
<1>1. call[t] # NoCall /\ UNCHANGED daemonVars
  BY ThreadEffect DEF Library
<1>2. \A s \in Callers : call'[s] = NoCall
  BY <1>1, Alone DEF Fails, Ends, IpcTypeOK
<1>3. Closed(c)' /\ down'[c] = <<>>
  BY <1>1 DEF Fails, Closed, daemonVars
<1>4. AtRest(c)' /\ \A s \in Callers : call'[s].on # c
  BY <1>2, <1>3, NoCallNowhere, NoConnAssumption DEF AtRest
<1> QED BY <1>1, <1>4 DEF Clean, daemonVars

LEMMA HearsBodyKeepsClean ==
  ASSUME IpcTypeOK, Library, NEW t \in Callers, Thread(t), Clean(fd), fd \notin disturbed,
         HearsBody(t), UNCHANGED torn
  PROVE  \A c \in Conns : c = fd => Clean(c)'
<1> SUFFICES ASSUME NEW c \in Conns, c = fd PROVE Clean(c)'
  OBVIOUS
<1> DEFINE w == call[t]
<1>1. w # NoCall /\ w.on = c /\ UNCHANGED daemonVars
  BY ThreadEffect DEF Library
<1>2. \A s \in Callers : call'[s] = NoCall
  BY <1>1, Alone DEF HearsBody, Ends, IpcTypeOK
<1>3. Answering(c, w) /\ (Closed(c) \/ Asking(c, w))
  BY <1>1 DEF Clean
<1>4. down[c] = <<<<"body", w.k>>>> /\ (Closed(c) \/ (up[c] = <<>> /\ Quiet(c)))
  BY <1>3 DEF HearsBody, Answering, Asking
<1>5. down'[c] = <<>> /\ up'[c] = up[c]
  BY <1>4, OnePiece DEF HearsBody, IpcTypeOK
<1>6. AtRest(c)' /\ \A s \in Callers : call'[s].on # c
  BY <1>1, <1>2, <1>4, <1>5, NoCallNowhere, NoConnAssumption DEF AtRest, Closed, Quiet, daemonVars
<1> QED BY <1>1, <1>6 DEF Clean, daemonVars

LEMMA SendsOnKeepsClean ==
  ASSUME IpcTypeOK, Library, NEW t \in Callers, Thread(t), Clean(fd), fd \notin disturbed,
         SendsOn(t), UNCHANGED torn
  PROVE  \A c \in Conns : c = fd => Clean(c)'
<1> SUFFICES ASSUME NEW c \in Conns, c = fd PROVE Clean(c)'
  OBVIOUS
<1> DEFINE w == call[t]
           next == IF w.pc = "head" THEN "body" ELSE "wait"
           v == [w EXCEPT !.pc = next]
<1>1. w # NoCall /\ w.on = c /\ w \in ThreadStates /\ UNCHANGED daemonVars
  BY ThreadEffect DEF Library, IpcTypeOK
<1>2. call'[t] = v /\ \A s \in Callers : s # t => call'[s] = NoCall
  BY <1>1, Alone DEF SendsOn, IpcTypeOK
<1>3. call'[t].pc = next /\ call'[t].k = w.k /\ call'[t].on = c
  BY <1>1, <1>2 DEF ThreadStates
<1>4. Answering(c, w) /\ Asking(c, w) /\ w.pc \in {"head", "body"}
  BY <1>1 DEF Clean, SendsOn
<1>5. down'[c] = <<>> /\ Quiet(c)'
  BY <1>1, <1>4 DEF SendsOn, Answering, Asking, Quiet, daemonVars
<1>6. up'[c] = Append(up[c], <<w.pc, w.k>>)
  BY DEF SendsOn, IpcTypeOK
<1>7. Answering(c, call[t])'
  BY <1>3, <1>4, <1>5 DEF Answering
<1>8. ASSUME w.pc = "head" PROVE Asking(c, call[t])'
  <2>1. up'[c] = <<<<"head", w.k>>>> /\ call'[t].pc = "body"
    BY <1>3, <1>4, <1>6, <1>8, OnePiece DEF Asking
  <2> QED BY <1>3, <1>5, <2>1 DEF Asking
<1>9. ASSUME w.pc = "body" PROVE Asking(c, call[t])'
  <2>1. up[c] = <<<<"head", w.k>>>> /\ up'[c] = Append(up[c], <<"body", w.k>>)
    BY <1>4, <1>6, <1>9 DEF Asking
  <2>2. up'[c] = <<<<"head", w.k>>, <<"body", w.k>>>>
    <3> DEFINE head == <<"head", w.k>>
               body == <<"body", w.k>>
    <3>1. up[c] = <<head>> /\ up'[c] = Append(up[c], body)
      BY <2>1
    <3> HIDE DEF head, body
    <3>2. Append(<<head>>, body) = <<head, body>>
      BY TwoPieces, Zenon
    <3>3. up'[c] = <<head, body>>
      BY <3>1, <3>2
    <3> QED BY <3>3 DEF head, body
  <2>3. call'[t].pc = "wait"
    BY <1>3, <1>9
  <2> QED BY <1>3, <1>5, <2>2, <2>3 DEF Asking
<1>10. Asking(c, call[t])'
  BY <1>4, <1>8, <1>9
<1>11. \A s \in Callers : call'[s].on = c => s = t
  BY <1>2, NoCallNowhere, NoConnAssumption
<1> QED BY <1>1, <1>3, <1>7, <1>10, <1>11 DEF Clean, daemonVars

LEMMA HearsHeadKeepsClean ==
  ASSUME IpcTypeOK, Library, NEW t \in Callers, Thread(t), Clean(fd), fd \notin disturbed,
         HearsHead(t), UNCHANGED torn
  PROVE  \A c \in Conns : c = fd => Clean(c)'
<1> SUFFICES ASSUME NEW c \in Conns, c = fd PROVE Clean(c)'
  OBVIOUS
<1> DEFINE w == call[t]
           head == <<"head", w.k>>
           body == <<"body", w.k>>
<1>1. w # NoCall /\ w.on = c /\ w \in ThreadStates /\ UNCHANGED daemonVars
  BY ThreadEffect DEF Library, IpcTypeOK
<1>2. call'[t] = [w EXCEPT !.pc = "rest", !.from = w.k]
      /\ \A s \in Callers : s # t => call'[s] = NoCall
  BY <1>1, Alone DEF HearsHead, IpcTypeOK
<1>3. call'[t].pc = "rest" /\ call'[t].k = w.k /\ call'[t].on = c /\ call'[t].from = w.k
  BY <1>1, <1>2 DEF ThreadStates
<1>4. Answering(c, w) /\ (Closed(c) \/ Asking(c, w)) /\ w.pc = "wait"
  BY <1>1 DEF Clean, HearsHead
<1>5. w.k \in executed /\ down[c] \in {<<head>>, <<head, body>>}
  BY <1>4 DEF HearsHead, Answering
<1>6. down'[c] = Tail(down[c]) /\ up'[c] = up[c]
  BY DEF HearsHead, IpcTypeOK
<1>7. /\ down[c] = <<head>> => down'[c] = <<>>
      /\ down[c] = <<head, body>> => down'[c] = <<body>>
      /\ <<head>> # <<head, body>> /\ <<body>> # <<>>
  <2>1. Len(<<head>>) = 1 /\ Len(<<head, body>>) = 2 /\ <<body>> # <<>>
    BY OnePiece, TwoPieces
  <2>2. Tail(<<head>>) = <<>> /\ Tail(<<head, body>>) = <<body>>
    BY OnePiece, TwoPieces
  <2> QED BY <1>6, <2>1, <2>2
<1>8. Answering(c, call[t])'
  BY <1>1, <1>3, <1>5, <1>7 DEF Answering, daemonVars
<1>9. Asking(c, w) => Asking(c, call[t])'
  <2> SUFFICES ASSUME Asking(c, w) PROVE Asking(c, call[t])'
    OBVIOUS
  <2>1. down[c] # <<>>
    BY DEF HearsHead
  <2>2. \/ up[c] = <<>> /\ down[c] = <<head>> /\ conn[c].k = w.k /\ conn[c].pc = "body"
        \/ up[c] = <<>> /\ down[c] = <<head, body>> /\ Quiet(c)
    BY <1>4, <2>1 DEF Asking
  <2>3. \/ up'[c] = <<>> /\ down'[c] = <<>> /\ conn[c].k = w.k /\ conn[c].pc = "body"
        \/ up'[c] = <<>> /\ down'[c] = <<body>> /\ Quiet(c)
    BY <1>6, <1>7, <2>2
  <2> QED BY <1>1, <1>3, <2>3 DEF Asking, Quiet, daemonVars
<1>10. \A s \in Callers : call'[s].on = c => s = t
  BY <1>2, NoCallNowhere, NoConnAssumption
<1> QED BY <1>1, <1>3, <1>4, <1>8, <1>9, <1>10 DEF Clean, Closed, daemonVars

LEMMA ThreadKeepsStreams ==
  ASSUME IpcTypeOK, Library, Streams, NEW t \in Callers, Thread(t)
  PROVE  Streams'
<1>1. /\ call[t] # NoCall /\ call[t].on = fd /\ fd \in Conns
      /\ GoesOn(t) \/ \E got \in Outcomes : Ends(t, got)
      /\ UNCHANGED <<calls, daemonVars, disturbed>>
  BY ThreadEffect DEF Library
<1> SUFFICES ASSUME NEW c \in Conns, c \notin disturbed PROVE Clean(c)'
  BY <1>1 DEF Streams
<1>2. Clean(c)
  BY DEF Streams
<1>3. CASE c = fd
  BY <1>2, <1>3, CleanThread, FailsKeepsClean, SendsOnKeepsClean, HearsHeadKeepsClean,
     HearsBodyKeepsClean DEF Library
<1>4. CASE c # fd
  <2>1. \A s \in Callers : s # t => call'[s] = call[s]
    BY <1>1 DEF GoesOn, Ends, IpcTypeOK
  <2>2. call'[t].on # c
    <3>1. CASE GoesOn(t)
      BY <1>1, <1>4, <3>1 DEF GoesOn, IpcTypeOK
    <3>2. ASSUME NEW got \in Outcomes, Ends(t, got) PROVE call'[t].on # c
      BY <3>2, NoCallNowhere, NoConnAssumption DEF Ends, IpcTypeOK
    <3> QED BY <1>1, <3>1, <3>2
  <2>3. /\ up'[c] = up[c] /\ down'[c] = down[c]
        /\ \A side : <<side, c>> \in torn' <=> <<side, c>> \in torn
    BY <1>4, ThreadTouches DEF Library
  <2>4. conn'[c] = conn[c] /\ executed \subseteq executed' /\ (Closed(c) => Closed(c)')
    BY <1>1 DEF daemonVars, Closed
  <2>5. \A s \in Callers : call'[s].on = c => call'[s] = call[s]
    BY <2>1, <2>2
  <2>6. \A s \in Callers : call[s].on = c => call'[s].on = c
    BY <1>1, <1>4, <2>1
  <2> QED BY <1>2, <2>3, <2>4, <2>5, <2>6, CleanFrame
<1> QED BY <1>3, <1>4

LEMMA BeginKeepsStreams ==
  ASSUME IpcTypeOK, Library, Streams, NEW t \in Callers, BeginCall(t)
  PROVE  Streams'
<1> DEFINE w == [NoCall EXCEPT !.pc = "head", !.k = calls + 1, !.on = fd, !.shakes = FALSE]
<1>1. call' = [call EXCEPT ![t] = w] /\ call[t] = NoCall
  BY DEF BeginCall, Starts
<1>2. w.pc = "head" /\ w.on = fd
  BY DEF NoCall
<1>3. /\ UNCHANGED <<fd, daemonVars, up, down, torn>>
      /\ disturbed \subseteq disturbed'
      /\ fd \notin disturbed' => \A s \in Callers : call[s].on # fd
  BY DEF BeginCall
<1> HIDE DEF w
<1>4. call'[t] = w /\ \A s \in Callers : s # t => call'[s] = call[s]
  BY <1>1 DEF IpcTypeOK
<1> SUFFICES ASSUME NEW c \in Conns, c \notin disturbed' PROVE Clean(c)'
  BY DEF Streams
<1>5. Clean(c)
  BY <1>3 DEF Streams
<1>6. CASE c = fd
  <2>1. AtRest(c)
    BY <1>3, <1>5, <1>6 DEF Clean
  <2>2. \A s \in Callers : call'[s].on = c => s = t
    BY <1>3, <1>4, <1>6
  <2>3. call'[t].pc = "head" /\ call'[t].on = c
    BY <1>2, <1>4, <1>6
  <2>4. Answering(c, call[t])'
    BY <1>3, <2>1, <2>3 DEF AtRest, Answering
  <2>5. Closed(c)' \/ Asking(c, call[t])'
    BY <1>3, <2>1, <2>3 DEF AtRest, Asking, Closed, Quiet, daemonVars
  <2> QED BY <1>3, <1>5, <2>2, <2>3, <2>4, <2>5 DEF Clean, daemonVars
<1>7. CASE c # fd
  <2>1. \A s \in Callers : call'[s].on = c => call'[s] = call[s]
    BY <1>2, <1>4, <1>7
  <2>2. \A s \in Callers : call[s].on = c => call'[s].on = c
    BY <1>1, <1>4, NoCallNowhere, NoConnAssumption
  <2>3. Closed(c) => Closed(c)'
    BY <1>3 DEF Closed, daemonVars
  <2> QED BY <1>3, <1>5, <2>1, <2>2, <2>3, CleanFrame DEF daemonVars
<1> QED BY <1>6, <1>7

LEMMA InitializeKeepsStreams ==
  ASSUME IpcTypeOK, Library, Streams, NEW t \in Callers, NEW d \in Conns, Initialize(t, d)
  PROVE  Streams'
<1> DEFINE w == [NoCall EXCEPT !.pc = "head", !.k = calls + 1, !.on = d, !.shakes = TRUE]
<1>1. call' = [call EXCEPT ![t] = w]
  BY DEF Initialize, Starts
<1>2. w.pc = "head" /\ w.on = d
  BY DEF NoCall
<1>3. \A s \in Callers : call[s] = NoCall
  BY NoConnAssumption DEF Initialize, Library, UsesFd
<1> HIDE DEF w
<1>4. call'[t] = w /\ \A s \in Callers : s # t => call'[s] = NoCall
  BY <1>1, <1>3 DEF IpcTypeOK
<1>5. /\ conn' = [conn EXCEPT ![d] = NoFrame("queued")]
      /\ UNCHANGED <<up, down, torn, shut, executed, disturbed>>
  BY DEF Initialize
<1> SUFFICES ASSUME NEW c \in Conns, c \notin disturbed PROVE Clean(c)'
  BY <1>5 DEF Streams
<1>6. Clean(c)
  BY DEF Streams
<1>7. CASE c = d
  <2>1. up[c] = <<>> /\ down[c] = <<>>
    BY <1>7 DEF Initialize, Library, Unopened
  <2>2. conn'[c].pc = "queued" /\ ~conn'[c].bad
    BY <1>5, <1>7 DEF IpcTypeOK, NoFrame
  <2>3. \A s \in Callers : call'[s].on = c => s = t
    BY <1>4, NoCallNowhere, NoConnAssumption
  <2>4. call'[t].pc = "head" /\ call'[t].on = c
    BY <1>2, <1>4, <1>7
  <2>5. Answering(c, call[t])' /\ Asking(c, call[t])'
    BY <1>5, <2>1, <2>2, <2>4 DEF Answering, Asking, Quiet
  <2> QED BY <1>5, <1>6, <2>2, <2>3, <2>4, <2>5 DEF Clean
<1>8. CASE c # d
  <2>1. \A s \in Callers : call'[s].on # c /\ call[s].on # c
    BY <1>2, <1>3, <1>4, <1>8, NoCallNowhere, NoConnAssumption
  <2>2. conn'[c] = conn[c]
    BY <1>5, <1>8 DEF IpcTypeOK
  <2>3. Closed(c) => Closed(c)'
    BY <1>5, <2>2 DEF Closed
  <2> QED BY <1>5, <1>6, <2>1, <2>2, <2>3, CleanFrame
<1> QED BY <1>7, <1>8

\* A request is read where a call has written it: its body follows its head.
LEMMA ReadKeepsClean ==
  ASSUME IpcTypeOK, UsesFd, NEW c \in Conns, Clean(c), ReadFrame(c)
  PROVE  Clean(c)' /\ UNCHANGED torn
<1> DEFINE bad == up[c][2] # <<"body", up[c][1][2]>>
<1>1. CASE Leaves(c) /\ UNCHANGED <<up, torn>>
  <2>1. conn'[c] = NoFrame("closed")
    BY <1>1 DEF Leaves, IpcTypeOK
  <2> QED BY <1>1, <2>1, CleanLeft DEF ReadFrame, driverVars
<1>2. CASE ~(Leaves(c) /\ UNCHANGED <<up, torn>>)
  <2>1. /\ Len(up[c]) >= 2 /\ c \notin shut /\ conn[c].pc = "read"
        /\ conn' = [conn EXCEPT ![c] = [pc |-> "check", k |-> up[c][1][2], bad |-> bad]]
        /\ up' = [up EXCEPT ![c] = Tail(Tail(up[c]))]
        /\ torn' = IF bad THEN torn \cup {<<"up", c>>} ELSE torn
        /\ UNCHANGED <<call, down, executed, shut>>
    BY <1>2 DEF ReadFrame, driverVars
  <2>2. ~Closed(c) /\ Len(<<>>) = 0
    BY <2>1 DEF Closed
  <2>3. ASSUME NEW s \in Callers, call[s].on = c
        PROVE  /\ call[s].pc = "wait" /\ down[c] = <<>>
               /\ up[c] = <<<<"head", call[s].k>>, <<"body", call[s].k>>>>
    <3>1. Asking(c, call[s]) /\ Answering(c, call[s])
      BY <2>2, <2>3 DEF Clean
    <3>2. Len(<<<<"head", call[s].k>>>>) = 1
      OBVIOUS
    <3>3. up[c] # <<>> /\ up[c] # <<<<"head", call[s].k>>>>
      BY <2>1, <2>2, <3>2
    <3>4. call[s] \in ThreadStates /\ call[s] # NoCall
      BY <2>3, NoCallNowhere, NoConnAssumption DEF IpcTypeOK
    <3>5. call[s].pc \in {"head", "body", "wait", "rest"}
      BY <3>4 DEF ThreadStates, UsesFd
    <3> QED BY <3>1, <3>3, <3>5 DEF Asking
  <2>4. PICK s \in Callers : call[s].on = c
    <3>1. ~AtRest(c)
      BY <2>1, <2>2 DEF AtRest
    <3> QED BY <3>1 DEF Clean
  <2> DEFINE k == call[s].k
             head == <<"head", k>>
             body == <<"body", k>>
  <2>5. up[c] = <<head, body>> /\ down[c] = <<>>
    BY <2>3, <2>4
  <2>6. up[c][1] = head /\ up[c][2] = body /\ Tail(Tail(up[c])) = <<>>
    BY <2>5, TwoPieces
  <2>7. up[c][1][2] = k /\ bad = FALSE
    BY <2>6
  <2>8. conn'[c] = [pc |-> "check", k |-> k, bad |-> FALSE] /\ up'[c] = <<>> /\ torn' = torn
    BY <2>1, <2>6, <2>7 DEF IpcTypeOK
  <2>9. ASSUME NEW r \in Callers, call'[r].on = c
        PROVE  Answering(c, call[r])' /\ Asking(c, call[r])'
    <3>1. call[r].pc = "wait" /\ up[c] = <<<<"head", call[r].k>>, <<"body", call[r].k>>>>
      BY <2>1, <2>3, <2>9
    <3>2. up[c][1] = <<"head", call[r].k>>
      BY <3>1, TwoPieces
    <3>3. call[r].k = k
      BY <2>6, <3>2
    <3>4. call'[r] = call[r] /\ down'[c] = <<>>
      BY <2>1, <2>5
    <3>5. Answering(c, call[r])'
      BY <3>1, <3>4 DEF Answering
    <3>6. Asking(c, call[r])'
      BY <2>8, <3>1, <3>3, <3>4 DEF Asking
    <3> QED BY <3>5, <3>6
  <2>10. \E r \in Callers : call'[r].on = c
    BY <2>1, <2>4
  <2>11. conn'[c].pc = "check" /\ ~conn'[c].bad
    BY <2>8
  <2> QED BY <2>8, <2>9, <2>10, <2>11 DEF Clean
<1> QED BY <1>1, <1>2

LEMMA CheckKeepsClean ==
  ASSUME IpcTypeOK, NEW c \in Conns, Clean(c), CheckDone(c)
  PROVE  Clean(c)'
<1>1. CASE Leaves(c)
  <2>1. conn'[c] = NoFrame("closed")
    BY <1>1 DEF Leaves, IpcTypeOK
  <2> QED BY <2>1, CleanLeft DEF CheckDone, driverVars
<1>2. CASE conn' = [conn EXCEPT ![c] = [conn[c] EXCEPT !.pc = "run"]]
  <2>1. conn[c] \in ConnStates /\ conn[c].pc = "check"
    BY DEF CheckDone, IpcTypeOK
  <2>2. conn'[c].pc = "run" /\ conn'[c].k = conn[c].k /\ conn'[c].bad = conn[c].bad
    BY <1>2, <2>1 DEF IpcTypeOK, ConnStates
  <2>3. UNCHANGED <<call, up, down, torn, executed, shut>>
    BY DEF CheckDone, driverVars
  <2>4. AtRest(c) => AtRest(c)'
    BY <2>1, <2>3 DEF AtRest, Quiet, Closed
  <2>5. ASSUME NEW s \in Callers, call'[s].on = c
        PROVE  Answering(c, call[s])' /\ (Closed(c)' \/ Asking(c, call[s])')
    <3>1. Answering(c, call[s]) /\ (Closed(c) \/ Asking(c, call[s]))
      BY <2>3, <2>5 DEF Clean
    <3>2. Answering(c, call[s])'
      BY <2>3, <3>1 DEF Answering
    <3>3. Asking(c, call[s]) => Asking(c, call[s])'
      BY <2>1, <2>2, <2>3 DEF Asking, Quiet
    <3>4. Closed(c) => Closed(c)'
      BY <2>1, <2>3 DEF Closed
    <3> QED BY <3>1, <3>2, <3>3, <3>4
  <2> QED BY <2>2, <2>3, <2>4, <2>5 DEF Clean
<1> QED BY <1>1, <1>2 DEF CheckDone

LEMMA ExecuteKeepsClean ==
  ASSUME IpcTypeOK, NEW c \in Conns, Clean(c), Execute(c)
  PROVE  Clean(c)'
<1>1. conn[c] \in ConnStates /\ conn[c].pc = "run" /\ ~conn[c].bad
  BY DEF Execute, IpcTypeOK, Clean
<1>2. conn'[c].pc = "head" /\ conn'[c].k = conn[c].k /\ conn'[c].bad = conn[c].bad
  BY <1>1 DEF Execute, IpcTypeOK, ConnStates
<1>3. executed' = executed \cup {conn[c].k} /\ UNCHANGED <<call, up, down, torn, shut>>
  BY <1>1 DEF Execute, driverVars
<1>4. AtRest(c) => AtRest(c)'
  BY <1>1, <1>3 DEF AtRest, Quiet, Closed
<1>5. ASSUME NEW s \in Callers, call'[s].on = c
      PROVE  Answering(c, call[s])' /\ (Closed(c)' \/ Asking(c, call[s])')
  <2>1. Answering(c, call[s]) /\ (Closed(c) \/ Asking(c, call[s]))
    BY <1>3, <1>5 DEF Clean
  <2>2. Answering(c, call[s])'
    BY <1>3, <2>1 DEF Answering
  <2>3. Asking(c, call[s]) => Asking(c, call[s])'
    BY <1>1, <1>2, <1>3 DEF Asking, Quiet
  <2>4. Closed(c) => Closed(c)'
    BY <1>1, <1>3 DEF Closed
  <2> QED BY <2>1, <2>2, <2>3, <2>4
<1> QED BY <1>1, <1>2, <1>3, <1>4, <1>5 DEF Clean

\* An answer is written to the call that has asked and still waits.
LEMMA WriteKeepsClean ==
  ASSUME IpcTypeOK, UsesFd, NEW c \in Conns, Clean(c), Write(c)
  PROVE  Clean(c)'
<1>1. CASE Leaves(c) /\ UNCHANGED down
  <2>1. conn'[c] = NoFrame("closed")
    BY <1>1 DEF Leaves, IpcTypeOK
  <2> QED BY <1>1, <2>1, CleanLeft DEF Write, driverVars
<1>2. CASE ~(Leaves(c) /\ UNCHANGED down)
  <2> DEFINE k == conn[c].k
             head == <<"head", k>>
             body == <<"body", k>>
  <2>1. /\ conn[c].pc \in {"head", "body"} /\ c \notin shut
        /\ down' = [down EXCEPT ![c] = Append(down[c], <<conn[c].pc, k>>)]
        /\ conn' = [conn EXCEPT ![c] = IF conn[c].pc = "head" THEN [conn[c] EXCEPT !.pc = "body"]
                                      ELSE NoFrame("read")]
        /\ UNCHANGED <<call, up, torn, executed, shut>>
    BY <1>2 DEF Write, driverVars
  <2>2. ~Closed(c) /\ ~Quiet(c) /\ k \in executed /\ ~conn[c].bad /\ conn[c] \in ConnStates
    BY <2>1 DEF Closed, Quiet, Clean, IpcTypeOK
  <2>3. \E s \in Callers : call'[s].on = c
    BY <2>1, <2>2 DEF Clean, AtRest
  <2>4. down'[c] = Append(down[c], <<conn[c].pc, k>>)
    BY <2>1 DEF IpcTypeOK
  <2>5. CASE conn[c].pc = "head"
    <3>1. conn'[c].pc = "body" /\ conn'[c].k = k /\ ~conn'[c].bad
      BY <2>1, <2>2, <2>5 DEF IpcTypeOK, ConnStates
    <3>2. ASSUME NEW s \in Callers, call'[s].on = c
          PROVE  Answering(c, call[s])' /\ Asking(c, call[s])'
      <4>1. Asking(c, call[s]) /\ call'[s] = call[s] /\ call[s] # NoCall
        BY <2>1, <2>2, <3>2, NoCallNowhere, NoConnAssumption DEF Clean
      <4>2. call[s].pc = "wait" /\ up[c] = <<>> /\ down[c] = <<>> /\ call[s].k = k
        BY <2>2, <2>5, <4>1 DEF Asking, UsesFd, IpcTypeOK, ThreadStates
      <4>3. down'[c] = <<head>> /\ up'[c] = <<>>
        BY <2>1, <2>4, <2>5, <4>2, OnePiece
      <4>4. Answering(c, call[s])'
        BY <2>1, <2>2, <4>1, <4>2, <4>3 DEF Answering
      <4>5. Asking(c, call[s])'
        BY <3>1, <4>1, <4>2, <4>3 DEF Asking
      <4> QED BY <4>4, <4>5
    <3> QED BY <2>1, <2>2, <2>3, <3>1, <3>2 DEF Clean
  <2>6. CASE conn[c].pc = "body"
    <3>1. conn'[c].pc = "read" /\ ~conn'[c].bad
      BY <2>1, <2>6 DEF IpcTypeOK, NoFrame
    <3>2. ASSUME NEW s \in Callers, call'[s].on = c
          PROVE  Answering(c, call[s])' /\ Asking(c, call[s])'
      <4>1. Asking(c, call[s]) /\ Answering(c, call[s]) /\ call'[s] = call[s] /\ call[s] # NoCall
        BY <2>1, <2>2, <3>2, NoCallNowhere, NoConnAssumption DEF Clean
      <4>2. up[c] = <<>> /\ call[s].k = k /\ \/ call[s].pc = "wait" /\ down[c] = <<head>>
                                             \/ call[s].pc = "rest" /\ down[c] = <<>>
        BY <2>2, <2>6, <4>1 DEF Asking, UsesFd, IpcTypeOK, ThreadStates
      <4>3. CASE call[s].pc = "wait"
        <5>1. down'[c] = Append(<<head>>, body)
          BY <2>4, <2>6, <4>2, <4>3
        <5>2. Append(<<head>>, body) = <<head, body>>
          BY TwoPieces, Zenon
        <5>3. Answering(c, call[s])'
          BY <2>1, <2>2, <4>1, <4>2, <4>3, <5>1, <5>2 DEF Answering
        <5>4. Asking(c, call[s])'
          BY <2>1, <3>1, <4>1, <4>2, <4>3, <5>1, <5>2 DEF Asking, Quiet
        <5> QED BY <5>3, <5>4
      <4>4. CASE call[s].pc = "rest"
        <5>1. down'[c] = <<body>>
          BY <2>4, <2>6, <4>2, <4>4, OnePiece
        <5>2. Answering(c, call[s])'
          BY <2>1, <2>2, <4>1, <4>2, <4>4, <5>1 DEF Answering
        <5>3. Asking(c, call[s])'
          BY <2>1, <3>1, <4>1, <4>2, <4>4, <5>1 DEF Asking, Quiet
        <5> QED BY <5>2, <5>3
      <4> QED BY <4>2, <4>3, <4>4
    <3> QED BY <2>1, <2>2, <2>3, <3>1, <3>2 DEF Clean
  <2> QED BY <2>1, <2>5, <2>6
<1> QED BY <1>1, <1>2

LEMMA DaemonKeepsStreams ==
  ASSUME IpcTypeOK, Library, Streams, Daemon
  PROVE  Streams'
<1>1. disturbed \subseteq disturbed' /\ shut \subseteq shut' /\ executed \subseteq executed'
      /\ UNCHANGED call
  BY ZenonT(40) DEF Daemon, Serve, Accept, Track, ReadFrame, CheckDone, Execute, Write, IdleTimeout,
         PushFrame, Broadcast, Stop, Drain, ForceClose, Exit, driverVars
<1> SUFFICES ASSUME NEW c \in Conns, c \notin disturbed' PROVE Clean(c)'
  BY DEF Streams
<1>2. Clean(c)
  BY <1>1 DEF Streams
\* Nothing has happened to c.
<1>3. ASSUME conn'[c] = conn[c], up'[c] = up[c], down'[c] = down[c],
             \A side : <<side, c>> \in torn' => <<side, c>> \in torn
      PROVE  Clean(c)'
  <2>1. Closed(c) => Closed(c)'
    BY <1>1, <1>3 DEF Closed
  <2> QED BY <1>1, <1>2, <1>3, <2>1, CleanFrame
<1>4. ASSUME NEW d \in Conns, Serve(d) \/ IdleTimeout(d) PROVE Clean(c)'
  <2>1. CASE d # c
    <3>1. conn'[c] = conn[c] /\ up'[c] = up[c] /\ down'[c] = down[c]
      BY <1>4, <2>1 DEF Serve, Accept, Track, ReadFrame, CheckDone, Execute, Write, IdleTimeout,
                        Leaves, IpcTypeOK
    <3>2. \A side : <<side, c>> \in torn' => <<side, c>> \in torn
      <4>1. torn' \subseteq torn \cup {<<"up", d>>}
        BY <1>4 DEF Serve, Accept, Track, ReadFrame, CheckDone, Execute, Write, IdleTimeout
      <4> QED BY <2>1, <4>1
    <3> QED BY <1>3, <3>1, <3>2
  <2>2. CASE d = c
    <3>1. CASE Accept(c) \/ Track(c)
      <4>1. conn[c] \in ConnStates
        BY DEF IpcTypeOK
      <4>2. Quiet(c) /\ Quiet(c)' /\ conn'[c].bad = conn[c].bad
        BY <3>1, <4>1 DEF Accept, Track, Quiet, IpcTypeOK, ConnStates
      <4>3. ~conn'[c].bad
        BY <1>2, <4>2 DEF Clean
      <4>4. UNCHANGED <<call, up, down, torn, executed, shut>>
        BY <3>1 DEF Accept, Track, driverVars
      <4> QED BY <1>2, <4>2, <4>3, <4>4, CleanQuiet
    <3>2. CASE IdleTimeout(c)
      <4>1. conn'[c] = NoFrame("closed")
        BY <3>2 DEF IdleTimeout, Leaves, IpcTypeOK
      <4> QED BY <1>2, <3>2, <4>1, CleanLeft DEF IdleTimeout, driverVars
    <3> QED BY <1>2, <1>4, <2>2, <3>1, <3>2, ReadKeepsClean, CheckKeepsClean, ExecuteKeepsClean,
               WriteKeepsClean DEF Serve, Library
  <2> QED BY <2>1, <2>2
<1>5. ASSUME NEW d \in Conns, PushFrame(d) PROVE Clean(c)'
  <2>1. d # c
    BY <1>1, <1>5 DEF PushFrame, Library, Disturbing
  <2> QED BY <1>3, <1>5, <2>1 DEF PushFrame, IpcTypeOK
<1>6. CASE Broadcast \/ Drain \/ ForceClose
  BY <1>3, <1>6 DEF Broadcast, Drain, ForceClose, driverVars
<1>7. CASE Stop \/ Exit
  <2>1. UNCHANGED <<call, up, down, torn, executed>>
    BY <1>7 DEF Stop, Exit, driverVars
  <2>2. conn'[c] = conn[c] \/ conn'[c] = NoFrame("closed")
    BY <1>7 DEF Stop, Exit
  <2> QED BY <1>2, <1>3, <2>1, <2>2, CleanLeft
<1> QED BY <1>4, <1>5, <1>6, <1>7 DEF Daemon

LEMMA StreamsKeep == IpcTypeOK /\ Library /\ Streams /\ [IpcNext]_ipcVars => Streams'
<1> SUFFICES ASSUME IpcTypeOK, Library, Streams, [IpcNext]_ipcVars PROVE Streams'
  OBVIOUS
<1>1. CASE UNCHANGED ipcVars \/ Finalize
  <2> SUFFICES ASSUME NEW c \in Conns, c \notin disturbed' PROVE Clean(c)'
    BY DEF Streams
  <2>1. UNCHANGED <<conn, up, down, torn, executed, shut, call, disturbed>>
    BY <1>1 DEF ipcVars, Finalize, daemonVars
  <2>2. Clean(c) /\ (Closed(c) => Closed(c)')
    BY <2>1 DEF Streams, Closed
  <2> QED BY <2>1, <2>2, CleanFrame
<1> QED BY <1>1, NextSplits, BeginKeepsStreams, InitializeKeepsStreams, ThreadKeepsStreams,
           DaemonKeepsStreams

----------------------------------------------------------------------------
(* The invariant. *)

LEMMA InitIpcInv == IpcInit => IpcInv
<1> SUFFICES ASSUME IpcInit PROVE IpcInv
  OBVIOUS
<1>1. IpcTypeOK
  BY InitTypes
<1>2. \A t \in Callers : call[t] = NoCall
  BY DEF IpcInit
<1>3. \A c \in Conns : conn[c].pc = "none" /\ ~conn[c].bad
  BY DEF IpcInit, NoFrame
<1>4. UsesFd /\ ShakesAlone
  BY <1>2 DEF UsesFd, ShakesAlone
<1>5. Disturbing /\ Unopened
  BY <1>2, NoConnAssumption DEF IpcInit, Disturbing, Unopened
<1>6. Streams
  BY <1>2, <1>3, NoCallNowhere, NoConnAssumption DEF IpcInit, Streams, Clean, AtRest, Quiet
<1>7. Ended
  BY DEF IpcInit, Ended
<1>8. DrainedIsQuiet
  BY DEF IpcInit, DrainedIsQuiet
<1> QED BY <1>1, <1>4, <1>5, <1>6, <1>7, <1>8 DEF IpcInv

LEMMA IpcInductive == IpcSpec => []IpcInv
<1>1. IpcInv /\ [IpcNext]_ipcVars => IpcInv'
  BY NextTypes, LibraryKeeps, StreamsKeep, EndedKeeps, DrainedKeeps DEF IpcInv, Library
<1> QED BY InitIpcInv, <1>1, PTL DEF IpcSpec

\* Every variable of the channel keeps its type; a frame that is read carries the number
\* of a call.
THEOREM IpcTypeCorrect == IpcSpec => []IpcTypeOK
<1>1. IpcInv => IpcTypeOK
  BY DEF IpcInv
<1> QED BY <1>1, IpcInductive, PTL

\* However many threads, connections, calls and events there are and however the daemon
\* stops: a call ends with its own answer, or because its connection was closed, unless
\* two threads shared the connection or an event was pushed to it (ipc_client.c:270-303,
\* server.go:206-226).
THEOREM AnswersExplainedCorrect == IpcSpec => []AnswersExplained
<1>1. IpcInv => AnswersExplained
  <2> SUFFICES ASSUME IpcInv PROVE AnswersExplained
    OBVIOUS
  <2>1. ASSUME NEW c \in Conns, c \notin disturbed
        PROVE  /\ \A side \in {"up", "down"} : <<side, c>> \notin torn
               /\ \A t \in Callers : call[t].on = c /\ call[t].pc = "rest" =>
                     call[t].from = call[t].k
    <3>1. Clean(c)
      BY <2>1 DEF IpcInv, Streams
    <3> QED BY <3>1 DEF Clean, Answering
  <2>2. Ended
    BY DEF IpcInv
  <2> QED BY <2>1, <2>2 DEF AnswersExplained, Ended
<1> QED BY <1>1, IpcInductive, PTL

\* Once GracefulStop has found every connection ended, no handler runs and no answer is
\* being written, even on a connection accepted before and tracked after
\* (server.go:123-137, :185, :249-254).
THEOREM DrainedIsQuietCorrect == IpcSpec => []DrainedIsQuiet
<1>1. IpcInv => DrainedIsQuiet
  BY DEF IpcInv
<1> QED BY <1>1, IpcInductive, PTL

\* A thread in a call uses g_fd as it is now, and during a handshake it is alone: a
\* connection that is refused or finalized has no other thread on it
\* (ipc_client.c:408-436, pkcs11-mock.c:240-276).
THEOREM OneConnection == IpcSpec => [](UsesFd /\ ShakesAlone)
<1>1. IpcInv => UsesFd /\ ShakesAlone
  BY DEF IpcInv
<1> QED BY <1>1, IpcInductive, PTL

----------------------------------------------------------------------------
(* SessionOperations.                                                       *)

USE KindsAssumption, HandlesAssumption, BoundsAssumption, NoCertAssumption

\* The results of a search are a sequence of handles.
LEMMA FoundIsSeq ==
  ASSUME NEW n \in Nat, NEW m \in Nat, NEW r \in [1 .. n -> 1 .. m]
  PROVE  r \in Seq(Nat) /\ Len(r) = n
<1>1. r \in [1 .. n -> Nat]
  OBVIOUS
<1>2. r \in Seq(Nat)
  BY <1>1, SeqDef
<1> QED BY <1>1, <1>2, LenProperties

\* A page leaves the position within the results.
LEMMA PageStaysInside ==
  ASSUME NEW p \in Nat, NEW n \in Nat, p <= n, NEW max \in Nat
  PROVE  /\ p + (IF max > n - p THEN n - p ELSE max) \in Nat
         /\ p + (IF max > n - p THEN n - p ELSE max) <= n
  OBVIOUS

LEMMA DeletedIsSeq ==
  ASSUME NEW q \in Seq(Certs), NEW i \in 1 .. Len(q)
  PROVE  SubSeq(q, 1, i - 1) \o SubSeq(q, i + 1, Len(q)) \in Seq(Certs)
<1>1. SubSeq(q, 1, i - 1) \in Seq(Certs)
  BY SubSeqProperties, LenProperties
<1>2. SubSeq(q, i + 1, Len(q)) \in Seq(Certs)
  BY SubSeqProperties, LenProperties
<1> QED BY <1>1, <1>2, ConcatProperties

----------------------------------------------------------------------------
(* What ties the parts together. *)

\* The copy the session holds of its last Init.
LastInit ==
    \A s \in Sessions, k \in Kinds :
        active[s][k] => /\ named[s][k] # <<>>
                        /\ opHandle[s][k] = named[s][k][Len(named[s][k])]

\* A request in the provider carries the handle its own Init named.
CarriesInit ==
    \A t \in Workers :
        stage[t] # "idle" => /\ job[t].kind \in Kinds
                          /\ job[t].handle \in ObjectHandles
                          /\ job[t].handle = job[t].want

\* Only the key of the current login is in memory.
OneKey == intact = IF login = 0 THEN {} ELSE {login}

IInv == OpsTypeOK /\ PagesStayInside /\ OneOperationPerInit /\ LastInit
          /\ CarriesInit /\ OneKey

JobTypeOK == stage \in [Workers -> {"idle", "lookup", "unwrap", "compute"}]
               /\ job \in [Workers -> Jobs]

\* Init establishes the invariant.
LEMMA InitIInv == OpsInit => IInv
<1> SUFFICES ASSUME OpsInit PROVE IInv
  OBVIOUS
<1>1. card \in Seq(Certs)
  <2>1. \A c \in Certs : <<c>> \in Seq(Certs)
    OBVIOUS
  <2> QED BY <2>1, EmptySeq DEF OpsInit
<1>2. \A s \in Sessions, k \in Kinds :
        named[s][k] = <<>> /\ spent[s][k] = 0 /\ active[s][k] = FALSE
  BY DEF OpsInit
<1>3. OpsTypeOK
  <2>1. NoJob \in Jobs
    BY DEF NoJob, Jobs
  <2>2. JobTypeOK
    BY <2>1 DEF OpsInit, JobTypeOK
  <2>3. /\ active \in PerOp(BOOLEAN) /\ opHandle \in PerOp(ObjectHandles \cup {0})
        /\ spent \in PerOp(Nat)
    BY DEF OpsInit, PerOp
  <2>4. named \in PerOp(Seq(ObjectHandles))
    BY EmptySeq DEF OpsInit, PerOp
  <2>5. found \in [Sessions -> Seq(Nat)] /\ objects \in Seq(Certs)
    BY EmptySeq DEF OpsInit
  <2> QED BY <1>1, <2>2, <2>3, <2>4, <2>5 DEF OpsInit, OpsTypeOK, JobTypeOK
<1>4. PagesStayInside
  BY DEF OpsInit, PagesStayInside
<1>5. OneOperationPerInit /\ LastInit
  BY <1>2 DEF OneOperationPerInit, LastInit
<1>6. CarriesInit /\ OneKey
  BY DEF OpsInit, CarriesInit, OneKey
<1> QED BY <1>3, <1>4, <1>5, <1>6 DEF IInv

----------------------------------------------------------------------------
(* The card and the token. *)

LEMMA CardKeeps == ASSUME IInv, Card PROVE IInv'
<1>1. card' \in Seq(Certs)
  <2>1. ASSUME NEW c \in Certs, AddCert(c) PROVE card' \in Seq(Certs)
    <3>1. <<c>> \in Seq(Certs)
      OBVIOUS
    <3> QED BY <2>1, <3>1, ConcatProperties DEF AddCert, IInv, OpsTypeOK
  <2>2. ASSUME NEW c \in Certs, DeleteCert(c) PROVE card' \in Seq(Certs)
    BY <2>2, DeletedIsSeq DEF DeleteCert, IInv, OpsTypeOK
  <2> QED BY <2>1, <2>2 DEF Card
<1>2. UNCHANGED <<logins, login, intact, objects, opVars, findVars, stage, job>>
  BY DEF Card, AddCert, DeleteCert
<1> QED BY <1>1, <1>2 DEF IInv, OpsTypeOK, PagesStayInside, OneOperationPerInit,
           LastInit, CarriesInit, OneKey, opVars, findVars

LEMMA TokenKeeps == ASSUME IInv, Token PROVE IInv'
<1>1. UNCHANGED <<card, opVars, findVars, stage, job>>
  BY DEF Token, Login, Logout
<1>2. /\ logins' \in 0 .. MaxLogins /\ login' \in 0 .. logins'
      /\ intact' \subseteq 1 .. logins' /\ OneKey'
  <2>1. CASE Login
    BY <2>1 DEF Login, IInv, OpsTypeOK, OneKey
  <2>2. CASE Logout
    BY <2>2 DEF Logout, IInv, OpsTypeOK, OneKey
  <2> QED BY <2>1, <2>2 DEF Token
<1>3. objects' \in Seq(Certs)
  BY EmptySeq DEF Token, Login, Logout, IInv, OpsTypeOK
<1> QED BY <1>1, <1>2, <1>3 DEF IInv, OpsTypeOK, PagesStayInside,
           OneOperationPerInit, LastInit, CarriesInit, opVars, findVars

(* Searching. *)

LEMMA SearchKeeps ==
  ASSUME IInv, NEW t \in Workers, Search(t) PROVE IInv'
<1>1. UNCHANGED <<slotVars, opVars, stage, job>>
  BY DEF Search, FindObjectsInit, FindObjects, FindObjectsFinal
<1>2. /\ finding' \in [Sessions -> BOOLEAN] /\ found' \in [Sessions -> Seq(Nat)]
      /\ pos' \in [Sessions -> Nat] /\ PagesStayInside'
  <2> USE DEF IInv, OpsTypeOK, PagesStayInside
  <2>1. ASSUME NEW s \in Sessions, FindObjectsInit(t, s)
        PROVE  /\ finding' \in [Sessions -> BOOLEAN]
               /\ found' \in [Sessions -> Seq(Nat)]
               /\ pos' \in [Sessions -> Nat] /\ PagesStayInside'
    <3>1. PICK n \in 0 .. Len(objects) :
             \E r \in [1 .. n -> 1 .. Len(objects)] :
               found' = [found EXCEPT ![s] = r]
      BY <2>1 DEF FindObjectsInit
    <3>2. n \in Nat /\ Len(objects) \in Nat
      BY LenProperties
    <3>4. PICK r \in [1 .. n -> 1 .. Len(objects)] :
               found' = [found EXCEPT ![s] = r]
      BY <3>1
    <3>3. r \in Seq(Nat) /\ Len(r) = n
      BY <3>2, <3>4, FoundIsSeq
    <3> QED BY <2>1, <3>2, <3>3, <3>4 DEF FindObjectsInit
  <2>2. ASSUME NEW s \in Sessions, NEW max \in ObjectHandles, FindObjects(t, s, max)
        PROVE  /\ finding' \in [Sessions -> BOOLEAN]
               /\ found' \in [Sessions -> Seq(Nat)]
               /\ pos' \in [Sessions -> Nat] /\ PagesStayInside'
    <3>1. Len(found[s]) \in Nat /\ pos[s] \in Nat /\ max \in Nat
      BY LenProperties
    <3>2. pos'[s] \in Nat /\ pos'[s] <= Len(found[s])
      BY <2>2, <3>1, PageStaysInside DEF FindObjects
    <3> QED BY <2>2, <3>2 DEF FindObjects
  <2>3. ASSUME NEW s \in Sessions, FindObjectsFinal(t, s)
        PROVE  /\ finding' \in [Sessions -> BOOLEAN]
               /\ found' \in [Sessions -> Seq(Nat)]
               /\ pos' \in [Sessions -> Nat] /\ PagesStayInside'
    BY <2>3, EmptySeq DEF FindObjectsFinal
  <2> QED BY <2>1, <2>2, <2>3 DEF Search
<1> QED BY <1>1, <1>2 DEF IInv, OpsTypeOK, OneOperationPerInit, LastInit,
           CarriesInit, OneKey, slotVars, opVars

(* Signing, decrypting and encrypting. *)

LEMMA BeginKeeps ==
  ASSUME IInv, NEW t \in Workers, Begin(t) PROVE IInv'
<1> USE DEF IInv, OpsTypeOK
<1>1. ASSUME NEW s \in Sessions, NEW k \in Kinds, NEW h \in ObjectHandles,
             OperationInit(t, s, k, h)
      PROVE IInv'
  <2>1. UNCHANGED <<slotVars, findVars, stage, job, spent>>
    BY <1>1 DEF OperationInit
  <2>2. named[s][k] \in Seq(ObjectHandles)
    BY DEF PerOp
  <2>3. /\ Append(named[s][k], h) \in Seq(ObjectHandles)
        /\ Len(Append(named[s][k], h)) = Len(named[s][k]) + 1
        /\ Append(named[s][k], h)[Len(named[s][k]) + 1] = h
    BY <2>2, AppendProperties
  <2>4. /\ named' \in PerOp(Seq(ObjectHandles))
        /\ named'[s][k] = Append(named[s][k], h)
        /\ \A r \in Sessions, l \in Kinds :
             r # s \/ l # k => named'[r][l] = named[r][l]
    <3>1. named \in PerOp(Seq(ObjectHandles))
      OBVIOUS
    <3>2. named' = [named EXCEPT ![s][k] = Append(named[s][k], h)]
      BY <1>1 DEF OperationInit
    <3> HIDE DEF IInv, OpsTypeOK
    <3> QED BY <2>3, <3>1, <3>2 DEF PerOp
  <2>5. /\ opHandle' \in PerOp(ObjectHandles \cup {0})
        /\ opHandle'[s][k] = h
        /\ \A r \in Sessions, l \in Kinds :
             r # s \/ l # k => opHandle'[r][l] = opHandle[r][l]
    <3>1. opHandle \in PerOp(ObjectHandles \cup {0}) /\ h \in ObjectHandles \cup {0}
      OBVIOUS
    <3>2. opHandle' = [opHandle EXCEPT ![s][k] = h]
      BY <1>1 DEF OperationInit
    <3> HIDE DEF IInv, OpsTypeOK
    <3> QED BY <3>1, <3>2 DEF PerOp
  <2>6. /\ active' \in PerOp(BOOLEAN)
        /\ active'[s][k] = TRUE
        /\ \A r \in Sessions, l \in Kinds :
             r # s \/ l # k => active'[r][l] = active[r][l]
    <3>1. active \in PerOp(BOOLEAN) /\ TRUE \in BOOLEAN
      OBVIOUS
    <3>2. active' = [active EXCEPT ![s][k] = TRUE]
      BY <1>1 DEF OperationInit
    <3> HIDE DEF IInv, OpsTypeOK
    <3> QED BY <3>1, <3>2 DEF PerOp
  <2>7. OneOperationPerInit'
    <3>0. OneOperationPerInit
      OBVIOUS
    <3> HIDE DEF IInv, OpsTypeOK
    <3> SUFFICES ASSUME NEW r \in Sessions, NEW l \in Kinds
                 PROVE Len(named[r][l])' =
                         (spent[r][l] + (IF active[r][l] THEN 1 ELSE 0))'
      BY DEF OneOperationPerInit
    <3>1. CASE r = s /\ l = k
      <4>1. ~active[s][k] /\ Len(named[s][k]) = spent[s][k] + 0
        BY <1>1 DEF IInv, OpsTypeOK, PerOp, OperationInit, OneOperationPerInit
      <4>2. spent[s][k] \in Nat
        BY DEF IInv, OpsTypeOK, PerOp
      <4> QED BY <2>1, <2>3, <2>4, <2>6, <3>1, <4>1, <4>2
    <3>2. CASE r # s \/ l # k
      BY <2>1, <2>4, <2>6, <3>0, <3>2 DEF OneOperationPerInit
    <3> QED BY <3>1, <3>2
  <2>8. LastInit'
    <3>0. LastInit
      OBVIOUS
    <3> HIDE DEF IInv, OpsTypeOK
    <3> SUFFICES ASSUME NEW r \in Sessions, NEW l \in Kinds, active'[r][l]
                 PROVE /\ named'[r][l] # <<>>
                       /\ opHandle'[r][l] = named'[r][l][Len(named'[r][l])]
      BY DEF LastInit
    <3>1. CASE r = s /\ l = k
      <4>1. Len(named[s][k]) \in Nat
        BY <2>2, LenProperties
      <4> QED BY <2>3, <2>4, <2>5, <3>1, <4>1, EmptySeq
    <3>2. CASE r # s \/ l # k
      BY <2>4, <2>5, <2>6, <3>0, <3>2 DEF LastInit
    <3> QED BY <3>1, <3>2
  <2> QED BY <2>1, <2>4, <2>5, <2>6, <2>7, <2>8
          DEF PagesStayInside, CarriesInit, OneKey, slotVars, findVars
<1>2. ASSUME NEW s \in Sessions, NEW k \in Kinds, Operation(t, s, k)
      PROVE IInv'
  <2>1. /\ UNCHANGED <<slotVars, findVars, opHandle, named>>
        /\ active[s][k]
    BY <1>2 DEF Operation, Enter, MayOperate
  <2>2. /\ named[s][k] \in Seq(ObjectHandles) /\ spent[s][k] \in Nat
        /\ Len(named[s][k]) = spent[s][k] + 1
    BY <2>1 DEF OneOperationPerInit, PerOp
  <2>3. /\ opHandle[s][k] = named[s][k][spent[s][k] + 1]
        /\ opHandle[s][k] \in ObjectHandles
    BY <2>1, <2>2, ElementOfSeq DEF LastInit
  <2>4. /\ spent' \in PerOp(Nat)
        /\ spent'[s][k] = spent[s][k] + 1
        /\ \A r \in Sessions, l \in Kinds :
             r # s \/ l # k => spent'[r][l] = spent[r][l]
    <3>1. spent \in PerOp(Nat) /\ spent[s][k] + 1 \in Nat
      BY <2>2
    <3>2. spent' = [spent EXCEPT ![s][k] = spent[s][k] + 1]
      BY <1>2 DEF Operation, Enter
    <3> HIDE DEF IInv, OpsTypeOK
    <3> QED BY <3>1, <3>2 DEF PerOp
  <2>5. /\ active' \in PerOp(BOOLEAN)
        /\ active'[s][k] = FALSE
        /\ \A r \in Sessions, l \in Kinds :
             r # s \/ l # k => active'[r][l] = active[r][l]
    <3>1. active \in PerOp(BOOLEAN) /\ FALSE \in BOOLEAN
      OBVIOUS
    <3>2. active' = [active EXCEPT ![s][k] = FALSE]
      BY <1>2 DEF Operation
    <3> HIDE DEF IInv, OpsTypeOK
    <3> QED BY <3>1, <3>2 DEF PerOp
  <2>6. OneOperationPerInit'
    <3>0. OneOperationPerInit
      OBVIOUS
    <3> HIDE DEF IInv, OpsTypeOK
    <3> SUFFICES ASSUME NEW r \in Sessions, NEW l \in Kinds
                 PROVE Len(named[r][l])' =
                         (spent[r][l] + (IF active[r][l] THEN 1 ELSE 0))'
      BY DEF OneOperationPerInit
    <3>1. CASE r = s /\ l = k
      BY <2>1, <2>2, <2>4, <2>5, <3>1
    <3>2. CASE r # s \/ l # k
      BY <2>1, <2>4, <2>5, <3>0, <3>2 DEF OneOperationPerInit
    <3> QED BY <3>1, <3>2
  <2>7. LastInit'
    <3>1. \A r \in Sessions, l \in Kinds : active'[r][l] => active[r][l]
      BY <2>5
    <3> QED BY <2>1, <3>1 DEF LastInit
  <2>8. PICK j \in Jobs : /\ job' = [job EXCEPT ![t] = j]
                          /\ j.kind = k /\ j.handle = opHandle[s][k]
                          /\ j.want = opHandle[s][k]
    <3> DEFINE j == [kind |-> k, handle |-> opHandle[s][k], cert |-> NoCert,
                     key |-> 0, want |-> opHandle[s][k]]
    <3>1. j \in Jobs
      BY <2>3 DEF Jobs
    <3>2. job' = [job EXCEPT ![t] = j]
      BY <1>2, <2>3 DEF Operation, Enter
    <3> QED BY <3>1, <3>2
  <2>9. stage' = [stage EXCEPT ![t] = "lookup"]
    BY <1>2 DEF Operation, Enter
  <2>10. CarriesInit'
    BY <2>3, <2>8, <2>9 DEF CarriesInit
  <2>11. /\ stage' \in [Workers -> {"idle", "lookup", "unwrap", "compute"}]
         /\ job' \in [Workers -> Jobs]
    BY <2>8, <2>9
  <2> QED BY <2>1, <2>4, <2>5, <2>6, <2>7, <2>10, <2>11
          DEF PagesStayInside, OneKey, slotVars, findVars
<1> QED BY <1>1, <1>2 DEF Begin

LEMMA ProvideKeeps ==
  ASSUME IInv, NEW t \in Workers, Provide(t) PROVE IInv'
<1> USE DEF IInv, OpsTypeOK
<1>1. UNCHANGED <<slotVars, opVars, findVars>> /\ stage[t] # "idle"
  BY DEF Provide, Lookup, Unwrap, Compute
<1>2. /\ stage' \in [Workers -> {"idle", "lookup", "unwrap", "compute"}]
      /\ job' \in [Workers -> Jobs] /\ CarriesInit'
  <2>1. ASSUME Answer(t)
        PROVE  /\ stage' \in [Workers -> {"idle", "lookup", "unwrap", "compute"}]
               /\ job' \in [Workers -> Jobs] /\ CarriesInit'
    <3>1. NoJob \in Jobs
      BY DEF NoJob, Jobs
    <3> QED BY <2>1, <3>1 DEF Answer, CarriesInit
  <2>2. ASSUME Lookup(t), ~Answer(t)
        PROVE  /\ stage' \in [Workers -> {"idle", "lookup", "unwrap", "compute"}]
               /\ job' \in [Workers -> Jobs] /\ CarriesInit'
    <3> DEFINE c == objects[job[t].handle]
               j == [job[t] EXCEPT !.cert = c, !.key = login]
    <3>1. c \in Certs
      BY <2>2, ElementOfSeq DEF Lookup
    <3>2. login \in 0 .. MaxLogins
      OBVIOUS
    <3>3. j \in Jobs /\ j.kind = job[t].kind /\ j.handle = job[t].handle
          /\ j.want = job[t].want
      <4>1. job[t] \in Jobs
        OBVIOUS
      <4> QED BY <3>1, <3>2, <4>1 DEF Jobs
    <3>4. job' = [job EXCEPT ![t] = j]
      BY <2>2 DEF Lookup
    <3>5. PICK w \in {"unwrap", "compute"} : stage' = [stage EXCEPT ![t] = w]
      BY <2>2 DEF Lookup
    <3> HIDE DEF c, j
    <3> QED BY <1>1, <3>3, <3>4, <3>5 DEF CarriesInit
  <2>3. ASSUME Unwrap(t), ~Answer(t)
        PROVE  /\ stage' \in [Workers -> {"idle", "lookup", "unwrap", "compute"}]
               /\ job' \in [Workers -> Jobs] /\ CarriesInit'
    BY <1>1, <2>3 DEF Unwrap, CarriesInit
  <2> QED BY <2>1, <2>2, <2>3 DEF Provide, Compute
<1> QED BY <1>1, <1>2 DEF PagesStayInside, OneOperationPerInit, LastInit,
        OneKey, slotVars, opVars, findVars

----------------------------------------------------------------------------
(* The theorems. *)

LEMMA StepKeepsIInv == IInv /\ [OpsNext]_sessionVars => IInv'
<1> SUFFICES ASSUME IInv, [OpsNext]_sessionVars PROVE IInv'
  OBVIOUS
<1>1. CASE Card
  BY <1>1, CardKeeps
<1>2. CASE Token
  BY <1>2, TokenKeeps
<1>3. ASSUME NEW t \in Workers, Search(t) PROVE IInv'
  BY <1>3, SearchKeeps
<1>4. ASSUME NEW t \in Workers, Begin(t) PROVE IInv'
  BY <1>4, BeginKeeps
<1>5. ASSUME NEW t \in Workers, Provide(t) PROVE IInv'
  BY <1>5, ProvideKeeps
<1>6. CASE UNCHANGED sessionVars
  BY <1>6 DEF sessionVars, IInv, OpsTypeOK, PagesStayInside, OneOperationPerInit,
     LastInit, CarriesInit, OneKey
<1> QED BY <1>1, <1>2, <1>3, <1>4, <1>5, <1>6 DEF OpsNext

LEMMA Inductive == OpsSpec => []IInv
  BY InitIInv, StepKeepsIInv, PTL DEF OpsSpec

\* Every variable keeps its type.
THEOREM OpsTypeCorrect == OpsSpec => []OpsTypeOK
<1>1. IInv => OpsTypeOK
  BY DEF IInv
<1> QED BY <1>1, Inductive, PTL

\* However many threads page through however many results, C_FindObjects
\* never slices past their end.
THEOREM PagesCorrect == OpsSpec => []PagesStayInside
<1>1. IInv => PagesStayInside
  BY DEF IInv
<1> QED BY <1>1, Inductive, PTL

\* Of any number of racing requests exactly one spends an Init.
THEOREM OneOperationCorrect == OpsSpec => []OneOperationPerInit
<1>1. IInv => OneOperationPerInit
  BY DEF IInv
<1> QED BY <1>1, Inductive, PTL

\* A thread in the provider is moved by its own steps only.
LEMMA BusyMoves ==
  ASSUME OpsTypeOK, OpsNext, NEW t \in Workers, stage[t] # "idle", stage'[t] # stage[t]
  PROVE  Provide(t)
<1>1. CASE Card \/ Token
  BY <1>1 DEF Card, AddCert, DeleteCert, Token, Login, Logout
<1>2. ASSUME NEW u \in Workers, Search(u) PROVE FALSE
  BY <1>2 DEF Search, FindObjectsInit, FindObjects, FindObjectsFinal
<1>3. ASSUME NEW u \in Workers, Begin(u) PROVE FALSE
  <2>1. /\ stage[u] = "idle"
        /\ stage' = stage \/ stage' = [stage EXCEPT ![u] = "lookup"]
    BY <1>3 DEF Begin, OperationInit, Operation, MayOperate, Enter
  <2> QED BY <2>1 DEF OpsTypeOK
<1>4. ASSUME NEW u \in Workers, Provide(u) PROVE u = t
  <2>1. \E w : stage' = [stage EXCEPT ![u] = w]
    BY <1>4 DEF Provide, Lookup, Unwrap, Compute, Answer
  <2> QED BY <2>1 DEF OpsTypeOK
<1> QED BY <1>1, <1>2, <1>3, <1>4 DEF OpsNext

\* An operation works on the object its own Init named.
THEOREM NamedObjectCorrect == OpsSpec => [][WorksOnNamedObject]_sessionVars
<1>1. ASSUME IInv, NEW t \in Workers, OpsNext,
             stage[t] = "lookup", stage'[t] # "idle", stage'[t] # stage[t]
      PROVE  /\ job[t].want \in 1 .. Len(objects)
             /\ job'[t].cert = objects[job[t].want]
  <2>1. Lookup(t)
    BY <1>1, BusyMoves DEF IInv, OpsTypeOK, Answer, Provide, Unwrap, Compute
  <2>2. job[t].want = job[t].handle /\ job[t] \in Jobs
    BY <1>1 DEF IInv, OpsTypeOK, CarriesInit
  <2> QED BY <1>1, <2>1, <2>2 DEF Lookup, Answer, IInv, OpsTypeOK, Jobs
<1>2. IInv /\ [OpsNext]_sessionVars => [WorksOnNamedObject]_sessionVars
  BY <1>1 DEF WorksOnNamedObject
<1> QED BY <1>2, Inductive, PTL DEF OpsSpec

\* A private key is opened only while the login it was looked up in lasts.
THEOREM KeyCorrect == OpsSpec => KeyNeedsItsLogin
<1>1. ASSUME IInv, NEW t \in Workers, OpsNext, stage[t] = "unwrap", stage'[t] = "compute"
      PROVE  login # 0 /\ login = job[t].key
  <2>1. Unwrap(t)
    BY <1>1, BusyMoves DEF IInv, OpsTypeOK, Answer, Provide, Lookup, Compute
  <2>2. job[t].key \in intact
    BY <1>1, <2>1 DEF Unwrap, Answer, IInv, OpsTypeOK
  <2> QED BY <1>1, <2>2 DEF IInv, OneKey
<1>2. IInv /\ [OpsNext]_sessionVars =>
        [\A t \in Workers :
           stage[t] = "unwrap" /\ stage'[t] = "compute" =>
             login # 0 /\ login = job[t].key]_sessionVars
  BY <1>1
<1> QED BY <1>2, Inductive, PTL DEF OpsSpec, KeyNeedsItsLogin

\* Every operation done is one that an Init asked for, on the object it named.
THEOREM OperatesAsToldCorrect == OpsSpec => OperatesAsTold
BY OneOperationCorrect, NamedObjectCorrect, PTL DEF OperatesAsTold
=============================================================================
