--------------------------- MODULE LspClientProofs ---------------------------
(***************************************************************************)
(* The safety of LspClient for every number of calls, every pipe size and  *)
(* every server: a call returns its own answer, frames never mix, and the  *)
(* end of the server is reported last.                                     *)
(***************************************************************************)
EXTENDS LspClient, SequenceTheorems, TLAPS

(* A thread that writes a frame holds the mutex, and only such a thread.   *)
Mutex ==
  /\ holder = "caller" <=> caller.pc \in {"header", "body"}
  /\ holder = "reader" <=> reader.pc \in {"header", "body"}

Asking ==
  /\ caller.op \in {"request", "shutdown"}
  /\ caller.pc \in {"lock", "header", "body", "waiting"}

(* A request under way has the last id and the last number; nothing        *)
(* earlier has either.                                                     *)
Numbered(p) ==
  /\ p.id <= next_id
  /\ p.n <= caller.n
  /\ Asking => (p.id = next_id <=> p.n = caller.n)

NumberedEverywhere ==
  /\ Asking => caller.id = next_id
  /\ caller.pc = "waiting" => Asking
  /\ \A i \in 1 .. Len(stdin) :
       stdin[i].frame.op \in {"request", "shutdown"} => Numbered(stdin[i].frame)
  /\ \A q \in server.pending : Numbered(q)
  /\ server.writing # Nobody /\ server.writing.kind = "response" => Numbered(server.writing)
  /\ \A i \in 1 .. Len(stdout) : stdout[i].kind = "response" => Numbered(stdout[i])
  /\ \A r \in responses : Numbered(r)

(* What the server has read of a frame, and what is on its way to it.      *)
Half == IF server.header = Nobody THEN <<>> ELSE <<Piece("header", server.header)>>
Line == Half \o stdin

Alternates(line) ==
  \A i \in 1 .. Len(line) :
    /\ line[i].part = "body" => i > 1 /\ line[i - 1] = Piece("header", line[i].frame)
    /\ line[i].part = "header" /\ i < Len(line) => line[i + 1] = Piece("body", line[i].frame)

EndsWith(line, frame) == line # <<>> /\ line[Len(line)] = Piece("header", frame)
EndsWhole(line) == line # <<>> => line[Len(line)].part = "body"

(* Only the thread that is between header and body has left the line open. *)
LineInv ==
  /\ Alternates(Line)
  /\ server.alive =>
       /\ caller.pc = "body" => EndsWith(Line, CallerFrame)
       /\ reader.pc = "body" => EndsWith(Line, ReplyFrame)
       /\ caller.pc # "body" /\ reader.pc # "body" => EndsWhole(Line)

(* The reader has ended when the end of the server is known.               *)
EndInv ==
  /\ ~ alive => reader.pc = "ended"
  /\ ExitIsLast

IInv == TypeOK /\ Mutex /\ NumberedEverywhere /\ OwnAnswer /\ LineInv /\ EndInv

-----------------------------------------------------------------------------
LEMMA OpNames ==
  {"request", "notify", "shutdown", "exit"} \subseteq Ops
BY DEF Ops

(* The pieces of a frame are pieces.                                       *)
LEMMA FrameTypes ==
  ASSUME TypeOK, NEW part \in {"header", "body"}
  PROVE  Piece(part, CallerFrame) \in Pieces /\ Piece(part, ReplyFrame) \in Pieces
BY DEF TypeOK, Callers, Readers, Piece, Pieces, Frames, CallerFrame, ReplyFrame

LEMMA RequestOverTypes ==
  ASSUME TypeOK, NEW how \in {"answered", "failed", "exited", "timeout"}, NEW answer \in Nat,
         RequestOver(how, answer)
  PROVE  caller' \in Callers /\ results' \subseteq Results
<1>1. caller' \in Callers
  BY OpNames DEF TypeOK, RequestOver, Callers
<1>2. [n |-> caller.n, how |-> how, answer |-> answer] \in Results
  BY DEF TypeOK, Callers, Results
<1>. QED
  BY <1>1, <1>2 DEF TypeOK, RequestOver

(* The state is well-typed after every step.                               *)
LEMMA TypeStep ==
  ASSUME TypeOK, [Next]_vars
  PROVE  TypeOK'
<1> USE DEF TypeOK
<1>1. CASE StartRequest("request")
  BY <1>1, OpNames DEF StartRequest, shared, Callers
<1>2. CASE StartRequest("shutdown")
  BY <1>2, OpNames DEF StartRequest, shared, Callers
<1>3. CASE StartNotify
  <2>1. caller.n + 1 \in Nat /\ caller.id \in Nat
    BY DEF Callers
  <2>2. caller' \in Callers
    BY <1>3, <2>1, OpNames DEF StartNotify, Callers
  <2>. QED
    BY <1>3, <2>2 DEF StartNotify, shared
<1>4. CASE StartSettle
  <2>1. caller.n + 1 \in Nat /\ caller.id \in Nat
    BY DEF Callers
  <2>2. caller' \in Callers
    BY <1>4, <2>1, OpNames DEF StartSettle, Callers
  <2>. QED
    BY <1>4, <2>2 DEF StartSettle, shared
<1>5. CASE Unwind
  BY <1>5 DEF Unwind, shared, Callers
<1>6. CASE CallerLock
  BY <1>6 DEF CallerLock, shared, Callers
<1>7. CASE CallerHeader
  BY <1>7, BoundsAssumption, FrameTypes DEF CallerHeader, shared, Callers
<1>8. CASE CallerBody
  <2>1. stdin' \in Seq(Pieces) /\ Len(stdin') <= PipeSize
    BY <1>8, BoundsAssumption, FrameTypes DEF CallerBody
  <2>2. caller' \in Callers
    BY <1>8 DEF CallerBody, AfterSend, Callers, Ops
  <2>. QED
    BY <1>8, <2>1, <2>2 DEF CallerBody, shared
<1>9. CASE SendFails
  <2>1. CASE caller.op \in {"request", "shutdown"}
    BY <1>9, <2>1, RequestOverTypes DEF SendFails, shared
  <2>2. CASE caller.op \notin {"request", "shutdown"}
    BY <1>9, <2>2 DEF SendFails, shared, AfterSend, Callers, Ops
  <2>. QED
    BY <2>1, <2>2
<1>10. CASE TakeResponse
  <2>1. PICK r \in Mine : responses' = responses \ {r} /\ RequestOver("answered", r.n)
    BY <1>10 DEF TakeResponse
  <2>2. r.n \in Nat
    BY <2>1 DEF Mine, Questions
  <2>3. caller' \in Callers /\ results' \subseteq Results
    BY <2>1, <2>2, RequestOverTypes
  <2>. QED
    BY <1>10, <2>1, <2>3 DEF TakeResponse
<1>11. CASE SeeExit
  BY <1>11, RequestOverTypes DEF SeeExit, shared
<1>12. CASE TimeOut
  BY <1>12, RequestOverTypes DEF TimeOut, shared
<1>13. CASE Settle
  BY <1>13 DEF Settle, shared, Callers
<1>14. CASE Reap
  BY <1>14 DEF Reap, shared, Callers
<1>15. CASE Kill
  BY <1>15 DEF Kill, shared, Callers, Servers
<1>16. CASE Join
  BY <1>16 DEF Join, shared, Callers
<1>17. CASE ReadResponse
  <2>1. stdout # <<>> /\ stdout' = Tail(stdout) /\ Head(stdout) \in Messages
    BY <1>17 DEF ReadResponse, TakeMessage
  <2>2. [id |-> Head(stdout).id, n |-> Head(stdout).n] \in Questions
    BY <2>1 DEF Messages, Questions
  <2>3. responses' \subseteq Questions
    BY <1>17, <2>2 DEF ReadResponse
  <2>4. stdout' \in Seq(Messages) /\ Len(stdout') <= OutSize
    BY <2>1, BoundsAssumption
  <2>. QED
    BY <1>17, <2>3, <2>4 DEF ReadResponse
<1>18. CASE ReadSignal
  BY <1>18, BoundsAssumption DEF ReadSignal, shared, TakeMessage
<1>19. CASE ReadRequest
  <2>1. stdout # <<>> /\ stdout' = Tail(stdout) /\ Head(stdout) \in Messages
    BY <1>19 DEF ReadRequest, TakeMessage
  <2>2. reader' \in Readers
    BY <1>19, <2>1 DEF ReadRequest, Messages, Readers
  <2>3. stdout' \in Seq(Messages) /\ Len(stdout') <= OutSize
    BY <2>1, BoundsAssumption
  <2>. QED
    BY <1>19, <2>2, <2>3 DEF ReadRequest, shared
<1>20. CASE ReadOther
  BY <1>20, BoundsAssumption DEF ReadOther, shared, TakeMessage
<1>21. CASE ReaderLock
  BY <1>21 DEF ReaderLock, shared, Readers
<1>22. CASE ReaderHeader
  BY <1>22, BoundsAssumption, FrameTypes DEF ReaderHeader, shared, Readers
<1>23. CASE ReaderBody
  BY <1>23, BoundsAssumption, FrameTypes DEF ReaderBody, shared, Readers
<1>24. CASE ReadEof
  BY <1>24 DEF ReadEof, shared, Readers
<1>25. CASE ServerReads
  <2>. DEFINE piece == Head(stdin)
  <2>1. stdin # <<>> /\ stdin' = Tail(stdin) /\ piece \in Pieces
    BY <1>25 DEF ServerReads
  <2>2. piece.frame \in Frames
    BY <2>1 DEF Pieces
  <2>3. [id |-> piece.frame.id, n |-> piece.frame.n] \in Questions
    BY <2>2 DEF Frames, Questions
  <2>4. server' \in Servers
    <3>1. CASE piece.part = "header"
      BY <1>25, <3>1, <2>2 DEF ServerReads, Servers
    <3>2. CASE piece.part # "header"
      BY <1>25, <3>2, <2>3 DEF ServerReads, Servers
    <3>. QED
      BY <3>1, <3>2
  <2>5. stdin' \in Seq(Pieces) /\ Len(stdin') <= PipeSize
    BY <2>1, BoundsAssumption
  <2>. QED
    BY <1>25, <2>4, <2>5 DEF ServerReads, shared
<1>26. CASE ServerAnswers
  <2>1. PICK q \in server.pending :
          server' = [server EXCEPT !.pending = @ \ {q}, !.writing = Message("response", q.id, q.n)]
    BY <1>26 DEF ServerAnswers
  <2>2. Message("response", q.id, q.n) \in Messages
    BY DEF Servers, Message, Messages, Questions
  <2>3. server' \in Servers
    BY <2>1, <2>2 DEF Servers
  <2>. QED
    BY <1>26, <2>3 DEF ServerAnswers, shared
<1>27. CASE ServerSpeaks
  <2>1. PICK kind \in {"request", "signal", "other"} :
          server' = [server EXCEPT !.emitted = @ + 1, !.writing = Message(kind, server.emitted + 1, 0)]
    BY <1>27 DEF ServerSpeaks
  <2>. DEFINE message == Message(kind, server.emitted + 1, 0)
  <2>2. message \in Messages /\ server.emitted + 1 \in Nat
    BY DEF Servers, Message, Messages
  <2>. HIDE DEF message
  <2>3. server' = [server EXCEPT !.emitted = server.emitted + 1, !.writing = message]
    BY <2>1 DEF Servers, message
  <2>4. server' \in Servers
    BY <2>2, <2>3 DEF Servers
  <2>. QED
    BY <1>27, <2>4 DEF ServerSpeaks, shared
<1>28. CASE ServerWrites
  <2>1. server.writing \in Messages
    BY <1>28 DEF ServerWrites, Servers
  <2>2. stdout' \in Seq(Messages) /\ Len(stdout') <= OutSize
    BY <1>28, <2>1, BoundsAssumption DEF ServerWrites
  <2>3. server' \in Servers
    BY <1>28 DEF ServerWrites, Servers
  <2>. QED
    BY <1>28, <2>2, <2>3 DEF ServerWrites, shared
<1>29. CASE ServerDies
  BY <1>29 DEF ServerDies, shared, Servers
<1>30. CASE UNCHANGED vars
  BY <1>30 DEF vars, shared
<1>. QED
  BY <1>1, <1>2, <1>3, <1>4, <1>5, <1>6, <1>7, <1>8, <1>9, <1>10, <1>11, <1>12, <1>13, <1>14, <1>15,
     <1>16, <1>17, <1>18, <1>19, <1>20, <1>21, <1>22, <1>23, <1>24, <1>25, <1>26, <1>27, <1>28, <1>29, <1>30
  DEF Next, CallerStarts, CallerContinues, ReaderSteps

-----------------------------------------------------------------------------
(* Whoever writes holds the mutex, after every step.                       *)
LEMMA MutexStep ==
  ASSUME TypeOK, Mutex, [Next]_vars
  PROVE  Mutex'
<1>. Nobody \notin {"caller", "reader"}
  BY NobodyAssumption
<1>. USE DEF TypeOK, Mutex, Callers, Readers
<1>1. CASE StartRequest("request")
  <2>1. caller.pc = "idle" /\ caller'.pc = "lock" /\ UNCHANGED <<holder, reader>>
    BY <1>1 DEF StartRequest, CanStart
  <2>. QED
    BY <2>1
<1>2. CASE StartRequest("shutdown")
  <2>1. caller.pc = "idle" /\ caller'.pc = "lock" /\ UNCHANGED <<holder, reader>>
    BY <1>2 DEF StartRequest, CanStart
  <2>. QED
    BY <2>1
<1>3. CASE StartNotify
  <2>1. caller.pc = "idle" /\ caller'.pc = "lock" /\ UNCHANGED <<holder, reader>>
    BY <1>3 DEF StartNotify, CanStart
  <2>. QED
    BY <2>1
<1>4. CASE StartSettle
  <2>1. caller.pc = "idle" /\ caller'.pc = "settling" /\ UNCHANGED <<holder, reader>>
    BY <1>4 DEF StartSettle, CanStart
  <2>. QED
    BY <2>1
<1>5. CASE Unwind
  BY <1>5 DEF Unwind
<1>6. CASE CallerLock
  BY <1>6 DEF CallerLock
<1>7. CASE CallerHeader
  BY <1>7 DEF CallerHeader
<1>8. CASE CallerBody
  BY <1>8 DEF CallerBody, AfterSend, Ops
<1>9. CASE SendFails
  BY <1>9 DEF SendFails, RequestOver, AfterSend, Ops
<1>10. CASE TakeResponse
  BY <1>10 DEF TakeResponse, RequestOver, Mine
<1>11. CASE SeeExit
  BY <1>11 DEF SeeExit, RequestOver
<1>12. CASE TimeOut
  BY <1>12 DEF TimeOut, RequestOver
<1>13. CASE Settle
  BY <1>13 DEF Settle
<1>14. CASE Reap
  BY <1>14 DEF Reap
<1>15. CASE Kill
  BY <1>15 DEF Kill
<1>16. CASE Join
  BY <1>16 DEF Join
<1>17. CASE ReadResponse
  BY <1>17 DEF ReadResponse
<1>18. CASE ReadSignal
  BY <1>18 DEF ReadSignal
<1>19. CASE ReadRequest
  BY <1>19 DEF ReadRequest, TakeMessage
<1>20. CASE ReadOther
  BY <1>20 DEF ReadOther
<1>21. CASE ReaderLock
  BY <1>21 DEF ReaderLock
<1>22. CASE ReaderHeader
  BY <1>22 DEF ReaderHeader
<1>23. CASE ReaderBody
  BY <1>23 DEF ReaderBody
<1>24. CASE ReadEof
  BY <1>24 DEF ReadEof
<1>25. CASE ServerReads
  BY <1>25 DEF ServerReads
<1>26. CASE ServerAnswers
  BY <1>26 DEF ServerAnswers
<1>27. CASE ServerSpeaks
  BY <1>27 DEF ServerSpeaks
<1>28. CASE ServerWrites
  BY <1>28 DEF ServerWrites
<1>29. CASE ServerDies
  BY <1>29 DEF ServerDies
<1>30. CASE UNCHANGED vars
  BY <1>30 DEF vars
<1>. QED
  BY <1>1, <1>2, <1>3, <1>4, <1>5, <1>6, <1>7, <1>8, <1>9, <1>10, <1>11, <1>12, <1>13, <1>14, <1>15,
     <1>16, <1>17, <1>18, <1>19, <1>20, <1>21, <1>22, <1>23, <1>24, <1>25, <1>26, <1>27, <1>28, <1>29, <1>30
  DEF Next, CallerStarts, CallerContinues, ReaderSteps

-----------------------------------------------------------------------------
(* Ids and numbers.  How a step of the caller changes what it asks.        *)
CallerMoves ==
  \/ UNCHANGED <<caller, next_id>>
  \/ next_id' = next_id + 1 /\ caller'.n = caller.n + 1 /\ caller'.id = next_id' /\ Asking'
  \/ next_id' = next_id /\ caller'.n \in {caller.n, caller.n + 1} /\ ~ Asking'
  \/ /\ next_id' = next_id /\ caller'.n = caller.n /\ caller'.id = caller.id
     /\ Asking /\ Asking'

LEMMA CallerMovesStep ==
  ASSUME TypeOK, caller.pc = "waiting" => Asking, [Next]_vars
  PROVE  CallerMoves /\ (caller'.pc = "waiting" => Asking')
<1>. USE DEF TypeOK, CallerMoves
<1>1. CASE StartRequest("request")
  BY <1>1 DEF StartRequest, Asking, Callers
<1>2. CASE StartRequest("shutdown")
  BY <1>2 DEF StartRequest, Asking, Callers
<1>3. CASE StartNotify
  BY <1>3 DEF StartNotify, Asking, Callers
<1>4. CASE StartSettle
  BY <1>4 DEF StartSettle, Asking, Callers
<1>5. CASE Unwind
  BY <1>5 DEF Unwind, Asking, Callers
<1>6. CASE CallerLock
  BY <1>6 DEF CallerLock, Asking, Callers
<1>7. CASE CallerHeader
  BY <1>7 DEF CallerHeader, Asking, Callers
<1>8. CASE CallerBody
  BY <1>8 DEF CallerBody, AfterSend, Ops, Asking, Callers
<1>9. CASE SendFails
  BY <1>9 DEF SendFails, RequestOver, AfterSend, Ops, Asking, Callers
<1>10. CASE TakeResponse
  BY <1>10 DEF TakeResponse, RequestOver, Mine, Asking, Callers
<1>11. CASE SeeExit
  BY <1>11 DEF SeeExit, RequestOver, Asking, Callers
<1>12. CASE TimeOut
  BY <1>12 DEF TimeOut, RequestOver, Asking, Callers
<1>13. CASE Settle
  BY <1>13 DEF Settle, Asking, Callers
<1>14. CASE Reap
  BY <1>14 DEF Reap, Asking, Callers
<1>15. CASE Kill
  BY <1>15 DEF Kill, Asking, Callers
<1>16. CASE Join
  BY <1>16 DEF Join, Asking, Callers
<1>17. CASE ReadResponse
  BY <1>17 DEF ReadResponse, Asking
<1>18. CASE ReadSignal
  BY <1>18 DEF ReadSignal, Asking
<1>19. CASE ReadRequest
  BY <1>19 DEF ReadRequest, Asking
<1>20. CASE ReadOther
  BY <1>20 DEF ReadOther, Asking
<1>21. CASE ReaderLock
  BY <1>21 DEF ReaderLock, Asking
<1>22. CASE ReaderHeader
  BY <1>22 DEF ReaderHeader, Asking
<1>23. CASE ReaderBody
  BY <1>23 DEF ReaderBody, Asking
<1>24. CASE ReadEof
  BY <1>24 DEF ReadEof, Asking
<1>25. CASE ServerReads
  BY <1>25 DEF ServerReads, Asking
<1>26. CASE ServerAnswers
  BY <1>26 DEF ServerAnswers, Asking
<1>27. CASE ServerSpeaks
  BY <1>27 DEF ServerSpeaks, Asking
<1>28. CASE ServerWrites
  BY <1>28 DEF ServerWrites, Asking
<1>29. CASE ServerDies
  BY <1>29 DEF ServerDies, Asking
<1>30. CASE UNCHANGED vars
  BY <1>30 DEF vars, Asking
<1>. QED
  BY <1>1, <1>2, <1>3, <1>4, <1>5, <1>6, <1>7, <1>8, <1>9, <1>10, <1>11, <1>12, <1>13, <1>14, <1>15,
     <1>16, <1>17, <1>18, <1>19, <1>20, <1>21, <1>22, <1>23, <1>24, <1>25, <1>26, <1>27, <1>28, <1>29, <1>30
  DEF Next, CallerStarts, CallerContinues, ReaderSteps

(* Numbered(p) of the state after the step.                                *)
NumberedAfter(p) ==
  /\ p.id <= next_id'
  /\ p.n <= caller'.n
  /\ Asking' => (p.id = next_id' <=> p.n = caller'.n)

(* What was numbered before a step is numbered after it.                   *)
LEMMA NumberedKept ==
  ASSUME TypeOK, CallerMoves, NEW p, p.id \in Nat, p.n \in Nat, Numbered(p),
         Asking => caller.id = next_id
  PROVE  NumberedAfter(p)
<1>1. caller.n \in Nat /\ next_id \in Nat
  BY DEF TypeOK, Callers
<1>2. CASE UNCHANGED <<caller, next_id>>
  BY <1>2 DEF Numbered, NumberedAfter, Asking
<1>3. CASE next_id' = next_id + 1 /\ caller'.n = caller.n + 1
  BY <1>1, <1>3 DEF Numbered, NumberedAfter
<1>4. CASE next_id' = next_id /\ caller'.n \in {caller.n, caller.n + 1} /\ ~ Asking'
  BY <1>1, <1>4 DEF Numbered, NumberedAfter
<1>5. CASE next_id' = next_id /\ caller'.n = caller.n /\ Asking /\ Asking'
  BY <1>1, <1>5 DEF Numbered, NumberedAfter
<1>. QED
  BY <1>2, <1>3, <1>4, <1>5 DEF CallerMoves

(* Which steps touch what travels.                                         *)
LEMMA WhoMoves ==
  ASSUME [Next]_vars
  PROVE  /\ \/ UNCHANGED stdin
            \/ CallerHeader \/ CallerBody \/ ReaderHeader \/ ReaderBody \/ ServerReads
         /\ \/ UNCHANGED server
            \/ Kill \/ ServerReads \/ ServerAnswers \/ ServerSpeaks \/ ServerWrites \/ ServerDies
         /\ \/ UNCHANGED stdout
            \/ ReadResponse \/ ReadSignal \/ ReadRequest \/ ReadOther \/ ServerWrites
         /\ UNCHANGED responses \/ TakeResponse \/ ReadResponse
<1>1. \/ UNCHANGED stdin
      \/ CallerHeader \/ CallerBody \/ ReaderHeader \/ ReaderBody \/ ServerReads
  BY DEF Next, CallerStarts, CallerContinues, ReaderSteps, vars, shared,
         StartRequest, StartNotify, StartSettle, Unwind, CallerLock,
         SendFails, TakeResponse, SeeExit, TimeOut, Settle, Reap, Kill, Join,
         ReadResponse, ReadSignal, ReadRequest, ReadOther, ReaderLock,
         ReadEof, ServerAnswers, ServerSpeaks, ServerWrites, ServerDies
<1>2. \/ UNCHANGED server
      \/ Kill \/ ServerReads \/ ServerAnswers \/ ServerSpeaks \/ ServerWrites \/ ServerDies
  BY DEF Next, CallerStarts, CallerContinues, ReaderSteps, vars, shared,
         StartRequest, StartNotify, StartSettle, Unwind, CallerLock,
         CallerHeader, CallerBody, SendFails, TakeResponse, SeeExit, TimeOut,
         Settle, Reap, Join, ReadResponse, ReadSignal, ReadRequest,
         ReadOther, ReaderLock, ReaderHeader, ReaderBody, ReadEof
<1>3. \/ UNCHANGED stdout
      \/ ReadResponse \/ ReadSignal \/ ReadRequest \/ ReadOther \/ ServerWrites
  BY DEF Next, CallerStarts, CallerContinues, ReaderSteps, vars, shared,
         StartRequest, StartNotify, StartSettle, Unwind, CallerLock,
         CallerHeader, CallerBody, SendFails, TakeResponse, SeeExit, TimeOut,
         Settle, Reap, Kill, Join, ReaderLock, ReaderHeader, ReaderBody,
         ReadEof, ServerReads, ServerAnswers, ServerSpeaks, ServerDies
<1>4. UNCHANGED responses \/ TakeResponse \/ ReadResponse
  BY DEF Next, CallerStarts, CallerContinues, ReaderSteps, vars, shared,
         StartRequest, StartNotify, StartSettle, Unwind, CallerLock,
         CallerHeader, CallerBody, SendFails, SeeExit, TimeOut, Settle, Reap,
         Kill, Join, ReadSignal, ReadRequest, ReadOther, ReaderLock,
         ReaderHeader, ReaderBody, ReadEof, ServerReads, ServerAnswers,
         ServerSpeaks, ServerWrites, ServerDies
<1>. QED
  BY <1>1, <1>2, <1>3, <1>4

(* Everything that travels stays numbered.                                 *)
LEMMA NumberedStep ==
  ASSUME TypeOK, NumberedEverywhere, [Next]_vars
  PROVE  NumberedEverywhere'
<1>1. CallerMoves /\ (caller'.pc = "waiting" => Asking')
  BY CallerMovesStep DEF NumberedEverywhere
<1>2. Asking' => caller'.id = next_id'
  BY <1>1 DEF CallerMoves, NumberedEverywhere, Asking
<1>3. ASSUME NEW p, p.id \in Nat, p.n \in Nat, Numbered(p)
      PROVE  NumberedAfter(p)
  BY <1>1, <1>3, NumberedKept DEF NumberedEverywhere
<1>4. \A i \in 1 .. Len(stdin)' :
        stdin'[i].frame.op \in {"request", "shutdown"} => NumberedAfter(stdin'[i].frame)
  <2>1. ASSUME NEW x \in Pieces, stdin' = Append(stdin, x),
               x.frame.op \in {"request", "shutdown"} => NumberedAfter(x.frame)
        PROVE  \A i \in 1 .. Len(stdin)' :
                 stdin'[i].frame.op \in {"request", "shutdown"} => NumberedAfter(stdin'[i].frame)
    <3>. TAKE i \in 1 .. Len(stdin)'
    <3>. HAVE stdin'[i].frame.op \in {"request", "shutdown"}
    <3>1. CASE i = Len(stdin) + 1
      BY <2>1, <3>1 DEF TypeOK
    <3>2. CASE i # Len(stdin) + 1
      <4>1. i \in 1 .. Len(stdin) /\ stdin'[i] = stdin[i] /\ stdin[i] \in Pieces
        BY <2>1, <3>2 DEF TypeOK
      <4>2. stdin[i].frame.id \in Nat /\ stdin[i].frame.n \in Nat
        BY <4>1 DEF Pieces, Frames
      <4>3. Numbered(stdin[i].frame)
        BY <4>1 DEF NumberedEverywhere
      <4>. QED
        BY <1>3, <4>1, <4>2, <4>3
    <3>. QED
      BY <3>1, <3>2
  <2>2. CASE UNCHANGED stdin
    <3>. TAKE i \in 1 .. Len(stdin)'
    <3>. HAVE stdin'[i].frame.op \in {"request", "shutdown"}
    <3>1. i \in 1 .. Len(stdin) /\ stdin'[i] = stdin[i] /\ stdin[i] \in Pieces
      BY <2>2 DEF TypeOK
    <3>2. stdin[i].frame.id \in Nat /\ stdin[i].frame.n \in Nat
      BY <3>1 DEF Pieces, Frames
    <3>. QED
      BY <1>3, <3>1, <3>2 DEF NumberedEverywhere
  <2>3. CASE CallerHeader \/ CallerBody
    <3>1. PICK part \in {"header", "body"} : stdin' = Append(stdin, Piece(part, CallerFrame))
      BY <2>3 DEF CallerHeader, CallerBody
    <3>2. caller.op \in {"request", "shutdown"} => Asking /\ Asking'
      BY <2>3 DEF CallerHeader, CallerBody, Asking, AfterSend, TypeOK, Callers
    <3>3. CallerFrame.id \in Nat /\ CallerFrame.n \in Nat /\ Piece(part, CallerFrame).frame = CallerFrame
      BY DEF CallerFrame, Piece, TypeOK, Callers
    <3>4. CallerFrame.op \in {"request", "shutdown"} => Numbered(CallerFrame)
      BY <3>2, <3>3 DEF CallerFrame, Numbered, NumberedEverywhere, TypeOK
    <3>5. CallerFrame.op \in {"request", "shutdown"} => NumberedAfter(CallerFrame)
      BY <2>3, <3>2, <3>3 DEF CallerHeader, CallerBody, CallerFrame, NumberedAfter, Numbered, Asking, TypeOK, Callers, NumberedEverywhere
    <3>. QED
      BY <2>1, <3>1, <3>3, <3>5, FrameTypes
  <2>4. CASE ReaderHeader \/ ReaderBody
    <3>1. CASE UNCHANGED stdin
      BY <2>2, <3>1
    <3>2. CASE ~ UNCHANGED stdin
      <4>1. PICK part \in {"header", "body"} : stdin' = Append(stdin, Piece(part, ReplyFrame))
        BY <2>4, <3>2 DEF ReaderHeader, ReaderBody
      <4>2. Piece(part, ReplyFrame).frame.op = "reply"
        BY DEF Piece, ReplyFrame
      <4>. QED
        BY <2>1, <4>1, <4>2, FrameTypes
    <3>. QED
      BY <3>1, <3>2
  <2>5. CASE ServerReads
    <3>1. stdin # <<>> /\ stdin' = Tail(stdin)
      BY <2>5 DEF ServerReads
    <3>. TAKE i \in 1 .. Len(stdin)'
    <3>. HAVE stdin'[i].frame.op \in {"request", "shutdown"}
    <3>2. i + 1 \in 1 .. Len(stdin) /\ stdin'[i] = stdin[i + 1] /\ stdin[i + 1] \in Pieces
      BY <3>1 DEF TypeOK
    <3>3. stdin[i + 1].frame.id \in Nat /\ stdin[i + 1].frame.n \in Nat
      BY <3>2 DEF Pieces, Frames
    <3>. QED
      BY <1>3, <3>2, <3>3 DEF NumberedEverywhere
  <2>. QED
    BY <2>2, <2>3, <2>4, <2>5, WhoMoves
<1>5. \A q \in server'.pending : NumberedAfter(q)
  <2>1. ASSUME NEW q \in server.pending PROVE NumberedAfter(q)
    BY <1>3, <2>1 DEF NumberedEverywhere, TypeOK, Servers, Questions
  <2>2. CASE ServerReads
    <3>. DEFINE piece == Head(stdin)
                question == [id |-> piece.frame.id, n |-> piece.frame.n]
    <3>1. stdin # <<>> /\ piece \in Pieces /\ piece = stdin[1] /\ 1 \in 1 .. Len(stdin)
      BY <2>2 DEF ServerReads, TypeOK
    <3>2. piece.frame.id \in Nat /\ piece.frame.n \in Nat
      BY <3>1 DEF Pieces, Frames
    <3>3. piece.frame.op \in {"request", "shutdown"} => NumberedAfter(question)
      <4>. SUFFICES ASSUME piece.frame.op \in {"request", "shutdown"} PROVE NumberedAfter(question)
        OBVIOUS
      <4>1. Numbered(piece.frame)
        BY <3>1 DEF NumberedEverywhere
      <4>2. Numbered(question)
        BY <4>1 DEF Numbered
      <4>3. question.id \in Nat /\ question.n \in Nat
        BY <3>2
      <4>. HIDE DEF question
      <4>4. UNCHANGED <<caller, next_id>>
        BY <2>2 DEF ServerReads
      <4>. QED
        BY <4>2, <4>4 DEF Numbered, NumberedAfter, Asking
    <3>4. \A q \in server'.pending : q \in server.pending \/ (piece.frame.op \in {"request", "shutdown"} /\ q = question)
      BY <2>2 DEF ServerReads, TypeOK, Servers
    <3>. QED
      BY <2>1, <3>3, <3>4
  <2>3. CASE ~ ServerReads
    <3>1. server'.pending \subseteq server.pending
      BY <2>3, WhoMoves DEF Kill, ServerAnswers, ServerSpeaks, ServerWrites, ServerDies, TypeOK, Servers
    <3>. QED
      BY <2>1, <3>1
  <2>. QED
    BY <2>2, <2>3
<1>6. server'.writing # Nobody /\ server'.writing.kind = "response" => NumberedAfter(server'.writing)
  <2>1. CASE server'.writing = server.writing
    <3>1. server.writing # Nobody => server.writing.id \in Nat /\ server.writing.n \in Nat
      BY DEF TypeOK, Servers, Messages
    <3>. QED
      BY <1>3, <2>1, <3>1 DEF NumberedEverywhere
  <2>2. CASE ServerAnswers
    <3>1. PICK q \in server.pending : server'.writing = Message("response", q.id, q.n)
      BY <2>2 DEF ServerAnswers, TypeOK, Servers
    <3>2. Numbered(q) /\ UNCHANGED <<caller, next_id>>
      BY <2>2 DEF NumberedEverywhere, ServerAnswers
    <3>. QED
      BY <3>1, <3>2 DEF Numbered, NumberedAfter, Asking, Message
  <2>3. CASE Kill \/ ServerWrites \/ ServerDies
    <3>1. server'.writing = Nobody
      BY <2>3 DEF Kill, ServerWrites, ServerDies, TypeOK, Servers
    <3>. QED
      BY <3>1
  <2>4. CASE ServerSpeaks
    <3>1. PICK kind \in {"request", "signal", "other"} :
            server'.writing = Message(kind, server.emitted + 1, 0)
      BY <2>4 DEF ServerSpeaks, TypeOK, Servers
    <3>2. server'.writing.kind # "response"
      BY <3>1 DEF Message
    <3>. QED
      BY <3>2
  <2>5. CASE ServerReads
    <3>1. server'.writing = server.writing
      BY <2>5 DEF ServerReads, TypeOK, Servers
    <3>. QED
      BY <2>1, <3>1
  <2>. QED
    BY <2>1, <2>2, <2>3, <2>4, <2>5, WhoMoves
<1>7. \A i \in 1 .. Len(stdout)' : stdout'[i].kind = "response" => NumberedAfter(stdout'[i])
  <2>1. ASSUME NEW i \in 1 .. Len(stdout), stdout[i].kind = "response"
        PROVE  NumberedAfter(stdout[i])
    <3>1. stdout[i] \in Messages
      BY DEF TypeOK
    <3>2. stdout[i].id \in Nat /\ stdout[i].n \in Nat
      BY <3>1 DEF Messages
    <3>. QED
      BY <1>3, <2>1, <3>2 DEF NumberedEverywhere
  <2>. TAKE i \in 1 .. Len(stdout)'
  <2>. HAVE stdout'[i].kind = "response"
  <2>2. CASE UNCHANGED stdout
    BY <2>1, <2>2
  <2>3. CASE stdout # <<>> /\ stdout' = Tail(stdout)
    <3>1. i + 1 \in 1 .. Len(stdout) /\ stdout'[i] = stdout[i + 1]
      BY <2>3 DEF TypeOK
    <3>. QED
      BY <2>1, <3>1
  <2>4. CASE ServerWrites
    <3>1. stdout' = Append(stdout, server.writing) /\ server.writing # Nobody /\ UNCHANGED <<caller, next_id>>
      BY <2>4 DEF ServerWrites
    <3>2. CASE i = Len(stdout) + 1
      <4>1. stdout'[i] = server.writing
        BY <3>1, <3>2 DEF TypeOK
      <4>2. Numbered(server.writing)
        BY <3>1, <4>1 DEF NumberedEverywhere
      <4>. QED
        BY <3>1, <4>1, <4>2 DEF Numbered, NumberedAfter, Asking
    <3>3. CASE i # Len(stdout) + 1
      <4>1. i \in 1 .. Len(stdout) /\ stdout'[i] = stdout[i]
        BY <3>1, <3>3 DEF TypeOK
      <4>. QED
        BY <2>1, <4>1
    <3>. QED
      BY <3>2, <3>3
  <2>. QED
    BY <2>2, <2>3, <2>4, WhoMoves DEF ReadResponse, ReadSignal, ReadRequest, ReadOther, TakeMessage
<1>8. \A r \in responses' : NumberedAfter(r)
  <2>1. ASSUME NEW r \in responses PROVE NumberedAfter(r)
    BY <1>3, <2>1 DEF NumberedEverywhere, TypeOK, Questions
  <2>2. CASE responses' \subseteq responses
    BY <2>1, <2>2
  <2>3. CASE ReadResponse
    <3>. DEFINE answer == [id |-> Head(stdout).id, n |-> Head(stdout).n]
    <3>1. stdout # <<>> /\ Head(stdout) = stdout[1] /\ 1 \in 1 .. Len(stdout) /\ stdout[1].kind = "response"
      BY <2>3 DEF ReadResponse, TakeMessage, TypeOK
    <3>2. Numbered(stdout[1])
      BY <3>1 DEF NumberedEverywhere
    <3>3. NumberedAfter(answer)
      BY <2>3, <3>1, <3>2 DEF ReadResponse, Numbered, NumberedAfter, Asking
    <3>4. \A r \in responses' : r \in responses \/ r = answer
      BY <2>3 DEF ReadResponse
    <3>. QED
      BY <2>1, <3>3, <3>4
  <2>4. CASE TakeResponse
    BY <2>2, <2>4 DEF TakeResponse
  <2>. QED
    BY <2>2, <2>3, <2>4, WhoMoves
<1>. QED
  BY <1>1, <1>2, <1>4, <1>5, <1>6, <1>7, <1>8 DEF NumberedEverywhere, Numbered, NumberedAfter

(* A call returns what the server answered to it.                          *)
LEMMA OwnAnswerStep ==
  ASSUME TypeOK, NumberedEverywhere, OwnAnswer, [Next]_vars
  PROVE  OwnAnswer'
<1>1. ASSUME NEW how, NEW answer, RequestOver(how, answer), how = "answered" => answer = caller.n
      PROVE  OwnAnswer'
  BY <1>1 DEF RequestOver, OwnAnswer
<1>2. CASE UNCHANGED results
  BY <1>2 DEF OwnAnswer
<1>3. CASE TakeResponse
  <2>1. PICK r \in Mine : RequestOver("answered", r.n)
    BY <1>3 DEF TakeResponse
  <2>2. Numbered(r) /\ Asking /\ r.id = next_id
    BY <1>3, <2>1 DEF TakeResponse, Mine, NumberedEverywhere
  <2>. QED
    BY <1>1, <2>1, <2>2 DEF Numbered
<1>4. CASE SendFails \/ SeeExit \/ TimeOut
  <2>1. CASE UNCHANGED results
    BY <1>2, <2>1
  <2>2. CASE \E how \in {"failed", "exited", "timeout"} : RequestOver(how, 0)
    BY <1>1, <2>2
  <2>. QED
    BY <1>4, <2>1, <2>2 DEF SendFails, SeeExit, TimeOut
<1>. QED
  BY <1>2, <1>3, <1>4
  DEF Next, CallerStarts, CallerContinues, ReaderSteps, vars, StartRequest, StartNotify,
      StartSettle, Unwind, CallerLock, CallerHeader, CallerBody, Settle, Reap, Kill, Join,
      ReadResponse, ReadSignal, ReadRequest, ReadOther, ReaderLock, ReaderHeader, ReaderBody,
      ReadEof, ServerReads, ServerAnswers, ServerSpeaks, ServerWrites, ServerDies

-----------------------------------------------------------------------------
(* The end of the server is known last.                                    *)
LEMMA EndStep ==
  ASSUME TypeOK, NumberedEverywhere, EndInv, [Next]_vars
  PROVE  EndInv'
<1>. USE DEF EndInv, ExitIsLast
<1>1. ~ alive' => reader'.pc = "ended" /\ ~ server'.alive /\ stdout' = <<>>
  <2>1. CASE ReadEof
    BY <2>1 DEF ReadEof, TypeOK, Readers
  <2>2. CASE UNCHANGED alive
    <3>. SUFFICES ASSUME ~ alive
                  PROVE  reader'.pc = "ended" /\ ~ server'.alive /\ stdout' = <<>>
      BY <2>2
    <3>1. reader.pc = "ended" /\ ~ server.alive /\ stdout = <<>>
      OBVIOUS
    <3>2. UNCHANGED reader
      BY <3>1 DEF Next, CallerStarts, CallerContinues, ReaderSteps, vars, StartRequest, StartNotify,
           StartSettle, Unwind, CallerLock, CallerHeader, CallerBody, SendFails, TakeResponse, SeeExit,
           TimeOut, Settle, Reap, Kill, Join, ReadResponse, ReadSignal, ReadRequest, ReadOther,
           TakeMessage, ReaderLock, ReaderHeader, ReaderBody, ReadEof,
           ServerReads, ServerAnswers, ServerSpeaks, ServerWrites, ServerDies
    <3>3. UNCHANGED stdout
      BY <3>1, WhoMoves
      DEF ReadResponse, ReadSignal, ReadRequest, ReadOther, TakeMessage, ServerWrites
    <3>4. ~ server'.alive
      BY <3>1, WhoMoves
      DEF Kill, ServerReads, ServerAnswers, ServerSpeaks, ServerWrites, ServerDies, TypeOK, Servers
    <3>. QED
      BY <3>1, <3>2, <3>3, <3>4
  <2>. QED
    BY <2>1, <2>2 DEF Next, CallerStarts, CallerContinues, ReaderSteps, vars, shared, StartRequest, StartNotify,
           StartSettle, Unwind, CallerLock, CallerHeader, CallerBody, SendFails, TakeResponse, SeeExit,
           TimeOut, Settle, Reap, Kill, Join, ReadResponse, ReadSignal, ReadRequest, ReadOther,
           ReaderLock, ReaderHeader, ReaderBody,
           ServerReads, ServerAnswers, ServerSpeaks, ServerWrites, ServerDies
<1>2. ~ alive => ~ alive' /\ responses' \subseteq responses
  BY DEF Next, CallerStarts, CallerContinues, ReaderSteps, vars, shared, StartRequest, StartNotify,
         StartSettle, Unwind, CallerLock, CallerHeader, CallerBody, SendFails, TakeResponse, SeeExit,
         TimeOut, Settle, Reap, Kill, Join, ReadResponse, ReadSignal, ReadRequest, ReadOther,
         TakeMessage, ReaderLock, ReaderHeader, ReaderBody, ReadEof,
         ServerReads, ServerAnswers, ServerSpeaks, ServerWrites, ServerDies
<1>3. \A r \in results' : r.how = "exited" => ~ alive' /\ \A a \in responses' : a.n # r.n
  <2>1. ASSUME NEW r \in results, r.how = "exited"
        PROVE  ~ alive' /\ \A a \in responses' : a.n # r.n
    BY <1>2, <2>1
  <2>2. CASE SeeExit
    <3>1. \A a \in responses : a.n # caller.n
      <4>. TAKE a \in responses
      <4>1. Numbered(a) /\ Asking /\ a.id # caller.id
        BY <2>2 DEF SeeExit, Mine, NumberedEverywhere
      <4>. QED
        BY <4>1 DEF Numbered, NumberedEverywhere
    <3>. QED
      BY <2>1, <2>2, <3>1 DEF SeeExit, shared, RequestOver
  <2>3. CASE ~ SeeExit
    <3>. SUFFICES \A r \in results' : r \in results \/ r.how # "exited"
      BY <2>1
    <3>1. ASSUME NEW how \in {"answered", "failed", "timeout"}, NEW answer, RequestOver(how, answer)
          PROVE  \A r \in results' : r \in results \/ r.how # "exited"
      BY <3>1 DEF RequestOver
    <3>2. CASE TakeResponse
      BY <3>1, <3>2 DEF TakeResponse
    <3>3. CASE SendFails \/ TimeOut
      <4>1. CASE UNCHANGED results
        BY <4>1
      <4>2. CASE \E how \in {"failed", "timeout"} : RequestOver(how, 0)
        BY <3>1, <4>2
      <4>. QED
        BY <3>3, <4>1, <4>2 DEF SendFails, TimeOut
    <3>4. CASE UNCHANGED results
      BY <3>4
    <3>. QED
      BY <2>3, <3>2, <3>3, <3>4
      DEF Next, CallerStarts, CallerContinues, ReaderSteps, vars, StartRequest, StartNotify,
          StartSettle, Unwind, CallerLock, CallerHeader, CallerBody, Settle, Reap, Kill, Join,
          ReadResponse, ReadSignal, ReadRequest, ReadOther, ReaderLock, ReaderHeader, ReaderBody,
          ReadEof, ServerReads, ServerAnswers, ServerSpeaks, ServerWrites, ServerDies
  <2>. QED
    BY <2>2, <2>3
<1>. QED
  BY <1>1, <1>3

-----------------------------------------------------------------------------
(* Whole frames.  A frame is appended to a line in two pieces ...          *)
LEMMA HeaderAppended ==
  ASSUME NEW line \in Seq(Pieces), NEW frame \in Frames, Alternates(line), EndsWhole(line)
  PROVE  LET longer == Append(line, Piece("header", frame))
         IN  Alternates(longer) /\ EndsWith(longer, frame)
<1>. DEFINE x == Piece("header", frame)
            longer == Append(line, x)
<1>1. x \in Pieces /\ x.part = "header"
  BY DEF Piece, Pieces
<1>. HIDE DEF x
<1>2. /\ longer # <<>> /\ Len(longer) = Len(line) + 1 /\ longer[Len(line) + 1] = x
      /\ \A i \in 1 .. Len(line) : longer[i] = line[i]
  BY <1>1
<1>. HIDE DEF longer
<1>3. EndsWith(longer, frame)
  BY <1>2 DEF EndsWith, x
<1>4. ASSUME NEW i \in 1 .. Len(longer)
      PROVE  /\ longer[i].part = "body" => i > 1 /\ longer[i - 1] = Piece("header", longer[i].frame)
             /\ longer[i].part = "header" /\ i < Len(longer) => longer[i + 1] = Piece("body", longer[i].frame)
  <2>1. CASE i = Len(line) + 1
    BY <1>1, <1>2, <2>1
  <2>2. CASE i # Len(line) + 1
    <3>1. i \in 1 .. Len(line) /\ longer[i] = line[i]
      BY <1>2, <2>2
    <3>2. longer[i].part = "body" => i > 1 /\ longer[i - 1] = Piece("header", longer[i].frame)
      BY <1>2, <3>1 DEF Alternates
    <3>3. CASE i = Len(line)
      BY <3>1, <3>2, <3>3 DEF EndsWhole
    <3>4. CASE i # Len(line)
      <4>1. i + 1 \in 1 .. Len(line) /\ i < Len(line)
        BY <3>1, <3>4
      <4>. QED
        BY <1>2, <3>1, <3>2, <4>1 DEF Alternates
    <3>. QED
      BY <3>3, <3>4
  <2>. QED
    BY <2>1, <2>2
<1>. QED
  BY <1>3, <1>4 DEF Alternates, longer, x

LEMMA BodyAppended ==
  ASSUME NEW line \in Seq(Pieces), NEW frame \in Frames, Alternates(line), EndsWith(line, frame)
  PROVE  LET longer == Append(line, Piece("body", frame))
         IN  Alternates(longer) /\ EndsWhole(longer)
<1>. DEFINE x == Piece("body", frame)
            longer == Append(line, x)
<1>1. x \in Pieces /\ x.part = "body" /\ x.frame = frame
  BY DEF Piece, Pieces
<1>2. Len(line) > 0 /\ line[Len(line)] = Piece("header", frame)
  BY DEF EndsWith
<1>3. line[Len(line)].part = "header" /\ line[Len(line)].frame = frame
  BY <1>2 DEF Piece
<1>4. x = Piece("body", frame)
  OBVIOUS
<1>. HIDE DEF x
<1>5. /\ Len(longer) = Len(line) + 1 /\ longer[Len(line) + 1] = x
      /\ \A i \in 1 .. Len(line) : longer[i] = line[i]
  BY <1>1
<1>. HIDE DEF longer
<1>6. EndsWhole(longer)
  BY <1>1, <1>5 DEF EndsWhole
<1>7. ASSUME NEW i \in 1 .. Len(longer)
      PROVE  /\ longer[i].part = "body" => i > 1 /\ longer[i - 1] = Piece("header", longer[i].frame)
             /\ longer[i].part = "header" /\ i < Len(longer) => longer[i + 1] = Piece("body", longer[i].frame)
  <2>1. CASE i = Len(line) + 1
    BY <1>1, <1>2, <1>5, <2>1
  <2>2. CASE i # Len(line) + 1
    <3>1. i \in 1 .. Len(line) /\ longer[i] = line[i]
      BY <1>5, <2>2
    <3>2. longer[i].part = "body" => i > 1 /\ longer[i - 1] = Piece("header", longer[i].frame)
      BY <1>5, <3>1 DEF Alternates
    <3>3. CASE i = Len(line)
      BY <1>3, <1>4, <1>5, <3>1, <3>2, <3>3
    <3>4. CASE i # Len(line)
      <4>1. i + 1 \in 1 .. Len(line) /\ i < Len(line)
        BY <3>1, <3>4
      <4>. QED
        BY <1>5, <3>1, <3>2, <4>1 DEF Alternates
    <3>. QED
      BY <3>3, <3>4
  <2>. QED
    BY <2>1, <2>2
<1>. QED
  BY <1>6, <1>7 DEF Alternates, longer, x

(* ... and the server takes it off whole.                                  *)
LEMMA FrameTaken ==
  ASSUME NEW line \in Seq(Pieces), NEW rest \in Seq(Pieces),
         Len(line) = Len(rest) + 2, \A i \in 1 .. Len(rest) : rest[i] = line[i + 2],
         line[2].part = "body", Alternates(line)
  PROVE  /\ Alternates(rest)
         /\ EndsWhole(line) => EndsWhole(rest)
         /\ \A frame : EndsWith(line, frame) => EndsWith(rest, frame)
<1>1. ASSUME NEW i \in 1 .. Len(rest)
      PROVE  /\ rest[i].part = "body" => i > 1 /\ rest[i - 1] = Piece("header", rest[i].frame)
             /\ rest[i].part = "header" /\ i < Len(rest) => rest[i + 1] = Piece("body", rest[i].frame)
  <2>1. i + 2 \in 1 .. Len(line) /\ rest[i] = line[i + 2]
    OBVIOUS
  <2>2. /\ line[i + 2].part = "body" => line[i + 1] = Piece("header", line[i + 2].frame)
        /\ line[i + 2].part = "header" /\ i + 2 < Len(line) => line[i + 3] = Piece("body", line[i + 2].frame)
    <3>1. (i + 2) - 1 = i + 1 /\ (i + 2) + 1 = i + 3
      OBVIOUS
    <3>. QED
      BY <2>1, <3>1 DEF Alternates
  <2>3. i = 1 => line[i + 2].part # "body"
    <3>1. \A frame : Piece("header", frame).part = "header"
      BY DEF Piece
    <3>. QED
      BY <2>2, <3>1
  <2>4. i > 1 => rest[i - 1] = line[i + 1]
    <3>1. i > 1 => i - 1 \in 1 .. Len(rest) /\ (i - 1) + 2 = i + 1
      OBVIOUS
    <3>. QED
      BY <3>1
  <2>5. i < Len(rest) => rest[i + 1] = line[i + 3] /\ i + 2 < Len(line)
    <3>1. i < Len(rest) => i + 1 \in 1 .. Len(rest) /\ (i + 1) + 2 = i + 3
      OBVIOUS
    <3>. QED
      BY <3>1
  <2>6. rest[i].part = "body" => i > 1 /\ rest[i - 1] = Piece("header", rest[i].frame)
    <3>1. i = 1 \/ i > 1
      OBVIOUS
    <3>. QED
      BY <2>1, <2>2, <2>3, <2>4, <3>1
  <2>7. rest[i].part = "header" /\ i < Len(rest) => rest[i + 1] = Piece("body", rest[i].frame)
    BY <2>1, <2>2, <2>5
  <2>. QED
    BY <2>6, <2>7
<1>2. Len(rest) \in Nat /\ Len(line) \in Nat
  OBVIOUS
<1>3. Len(rest) > 0 => rest[Len(rest)] = line[Len(line)]
  BY <1>2
<1>4. EndsWhole(line) => EndsWhole(rest)
  BY <1>2, <1>3 DEF EndsWhole
<1>5. ASSUME NEW frame, EndsWith(line, frame)
      PROVE  EndsWith(rest, frame)
  <2>1. line[Len(line)].part = "header"
    BY <1>5 DEF EndsWith, Piece
  <2>2. Len(line) # 2
    BY <2>1
  <2>3. Len(rest) > 0
    BY <1>2, <2>2
  <2>. QED
    BY <1>3, <1>5, <2>3 DEF EndsWith
<1>. QED
  BY <1>1, <1>4, <1>5 DEF Alternates

(* The line as a sequence: the half frame the server has read comes first. *)
LEMMA LineShape ==
  ASSUME TypeOK
  PROVE  /\ Line \in Seq(Pieces)
         /\ server.header = Nobody => Line = stdin
         /\ server.header # Nobody =>
              /\ Len(Line) = Len(stdin) + 1 /\ Line[1] = Piece("header", server.header)
              /\ \A i \in 1 .. Len(stdin) : Line[i + 1] = stdin[i]
<1>1. stdin \in Seq(Pieces)
  BY DEF TypeOK
<1>2. CASE server.header = Nobody
  <2>1. Line = <<>> \o stdin
    BY <1>2 DEF Line, Half
  <2>. QED
    BY <1>1, <1>2, <2>1, ConcatEmptySeq
<1>3. CASE server.header # Nobody
  <2>. DEFINE half == <<Piece("header", server.header)>>
  <2>1. Piece("header", server.header) \in Pieces
    BY <1>3 DEF TypeOK, Servers, Piece, Pieces
  <2>2. half \in Seq(Pieces) /\ Len(half) = 1 /\ half[1] = Piece("header", server.header)
    BY <2>1
  <2>3. Line = half \o stdin
    BY <1>3 DEF Line, Half
  <2>. HIDE DEF half
  <2>. QED
    BY <1>1, <1>3, <2>2, <2>3, ConcatProperties
<1>. QED
  BY <1>2, <1>3

(* Appending to stdin appends to the line.                                 *)
LEMMA LineAppended ==
  ASSUME TypeOK, NEW x \in Pieces
  PROVE  Half \o Append(stdin, x) = Append(Line, x)
<1>1. stdin \in Seq(Pieces) /\ <<x>> \in Seq(Pieces)
  BY DEF TypeOK
<1>2. Half \in Seq(Pieces)
  <2>1. CASE server.header = Nobody
    BY <2>1 DEF Half
  <2>2. CASE server.header # Nobody
    <3>1. Piece("header", server.header) \in Pieces
      BY <2>2 DEF TypeOK, Servers, Piece, Pieces
    <3>. QED
      BY <2>2, <3>1 DEF Half
  <2>. QED
    BY <2>1, <2>2
<1>3. Append(stdin, x) = stdin \o <<x>> /\ Append(Line, x) = Line \o <<x>>
  BY <1>1, LineShape, AppendIsConcat
<1>. QED
  BY <1>1, <1>2, <1>3, ConcatAssociative DEF Line

(* Who begins and who completes a frame.                                   *)
LEMMA WhoWrites ==
  ASSUME TypeOK, [Next]_vars
  PROVE  /\ caller'.pc = "body" => UNCHANGED caller \/ CallerHeader
         /\ caller.pc = "body" => UNCHANGED caller \/ CallerBody \/ SendFails
         /\ reader'.pc = "body" => UNCHANGED reader \/ ReaderHeader
         /\ reader.pc = "body" => UNCHANGED reader \/ ReaderBody
         /\ server'.alive => server.alive
<1>. USE DEF TypeOK
<1>1. caller'.pc = "body" => UNCHANGED caller \/ CallerHeader
  <2>1. CASE CallerBody \/ SendFails
    BY <2>1 DEF CallerBody, SendFails, RequestOver, AfterSend, Callers, Ops
  <2>2. CASE TakeResponse \/ SeeExit \/ TimeOut
    BY <2>2 DEF TakeResponse, SeeExit, TimeOut, RequestOver, Callers
  <2>3. CASE StartRequest("request") \/ StartRequest("shutdown")
    BY <2>3 DEF StartRequest
  <2>4. CASE StartNotify \/ StartSettle \/ Unwind \/ CallerLock
    BY <2>4 DEF StartNotify, StartSettle, Unwind, CallerLock, Callers
  <2>5. CASE Settle \/ Reap \/ Kill \/ Join
    BY <2>5 DEF Settle, Reap, Kill, Join, Callers
  <2>. QED
    BY <2>1, <2>2, <2>3, <2>4, <2>5
    DEF Next, CallerStarts, CallerContinues, ReaderSteps, vars,
        ReadResponse, ReadSignal, ReadRequest, ReadOther, ReaderLock, ReaderHeader, ReaderBody,
        ReadEof, ServerReads, ServerAnswers, ServerSpeaks, ServerWrites, ServerDies
<1>2. caller.pc = "body" => UNCHANGED caller \/ CallerBody \/ SendFails
  BY DEF Next, CallerStarts, CallerContinues, ReaderSteps, vars, StartRequest, StartNotify,
         StartSettle, Unwind, CanStart, CallerLock, CallerHeader, TakeResponse, SeeExit, TimeOut,
         Settle, Reap, Kill, Join,
         ReadResponse, ReadSignal, ReadRequest, ReadOther, ReaderLock, ReaderHeader, ReaderBody,
         ReadEof, ServerReads, ServerAnswers, ServerSpeaks, ServerWrites, ServerDies
<1>3. reader'.pc = "body" => UNCHANGED reader \/ ReaderHeader
  <2>1. CASE ReadRequest \/ ReaderLock \/ ReaderBody \/ ReadEof
    BY <2>1 DEF ReadRequest, ReaderLock, ReaderBody, ReadEof, Readers
  <2>. QED
    BY <2>1
    DEF Next, CallerStarts, CallerContinues, ReaderSteps, vars, StartRequest, StartNotify,
        StartSettle, Unwind, CallerLock, CallerHeader, CallerBody, SendFails, TakeResponse, SeeExit,
        TimeOut, Settle, Reap, Kill, Join, ReadResponse, ReadSignal, ReadOther,
        ServerReads, ServerAnswers, ServerSpeaks, ServerWrites, ServerDies
<1>4. reader.pc = "body" => UNCHANGED reader \/ ReaderBody
  BY DEF Next, CallerStarts, CallerContinues, ReaderSteps, vars, StartRequest, StartNotify,
         StartSettle, Unwind, CallerLock, CallerHeader, CallerBody, SendFails, TakeResponse, SeeExit,
         TimeOut, Settle, Reap, Kill, Join,
         ReadResponse, ReadSignal, ReadRequest, ReadOther, TakeMessage, ReaderLock, ReaderHeader,
         ReadEof, ServerReads, ServerAnswers, ServerSpeaks, ServerWrites, ServerDies
<1>5. server'.alive => server.alive
  BY WhoMoves DEF Kill, ServerReads, ServerAnswers, ServerSpeaks, ServerWrites, ServerDies, Servers
<1>. QED
  BY <1>1, <1>2, <1>3, <1>4, <1>5

(* No step mixes frames.                                                   *)
LEMMA LineStep ==
  ASSUME TypeOK, TypeOK', Mutex, LineInv, [Next]_vars
  PROVE  LineInv'
<1>1. Line \in Seq(Pieces) /\ Alternates(Line)
  BY LineShape DEF LineInv
<1>2. CallerFrame \in Frames /\ ReplyFrame \in Frames
  BY DEF TypeOK, Callers, Readers, Frames, CallerFrame, ReplyFrame
<1>3. ~ (caller.pc \in {"header", "body"} /\ reader.pc \in {"header", "body"})
  BY NobodyAssumption DEF Mutex
<1>4. CASE CallerHeader
  <2>1. caller'.pc = "body" /\ CallerFrame' = CallerFrame /\ UNCHANGED <<reader, server>>
    BY <1>4 DEF CallerHeader, CallerFrame, TypeOK, Callers
  <2>2. Line' = Append(Line, Piece("header", CallerFrame))
    BY <1>4, FrameTypes, LineAppended DEF CallerHeader, Line, Half
  <2>3. EndsWhole(Line) /\ reader.pc # "body"
    BY <1>3, <1>4 DEF CallerHeader, LineInv
  <2>4. Alternates(Line') /\ EndsWith(Line', CallerFrame)
    BY <1>1, <1>2, <2>2, <2>3, HeaderAppended
  <2>. QED
    BY <2>1, <2>3, <2>4 DEF LineInv
<1>5. CASE CallerBody
  <2>1. caller'.pc # "body" /\ UNCHANGED <<reader, server>>
    BY <1>5 DEF CallerBody, AfterSend, TypeOK, Callers, Ops
  <2>2. Line' = Append(Line, Piece("body", CallerFrame))
    BY <1>5, FrameTypes, LineAppended DEF CallerBody, Line, Half
  <2>3. EndsWith(Line, CallerFrame) /\ reader.pc # "body"
    BY <1>3, <1>5 DEF CallerBody, LineInv
  <2>4. Alternates(Line') /\ EndsWhole(Line')
    BY <1>1, <1>2, <2>2, <2>3, BodyAppended
  <2>. QED
    BY <2>1, <2>3, <2>4 DEF LineInv
<1>6. CASE ReaderHeader /\ server.alive
  <2>1. reader'.pc = "body" /\ ReplyFrame' = ReplyFrame /\ UNCHANGED <<caller, server>>
    BY <1>6 DEF ReaderHeader, ReplyFrame, TypeOK, Readers
  <2>2. Line' = Append(Line, Piece("header", ReplyFrame))
    BY <1>6, FrameTypes, LineAppended DEF ReaderHeader, Line, Half
  <2>3. EndsWhole(Line) /\ caller.pc # "body"
    BY <1>3, <1>6 DEF ReaderHeader, LineInv
  <2>4. Alternates(Line') /\ EndsWith(Line', ReplyFrame)
    BY <1>1, <1>2, <2>2, <2>3, HeaderAppended
  <2>. QED
    BY <2>1, <2>3, <2>4 DEF LineInv
<1>7. CASE ReaderBody /\ server.alive
  <2>1. reader'.pc # "body" /\ UNCHANGED <<caller, server>>
    BY <1>7 DEF ReaderBody, TypeOK, Readers
  <2>2. Line' = Append(Line, Piece("body", ReplyFrame))
    BY <1>7, FrameTypes, LineAppended DEF ReaderBody, Line, Half
  <2>3. EndsWith(Line, ReplyFrame) /\ caller.pc # "body"
    BY <1>3, <1>7 DEF ReaderBody, LineInv
  <2>4. Alternates(Line') /\ EndsWhole(Line')
    BY <1>1, <1>2, <2>2, <2>3, BodyAppended
  <2>. QED
    BY <2>1, <2>3, <2>4 DEF LineInv
<1>8. CASE ServerReads
  <2>. DEFINE piece == Head(stdin)
  <2>1. /\ stdin \in Seq(Pieces) /\ stdin # <<>> /\ stdin' = Tail(stdin)
        /\ piece = stdin[1] /\ piece \in Pieces /\ UNCHANGED <<caller, reader>> /\ server.alive
    BY <1>8 DEF ServerReads, TypeOK
  <2>2. CallerFrame' = CallerFrame /\ ReplyFrame' = ReplyFrame
    BY <2>1 DEF CallerFrame, ReplyFrame
  <2>3. CASE piece.part = "header"
    <3>1. server.header = Nobody
      <4>1. SUFFICES ASSUME server.header # Nobody PROVE FALSE
        OBVIOUS
      <4>2. /\ 1 \in 1 .. Len(Line) /\ 1 < Len(Line) /\ Line[1].part = "header"
            /\ Line[1 + 1] = stdin[1]
        BY <2>1, <4>1, LineShape DEF Piece
      <4>3. Line[1 + 1] = Piece("body", Line[1].frame)
        BY <1>1, <4>2 DEF Alternates
      <4>4. Line[1 + 1].part = "body"
        BY <4>3 DEF Piece
      <4>. QED
        BY <2>1, <2>3, <4>2, <4>4
    <3>2. piece = Piece("header", piece.frame) /\ piece.frame \in Frames
      BY <2>1, <2>3 DEF Pieces, Piece
    <3>3. server'.header = piece.frame /\ piece.frame # Nobody
      BY <1>8, <2>3, <3>2, NobodyAssumption DEF ServerReads, TypeOK, Servers
    <3>4. Line' = <<piece>> \o Tail(stdin)
      BY <2>1, <3>2, <3>3 DEF Line, Half
    <3>5. <<piece>> \o Tail(stdin) = stdin
      BY <2>1
    <3>6. Line' = Line
      BY <3>1, <3>4, <3>5, LineShape
    <3>. QED
      BY <2>1, <2>2, <3>6 DEF LineInv
  <2>4. CASE piece.part # "header"
    <3>1. piece.part = "body"
      BY <2>1, <2>4 DEF Pieces
    <3>2. server.header # Nobody
      <4>1. SUFFICES ASSUME server.header = Nobody PROVE FALSE
        OBVIOUS
      <4>2. 1 \in 1 .. Len(Line) /\ Line[1].part = "body"
        BY <2>1, <3>1, <4>1, LineShape
      <4>. QED
        BY <1>1, <4>2 DEF Alternates
    <3>3. server'.header = Nobody
      BY <1>8, <2>4 DEF ServerReads, TypeOK, Servers
    <3>4. Line' = Tail(stdin) /\ Line' \in Seq(Pieces)
      <4>1. Line' = <<>> \o Tail(stdin)
        BY <2>1, <3>3 DEF Line, Half
      <4>. QED
        BY <2>1, <4>1, ConcatEmptySeq
    <3>5. /\ Len(Line) = Len(Line') + 2 /\ Line[2].part = "body"
          /\ \A i \in 1 .. Len(Line') : Line'[i] = Line[i + 2]
      <4>1. Len(Line) = Len(stdin) + 1 /\ \A i \in 1 .. Len(stdin) : Line[i + 1] = stdin[i]
        BY <3>2, LineShape
      <4>2. Len(Line') + 1 = Len(stdin) /\ 1 \in 1 .. Len(stdin)
        BY <2>1, <3>4
      <4>3. Line[1 + 1] = stdin[1]
        BY <4>1, <4>2
      <4>4. ASSUME NEW i \in 1 .. Len(Line')
            PROVE  Line'[i] = Line[i + 2]
        <5>1. i + 1 \in 1 .. Len(stdin) /\ (i + 1) + 1 = i + 2 /\ Line'[i] = stdin[i + 1]
          BY <2>1, <3>4, <4>2
        <5>. QED
          BY <4>1, <5>1
      <4>. QED
        BY <2>1, <3>1, <4>1, <4>2, <4>3, <4>4
    <3>6. /\ Alternates(Line')
          /\ EndsWhole(Line) => EndsWhole(Line')
          /\ \A frame : EndsWith(Line, frame) => EndsWith(Line', frame)
      BY <1>1, <3>4, <3>5, FrameTaken
    <3>. QED
      BY <2>1, <2>2, <3>6 DEF LineInv
  <2>. QED
    BY <2>3, <2>4
<1>9. CASE /\ ~ (CallerHeader \/ CallerBody \/ ServerReads)
           /\ ~ (ReaderHeader /\ server.alive) /\ ~ (ReaderBody /\ server.alive)
  <2>1. UNCHANGED stdin
    BY <1>9, WhoMoves DEF ReaderHeader, ReaderBody
  <2>2. server'.header = server.header
    BY <1>9, WhoMoves DEF Kill, ServerAnswers, ServerSpeaks, ServerWrites, ServerDies, TypeOK, Servers
  <2>3. Line' = Line
    BY <2>1, <2>2 DEF Line, Half
  <2>4. ASSUME server'.alive
        PROVE  /\ caller'.pc = "body" => EndsWith(Line, CallerFrame')
               /\ reader'.pc = "body" => EndsWith(Line, ReplyFrame')
               /\ caller'.pc # "body" /\ reader'.pc # "body" => EndsWhole(Line)
    <3>1. server.alive
      BY <2>4, WhoWrites
    <3>2. caller'.pc = "body" => caller.pc = "body" /\ CallerFrame' = CallerFrame
      BY <1>9, WhoWrites DEF CallerFrame
    <3>3. reader'.pc = "body" => reader.pc = "body" /\ ReplyFrame' = ReplyFrame
      BY <1>9, <3>1, WhoWrites DEF ReplyFrame
    <3>4. caller.pc = "body" => caller'.pc = "body"
      BY <1>9, <3>1, WhoWrites DEF SendFails
    <3>5. reader.pc = "body" => reader'.pc = "body"
      BY <1>9, <3>1, WhoWrites
    <3>. QED
      BY <3>1, <3>2, <3>3, <3>4, <3>5 DEF LineInv
  <2>. QED
    BY <1>1, <2>3, <2>4 DEF LineInv
<1>. QED
  BY <1>4, <1>5, <1>6, <1>7, <1>8, <1>9

(* What the invariant says of the line is what FramesIntact says.          *)
LEMMA LineIntact ==
  ASSUME TypeOK, Mutex, LineInv
  PROVE  FramesIntact
<1>1. Line \in Seq(Pieces) /\ Alternates(Line)
  BY LineShape DEF LineInv
<1>2. ASSUME NEW i \in 1 .. Len(Line)
      PROVE  IF Line[i].part = "body"
             THEN i > 1 /\ Line[i - 1] = Piece("header", Line[i].frame)
             ELSE IF i < Len(Line)
                  THEN Line[i + 1] = Piece("body", Line[i].frame)
                  ELSE server.alive => holder = Line[i].frame.from
  <2>1. Line[i].part \in {"header", "body"}
    <3>1. Line[i] \in Pieces
      BY <1>1, ElementOfSeq
    <3>. QED
      BY <3>1 DEF Pieces
  <2>2. ASSUME Line[i].part = "header", i = Len(Line), server.alive
        PROVE  holder = Line[i].frame.from
    <3>1. Line # <<>>
      BY <1>1
    <3>2. CASE caller.pc = "body"
      BY <2>2, <3>2 DEF LineInv, EndsWith, Piece, CallerFrame, Mutex
    <3>3. CASE reader.pc = "body"
      BY <2>2, <3>3 DEF LineInv, EndsWith, Piece, ReplyFrame, Mutex
    <3>4. CASE caller.pc # "body" /\ reader.pc # "body"
      BY <2>2, <3>1, <3>4 DEF LineInv, EndsWhole
    <3>. QED
      BY <3>2, <3>3, <3>4
  <2>3. i < Len(Line) \/ i = Len(Line)
    BY <1>1
  <2>. QED
    BY <1>1, <2>1, <2>2, <2>3 DEF Alternates
<1>. QED
  BY <1>2 DEF FramesIntact, Line, Half

-----------------------------------------------------------------------------
(* The invariant is inductive.                                             *)
LEMMA InitIInv == Init => IInv
<1>. SUFFICES ASSUME Init PROVE IInv
  OBVIOUS
<1>1. TypeOK
  <2>1. caller \in Callers /\ reader \in Readers
    BY DEF Init, Callers, Readers, Ops
  <2>2. Nobody \in Frames \cup {Nobody} /\ Nobody \in Messages \cup {Nobody} /\ {} \in SUBSET Questions
    OBVIOUS
  <2>3. server \in Servers
    BY <2>2 DEF Init, Servers
  <2>4. stdin \in Seq(Pieces) /\ stdout \in Seq(Messages) /\ Len(stdin) = 0 /\ Len(stdout) = 0
    BY DEF Init
  <2>5. /\ next_id \in Nat /\ results = {} /\ holder = Nobody /\ responses = {}
        /\ alive \in BOOLEAN /\ settled \in BOOLEAN
    BY DEF Init
  <2>6. 0 <= PipeSize /\ 0 <= OutSize
    BY BoundsAssumption
  <2>. QED
    BY <2>1, <2>3, <2>4, <2>5, <2>6 DEF TypeOK
<1>2. Mutex
  BY NobodyAssumption DEF Init, Mutex
<1>3. NumberedEverywhere
  BY DEF Init, NumberedEverywhere, Asking
<1>4. OwnAnswer
  BY DEF Init, OwnAnswer
<1>5. LineInv
  <2>1. Line = <<>>
    BY <1>1, LineShape DEF Init
  <2>2. Alternates(<<>>) /\ EndsWhole(<<>>)
    BY DEF Alternates, EndsWhole
  <2>. QED
    BY <2>1, <2>2 DEF Init, LineInv
<1>6. EndInv
  BY DEF Init, EndInv, ExitIsLast
<1>. QED
  BY <1>1, <1>2, <1>3, <1>4, <1>5, <1>6 DEF IInv

LEMMA NextIInv == IInv /\ [Next]_vars => IInv'
<1>. SUFFICES ASSUME IInv, [Next]_vars PROVE IInv'
  OBVIOUS
<1>1. TypeOK'
  BY TypeStep DEF IInv
<1>2. Mutex' /\ NumberedEverywhere' /\ OwnAnswer' /\ EndInv'
  BY MutexStep, NumberedStep, OwnAnswerStep, EndStep DEF IInv
<1>3. LineInv'
  BY <1>1, LineStep DEF IInv
<1>. QED
  BY <1>1, <1>2, <1>3 DEF IInv

LEMMA AlwaysIInv == Spec => []IInv
BY InitIInv, NextIInv, PTL DEF Spec

(* The client's state is well-typed, and neither pipe ever holds more than *)
(* it can: every write waits for room (send, and the server's own writes). *)
THEOREM LspTypeCorrect == Spec => []TypeOK
<1>1. IInv => TypeOK
  BY DEF IInv
<1>. QED
  BY <1>1, AlwaysIInv, PTL

(* However many requests time out, and in whatever order the server        *)
(* answers, a request returns the answer to itself: request_async takes a  *)
(* fresh id and wait removes only the response with that id.               *)
THEOREM CallsGetOwnAnswer == Spec => []OwnAnswer
<1>1. IInv => OwnAnswer
  BY DEF IInv
<1>. QED
  BY <1>1, AlwaysIInv, PTL

(* Frames of the two threads never mix on the server's stdin, for any size *)
(* of the pipe: send and the reader's reply write both pieces under the    *)
(* stdin mutex.                                                            *)
THEOREM FramesNeverMix == Spec => []FramesIntact
<1>1. IInv => FramesIntact
  BY LineIntact DEF IInv
<1>. QED
  BY <1>1, AlwaysIInv, PTL

(* The death of the server is known only when all it wrote was read, and a *)
(* call fails with it only if its answer never came: wait looks for the    *)
(* response before it looks at the flag read_loop clears at the end.       *)
THEOREM ExitReportedLast == Spec => []ExitIsLast
<1>1. IInv => ExitIsLast
  BY DEF IInv, EndInv
<1>. QED
  BY <1>1, AlwaysIInv, PTL
=============================================================================
