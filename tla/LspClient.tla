------------------------------ MODULE LspClient ------------------------------
(***************************************************************************)
(* The language-server client (crates/hinzu-lsp/src/client.rs): a calling  *)
(* thread and a reader thread share the server's stdin behind a mutex and  *)
(* a map of responses behind another.                                      *)
(*                                                                         *)
(* A frame is written in two pieces, header and body, into a pipe of       *)
(* PipeSize pieces; a write blocks while the pipe is full and fails once   *)
(* the server is gone.  Time is not modelled: a deadline may pass at any   *)
(* moment in which the thread that waits for it looks at the clock.  The   *)
(* lock around the shared state is held for single steps and is implicit.  *)
(*                                                                         *)
(* The server is external.  It does one thing at a time: it reads a piece, *)
(* or it has a message to write; it answers requests in any order, late or *)
(* never, sends requests and notifications of its own, and may die.        *)
(***************************************************************************)
EXTENDS Naturals, Sequences, FiniteSets

CONSTANTS
  MaxCalls,    \* operations the caller performs before shutdown or drop
  MaxEmitted,  \* messages the server sends of its own accord
  PipeSize,    \* pieces the stdin pipe holds
  OutSize,     \* messages the stdout pipe holds
  Nobody       \* no thread, no message

ASSUME BoundsAssumption ==
  /\ MaxCalls \in Nat /\ MaxEmitted \in Nat
  /\ PipeSize \in Nat \ {0} /\ OutSize \in Nat \ {0}

Ops == {"request", "notify", "shutdown", "exit"}

(* What travels: frames to the server, a piece at a time, each with the    *)
(* number n of the call that sent it, and messages from it.                *)
Frames    == [from : {"caller", "reader"}, op : Ops \cup {"reply"}, id : Nat, n : Nat]
Pieces    == [part : {"header", "body"}, frame : Frames]
Messages  == [kind : {"response", "request", "signal", "other"}, id : Nat, n : Nat]
Questions == [id : Nat, n : Nat]

ASSUME NobodyAssumption ==
  Nobody \notin {"caller", "reader"} \cup Frames \cup Messages

VARIABLES
  caller,    \* [pc, op, id, n]: the calling thread; n counts the operations
  next_id,   \* LspClient::next_id
  results,   \* how each request call returned
  holder,    \* who holds the stdin mutex
  stdin,     \* pieces on their way to the server
  stdout,    \* messages on their way to the reader
  responses, alive, settled,  \* Shared
  reader,    \* [pc, reply]: the reader thread
  server     \* [alive, header, pending, writing, emitted]

shared == <<responses, alive, settled>>
vars == <<caller, next_id, results, holder, stdin, stdout, shared, reader, server>>

Message(kind, id, n) == [kind |-> kind, id |-> id, n |-> n]

Init ==
  /\ caller = [pc |-> "idle", op |-> "notify", id |-> 0, n |-> 0]
  /\ next_id = 0
  /\ results = {}
  /\ holder = Nobody
  /\ stdin = <<>>
  /\ stdout = <<>>
  /\ responses = {}
  /\ alive = TRUE
  /\ settled = FALSE
  /\ reader = [pc |-> "read", reply |-> 0]
  /\ server = [alive |-> TRUE, header |-> Nobody, pending |-> {}, writing |-> Nobody, emitted |-> 0]

-----------------------------------------------------------------------------
(* The calling thread.                                                     *)
CanStart == caller.pc = "idle" /\ caller.n < MaxCalls

(* Mutant: a request that follows one that timed out uses its id again.    *)
StartRequest_SameId(op) ==
  /\ IF op = "shutdown" THEN caller.pc = "idle" ELSE CanStart
  /\ next_id' = IF \E r \in results : r.n = caller.n /\ r.how = "timeout"
                THEN next_id ELSE next_id + 1
  /\ caller' = [pc |-> "lock", op |-> op, id |-> next_id', n |-> caller.n + 1]
  /\ UNCHANGED <<results, holder, stdin, stdout, shared, reader, server>>

(* request_async takes a fresh id; shutdown begins with a request too.     *)
StartRequest(op) ==
  /\ IF op = "shutdown" THEN caller.pc = "idle" ELSE CanStart
  /\ next_id' = next_id + 1
  /\ caller' = [pc |-> "lock", op |-> op, id |-> next_id', n |-> caller.n + 1]
  /\ UNCHANGED <<results, holder, stdin, stdout, shared, reader, server>>

StartNotify ==
  /\ CanStart
  /\ caller' = [caller EXCEPT !.pc = "lock", !.op = "notify", !.n = @ + 1]
  /\ UNCHANGED <<next_id, results, holder, stdin, stdout, shared, reader, server>>

StartSettle ==
  /\ CanStart
  /\ caller' = [caller EXCEPT !.pc = "settling", !.n = @ + 1]
  /\ UNCHANGED <<next_id, results, holder, stdin, stdout, shared, reader, server>>

(* send: take the mutex, write the header, write the body, release.        *)
CallerFrame == [from |-> "caller", op |-> caller.op, id |-> caller.id, n |-> caller.n]

CallerLock ==
  /\ caller.pc = "lock"
  /\ holder = Nobody
  /\ holder' = "caller"
  /\ caller' = [caller EXCEPT !.pc = "header"]
  /\ UNCHANGED <<next_id, results, stdin, stdout, shared, reader, server>>

Piece(part, frame) == [part |-> part, frame |-> frame]

CallerHeader ==
  /\ caller.pc = "header"
  /\ server.alive
  /\ Len(stdin) < PipeSize
  /\ stdin' = Append(stdin, Piece("header", CallerFrame))
  /\ caller' = [caller EXCEPT !.pc = "body"]
  /\ UNCHANGED <<next_id, results, holder, stdout, shared, reader, server>>

(* Where the caller goes when a frame is sent, or a request is over.       *)
AfterSend == CASE caller.op \in {"request", "shutdown"} -> "waiting"
               [] caller.op = "notify" -> "idle"
               [] caller.op = "exit" -> "reap"

CallerBody ==
  /\ caller.pc = "body"
  /\ server.alive
  /\ Len(stdin) < PipeSize
  /\ stdin' = Append(stdin, Piece("body", CallerFrame))
  /\ holder' = Nobody
  /\ caller' = [caller EXCEPT !.pc = AfterSend]
  /\ UNCHANGED <<next_id, results, stdout, shared, reader, server>>

(* shutdown goes on to send `exit` however its request ended.  The answer  *)
(* returned is named by the call the server gave it to, 0 if there is none.*)
RequestOver(how, answer) ==
  /\ caller' = IF caller.op = "shutdown"
               THEN [caller EXCEPT !.pc = "lock", !.op = "exit"]
               ELSE [caller EXCEPT !.pc = "idle"]
  /\ results' = results \cup {[n |-> caller.n, how |-> how, answer |-> answer]}

(* The pipe is broken: send returns an error and drops the guard.          *)
SendFails ==
  /\ caller.pc \in {"header", "body"}
  /\ ~ server.alive
  /\ holder' = Nobody
  /\ IF caller.op \in {"request", "shutdown"}
     THEN RequestOver("failed", 0)
     ELSE /\ caller' = [caller EXCEPT !.pc = AfterSend]
          /\ UNCHANGED results
  /\ UNCHANGED <<next_id, stdin, stdout, shared, reader, server>>

Mine == {r \in responses : r.id = caller.id}

(* wait: the response first, then the death of the server, then the clock. *)
TakeResponse ==
  /\ caller.pc = "waiting"
  /\ \E r \in Mine : responses' = responses \ {r} /\ RequestOver("answered", r.n)
  /\ UNCHANGED <<next_id, holder, stdin, stdout, alive, settled, reader, server>>

(* Mutant: the death of the server is looked at first.                     *)
SeeExit_First ==
  /\ caller.pc = "waiting"
  /\ ~ alive
  /\ RequestOver("exited", 0)
  /\ UNCHANGED <<next_id, holder, stdin, stdout, shared, reader, server>>

SeeExit ==
  /\ caller.pc = "waiting"
  /\ Mine = {}
  /\ ~ alive
  /\ RequestOver("exited", 0)
  /\ UNCHANGED <<next_id, holder, stdin, stdout, shared, reader, server>>

TimeOut ==
  /\ caller.pc = "waiting"
  /\ Mine = {}
  /\ alive
  /\ RequestOver("timeout", 0)
  /\ UNCHANGED <<next_id, holder, stdin, stdout, shared, reader, server>>

(* wait_until_settled returns at a signal, at the server's death, or late. *)
Settle ==
  /\ caller.pc = "settling"
  /\ caller' = [caller EXCEPT !.pc = "idle"]
  /\ UNCHANGED <<next_id, results, holder, stdin, stdout, shared, reader, server>>

(* shutdown: child.wait(), which has no deadline; then the client drops.   *)
Reap ==
  /\ caller.pc = "reap"
  /\ ~ server.alive
  /\ caller' = [caller EXCEPT !.pc = "drop"]
  /\ UNCHANGED <<next_id, results, holder, stdin, stdout, shared, reader, server>>

(* An error unwinds past shutdown: the client is dropped at once.          *)
Unwind ==
  /\ caller.pc = "idle"
  /\ caller' = [caller EXCEPT !.pc = "drop"]
  /\ UNCHANGED <<next_id, results, holder, stdin, stdout, shared, reader, server>>

(* Mutant: drop only waits for the child.                                  *)
Kill_Polite ==
  /\ caller.pc = "drop"
  /\ ~ server.alive
  /\ caller' = [caller EXCEPT !.pc = "join"]
  /\ UNCHANGED <<next_id, results, holder, stdin, stdout, shared, reader, server>>

(* drop: kill and wait ...                                                 *)
Kill ==
  /\ caller.pc = "drop"
  /\ server' = [server EXCEPT !.alive = FALSE, !.writing = Nobody]
  /\ caller' = [caller EXCEPT !.pc = "join"]
  /\ UNCHANGED <<next_id, results, holder, stdin, stdout, shared, reader>>

(* ... then join the reader thread.                                        *)
Join ==
  /\ caller.pc = "join"
  /\ reader.pc = "ended"
  /\ caller' = [caller EXCEPT !.pc = "done"]
  /\ UNCHANGED <<next_id, results, holder, stdin, stdout, shared, reader, server>>

-----------------------------------------------------------------------------
(* The reader thread: read_loop.                                           *)
TakeMessage ==
  /\ reader.pc = "read"
  /\ stdout # <<>>
  /\ stdout' = Tail(stdout)

ReadResponse ==
  /\ TakeMessage
  /\ Head(stdout).kind = "response"
  /\ responses' = {r \in responses : r.id # Head(stdout).id}
                    \cup {[id |-> Head(stdout).id, n |-> Head(stdout).n]}
  /\ UNCHANGED <<caller, next_id, results, holder, stdin, alive, settled, reader, server>>

(* publishDiagnostics, or the end of a $/progress.                         *)
ReadSignal ==
  /\ TakeMessage
  /\ Head(stdout).kind = "signal"
  /\ settled' = TRUE
  /\ UNCHANGED <<caller, next_id, results, holder, stdin, responses, alive, reader, server>>

ReadRequest ==
  /\ TakeMessage
  /\ Head(stdout).kind = "request"
  /\ reader' = [pc |-> "lock", reply |-> Head(stdout).id]
  /\ UNCHANGED <<caller, next_id, results, holder, stdin, shared, server>>

ReadOther ==
  /\ TakeMessage
  /\ Head(stdout).kind = "other"
  /\ UNCHANGED <<caller, next_id, results, holder, stdin, shared, reader, server>>

(* Mutant: the reply is written without taking the mutex.                  *)
ReaderLock_Skipped ==
  /\ reader.pc = "lock"
  /\ reader' = [reader EXCEPT !.pc = "header"]
  /\ UNCHANGED <<caller, next_id, results, holder, stdin, stdout, shared, server>>

ReaderLock ==
  /\ reader.pc = "lock"
  /\ holder = Nobody
  /\ holder' = "reader"
  /\ reader' = [reader EXCEPT !.pc = "header"]
  /\ UNCHANGED <<caller, next_id, results, stdin, stdout, shared, server>>

ReplyFrame == [from |-> "reader", op |-> "reply", id |-> reader.reply, n |-> 0]

(* A write that fails is ignored: the reader goes on as if it had worked.  *)
ReaderHeader ==
  /\ reader.pc = "header"
  /\ ~ server.alive \/ Len(stdin) < PipeSize
  /\ stdin' = IF server.alive THEN Append(stdin, Piece("header", ReplyFrame)) ELSE stdin
  /\ reader' = [reader EXCEPT !.pc = "body"]
  /\ UNCHANGED <<caller, next_id, results, holder, stdout, shared, server>>

(* Mutant: the guard outlives the reply.                                   *)
ReaderBody_KeepsGuard ==
  /\ reader.pc = "body"
  /\ ~ server.alive \/ Len(stdin) < PipeSize
  /\ stdin' = IF server.alive THEN Append(stdin, Piece("body", ReplyFrame)) ELSE stdin
  /\ reader' = [reader EXCEPT !.pc = "read"]
  /\ UNCHANGED <<caller, next_id, results, holder, stdout, shared, server>>

ReaderBody ==
  /\ reader.pc = "body"
  /\ ~ server.alive \/ Len(stdin) < PipeSize
  /\ stdin' = IF server.alive THEN Append(stdin, Piece("body", ReplyFrame)) ELSE stdin
  /\ holder' = Nobody
  /\ reader' = [reader EXCEPT !.pc = "read"]
  /\ UNCHANGED <<caller, next_id, results, stdout, shared, server>>

ReadEof ==
  /\ reader.pc = "read"
  /\ stdout = <<>>
  /\ ~ server.alive
  /\ alive' = FALSE
  /\ reader' = [reader EXCEPT !.pc = "ended"]
  /\ UNCHANGED <<caller, next_id, results, holder, stdin, stdout, responses, settled, server>>

-----------------------------------------------------------------------------
(* The server.                                                             *)
ServerReads ==
  /\ server.alive
  /\ server.writing = Nobody
  /\ stdin # <<>>
  /\ stdin' = Tail(stdin)
  /\ LET piece == Head(stdin)
     IN  server' = IF piece.part = "header"
                   THEN [server EXCEPT !.header = piece.frame]
                   ELSE [server EXCEPT
                           !.header = Nobody,
                           !.pending = IF piece.frame.op \in {"request", "shutdown"}
                                       THEN @ \cup {[id |-> piece.frame.id, n |-> piece.frame.n]}
                                       ELSE @]
  /\ UNCHANGED <<caller, next_id, results, holder, stdout, shared, reader>>

ServerAnswers ==
  /\ server.alive
  /\ server.writing = Nobody
  /\ \E q \in server.pending :
       server' = [server EXCEPT !.pending = @ \ {q},
                                !.writing = Message("response", q.id, q.n)]
  /\ UNCHANGED <<caller, next_id, results, holder, stdin, stdout, shared, reader>>

ServerSpeaks ==
  /\ server.alive
  /\ server.writing = Nobody
  /\ server.emitted < MaxEmitted
  /\ \E kind \in {"request", "signal", "other"} :
       server' = [server EXCEPT !.emitted = @ + 1,
                                !.writing = Message(kind, server.emitted + 1, 0)]
  /\ UNCHANGED <<caller, next_id, results, holder, stdin, stdout, shared, reader>>

ServerWrites ==
  /\ server.alive
  /\ server.writing # Nobody
  /\ Len(stdout) < OutSize
  /\ stdout' = Append(stdout, server.writing)
  /\ server' = [server EXCEPT !.writing = Nobody]
  /\ UNCHANGED <<caller, next_id, results, holder, stdin, shared, reader>>

ServerDies ==
  /\ server.alive
  /\ server' = [server EXCEPT !.alive = FALSE, !.writing = Nobody]
  /\ UNCHANGED <<caller, next_id, results, holder, stdin, stdout, shared, reader>>

-----------------------------------------------------------------------------
(* What the caller chooses to do next ...                                  *)
CallerStarts ==
  \/ StartRequest("request") \/ StartRequest("shutdown")
  \/ StartNotify \/ StartSettle \/ Unwind

(* ... and what it then must do.                                           *)
CallerContinues ==
  \/ CallerLock \/ CallerHeader \/ CallerBody \/ SendFails
  \/ TakeResponse \/ SeeExit \/ TimeOut \/ Settle
  \/ Reap \/ Kill \/ Join

ReaderSteps ==
  \/ ReadResponse \/ ReadSignal \/ ReadRequest \/ ReadOther
  \/ ReaderLock \/ ReaderHeader \/ ReaderBody \/ ReadEof

Next ==
  \/ CallerStarts \/ CallerContinues \/ ReaderSteps
  \/ ServerReads \/ ServerAnswers \/ ServerSpeaks \/ ServerWrites \/ ServerDies

(* Both threads run; a mutex that is free again and again is obtained; the *)
(* server owes nothing.                                                    *)
Spec ==
  /\ Init /\ [][Next]_vars
  /\ WF_vars(CallerContinues) /\ SF_vars(CallerLock)
  /\ WF_vars(ReaderSteps) /\ SF_vars(ReaderLock)

(* A caller that always goes on, and a server that reads when it has       *)
(* nothing to write and writes when it can.                                *)
AttentiveSpec ==
  Spec /\ WF_vars(CallerStarts) /\ WF_vars(ServerReads) /\ WF_vars(ServerWrites)

-----------------------------------------------------------------------------
Callers == [pc : {"idle", "lock", "header", "body", "waiting", "settling",
                  "reap", "drop", "join", "done"},
            op : Ops, id : Nat, n : Nat]
Results == [n : Nat, how : {"answered", "failed", "exited", "timeout"}, answer : Nat]
Readers == [pc : {"read", "lock", "header", "body", "ended"}, reply : Nat]
Servers == [alive : BOOLEAN, header : Frames \cup {Nobody}, pending : SUBSET Questions,
            writing : Messages \cup {Nobody}, emitted : Nat]

TypeOK ==
  /\ caller \in Callers
  /\ next_id \in Nat
  /\ results \subseteq Results
  /\ holder \in {Nobody, "caller", "reader"}
  /\ stdin \in Seq(Pieces) /\ Len(stdin) <= PipeSize
  /\ stdout \in Seq(Messages) /\ Len(stdout) <= OutSize
  /\ responses \subseteq Questions
  /\ alive \in BOOLEAN /\ settled \in BOOLEAN
  /\ reader \in Readers
  /\ server \in Servers

(* A request that returns a result returns the answer to itself: never the *)
(* late answer to an earlier request that timed out, whatever the order    *)
(* in which the server answers.                                            *)
OwnAnswer ==
  \A r \in results : r.how = "answered" => r.answer = r.n

(* The frames of the two threads never mix on the server's stdin: what the *)
(* server has read of a frame and what is in the pipe is a sequence of     *)
(* headers, each followed by its own body, and only the holder of the      *)
(* mutex may have left a body out.                                         *)
FramesIntact ==
  LET half == IF server.header = Nobody THEN <<>> ELSE <<Piece("header", server.header)>>
      line == half \o stdin
  IN  \A i \in 1 .. Len(line) :
        IF line[i].part = "body"
        THEN i > 1 /\ line[i - 1] = Piece("header", line[i].frame)
        ELSE IF i < Len(line)
             THEN line[i + 1] = Piece("body", line[i].frame)
             ELSE server.alive => holder = line[i].frame.from

(* The caller is told that the server exited only when it has, and only    *)
(* about a request whose answer it did not send: an answer that was on its *)
(* way when the server died is delivered, never lost to the exit.          *)
ExitIsLast ==
  /\ ~ alive => ~ server.alive /\ stdout = <<>>
  /\ \A r \in results : r.how = "exited" =>
       ~ alive /\ \A a \in responses : a.n # r.n

(* Once the client is dropped, the server is gone and both threads end,    *)
(* even with a reply half written or the reader waiting for the mutex.     *)
DropCompletes == caller.pc = "drop" ~> caller.pc = "done"

(* The death of the server is noticed, wherever the two threads were       *)
(* blocked: the caller is never left sending.                              *)
DeathUnblocks == ~ server.alive ~> caller.pc \notin {"lock", "header", "body", "waiting"}

(* The client's threads never block the server for good (client.rs: the    *)
(* reader answers requests with null "so nothing blocks the server").      *)
ServerNotBlocked == server.writing # Nobody ~> server.writing = Nobody
=============================================================================
