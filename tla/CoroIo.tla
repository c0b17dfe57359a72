------------------------------- MODULE CoroIo -------------------------------
(***************************************************************************)
(* The awaitable operations of coro_io.hpp: a coroutine stores its handle  *)
(* in a callback_awaitor, starts an operation of asio with a handler that  *)
(* points at the awaitor, and is suspended until the handler has stored    *)
(* the answer and resumes it.  async_connect() awaits twice with the same  *)
(* awaitor, async_sendfile() as often as the socket is full, async_send()  *)
(* and async_receive() only when the channel has no room or no value, and  *)
(* post() runs a function on an executor.                                  *)
(*                                                                         *)
(* asio, the kernel and the channel are external.  A channel belongs to    *)
(* one thread, as asio's is not thread-safe, so that trying and then       *)
(* waiting is one step.  A function that is posted throws only             *)
(* std::exception, or nothing: anything else would leave the thread.       *)
(***************************************************************************)
EXTENDS Naturals, Sequences

CONSTANTS IoCallers,  \* coroutines
          Mixes,      \* sets of operations: those of one set are called in one run
          MaxIoCalls, \* bound on the calls
          Capacity,   \* of the channel
          FileSize,   \* bytes of the file that is sent
          SendSizes,  \* how many of them are asked for
          SendChunk   \* what one system call sends at most, 65536 in the code

VARIABLES kinds,    \* the set of operations of this run
          begun,    \* calls so far; the value that a call sends is its number
          call,     \* the call that each coroutine makes
          service,  \* the coroutines whose operation asio has started
          executor, \* the handlers that are queued on the executor
          channel   \* buffer, senders and receivers that wait, and what went in and out

Operations == {"wait", "connect", "post", "close", "sendfile", "send", "receive"}

CoroIoAssumption ==
  /\ \A mix \in Mixes : mix \subseteq Operations
  /\ Capacity \in Nat /\ FileSize \in Nat /\ SendSizes \subseteq Nat
  /\ SendChunk \in Nat \ {0}

ioVars == <<kinds, begun, call, service, executor, channel>>

(* An error code with the size or value that comes with it.                  *)
Answer(ec, value) == [ec |-> ec, value |-> value]
Fine == Answer("ok", 0)

Idle == [kind |-> "none", at |-> "idle", number |-> 0, stored |-> FALSE, arg |-> Fine,
         told |-> <<>>, result |-> Fine, offset |-> 0, size |-> 0, least |-> 0, sent |-> <<>>]

Init ==
  /\ kinds \in Mixes
  /\ begun = 0
  /\ call = [c \in IoCallers |-> Idle]
  /\ service = {}
  /\ executor = <<>>
  /\ channel = [buffer |-> <<>>, senders |-> <<>>, receivers |-> <<>>, in |-> <<>>, out |-> <<>>]

-----------------------------------------------------------------------------
(* A coroutine that is idle or has its result calls an operation.  Transfers *)
(* of files do not touch each other: there is one at a time.                 *)
Transfer == {"syscall", "await", "start", "waiting"}

FirstStep(kind) == CASE kind = "sendfile" -> "syscall"
                     [] kind \in {"send", "receive"} -> "try"
                     [] OTHER -> "await"

Begin(c) ==
  /\ begun < MaxIoCalls /\ call[c].at \in {"idle", "returned"}
  /\ \E kind \in kinds, size \in SendSizes, offset \in {0, 1} :
       /\ kind # "sendfile" => size = 0 /\ offset = 0
       /\ kind = "sendfile" => ~ \E d \in IoCallers : call[d].at \in Transfer
       /\ call' = [call EXCEPT ![c] =
            [Idle EXCEPT !.kind = kind, !.at = FirstStep(kind), !.number = begun + 1,
                         !.offset = offset, !.size = size, !.least = size]]
  /\ begun' = begun + 1
  /\ UNCHANGED <<kinds, service, executor, channel>>

Returned(r, answer) == [r EXCEPT !.at = "returned", !.result = answer]

(* await_suspend() stores the handle before it starts the operation: the     *)
(* answer may come on another thread before it has returned.                 *)
StoreHandle(c) ==
  /\ call[c].at = "await"
  /\ call' = [call EXCEPT ![c].stored = TRUE, ![c].at = "start"]
  /\ UNCHANGED <<kinds, begun, service, executor, channel>>

(* Sockets and timers answer from asio; post() and async_close() queue a     *)
(* function on the executor.                                                 *)
StartOperation(c) ==
  /\ call[c].at = "start"
  /\ call' = [call EXCEPT ![c].at = "waiting"]
  /\ IF call[c].kind \in {"post", "close"}
       THEN executor' = Append(executor, [of |-> c, answers |->
              IF call[c].kind = "close" THEN {Fine}
              ELSE {Answer("ok", call[c].number), Answer("exception", 0)}]) /\ UNCHANGED service
       ELSE service' = service \union {c} /\ UNCHANGED executor
  /\ UNCHANGED <<kinds, begun, channel>>

-----------------------------------------------------------------------------
(* What the coroutine does when it has been resumed and has taken arg_ from  *)
(* the awaitor.  async_connect() goes on when the name was resolved, and     *)
(* async_sendfile() when the socket can be written.                          *)
Resumed(r, answer) ==
  CASE r.kind = "connect" /\ Len(r.told) = 1 /\ answer.ec = "ok" -> [r EXCEPT !.at = "await"]
    [] r.kind = "sendfile" /\ answer.ec = "ok" ->    \* the awaitor is one of each wait
         [r EXCEPT !.at = "syscall", !.stored = FALSE, !.arg = Fine, !.told = <<>>]
    [] r.kind = "sendfile" /\ answer.ec # "ok" ->
         Returned(r, Answer(answer.ec, r.size - r.least))
    [] OTHER -> Returned(r, answer)

(* Mutant: the coroutine is resumed before the answer is stored.             *)
ResumeThenSet(c, answer) ==
  LET r == [call[c] EXCEPT !.arg = answer, !.told = Append(@, answer)]
  IN  call' = [call EXCEPT ![c] = Resumed(r, call[c].arg)]

(* The handler stores the answer in the awaitor, then resumes the coroutine. *)
SetValueThenResume(c, answer) ==
  LET r == [call[c] EXCEPT !.arg = answer, !.told = Append(@, answer)]
  IN  call' = [call EXCEPT ![c] = Resumed(r, r.arg)]

(* asio completes an operation, in any order.                                *)
Complete(c) ==
  /\ c \in service
  /\ service' = service \ {c}
  /\ \E ec \in {"ok", "error"} : SetValueThenResume(c, Answer(ec, 0))
  /\ UNCHANGED <<kinds, begun, executor, channel>>

(* The executor takes what is queued in its order.  post_helper calls the    *)
(* function and catches what it throws.                                      *)
RunPosted ==
  /\ executor # <<>>
  /\ executor' = Tail(executor)
  /\ \E answer \in Head(executor).answers : SetValueThenResume(Head(executor).of, answer)
  /\ UNCHANGED <<kinds, begun, service, channel>>

-----------------------------------------------------------------------------
(* The channel.  What is handed to a coroutine that waits is queued.         *)
Hand(c, answer) == [of |-> c, answers |-> {answer}]

(* async_send(): try_send() gives the value to a receiver that waits, or to  *)
(* the buffer; else the coroutine waits for room.                            *)
AsyncSend(c) ==
  LET value == call[c].number
      entered == [channel EXCEPT !.in = Append(@, value)]
  IN  /\ call[c].at = "try" /\ call[c].kind = "send"
      /\ \/ /\ channel.receivers # <<>>
            /\ channel' = [entered EXCEPT !.receivers = Tail(@), !.out = Append(@, value)]
            /\ executor' = Append(executor, Hand(Head(channel.receivers), Answer("ok", value)))
            /\ call' = [call EXCEPT ![c] = Returned(@, Fine)]
         \/ /\ channel.receivers = <<>> /\ Len(channel.buffer) < Capacity
            /\ channel' = [entered EXCEPT !.buffer = Append(@, value)]
            /\ call' = [call EXCEPT ![c] = Returned(@, Fine)]
            /\ UNCHANGED executor
         \/ /\ channel.receivers = <<>> /\ Len(channel.buffer) = Capacity
            /\ channel' = [entered EXCEPT !.senders = Append(@, c)]
            /\ call' = [call EXCEPT ![c].stored = TRUE, ![c].at = "waiting"]
            /\ UNCHANGED executor
      /\ UNCHANGED <<kinds, begun, service>>

(* What try_receive() takes: the first value of the buffer, whose place goes *)
(* to the first sender that waits, or that of the sender without a buffer.   *)
TakeValue ==
  LET pending == channel.buffer \o [i \in DOMAIN channel.senders |-> call[channel.senders[i]].number]
      n == IF Capacity < Len(pending) - 1 THEN Capacity ELSE Len(pending) - 1
  IN  /\ channel' = [channel EXCEPT !.buffer = SubSeq(pending, 2, n + 1),
                       !.senders = IF @ = <<>> THEN @ ELSE Tail(@),
                       !.out = Append(@, Head(pending))]
      /\ executor' = IF channel.senders = <<>> THEN executor
                     ELSE Append(executor, Hand(Head(channel.senders), Fine))

(* async_receive(): try_receive(), else the coroutine waits for a value.     *)
AsyncReceive(c) ==
  LET first == IF channel.buffer # <<>> THEN Head(channel.buffer)
               ELSE call[Head(channel.senders)].number
  IN  /\ call[c].at = "try" /\ call[c].kind = "receive"
      /\ \/ /\ channel.buffer \o channel.senders # <<>>
            /\ TakeValue
            /\ call' = [call EXCEPT ![c] = Returned(@, Answer("ok", first))]
         \/ /\ channel.buffer \o channel.senders = <<>>
            /\ channel' = [channel EXCEPT !.receivers = Append(@, c)]
            /\ call' = [call EXCEPT ![c].stored = TRUE, ![c].at = "waiting"]
            /\ UNCHANGED executor
      /\ UNCHANGED <<kinds, begun, service>>

-----------------------------------------------------------------------------
(* async_sendfile(): one system call.  The kernel moves the offset by what   *)
(* it sent, which may be less than it was asked for.                         *)
Smaller(x, y) == IF x < y THEN x ELSE y

Sent(r, n) ==
  LET s == [r EXCEPT !.offset = @ + n, !.least = @ - n,
                     !.sent = @ \o [i \in 1..n |-> r.offset + i]]
  IN  IF n = 0 \/ s.least = 0 THEN Returned(s, Answer("ok", s.size - s.least)) ELSE s

SendFile(c) ==
  LET r == call[c]
      available == IF r.offset < FileSize THEN FileSize - r.offset ELSE 0
      most == Smaller(SendChunk, Smaller(r.least, available))
  IN  /\ r.at = "syscall"
      /\ \/ \E n \in 0..most : (n = 0 => most = 0) /\ call' = [call EXCEPT ![c] = Sent(r, n)]
         \/ UNCHANGED call                                        \* interrupted: try again
         \/ most > 0 /\ call' = [call EXCEPT ![c].at = "await"]   \* would block
         \/ call' = [call EXCEPT ![c] = Returned(r, Answer("error", r.size - r.least))]
      /\ UNCHANGED <<kinds, begun, service, executor, channel>>

-----------------------------------------------------------------------------
Next ==
  \/ RunPosted
  \/ \E c \in IoCallers : \/ Begin(c) \/ StoreHandle(c) \/ StartOperation(c) \/ Complete(c)
                          \/ AsyncSend(c) \/ AsyncReceive(c) \/ SendFile(c)
-----------------------------------------------------------------------------
(* An operation returns what asio answered to it: a connection the error of  *)
(* the name or, when there is none, that of the connection itself, and not   *)
(* what is left in the awaitor that both share; and a handler finds the      *)
(* coroutine that it resumes.                                                *)
OwnAnswer(r) ==
  CASE r.kind \in {"wait", "post", "close"} -> r.told = <<r.result>>
    [] r.kind = "connect" ->
         /\ r.result = r.told[Len(r.told)]
         /\ Len(r.told) = IF r.told[1].ec = "ok" THEN 2 ELSE 1
    [] OTHER -> TRUE

(* async_sendfile() has sent the bytes from the offset on, each once and in  *)
(* their order, as many as it says, and without an error all that were asked *)
(* for or are in the file.                                                   *)
FileSent(r) ==
  LET start == r.offset - Len(r.sent)
  IN  /\ r.sent = [i \in 1..Len(r.sent) |-> start + i]
      /\ r.result.value = Len(r.sent)
      /\ r.result.ec = "ok" =>
           \/ Len(r.sent) = r.size
           \/ r.offset >= FileSize /\ Len(r.sent) < r.size

(* Values leave the channel in the order in which they came, each once, and  *)
(* go to the receivers; nobody waits for what there is.                      *)
ChannelInOrder ==
  LET Waiting(i) == call[channel.senders[i]].number
      values == {call[c].result.value : c \in {d \in IoCallers : /\ call[d].kind = "receive"
                                                                /\ call[d].at = "returned"}}
  IN  /\ channel.in = channel.out \o channel.buffer \o [i \in DOMAIN channel.senders |-> Waiting(i)]
      /\ values \subseteq {channel.out[i] : i \in DOMAIN channel.out}
      /\ \A c, d \in IoCallers :
           /\ c # d /\ call[c].at = "returned" /\ call[d].at = "returned"
           /\ call[c].kind = "receive" /\ call[d].kind = "receive"
           => call[c].result.value # call[d].result.value
      /\ channel.receivers # <<>> => channel.buffer \o channel.senders = <<>>
      /\ channel.senders # <<>> => Len(channel.buffer) = Capacity
      /\ \A c \in IoCallers : call[c].kind = "send" /\ call[c].at = "returned" =>
           \A i \in DOMAIN channel.senders : channel.senders[i] # c

AnswersAreOwn ==
  /\ \A c \in IoCallers : call[c].at = "returned" =>
       /\ OwnAnswer(call[c])
       /\ call[c].kind = "sendfile" => FileSent(call[c])
  /\ \A c \in service \union {executor[i].of : i \in DOMAIN executor} : call[c].stored
  /\ ChannelInOrder
=============================================================================
