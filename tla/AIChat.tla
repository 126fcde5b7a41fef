------------------------------- MODULE AIChat -------------------------------
(***************************************************************************)
(* The AI assistant: the browser's store and stream reader (aiChatStore.ts *)
(* and aiChatService.ts) and the server's tool-calling loop (RunChat of    *)
(* api/ai/service.go).  A question opens a chat: a request whose answer is *)
(* a stream of events.  The reader of a chat outlives its last event until *)
(* the connection ends, so two readers may write to the one store.         *)
(*                                                                         *)
(* Each event is read by a step of its own.  The rejection that an abort   *)
(* causes is handled before the browser does anything else, so it is part  *)
(* of the step that aborts.                                                *)
(***************************************************************************)
EXTENDS Integers, FiniteSets, SequencesExt

CONSTANTS Tools,        \* names of tools
          MaxChats,     \* questions asked
          MaxRounds,    \* maxToolRounds of RunChat
          MaxCalls,     \* tool calls of a round
          MaxTokens,    \* tokens of a round
          Window        \* events on the way before the server waits

ASSUME BoundsAssumption ==
    /\ MaxChats \in Nat /\ MaxRounds \in Nat \ {0}
    /\ MaxCalls \in Nat /\ MaxTokens \in Nat /\ Window \in Nat \ {0}

VARIABLES messages, toolEvents, isStreaming, error, abortController, \* the store
          asked,        \* chats begun; the last one is the current one
          reader,       \* by chat, how far streamChat is
          wire,         \* by chat, the events sent and not read yet
          server,       \* by chat, how far RunChat is
          told,         \* what the server did for the current chat
          stray         \* a chat's connection broke after a later one began

store == <<messages, toolEvents, isStreaming, error, abortController>>
vars == <<store, asked, reader, wire, server, told, stray>>

Chats == 1..MaxChats
None == 0

Token == [event: {"token"}, delta: Chats \X Nat]
Event == Token \cup [event: {"tool_start"}, name: Tools]
               \cup [event: {"tool_end"}, name: Tools, ok: BOOLEAN]
               \cup [event: {"done", "error", "end"}]

\* chat names the question a message belongs to, for the properties only.
Message == [role: {"user", "assistant"}, chat: Chats, content: Seq(Chats \X Nat)]

\* said counts the tokens of all rounds, here those of this round; calls are
\* the round's tool calls left.
Server == [pc: {"idle", "received", "asking", "calling", "executing", "over",
                 "panicked"},
           round: 0..(MaxRounds - 1), said: Nat, here: 0..MaxTokens,
           calls: Seq(Tools)]
At(pc) == [pc |-> pc, round |-> 0, said |-> 0, here |-> 0, calls |-> <<>>]

\* For the properties only: the tokens sent and the tools run.
NothingYet == [tokens |-> 0, ran |-> <<>>]

TypeOK ==
    /\ messages \in Seq(Message)
    /\ toolEvents \in Seq([name: Tools, status: {"running", "done", "error"}])
    /\ isStreaming \in BOOLEAN
    /\ error \in {"none", "failure", "aborted"}
    /\ abortController \in Chats \cup {None}
    /\ asked \in 0..MaxChats
    /\ reader \in [Chats -> {"idle", "fetching", "reading", "ending", "silent", "closed"}]
    /\ wire \in [Chats -> Seq(Event)]
    /\ server \in [Chats -> Server]
    /\ told \in [tokens: Nat, ran: Seq([name: Tools, ok: BOOLEAN])]
    /\ stray \in BOOLEAN

Init ==
    /\ messages = <<>> /\ toolEvents = <<>> /\ isStreaming = FALSE
    /\ error = "none" /\ abortController = None /\ asked = 0
    /\ reader = [c \in Chats |-> "idle"]
    /\ wire = [c \in Chats |-> <<>>]
    /\ server = [c \in Chats |-> At("idle")]
    /\ told = NothingYet
    /\ stray = FALSE

-----------------------------------------------------------------------------
(* The store.                                                              *)

Says(role, c) == [role |-> role, chat |-> c, content |-> <<>>]

Idle == isStreaming' = FALSE /\ abortController' = None

\* A faulty form: a failed connection looks like an answer that ended.
Caught_KeepsError == Idle /\ error' = error

\* The catch of sendMessage, for a connection that failed or was refused.
Caught == Idle /\ error' = "failure"

\* The panel waits for a chat whose streamChat has returned.
Deserted == \E c \in Chats : abortController = c /\ reader[c] = "silent"

\* What an abort leaves: the reader's catch, after the set of who aborted.
\* Nothing rejects if nothing is awaited.
CaughtAbort ==
    /\ Idle
    /\ error' = IF abortController = None \/ Deserted THEN "none" ELSE "aborted"

\* abort() of a chat: it is not read again, and the server's request ends.
Abort(c) ==
    /\ reader' = [k \in Chats |-> IF k = c /\ reader[k] # "silent" THEN "closed"
                                  ELSE reader[k]]
    /\ wire' = [k \in Chats |-> IF k = c THEN <<>> ELSE wire[k]]
    /\ server' = [k \in Chats |->
                    IF k = c THEN At("over") ELSE server[k]]

\* A faulty form: a question may be sent while another is answered.
sendMessage_WhileStreaming ==
    /\ asked < MaxChats
    /\ LET c == asked + 1
       IN /\ asked' = c
          /\ messages' = messages \o <<Says("user", c), Says("assistant", c)>>
          /\ toolEvents' = <<>>
          /\ isStreaming' = TRUE /\ error' = "none" /\ abortController' = c
          /\ reader' = [reader EXCEPT ![c] = "fetching"]
          /\ server' = [server EXCEPT ![c] = At("received")]
          /\ told' = NothingYet
    /\ UNCHANGED <<wire, stray>>

sendMessage ==
    /\ asked < MaxChats /\ ~isStreaming
    /\ LET c == asked + 1
       IN /\ asked' = c
          /\ messages' = messages \o <<Says("user", c), Says("assistant", c)>>
          /\ toolEvents' = <<>>
          /\ isStreaming' = TRUE /\ error' = "none" /\ abortController' = c
          /\ reader' = [reader EXCEPT ![c] = "fetching"]
          /\ server' = [server EXCEPT ![c] = At("received")]
          /\ told' = NothingYet
    /\ UNCHANGED <<wire, stray>>

\* A faulty form: the connection is left open.
stopStreaming_NoAbort ==
    /\ isStreaming
    /\ Idle
    /\ UNCHANGED <<messages, toolEvents, error, asked, reader, wire, server, told, stray>>

\* The button is there while a chat streams.
stopStreaming ==
    /\ isStreaming
    /\ Abort(abortController) /\ CaughtAbort
    /\ UNCHANGED <<messages, toolEvents, asked, told, stray>>

clearConversation ==
    /\ Abort(abortController) /\ CaughtAbort
    /\ messages' = <<>> /\ toolEvents' = <<>>
    /\ UNCHANGED <<asked, told, stray>>

-----------------------------------------------------------------------------
(* Reading a stream.                                                       *)

appendToLastAssistant(delta) ==
    /\ messages' = IF messages # <<>> /\ Last(messages).role = "assistant"
                     THEN [messages EXCEPT ![Len(messages)].content = Append(@, delta)]
                     ELSE messages
    /\ UNCHANGED <<toolEvents, isStreaming, error, abortController>>

onToolStart(name) ==
    /\ toolEvents' = Append(toolEvents, [name |-> name, status |-> "running"])
    /\ UNCHANGED <<messages, isStreaming, error, abortController>>

\* A faulty form: the first call of that name is marked, ended or not.
onToolEnd_First(name, ok) ==
    /\ LET i == SelectInSeq(toolEvents,
                    LAMBDA e : e.name = name)
       IN toolEvents' = IF i = 0 THEN toolEvents
                        ELSE [toolEvents EXCEPT ![i].status =
                                IF ok THEN "done" ELSE "error"]
    /\ UNCHANGED <<messages, isStreaming, error, abortController>>

onToolEnd(name, ok) ==
    /\ LET i == SelectLastInSeq(toolEvents,
                    LAMBDA e : e.name = name /\ e.status = "running")
       IN toolEvents' = IF i = 0 THEN toolEvents
                        ELSE [toolEvents EXCEPT ![i].status =
                                IF ok THEN "done" ELSE "error"]
    /\ UNCHANGED <<messages, isStreaming, error, abortController>>

\* A faulty form: an error event does not end the waiting.
onError_KeepsWaiting == error' = "failure" /\ UNCHANGED <<messages, toolEvents, isStreaming, abortController>>

onError == Caught /\ UNCHANGED <<messages, toolEvents>>

onDone == Idle /\ UNCHANGED <<messages, toolEvents, error>>

dispatchSSEEvent(e) ==
    \/ e.event = "token" /\ appendToLastAssistant(e.delta)
    \/ e.event = "tool_start" /\ onToolStart(e.name)
    \/ e.event = "tool_end" /\ onToolEnd(e.name, e.ok)
    \/ e.event = "done" /\ onDone
    \/ e.event = "error" /\ onError

\* After done or error the loop goes on until the body ends.
ReadEvent(c) ==
    /\ reader[c] \in {"reading", "ending"} /\ wire[c] # <<>>
    /\ Head(wire[c]).event # "end"
    /\ dispatchSSEEvent(Head(wire[c]))
    /\ wire' = [wire EXCEPT ![c] = Tail(@)]
    /\ reader' = [reader EXCEPT ![c] =
                    IF Head(wire[c]).event \in {"done", "error"} THEN "ending" ELSE @]
    /\ UNCHANGED <<asked, server, told, stray>>

\* reader.read() reports that the body is done; streamChat returns, without a
\* word to the store even if the body had no last event.
ReadEnd(c) ==
    /\ reader[c] \in {"reading", "ending"} /\ wire[c] # <<>>
    /\ Head(wire[c]).event = "end"
    /\ reader' = [reader EXCEPT ![c] = IF @ = "reading" THEN "silent" ELSE "closed"]
    /\ wire' = [wire EXCEPT ![c] = <<>>]
    /\ UNCHANGED <<store, asked, server, told, stray>>

\* The connection fails, before the response or while its body is read: the
\* pending fetch or read rejects, and the server's request is cancelled.
Break(c) ==
    /\ reader[c] \in {"fetching", "reading", "ending"}
    /\ Abort(c) /\ Caught
    /\ stray' = (stray \/ c # asked)
    /\ UNCHANGED <<messages, toolEvents, asked, told>>

-----------------------------------------------------------------------------
(* The server.                                                             *)

Writes(c, events) ==
    /\ Len(wire[c]) < Window
    /\ wire' = [wire EXCEPT ![c] = @ \o events]

\* The request is answered with an error status: streamChat throws.
Refuse(c) ==
    /\ server[c].pc = "received"
    /\ Abort(c) /\ Caught
    /\ UNCHANGED <<messages, toolEvents, asked, told, stray>>

\* The header is written, and the first round begins.
Accept(c) ==
    /\ server[c].pc = "received"
    /\ server' = [server EXCEPT ![c].pc = "asking"]
    /\ reader' = [reader EXCEPT ![c] = "reading"]
    /\ UNCHANGED <<store, asked, wire, told, stray>>

\* The model streams a piece of its answer.
Delta(c) ==
    /\ server[c].pc = "asking" /\ server[c].here < MaxTokens
    /\ LET n == server[c].said + 1
       IN /\ server' = [server EXCEPT ![c].said = n, ![c].here = @ + 1]
          /\ Writes(c, <<[event |-> "token", delta |-> <<c, n>>]>>)
    /\ told' = IF c = asked THEN [told EXCEPT !.tokens = @ + 1] ELSE told
    /\ UNCHANGED <<store, asked, reader, stray>>

\* RunChat returns after its last event, and the body ends.
Over(c, last) ==
    /\ server' = [server EXCEPT ![c] = At("over")]
    /\ Writes(c, <<[event |-> last], [event |-> "end"]>>)

\* The model's answer ends: with an error, without tool calls, or with some.
ModelFails(c) ==
    /\ server[c].pc = "asking"
    /\ Over(c, "error")
    /\ UNCHANGED <<store, asked, reader, told, stray>>

ModelAnswers(c) ==
    /\ server[c].pc = "asking"
    /\ Over(c, "done")
    /\ UNCHANGED <<store, asked, reader, told, stray>>

ModelCalls(c) ==
    /\ server[c].pc = "asking"
    /\ \E calls \in BoundedSeq(Tools, MaxCalls) \ {<<>>} :
            server' = [server EXCEPT ![c].pc = "calling", ![c].calls = calls]
    /\ UNCHANGED <<store, asked, reader, wire, told, stray>>

StartTool(c) ==
    /\ server[c].pc = "calling"
    /\ server' = [server EXCEPT ![c].pc = "executing"]
    /\ Writes(c, <<[event |-> "tool_start", name |-> Head(server[c].calls)]>>)
    /\ UNCHANGED <<store, asked, reader, told, stray>>

\* A faulty form: the loop goes on to round MaxRounds.
EndTool_OneMoreRound(c, ok) ==
    /\ server[c].pc = "executing"
    /\ LET name == Head(server[c].calls)
           more == Tail(server[c].calls)
           round == server[c].round + 1
           ended == [event |-> "tool_end", name |-> name, ok |-> ok]
       IN /\ \/ /\ more # <<>>
                /\ server' = [server EXCEPT ![c].pc = "calling", ![c].calls = more]
                /\ Writes(c, <<ended>>)
             \/ /\ more = <<>> /\ round <= MaxRounds
                /\ server' = [server EXCEPT ![c].pc = "asking", ![c].calls = more,
                                            ![c].round = round, ![c].here = 0]
                /\ Writes(c, <<ended>>)
             \/ /\ more = <<>> /\ round > MaxRounds
                /\ server' = [server EXCEPT ![c] = At("over")]
                /\ Writes(c, <<ended, [event |-> "error"], [event |-> "end"]>>)
          /\ told' = IF c = asked
                      THEN [told EXCEPT !.ran = Append(@, [name |-> name, ok |-> ok])]
                      ELSE told
    /\ UNCHANGED <<store, asked, reader, stray>>

\* A tool ended.  After the last call of a round comes the next round, or the
\* error that there were too many.
EndTool(c, ok) ==
    /\ server[c].pc = "executing"
    /\ LET name == Head(server[c].calls)
           more == Tail(server[c].calls)
           round == server[c].round + 1
           ended == [event |-> "tool_end", name |-> name, ok |-> ok]
       IN /\ \/ /\ more # <<>>
                /\ server' = [server EXCEPT ![c].pc = "calling", ![c].calls = more]
                /\ Writes(c, <<ended>>)
             \/ /\ more = <<>> /\ round < MaxRounds
                /\ server' = [server EXCEPT ![c].pc = "asking", ![c].calls = more,
                                            ![c].round = round, ![c].here = 0]
                /\ Writes(c, <<ended>>)
             \/ /\ more = <<>> /\ round = MaxRounds
                /\ server' = [server EXCEPT ![c] = At("over")]
                /\ Writes(c, <<ended, [event |-> "error"], [event |-> "end"]>>)
          /\ told' = IF c = asked
                      THEN [told EXCEPT !.ran = Append(@, [name |-> name, ok |-> ok])]
                      ELSE told
    /\ UNCHANGED <<store, asked, reader, stray>>

\* The client of the model or a tool panics.  WithPanicLogger recovers, so the
\* body ends like any other, without an event that says so.
Panics(c) ==
    /\ server[c].pc \in {"asking", "executing"}
    /\ server' = [server EXCEPT ![c].pc = "panicked"]
    /\ Writes(c, <<[event |-> "end"]>>)
    /\ UNCHANGED <<store, asked, reader, told, stray>>

-----------------------------------------------------------------------------
Responds(c) == Refuse(c) \/ Accept(c)
ModelEnds(c) == ModelFails(c) \/ ModelAnswers(c) \/ ModelCalls(c)
RunsTool(c) == StartTool(c) \/ \E ok \in BOOLEAN : EndTool(c, ok)
Reads(c) == ReadEvent(c) \/ ReadEnd(c)

Next ==
    \/ sendMessage \/ stopStreaming \/ clearConversation
    \/ \E c \in Chats : \/ Reads(c) \/ Break(c)
                        \/ Responds(c) \/ Delta(c) \/ ModelEnds(c) \/ RunsTool(c)
                        \/ Panics(c)

\* The server answers a request, a call of the model ends (llmRequestTimeout),
\* tools return, and what was sent is read.  Nobody has to ask, stop or clear.
Fairness == \A c \in Chats : /\ WF_vars(Responds(c)) /\ WF_vars(ModelEnds(c))
                             /\ WF_vars(RunsTool(c)) /\ WF_vars(Reads(c))

Spec == Init /\ [][Next]_vars /\ Fairness

-----------------------------------------------------------------------------
(* Properties.                                                             *)

Streams(c) == \/ reader[c] \in {"fetching", "reading"}
              \/ reader[c] = "silent" /\ abortController = c

\* Nothing streams out of the user's reach: a chat that has not heard its last
\* event, and never will if its body ended without one, is the one the Stop
\* button aborts, and the button is there exactly then.  (sendMessage's check of
\* isStreaming, abort in stop and clear, and the handlers that reset both
\* fields.)  A connection that breaks after a later chat began resets the fields
\* of the wrong chat; stray excludes it.
StreamsAreStoppable ==
    stray \/ /\ isStreaming <=> \E c \in Chats : Streams(c)
             /\ \A c \in Chats : Streams(c) => abortController = c

\* An answer holds only what the server said to its own question, in order and
\* without a gap, although all readers append to whatever message is last.
AnswersAreTheirOwn ==
    stray \/ \A i \in 1..Len(messages) :
                LET m == messages[i]
                IN \A n \in 1..Len(m.content) :
                        m.role = "assistant" /\ m.content[n] = <<m.chat, n>>

\* An answer that the panel shows as complete, idle and without an error, is:
\* it holds every token and every tool call the server made for it.  Not so if
\* its body ended without a last event: Stop then leaves the part that came.
NoErrorMeansWhole ==
    (/\ ~stray /\ ~isStreaming /\ error = "none" /\ messages # <<>>
     /\ reader[asked] # "silent") =>
                /\ Len(Last(messages).content) = told.tokens
                /\ Len(toolEvents) = Len(told.ran)
                /\ \A i \in 1..Len(toolEvents) : toolEvents[i].status # "running"

\* A tool that the panel shows as ended ended, and as it is shown, although
\* the events name tools and several calls have the same name.
ToolsShownAsTheyEnded ==
    stray \/ \A i \in 1..Len(toolEvents) :
                \/ toolEvents[i].status = "running"
                \/ /\ i \in DOMAIN told.ran
                   /\ toolEvents[i] = [name |-> told.ran[i].name,
                        status |-> IF told.ran[i].ok THEN "done" ELSE "error"]

\* The panel does not wait for ever: a chat that streams ends, by its last
\* event, an error status, a failed connection or Stop, or its body ends
\* without a last event.  Then alone the panel waits until the user stops it.
StreamingEnds == isStreaming ~> (~isStreaming \/ Deserted)
=============================================================================
