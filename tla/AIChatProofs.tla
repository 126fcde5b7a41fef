---------------------------- MODULE AIChatProofs ----------------------------
(***************************************************************************)
(* What holds of the chat panel for any number of questions, rounds, tool  *)
(* calls and tokens: the types, that whatever streams is what the Stop     *)
(* button stops (StreamsAreStoppable), that an answer is the one to its    *)
(* own question (AnswersAreTheirOwn), that the tools are shown as they     *)
(* ended (ToolsShownAsTheyEnded), and that an answer shown as complete is  *)
(* (NoErrorMeansWhole).                                                    *)
(***************************************************************************)
EXTENDS AIChat, SequenceTheorems, TLAPS

-----------------------------------------------------------------------------
(* Types.  A round has calls left while one is to begin or executed, and   *)
(* none while the model is asked.                                          *)

HasCalls(s) ==
  /\ s.pc \in {"calling", "executing"} => s.calls # <<>>
  /\ s.pc \in {"received", "asking"} => s.calls = <<>>

TypeInv ==
  /\ TypeOK
  /\ \A c \in Chats : HasCalls(server[c])

\* A chat's place at the server with nothing in hand.
LEMMA AtTypes ==
  ASSUME NEW pc \in {"idle", "received", "over"}
  PROVE  At(pc) \in Server /\ HasCalls(At(pc)) /\ At(pc).pc = pc
BY BoundsAssumption DEF At, Server, HasCalls

LEMMA InitTypes == Init => TypeInv
<1> SUFFICES ASSUME Init PROVE TypeInv
  OBVIOUS
<1>1. server \in [Chats -> Server] /\ \A c \in Chats : HasCalls(server[c])
  BY AtTypes DEF Init
<1>2. /\ messages \in Seq(Message) /\ wire \in [Chats -> Seq(Event)]
      /\ toolEvents \in Seq([name: Tools, status: {"running", "done", "error"}])
      /\ told \in [tokens: Nat, ran: Seq([name: Tools, ok: BOOLEAN])]
  BY DEF Init, NothingYet
<1>3. /\ isStreaming \in BOOLEAN /\ stray \in BOOLEAN /\ error \in {"none", "failure", "aborted"}
      /\ abortController \in Chats \cup {None} /\ asked \in 0..MaxChats
      /\ reader \in [Chats -> {"idle", "fetching", "reading", "ending", "silent", "closed"}]
  <2>1. isStreaming \in BOOLEAN /\ stray \in BOOLEAN
    BY DEF Init
  <2>2. error \in {"none", "failure", "aborted"} /\ abortController \in Chats \cup {None}
    BY DEF Init
  <2>3. asked \in 0..MaxChats
    BY BoundsAssumption DEF Init
  <2> QED BY <2>1, <2>2, <2>3 DEF Init
<1> QED BY <1>1, <1>2, <1>3 DEF TypeInv, TypeOK

\* What an abort, a refusal and a broken connection do to the chat.
LEMMA AbortTypes ==
  ASSUME TypeInv, NEW c, Abort(c)
  PROVE  /\ reader' \in [Chats -> {"idle", "fetching", "reading", "ending", "silent", "closed"}]
         /\ wire' \in [Chats -> Seq(Event)]
         /\ server' \in [Chats -> Server] /\ \A k \in Chats : HasCalls(server'[k])
<1>1. /\ reader' \in [Chats -> {"idle", "fetching", "reading", "ending", "silent", "closed"}]
      /\ wire' \in [Chats -> Seq(Event)]
  BY DEF TypeInv, TypeOK, Abort
<1>2. server' \in [Chats -> Server] /\ \A k \in Chats : HasCalls(server'[k])
  BY AtTypes DEF TypeInv, TypeOK, Abort
<1> QED BY <1>1, <1>2

\* The server of one chat moves on.
LEMMA ServerMoves ==
  ASSUME TypeInv, NEW c \in Chats, NEW s \in Server, HasCalls(s),
         server' = [server EXCEPT ![c] = s]
  PROVE  server' \in [Chats -> Server] /\ \A k \in Chats : HasCalls(server'[k])
BY DEF TypeInv, TypeOK

\* It writes events.
LEMMA WritesTypes ==
  ASSUME TypeInv, NEW c \in Chats, NEW events \in Seq(Event), Writes(c, events)
  PROVE  wire' \in [Chats -> Seq(Event)]
<1>1. wire[c] \o events \in Seq(Event)
  BY DEF TypeInv, TypeOK
<1> QED BY <1>1 DEF TypeInv, TypeOK, Writes

LEMMA EventTypes ==
  /\ \A d \in Chats \X Nat : [event |-> "token", delta |-> d] \in Event
  /\ \A t \in Tools : [event |-> "tool_start", name |-> t] \in Event
  /\ \A t \in Tools, ok \in BOOLEAN : [event |-> "tool_end", name |-> t, ok |-> ok] \in Event
  /\ \A f \in {"done", "error", "end"} : [event |-> f] \in Event
BY DEF Event, Token

\* What an event carries.
LEMMA EventKinds ==
  ASSUME NEW e \in Event
  PROVE  /\ e.event \in {"token", "tool_start", "tool_end", "done", "error", "end"}
         /\ e.event = "token" => e.delta \in Chats \X Nat
         /\ e.event \in {"tool_start", "tool_end"} => e.name \in Tools
         /\ e.event = "tool_end" => e.ok \in BOOLEAN
<1>1. CASE e \in Token
  BY <1>1 DEF Token
<1>2. CASE e \in [event: {"tool_start"}, name: Tools]
  BY <1>2
<1>3. CASE e \in [event: {"tool_end"}, name: Tools, ok: BOOLEAN]
  BY <1>3
<1>4. CASE e \in [event: {"done", "error", "end"}]
  BY <1>4
<1> QED BY <1>1, <1>2, <1>3, <1>4 DEF Event

LEMMA UserTypes ==
  ASSUME TypeInv, sendMessage \/ stopStreaming \/ clearConversation
  PROVE  TypeInv'
<1>1. CASE sendMessage
  <2> DEFINE c == asked + 1
  <2>1. c \in Chats /\ c \in 0..MaxChats
    BY <1>1, BoundsAssumption DEF sendMessage, TypeInv, TypeOK, Chats
  <2>2. server' = [server EXCEPT ![c] = At("received")]
    BY <1>1 DEF sendMessage
  <2>3. server' \in [Chats -> Server] /\ \A k \in Chats : HasCalls(server'[k])
    BY <2>1, <2>2, AtTypes, ServerMoves
  <2>4. messages' \in Seq(Message)
    <3>1. Says("user", c) \in Message /\ Says("assistant", c) \in Message
      BY <2>1 DEF Says, Message
    <3>2. messages' = messages \o <<Says("user", c), Says("assistant", c)>>
      BY <1>1 DEF sendMessage
    <3> HIDE DEF c
    <3> QED BY <3>1, <3>2 DEF TypeInv, TypeOK
  <2>5. told' \in [tokens: Nat, ran: Seq([name: Tools, ok: BOOLEAN])]
    BY <1>1 DEF sendMessage, NothingYet
  <2> QED BY <1>1, <2>1, <2>3, <2>4, <2>5 DEF sendMessage, TypeInv, TypeOK
<1>2. CASE stopStreaming \/ clearConversation
  <2>1. /\ Abort(abortController) /\ CaughtAbort
        /\ UNCHANGED <<asked, told, stray>>
        /\ \/ UNCHANGED <<messages, toolEvents>>
           \/ messages' = <<>> /\ toolEvents' = <<>>
    BY <1>2 DEF stopStreaming, clearConversation
  <2>2. /\ messages' \in Seq(Message)
        /\ toolEvents' \in Seq([name: Tools, status: {"running", "done", "error"}])
    <3>1. \A S : <<>> \in Seq(S)
      OBVIOUS
    <3> QED BY <2>1, <3>1 DEF TypeInv, TypeOK
  <2>3. /\ isStreaming' \in BOOLEAN /\ error' \in {"none", "failure", "aborted"}
        /\ abortController' \in Chats \cup {None}
    BY <2>1 DEF CaughtAbort, Idle
  <2> QED BY <2>1, <2>2, <2>3, AbortTypes DEF TypeInv, TypeOK
<1> QED BY <1>1, <1>2

LEMMA DispatchTypes ==
  ASSUME TypeInv, NEW e \in Event, dispatchSSEEvent(e)
  PROVE  /\ messages' \in Seq(Message)
         /\ toolEvents' \in Seq([name: Tools, status: {"running", "done", "error"}])
         /\ isStreaming' \in BOOLEAN /\ error' \in {"none", "failure", "aborted"}
         /\ abortController' \in Chats \cup {None}
<1> DEFINE ToolEvent == [name: Tools, status: {"running", "done", "error"}]
<1>1. CASE e.event = "token" /\ appendToLastAssistant(e.delta)
  <2> DEFINE i == Len(messages)
             m == [messages[i] EXCEPT !.content = Append(@, e.delta)]
  <2>1. messages' = messages \/ (messages # <<>> /\ messages' = [messages EXCEPT ![i] = m])
    BY <1>1 DEF appendToLastAssistant
  <2>2. e.delta \in Chats \X Nat
    BY <1>1, EventKinds
  <2>3. messages # <<>> => i \in 1..Len(messages) /\ messages[i] \in Message
    BY DEF TypeInv, TypeOK
  <2>4. messages # <<>> => m \in Message
    <3> SUFFICES ASSUME messages # <<>> PROVE m \in Message
      OBVIOUS
    <3>1. Append(messages[i].content, e.delta) \in Seq(Chats \X Nat)
      BY <2>2, <2>3 DEF Message
    <3> QED BY <2>3, <3>1 DEF Message
  <2> HIDE DEF m
  <2>5. messages' \in Seq(Message)
    <3>1. messages \in Seq(Message)
      BY DEF TypeInv, TypeOK
    <3>2. CASE messages # <<>>
      <4>1. [messages EXCEPT ![i] = m] \in Seq(Message)
        BY <2>3, <2>4, <3>1, <3>2, ExceptSeq
      <4> QED BY <2>1, <3>1, <4>1
    <3> QED BY <2>1, <3>1, <3>2
  <2> QED BY <1>1, <2>5 DEF appendToLastAssistant, TypeInv, TypeOK
<1>2. CASE e.event = "tool_start" /\ onToolStart(e.name)
  <2>1. [name |-> e.name, status |-> "running"] \in ToolEvent
    BY <1>2, EventKinds
  <2>2. toolEvents' \in Seq(ToolEvent)
    BY <1>2, <2>1 DEF onToolStart, TypeInv, TypeOK
  <2> QED BY <1>2, <2>2 DEF onToolStart, TypeInv, TypeOK
<1>3. CASE e.event = "tool_end" /\ onToolEnd(e.name, e.ok)
  <2>1. PICK i : \/ toolEvents' = toolEvents
                 \/ toolEvents' = [toolEvents EXCEPT ![i].status = IF e.ok THEN "done" ELSE "error"]
    BY <1>3 DEF onToolEnd
  <2>2. ASSUME NEW status \in {"done", "error"}
        PROVE  [toolEvents EXCEPT ![i].status = status] \in Seq(ToolEvent)
    <3> DEFINE t == [toolEvents[i] EXCEPT !.status = status]
    <3>1. toolEvents \in Seq(ToolEvent)
      BY DEF TypeInv, TypeOK
    <3>2. CASE i \in 1..Len(toolEvents)
      <4>1. t \in ToolEvent
        <5>1. toolEvents[i] \in ToolEvent
          BY <3>1, <3>2, ElementOfSeq
        <5> QED BY <5>1
      <4>2. [toolEvents EXCEPT ![i].status = status] = [toolEvents EXCEPT ![i] = t]
        OBVIOUS
      <4> HIDE DEF t, ToolEvent
      <4> QED BY <3>1, <3>2, <4>1, <4>2, ExceptSeq
    <3>3. CASE i \notin 1..Len(toolEvents)
      <4>1. [toolEvents EXCEPT ![i].status = status] = toolEvents
        BY <3>1, <3>3
      <4> QED BY <3>1, <4>1
    <3> QED BY <3>2, <3>3
  <2>3. toolEvents' \in Seq(ToolEvent)
    <3>1. toolEvents \in Seq(ToolEvent) /\ (IF e.ok THEN "done" ELSE "error") \in {"done", "error"}
      BY DEF TypeInv, TypeOK
    <3> HIDE DEF ToolEvent
    <3> QED BY <2>1, <2>2, <3>1
  <2> QED BY <1>3, <2>3 DEF onToolEnd, TypeInv, TypeOK
<1>4. CASE (e.event = "done" /\ onDone) \/ (e.event = "error" /\ onError)
  BY <1>4 DEF onDone, onError, Caught, Idle, TypeInv, TypeOK
<1> QED BY <1>1, <1>2, <1>3, <1>4 DEF dispatchSSEEvent

LEMMA ReadTypes ==
  ASSUME TypeInv, NEW c \in Chats, Reads(c) \/ Break(c) \/ Refuse(c)
  PROVE  TypeInv'
<1>1. CASE ReadEvent(c)
  <2>1. Head(wire[c]) \in Event /\ Tail(wire[c]) \in Seq(Event)
    BY <1>1 DEF ReadEvent, TypeInv, TypeOK
  <2>2. wire' \in [Chats -> Seq(Event)]
    BY <1>1, <2>1 DEF ReadEvent, TypeInv, TypeOK
  <2>3. reader' \in [Chats -> {"idle", "fetching", "reading", "ending", "silent", "closed"}]
    BY <1>1 DEF ReadEvent, TypeInv, TypeOK
  <2>4. dispatchSSEEvent(Head(wire[c])) /\ UNCHANGED <<asked, server, told, stray>>
    BY <1>1 DEF ReadEvent
  <2> QED BY <2>1, <2>2, <2>3, <2>4, DispatchTypes DEF TypeInv, TypeOK
<1>2. CASE ReadEnd(c)
  BY <1>2 DEF ReadEnd, store, TypeInv, TypeOK
<1>3. CASE Break(c) \/ Refuse(c)
  <2>1. /\ Abort(c) /\ Caught /\ UNCHANGED <<messages, toolEvents, asked, told>>
        /\ stray' \in BOOLEAN
    BY <1>3 DEF Break, Refuse, TypeInv, TypeOK
  <2> QED BY <2>1, AbortTypes DEF Caught, Idle, TypeInv, TypeOK
<1> QED BY <1>1, <1>2, <1>3 DEF Reads

Ran == Seq([name: Tools, ok: BOOLEAN])

LEMMA ToldTypes ==
  ASSUME TypeInv
  PROVE  /\ [told EXCEPT !.tokens = told.tokens + 1] \in [tokens: Nat, ran: Ran]
         /\ \A name \in Tools, ok \in BOOLEAN :
              [told EXCEPT !.ran = Append(told.ran, [name |-> name, ok |-> ok])]
                \in [tokens: Nat, ran: Ran]
<1>1. told \in [tokens: Nat, ran: Ran]
  BY DEF TypeInv, TypeOK, Ran
<1>2. ASSUME NEW name \in Tools, NEW ok \in BOOLEAN
      PROVE  Append(told.ran, [name |-> name, ok |-> ok]) \in Ran
  <2>1. [name |-> name, ok |-> ok] \in [name: Tools, ok: BOOLEAN]
    OBVIOUS
  <2> QED BY <1>1, <2>1, AppendProperties DEF Ran
<1>3. ASSUME NEW n \in Nat PROVE [told EXCEPT !.tokens = n] \in [tokens: Nat, ran: Ran]
  BY <1>1
<1>4. ASSUME NEW r \in Ran PROVE [told EXCEPT !.ran = r] \in [tokens: Nat, ran: Ran]
  BY <1>1
<1>5. told.tokens + 1 \in Nat
  BY <1>1
<1>6. [told EXCEPT !.tokens = told.tokens + 1] \in [tokens: Nat, ran: Ran]
  BY <1>3, <1>5
<1> QED BY <1>2, <1>4, <1>6

LEMMA ServerTypes ==
  ASSUME TypeInv, NEW c \in Chats,
         Accept(c) \/ Delta(c) \/ ModelEnds(c) \/ RunsTool(c) \/ Panics(c)
  PROVE  TypeInv'
<1>1. /\ server[c] \in Server /\ HasCalls(server[c])
      /\ server \in [Chats -> Server]
  BY DEF TypeInv, TypeOK
<1>2. CASE Accept(c)
  <2>1. [server[c] EXCEPT !.pc = "asking"] \in Server /\ HasCalls([server[c] EXCEPT !.pc = "asking"])
    BY <1>1, <1>2 DEF Accept, Server, HasCalls
  <2>2. server' = [server EXCEPT ![c] = [server[c] EXCEPT !.pc = "asking"]]
    BY <1>2 DEF Accept
  <2>3. server' \in [Chats -> Server] /\ \A k \in Chats : HasCalls(server'[k])
    BY <2>1, <2>2, ServerMoves
  <2> QED BY <1>2, <2>3 DEF Accept, store, TypeInv, TypeOK
<1>3. CASE Delta(c)
  <2> DEFINE n == server[c].said + 1
             s == [server[c] EXCEPT !.said = n, !.here = server[c].here + 1]
  <2>1. n \in Nat /\ s \in Server /\ HasCalls(s)
    BY <1>1, <1>3, BoundsAssumption DEF Delta, Server, HasCalls
  <2>2. server' = [server EXCEPT ![c] = s]
    BY <1>1, <1>3 DEF Delta
  <2>3. server' \in [Chats -> Server] /\ \A k \in Chats : HasCalls(server'[k])
    <3> HIDE DEF s
    <3> QED BY <2>1, <2>2, ServerMoves
  <2>4. wire' \in [Chats -> Seq(Event)]
    <3>1. <<[event |-> "token", delta |-> <<c, n>>]>> \in Seq(Event)
      BY <2>1, EventTypes
    <3>2. Writes(c, <<[event |-> "token", delta |-> <<c, n>>]>>)
      BY <1>3 DEF Delta
    <3> QED BY <3>1, <3>2, WritesTypes
  <2>5. told' \in [tokens: Nat, ran: Seq([name: Tools, ok: BOOLEAN])]
    <3>1. told' = told \/ told' = [told EXCEPT !.tokens = told.tokens + 1]
      BY <1>3 DEF Delta
    <3>2. told' \in [tokens: Nat, ran: Ran]
      BY <3>1, ToldTypes DEF TypeInv, TypeOK, Ran
    <3> QED BY <3>2 DEF Ran
  <2> QED BY <1>3, <2>3, <2>4, <2>5 DEF Delta, store, TypeInv, TypeOK
<1>4. CASE ModelFails(c) \/ ModelAnswers(c)
  <2>1. PICK last \in {"error", "done"} : Over(c, last) /\ UNCHANGED <<store, asked, reader, told, stray>>
    BY <1>4 DEF ModelFails, ModelAnswers
  <2>2. server' \in [Chats -> Server] /\ \A k \in Chats : HasCalls(server'[k])
    BY <2>1, AtTypes, ServerMoves DEF Over
  <2>3. wire' \in [Chats -> Seq(Event)]
    <3>1. <<[event |-> last], [event |-> "end"]>> \in Seq(Event)
      BY EventTypes
    <3> QED BY <2>1, <3>1, WritesTypes DEF Over
  <2> QED BY <2>1, <2>2, <2>3 DEF store, TypeInv, TypeOK
<1>5. CASE ModelCalls(c)
  <2>1. PICK calls \in BoundedSeq(Tools, MaxCalls) \ {<<>>} :
          server' = [server EXCEPT ![c].pc = "calling", ![c].calls = calls]
    BY <1>5 DEF ModelCalls
  <2>2. calls \in Seq(Tools) /\ calls # <<>>
    BY BoundsAssumption DEF BoundedSeq, SeqOf
  <2> DEFINE s == [server[c] EXCEPT !.pc = "calling", !.calls = calls]
  <2>3. s \in Server /\ HasCalls(s)
    BY <1>1, <2>2 DEF Server, HasCalls
  <2>4. server' = [server EXCEPT ![c] = s]
    BY <1>1, <2>1
  <2>5. server' \in [Chats -> Server] /\ \A k \in Chats : HasCalls(server'[k])
    <3> HIDE DEF s
    <3> QED BY <2>3, <2>4, ServerMoves
  <2> QED BY <1>5, <2>5 DEF ModelCalls, store, TypeInv, TypeOK
<1>6. CASE StartTool(c)
  <2>1. /\ server[c].pc = "calling" /\ server' = [server EXCEPT ![c] = [server[c] EXCEPT !.pc = "executing"]]
        /\ UNCHANGED <<store, asked, reader, told, stray>>
    BY <1>6 DEF StartTool
  <2>2. [server[c] EXCEPT !.pc = "executing"] \in Server /\ HasCalls([server[c] EXCEPT !.pc = "executing"])
    BY <1>1, <2>1 DEF Server, HasCalls
  <2>3. wire' \in [Chats -> Seq(Event)]
    <3>1. Head(server[c].calls) \in Tools
      BY <1>1, <2>1 DEF Server, HasCalls
    <3>2. <<[event |-> "tool_start", name |-> Head(server[c].calls)]>> \in Seq(Event)
      BY <3>1, EventTypes
    <3> QED BY <1>6, <3>2, WritesTypes DEF StartTool
  <2>4. server' \in [Chats -> Server] /\ \A k \in Chats : HasCalls(server'[k])
    BY <2>1, <2>2, ServerMoves
  <2> QED BY <2>1, <2>3, <2>4 DEF store, TypeInv, TypeOK
<1>7. ASSUME NEW ok \in BOOLEAN, EndTool(c, ok) PROVE TypeInv'
  <2> DEFINE name == Head(server[c].calls)
             more == Tail(server[c].calls)
             round == server[c].round + 1
             ended == [event |-> "tool_end", name |-> name, ok |-> ok]
             s == [server[c] EXCEPT !.pc = "calling", !.calls = more]
             r == [server[c] EXCEPT !.pc = "asking", !.calls = more, !.round = round, !.here = 0]
  <2>1. server[c].pc = "executing" /\ name \in Tools /\ more \in Seq(Tools)
    BY <1>1, <1>7 DEF EndTool, Server, HasCalls
  <2>2. \/ more # <<>> /\ server' = [server EXCEPT ![c] = s] /\ Writes(c, <<ended>>)
        \/ more = <<>> /\ round < MaxRounds /\ server' = [server EXCEPT ![c] = r] /\ Writes(c, <<ended>>)
        \/ /\ server' = [server EXCEPT ![c] = At("over")]
           /\ Writes(c, <<ended, [event |-> "error"], [event |-> "end"]>>)
    BY <1>1, <1>7 DEF EndTool
  <2>3. more # <<>> => s \in Server /\ HasCalls(s)
    BY <1>1, <2>1 DEF Server, HasCalls
  <2>4. more = <<>> /\ round < MaxRounds => r \in Server /\ HasCalls(r)
    <3>1. round < MaxRounds => round \in 0..(MaxRounds - 1) /\ 0 \in 0..MaxTokens
      BY <1>1, BoundsAssumption DEF Server
    <3> HIDE DEF round, more
    <3> QED BY <1>1, <2>1, <3>1 DEF Server, HasCalls
  <2>5. server' \in [Chats -> Server] /\ \A k \in Chats : HasCalls(server'[k])
    <3> HIDE DEF s, r, more, round
    <3> QED BY <2>2, <2>3, <2>4, AtTypes, ServerMoves
  <2>6. wire' \in [Chats -> Seq(Event)]
    <3>1. ended \in Event /\ [event |-> "error"] \in Event /\ [event |-> "end"] \in Event
      BY <2>1, EventTypes
    <3> HIDE DEF ended
    <3>2. <<ended>> \in Seq(Event) /\ <<ended, [event |-> "error"], [event |-> "end"]>> \in Seq(Event)
      BY <3>1
    <3> QED BY <2>2, <3>2, WritesTypes
  <2>7. told' \in [tokens: Nat, ran: Seq([name: Tools, ok: BOOLEAN])]
    <3>1. \/ told' = told
          \/ told' = [told EXCEPT !.ran = Append(told.ran, [name |-> name, ok |-> ok])]
      BY <1>7 DEF EndTool
    <3>2. told \in [tokens: Nat, ran: Ran]
      BY DEF TypeInv, TypeOK, Ran
    <3>3. told' \in [tokens: Nat, ran: Ran]
      <4> HIDE DEF name
      <4> QED BY <2>1, <3>1, <3>2, ToldTypes
    <3> QED BY <3>3 DEF Ran
  <2>8. UNCHANGED <<store, asked, reader, stray>>
    BY <1>7 DEF EndTool
  <2> QED BY <2>5, <2>6, <2>7, <2>8 DEF store, TypeInv, TypeOK
<1>8. CASE Panics(c)
  <2> DEFINE s == [server[c] EXCEPT !.pc = "panicked"]
  <2>1. s \in Server /\ HasCalls(s)
    BY <1>1 DEF Server, HasCalls
  <2>2. server' = [server EXCEPT ![c] = s] /\ Writes(c, <<[event |-> "end"]>>)
    BY <1>8 DEF Panics
  <2>3. server' \in [Chats -> Server] /\ \A k \in Chats : HasCalls(server'[k])
    <3> HIDE DEF s
    <3> QED BY <2>1, <2>2, ServerMoves
  <2>4. wire' \in [Chats -> Seq(Event)]
    <3>1. <<[event |-> "end"]>> \in Seq(Event)
      BY EventTypes
    <3> QED BY <2>2, <3>1, WritesTypes
  <2> QED BY <1>8, <2>3, <2>4 DEF Panics, store, TypeInv, TypeOK
<1> QED BY <1>2, <1>3, <1>4, <1>5, <1>6, <1>7, <1>8 DEF ModelEnds, RunsTool

LEMMA NextTypes ==
  ASSUME TypeInv, [Next]_vars
  PROVE  TypeInv'
<1>1. CASE UNCHANGED vars
  BY <1>1 DEF vars, store, TypeInv, TypeOK
<1> QED BY <1>1, UserTypes, ReadTypes, ServerTypes DEF Next, Responds

LEMMA TypesHold == Spec => []TypeInv
<1> QED BY InitTypes, NextTypes, PTL DEF Spec

\* The store, the streams and the server's loops keep their types, for any number of
\* questions, rounds, calls and tokens (aiChatStore.ts, service.go).
THEOREM ChatTypes == Spec => []TypeOK
<1>1. TypeInv => TypeOK
  BY DEF TypeInv
<1> QED BY <1>1, TypesHold, PTL

-----------------------------------------------------------------------------
(* What the browser and the server know of a chat.                         *)

Turn(c) ==
  /\ reader[c] = "idle" <=> c > asked
  /\ server[c].pc = "idle" <=> c > asked
  /\ server[c].pc = "received" <=> reader[c] = "fetching"
  /\ server[c].pc \in {"asking", "calling", "executing"} => reader[c] = "reading"

Turns == abortController <= asked /\ \A c \in Chats : Turn(c)

\* The last event is the end, once the server is through, and the last but one done or
\* error, unless it panicked; a reader that has read the latter has the end to come.
Finals == {"done", "error"}

Ended == {"over", "panicked"}

Sound(w, pc) ==
  \A k \in 1..Len(w) :
    /\ w[k].event \in Finals => pc = "over" /\ k = Len(w) - 1 /\ w[k + 1].event = "end"
    /\ w[k].event = "end" => pc \in Ended /\ k = Len(w)

OnTheWay(c) ==
  CASE reader[c] = "reading" -> Sound(wire[c], server[c].pc)
    [] reader[c] = "ending" -> \A k \in 1..Len(wire[c]) : wire[c][k].event = "end"
    [] OTHER -> wire[c] = <<>>

\* Only the current chat streams, and the store says so.
StoreFollows ==
  /\ \A c \in Chats : Streams(c) => isStreaming /\ c = asked
  /\ isStreaming => asked \in Chats /\ Streams(asked) /\ abortController = asked
  /\ ~isStreaming => abortController = None

StreamInv ==
  /\ Turns
  /\ \A c \in Chats : OnTheWay(c)
  /\ stray \/ StoreFollows

LEMMA SoundConcat ==
  ASSUME NEW w \in Seq(Event), NEW ev \in Seq(Event), NEW live, live \notin Ended, NEW pc,
         Sound(w, live), Sound(ev, pc)
  PROVE  Sound(w \o ev, pc)
<1> DEFINE v == w \o ev
<1>1. /\ Len(v) = Len(w) + Len(ev) /\ Len(w) \in Nat /\ Len(ev) \in Nat
      /\ \A k \in 1..Len(w) + Len(ev) : v[k] = IF k <= Len(w) THEN w[k] ELSE ev[k - Len(w)]
  BY ConcatProperties
<1> HIDE DEF v
<1>2. ASSUME NEW k \in 1..Len(v)
      PROVE  /\ v[k].event \in Finals => pc = "over" /\ k = Len(v) - 1 /\ v[k + 1].event = "end"
             /\ v[k].event = "end" => pc \in Ended /\ k = Len(v)
  <2>1. CASE k <= Len(w)
    BY <1>1, <2>1 DEF Sound, Ended
  <2>2. CASE k > Len(w)
    <3> DEFINE j == k - Len(w)
    <3>1. j \in 1..Len(ev) /\ v[k] = ev[j]
      BY <1>1, <2>2
    <3>2. CASE v[k].event \in Finals
      <4>1. pc = "over" /\ j = Len(ev) - 1 /\ ev[j + 1].event = "end" /\ v[k].event # "end"
        BY <3>1, <3>2 DEF Sound, Finals
      <4>2. v[k + 1] = ev[j + 1] /\ k = Len(v) - 1
        BY <1>1, <2>2, <4>1
      <4> QED BY <4>1, <4>2
    <3>3. CASE v[k].event = "end"
      <4>1. pc \in Ended /\ j = Len(ev) /\ v[k].event \notin Finals
        BY <3>1, <3>3 DEF Sound, Finals
      <4> QED BY <1>1, <2>2, <4>1
    <3> QED BY <3>2, <3>3
  <2> QED BY <1>1, <2>1, <2>2
<1> QED BY <1>2 DEF v, Sound

LEMMA SoundPieces ==
  /\ \A pc : Sound(<<>>, pc)
  /\ \A e \in Event : \A pc : e.event \notin Finals \cup {"end"} => Sound(<<e>>, pc)
  /\ \A f \in Finals : Sound(<<[event |-> f], [event |-> "end"]>>, "over")
  /\ \A e \in Event : e.event \notin Finals \cup {"end"} =>
        Sound(<<e, [event |-> "error"], [event |-> "end"]>>, "over")
  /\ Sound(<<[event |-> "end"]>>, "panicked")
BY DEF Sound, Finals, Ended

LEMMA SoundTail ==
  ASSUME NEW w \in Seq(Event), w # <<>>, NEW pc, Sound(w, pc),
         Head(w).event # "end"
  PROVE  /\ Head(w).event \notin Finals => Sound(Tail(w), pc)
         /\ Head(w).event \in Finals => \A k \in 1..Len(Tail(w)) : Tail(w)[k].event = "end"
<1> DEFINE t == Tail(w)
<1>1. /\ Len(t) = Len(w) - 1 /\ Len(w) \in Nat \ {0} /\ Head(w) = w[1] /\ Len(t) \in Nat
      /\ \A k \in 1..Len(t) : t[k] = w[k + 1]
  BY HeadTailProperties, EmptySeq
<1> HIDE DEF t
<1>2. ASSUME Head(w).event \notin Finals PROVE Sound(t, pc)
  <2>1. ASSUME NEW k \in 1..Len(t)
        PROVE  /\ t[k].event \in Finals => pc = "over" /\ k = Len(t) - 1 /\ t[k + 1].event = "end"
               /\ t[k].event = "end" => pc \in Ended /\ k = Len(t)
    <3>1. t[k] = w[k + 1] /\ k + 1 \in 1..Len(w)
      BY <1>1
    <3>2. CASE t[k].event \in Finals
      BY <1>1, <3>1, <3>2 DEF Sound, Finals
    <3>3. CASE t[k].event = "end"
      BY <1>1, <3>1, <3>3 DEF Sound, Finals
    <3> QED BY <3>2, <3>3
  <2> QED BY <2>1 DEF Sound
<1>3. ASSUME Head(w).event \in Finals PROVE \A k \in 1..Len(t) : t[k].event = "end"
  <2>1. Len(w) = 2 /\ w[1 + 1].event = "end"
    BY <1>1, <1>3 DEF Sound
  <2>2. \A k \in 1..Len(t) : t[k] = w[1 + 1]
    BY <1>1, <2>1
  <2> QED BY <2>1, <2>2
<1> QED BY <1>2, <1>3 DEF t

LEMMA InitStream == Init => StreamInv
BY BoundsAssumption, AtTypes DEF Init, StreamInv, Turns, Turn, OnTheWay, StoreFollows, Streams,
   None, Chats

\* A chat that a step leaves alone.
LEMMA LeftAlone ==
  ASSUME NEW k, Turn(k), OnTheWay(k), reader'[k] = reader[k], wire'[k] = wire[k],
         server'[k] = server[k], asked' = asked
  PROVE  Turn(k)' /\ OnTheWay(k)'
BY DEF Turn, OnTheWay

LEMMA AbortStream ==
  ASSUME TypeInv, StreamInv, NEW c \in Chats \cup {None}, c <= asked, Abort(c), asked' = asked,
         abortController' = None
  PROVE  Turns' /\ \A k \in Chats : OnTheWay(k)'
<1>1. ASSUME NEW k \in Chats PROVE Turn(k)' /\ OnTheWay(k)'
  <2>1. CASE k = c
    <3>1. /\ reader'[k] \in {"silent", "closed"} /\ wire'[k] = <<>>
          /\ server'[k].pc = "over"
      BY <2>1, AtTypes DEF Abort
    <3>2. ~(k > asked)
      BY <2>1 DEF TypeInv, TypeOK, Chats
    <3> QED BY <3>1, <3>2 DEF Turn, OnTheWay
  <2>2. CASE k # c
    BY <2>2, LeftAlone DEF Abort, StreamInv, Turns
  <2> QED BY <2>1, <2>2
<1>2. abortController' <= asked
  BY DEF None, TypeInv, TypeOK
<1> QED BY <1>1, <1>2 DEF Turns

LEMMA UserStream ==
  ASSUME TypeInv, StreamInv, sendMessage \/ stopStreaming \/ clearConversation
  PROVE  StreamInv'
<1>1. CASE sendMessage
  <2> DEFINE c == asked + 1
  <2>1. /\ c \in Chats /\ asked' = c /\ abortController' = c /\ ~isStreaming /\ isStreaming'
        /\ reader' = [reader EXCEPT ![c] = "fetching"]
        /\ server' = [server EXCEPT ![c] = At("received")]
        /\ UNCHANGED <<wire, stray>> /\ asked \in Nat
    BY <1>1, BoundsAssumption DEF sendMessage, TypeInv, TypeOK, Chats
  <2>2. /\ reader'[c] = "fetching" /\ server'[c].pc = "received"
        /\ \A k \in Chats \ {c} : reader'[k] = reader[k] /\ server'[k] = server[k]
    BY <2>1, AtTypes DEF TypeInv, TypeOK
  <2>3. wire'[c] = <<>>
    <3>1. reader[c] = "idle"
      BY <2>1 DEF StreamInv, Turns, Turn
    <3> QED BY <2>1, <3>1 DEF StreamInv, OnTheWay
  <2>4. ASSUME NEW k \in Chats PROVE Turn(k)' /\ OnTheWay(k)'
    <3>1. CASE k = c
      <4>1. ~(k > asked')
        BY <2>1, <3>1
      <4> QED BY <2>2, <2>3, <3>1, <4>1 DEF Turn, OnTheWay
    <3>2. CASE k # c
      <4>1. (k > asked') <=> (k > asked)
        BY <2>1, <3>2 DEF Chats
      <4> QED BY <2>1, <2>2, <3>2, <4>1 DEF StreamInv, Turns, Turn, OnTheWay
    <3> QED BY <3>1, <3>2
  <2>5. Turns'
    BY <2>1, <2>4 DEF Turns
  <2>6. StoreFollows => StoreFollows'
    BY <2>1, <2>2 DEF StoreFollows, Streams
  <2> QED BY <2>1, <2>4, <2>5, <2>6 DEF StreamInv
<1>2. CASE stopStreaming \/ clearConversation
  <2>1. /\ Abort(abortController) /\ UNCHANGED <<asked, stray>>
        /\ abortController' = None /\ isStreaming' = FALSE
    BY <1>2 DEF stopStreaming, clearConversation, CaughtAbort, Idle
  <2>2. abortController \in Chats \cup {None} /\ abortController <= asked
    BY DEF StreamInv, Turns, TypeInv, TypeOK
  <2>3. Turns' /\ \A k \in Chats : OnTheWay(k)'
    BY <2>1, <2>2, AbortStream
  <2>4. StoreFollows => StoreFollows'
    <3>1. ASSUME StoreFollows, NEW k \in Chats PROVE ~Streams(k)'
      BY <2>1, <3>1 DEF StoreFollows, Streams, Abort, None, Chats
    <3> QED BY <2>1, <3>1 DEF StoreFollows
  <2> QED BY <2>1, <2>3, <2>4 DEF StreamInv
<1> QED BY <1>1, <1>2

LEMMA ReadStream ==
  ASSUME TypeInv, StreamInv, NEW c \in Chats, Reads(c) \/ Break(c) \/ Refuse(c)
  PROVE  StreamInv'
<1>1. Turn(c) /\ OnTheWay(c) /\ (stray \/ StoreFollows) /\ \A k \in Chats : Turn(k) /\ OnTheWay(k)
  BY DEF StreamInv, Turns
<1>2. CASE ReadEvent(c)
  <2> DEFINE e == Head(wire[c])
  <2>1. /\ reader[c] \in {"reading", "ending"} /\ wire[c] # <<>> /\ e.event # "end"
        /\ wire[c] \in Seq(Event) /\ wire[c][1] = e /\ 1 \in 1..Len(wire[c])
        /\ UNCHANGED <<asked, server, stray>>
    BY <1>2 DEF ReadEvent, TypeInv, TypeOK
  <2>2. reader[c] = "reading" /\ Sound(wire[c], server[c].pc)
    BY <1>1, <2>1 DEF OnTheWay
  <2>3. /\ wire'[c] = Tail(wire[c])
        /\ reader'[c] = IF e.event \in Finals THEN "ending" ELSE "reading"
        /\ \A k \in Chats \ {c} : wire'[k] = wire[k] /\ reader'[k] = reader[k]
    BY <1>2, <2>2 DEF ReadEvent, TypeInv, TypeOK, Finals
  <2>4. e.event \in Finals => server[c].pc = "over"
    BY <2>1, <2>2 DEF Sound
  <2>5. Turn(c)' /\ OnTheWay(c)'
    <3>1. /\ e.event \notin Finals => Sound(Tail(wire[c]), server[c].pc)
          /\ e.event \in Finals => \A k \in 1..Len(Tail(wire[c])) : Tail(wire[c])[k].event = "end"
      BY <2>1, <2>2, SoundTail
    <3>2. OnTheWay(c)'
      <4>1. CASE e.event \in Finals
        BY <2>3, <3>1, <4>1 DEF OnTheWay
      <4>2. CASE e.event \notin Finals
        BY <2>1, <2>3, <3>1, <4>2 DEF OnTheWay
      <4> QED BY <4>1, <4>2
    <3>3. Turn(c)'
      BY <1>1, <2>1, <2>2, <2>3, <2>4 DEF Turn
    <3> QED BY <3>2, <3>3
  <2>6. \A k \in Chats : Turn(k)' /\ OnTheWay(k)'
    BY <1>1, <2>1, <2>3, <2>5, LeftAlone
  <2>7. \/ e.event \in Finals /\ isStreaming' = FALSE /\ abortController' = None
        \/ e.event \notin Finals /\ UNCHANGED <<isStreaming, abortController>>
    BY <1>2 DEF ReadEvent, dispatchSSEEvent, appendToLastAssistant, onToolStart, onToolEnd,
       onDone, onError, Caught, Idle, Finals
  <2>8. abortController' <= asked'
    BY <2>1, <2>7 DEF StreamInv, Turns, None, TypeInv, TypeOK
  <2>9. StoreFollows => StoreFollows'
    <3> SUFFICES ASSUME StoreFollows PROVE StoreFollows'
      OBVIOUS
    <3>1. c = asked /\ isStreaming /\ \A k \in Chats \ {c} : ~Streams(k)
      BY <2>2 DEF StoreFollows, Streams
    <3>2. CASE e.event \in Finals
      <4>1. isStreaming' = FALSE /\ abortController' = None
        BY <2>7, <3>2
      <4>2. \A k \in Chats : ~Streams(k)'
        BY <2>3, <3>1, <3>2, <4>1 DEF Streams, None, Chats
      <4> QED BY <4>1, <4>2 DEF StoreFollows
    <3>3. CASE e.event \notin Finals
      BY <2>1, <2>3, <2>7, <3>1, <3>3 DEF StoreFollows, Streams, Finals
    <3> QED BY <3>2, <3>3
  <2> QED BY <1>1, <2>1, <2>6, <2>8, <2>9 DEF StreamInv, Turns
<1>3. CASE ReadEnd(c)
  <2>1. /\ reader[c] \in {"reading", "ending"} /\ wire[c] # <<>> /\ Head(wire[c]).event = "end"
        /\ wire[c] \in Seq(Event) /\ wire[c][1] = Head(wire[c]) /\ 1 \in 1..Len(wire[c])
        /\ UNCHANGED <<store, asked, server, stray>>
        /\ reader'[c] = IF reader[c] = "reading" THEN "silent" ELSE "closed"
        /\ wire'[c] = <<>>
        /\ \A k \in Chats \ {c} : wire'[k] = wire[k] /\ reader'[k] = reader[k]
    BY <1>3 DEF ReadEnd, TypeInv, TypeOK
  <2>2. reader[c] = "reading" => server[c].pc \in Ended
    BY <1>1, <2>1 DEF OnTheWay, Sound
  <2>3. Turn(c)' /\ OnTheWay(c)'
    BY <1>1, <2>1, <2>2 DEF Turn, OnTheWay, Ended
  <2>4. Turns' /\ \A k \in Chats : OnTheWay(k)'
    BY <1>1, <2>1, <2>3, LeftAlone DEF StreamInv, Turns, store
  <2>5. StoreFollows => StoreFollows'
    <3> SUFFICES ASSUME StoreFollows PROVE StoreFollows'
      OBVIOUS
    <3>1. CASE reader[c] = "reading"
      <4>1. c = asked /\ isStreaming /\ abortController = c /\ reader'[c] = "silent"
        BY <2>1, <3>1 DEF StoreFollows, Streams
      <4> QED BY <2>1, <4>1 DEF StoreFollows, Streams, store
    <3>2. CASE reader[c] = "ending"
      BY <2>1, <3>2 DEF StoreFollows, Streams, store
    <3> QED BY <2>1, <3>1, <3>2
  <2> QED BY <1>1, <2>1, <2>4, <2>5 DEF StreamInv
<1>4. CASE Break(c) \/ Refuse(c)
  <2>1. /\ Abort(c) /\ Caught /\ asked' = asked
        /\ stray' \/ (stray' = stray /\ (c = asked \/ Streams(c)))
    <3>1. CASE Break(c)
      <4>1. Abort(c) /\ Caught /\ asked' = asked /\ stray' = (stray \/ c # asked)
        BY <3>1 DEF Break
      <4>2. stray \in BOOLEAN
        BY DEF TypeInv, TypeOK
      <4> QED BY <4>1, <4>2
    <3>2. CASE Refuse(c)
      BY <1>1, <3>2 DEF Refuse, Turn, Streams
    <3> QED BY <1>4, <3>1, <3>2
  <2>2. c <= asked
    BY <1>1, <1>4 DEF Break, Refuse, Turn, TypeInv, TypeOK, Chats
  <2>3. Turns' /\ \A k \in Chats : OnTheWay(k)'
    BY <2>1, <2>2, AbortStream DEF Caught, Idle
  <2>4. StoreFollows /\ ~stray' => StoreFollows'
    <3> SUFFICES ASSUME StoreFollows, ~stray' PROVE StoreFollows'
      OBVIOUS
    <3>1. c = asked
      BY <2>1 DEF StoreFollows
    <3>2. \A k \in Chats : ~Streams(k)'
      BY <2>1, <3>1 DEF Abort, StoreFollows, Streams, Caught, Idle, None, Chats
    <3> QED BY <2>1, <3>2 DEF StoreFollows, Caught, Idle
  <2>5. stray => stray'
    BY <1>4 DEF Break, Refuse
  <2> QED BY <1>1, <2>3, <2>4, <2>5 DEF StreamInv
<1> QED BY <1>2, <1>3, <1>4 DEF Reads

\* What the server does: it sends while the browser reads, and ends with a final event.
LEMMA ServerStream ==
  ASSUME TypeInv, StreamInv, NEW c \in Chats,
         UNCHANGED <<isStreaming, abortController, asked, reader, stray>>,
         server[c].pc \in {"asking", "calling", "executing"},
         \A k \in Chats \ {c} : server'[k] = server[k] /\ wire'[k] = wire[k],
         NEW ev \in Seq(Event), wire'[c] = wire[c] \o ev,
         server'[c].pc \in {"asking", "calling", "executing"} \cup Ended,
         Sound(ev, server'[c].pc)
  PROVE  StreamInv'
<1>1. Turn(c) /\ OnTheWay(c) /\ \A k \in Chats : Turn(k) /\ OnTheWay(k)
  BY DEF StreamInv, Turns
<1>2. /\ reader[c] = "reading" /\ wire[c] \in Seq(Event)
      /\ Sound(wire[c], server[c].pc) /\ server[c].pc \notin Ended
  BY <1>1 DEF Turn, OnTheWay, TypeInv, TypeOK, Ended
<1>3. Sound(wire'[c], server'[c].pc)
  BY <1>2, SoundConcat
<1>4. Turn(c)' /\ OnTheWay(c)'
  BY <1>1, <1>2, <1>3 DEF Turn, OnTheWay, Ended
<1>5. \A k \in Chats : Turn(k)' /\ OnTheWay(k)'
  BY <1>1, <1>4, LeftAlone
<1> QED BY <1>5 DEF StreamInv, Turns, StoreFollows, Streams

LEMMA SendStream ==
  ASSUME TypeInv, StreamInv, NEW c \in Chats,
         Accept(c) \/ Delta(c) \/ ModelEnds(c) \/ RunsTool(c) \/ Panics(c)
  PROVE  StreamInv'
<1>1. /\ server[c] \in Server /\ HasCalls(server[c]) /\ server \in [Chats -> Server]
      /\ wire \in [Chats -> Seq(Event)] /\ wire[c] = wire[c] \o <<>>
      /\ wire[c] \in Seq(Event)
  BY ConcatEmptySeq DEF TypeInv, TypeOK
<1>2. CASE Accept(c)
  <2>1. /\ reader'[c] = "reading" /\ server[c].pc = "received" /\ server'[c].pc = "asking"
        /\ \A k \in Chats \ {c} : server'[k] = server[k] /\ reader'[k] = reader[k]
        /\ UNCHANGED <<store, asked, wire, stray>>
    BY <1>1, <1>2 DEF Accept, Server, TypeInv, TypeOK
  <2>2. Turn(c) /\ OnTheWay(c) /\ \A k \in Chats : Turn(k) /\ OnTheWay(k)
    BY DEF StreamInv, Turns
  <2>3. reader[c] = "fetching" /\ wire'[c] = <<>>
    BY <2>1, <2>2 DEF Turn, OnTheWay
  <2>4. Turn(c)' /\ OnTheWay(c)'
    BY <2>1, <2>2, <2>3, SoundPieces DEF Turn, OnTheWay
  <2>5. Turns' /\ \A k \in Chats : OnTheWay(k)'
    BY <2>1, <2>2, <2>4, LeftAlone DEF StreamInv, Turns, store
  <2> QED BY <2>1, <2>3, <2>5 DEF StreamInv, StoreFollows, Streams, store
<1>3. CASE Delta(c)
  <2> DEFINE e == [event |-> "token", delta |-> <<c, server[c].said + 1>>]
  <2>1. e \in Event /\ e.event \notin Finals \cup {"end"}
    <3>1. <<c, server[c].said + 1>> \in Chats \X Nat
      BY <1>1 DEF Server
    <3> QED BY <3>1, EventTypes DEF Finals
  <2>2. /\ wire'[c] = wire[c] \o <<e>> /\ server[c].pc = "asking" /\ server'[c].pc = "asking"
        /\ \A k \in Chats \ {c} : server'[k] = server[k] /\ wire'[k] = wire[k]
        /\ UNCHANGED <<isStreaming, abortController, asked, reader, stray>>
    BY <1>1, <1>3 DEF Delta, Writes, Server, store
  <2> HIDE DEF e
  <2>3. <<e>> \in Seq(Event)
    BY <2>1
  <2>4. Sound(<<e>>, server'[c].pc)
    BY <2>1, SoundPieces
  <2> QED BY <2>2, <2>3, <2>4, ServerStream
<1>4. CASE ModelFails(c) \/ ModelAnswers(c)
  <2>1. PICK f \in Finals : Over(c, f)
    BY <1>4 DEF ModelFails, ModelAnswers, Finals
  <2> DEFINE ev == <<[event |-> f], [event |-> "end"]>>
  <2>2. ev \in Seq(Event)
    <3>1. [event |-> f] \in Event /\ [event |-> "end"] \in Event
      BY EventTypes DEF Finals
    <3> QED BY <3>1
  <2>3. Sound(ev, "over")
    BY SoundPieces
  <2>4. wire'[c] = wire[c] \o ev /\ \A k \in Chats \ {c} : wire'[k] = wire[k]
    BY <1>1, <2>1 DEF Over, Writes
  <2>5. server'[c].pc = "over" /\ \A k \in Chats \ {c} : server'[k] = server[k]
    BY <1>1, <2>1, AtTypes DEF Over
  <2>6. server[c].pc = "asking" /\ UNCHANGED <<isStreaming, abortController, asked, reader, stray>>
    BY <1>4 DEF ModelFails, ModelAnswers, store
  <2> HIDE DEF ev
  <2> QED BY <2>2, <2>3, <2>4, <2>5, <2>6, ServerStream DEF Ended
<1>5. CASE ModelCalls(c)
  <2>1. /\ server[c].pc = "asking" /\ server'[c].pc = "calling"
        /\ \A k \in Chats \ {c} : server'[k] = server[k] /\ wire'[k] = wire[k]
        /\ UNCHANGED <<isStreaming, abortController, asked, reader, stray, wire>>
    BY <1>1, <1>5 DEF ModelCalls, Server, store
  <2>2. <<>> \in Seq(Event)
    OBVIOUS
  <2>3. Sound(<<>>, server'[c].pc)
    BY SoundPieces
  <2>4. wire'[c] = wire[c] \o <<>>
    BY <1>1, <2>1
  <2> QED BY <2>1, <2>2, <2>3, <2>4, ServerStream
<1>6. CASE StartTool(c)
  <2> DEFINE e == [event |-> "tool_start", name |-> Head(server[c].calls)]
  <2>1. e \in Event /\ e.event \notin Finals \cup {"end"}
    <3>1. Head(server[c].calls) \in Tools
      BY <1>1, <1>6 DEF StartTool, Server, HasCalls
    <3> QED BY <3>1, EventTypes DEF Finals
  <2>2. /\ wire'[c] = wire[c] \o <<e>> /\ server[c].pc = "calling" /\ server'[c].pc = "executing"
        /\ \A k \in Chats \ {c} : server'[k] = server[k] /\ wire'[k] = wire[k]
        /\ UNCHANGED <<isStreaming, abortController, asked, reader, stray>>
    BY <1>1, <1>6 DEF StartTool, Writes, Server, store
  <2> HIDE DEF e
  <2>3. <<e>> \in Seq(Event)
    BY <2>1
  <2>4. Sound(<<e>>, server'[c].pc)
    BY <2>1, SoundPieces
  <2> QED BY <2>2, <2>3, <2>4, ServerStream
<1>7. ASSUME NEW ok \in BOOLEAN, EndTool(c, ok) PROVE StreamInv'
  <2> DEFINE e == [event |-> "tool_end", name |-> Head(server[c].calls), ok |-> ok]
             last == <<e, [event |-> "error"], [event |-> "end"]>>
  <2>1. e \in Event /\ e.event \notin Finals \cup {"end"} /\ server[c].pc = "executing"
    <3>1. Head(server[c].calls) \in Tools /\ server[c].pc = "executing"
      BY <1>1, <1>7 DEF EndTool, Server, HasCalls
    <3> QED BY <3>1, EventTypes DEF Finals
  <2>2. /\ \/ Writes(c, <<e>>) /\ server'[c].pc \in {"calling", "asking"}
           \/ Writes(c, last) /\ server'[c].pc = "over"
        /\ \A k \in Chats \ {c} : server'[k] = server[k]
    <3> DEFINE r == [server[c] EXCEPT !.pc = "calling", !.calls = Tail(server[c].calls)]
               a == [server[c] EXCEPT !.pc = "asking", !.calls = Tail(server[c].calls),
                                      !.round = server[c].round + 1, !.here = 0]
    <3>1. \/ Writes(c, <<e>>) /\ server' = [server EXCEPT ![c] = r]
          \/ Writes(c, <<e>>) /\ server' = [server EXCEPT ![c] = a]
          \/ Writes(c, last) /\ server' = [server EXCEPT ![c] = At("over")]
      BY <1>1, <1>7 DEF EndTool
    <3>2. r.pc = "calling" /\ a.pc = "asking" /\ At("over").pc = "over"
      BY <1>1 DEF Server, At
    <3> HIDE DEF r, a, e, last
    <3> QED BY <1>1, <3>1, <3>2
  <2>3. UNCHANGED <<isStreaming, abortController, asked, reader, stray>>
    BY <1>7 DEF EndTool, store
  <2>4. [event |-> "error"] \in Event /\ [event |-> "end"] \in Event
    BY EventTypes
  <2> HIDE DEF e
  <2>5. /\ <<e>> \in Seq(Event) /\ Sound(<<e>>, server'[c].pc)
        /\ last \in Seq(Event) /\ Sound(last, "over")
    <3>1. <<e>> \in Seq(Event) /\ last \in Seq(Event)
      BY <2>1, <2>4
    <3>2. Sound(<<e>>, server'[c].pc)
      BY <2>1, SoundPieces
    <3>3. Sound(last, "over")
      BY <2>1, SoundPieces
    <3> QED BY <3>1, <3>2, <3>3
  <2> HIDE DEF last
  <2>6. CASE Writes(c, <<e>>) /\ server'[c].pc \in {"calling", "asking"}
    <3>1. wire'[c] = wire[c] \o <<e>> /\ \A k \in Chats \ {c} : wire'[k] = wire[k]
      BY <1>1, <2>6 DEF Writes
    <3> QED BY <2>1, <2>2, <2>3, <2>5, <2>6, <3>1, ServerStream
  <2>7. CASE Writes(c, last) /\ server'[c].pc = "over"
    <3>1. wire'[c] = wire[c] \o last /\ \A k \in Chats \ {c} : wire'[k] = wire[k]
      BY <1>1, <2>7 DEF Writes
    <3> QED BY <2>1, <2>2, <2>3, <2>5, <2>7, <3>1, ServerStream DEF Ended
  <2> QED BY <2>2, <2>6, <2>7
<1>8. CASE Panics(c)
  <2> DEFINE ev == <<[event |-> "end"]>>
  <2>1. ev \in Seq(Event) /\ Sound(ev, "panicked")
    <3>1. [event |-> "end"] \in Event
      BY EventTypes
    <3> QED BY <3>1, SoundPieces
  <2>2. /\ wire'[c] = wire[c] \o ev /\ \A k \in Chats \ {c} : wire'[k] = wire[k]
        /\ server[c].pc \in {"asking", "executing"} /\ server'[c].pc = "panicked"
        /\ \A k \in Chats \ {c} : server'[k] = server[k]
        /\ UNCHANGED <<isStreaming, abortController, asked, reader, stray>>
    BY <1>1, <1>8 DEF Panics, Writes, Server, store
  <2> HIDE DEF ev
  <2> QED BY <2>1, <2>2, ServerStream DEF Ended
<1> QED BY <1>2, <1>3, <1>4, <1>5, <1>6, <1>7, <1>8 DEF ModelEnds, RunsTool

LEMMA NextStream ==
  ASSUME TypeInv, StreamInv, [Next]_vars
  PROVE  StreamInv'
<1>1. CASE UNCHANGED vars
  BY <1>1 DEF vars, store, StreamInv, Turns, Turn, OnTheWay, StoreFollows, Streams
<1> QED BY <1>1, UserStream, ReadStream, SendStream DEF Next, Responds

LEMMA StreamHolds == Spec => [](TypeInv /\ StreamInv)
<1> QED BY InitTypes, InitStream, NextTypes, NextStream, PTL DEF Spec

\* Whatever streams is what the Stop button stops, and the button is there exactly then,
\* as long as no connection of an earlier chat broke late (aiChatStore.ts).
THEOREM StopReachesStreams == Spec => []StreamsAreStoppable
<1>1. StreamInv => StreamsAreStoppable
  BY DEF StreamInv, StoreFollows, StreamsAreStoppable
<1> QED BY <1>1, StreamHolds, PTL

-----------------------------------------------------------------------------
(* The tokens of the current chat that are on the way number on from those *)
(* of its answer, up to what the server has sent (told).                   *)

Own(m) ==
  \A n \in 1..Len(m.content) : m.role = "assistant" /\ m.content[n] = <<m.chat, n>>

IsToken(w, k) == k \in 1..Len(w) /\ w[k].event = "token"

Numbered(w, c, from, to) ==
  /\ from <= to
  /\ \A k \in 1..Len(w) : IsToken(w, k) =>
        w[k].delta[1] = c /\ from < w[k].delta[2] /\ w[k].delta[2] <= to
  /\ \A k, l \in 1..Len(w) :
        k < l /\ IsToken(w, k) /\ IsToken(w, l) => w[k].delta[2] < w[l].delta[2]
  /\ \A n \in Nat : from < n /\ n <= to => \E k \in 1..Len(w) : IsToken(w, k) /\ w[k].delta[2] = n

AnswerGoesOn ==
  isStreaming =>
    /\ messages # <<>>
    /\ Last(messages).role = "assistant" /\ Last(messages).chat = asked
    /\ server[asked].pc # "over" => server[asked].said = told.tokens
    /\ Numbered(wire[asked], asked, Len(Last(messages).content), told.tokens)

AnswerInv ==
  stray \/ /\ \A i \in 1..Len(messages) : Own(messages[i])
           /\ AnswerGoesOn

\* The token numbers of a wire of events are numbers.
LEMMA TokenNumbers ==
  ASSUME NEW w \in Seq(Event), NEW k \in 1..Len(w), w[k].event = "token"
  PROVE  w[k].delta \in Chats \X Nat /\ w[k].delta[2] \in Nat
<1>1. w[k] \in Event
  OBVIOUS
<1> QED BY <1>1, EventKinds

\* Reading: the first token on the way is the next one of the answer.
LEMMA NumberedRead ==
  ASSUME NEW w \in Seq(Event), w # <<>>, NEW c, NEW from \in Nat, NEW to \in Nat,
         Numbered(w, c, from, to)
  PROVE  /\ w[1].event = "token" =>
                w[1].delta = <<c, from + 1>> /\ Numbered(Tail(w), c, from + 1, to)
         /\ w[1].event # "token" => Numbered(Tail(w), c, from, to)
<1> DEFINE v == Tail(w)
<1>1. /\ 1 \in 1..Len(w) /\ Len(v) = Len(w) - 1 /\ Len(w) \in Nat
      /\ \A k \in 1..Len(v) : v[k] = w[k + 1] /\ k + 1 \in 1..Len(w)
      /\ \A k \in 1..Len(w) : k # 1 => k - 1 \in 1..Len(v) /\ v[k - 1] = w[k]
  OBVIOUS
<1> HIDE DEF v
<1>2. \A k \in 1..Len(v) : IsToken(v, k) <=> IsToken(w, k + 1)
  BY <1>1 DEF IsToken
<1>3. \A k \in 1..Len(w) : k # 1 => (IsToken(w, k) <=> IsToken(v, k - 1))
  BY <1>1 DEF IsToken
<1>4. \A k, l \in 1..Len(v) :
         k < l /\ IsToken(v, k) /\ IsToken(v, l) => v[k].delta[2] < v[l].delta[2]
  BY <1>1, <1>2 DEF Numbered
<1>5. CASE w[1].event = "token"
  <2>1. IsToken(w, 1) /\ w[1].delta \in Chats \X Nat
    BY <1>1, <1>5, TokenNumbers DEF IsToken
  <2>2. w[1].delta[1] = c /\ from < w[1].delta[2] /\ w[1].delta[2] <= to
    BY <1>1, <2>1 DEF Numbered
  <2>3. PICK k \in 1..Len(w) : IsToken(w, k) /\ w[k].delta[2] = from + 1
    <3>1. from + 1 \in Nat /\ from < from + 1 /\ from + 1 <= to
      BY <2>1, <2>2
    <3> QED BY <3>1 DEF Numbered
  <2>4. w[1].delta[2] = from + 1
    <3>1. CASE k = 1
      BY <2>3, <3>1
    <3>2. CASE k # 1
      <4>1. 1 < k
        BY <1>1, <3>2
      <4>2. w[1].delta[2] < w[k].delta[2]
        BY <1>1, <2>1, <2>3, <4>1 DEF Numbered
      <4> QED BY <2>1, <2>2, <2>3, <4>2
    <3> QED BY <3>1, <3>2
  <2>5. \A l \in 1..Len(v) : IsToken(v, l) =>
           v[l].delta[1] = c /\ from + 1 < v[l].delta[2] /\ v[l].delta[2] <= to
    <3> SUFFICES ASSUME NEW l \in 1..Len(v), IsToken(v, l)
                 PROVE  v[l].delta[1] = c /\ from + 1 < v[l].delta[2] /\ v[l].delta[2] <= to
      OBVIOUS
    <3>1. IsToken(w, l + 1) /\ v[l] = w[l + 1] /\ l + 1 \in 1..Len(w) /\ 1 < l + 1
      BY <1>1, <1>2
    <3>2. w[1].delta[2] < w[l + 1].delta[2]
      BY <1>1, <2>1, <3>1 DEF Numbered
    <3>3. w[l + 1].delta[1] = c /\ w[l + 1].delta[2] <= to
      BY <3>1 DEF Numbered
    <3> QED BY <2>4, <3>1, <3>2, <3>3
  <2>6. \A n \in Nat : from + 1 < n /\ n <= to =>
           \E l \in 1..Len(v) : IsToken(v, l) /\ v[l].delta[2] = n
    <3> SUFFICES ASSUME NEW n \in Nat, from + 1 < n, n <= to
                 PROVE  \E l \in 1..Len(v) : IsToken(v, l) /\ v[l].delta[2] = n
      OBVIOUS
    <3>1. from < n
      OBVIOUS
    <3>2. PICK l \in 1..Len(w) : IsToken(w, l) /\ w[l].delta[2] = n
      BY <3>1 DEF Numbered
    <3>3. l # 1
      BY <2>4, <3>2
    <3>4. l - 1 \in 1..Len(v) /\ v[l - 1] = w[l] /\ IsToken(v, l - 1)
      BY <1>1, <1>3, <3>2, <3>3
    <3> QED BY <3>2, <3>4
  <2>7. Numbered(v, c, from + 1, to)
    <3>1. from + 1 <= to
      BY <2>2, <2>4
    <3> QED BY <1>4, <2>5, <2>6, <3>1 DEF Numbered
  <2>8. w[1].delta = <<c, from + 1>>
    BY <2>1, <2>2, <2>4
  <2> QED BY <1>5, <2>7, <2>8 DEF v
<1>6. CASE w[1].event # "token"
  <2>1. \A l \in 1..Len(v) : IsToken(v, l) =>
           v[l].delta[1] = c /\ from < v[l].delta[2] /\ v[l].delta[2] <= to
    <3> SUFFICES ASSUME NEW l \in 1..Len(v), IsToken(v, l)
                 PROVE  v[l].delta[1] = c /\ from < v[l].delta[2] /\ v[l].delta[2] <= to
      OBVIOUS
    <3>1. IsToken(w, l + 1) /\ v[l] = w[l + 1] /\ l + 1 \in 1..Len(w)
      BY <1>1, <1>2
    <3> QED BY <3>1 DEF Numbered
  <2>2. \A n \in Nat : from < n /\ n <= to =>
           \E l \in 1..Len(v) : IsToken(v, l) /\ v[l].delta[2] = n
    <3> SUFFICES ASSUME NEW n \in Nat, from < n, n <= to
                 PROVE  \E l \in 1..Len(v) : IsToken(v, l) /\ v[l].delta[2] = n
      OBVIOUS
    <3>1. PICK l \in 1..Len(w) : IsToken(w, l) /\ w[l].delta[2] = n
      BY DEF Numbered
    <3>2. l # 1
      BY <1>6, <3>1 DEF IsToken
    <3>3. l - 1 \in 1..Len(v) /\ v[l - 1] = w[l] /\ IsToken(v, l - 1)
      BY <1>1, <1>3, <3>1, <3>2
    <3> QED BY <3>1, <3>3
  <2>3. Numbered(v, c, from, to)
    BY <1>4, <2>1, <2>2 DEF Numbered
  <2> QED BY <1>6, <2>3 DEF v
<1> QED BY <1>5, <1>6

\* Sending: a token numbers on, and other events change nothing.
LEMMA NumberedSend ==
  ASSUME NEW w \in Seq(Event), NEW ev \in Seq(Event), NEW c, NEW from \in Nat, NEW to \in Nat,
         Numbered(w, c, from, to)
  PROVE  /\ (\A k \in 1..Len(ev) : ev[k].event # "token") => Numbered(w \o ev, c, from, to)
         /\ ev = <<[event |-> "token", delta |-> <<c, to + 1>>]>> =>
                Numbered(w \o ev, c, from, to + 1)
<1> DEFINE v == w \o ev
<1>1. /\ Len(v) = Len(w) + Len(ev) /\ Len(w) \in Nat /\ Len(ev) \in Nat
      /\ \A k \in 1..Len(v) : v[k] = IF k <= Len(w) THEN w[k] ELSE ev[k - Len(w)]
  BY ConcatProperties
<1> HIDE DEF v
<1>2. \A k \in 1..Len(w) : k \in 1..Len(v) /\ v[k] = w[k] /\ (IsToken(v, k) <=> IsToken(w, k))
  BY <1>1 DEF IsToken
<1>3. ASSUME \A k \in 1..Len(ev) : ev[k].event # "token"
      PROVE  Numbered(v, c, from, to)
  <2>1. \A k \in 1..Len(v) : IsToken(v, k) => k \in 1..Len(w) /\ IsToken(w, k) /\ v[k] = w[k]
    BY <1>1, <1>3 DEF IsToken
  <2>2. \A k \in 1..Len(v) : IsToken(v, k) =>
           v[k].delta[1] = c /\ from < v[k].delta[2] /\ v[k].delta[2] <= to
    BY <2>1 DEF Numbered
  <2>3. \A k, l \in 1..Len(v) :
           k < l /\ IsToken(v, k) /\ IsToken(v, l) => v[k].delta[2] < v[l].delta[2]
    BY <2>1 DEF Numbered
  <2>4. \A n \in Nat : from < n /\ n <= to =>
           \E k \in 1..Len(v) : IsToken(v, k) /\ v[k].delta[2] = n
    BY <1>2 DEF Numbered
  <2>5. from <= to
    BY DEF Numbered
  <2> QED BY <2>2, <2>3, <2>4, <2>5 DEF Numbered
<1>4. ASSUME ev = <<[event |-> "token", delta |-> <<c, to + 1>>]>>
      PROVE  Numbered(v, c, from, to + 1)
  <2> DEFINE last == Len(w) + 1
  <2>1. /\ Len(v) = last /\ last \in 1..Len(v) /\ v[last].event = "token"
        /\ v[last].delta[1] = c /\ v[last].delta[2] = to + 1
    BY <1>1, <1>4
  <2>2. \A k \in 1..Len(v) : k # last => k \in 1..Len(w) /\ v[k] = w[k] /\ (IsToken(v, k) <=> IsToken(w, k))
    BY <1>1, <1>2, <2>1
  <2>3. IsToken(v, last)
    BY <2>1 DEF IsToken
  <2>4. from <= to
    BY DEF Numbered
  <2>5. \A k \in 1..Len(w) : IsToken(w, k) =>
           w[k].delta[1] = c /\ from < w[k].delta[2] /\ w[k].delta[2] <= to /\ w[k].delta[2] \in Nat
    BY TokenNumbers DEF Numbered, IsToken
  <2>6. \A k \in 1..Len(v) : IsToken(v, k) =>
           v[k].delta[1] = c /\ from < v[k].delta[2] /\ v[k].delta[2] <= to + 1
    <3> SUFFICES ASSUME NEW k \in 1..Len(v), IsToken(v, k)
                 PROVE  v[k].delta[1] = c /\ from < v[k].delta[2] /\ v[k].delta[2] <= to + 1
      OBVIOUS
    <3>1. CASE k = last
      BY <2>1, <2>4, <3>1
    <3>2. CASE k # last
      BY <2>2, <2>5, <3>2
    <3> QED BY <3>1, <3>2
  <2>7. \A k, l \in 1..Len(v) :
           k < l /\ IsToken(v, k) /\ IsToken(v, l) => v[k].delta[2] < v[l].delta[2]
    <3> SUFFICES ASSUME NEW k \in 1..Len(v), NEW l \in 1..Len(v), k < l, IsToken(v, k), IsToken(v, l)
                 PROVE  v[k].delta[2] < v[l].delta[2]
      OBVIOUS
    <3>1. k # last
      BY <1>1, <2>1
    <3>2. k \in 1..Len(w) /\ v[k] = w[k] /\ IsToken(w, k)
      BY <2>2, <3>1
    <3>3. CASE l = last
      BY <2>1, <2>5, <3>2, <3>3
    <3>4. CASE l # last
      BY <2>2, <3>2, <3>4 DEF Numbered
    <3> QED BY <3>3, <3>4
  <2>8. \A n \in Nat : from < n /\ n <= to + 1 =>
           \E k \in 1..Len(v) : IsToken(v, k) /\ v[k].delta[2] = n
    <3> SUFFICES ASSUME NEW n \in Nat, from < n, n <= to + 1
                 PROVE  \E k \in 1..Len(v) : IsToken(v, k) /\ v[k].delta[2] = n
      OBVIOUS
    <3>1. CASE n = to + 1
      BY <2>1, <2>3, <3>1
    <3>2. CASE n # to + 1
      <4>1. n <= to
        BY <3>2
      <4>2. PICK k \in 1..Len(w) : IsToken(w, k) /\ w[k].delta[2] = n
        BY <4>1 DEF Numbered
      <4> QED BY <1>2, <4>2
    <3> QED BY <3>1, <3>2
  <2>9. from <= to + 1
    BY <2>4
  <2> QED BY <2>6, <2>7, <2>8, <2>9 DEF Numbered
<1> QED BY <1>3, <1>4 DEF v

LEMMA InitAnswer == Init => AnswerInv
BY DEF Init, AnswerInv, AnswerGoesOn

\* Asking: a question and an empty answer are added.
LEMMA AskAnswer ==
  ASSUME TypeInv, StreamInv, AnswerInv, sendMessage
  PROVE  AnswerInv'
<1> DEFINE c == asked + 1
           two == <<Says("user", c), Says("assistant", c)>>
<1>1. /\ c \in Chats /\ asked' = c /\ messages' = messages \o two
      /\ server' = [server EXCEPT ![c] = At("received")] /\ told' = NothingYet
      /\ UNCHANGED <<wire, stray>> /\ messages \in Seq(Message)
  BY BoundsAssumption DEF sendMessage, TypeInv, TypeOK, Chats
<1>2. /\ two \in Seq(Message) /\ Len(two) = 2
      /\ two[1] = Says("user", c) /\ two[2] = Says("assistant", c)
  <2>1. Says("user", c) \in Message /\ Says("assistant", c) \in Message
    BY <1>1 DEF Says, Message
  <2> QED BY <2>1
<1>3. Own(two[1]) /\ Own(two[2]) /\ Len(two[2].content) = 0
      /\ two[2].role = "assistant" /\ two[2].chat = c
  BY <1>2 DEF Own, Says
<1> HIDE DEF two
<1>4. /\ Len(messages') = Len(messages) + 2 /\ Len(messages) \in Nat
      /\ \A i \in 1..Len(messages) : messages'[i] = messages[i]
      /\ messages'[Len(messages) + 1] = two[1] /\ messages'[Len(messages) + 2] = two[2]
      /\ messages' \in Seq(Message)
  <2>1. /\ messages \o two \in Seq(Message) /\ Len(messages \o two) = Len(messages) + Len(two)
        /\ \A i \in 1..Len(messages) + Len(two) : (messages \o two)[i] =
              IF i <= Len(messages) THEN messages[i] ELSE two[i - Len(messages)]
    BY <1>1, <1>2, ConcatProperties
  <2>2. Len(messages) \in Nat
    BY <1>1
  <2> QED BY <1>1, <1>2, <2>1, <2>2
<1>5. (\A i \in 1..Len(messages) : Own(messages[i])) => \A i \in 1..Len(messages') : Own(messages'[i])
  <2> SUFFICES ASSUME \A i \in 1..Len(messages) : Own(messages[i]), NEW i \in 1..Len(messages')
               PROVE  Own(messages'[i])
    OBVIOUS
  <2>1. i \in 1..Len(messages) \/ i = Len(messages) + 1 \/ i = Len(messages) + 2
    BY <1>4
  <2> QED BY <1>3, <1>4, <2>1
<1>6. AnswerGoesOn'
  <2>1. messages' # <<>> /\ Last(messages') = two[2]
    BY <1>4 DEF Last
  <2>2. wire'[c] = <<>>
    <3>1. reader[c] = "idle"
      BY <1>1 DEF StreamInv, Turns, Turn, TypeInv, TypeOK
    <3> QED BY <1>1, <3>1 DEF StreamInv, OnTheWay
  <2>3. Numbered(<<>>, c, 0, 0)
    BY DEF Numbered, IsToken
  <2>4. server'[c].said = 0 /\ told'.tokens = 0
    BY <1>1 DEF At, NothingYet, TypeInv, TypeOK
  <2> QED BY <1>1, <1>3, <2>1, <2>2, <2>3, <2>4 DEF AnswerGoesOn
<1>7. stray' = stray
  BY <1>1
<1> QED BY <1>5, <1>6, <1>7 DEF AnswerInv

\* The chat is given up: nothing is said any more.
LEMMA GiveUpAnswer ==
  ASSUME AnswerInv, isStreaming' = FALSE, messages' = messages \/ messages' = <<>>,
         stray => stray'
  PROVE  AnswerInv'
BY DEF AnswerInv, AnswerGoesOn

\* The next token is added to the answer that is last.
LEMMA TokenAnswer ==
  ASSUME TypeInv, StreamInv, AnswerInv, NEW c \in Chats, ReadEvent(c),
         Head(wire[c]).event = "token"
  PROVE  AnswerInv'
<1> DEFINE w == wire[c]
           i == Len(messages)
           from == Len(Last(messages).content)
<1>1. /\ w \in Seq(Event) /\ w # <<>> /\ w[1].event = "token" /\ Head(w) = w[1]
      /\ reader[c] \in {"reading", "ending"}
      /\ wire'[c] = Tail(w) /\ UNCHANGED <<asked, server, told, stray>>
      /\ appendToLastAssistant(w[1].delta) /\ messages \in Seq(Message)
      /\ told.tokens \in Nat
  BY DEF ReadEvent, TypeInv, TypeOK, dispatchSSEEvent
<1>2. CASE stray
  BY <1>1, <1>2 DEF AnswerInv
<1>3. CASE ~stray
  <2>1. reader[c] = "reading"
    <3>1. 1 \in 1..Len(w) /\ w[1].event # "end"
      BY <1>1
    <3> QED BY <1>1, <3>1 DEF StreamInv, OnTheWay
  <2>2. isStreaming /\ c = asked
    BY <1>3, <2>1 DEF StreamInv, StoreFollows, Streams
  <2>3. /\ messages # <<>> /\ Last(messages).role = "assistant" /\ Last(messages).chat = c
        /\ Numbered(w, c, from, told.tokens)
        /\ server[c].pc # "over" => server[c].said = told.tokens
        /\ \A k \in 1..Len(messages) : Own(messages[k])
    BY <1>3, <2>2 DEF AnswerInv, AnswerGoesOn
  <2>4. i \in 1..Len(messages) /\ messages[i] \in Message /\ Last(messages) = messages[i] /\ from \in Nat
    <3>1. i \in 1..Len(messages) /\ messages[i] \in Message
      BY <1>1, <2>3
    <3>2. Last(messages) = messages[i]
      BY DEF Last
    <3>3. messages[i].content \in Seq(Chats \X Nat)
      BY <3>1 DEF Message
    <3> QED BY <3>1, <3>2, <3>3
  <2>5. w[1].delta = <<c, from + 1>> /\ Numbered(Tail(w), c, from + 1, told.tokens)
    <3> HIDE DEF from
    <3> QED BY <1>1, <2>3, <2>4, NumberedRead
  <2> DEFINE m == [messages[i] EXCEPT !.content = Append(messages[i].content, w[1].delta)]
  <2>6. messages' = [messages EXCEPT ![i] = m]
    BY <1>1, <2>3 DEF appendToLastAssistant
  <2>7. /\ m.role = "assistant" /\ m.chat = c /\ Len(m.content) = from + 1
        /\ m.content[from + 1] = <<c, from + 1>>
        /\ \A n \in 1..from : m.content[n] = messages[i].content[n]
    <3> DEFINE text == messages[i].content
    <3>1. text \in Seq(Chats \X Nat) /\ from = Len(text)
      BY <2>4 DEF Message
    <3>2. m.role = messages[i].role /\ m.chat = messages[i].chat /\ m.content = Append(text, w[1].delta)
      BY <2>4 DEF Message
    <3>3. w[1].delta \in Chats \X Nat
      BY <1>1, TokenNumbers
    <3> HIDE DEF text, m
    <3>4. /\ Len(m.content) = Len(text) + 1 /\ m.content[Len(text) + 1] = w[1].delta
          /\ \A n \in 1..Len(text) : m.content[n] = text[n]
      BY <3>1, <3>2, <3>3, AppendProperties
    <3> QED BY <2>3, <2>4, <2>5, <3>1, <3>2, <3>4 DEF text
  <2> HIDE DEF m
  <2>8. Own(m)
    <3>1. Own(messages[i]) /\ messages[i].chat = c /\ from = Len(messages[i].content)
      BY <2>3, <2>4
    <3> SUFFICES ASSUME NEW n \in 1..Len(m.content)
                 PROVE  m.role = "assistant" /\ m.content[n] = <<m.chat, n>>
      BY DEF Own
    <3> HIDE DEF from
    <3>2. CASE n = from + 1
      BY <2>7, <3>2
    <3>3. CASE n # from + 1
      <4>1. n \in 1..from
        BY <2>4, <2>7, <3>3
      <4>2. messages[i].content[n] = <<c, n>>
        BY <3>1, <4>1 DEF Own
      <4> QED BY <2>7, <4>1, <4>2
    <3> QED BY <3>2, <3>3
  <2>9. /\ Len(messages') = i /\ messages'[i] = m
        /\ \A k \in 1..i : k # i => messages'[k] = messages[k]
    BY <1>1, <2>4, <2>6
  <2>10. \A k \in 1..Len(messages') : Own(messages'[k])
    BY <2>3, <2>8, <2>9
  <2>11. AnswerGoesOn'
    <3>1. messages' # <<>> /\ Last(messages') = m
      BY <2>4, <2>9 DEF Last
    <3>2. /\ Last(messages').role = "assistant" /\ Last(messages').chat = asked'
          /\ Len(Last(messages').content) = from + 1
      BY <1>1, <2>2, <2>7, <3>1
    <3>3. Numbered(wire'[asked'], asked', from + 1, told'.tokens)
      BY <1>1, <2>2, <2>5
    <3>4. server'[asked'].pc # "over" => server'[asked'].said = told'.tokens
      BY <1>1, <2>2, <2>3
    <3> HIDE DEF from
    <3> QED BY <3>1, <3>2, <3>3, <3>4 DEF AnswerGoesOn
  <2> QED BY <2>10, <2>11 DEF AnswerInv
<1> QED BY <1>2, <1>3

\* Nothing is added, and what is read or sent is no token.
LEMMA OtherAnswer ==
  ASSUME TypeInv, StreamInv, AnswerInv, NEW c \in Chats,
         messages' = messages /\ asked' = asked /\ stray' = stray,
         told'.tokens = told.tokens, isStreaming' => isStreaming,
         \A k \in Chats \ {c} : server'[k] = server[k] /\ wire'[k] = wire[k],
         server'[c].pc # "over" => server[c].pc # "over" /\ server'[c].said = server[c].said,
         \/ wire'[c] = wire[c]
         \/ wire[c] # <<>> /\ wire[c][1].event # "token" /\ wire'[c] = Tail(wire[c])
         \/ \E ev \in Seq(Event) : /\ \A k \in 1..Len(ev) : ev[k].event # "token"
                                   /\ wire'[c] = wire[c] \o ev
  PROVE  AnswerInv'
<1>1. ASSUME NEW from \in Nat, NEW to \in Nat, Numbered(wire[c], c, from, to)
      PROVE  Numbered(wire'[c], c, from, to)
  <2>1. wire[c] \in Seq(Event)
    BY DEF TypeInv, TypeOK
  <2> QED BY <1>1, <2>1, NumberedRead, NumberedSend
<1>2. CASE stray
  BY <1>2 DEF AnswerInv
<1>3. CASE ~stray
  <2>1. AnswerGoesOn /\ \A i \in 1..Len(messages') : Own(messages'[i])
    BY <1>3 DEF AnswerInv
  <2>2. ASSUME isStreaming PROVE asked \in Chats
    BY <1>3, <2>2 DEF StreamInv, StoreFollows
  <2>3. messages # <<>> => Len(Last(messages).content) \in Nat
    BY DEF TypeInv, TypeOK, Message, Last
  <2>4. told.tokens \in Nat
    BY DEF TypeInv, TypeOK
  <2>5. ASSUME isStreaming
        PROVE  /\ server'[asked].pc # "over" => server'[asked].said = told.tokens
               /\ Numbered(wire'[asked], asked, Len(Last(messages).content), told.tokens)
    <3>1. CASE asked = c
      BY <1>1, <2>1, <2>3, <2>4, <2>5, <3>1 DEF AnswerGoesOn
    <3>2. CASE asked # c
      BY <2>1, <2>2, <2>5, <3>2 DEF AnswerGoesOn
    <3> QED BY <3>1, <3>2
  <2>6. AnswerGoesOn'
    BY <2>1, <2>5 DEF AnswerGoesOn
  <2> QED BY <2>1, <2>6 DEF AnswerInv
<1> QED BY <1>2, <1>3

\* The server's steps: only a token counts, and only the current chat says one.
LEMMA SendAnswer ==
  ASSUME TypeInv, StreamInv, AnswerInv, NEW c \in Chats,
         Accept(c) \/ Delta(c) \/ ModelEnds(c) \/ RunsTool(c) \/ Panics(c)
  PROVE  AnswerInv'
<1>1. /\ server[c] \in Server /\ HasCalls(server[c]) /\ server \in [Chats -> Server]
      /\ wire \in [Chats -> Seq(Event)] /\ wire[c] \in Seq(Event)
  BY DEF TypeInv, TypeOK
<1>2. CASE Accept(c)
  <2>1. /\ UNCHANGED <<store, asked, wire, told, stray>>
        /\ server[c].pc = "received" /\ server'[c].said = server[c].said
        /\ \A k \in Chats \ {c} : server'[k] = server[k]
    BY <1>1, <1>2 DEF Accept, Server
  <2> QED BY <2>1, OtherAnswer DEF store
<1>3. CASE Delta(c)
  <2> DEFINE n == server[c].said + 1
             ev == <<[event |-> "token", delta |-> <<c, n>>]>>
  <2>1. /\ UNCHANGED <<store, asked, reader, stray>> /\ server[c].pc = "asking"
        /\ told' = IF c = asked THEN [told EXCEPT !.tokens = told.tokens + 1] ELSE told
        /\ wire'[c] = wire[c] \o ev /\ server'[c].said = n
    BY <1>1, <1>3 DEF Delta, Writes, Server
  <2>2. CASE stray
    BY <2>1, <2>2 DEF AnswerInv
  <2>3. CASE ~stray
    <3>1. reader[c] = "reading"
      BY <2>1 DEF StreamInv, Turns, Turn
    <3>2. isStreaming /\ c = asked
      BY <2>3, <3>1 DEF StreamInv, StoreFollows, Streams
    <3>3. /\ messages # <<>> /\ Last(messages).role = "assistant" /\ Last(messages).chat = c
          /\ Numbered(wire[c], c, Len(Last(messages).content), told.tokens)
          /\ server[c].said = told.tokens
          /\ \A k \in 1..Len(messages) : Own(messages[k])
      BY <2>1, <2>3, <3>2 DEF AnswerInv, AnswerGoesOn
    <3>4. Len(Last(messages).content) \in Nat
      BY <3>3 DEF TypeInv, TypeOK, Message, Last
    <3>5. told.tokens \in Nat /\ told'.tokens = told.tokens + 1
      BY <2>1, <3>2 DEF TypeInv, TypeOK
    <3>6. ev \in Seq(Event)
      <4>1. <<c, n>> \in Chats \X Nat
        BY <3>3, <3>5
      <4> QED BY <4>1, EventTypes
    <3>7. ev = <<[event |-> "token", delta |-> <<c, told.tokens + 1>>]>>
      BY <3>3
    <3> HIDE DEF ev
    <3>8. Numbered(wire'[c], c, Len(Last(messages).content), told'.tokens)
      <4> DEFINE from == Len(Last(messages).content)
      <4>1. from \in Nat /\ Numbered(wire[c], c, from, told.tokens)
        BY <3>3, <3>4
      <4> HIDE DEF from
      <4>2. Numbered(wire[c] \o ev, c, from, told.tokens + 1)
        BY <1>1, <3>5, <3>6, <3>7, <4>1, NumberedSend
      <4> QED BY <2>1, <3>5, <4>2 DEF from
    <3>9. messages' = messages /\ isStreaming' = isStreaming /\ asked' = asked /\ stray' = stray
      BY <2>1 DEF store
    <3>10. server'[c].said = told'.tokens
      BY <2>1, <3>3, <3>5
    <3>11. AnswerGoesOn'
      BY <3>2, <3>3, <3>8, <3>9, <3>10 DEF AnswerGoesOn
    <3> QED BY <3>3, <3>9, <3>11 DEF AnswerInv
  <2> QED BY <2>2, <2>3
<1>4. CASE ModelFails(c) \/ ModelAnswers(c)
  <2>1. PICK f \in Finals : Over(c, f)
    BY <1>4 DEF ModelFails, ModelAnswers, Finals
  <2> DEFINE ev == <<[event |-> f], [event |-> "end"]>>
  <2>2. ev \in Seq(Event) /\ \A k \in 1..Len(ev) : ev[k].event # "token"
    <3>1. [event |-> f] \in Event /\ [event |-> "end"] \in Event
      BY EventTypes DEF Finals
    <3>2. \A k \in 1..Len(ev) : ev[k].event # "token"
      BY DEF Finals
    <3> QED BY <3>1, <3>2
  <2>3. wire'[c] = wire[c] \o ev /\ \A k \in Chats \ {c} : wire'[k] = wire[k]
    BY <1>1, <2>1 DEF Over, Writes
  <2>4. server'[c].pc = "over" /\ \A k \in Chats \ {c} : server'[k] = server[k]
    BY <1>1, <2>1, AtTypes DEF Over
  <2>5. UNCHANGED <<messages, isStreaming, asked, stray, told>>
    BY <1>4 DEF ModelFails, ModelAnswers, store
  <2> HIDE DEF ev
  <2> QED BY <2>2, <2>3, <2>4, <2>5, OtherAnswer
<1>5. CASE ModelCalls(c)
  <2>1. /\ server[c].pc = "asking" /\ server'[c].said = server[c].said
        /\ \A k \in Chats \ {c} : server'[k] = server[k]
        /\ UNCHANGED <<messages, isStreaming, asked, stray, told, wire>>
    BY <1>1, <1>5 DEF ModelCalls, Server, store
  <2> QED BY <2>1, OtherAnswer
<1>6. CASE StartTool(c)
  <2> DEFINE e == [event |-> "tool_start", name |-> Head(server[c].calls)]
  <2>1. e \in Event /\ e.event # "token"
    <3>1. Head(server[c].calls) \in Tools
      BY <1>1, <1>6 DEF StartTool, Server, HasCalls
    <3> QED BY <3>1, EventTypes
  <2>2. /\ wire'[c] = wire[c] \o <<e>> /\ server[c].pc = "calling" /\ server'[c].said = server[c].said
        /\ \A k \in Chats \ {c} : server'[k] = server[k] /\ wire'[k] = wire[k]
        /\ UNCHANGED <<messages, isStreaming, asked, stray, told>>
    BY <1>1, <1>6 DEF StartTool, Writes, Server, store
  <2> HIDE DEF e
  <2>3. <<e>> \in Seq(Event) /\ \A k \in 1..Len(<<e>>) : <<e>>[k].event # "token"
    BY <2>1
  <2> QED BY <2>2, <2>3, OtherAnswer
<1>7. ASSUME NEW ok \in BOOLEAN, EndTool(c, ok) PROVE AnswerInv'
  <2> DEFINE e == [event |-> "tool_end", name |-> Head(server[c].calls), ok |-> ok]
             last == <<e, [event |-> "error"], [event |-> "end"]>>
  <2>1. e \in Event /\ e.event # "token" /\ server[c].pc = "executing"
    <3>1. Head(server[c].calls) \in Tools /\ server[c].pc = "executing"
      BY <1>1, <1>7 DEF EndTool, Server, HasCalls
    <3> QED BY <3>1, EventTypes
  <2>2. /\ \/ Writes(c, <<e>>) /\ server'[c].said = server[c].said
           \/ Writes(c, last) /\ server'[c].pc = "over"
        /\ \A k \in Chats \ {c} : server'[k] = server[k]
    <3> DEFINE r == [server[c] EXCEPT !.pc = "calling", !.calls = Tail(server[c].calls)]
               a == [server[c] EXCEPT !.pc = "asking", !.calls = Tail(server[c].calls),
                                      !.round = server[c].round + 1, !.here = 0]
    <3>1. \/ Writes(c, <<e>>) /\ server' = [server EXCEPT ![c] = r]
          \/ Writes(c, <<e>>) /\ server' = [server EXCEPT ![c] = a]
          \/ Writes(c, last) /\ server' = [server EXCEPT ![c] = At("over")]
      BY <1>1, <1>7 DEF EndTool
    <3>2. r.said = server[c].said /\ a.said = server[c].said /\ At("over").pc = "over"
      BY <1>1 DEF Server, At
    <3> HIDE DEF r, a, e, last
    <3> QED BY <1>1, <3>1, <3>2
  <2>3. UNCHANGED <<messages, isStreaming, asked, stray>> /\ told'.tokens = told.tokens
    BY <1>7 DEF EndTool, store, TypeInv, TypeOK
  <2>4. [event |-> "error"] \in Event /\ [event |-> "end"] \in Event
    BY EventTypes
  <2> HIDE DEF e
  <2>5. /\ <<e>> \in Seq(Event) /\ \A k \in 1..Len(<<e>>) : <<e>>[k].event # "token"
        /\ last \in Seq(Event) /\ \A k \in 1..Len(last) : last[k].event # "token"
    <3>1. <<e>> \in Seq(Event) /\ last \in Seq(Event)
      BY <2>1, <2>4
    <3>2. \A k \in 1..Len(<<e>>) : <<e>>[k].event # "token"
      BY <2>1
    <3>3. \A k \in 1..Len(last) : last[k].event # "token"
      BY <2>1
    <3> QED BY <3>1, <3>2, <3>3
  <2> HIDE DEF last
  <2>6. CASE Writes(c, <<e>>) /\ server'[c].said = server[c].said
    <3>1. wire'[c] = wire[c] \o <<e>> /\ \A k \in Chats \ {c} : wire'[k] = wire[k]
      BY <1>1, <2>6 DEF Writes
    <3> QED BY <2>1, <2>2, <2>3, <2>5, <2>6, <3>1, OtherAnswer
  <2>7. CASE Writes(c, last) /\ server'[c].pc = "over"
    <3>1. wire'[c] = wire[c] \o last /\ \A k \in Chats \ {c} : wire'[k] = wire[k]
      BY <1>1, <2>7 DEF Writes
    <3> QED BY <2>2, <2>3, <2>5, <2>7, <3>1, OtherAnswer
  <2> QED BY <2>2, <2>6, <2>7
<1>8. CASE Panics(c)
  <2> DEFINE ev == <<[event |-> "end"]>>
  <2>1. ev \in Seq(Event) /\ \A k \in 1..Len(ev) : ev[k].event # "token"
    <3>1. [event |-> "end"] \in Event
      BY EventTypes
    <3> QED BY <3>1
  <2>2. /\ wire'[c] = wire[c] \o ev /\ \A k \in Chats \ {c} : wire'[k] = wire[k]
        /\ server[c].pc # "over" /\ server'[c].said = server[c].said
        /\ \A k \in Chats \ {c} : server'[k] = server[k]
        /\ UNCHANGED <<messages, isStreaming, asked, stray, told>>
    BY <1>1, <1>8 DEF Panics, Writes, Server, store
  <2> HIDE DEF ev
  <2> QED BY <2>1, <2>2, OtherAnswer
<1> QED BY <1>2, <1>3, <1>4, <1>5, <1>6, <1>7, <1>8 DEF ModelEnds, RunsTool

\* Reading: a token goes where it belongs, an end ends the answer.
LEMMA ReadAnswer ==
  ASSUME TypeInv, StreamInv, AnswerInv, NEW c \in Chats, Reads(c)
  PROVE  AnswerInv'
<1>1. CASE ReadEvent(c)
  <2> DEFINE e == Head(wire[c])
  <2>1. /\ wire[c] # <<>> /\ e = wire[c][1] /\ wire'[c] = Tail(wire[c])
        /\ \A k \in Chats \ {c} : wire'[k] = wire[k]
        /\ UNCHANGED <<asked, server, told, stray>> /\ dispatchSSEEvent(e)
    BY <1>1 DEF ReadEvent, TypeInv, TypeOK
  <2>2. CASE e.event = "token"
    BY <1>1, <2>2, TokenAnswer
  <2>3. CASE e.event # "token"
    <3>1. messages' = messages /\ (isStreaming' = FALSE \/ isStreaming' = isStreaming)
      BY <2>1, <2>3 DEF dispatchSSEEvent, onToolStart, onToolEnd, onDone, onError, Caught, Idle
    <3> QED BY <2>1, <2>3, <3>1, OtherAnswer
  <2> QED BY <2>2, <2>3
<1>2. CASE ReadEnd(c)
  <2>1. /\ UNCHANGED <<store, asked, server, told, stray>> /\ reader[c] \in {"reading", "ending"}
        /\ wire'[c] = <<>> /\ \A k \in Chats \ {c} : wire'[k] = wire[k]
        /\ wire[c] \in Seq(Event) /\ wire[c] # <<>> /\ wire[c][1].event = "end"
    BY <1>2 DEF ReadEnd, TypeInv, TypeOK
  <2>2. CASE reader[c] = "reading"
    <3>1. 1 \in 1..Len(wire[c]) /\ Sound(wire[c], server[c].pc)
      BY <2>1, <2>2 DEF StreamInv, OnTheWay
    <3>2. Len(wire[c]) = 1
      BY <2>1, <3>1 DEF Sound
    <3>3. wire'[c] = Tail(wire[c])
      <4>1. Tail(wire[c]) = <<>>
        <5> DEFINE w == wire[c]
        <5>1. w \in Seq(Event) /\ w # <<>> /\ Len(w) = 1
          BY <2>1, <3>2
        <5> HIDE DEF w
        <5>2. Tail(w) \in Seq(Event) /\ Len(Tail(w)) = 0
          BY <5>1, HeadTailProperties
        <5> QED BY <5>2, EmptySeq DEF w
      <4> QED BY <2>1, <4>1
    <3> QED BY <2>1, <3>3, OtherAnswer DEF store
  <2>3. CASE reader[c] = "ending"
    <3>1. ASSUME ~stray, isStreaming PROVE asked \in Chats \ {c}
      BY <2>3, <3>1 DEF StreamInv, StoreFollows, Streams
    <3> QED BY <2>1, <3>1 DEF AnswerInv, AnswerGoesOn, store
  <2> QED BY <2>1, <2>2, <2>3
<1> QED BY <1>1, <1>2 DEF Reads

LEMMA NextAnswer ==
  ASSUME TypeInv, StreamInv, AnswerInv, [Next]_vars
  PROVE  AnswerInv'
<1>1. CASE UNCHANGED vars
  BY <1>1 DEF vars, store, AnswerInv, AnswerGoesOn
<1>2. CASE sendMessage
  BY <1>2, AskAnswer
<1>3. CASE stopStreaming \/ clearConversation
  <2>1. isStreaming' = FALSE /\ stray' = stray /\ (messages' = messages \/ messages' = <<>>)
    BY <1>3 DEF stopStreaming, clearConversation, CaughtAbort, Idle
  <2> QED BY <2>1, GiveUpAnswer
<1>4. ASSUME NEW c \in Chats, Break(c) \/ Refuse(c) PROVE AnswerInv'
  <2>1. isStreaming' = FALSE /\ messages' = messages
    BY <1>4 DEF Break, Refuse, Caught, Idle
  <2>2. stray' = stray \/ stray' = (stray \/ c # asked)
    BY <1>4 DEF Break, Refuse
  <2>3. stray \in BOOLEAN
    BY DEF TypeInv, TypeOK
  <2>4. stray => stray'
    BY <2>2, <2>3, Zenon
  <2> QED BY <2>1, <2>4, GiveUpAnswer
<1> QED BY <1>1, <1>2, <1>3, <1>4, SendAnswer, ReadAnswer DEF Next, Responds

\* An answer holds the tokens of its own question, in order and without a gap, whatever
\* other readers live on (appendToLastAssistant of aiChatStore.ts).
THEOREM AnswersStayTheirOwn == Spec => []AnswersAreTheirOwn
<1>1. AnswerInv => AnswersAreTheirOwn
  BY DEF AnswerInv, Own, AnswersAreTheirOwn
<1> QED BY <1>1, InitTypes, InitStream, InitAnswer, NextTypes, NextStream, NextAnswer, PTL DEF Spec

-----------------------------------------------------------------------------
(* The tools of the current chat.  Its events on the way go on from the    *)
(* calls that the panel shows, in turn started and ended, up to what the   *)
(* server has done (told) and does.                                        *)

\* The i-th tool that was called has this name; ran are those that ended, and
\* now is the one that is executed, or was when the server panicked, if any.
Called(ran, now, i, name) ==
  IF i <= Len(ran) THEN ran[i].name = name ELSE i = Len(ran) + 1 /\ now = <<name>>

\* Before event k, begun[k - 1] tools had begun and ended[k - 1] had ended.
Counts(w, ran, now, begun, ended, k) ==
  /\ w[k].event = "tool_start" =>
        /\ begun[k - 1] = ended[k - 1] /\ ended[k] = ended[k - 1]
        /\ begun[k] = ended[k - 1] + 1
        /\ Called(ran, now, begun[k], w[k].name)
  /\ w[k].event = "tool_end" =>
        /\ begun[k - 1] = ended[k - 1] + 1 /\ begun[k] = begun[k - 1]
        /\ ended[k] = begun[k - 1]
        /\ ended[k] <= Len(ran) /\ ran[ended[k]] = [name |-> w[k].name, ok |-> w[k].ok]
  /\ w[k].event \notin {"tool_start", "tool_end"} =>
        begun[k] = begun[k - 1] /\ ended[k] = ended[k - 1]

Script(w, ran, now, b, e) ==
  \E begun, ended \in [0..Len(w) -> Nat] :
     /\ begun[0] = b /\ ended[0] = e
     /\ ended[Len(w)] = Len(ran) /\ begun[Len(w)] = Len(ran) + Len(now)
     /\ \A k \in 1..Len(w) : Counts(w, ran, now, begun, ended, k)

Now ==
  LET s == server[asked]
  IN IF s.pc = "executing" \/ (s.pc = "panicked" /\ s.calls # <<>>) THEN <<Head(s.calls)>>
     ELSE <<>>

Status(ok) == IF ok THEN "done" ELSE "error"

\* The first e of the calls shown have ended, as they are shown.
Shows(events, ran, now, e) ==
  \A i \in 1..Len(events) :
     /\ Called(ran, now, i, events[i].name)
     /\ events[i].status = IF i <= e THEN Status(ran[i].ok) ELSE "running"

ToolsGoOn ==
  isStreaming =>
     \E e \in Nat : /\ e <= Len(told.ran)
                    /\ Shows(toolEvents, told.ran, Now, e)
                    /\ Script(wire[asked], told.ran, Now, Len(toolEvents), e)

ToolInv == stray \/ (ToolsShownAsTheyEnded /\ ToolsGoOn)

\* Reading: the first event on the way counts on.
LEMMA ScriptRead ==
  ASSUME NEW w \in Seq(Event), w # <<>>, NEW ran, NEW now, Len(ran) \in Nat,
         NEW b \in Nat, NEW e \in Nat, Script(w, ran, now, b, e)
  PROVE  /\ w[1].event = "tool_start" =>
                b = e /\ Called(ran, now, b + 1, w[1].name) /\ Script(Tail(w), ran, now, b + 1, e)
         /\ w[1].event = "tool_end" =>
                /\ b = e + 1 /\ b <= Len(ran) /\ ran[b] = [name |-> w[1].name, ok |-> w[1].ok]
                /\ Script(Tail(w), ran, now, b, b)
         /\ w[1].event \notin {"tool_start", "tool_end"} => Script(Tail(w), ran, now, b, e)
<1> DEFINE v == Tail(w)
<1>1. /\ 1 \in 1..Len(w) /\ Len(v) = Len(w) - 1 /\ Len(w) \in Nat /\ Len(v) \in Nat
      /\ \A k \in 1..Len(v) : v[k] = w[k + 1] /\ k + 1 \in 1..Len(w)
  OBVIOUS
<1>2. PICK begun, ended \in [0..Len(w) -> Nat] :
         /\ begun[0] = b /\ ended[0] = e
         /\ ended[Len(w)] = Len(ran) /\ begun[Len(w)] = Len(ran) + Len(now)
         /\ \A k \in 1..Len(w) : Counts(w, ran, now, begun, ended, k)
  BY DEF Script
<1> DEFINE b2 == [k \in 0..Len(v) |-> begun[k + 1]]
           e2 == [k \in 0..Len(v) |-> ended[k + 1]]
<1> HIDE DEF v
<1>3. /\ b2 \in [0..Len(v) -> Nat] /\ e2 \in [0..Len(v) -> Nat]
      /\ \A k \in 0..Len(v) : b2[k] = begun[k + 1] /\ e2[k] = ended[k + 1]
  BY <1>1
<1> HIDE DEF b2, e2
<1>4. \A k \in 1..Len(v) : Counts(v, ran, now, b2, e2, k)
  <2> SUFFICES ASSUME NEW k \in 1..Len(v) PROVE Counts(v, ran, now, b2, e2, k)
    OBVIOUS
  <2>1. /\ Counts(w, ran, now, begun, ended, k + 1) /\ v[k] = w[k + 1]
        /\ b2[k] = begun[k + 1] /\ e2[k] = ended[k + 1] /\ k + 1 - 1 = k
        /\ b2[k - 1] = begun[k] /\ e2[k - 1] = ended[k]
    BY <1>1, <1>2, <1>3
  <2> QED BY <2>1 DEF Counts
<1>5. e2[Len(v)] = Len(ran) /\ b2[Len(v)] = Len(ran) + Len(now)
  BY <1>1, <1>2, <1>3
<1>6. Script(v, ran, now, b2[0], e2[0])
  BY <1>3, <1>4, <1>5 DEF Script
<1>7. b2[0] = begun[1] /\ e2[0] = ended[1] /\ Counts(w, ran, now, begun, ended, 1)
  BY <1>1, <1>2, <1>3
<1>8. begun[1 - 1] = b /\ ended[1 - 1] = e
  BY <1>2
<1> QED BY <1>6, <1>7, <1>8 DEF Counts, v

\* What was called stays so while the server goes on.
LEMMA CalledStays ==
  ASSUME NEW ran, Len(ran) \in Nat, NEW name, NEW item
  PROVE  \A i, n : Called(ran, <<>>, i, n) => Called(ran, <<name>>, i, n)
BY DEF Called

\* Sending events that are not about tools.
LEMMA ScriptPlain ==
  ASSUME NEW w \in Seq(Event), NEW ev \in Seq(Event), NEW ran, NEW now,
         NEW b \in Nat, NEW e \in Nat, Script(w, ran, now, b, e),
         \A k \in 1..Len(ev) : ev[k].event \notin {"tool_start", "tool_end"}
  PROVE  Script(w \o ev, ran, now, b, e)
<1> DEFINE v == w \o ev
<1>1. /\ Len(v) = Len(w) + Len(ev) /\ Len(w) \in Nat /\ Len(ev) \in Nat
      /\ \A k \in 1..Len(v) : v[k] = IF k <= Len(w) THEN w[k] ELSE ev[k - Len(w)]
  BY ConcatProperties
<1>2. PICK begun, ended \in [0..Len(w) -> Nat] :
         /\ begun[0] = b /\ ended[0] = e
         /\ ended[Len(w)] = Len(ran) /\ begun[Len(w)] = Len(ran) + Len(now)
         /\ \A k \in 1..Len(w) : Counts(w, ran, now, begun, ended, k)
  BY DEF Script
<1> DEFINE b2 == [k \in 0..Len(v) |-> IF k <= Len(w) THEN begun[k] ELSE begun[Len(w)]]
           e2 == [k \in 0..Len(v) |-> IF k <= Len(w) THEN ended[k] ELSE ended[Len(w)]]
<1> HIDE DEF v
<1>3. /\ b2 \in [0..Len(v) -> Nat] /\ e2 \in [0..Len(v) -> Nat]
      /\ \A k \in 0..Len(w) : b2[k] = begun[k] /\ e2[k] = ended[k]
      /\ \A k \in Len(w)..Len(v) : b2[k] = begun[Len(w)] /\ e2[k] = ended[Len(w)]
  BY <1>1
<1> HIDE DEF b2, e2
<1>4. ASSUME NEW k \in 1..Len(v) PROVE Counts(v, ran, now, b2, e2, k)
  <2>1. CASE k <= Len(w)
    <3>1. /\ Counts(w, ran, now, begun, ended, k) /\ v[k] = w[k]
          /\ b2[k] = begun[k] /\ e2[k] = ended[k]
          /\ b2[k - 1] = begun[k - 1] /\ e2[k - 1] = ended[k - 1]
      BY <1>1, <1>2, <1>3, <2>1
    <3> QED BY <3>1 DEF Counts
  <2>2. CASE k > Len(w)
    <3>1. v[k].event \notin {"tool_start", "tool_end"}
      <4>1. k - Len(w) \in 1..Len(ev) /\ v[k] = ev[k - Len(w)]
        BY <1>1, <2>2
      <4> QED BY <4>1
    <3>2. b2[k] = b2[k - 1] /\ e2[k] = e2[k - 1]
      <4>1. k \in Len(w)..Len(v) /\ k - 1 \in Len(w)..Len(v)
        BY <1>1, <2>2
      <4> QED BY <1>3, <4>1
    <3> QED BY <3>1, <3>2 DEF Counts
  <2> QED BY <1>1, <2>1, <2>2
<1>5. /\ e2[Len(v)] = Len(ran) /\ b2[Len(v)] = Len(ran) + Len(now)
      /\ b2[0] = b /\ e2[0] = e
  BY <1>1, <1>2, <1>3
<1>6. Script(v, ran, now, b, e)
  BY <1>3, <1>4, <1>5 DEF Script
<1> QED BY <1>6 DEF v

\* Sending that a tool begins.
LEMMA ScriptStart ==
  ASSUME NEW w \in Seq(Event), NEW ev \in Event, NEW ran, NEW b \in Nat, NEW e \in Nat,
         Len(ran) \in Nat, Script(w, ran, <<>>, b, e), ev.event = "tool_start"
  PROVE  Script(w \o <<ev>>, ran, <<ev.name>>, b, e)
<1> DEFINE v == w \o <<ev>>
           L == Len(w)
           now == <<ev.name>>
<1>1. /\ Len(v) = L + 1 /\ L \in Nat /\ v[L + 1] = ev
      /\ \A k \in 1..L : v[k] = w[k]
  OBVIOUS
<1>2. PICK begun, ended \in [0..L -> Nat] :
         /\ begun[0] = b /\ ended[0] = e
         /\ ended[L] = Len(ran) /\ begun[L] = Len(ran) + Len(<<>>)
         /\ \A k \in 1..L : Counts(w, ran, <<>>, begun, ended, k)
  BY DEF Script
<1> DEFINE b2 == [k \in 0..Len(v) |-> IF k <= L THEN begun[k] ELSE Len(ran) + 1]
           e2 == [k \in 0..Len(v) |-> IF k <= L THEN ended[k] ELSE Len(ran)]
<1> HIDE DEF v, L, now
<1>3. /\ b2 \in [0..Len(v) -> Nat] /\ e2 \in [0..Len(v) -> Nat]
      /\ \A k \in 0..L : b2[k] = begun[k] /\ e2[k] = ended[k]
      /\ b2[L + 1] = Len(ran) + 1 /\ e2[L + 1] = Len(ran)
  BY <1>1
<1> HIDE DEF b2, e2
<1>4. ASSUME NEW k \in 1..Len(v) PROVE Counts(v, ran, now, b2, e2, k)
  <2>1. CASE k # L + 1
    <3>1. /\ Counts(w, ran, <<>>, begun, ended, k) /\ v[k] = w[k]
          /\ b2[k] = begun[k] /\ e2[k] = ended[k]
          /\ b2[k - 1] = begun[k - 1] /\ e2[k - 1] = ended[k - 1]
      <4>1. k \in 1..L /\ k \in 0..L /\ k - 1 \in 0..L
        BY <1>1, <2>1
      <4> QED BY <1>1, <1>2, <1>3, <4>1
    <3>2. \A i, n : Called(ran, <<>>, i, n) => Called(ran, now, i, n)
      BY CalledStays DEF now
    <3> QED BY <3>1, <3>2 DEF Counts
  <2>2. CASE k = L + 1
    <3>1. /\ v[k] = ev /\ b2[k] = Len(ran) + 1 /\ e2[k] = Len(ran)
          /\ b2[k - 1] = Len(ran) /\ e2[k - 1] = Len(ran)
      BY <1>1, <1>2, <1>3, <2>2
    <3>2. Called(ran, now, Len(ran) + 1, ev.name)
      BY DEF Called, now
    <3> QED BY <3>1, <3>2 DEF Counts
  <2> QED BY <2>1, <2>2
<1>5. /\ e2[Len(v)] = Len(ran) /\ b2[Len(v)] = Len(ran) + Len(now)
      /\ b2[0] = b /\ e2[0] = e
  BY <1>1, <1>2, <1>3 DEF now
<1>6. Script(v, ran, now, b, e)
  BY <1>3, <1>4, <1>5 DEF Script
<1> QED BY <1>6 DEF v, now

\* Sending that a tool ended.
LEMMA ScriptEnd ==
  ASSUME NEW w \in Seq(Event), NEW ev \in Event, NEW S, NEW ran \in Seq(S),
         NEW b \in Nat, NEW e \in Nat,
         Script(w, ran, <<ev.name>>, b, e), ev.event = "tool_end",
         NEW item \in S, item = [name |-> ev.name, ok |-> ev.ok]
  PROVE  /\ Script(w \o <<ev>>, Append(ran, item), <<>>, b, e)
         /\ \A i \in Nat \ {0} : \A n :
               Called(ran, <<ev.name>>, i, n) => Called(Append(ran, item), <<>>, i, n)
<1> DEFINE v == w \o <<ev>>
           L == Len(w)
           N == Len(ran)
           more == Append(ran, item)
<1>1. /\ Len(v) = L + 1 /\ L \in Nat /\ v[L + 1] = ev
      /\ \A k \in 1..L : v[k] = w[k]
  OBVIOUS
<1>2. PICK begun, ended \in [0..L -> Nat] :
         /\ begun[0] = b /\ ended[0] = e
         /\ ended[L] = N /\ begun[L] = N + Len(<<ev.name>>)
         /\ \A k \in 1..L : Counts(w, ran, <<ev.name>>, begun, ended, k)
  BY DEF Script
<1>0. /\ N \in Nat /\ Len(more) = N + 1 /\ more[N + 1] = item
      /\ \A i \in 1..N : more[i] = ran[i]
  BY AppendProperties
<1> DEFINE b2 == [k \in 0..Len(v) |-> IF k <= L THEN begun[k] ELSE N + 1]
           e2 == [k \in 0..Len(v) |-> IF k <= L THEN ended[k] ELSE N + 1]
<1> HIDE DEF v, L, more
<1>3. /\ b2 \in [0..Len(v) -> Nat] /\ e2 \in [0..Len(v) -> Nat]
      /\ \A k \in 0..L : b2[k] = begun[k] /\ e2[k] = ended[k]
      /\ b2[L + 1] = N + 1 /\ e2[L + 1] = N + 1
  BY <1>0, <1>1
<1> HIDE DEF b2, e2, N
<1>7. ASSUME NEW i \in Nat \ {0}, NEW n, Called(ran, <<ev.name>>, i, n)
      PROVE  Called(more, <<>>, i, n)
  <2>1. CASE i <= N
    BY <1>0, <1>7, <2>1 DEF Called, N
  <2>2. CASE ~(i <= N)
    BY <1>0, <1>7, <2>2 DEF Called, N
  <2> QED BY <2>1, <2>2
<1>4. ASSUME NEW k \in 1..Len(v) PROVE Counts(v, more, <<>>, b2, e2, k)
  <2>1. CASE k # L + 1
    <3>1. /\ Counts(w, ran, <<ev.name>>, begun, ended, k) /\ v[k] = w[k]
          /\ b2[k] = begun[k] /\ e2[k] = ended[k]
          /\ b2[k - 1] = begun[k - 1] /\ e2[k - 1] = ended[k - 1]
          /\ begun[k - 1] \in Nat /\ ended[k - 1] \in Nat
      <4>1. k \in 1..L /\ k \in 0..L /\ k - 1 \in 0..L
        BY <1>1, <2>1
      <4> QED BY <1>1, <1>2, <1>3, <4>1
    <3>2. CASE w[k].event = "tool_start"
      <4>1. /\ begun[k - 1] = ended[k - 1] /\ ended[k] = ended[k - 1]
            /\ begun[k] = ended[k - 1] + 1
            /\ Called(ran, <<ev.name>>, begun[k], w[k].name)
        BY <3>1, <3>2 DEF Counts
      <4>2. Called(more, <<>>, begun[k], w[k].name)
        <5>1. begun[k] \in Nat \ {0}
          BY <3>1, <4>1
        <5> QED BY <1>7, <4>1, <5>1
      <4> QED BY <3>1, <3>2, <4>1, <4>2 DEF Counts
    <3>3. CASE w[k].event = "tool_end"
      <4>1. /\ begun[k - 1] = ended[k - 1] + 1 /\ begun[k] = begun[k - 1]
            /\ ended[k] = begun[k - 1]
            /\ ended[k] <= N /\ ran[ended[k]] = [name |-> w[k].name, ok |-> w[k].ok]
        BY <3>1, <3>3 DEF Counts, N
      <4>2. ended[k] \in 1..N /\ ended[k] <= Len(more)
        BY <1>0, <3>1, <4>1
      <4>3. more[ended[k]] = ran[ended[k]]
        BY <1>0, <4>2
      <4> QED BY <3>1, <3>3, <4>1, <4>2, <4>3 DEF Counts
    <3>4. CASE w[k].event \notin {"tool_start", "tool_end"}
      BY <3>1, <3>4 DEF Counts
    <3> QED BY <3>2, <3>3, <3>4
  <2>2. CASE k = L + 1
    <3>1. /\ v[k] = ev /\ b2[k] = N + 1 /\ e2[k] = N + 1
          /\ b2[k - 1] = N + 1 /\ e2[k - 1] = N
      BY <1>0, <1>1, <1>2, <1>3, <2>2
    <3>2. N + 1 <= Len(more) /\ more[N + 1] = [name |-> ev.name, ok |-> ev.ok]
      BY <1>0
    <3> QED BY <3>1, <3>2 DEF Counts
  <2> QED BY <2>1, <2>2
<1>5. /\ e2[Len(v)] = Len(more) /\ b2[Len(v)] = Len(more) + Len(<<>>)
      /\ b2[0] = b /\ e2[0] = e
  BY <1>0, <1>1, <1>2, <1>3
<1>6. Script(v, more, <<>>, b, e)
  BY <1>3, <1>4, <1>5 DEF Script
<1> QED BY <1>6, <1>7 DEF v, more

LEMMA InitTools == Init => ToolInv
BY DEF Init, ToolInv, ToolsGoOn, ToolsShownAsTheyEnded

\* What the panel shows is right if it is in line with what the server did.
LEMMA ShownRight ==
  ASSUME NEW events \in Seq([name: Tools, status: {"running", "done", "error"}]),
         NEW ran \in Seq([name: Tools, ok: BOOLEAN]), NEW now, NEW e \in Nat,
         e <= Len(ran), Shows(events, ran, now, e), NEW i \in 1..Len(events)
  PROVE  \/ events[i].status = "running"
         \/ /\ i \in DOMAIN ran
            /\ events[i] = [name |-> ran[i].name,
                            status |-> IF ran[i].ok THEN "done" ELSE "error"]
<1>1. events[i] \in [name: Tools, status: {"running", "done", "error"}]
  BY ElementOfSeq
<1>2. CASE i <= e
  <2>1. i \in 1..Len(ran) /\ i <= Len(ran) /\ DOMAIN ran = 1..Len(ran)
    BY <1>2
  <2>2. ran[i].name = events[i].name /\ events[i].status = Status(ran[i].ok)
    BY <1>2, <2>1 DEF Shows, Called
  <2>3. events[i] = [name |-> events[i].name, status |-> events[i].status]
    BY <1>1
  <2> QED BY <2>1, <2>2, <2>3 DEF Status
<1>3. CASE ~(i <= e)
  BY <1>3 DEF Shows
<1> QED BY <1>2, <1>3

LEMMA ToolsRight ==
  ASSUME TypeInv, NEW e \in Nat, e <= Len(told.ran), NEW now,
         Shows(toolEvents, told.ran, now, e)
  PROVE  ToolsShownAsTheyEnded
<1>1. /\ toolEvents \in Seq([name: Tools, status: {"running", "done", "error"}])
      /\ told.ran \in Seq([name: Tools, ok: BOOLEAN])
  BY DEF TypeInv, TypeOK
<1>2. ASSUME NEW i \in 1..Len(toolEvents)
      PROVE  \/ toolEvents[i].status = "running"
             \/ /\ i \in DOMAIN told.ran
                /\ toolEvents[i] = [name |-> told.ran[i].name,
                        status |-> IF told.ran[i].ok THEN "done" ELSE "error"]
  BY <1>1, ShownRight
<1> QED BY <1>2 DEF ToolsShownAsTheyEnded

\* A question begins with an empty panel and nothing on the way.
LEMMA AskTools ==
  ASSUME TypeInv, StreamInv, sendMessage
  PROVE  ToolInv'
<1> DEFINE c == asked + 1
<1>1. /\ c \in Chats /\ asked' = c /\ toolEvents' = <<>> /\ wire' = wire
      /\ server' = [server EXCEPT ![c] = At("received")] /\ told' = NothingYet
  BY BoundsAssumption DEF sendMessage, TypeInv, TypeOK, Chats
<1>2. wire'[c] = <<>>
  <2>1. reader[c] = "idle"
    BY <1>1 DEF StreamInv, Turns, Turn, TypeInv, TypeOK
  <2> QED BY <1>1, <2>1 DEF StreamInv, OnTheWay
<1>3. server'[c].pc = "received"
  BY <1>1, AtTypes DEF TypeInv, TypeOK
<1>4. Now' = <<>> /\ told'.ran = <<>>
  BY <1>1, <1>3 DEF Now, NothingYet
<1>5. Script(<<>>, <<>>, <<>>, 0, 0)
  <2> DEFINE none == [k \in 0..0 |-> 0]
  <2>1. none \in [0..Len(<<>>) -> Nat] /\ none[0] = 0 /\ Len(<<>>) = 0
    OBVIOUS
  <2> HIDE DEF none
  <2> QED BY <2>1 DEF Script
<1>6. Shows(<<>>, <<>>, <<>>, 0) /\ 0 <= Len(<<>>) /\ Len(<<>>) = 0
  BY DEF Shows
<1>7. ToolsGoOn'
  BY <1>1, <1>2, <1>4, <1>5, <1>6 DEF ToolsGoOn
<1>8. ToolsShownAsTheyEnded'
  BY <1>1 DEF ToolsShownAsTheyEnded
<1> QED BY <1>7, <1>8 DEF ToolInv

\* Nothing more is said.
LEMMA GiveUpTools ==
  ASSUME ToolInv, isStreaming' = FALSE, told' = told, stray => stray',
         toolEvents' = toolEvents \/ toolEvents' = <<>>
  PROVE  ToolInv'
<1>1. ToolsShownAsTheyEnded => ToolsShownAsTheyEnded'
  BY DEF ToolsShownAsTheyEnded
<1> QED BY <1>1 DEF ToolInv, ToolsGoOn

\* A step that is not about tools.
LEMMA OtherTools ==
  ASSUME TypeInv, StreamInv, ToolInv, NEW c \in Chats,
         toolEvents' = toolEvents /\ asked' = asked /\ stray' = stray,
         told'.ran = told.ran, isStreaming' => isStreaming,
         \A k \in Chats \ {c} : server'[k] = server[k] /\ wire'[k] = wire[k],
         asked = c => Now' = Now,
         \/ wire'[c] = wire[c]
         \/ /\ wire[c] # <<>> /\ wire'[c] = Tail(wire[c])
            /\ wire[c][1].event \notin {"tool_start", "tool_end"}
         \/ \E ev \in Seq(Event) :
               /\ \A k \in 1..Len(ev) : ev[k].event \notin {"tool_start", "tool_end"}
               /\ wire'[c] = wire[c] \o ev
  PROVE  ToolInv'
<1>1. CASE stray
  BY <1>1 DEF ToolInv
<1>2. CASE ~stray
  <2>1. ToolsShownAsTheyEnded' /\ ToolsGoOn
    BY <1>2 DEF ToolInv, ToolsShownAsTheyEnded
  <2> SUFFICES ASSUME isStreaming' PROVE ToolsGoOn'
    BY <2>1 DEF ToolInv, ToolsGoOn
  <2>2. isStreaming /\ asked \in Chats
    BY <1>2 DEF StreamInv, StoreFollows
  <2>3. PICK e \in Nat : /\ e <= Len(told.ran)
                         /\ Shows(toolEvents, told.ran, Now, e)
                         /\ Script(wire[asked], told.ran, Now, Len(toolEvents), e)
    BY <2>1, <2>2 DEF ToolsGoOn
  <2>4. Now' = Now
    BY <2>2 DEF Now
  <2>5. /\ Len(told.ran) \in Nat /\ Len(toolEvents) \in Nat
        /\ wire[c] \in Seq(Event)
    BY DEF TypeInv, TypeOK
  <2>6. Script(wire'[asked], told.ran, Now, Len(toolEvents), e)
    <3>1. CASE asked = c
      <4> DEFINE b == Len(toolEvents)
                 ran == told.ran
      <4>1. Script(wire[c], ran, Now, b, e) /\ b \in Nat /\ Len(ran) \in Nat
        BY <2>3, <2>5, <3>1
      <4> HIDE DEF b, ran
      <4>2. CASE wire'[c] = wire[c]
        BY <3>1, <4>1, <4>2 DEF b, ran
      <4>3. CASE /\ wire[c] # <<>> /\ wire'[c] = Tail(wire[c])
                 /\ wire[c][1].event \notin {"tool_start", "tool_end"}
        <5>1. Script(Tail(wire[c]), ran, Now, b, e)
          BY <2>5, <4>1, <4>3, ScriptRead
        <5> QED BY <3>1, <4>3, <5>1 DEF b, ran
      <4>4. ASSUME NEW ev \in Seq(Event), wire'[c] = wire[c] \o ev,
                   \A k \in 1..Len(ev) : ev[k].event \notin {"tool_start", "tool_end"}
            PROVE  Script(wire'[asked], told.ran, Now, Len(toolEvents), e)
        <5>1. Script(wire[c] \o ev, ran, Now, b, e)
          BY <2>5, <4>1, <4>4, ScriptPlain
        <5> QED BY <3>1, <4>4, <5>1 DEF b, ran
      <4> QED BY <4>2, <4>3, <4>4
    <3>2. CASE asked # c
      BY <2>2, <2>3, <3>2
    <3> QED BY <3>1, <3>2
  <2> QED BY <2>3, <2>4, <2>6 DEF ToolsGoOn
<1> QED BY <1>1, <1>2

\* The server begins to execute a tool, and says so.
LEMMA StartTools ==
  ASSUME TypeInv, StreamInv, ToolInv, NEW c \in Chats, StartTool(c)
  PROVE  ToolInv'
<1>1. /\ server[c] \in Server /\ HasCalls(server[c]) /\ server \in [Chats -> Server]
      /\ wire \in [Chats -> Seq(Event)] /\ wire[c] \in Seq(Event)
  BY DEF TypeInv, TypeOK
<1> DEFINE name == Head(server[c].calls)
           ev == [event |-> "tool_start", name |-> name]
<1>2. ev \in Event /\ ev.event = "tool_start" /\ ev.name = name
  <2>1. name \in Tools
    BY <1>1 DEF StartTool, Server, HasCalls
  <2> QED BY <2>1, EventTypes
<1>3. /\ wire'[c] = wire[c] \o <<ev>> /\ server[c].pc = "calling"
      /\ server'[c].pc = "executing" /\ server'[c].calls = server[c].calls
      /\ UNCHANGED <<store, asked, reader, told, stray>>
  BY <1>1 DEF StartTool, Writes, Server
<1>4. CASE stray
  BY <1>3, <1>4 DEF ToolInv
<1>5. CASE ~stray
  <2>1. reader[c] = "reading"
    BY <1>3 DEF StreamInv, Turns, Turn
  <2>2. isStreaming /\ c = asked
    BY <1>5, <2>1 DEF StreamInv, StoreFollows, Streams
  <2>3. PICK e \in Nat : /\ e <= Len(told.ran)
                         /\ Shows(toolEvents, told.ran, Now, e)
                         /\ Script(wire[c], told.ran, Now, Len(toolEvents), e)
    BY <1>5, <2>2 DEF ToolInv, ToolsGoOn
  <2>4. Now = <<>> /\ Now' = <<ev.name>>
    BY <1>2, <1>3, <2>2 DEF Now
  <2>5. Len(told.ran) \in Nat /\ Len(toolEvents) \in Nat
    BY DEF TypeInv, TypeOK
  <2> HIDE DEF ev, name
  <2>6. Script(wire'[c], told.ran, <<ev.name>>, Len(toolEvents), e)
    BY <1>1, <1>2, <1>3, <2>3, <2>4, <2>5, ScriptStart
  <2>7. Shows(toolEvents, told.ran, <<ev.name>>, e)
    BY <2>3, <2>4, <2>5, CalledStays DEF Shows
  <2>8. ToolsGoOn'
    BY <1>3, <2>2, <2>3, <2>4, <2>6, <2>7 DEF ToolsGoOn, store
  <2>9. ToolsShownAsTheyEnded'
    BY <1>3, <1>5 DEF ToolInv, ToolsShownAsTheyEnded, store
  <2> QED BY <2>8, <2>9 DEF ToolInv
<1> QED BY <1>4, <1>5

\* A tool ended, and the server says so, as its last word or not.
LEMMA EndTools ==
  ASSUME TypeInv, StreamInv, ToolInv, NEW c \in Chats, NEW ok \in BOOLEAN, EndTool(c, ok)
  PROVE  ToolInv'
<1>1. /\ server[c] \in Server /\ HasCalls(server[c]) /\ server \in [Chats -> Server]
      /\ wire \in [Chats -> Seq(Event)] /\ wire[c] \in Seq(Event)
  BY DEF TypeInv, TypeOK
<1> DEFINE name == Head(server[c].calls)
           ev == [event |-> "tool_end", name |-> name, ok |-> ok]
           rest == <<[event |-> "error"], [event |-> "end"]>>
           last == <<ev, [event |-> "error"], [event |-> "end"]>>
           item == [name |-> name, ok |-> ok]
<1>2. /\ ev \in Event /\ ev.event = "tool_end" /\ ev.name = name /\ ev.ok = ok
      /\ item \in [name: Tools, ok: BOOLEAN] /\ item = [name |-> ev.name, ok |-> ev.ok]
  <2>1. name \in Tools
    BY <1>1 DEF EndTool, Server, HasCalls
  <2> QED BY <2>1, EventTypes
<1>3. /\ \/ Writes(c, <<ev>>) /\ server'[c].pc \in {"calling", "asking"}
         \/ Writes(c, last) /\ server'[c].pc = "over"
      /\ server[c].pc = "executing"
  <2> DEFINE r == [server[c] EXCEPT !.pc = "calling", !.calls = Tail(server[c].calls)]
             a == [server[c] EXCEPT !.pc = "asking", !.calls = Tail(server[c].calls),
                                    !.round = server[c].round + 1, !.here = 0]
  <2>1. \/ Writes(c, <<ev>>) /\ server' = [server EXCEPT ![c] = r]
        \/ Writes(c, <<ev>>) /\ server' = [server EXCEPT ![c] = a]
        \/ Writes(c, last) /\ server' = [server EXCEPT ![c] = At("over")]
    BY <1>1 DEF EndTool
  <2>2. r.pc = "calling" /\ a.pc = "asking" /\ At("over").pc = "over"
    BY <1>1 DEF Server, At
  <2>3. server[c].pc = "executing"
    BY DEF EndTool
  <2> HIDE DEF r, a, ev, last
  <2> QED BY <1>1, <2>1, <2>2, <2>3
<1>4. /\ UNCHANGED <<store, asked, reader, stray>>
      /\ c = asked => told'.ran = Append(told.ran, item)
  BY DEF EndTool, TypeInv, TypeOK
<1>5. CASE stray
  BY <1>4, <1>5 DEF ToolInv
<1>6. CASE ~stray
  <2>1. reader[c] = "reading"
    BY <1>3 DEF StreamInv, Turns, Turn
  <2>2. isStreaming /\ c = asked
    BY <1>6, <2>1 DEF StreamInv, StoreFollows, Streams
  <2>3. Now = <<ev.name>>
    BY <1>2, <1>3, <2>2 DEF Now
  <2>4. PICK e \in Nat : /\ e <= Len(told.ran)
                         /\ Shows(toolEvents, told.ran, <<ev.name>>, e)
                         /\ Script(wire[c], told.ran, <<ev.name>>, Len(toolEvents), e)
    BY <1>6, <2>2, <2>3 DEF ToolInv, ToolsGoOn
  <2>5. Now' = <<>>
    BY <1>3, <1>4, <2>2 DEF Now
  <2>6. /\ told.ran \in Seq([name: Tools, ok: BOOLEAN])
        /\ toolEvents \in Seq([name: Tools, status: {"running", "done", "error"}])
        /\ Len(toolEvents) \in Nat /\ Len(told.ran) \in Nat
    BY DEF TypeInv, TypeOK
  <2> DEFINE more == Append(told.ran, item)
  <2> HIDE DEF ev, name, item
  <2>7. /\ Script(wire[c] \o <<ev>>, more, <<>>, Len(toolEvents), e)
        /\ \A i \in Nat \ {0} : \A n :
              Called(told.ran, <<ev.name>>, i, n) => Called(more, <<>>, i, n)
    BY <1>1, <1>2, <2>4, <2>6, ScriptEnd
  <2>8. /\ more \in Seq([name: Tools, ok: BOOLEAN]) /\ Len(more) = Len(told.ran) + 1
        /\ \A i \in 1..Len(told.ran) : more[i] = told.ran[i]
    BY <1>2, <2>6, AppendProperties
  <2> HIDE DEF more
  <2>9. Script(wire'[c], more, <<>>, Len(toolEvents), e)
    <3>1. CASE Writes(c, <<ev>>)
      BY <1>1, <2>7, <3>1 DEF Writes
    <3>2. CASE Writes(c, last)
      <4>1. wire'[c] = (wire[c] \o <<ev>>) \o rest
        BY <1>1, <1>2, <3>2 DEF Writes
      <4>2. /\ rest \in Seq(Event) /\ wire[c] \o <<ev>> \in Seq(Event)
            /\ \A k \in 1..Len(rest) : rest[k].event \notin {"tool_start", "tool_end"}
        BY <1>1, <1>2, EventTypes
      <4> HIDE DEF rest
      <4> QED BY <2>6, <2>7, <4>1, <4>2, ScriptPlain
    <3> QED BY <1>3, <3>1, <3>2
  <2>10. Shows(toolEvents, more, <<>>, e)
    <3> SUFFICES ASSUME NEW i \in 1..Len(toolEvents)
                 PROVE  /\ Called(more, <<>>, i, toolEvents[i].name)
                        /\ toolEvents[i].status = IF i <= e THEN Status(more[i].ok) ELSE "running"
      BY DEF Shows
    <3>1. /\ Called(told.ran, <<ev.name>>, i, toolEvents[i].name) /\ i \in Nat \ {0}
          /\ toolEvents[i].status = IF i <= e THEN Status(told.ran[i].ok) ELSE "running"
      BY <2>4, <2>6 DEF Shows
    <3>2. i <= e => more[i] = told.ran[i]
      BY <2>4, <2>6, <2>8
    <3> QED BY <2>7, <3>1, <3>2
  <2>11. e <= Len(more)
    BY <2>4, <2>6, <2>8
  <2>12. told'.ran = more /\ toolEvents' = toolEvents /\ isStreaming' = isStreaming
         /\ asked' = c
    BY <1>4, <2>2 DEF more, store
  <2>13. ToolsGoOn'
    BY <2>5, <2>9, <2>10, <2>11, <2>12 DEF ToolsGoOn
  <2>14. ASSUME NEW i \in 1..Len(toolEvents)
         PROVE  \/ toolEvents[i].status = "running"
                \/ /\ i \in DOMAIN more
                   /\ toolEvents[i] = [name |-> more[i].name,
                            status |-> IF more[i].ok THEN "done" ELSE "error"]
    BY <2>6, <2>8, <2>10, <2>11, ShownRight
  <2>15. ToolsShownAsTheyEnded'
    BY <2>12, <2>14 DEF ToolsShownAsTheyEnded
  <2> QED BY <2>13, <2>15 DEF ToolInv
<1> QED BY <1>5, <1>6

\* A reader that reads something else than the end is the current one's.
LEMMA ReadsOwn ==
  ASSUME TypeInv, StreamInv, ~stray, NEW c \in Chats, ReadEvent(c)
  PROVE  /\ isStreaming /\ c = asked /\ reader[c] = "reading"
         /\ wire[c] \in Seq(Event) /\ wire[c] # <<>> /\ Head(wire[c]) = wire[c][1]
         /\ Sound(wire[c], server[c].pc)
         /\ wire'[c] = Tail(wire[c]) /\ dispatchSSEEvent(wire[c][1])
         /\ UNCHANGED <<asked, server, told, stray>>
<1>1. /\ wire[c] \in Seq(Event) /\ wire[c] # <<>> /\ Head(wire[c]) = wire[c][1]
      /\ reader[c] \in {"reading", "ending"} /\ wire[c][1].event # "end"
      /\ 1 \in 1..Len(wire[c])
      /\ wire'[c] = Tail(wire[c]) /\ dispatchSSEEvent(wire[c][1])
      /\ UNCHANGED <<asked, server, told, stray>>
  BY DEF ReadEvent, TypeInv, TypeOK
<1>2. reader[c] = "reading" /\ Sound(wire[c], server[c].pc)
  BY <1>1 DEF StreamInv, OnTheWay
<1> QED BY <1>1, <1>2 DEF StreamInv, StoreFollows, Streams

\* The panel shows a call that begins.
LEMMA BeginsShown ==
  ASSUME TypeInv, StreamInv, ToolInv, NEW c \in Chats, ReadEvent(c),
         Head(wire[c]).event = "tool_start"
  PROVE  ToolInv'
<1>1. CASE stray
  BY <1>1 DEF ToolInv, ReadEvent
<1>2. CASE ~stray
  <2> DEFINE name == wire[c][1].name
             call == [name |-> name, status |-> "running"]
  <2>1. /\ isStreaming /\ c = asked /\ wire[c] \in Seq(Event) /\ wire[c] # <<>>
        /\ wire[c][1].event = "tool_start" /\ wire'[c] = Tail(wire[c])
        /\ onToolStart(name) /\ UNCHANGED <<asked, server, told, stray>>
    BY <1>2, ReadsOwn DEF dispatchSSEEvent
  <2>2. PICK e \in Nat : /\ e <= Len(told.ran)
                         /\ Shows(toolEvents, told.ran, Now, e)
                         /\ Script(wire[c], told.ran, Now, Len(toolEvents), e)
    BY <1>2, <2>1 DEF ToolInv, ToolsGoOn
  <2>3. /\ Len(told.ran) \in Nat /\ Len(toolEvents) \in Nat
        /\ toolEvents \in Seq([name: Tools, status: {"running", "done", "error"}])
    BY DEF TypeInv, TypeOK
  <2>4. /\ Len(toolEvents) = e /\ Called(told.ran, Now, e + 1, name)
        /\ Script(Tail(wire[c]), told.ran, Now, e + 1, e)
    <3> DEFINE b == Len(toolEvents)
               ran == told.ran
    <3>1. b \in Nat /\ Len(ran) \in Nat /\ Script(wire[c], ran, Now, b, e)
      BY <2>2, <2>3
    <3> DEFINE w == wire[c]
    <3>2. /\ w \in Seq(Event) /\ w # <<>> /\ w[1].event = "tool_start"
          /\ Script(w, ran, Now, b, e)
      BY <2>1, <3>1
    <3> HIDE DEF b, ran, w, call, name
    <3>3. b = e /\ Called(ran, Now, b + 1, w[1].name) /\ Script(Tail(w), ran, Now, b + 1, e)
      BY <3>1, <3>2, ScriptRead
    <3> QED BY <3>3 DEF b, ran, w, name
  <2>5. call \in [name: Tools, status: {"running", "done", "error"}]
    <3>1. 1 \in 1..Len(wire[c]) /\ wire[c][1] \in Event
      BY <2>1
    <3>2. name \in Tools
      BY <2>1, <3>1, EventKinds
    <3> QED BY <3>2
  <2>6. toolEvents' = Append(toolEvents, call) /\ isStreaming' = isStreaming
    BY <2>1 DEF onToolStart
  <2>7. /\ Len(toolEvents') = e + 1 /\ toolEvents'[e + 1] = call
        /\ \A i \in 1..e : toolEvents'[i] = toolEvents[i]
    BY <2>3, <2>4, <2>5, <2>6, AppendProperties
  <2>8. call.name = name /\ call.status = "running"
    OBVIOUS
  <2> HIDE DEF call, name
  <2>9. Shows(toolEvents', told.ran, Now, e)
    <3> SUFFICES ASSUME NEW i \in 1..Len(toolEvents')
                 PROVE  /\ Called(told.ran, Now, i, toolEvents'[i].name)
                        /\ toolEvents'[i].status = IF i <= e THEN Status(told.ran[i].ok) ELSE "running"
      BY DEF Shows
    <3>1. CASE i = e + 1
      BY <2>4, <2>7, <2>8, <3>1
    <3>2. CASE i # e + 1
      <4>1. i \in 1..Len(toolEvents) /\ toolEvents'[i] = toolEvents[i]
        BY <2>3, <2>4, <2>7, <3>2
      <4> QED BY <2>2, <4>1 DEF Shows
    <3> QED BY <3>1, <3>2
  <2>10. Now' = Now
    BY <2>1 DEF Now
  <2>11. ToolsGoOn'
    BY <2>1, <2>2, <2>4, <2>7, <2>9, <2>10 DEF ToolsGoOn
  <2>12. toolEvents' \in Seq([name: Tools, status: {"running", "done", "error"}])
         /\ told.ran \in Seq([name: Tools, ok: BOOLEAN])
    BY <2>3, <2>5, <2>6 DEF TypeInv, TypeOK
  <2>13. ASSUME NEW i \in 1..Len(toolEvents')
         PROVE  \/ toolEvents'[i].status = "running"
                \/ /\ i \in DOMAIN told.ran
                   /\ toolEvents'[i] = [name |-> told.ran[i].name,
                            status |-> IF told.ran[i].ok THEN "done" ELSE "error"]
    BY <2>2, <2>9, <2>12, ShownRight
  <2>14. ToolsShownAsTheyEnded'
    BY <2>1, <2>13 DEF ToolsShownAsTheyEnded
  <2> QED BY <2>11, <2>14 DEF ToolInv
<1> QED BY <1>1, <1>2

\* The last index at which something holds.
LEMMA LastIndex ==
  ASSUME NEW I \in SUBSET Nat, NEW b \in I, \A i \in I : i <= b
  PROVE  Max(I) = b
<1>1. \A x \in I : (\A y \in I : x >= y) => x = b
  OBVIOUS
<1>2. \A y \in I : b >= y
  OBVIOUS
<1> QED BY <1>1, <1>2, Zenon DEF Max

\* The panel shows how a call ended: it is the one that is running, the last.
LEMMA EndsShown ==
  ASSUME TypeInv, StreamInv, ToolInv, NEW c \in Chats, ReadEvent(c),
         Head(wire[c]).event = "tool_end"
  PROVE  ToolInv'
<1>1. CASE stray
  BY <1>1 DEF ToolInv, ReadEvent
<1>2. CASE ~stray
  <2> DEFINE name == wire[c][1].name
             ok == wire[c][1].ok
             b == Len(toolEvents)
             ran == told.ran
  <2>1. /\ isStreaming /\ c = asked /\ wire[c] \in Seq(Event) /\ wire[c] # <<>>
        /\ wire[c][1].event = "tool_end" /\ wire'[c] = Tail(wire[c])
        /\ onToolEnd(name, ok) /\ UNCHANGED <<asked, server, told, stray>>
    BY <1>2, ReadsOwn DEF dispatchSSEEvent
  <2>2. PICK e \in Nat : /\ e <= Len(ran)
                         /\ Shows(toolEvents, ran, Now, e)
                         /\ Script(wire[c], ran, Now, b, e)
    BY <1>2, <2>1 DEF ToolInv, ToolsGoOn
  <2>3. /\ Len(ran) \in Nat /\ b \in Nat
        /\ toolEvents \in Seq([name: Tools, status: {"running", "done", "error"}])
        /\ ran \in Seq([name: Tools, ok: BOOLEAN])
    BY DEF TypeInv, TypeOK
  <2>4. /\ b = e + 1 /\ b <= Len(ran) /\ ran[b] = [name |-> name, ok |-> ok]
        /\ Script(Tail(wire[c]), ran, Now, b, b)
    <3> HIDE DEF b, ran
    <3> QED BY <2>1, <2>2, <2>3, ScriptRead
  <2>5. b \in 1..Len(toolEvents)
    BY <2>3, <2>4
  <2>6. toolEvents[b].name = name /\ toolEvents[b].status = "running"
    <3> HIDE DEF ran
    <3> QED BY <2>2, <2>3, <2>4, <2>5 DEF Shows, Called
  <2> DEFINE Test(e0) == e0.name = name /\ e0.status = "running"
             I == {i \in 1..Len(toolEvents) : Test(toolEvents[i])}
  <2>7. b \in I /\ I \in SUBSET Nat /\ \A i \in I : i <= b
    BY <2>3, <2>5, <2>6
  <2>8. Max(I) = b /\ I # {}
    <3> HIDE DEF I, b
    <3> QED BY <2>7, LastIndex
  <2>9. toolEvents' = IF b = 0 THEN toolEvents
                      ELSE [toolEvents EXCEPT ![b].status = IF ok THEN "done" ELSE "error"]
    <3>1. SelectLastInSeq(toolEvents, LAMBDA e0 : e0.name = name /\ e0.status = "running") = b
      BY <2>8 DEF SelectLastInSeq
    <3> QED BY <2>1, <3>1 DEF onToolEnd
  <2>10. /\ Len(toolEvents') = b /\ \A i \in 1..b : i # b => toolEvents'[i] = toolEvents[i]
         /\ toolEvents'[b] = [toolEvents[b] EXCEPT !.status = Status(ok)]
    BY <2>3, <2>5, <2>9 DEF Status
  <2>11. toolEvents[b] \in [name: Tools, status: {"running", "done", "error"}]
    BY <2>3, <2>5, ElementOfSeq
  <2>12. toolEvents'[b].name = name /\ toolEvents'[b].status = Status(ran[b].ok)
    BY <2>4, <2>6, <2>10, <2>11
  <2>13. isStreaming' = isStreaming /\ Now' = Now
    BY <2>1 DEF onToolEnd, Now
  <2>14. toolEvents' \in Seq([name: Tools, status: {"running", "done", "error"}])
    <3>1. TypeInv'
      BY NextTypes DEF Next, Reads
    <3> QED BY <3>1 DEF TypeInv, TypeOK
  <2>15. told' = told
    BY <2>1
  <2> HIDE DEF name, ok, b, ran, Test, I
  <2>16. Shows(toolEvents', ran, Now, b)
    <3> SUFFICES ASSUME NEW i \in 1..Len(toolEvents')
                 PROVE  /\ Called(ran, Now, i, toolEvents'[i].name)
                        /\ toolEvents'[i].status = IF i <= b THEN Status(ran[i].ok) ELSE "running"
      BY DEF Shows
    <3>1. CASE i = b
      BY <2>3, <2>4, <2>12, <3>1 DEF Called
    <3>2. CASE i # b
      <4>1. i \in 1..b /\ i <= e /\ toolEvents'[i] = toolEvents[i] /\ i \in 1..Len(toolEvents)
        BY <2>2, <2>3, <2>4, <2>10, <3>2 DEF b
      <4>2. /\ Called(ran, Now, i, toolEvents[i].name)
            /\ toolEvents[i].status = Status(ran[i].ok)
        BY <2>2, <4>1 DEF Shows
      <4> QED BY <2>3, <4>1, <4>2
    <3> QED BY <3>1, <3>2
  <2>17. ToolsGoOn'
    BY <2>1, <2>3, <2>4, <2>10, <2>13, <2>15, <2>16 DEF ToolsGoOn, ran
  <2>18. ASSUME NEW i \in 1..Len(toolEvents')
         PROVE  \/ toolEvents'[i].status = "running"
                \/ /\ i \in DOMAIN ran
                   /\ toolEvents'[i] = [name |-> ran[i].name,
                            status |-> IF ran[i].ok THEN "done" ELSE "error"]
    BY <2>3, <2>4, <2>14, <2>16, ShownRight
  <2>19. ToolsShownAsTheyEnded'
    BY <2>15, <2>18 DEF ToolsShownAsTheyEnded, ran
  <2> QED BY <2>17, <2>19 DEF ToolInv
<1> QED BY <1>1, <1>2

LEMMA ReadTools ==
  ASSUME TypeInv, StreamInv, ToolInv, NEW c \in Chats, Reads(c)
  PROVE  ToolInv'
<1>1. CASE ReadEvent(c)
  <2> DEFINE e == Head(wire[c])
  <2>1. /\ wire[c] # <<>> /\ e = wire[c][1] /\ wire'[c] = Tail(wire[c])
        /\ \A k \in Chats \ {c} : wire'[k] = wire[k]
        /\ UNCHANGED <<asked, server, told, stray>> /\ dispatchSSEEvent(e)
    BY <1>1 DEF ReadEvent, TypeInv, TypeOK
  <2>2. CASE e.event \in {"tool_start", "tool_end"}
    BY <1>1, <2>2, BeginsShown, EndsShown
  <2>3. CASE e.event \notin {"tool_start", "tool_end"}
    <3>1. toolEvents' = toolEvents /\ (isStreaming' = FALSE \/ isStreaming' = isStreaming)
      BY <2>1, <2>3 DEF dispatchSSEEvent, appendToLastAssistant, onDone, onError, Caught, Idle
    <3>2. Now' = Now
      BY <2>1 DEF Now
    <3> QED BY <2>1, <2>3, <3>1, <3>2, OtherTools
  <2> QED BY <2>2, <2>3
<1>2. CASE ReadEnd(c)
  <2>1. /\ UNCHANGED <<store, asked, server, told, stray>> /\ reader[c] \in {"reading", "ending"}
        /\ wire'[c] = <<>> /\ \A k \in Chats \ {c} : wire'[k] = wire[k]
        /\ wire[c] \in Seq(Event) /\ wire[c] # <<>> /\ wire[c][1].event = "end"
    BY <1>2 DEF ReadEnd, TypeInv, TypeOK
  <2>4. Now' = Now
    BY <2>1 DEF Now
  <2>2. CASE reader[c] = "reading"
    <3>1. 1 \in 1..Len(wire[c]) /\ Sound(wire[c], server[c].pc)
      BY <2>1, <2>2 DEF StreamInv, OnTheWay
    <3>2. Len(wire[c]) = 1
      BY <2>1, <3>1 DEF Sound
    <3>3. wire'[c] = Tail(wire[c])
      <4>1. Tail(wire[c]) = <<>>
        <5> DEFINE w == wire[c]
        <5>1. w \in Seq(Event) /\ w # <<>> /\ Len(w) = 1
          BY <2>1, <3>2
        <5> HIDE DEF w
        <5>2. Tail(w) \in Seq(Event) /\ Len(Tail(w)) = 0
          BY <5>1, HeadTailProperties
        <5> QED BY <5>2, EmptySeq DEF w
      <4> QED BY <2>1, <4>1
    <3> QED BY <2>1, <2>4, <3>3, OtherTools DEF store
  <2>3. CASE reader[c] = "ending"
    <3>1. ASSUME ~stray, isStreaming PROVE asked \in Chats \ {c}
      BY <2>3, <3>1 DEF StreamInv, StoreFollows, Streams
    <3> QED BY <2>1, <2>4, <3>1 DEF ToolInv, ToolsGoOn, ToolsShownAsTheyEnded, store
  <2> QED BY <2>1, <2>2, <2>3
<1> QED BY <1>1, <1>2 DEF Reads

\* The server's steps: only the two about tools count.
LEMMA SendTools ==
  ASSUME TypeInv, StreamInv, ToolInv, NEW c \in Chats,
         Accept(c) \/ Delta(c) \/ ModelEnds(c) \/ RunsTool(c) \/ Panics(c)
  PROVE  ToolInv'
<1>1. /\ server[c] \in Server /\ HasCalls(server[c]) /\ server \in [Chats -> Server]
      /\ wire \in [Chats -> Seq(Event)] /\ wire[c] \in Seq(Event)
  BY DEF TypeInv, TypeOK
<1>2. CASE Accept(c)
  <2>1. /\ UNCHANGED <<store, asked, wire, told, stray>>
        /\ server[c].pc = "received" /\ server'[c].pc = "asking"
        /\ \A k \in Chats \ {c} : server'[k] = server[k]
    BY <1>1, <1>2 DEF Accept, Server
  <2>2. asked = c => Now' = Now
    BY <2>1 DEF Now
  <2> QED BY <2>1, <2>2, OtherTools DEF store
<1>3. CASE Delta(c)
  <2> DEFINE n == server[c].said + 1
             ev == <<[event |-> "token", delta |-> <<c, n>>]>>
  <2>1. /\ UNCHANGED <<store, asked, reader, stray>> /\ server[c].pc = "asking"
        /\ told'.ran = told.ran
        /\ wire'[c] = wire[c] \o ev /\ server'[c].pc = "asking"
        /\ \A k \in Chats \ {c} : server'[k] = server[k] /\ wire'[k] = wire[k]
    <3>1. told'.ran = told.ran
      BY <1>3 DEF Delta, TypeInv, TypeOK
    <3> QED BY <1>1, <1>3, <3>1 DEF Delta, Writes, Server
  <2>2. ev \in Seq(Event) /\ \A k \in 1..Len(ev) : ev[k].event \notin {"tool_start", "tool_end"}
    <3>1. <<c, n>> \in Chats \X Nat
      BY <1>1 DEF Server
    <3>2. ev \in Seq(Event)
      BY <3>1, EventTypes
    <3> QED BY <3>2
  <2>3. asked = c => Now' = Now
    BY <2>1 DEF Now
  <2> HIDE DEF ev
  <2> QED BY <2>1, <2>2, <2>3, OtherTools DEF store
<1>4. CASE ModelFails(c) \/ ModelAnswers(c)
  <2>1. PICK f \in Finals : Over(c, f)
    BY <1>4 DEF ModelFails, ModelAnswers, Finals
  <2> DEFINE ev == <<[event |-> f], [event |-> "end"]>>
  <2>2. ev \in Seq(Event) /\ \A k \in 1..Len(ev) : ev[k].event \notin {"tool_start", "tool_end"}
    <3>1. [event |-> f] \in Event /\ [event |-> "end"] \in Event
      BY EventTypes DEF Finals
    <3>2. \A k \in 1..Len(ev) : ev[k].event \notin {"tool_start", "tool_end"}
      BY DEF Finals
    <3> QED BY <3>1, <3>2
  <2>3. wire'[c] = wire[c] \o ev /\ \A k \in Chats \ {c} : wire'[k] = wire[k]
    BY <1>1, <2>1 DEF Over, Writes
  <2>4. /\ server[c].pc = "asking" /\ server'[c].pc = "over"
        /\ \A k \in Chats \ {c} : server'[k] = server[k]
    BY <1>1, <1>4, <2>1, AtTypes DEF Over, ModelFails, ModelAnswers
  <2>5. UNCHANGED <<toolEvents, isStreaming, asked, stray, told>>
    BY <1>4 DEF ModelFails, ModelAnswers, store
  <2>6. asked = c => Now' = Now
    BY <2>4, <2>5 DEF Now
  <2> HIDE DEF ev
  <2> QED BY <2>2, <2>3, <2>4, <2>5, <2>6, OtherTools
<1>5. CASE ModelCalls(c)
  <2>1. /\ server[c].pc = "asking" /\ server'[c].pc = "calling"
        /\ \A k \in Chats \ {c} : server'[k] = server[k]
        /\ UNCHANGED <<toolEvents, isStreaming, asked, stray, told, wire>>
    BY <1>1, <1>5 DEF ModelCalls, Server, store
  <2>2. asked = c => Now' = Now
    BY <2>1 DEF Now
  <2> QED BY <2>1, <2>2, OtherTools
<1>6. CASE Panics(c)
  <2> DEFINE ev == <<[event |-> "end"]>>
  <2>1. ev \in Seq(Event) /\ \A k \in 1..Len(ev) : ev[k].event \notin {"tool_start", "tool_end"}
    <3>1. [event |-> "end"] \in Event
      BY EventTypes
    <3> QED BY <3>1
  <2>2. /\ wire'[c] = wire[c] \o ev /\ \A k \in Chats \ {c} : wire'[k] = wire[k]
        /\ server[c].pc \in {"asking", "executing"} /\ server'[c].pc = "panicked"
        /\ server'[c].calls = server[c].calls
        /\ \A k \in Chats \ {c} : server'[k] = server[k]
        /\ UNCHANGED <<toolEvents, isStreaming, asked, stray, told>>
    BY <1>1, <1>6 DEF Panics, Writes, Server, store
  <2>3. asked = c => Now' = Now
    BY <1>1, <2>2 DEF Now, HasCalls
  <2> HIDE DEF ev
  <2> QED BY <2>1, <2>2, <2>3, OtherTools
<1> QED BY <1>2, <1>3, <1>4, <1>5, <1>6, StartTools, EndTools DEF ModelEnds, RunsTool

LEMMA NextTools ==
  ASSUME TypeInv, StreamInv, ToolInv, [Next]_vars
  PROVE  ToolInv'
<1>1. CASE UNCHANGED vars
  <2>1. Now' = Now
    BY <1>1 DEF vars, Now
  <2> QED BY <1>1, <2>1 DEF vars, store, ToolInv, ToolsGoOn, ToolsShownAsTheyEnded
<1>2. CASE sendMessage
  BY <1>2, AskTools
<1>3. CASE stopStreaming \/ clearConversation
  <2>1. /\ isStreaming' = FALSE /\ stray' = stray /\ told' = told
        /\ toolEvents' = toolEvents \/ toolEvents' = <<>>
    BY <1>3 DEF stopStreaming, clearConversation, CaughtAbort, Idle
  <2> QED BY <2>1, GiveUpTools
<1>4. ASSUME NEW c \in Chats, Break(c) \/ Refuse(c) PROVE ToolInv'
  <2>1. isStreaming' = FALSE /\ toolEvents' = toolEvents /\ told' = told
    BY <1>4 DEF Break, Refuse, Caught, Idle
  <2>2. stray' = stray \/ stray' = (stray \/ c # asked)
    BY <1>4 DEF Break, Refuse
  <2>3. stray \in BOOLEAN
    BY DEF TypeInv, TypeOK
  <2>4. stray => stray'
    BY <2>2, <2>3, Zenon
  <2> QED BY <2>1, <2>4, GiveUpTools
<1> QED BY <1>1, <1>2, <1>3, <1>4, SendTools, ReadTools DEF Next, Responds

LEMMA ToolsHold == Spec => [](TypeInv /\ StreamInv /\ ToolInv)
<1> QED BY InitTypes, InitStream, InitTools, NextTypes, NextStream, NextTools, PTL DEF Spec

\* A tool that the panel shows as ended ended, and as it is shown, though events name
\* tools only and calls of one name may follow each other (onToolEnd of aiChatStore.ts).
THEOREM ToolsShownRight == Spec => []ToolsShownAsTheyEnded
<1>1. ToolInv => (stray \/ ToolsShownAsTheyEnded)
  BY DEF ToolInv
<1>2. stray => ToolsShownAsTheyEnded
  BY DEF ToolsShownAsTheyEnded
<1> QED BY <1>1, <1>2, ToolsHold, PTL

-----------------------------------------------------------------------------
(* An answer that ended without an error has been read as far as it was    *)
(* sent: its last event was the last but the end.  The reader of a body    *)
(* without a last event stays silent.                                      *)

\* Only the current chat is spoken to, while it streams.
LEMMA SpokenTo ==
  ASSUME TypeInv, StreamInv, ~stray, NEW c \in Chats,
         server[c].pc \in {"received", "asking", "calling", "executing"}
  PROVE  isStreaming /\ c = asked
BY DEF StreamInv, Turns, Turn, StoreFollows, Streams

\* An answer that is done.
LEMMA DoneWhole ==
  ASSUME TypeInv, StreamInv, AnswerInv, ToolInv, ~stray, NEW c \in Chats, ReadEvent(c),
         Head(wire[c]).event = "done"
  PROVE  NoErrorMeansWhole'
<1> DEFINE w == wire[c]
           b == Len(toolEvents)
           ran == told.ran
           from == Len(Last(messages).content)
<1>1. /\ isStreaming /\ c = asked /\ w \in Seq(Event) /\ w # <<>> /\ w[1].event = "done"
      /\ Sound(w, server[c].pc) /\ onDone /\ told' = told
  BY ReadsOwn DEF dispatchSSEEvent
<1>2. /\ Len(w) = 2 /\ w[1 + 1].event = "end" /\ server[c].pc = "over" /\ 1 \in 1..Len(w)
  <2>1. 1 \in 1..Len(w) /\ w[1].event \in Finals /\ Len(w) \in Nat
    BY <1>1 DEF Finals
  <2> DEFINE pc == server[c].pc
  <2>2. Sound(w, pc)
    BY <1>1
  <2> HIDE DEF w, pc
  <2>3. pc = "over" /\ 1 = Len(w) - 1 /\ w[1 + 1].event = "end"
    BY <2>1, <2>2 DEF Sound
  <2> QED BY <2>1, <2>3 DEF pc
<1>3. messages # <<>> /\ Numbered(w, c, from, told.tokens)
  BY <1>1 DEF AnswerInv, AnswerGoesOn
<1>4. from \in Nat /\ told.tokens \in Nat
  BY <1>3 DEF TypeInv, TypeOK, Message, Last
<1>5. from = told.tokens
  <2>1. \A k \in 1..Len(w) : ~IsToken(w, k)
    <3>1. \A k \in 1..Len(w) : k = 1 \/ k = 1 + 1
      BY <1>2
    <3> HIDE DEF w
    <3> QED BY <1>1, <1>2, <3>1 DEF IsToken
  <2> HIDE DEF w, from
  <2>2. from <= told.tokens
    BY <1>3 DEF Numbered
  <2>3. ~(from < told.tokens)
    BY <1>3, <1>4, <2>1 DEF Numbered
  <2> QED BY <1>4, <2>2, <2>3
<1>6. PICK e \in Nat : /\ e <= Len(ran) /\ Shows(toolEvents, ran, Now, e)
                       /\ Script(w, ran, Now, b, e)
  BY <1>1 DEF ToolInv, ToolsGoOn
<1>7. Now = <<>>
  BY <1>1, <1>2 DEF Now
<1>8. b \in Nat /\ Len(ran) \in Nat
  BY DEF TypeInv, TypeOK
<1>9. b = Len(ran) /\ e = Len(ran)
  <2> HIDE DEF w, b, ran
  <2>1. PICK begun, ended \in [0..Len(w) -> Nat] :
          /\ begun[0] = b /\ ended[0] = e
          /\ ended[Len(w)] = Len(ran) /\ begun[Len(w)] = Len(ran) + Len(<<>>)
          /\ \A k \in 1..Len(w) : Counts(w, ran, <<>>, begun, ended, k)
    BY <1>6, <1>7 DEF Script
  <2>2. Counts(w, ran, <<>>, begun, ended, 1) /\ Counts(w, ran, <<>>, begun, ended, 2)
    BY <1>2, <2>1
  <2>3. begun[1] = begun[0] /\ ended[1] = ended[0]
    BY <1>1, <2>2 DEF Counts
  <2>4. begun[2] = begun[1] /\ ended[2] = ended[1]
    BY <1>2, <2>2 DEF Counts
  <2> QED BY <1>2, <1>8, <2>1, <2>3, <2>4
<1>10. \A i \in 1..Len(toolEvents) : toolEvents[i].status # "running"
  BY <1>6, <1>8, <1>9 DEF Shows, Status
<1>11. messages' = messages /\ toolEvents' = toolEvents
  BY <1>1 DEF onDone
<1> QED BY <1>1, <1>5, <1>9, <1>10, <1>11 DEF NoErrorMeansWhole

LEMMA NextWhole ==
  ASSUME TypeInv, StreamInv, AnswerInv, ToolInv, NoErrorMeansWhole, [Next]_vars
  PROVE  NoErrorMeansWhole'
<1>1. CASE UNCHANGED vars
  BY <1>1 DEF vars, store, NoErrorMeansWhole
<1>2. CASE stray'
  BY <1>2 DEF NoErrorMeansWhole
<1>3. CASE sendMessage
  BY <1>3 DEF sendMessage, NoErrorMeansWhole
<1>4. CASE stopStreaming /\ ~stray'
  <2>1. /\ asked \in Chats /\ abortController = asked /\ asked' = asked
        /\ Abort(asked)
    BY <1>4 DEF stopStreaming, StreamInv, StoreFollows
  <2>2. CASE reader[asked] = "silent"
    BY <2>1, <2>2 DEF Abort, NoErrorMeansWhole
  <2>3. CASE reader[asked] # "silent"
    BY <1>4, <2>1, <2>3 DEF stopStreaming, CaughtAbort, Deserted, None, Chats, NoErrorMeansWhole
  <2> QED BY <2>2, <2>3
<1>5. CASE clearConversation
  BY <1>5 DEF clearConversation, NoErrorMeansWhole
<1>6. ASSUME NEW c \in Chats, Break(c) \/ Refuse(c) PROVE NoErrorMeansWhole'
  BY <1>6 DEF Break, Refuse, Caught, NoErrorMeansWhole
<1>7. ASSUME NEW c \in Chats, ReadEvent(c), ~stray' PROVE NoErrorMeansWhole'
  <2>0. ~stray
    BY <1>7 DEF ReadEvent
  <2>1. isStreaming /\ dispatchSSEEvent(wire[c][1]) /\ Head(wire[c]) = wire[c][1]
    BY <1>7, <2>0, ReadsOwn
  <2>2. CASE wire[c][1].event = "done"
    BY <1>7, <2>0, <2>1, <2>2, DoneWhole
  <2>3. CASE wire[c][1].event = "error"
    BY <2>1, <2>3 DEF dispatchSSEEvent, onError, Caught, NoErrorMeansWhole
  <2>4. CASE wire[c][1].event \notin {"done", "error"}
    <3>1. isStreaming' = isStreaming
      BY <2>1, <2>4 DEF dispatchSSEEvent, appendToLastAssistant, onToolStart, onToolEnd
    <3> QED BY <2>1, <3>1 DEF NoErrorMeansWhole
  <2> QED BY <2>2, <2>3, <2>4
<1>8. ASSUME NEW c \in Chats, ReadEnd(c), ~stray' PROVE NoErrorMeansWhole'
  <2>1. /\ UNCHANGED <<store, asked, told, stray>>
        /\ reader'[asked] # "silent" => reader[asked] # "silent"
    BY <1>8 DEF ReadEnd, TypeInv, TypeOK
  <2> QED BY <1>8, <2>1 DEF store, NoErrorMeansWhole
<1>9. ASSUME NEW c \in Chats, Accept(c) \/ Delta(c) \/ ModelEnds(c) \/ RunsTool(c) \/ Panics(c), ~stray'
      PROVE  NoErrorMeansWhole'
  <2>1. /\ server[c].pc \in {"received", "asking", "calling", "executing"}
        /\ UNCHANGED <<isStreaming, stray>>
    BY <1>9 DEF Accept, Delta, ModelEnds, ModelFails, ModelAnswers, ModelCalls, RunsTool,
       StartTool, EndTool, Panics, store
  <2>2. isStreaming
    BY <1>9, <2>1, SpokenTo
  <2> QED BY <2>1, <2>2 DEF NoErrorMeansWhole
<1> QED BY <1>1, <1>2, <1>3, <1>4, <1>5, <1>6, <1>7, <1>8, <1>9 DEF Next, Reads, Responds

\* An answer that the panel shows as complete holds every token and every tool call that
\* the server made for it: what is on the way when the last event is read is only the end
\* of the stream (dispatchSSEEvent and RunChat).
THEOREM CompleteAnswers == Spec => []NoErrorMeansWhole
<1>1. Init => NoErrorMeansWhole
  BY DEF Init, NoErrorMeansWhole
<1> QED BY <1>1, InitTypes, InitStream, InitAnswer, InitTools, NextTypes, NextStream,
           NextAnswer, NextTools, NextWhole, PTL DEF Spec

=============================================================================
