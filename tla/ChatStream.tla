----------------------------- MODULE ChatStream -----------------------------
(***************************************************************************)
(* The chat service (internal/ai/chat.go) as the page drives it            *)
(* (app/chat.go): answers that stream, with the synchronous endpoint as    *)
(* fallback, one registered cancel function, a stall monitor per stream    *)
(* (watchdog/stream.go), and a history with a server session that the user *)
(* may clear at any moment.  The page does not keep a second message from  *)
(* being sent while one streams.                                           *)
(*                                                                         *)
(* A server session is named by the call that had it created.              *)
(***************************************************************************)
EXTENDS Naturals, Sequences, FiniteSets

CONSTANTS
    MaxChatCalls,  \* bound: messages sent
    MaxClears      \* bound: calls of ClearHistory

ASSUME ChatAssumption == MaxChatCalls \in Nat \ {0} /\ MaxClears \in Nat

VARIABLES
    chatCall,            \* the messages, in the order they were sent
    activeStreamID,      \* s.activeStreamID
    activeStreamCancel,  \* s.activeStreamCancel: the call it cancels, 0 for nil
    history,             \* s.history, as <<role, call>>
    sessionID,           \* s.sessionID, 0 for empty
    clears,              \* ClearHistory calls so far: the conversation of now
    clearedInFlight      \* conversations cleared while one of their calls was open

chatVars == <<chatCall, activeStreamID, activeStreamCancel, history, sessionID, clears,
              clearedInFlight>>

ChatCall == 1 .. MaxChatCalls

CallRecord ==
    [step : {"none", "registered", "read", "streaming", "fallback", "answered", "done"},
     streams : BOOLEAN, streamID : 0 .. MaxChatCalls, cancelled : BOOLEAN, tokens : BOOLEAN,
     session : 0 .. MaxChatCalls, conversation : 0 .. MaxClears,
     monitor : {"off", "on", "fired"}, event : {"none", "done", "stopped", "error"}]

ChatTypeOK ==
    /\ chatCall \in [ChatCall -> CallRecord]
    /\ activeStreamID \in 0 .. MaxChatCalls
    /\ activeStreamCancel \in 0 .. MaxChatCalls
    /\ history \in Seq({"user", "assistant"} \X ChatCall)
    /\ sessionID \in 0 .. MaxChatCalls
    /\ clears \in 0 .. MaxClears
    /\ clearedInFlight \subseteq 0 .. MaxClears

InitChat ==
    /\ chatCall = [c \in ChatCall |->
                    [step |-> "none", streams |-> FALSE, streamID |-> 0, cancelled |-> FALSE,
                     tokens |-> FALSE, session |-> 0, conversation |-> 0, monitor |-> "off",
                     event |-> "none"]]
    /\ activeStreamID = 0 /\ activeStreamCancel = 0
    /\ history = <<>> /\ sessionID = 0
    /\ clears = 0 /\ clearedInFlight = {}

Open(c) == chatCall[c].step \in {"read", "streaming", "fallback"}
unchangedHistory == <<history, sessionID, clears, clearedInFlight>>
unchangedStream == <<activeStreamID, activeStreamCancel>>

-----------------------------------------------------------------------------
NextCall(c) == chatCall[c].step = "none" /\ \A e \in 1 .. c - 1 : chatCall[e].step # "none"

\* registerStreamCancel: over the one before, whether it has ended or not.
RegisterStreamCancel(c) == activeStreamID' = activeStreamID + 1 /\ activeStreamCancel' = c

\* StartChatStream: the monitor first, then SendStream registers its cancel function.
BeginStream(c) ==
    /\ NextCall(c)
    /\ RegisterStreamCancel(c)
    /\ chatCall' = [chatCall EXCEPT ![c].step = "registered", ![c].streams = TRUE,
                                    ![c].streamID = activeStreamID', ![c].monitor = "on"]
    /\ UNCHANGED unchangedHistory

\* SendChatMessage has neither.
BeginSend(c) ==
    /\ NextCall(c)
    /\ chatCall' = [chatCall EXCEPT ![c].step = "registered", ![c].streamID = activeStreamID]
    /\ UNCHANGED unchangedStream /\ UNCHANGED unchangedHistory

\* The session of the conversation is read,
ReadSession(c) ==
    /\ chatCall[c].step = "registered"
    /\ chatCall' = [chatCall EXCEPT ![c].step = "read", ![c].session = sessionID,
                                    ![c].conversation = clears]
    /\ UNCHANGED unchangedHistory /\ UNCHANGED unchangedStream

\* and the message validated and appended under a later lock.
AppendUser(c) ==
    /\ chatCall[c].step = "read"
    /\ \/ /\ history' = Append(history, <<"user", c>>)
          /\ chatCall' = [chatCall EXCEPT ![c].step =
                            IF chatCall[c].streams THEN "streaming" ELSE "fallback"]
       \/ /\ chatCall' = [chatCall EXCEPT ![c].step = "answered", ![c].event = "error"]
          /\ UNCHANGED history
    /\ UNCHANGED <<sessionID, clears, clearedInFlight>> /\ UNCHANGED unchangedStream

ReceiveToken(c) ==
    /\ chatCall[c].step = "streaming" /\ ~chatCall[c].tokens
    /\ chatCall' = [chatCall EXCEPT ![c].tokens = TRUE]
    /\ UNCHANGED unchangedHistory /\ UNCHANGED unchangedStream

\* The reply is appended; a session in the answer becomes the conversation's.
Answer(c) ==
    /\ history' = Append(history, <<"assistant", c>>)
    /\ \E answered \in BOOLEAN :
        sessionID' = IF ~answered THEN sessionID
                     ELSE IF chatCall[c].session # 0 THEN chatCall[c].session ELSE c
    /\ chatCall' = [chatCall EXCEPT ![c].step = "answered", ![c].event = "done"]
    /\ UNCHANGED <<clears, clearedInFlight>> /\ UNCHANGED unchangedStream

StreamCompletes(c) == chatCall[c].step = "streaming" /\ Answer(c)

\* Faulty form: what came of a broken stream is kept before the fallback is asked.
StreamBreaksKeepingTokens(c) ==
    /\ chatCall[c].step = "streaming"
    /\ IF chatCall[c].cancelled
       THEN /\ chatCall' = [chatCall EXCEPT ![c].step = "answered", ![c].event = "stopped"]
            /\ UNCHANGED history
       ELSE /\ chatCall' = [chatCall EXCEPT ![c].step = "fallback"]
            /\ history' = IF chatCall[c].tokens THEN Append(history, <<"assistant", c>>)
                          ELSE history
    /\ UNCHANGED <<sessionID, clears, clearedInFlight>> /\ UNCHANGED unchangedStream

\* An error event, a lost connection, the 130 seconds of the request, or a cancel.
StreamBreaks(c) ==
    /\ chatCall[c].step = "streaming"
    /\ chatCall' = IF chatCall[c].cancelled
                   THEN [chatCall EXCEPT ![c].step = "answered", ![c].event = "stopped"]
                   ELSE [chatCall EXCEPT ![c].step = "fallback"]
    /\ UNCHANGED unchangedHistory /\ UNCHANGED unchangedStream

FallbackAnswers(c) == chatCall[c].step = "fallback" /\ Answer(c)

\* Faulty form: nothing but a stop ends a fallback the server does not answer.
FallbackFailsWhenStopped(c) ==
    /\ chatCall[c].step = "fallback" /\ chatCall[c].cancelled
    /\ chatCall' = [chatCall EXCEPT ![c].step = "answered", ![c].event = "stopped"]
    /\ UNCHANGED unchangedHistory /\ UNCHANGED unchangedStream

\* callAgentChatSync fails, at the latest after 120 seconds: the tokens that had come
\* are taken for the reply, even when it was the user who stopped the call.
FallbackFails(c) ==
    /\ chatCall[c].step = "fallback"
    /\ IF chatCall[c].tokens
       THEN /\ history' = Append(history, <<"assistant", c>>)
            /\ chatCall' = [chatCall EXCEPT ![c].step = "answered", ![c].event = "done"]
       ELSE /\ chatCall' = [chatCall EXCEPT ![c].step = "answered",
                                ![c].event = IF chatCall[c].cancelled THEN "stopped" ELSE "error"]
            /\ UNCHANGED history
    /\ UNCHANGED <<sessionID, clears, clearedInFlight>> /\ UNCHANGED unchangedStream

\* Faulty form: whoever ends clears the registered cancel function.
EndCallUnregistersAny(c) ==
    /\ chatCall[c].step = "answered"
    /\ activeStreamCancel' = IF chatCall[c].streams THEN 0 ELSE activeStreamCancel
    /\ chatCall' = [chatCall EXCEPT ![c].step = "done", ![c].monitor = "off"]
    /\ UNCHANGED activeStreamID /\ UNCHANGED unchangedHistory

\* unregisterStreamCancel, the monitor stopped, the last event emitted.
EndCall(c) ==
    /\ chatCall[c].step = "answered"
    /\ activeStreamCancel' = IF chatCall[c].streams /\ chatCall[c].streamID = activeStreamID
                             THEN 0 ELSE activeStreamCancel
    /\ chatCall' = [chatCall EXCEPT ![c].step = "done", ![c].monitor = "off"]
    /\ UNCHANGED activeStreamID /\ UNCHANGED unchangedHistory

-----------------------------------------------------------------------------
\* StopStream takes the registered function and calls it, whoever's it is.
StopStream(calls) ==
    /\ activeStreamCancel' = 0
    /\ chatCall' = IF activeStreamCancel = 0 THEN calls
                   ELSE [calls EXCEPT ![activeStreamCancel].cancelled = TRUE]
    /\ UNCHANGED activeStreamID /\ UNCHANGED unchangedHistory

StopChatStream == activeStreamCancel # 0 /\ StopStream(chatCall)

\* The monitor of a stream without activity for 90 seconds.
StreamStalls(c) ==
    /\ chatCall[c].monitor = "on" /\ chatCall[c].step # "none"
    /\ StopStream([chatCall EXCEPT ![c].monitor = "fired"])

\* Faulty form: the messages go, the server's session stays.
ClearHistoryKeepsSession ==
    /\ clears < MaxClears
    /\ clears' = clears + 1
    /\ history' = <<>>
    /\ clearedInFlight' = IF \E c \in ChatCall : Open(c) THEN clearedInFlight \cup {clears}
                          ELSE clearedInFlight
    /\ UNCHANGED <<chatCall, sessionID>> /\ UNCHANGED unchangedStream

ClearHistory ==
    /\ clears < MaxClears
    /\ clears' = clears + 1
    /\ history' = <<>> /\ sessionID' = 0
    /\ clearedInFlight' = IF \E c \in ChatCall : Open(c) THEN clearedInFlight \cup {clears}
                          ELSE clearedInFlight
    /\ UNCHANGED chatCall /\ UNCHANGED unchangedStream

\* What a call does by itself, its time limits among it; the answers are the server's.
ChatSteps(c) ==
    \/ ReadSession(c) \/ AppendUser(c)
    \/ StreamBreaks(c) \/ FallbackFails(c)
    \/ EndCall(c)

NextChat ==
    \/ \E c \in ChatCall : \/ ChatSteps(c)
                           \/ StreamCompletes(c) \/ FallbackAnswers(c)
                           \/ ReceiveToken(c) \/ StreamStalls(c)
                           \/ BeginStream(c) \/ BeginSend(c)
    \/ StopChatStream
    \/ ClearHistory

-----------------------------------------------------------------------------
\* The stream started last can be stopped for as long as it runs, however the ones
\* before it end (registerStreamCancel, unregisterStreamCancel).
NewestStreamCanBeStopped ==
    \A c \in ChatCall :
        LET call == chatCall[c] IN
        call.streams /\ call.streamID = activeStreamID /\ call.step # "done" /\ ~call.cancelled
            => activeStreamCancel = c

\* One question, one reply at most: whatever breaks, falls back and is cancelled, no
\* call puts two replies into the history, nor one ahead of its question, unless the
\* question was cleared away (Send, SendStream).
OneReplyPerQuestion ==
    \A i \in 1 .. Len(history) : history[i][1] = "assistant" =>
        LET c == history[i][2] IN
        /\ \A j \in 1 .. Len(history) : history[j] = history[i] => j = i
        /\ \/ \E j \in 1 .. i - 1 : history[j] = <<"user", c>>
           \/ chatCall[c].conversation < clears

\* A cleared conversation goes on with the server only through a call that was open
\* when it was cleared (ClearHistory, and the session read before the call and written
\* after it).
ClearedSessionOnlyFromOpenCall ==
    sessionID # 0 /\ chatCall[sessionID].conversation < clears =>
        chatCall[sessionID].conversation \in clearedInFlight

\* Every message gets its last event: the stream's and the fallback's time limits end
\* what the server does not, also for a stream whose cancel function is lost.
ChatCallsEnd == <>[](\A c \in ChatCall : chatCall[c].step \in {"none", "done"})

\* Streams that overlap, and a history cleared under them, are kept apart: a stop
\* reaches the newest, a reply its question, and a session its conversation.
StreamsAreKeptApart ==
    NewestStreamCanBeStopped /\ OneReplyPerQuestion /\ ClearedSessionOnlyFromOpenCall
=============================================================================
