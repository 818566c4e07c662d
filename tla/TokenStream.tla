------------------------------ MODULE TokenStream ------------------------------
(***************************************************************************)
(* The bytes of one reply: lines of server-sent events from Groq to        *)
(* GroqProvider.stream, from there through streamChat as frames to the     *)
(* chat client, read in pieces of any size at both ends.  An event is two  *)
(* symbols, so that a piece may end within it, and then its newlines.      *)
(***************************************************************************)
EXTENDS Naturals, Sequences, SequencesExt, Loops

CONSTANTS
    Words,      \* contents of a token
    MaxWords    \* bound: tokens of a reply

VARIABLES
    made,     \* history: the tokens the model generated
    model,    \* is the provider still writing?
    up,       \* bytes from the provider that are not read yet
    upRest,   \* buffer of GroqProvider.stream
    reply,    \* assistantContent
    api,      \* how far streamChat has come
    response, \* what the client is sent: tokens, the event that ends them, and is it cut?
    down,     \* bytes to the client that are not read yet
    downRest, \* buffer of chat()
    shown,    \* the tokens the client has received
    client    \* how chat() ends

upstream == <<made, model, up, upRest>>
downstream == <<downRest, shown, client>>
stream == <<upstream, reply, api, response, down, downstream>>

Newline == <<"newline">>
Bytes(event) == <<<<event, 1>>, <<event, 2>>>>
Line(event) == Bytes(event) \o <<Newline>>
Frame(event) == Bytes(event) \o <<Newline, Newline>>

StreamInit ==
    /\ made = <<>> /\ model = "writing" /\ up = <<>> /\ upRest = <<>>
    /\ reply = <<>> /\ api = "streaming"
    /\ response = [tokens |-> <<>>, end |-> "none", cut |-> FALSE]
    /\ down = <<>> /\ downRest = <<>> /\ shown = <<>> /\ client = "reading"

\* Whole events only: a line or a frame that does not parse is skipped.
Parsed(parts) ==
    LET whole == Filter(parts, LAMBDA part : Len(part) = 2 /\ part[1][2] = 1
                                             /\ part = Bytes(part[1][1])) IN
    [i \in DOMAIN whole |-> whole[i][1][1]]
Without(events, event) == Filter(events, LAMBDA e : e # event)

\* buffer.split("\n"): <<the complete lines, the rest>>.
EndLine(cut, byte) ==
    IF byte = Newline THEN <<Append(cut[1], cut[2]), <<>>>> ELSE <<cut[1], Append(cut[2], byte)>>
Lines(buffer) == Loop(buffer, <<<<>>, <<>>>>, EndLine)

\* buffer.split("\n\n").
EndFrame(cut, byte) ==
    IF byte = Newline /\ cut[2] # <<>> /\ Last(cut[2]) = Newline
    THEN <<Append(cut[1], Front(cut[2])), <<>>>>
    ELSE <<cut[1], Append(cut[2], byte)>>
Frames(buffer) == Loop(buffer, <<<<>>, <<>>>>, EndFrame)

\* One event as it is written to the client.
Write(bytes, event) == bytes \o Frame(event)

-----------------------------------------------------------------------------
(* The provider.                                                             *)

Generate(word) ==
    /\ model = "writing" /\ Len(made) < MaxWords
    /\ made' = Append(made, word)
    /\ up' = up \o Line(word)
    /\ UNCHANGED <<model, upRest, reply, api, response, down, downstream>>

\* [DONE], which may be the last line without a newline, and the end of the body; or the
\* connection breaks, and what was not read is lost.
Complete ==
    /\ model = "writing"
    /\ model' = "complete"
    /\ up' \in {up \o Line("[DONE]"), up \o Bytes("[DONE]")}
    /\ UNCHANGED <<made, upRest, reply, api, response, down, downstream>>
Break ==
    /\ model = "writing"
    /\ model' = "broken"
    /\ up' = <<>>
    /\ UNCHANGED <<made, upRest, reply, api, response, down, downstream>>

-----------------------------------------------------------------------------
(* GroqProvider.stream and streamChat.                                       *)

\* A token is appended to the reply and written to the client; what is written to a
\* response that was cut is lost.
Pass(words) ==
    /\ reply' = reply \o words
    /\ IF response.cut THEN UNCHANGED <<response, down>>
       ELSE /\ response' = [response EXCEPT !.tokens = @ \o words]
            /\ down' = Loop(words, down, Write)

\* The rest of a piece is thrown away.
ReadUpForgetful(n) ==
    /\ api = "streaming" /\ n \in 1 .. Len(up)
    /\ up' = SubSeq(up, n + 1, Len(up))
    /\ upRest' = <<>>
    /\ Pass(Without(Parsed(Lines(SubSeq(up, 1, n))[1]), "[DONE]"))
    /\ UNCHANGED <<made, model, api, downstream>>

\* reader.read(): n bytes, of which the last line waits for its newline.
ReadUp(n) ==
    LET cut == Lines(upRest \o SubSeq(up, 1, n)) IN
    /\ api = "streaming" /\ n \in 1 .. Len(up)
    /\ up' = SubSeq(up, n + 1, Len(up))
    /\ upRest' = cut[2]
    /\ Pass(Without(Parsed(cut[1]), "[DONE]"))
    /\ UNCHANGED <<made, model, api, downstream>>

\* The end of the body, whatever line is left, is the end of the reply, which is saved,
\* and a done event; a broken connection is an error event.
EndUp ==
    LET end == IF model = "complete" THEN "done" ELSE "error" IN
    /\ api = "streaming" /\ up = <<>> /\ model # "writing"
    /\ api' = IF model = "complete" THEN "saved" ELSE "failed"
    /\ IF response.cut THEN UNCHANGED <<response, down>>
       ELSE response' = [response EXCEPT !.end = end] /\ down' = Write(down, end)
    /\ UNCHANGED <<upstream, reply, downstream>>

-----------------------------------------------------------------------------
(* chat() of the client.                                                     *)

\* Events are handed over until an error event throws.
Received(events) ==
    LET upTo == SelectInSeq(events, LAMBDA event : event = "error")
        before == IF upTo = 0 THEN events ELSE SubSeq(events, 1, upTo - 1) IN
    /\ shown' = shown \o Without(before, "done")
    /\ client' = IF upTo # 0 THEN "error" ELSE IF Contains(before, "done") THEN "done" ELSE client

ReadDown(n) ==
    LET cut == Frames(downRest \o SubSeq(down, 1, n)) IN
    /\ client \in {"reading", "done"} /\ n \in 1 .. Len(down)
    /\ down' = SubSeq(down, n + 1, Len(down))
    /\ downRest' = cut[2]
    /\ Received(Parsed(cut[1]))
    /\ UNCHANGED <<upstream, reply, api, response>>

\* A proxy ends the response early: bytes are lost, and the client sees an end.  The
\* server goes on with the reply.
CutDown ==
    /\ client = "reading" /\ ~ response.cut
    /\ response' = [response EXCEPT !.cut = TRUE]
    /\ down' \in {SubSeq(down, 1, n) : n \in 0 .. Len(down)}
    /\ UNCHANGED <<upstream, reply, api, downstream>>

\* The end of the response: what is left in the buffer is taken for a frame.
EndDown ==
    /\ client \in {"reading", "done"} /\ (response.cut \/ api # "streaming")
    /\ down = <<>> /\ downRest # <<>>
    /\ Received(Parsed(Frames(downRest \o <<Newline, Newline>>)[1]))
    /\ downRest' = <<>>
    /\ UNCHANGED <<upstream, reply, api, response, down>>

StreamNext ==
    \/ \E word \in Words : Generate(word)
    \/ Complete \/ Break \/ EndUp \/ CutDown \/ EndDown
    \/ \E n \in 1 .. Len(up) : ReadUp(n)
    \/ \E n \in 1 .. Len(down) : ReadDown(n)

StreamSpec == StreamInit /\ [][StreamNext]_stream

-----------------------------------------------------------------------------

\* However the bytes are cut into pieces, the visitor sees the tokens of the model in
\* their order with none missing in between; a done event comes after all of them, which
\* are those of the saved message; whoever was told of an end has seen the whole reply;
\* and a response that no proxy cut is not read to its end without that.
ReplyIsWhole ==
    /\ IsPrefix(shown, made) /\ IsPrefix(reply, made)
    /\ client = "done" => shown = made /\ reply = made
    /\ client # "reading" => shown = reply
    /\ client = "reading" /\ api # "streaming" /\ ~ response.cut => down # <<>> \/ downRest # <<>>
=============================================================================
