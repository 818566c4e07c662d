------------------------------ MODULE Playground ------------------------------
(***************************************************************************)
(* The dashboard's playground of one agent: the form of its instructions   *)
(* (PlaygroundView and AgentInstructionsForm, the same code), which is     *)
(* reset from a query that polls while a source is in training; and the    *)
(* preview chat of usePlaygroundChat, whose turns are streams.             *)
(***************************************************************************)
EXTENDS Naturals, FiniteSets, QueryCache

CONSTANTS
    Texts, Default,  \* instructions; the text of no save
    MaxSaves,        \* bound: saves
    MaxTurns         \* bound: messages sent in the preview, and threads

VARIABLES
    row,         \* Agent: its instructions, and whether a source is in training
    agent,       \* the query of useAgent
    form,        \* react-hook-form: the value, the base it was last reset to
    save,        \* useUpdateAgent: the values in flight
    saves, failed,
    stream,      \* the turns of the preview: how far each is, and its thread
    messages,    \* the turns shown
    thread,      \* conversationId; 0: none
    isStreaming,
    abortable,   \* the turn that abortRef holds; 0: none
    turns

settings == <<row, agent, form, save, saves, failed>>
preview == <<stream, messages, thread, isStreaming, abortable, turns>>
playground == <<settings, preview>>

Turns == 1 .. MaxTurns
NoSave == [text |-> Default, pc |-> "none"]

PlaygroundInit ==
    /\ row \in [text : Texts, training : BOOLEAN]
    /\ agent = Query(row)
    /\ form = [value |-> row.text, base |-> row.text]
    /\ save = NoSave /\ saves = 0 /\ failed = FALSE
    /\ stream = [t \in Turns |-> [pc |-> "idle", sent |-> 0, thread |-> 0]]
    /\ messages = {} /\ thread = 0
    /\ isStreaming = FALSE /\ abortable = 0 /\ turns = 0

-----------------------------------------------------------------------------
(* The settings.                                                             *)

\* form.reset.
ResetTo(text) == [value |-> text, base |-> text]
Dirty == form.value # form.base

\* A worker starts or ends the training of a source of the agent.
Train ==
    /\ row' = [row EXCEPT !.training = ~ @]
    /\ UNCHANGED <<agent, form, save, saves, failed, preview>>

\* refetchInterval, while the sources shown are in training.
Poll ==
    /\ agent.fetch = "none" /\ agent.shown.training
    /\ agent' = Invalidated(agent)
    /\ UNCHANGED <<row, form, save, saves, failed, preview>>

AnswerAgent ==
    /\ agent.fetch = "sent"
    /\ agent' = Answered(agent, row)
    /\ UNCHANGED <<row, form, save, saves, failed, preview>>

\* The effect resets the form when the data changed, be it only a source's status.
RenderAgent ==
    /\ agent.fetch = "answered"
    /\ agent' = Rendered(agent)
    /\ form' = IF agent.got # agent.shown THEN ResetTo(agent.got.text) ELSE form
    /\ UNCHANGED <<row, save, saves, failed, preview>>

Edit(text) ==
    /\ form' = [form EXCEPT !.value = text]
    /\ UNCHANGED <<row, agent, save, saves, failed, preview>>

\* Save changes: the button is enabled while the form is dirty and nothing is saved.
Save ==
    /\ Dirty /\ save = NoSave
    /\ saves < MaxSaves
    /\ saves' = saves + 1
    /\ save' = [text |-> form.value, pc |-> "sent"]
    /\ UNCHANGED <<row, agent, form, failed, preview>>

\* AgentsService.update.
Update ==
    /\ save.pc = "sent"
    /\ row' = [row EXCEPT !.text = save.text]
    /\ save' = [save EXCEPT !.pc = "done"]
    /\ UNCHANGED <<agent, form, saves, failed, preview>>

\* onSuccess of the hook, then of onSave: what was typed meanwhile is dropped.
SavedQuietly ==
    /\ save.pc = "done"
    /\ form' = ResetTo(save.text)
    /\ save' = NoSave
    /\ UNCHANGED <<row, agent, saves, failed, preview>>

Saved ==
    /\ save.pc = "done"
    /\ agent' = Invalidated(agent)
    /\ form' = ResetTo(save.text)
    /\ save' = NoSave
    /\ UNCHANGED <<row, saves, failed, preview>>

\* A save fails or its answer is lost: a toast, and the form stays dirty.
FailSettings ==
    /\ ~ failed
    /\ failed' = TRUE
    /\ \/ save # NoSave /\ save' = NoSave /\ UNCHANGED agent
       \/ agent.fetch # "none" /\ agent' = Failed(agent) /\ UNCHANGED save
    /\ UNCHANGED <<row, form, saves, preview>>

-----------------------------------------------------------------------------
(* The preview.                                                              *)

\* sendMessage: its closure holds the thread of this render.
Send ==
    /\ ~ isStreaming
    /\ turns < MaxTurns
    /\ turns' = turns + 1
    /\ stream' = [stream EXCEPT ![turns + 1].pc = "open", ![turns + 1].sent = thread]
    /\ messages' = messages \cup {turns + 1}
    /\ isStreaming' = TRUE /\ abortable' = turns + 1
    /\ UNCHANGED <<settings, thread>>

\* The meta event: the turn's thread, a new one when it was sent without any.
Meta(t) ==
    /\ stream[t].pc = "open"
    /\ LET its == IF stream[t].sent = 0 THEN t ELSE stream[t].sent IN
       /\ stream' = [stream EXCEPT ![t].pc = "meta", ![t].thread = its]
       /\ thread' = its
    /\ UNCHANGED <<settings, messages, isStreaming, abortable, turns>>

\* The stream ends with done, or with an error that is shown in the reply's place; or
\* its abort surfaces.  The finally block runs for each.
End(t) ==
    /\ stream[t].pc \in {"open", "meta", "aborted"}
    /\ stream' = [stream EXCEPT ![t].pc = "over"]
    /\ isStreaming' = FALSE /\ abortable' = 0
    /\ UNCHANGED <<settings, messages, thread, turns>>

\* reset.
Cleared ==
    /\ stream' = IF abortable # 0 /\ stream[abortable].pc \in {"open", "meta"}
                 THEN [stream EXCEPT ![abortable].pc = "aborted"] ELSE stream
    /\ messages' = {} /\ thread' = 0
    /\ isStreaming' = FALSE /\ abortable' = 0
    /\ UNCHANGED <<settings, turns>>

\* The button is not disabled while a reply streams.
ResetAnyTime == messages # {} /\ Cleared
Reset == messages # {} /\ ~ isStreaming /\ Cleared

PlaygroundNext ==
    \/ Train \/ Poll \/ AnswerAgent \/ RenderAgent
    \/ \E text \in Texts : Edit(text)
    \/ Save \/ Update \/ Saved \/ FailSettings
    \/ Send \/ Reset
    \/ \E t \in Turns : Meta(t) \/ End(t)

PlaygroundSpec == PlaygroundInit /\ [][PlaygroundNext]_playground

-----------------------------------------------------------------------------

\* Whatever reads the training of a source overlaps a save, and unless a call failed,
\* a form without unsaved edits shows the instructions that the agent has.
FormShowsSavedAgent ==
    save = NoSave /\ ~ failed /\ ~ Dirty => form.value = row.text

\* The turns in the preview that named their thread are turns of the thread the next
\* message goes to.
PreviewIsOneConversation ==
    \A t \in messages : stream[t].thread # 0 => stream[t].thread = thread
=============================================================================
