---------------------------- MODULE DashboardProofs ----------------------------
(***************************************************************************)
(* The nine invariants of MCDashboard, for every value of its constants.   *)
(* Each is about one part, and each inductive invariant says so: the steps *)
(* of the other parts do not occur in a behaviour of this one.  What most  *)
(* of them add to the property is the state in between: what an answer     *)
(* that is not rendered yet holds, and which call in flight excuses it.    *)
(***************************************************************************)
EXTENDS MCDashboard, SequenceTheorems, TLAPS

\* Chosen beside the parts of the dashboard, the three services do what they do alone:
\* what ServicesProofs proves of ServicesSpec holds of every behaviour here.
THEOREM SpecServices == Spec => ServicesSpec
<1>1. Init => ServicesInit
  BY DEF Init
<1>2. [Next]_vars => [ServicesNext]_services
  BY DEF Next, vars
<1> QED
  BY <1>1, <1>2, PTL DEF Spec, ServicesSpec

-----------------------------------------------------------------------------
(* The pages of sources.                                                     *)

Statuses == {"none", "PENDING", "PROCESSING", "settled"}
Links == (Agents \cup {Agent}) \X Sources
Lists == [status : [Sources -> Statuses], links : SUBSET Links]
DataTypes ==
    /\ status \in [Sources -> Statuses] /\ links \in SUBSET Links
    /\ library \in [shown : Lists, fetch : {"none", "sent", "answered"}, got : Lists]
    /\ sourceAgent \in [shown : Lists, fetch : {"none", "sent", "answered"}, got : Lists]
    /\ sheet \in [kind : {"none", "file", "add", "delete", "detach", "attach", "attachAll"},
                  pc : {"edit", "sent", "put", "link", "done"},
                  source : Sources \cup {"none"}, todo : SUBSET Links]
    /\ preview \in [source : Sources \cup {"none"}, url : Sources \cup {"none"}, asked : SUBSET Sources]
    /\ sheetFailed \in BOOLEAN
\* A status that is listed is the row's, or shown as busy and polled.
Fits(listed, s) == listed = status[s] \/ (listed \in Data!Busy /\ status[s] # "none")
LibraryFits(table) == table.links = links /\ \A s \in Sources : Fits(table.status[s], s)
AgentFits(table) ==
    /\ table.links = {l \in links : l[1] = Agent}
    /\ \A s \in Sources : <<Agent, s>> \in links => Fits(table.status[s], s)
\* Unless a sheet has changed rows and not said so, or a call failed, each list that is
\* shown, or was answered and is not rendered yet, fits the rows.
Clean == sheetFailed = FALSE /\ sheet.pc \in {"edit", "sent"}
ListsFit ==
    Clean => /\ library.fetch = "none" => LibraryFits(library.shown)
             /\ library.fetch = "answered" => LibraryFits(library.got)
             /\ sourceAgent.fetch = "none" => AgentFits(sourceAgent.shown)
             /\ sourceAgent.fetch = "answered" => AgentFits(sourceAgent.got)
AttachesAsItGoes == sheet.kind = "attach" => sheet.pc = "sent"
PreviewFits == preview.url # "none" => preview.url = preview.source
DataInv == part = "data" => DataTypes /\ ListsFit /\ AttachesAsItGoes /\ PreviewFits

\* What the server answers for either page fits its rows, whatever they are.
LEMMA RowsFit ==
    ASSUME status \in [Sources -> Statuses], links \in SUBSET Links
    PROVE  /\ Data!Rows \in Lists /\ LibraryFits(Data!Rows)
           /\ Data!AgentRows \in Lists /\ AgentFits(Data!AgentRows)
<1>1. Data!Rows \in Lists /\ LibraryFits(Data!Rows)
  BY DEF Data!Rows, Lists, LibraryFits, Fits
<1> DEFINE mine == {l \in links : l[1] = Agent}
           known == [s \in Sources |-> IF <<Agent, s>> \in mine THEN status[s] ELSE "none"]
<1>2. Data!AgentRows = [status |-> known, links |-> mine]
  BY DEF Data!AgentRows, Data!NoSource
<1>3. mine \in SUBSET Links /\ known \in [Sources -> Statuses]
  BY DEF Statuses
<1>4. \A s \in Sources : <<Agent, s>> \in links => known[s] = status[s]
  OBVIOUS
<1> HIDE DEF known
<1> QED
  BY <1>1, <1>2, <1>3, <1>4 DEF Lists, AgentFits, Fits

\* The initial states of this part: both lists were answered from the rows they show.
LEMMA DataStart == Init => DataInv
<1> SUFFICES ASSUME Init, part = "data" PROVE DataTypes /\ ListsFit /\ AttachesAsItGoes /\ PreviewFits
  BY DEF DataInv
<1>1. Data!SourcesInit
  BY DEF Init
<1>2. status \in [Sources -> Statuses] /\ links = {}
  BY <1>1 DEF Data!SourcesInit, Statuses, Data!NoSource
<1>3. library = [shown |-> Data!Rows, fetch |-> "none", got |-> Data!Rows]
  BY <1>1 DEF Data!SourcesInit, Data!Query
<1>4. sourceAgent = [shown |-> Data!AgentRows, fetch |-> "none", got |-> Data!AgentRows]
  BY <1>1 DEF Data!SourcesInit, Data!Query
<1>5. sheet = [kind |-> "none", pc |-> "edit", source |-> "none", todo |-> {}] /\ sheetFailed = FALSE
  BY <1>1 DEF Data!SourcesInit, Data!Closed, Data!NoSource
<1>6. preview = [source |-> "none", url |-> "none", asked |-> {}]
  BY <1>1 DEF Data!SourcesInit, Data!NoPreview, Data!NoSource
<1>7. links \in SUBSET Links
  BY <1>2
<1>8. Data!Rows \in Lists /\ LibraryFits(Data!Rows) /\ Data!AgentRows \in Lists /\ AgentFits(Data!AgentRows)
  BY <1>2, <1>7, RowsFit
<1>9. DataTypes
  BY <1>2, <1>3, <1>4, <1>5, <1>6, <1>7, <1>8 DEF DataTypes
<1> QED
  BY <1>3, <1>4, <1>5, <1>6, <1>8, <1>9 DEF ListsFit, AttachesAsItGoes, PreviewFits

\* A step that changes neither rows nor lists, and leaves no sheet cleaner than it was.
LEMMA ListsKept ==
    ASSUME ListsFit, UNCHANGED <<status, links, library, sourceAgent>>, Clean' => Clean
    PROVE  ListsFit'
BY DEF ListsFit, LibraryFits, AgentFits, Fits

\* A sheet that is submitted changes no row and no list until the server answers it.
LEMMA SubmitKeeps ==
    ASSUME DataTypes, ListsFit, PreviewFits, NEW s \in Sources \cup {"none"}, NEW todo \in SUBSET Links,
           NEW kind \in {"file", "add", "delete", "detach", "attach", "attachAll"}, Data!Submit(kind, s, todo)
    PROVE  DataTypes' /\ ListsFit' /\ AttachesAsItGoes' /\ PreviewFits'
<1>1. sheet' = [kind |-> kind, pc |-> "sent", source |-> s, todo |-> todo]
  BY DEF Data!Submit
<1>2. UNCHANGED <<status, links, library, sourceAgent, preview, sheetFailed>> /\ sheet.pc = "edit"
  BY DEF Data!Submit, Data!server, Data!queries, Data!Closed
<1>3. DataTypes'
  BY <1>1, <1>2 DEF DataTypes
<1>4. ListsFit'
  BY <1>2, ListsKept DEF Clean
<1> QED
  BY <1>1, <1>2, <1>3, <1>4 DEF AttachesAsItGoes, PreviewFits

Queries == [shown : Lists, fetch : {"none", "sent", "answered"}, got : Lists]
\* What the steps of a query of the client's cache leave in it.
LEMMA QueryFacts ==
    ASSUME NEW q \in Queries, NEW v \in Lists
    PROVE  /\ Data!Invalidated(q) \in Queries /\ Data!Invalidated(q).fetch = "sent"
           /\ Data!Answered(q, v) \in Queries /\ Data!Answered(q, v).fetch = "answered"
           /\ Data!Answered(q, v).got = v
           /\ Data!Rendered(q) \in Queries /\ Data!Rendered(q).fetch = "none" /\ Data!Rendered(q).shown = q.got
           /\ Data!Failed(q) \in Queries
BY DEF Queries, Data!Invalidated, Data!Answered, Data!Rendered, Data!Failed

\* Every step of the pages of sources keeps their invariant.
LEMMA DataStep == ASSUME DataInv, [Next]_vars PROVE DataInv'
<1> DEFINE Inv == DataTypes /\ ListsFit /\ AttachesAsItGoes /\ PreviewFits
<1> SUFFICES ASSUME part = "data" PROVE Inv'
  BY DEF DataInv, Next, vars, ServicesNext, services
<1>0. DataTypes /\ ListsFit /\ AttachesAsItGoes /\ PreviewFits
  BY DEF DataInv
<1>1. CASE UNCHANGED vars
  <2>1. UNCHANGED <<status, links, library, sourceAgent, sheet, preview, sheetFailed>>
    BY <1>1 DEF vars, data
  <2>2. ListsFit'
    BY <1>0, <2>1, ListsKept DEF Clean
  <2> QED
    BY <1>0, <2>1, <2>2 DEF DataTypes, AttachesAsItGoes, PreviewFits
<1>2. CASE Data!SourcesNext
  <2> USE <1>0
  <2>0. /\ status \in [Sources -> Statuses] /\ links \in SUBSET Links
        /\ library \in Queries /\ sourceAgent \in Queries
    BY DEF DataTypes, Queries
  <2>1. ASSUME UNCHANGED <<status, links, sheet, preview, sheetFailed>>,
               library' \in Queries, sourceAgent' \in Queries,
               Clean => \/ library' = library
                        \/ library'.fetch = "sent"
                        \/ library'.fetch = "answered" /\ LibraryFits(library'.got)
                        \/ library'.fetch = "none" /\ LibraryFits(library'.shown),
               Clean => \/ sourceAgent' = sourceAgent
                        \/ sourceAgent'.fetch = "sent"
                        \/ sourceAgent'.fetch = "answered" /\ AgentFits(sourceAgent'.got)
                        \/ sourceAgent'.fetch = "none" /\ AgentFits(sourceAgent'.shown)
        PROVE  Inv'
    <3>1. DataTypes'
      BY <2>1 DEF DataTypes, Queries
    <3>2. /\ Clean' => Clean
          /\ \A v \in Lists : (LibraryFits(v)' <=> LibraryFits(v)) /\ (AgentFits(v)' <=> AgentFits(v))
      BY <2>1 DEF Clean, LibraryFits, AgentFits, Fits
    <3>3. ListsFit'
      BY <2>1, <3>2 DEF ListsFit, LibraryFits, AgentFits, Fits, Clean
    <3> QED
      BY <2>1, <3>1, <3>3 DEF AttachesAsItGoes, PreviewFits
  <2>2. ASSUME Data!Answer PROVE Inv'
    <3>1. UNCHANGED <<status, links, sheet, preview, sheetFailed>>
      BY <2>2 DEF Data!Answer, Data!server
    <3>2. /\ Data!Rows \in Lists /\ LibraryFits(Data!Rows)
          /\ Data!AgentRows \in Lists /\ AgentFits(Data!AgentRows)
      BY <2>0, RowsFit
    <3>3. \/ library' = Data!Answered(library, Data!Rows) /\ sourceAgent' = sourceAgent
          \/ sourceAgent' = Data!Answered(sourceAgent, Data!AgentRows) /\ library' = library
      BY <2>2 DEF Data!Answer
    <3>4. /\ Data!Answered(library, Data!Rows) \in Queries
          /\ Data!Answered(library, Data!Rows).fetch = "answered"
          /\ Data!Answered(library, Data!Rows).got = Data!Rows
          /\ Data!Answered(sourceAgent, Data!AgentRows) \in Queries
          /\ Data!Answered(sourceAgent, Data!AgentRows).fetch = "answered"
          /\ Data!Answered(sourceAgent, Data!AgentRows).got = Data!AgentRows
      BY <2>0, <3>2, QueryFacts, ZenonT(30)
    <3> HIDE DEF Inv
    <3> QED
      BY <2>0, <2>1, <3>1, <3>2, <3>3, <3>4
  <2>3. ASSUME Data!Render PROVE Inv'
    <3>1. UNCHANGED <<status, links, sheet, preview, sheetFailed>>
      BY <2>3 DEF Data!Render, Data!server
    <3>2. \/ library.fetch = "answered" /\ library' = Data!Rendered(library) /\ sourceAgent' = sourceAgent
          \/ sourceAgent.fetch = "answered" /\ sourceAgent' = Data!Rendered(sourceAgent) /\ library' = library
      BY <2>3 DEF Data!Render
    <3>3. /\ Data!Rendered(library) \in Queries
          /\ Data!Rendered(library).fetch = "none" /\ Data!Rendered(library).shown = library.got
          /\ Data!Rendered(sourceAgent) \in Queries
          /\ Data!Rendered(sourceAgent).fetch = "none" /\ Data!Rendered(sourceAgent).shown = sourceAgent.got
      BY <2>0, QueryFacts, RowsFit
    <3>4. Clean => /\ library.fetch = "answered" => LibraryFits(library.got)
                   /\ sourceAgent.fetch = "answered" => AgentFits(sourceAgent.got)
      BY DEF ListsFit
    <3> HIDE DEF Inv
    <3> QED
      BY <2>0, <2>1, <3>1, <3>2, <3>3, <3>4
  <2>4. ASSUME Data!Poll PROVE Inv'
    <3>1. UNCHANGED <<status, links, sheet, preview, sheetFailed>>
      BY <2>4 DEF Data!Poll, Data!server
    <3>2. \/ library' = Data!Invalidated(library) /\ sourceAgent' = sourceAgent
          \/ sourceAgent' = Data!Invalidated(sourceAgent) /\ library' = library
      BY <2>4 DEF Data!Poll
    <3>3. /\ Data!Invalidated(library) \in Queries /\ Data!Invalidated(library).fetch = "sent"
          /\ Data!Invalidated(sourceAgent) \in Queries /\ Data!Invalidated(sourceAgent).fetch = "sent"
      BY <2>0, QueryFacts, RowsFit
    <3> HIDE DEF Inv
    <3> QED
      BY <2>0, <2>1, <3>1, <3>2, <3>3
  <2>5. ASSUME NEW s \in Sources, Data!Work(s) PROVE Inv'
    <3>1. UNCHANGED <<links, library, sourceAgent, sheet, preview, sheetFailed>>
      BY <2>5 DEF Data!Work, Data!queries
    <3>2. status[s] \in Data!Busy /\ \E v \in Statuses \ {"none"} : status' = [status EXCEPT ![s] = v]
      BY <2>5 DEF Data!Work, Data!Busy, Statuses
    <3>3. status' \in [Sources -> Statuses]
      BY <2>0, <3>2
    <3>4. \A v \in Statuses, u \in Sources : Fits(v, u) => Fits(v, u)'
      BY <2>0, <3>2 DEF Fits
    <3>5. DataTypes'
      BY <3>1, <3>3 DEF DataTypes
    <3>6. \A table \in Lists : (LibraryFits(table) => LibraryFits(table)') /\ (AgentFits(table) => AgentFits(table)')
      BY <3>1, <3>4 DEF LibraryFits, AgentFits, Lists
    <3>7. library.shown \in Lists /\ library.got \in Lists /\ sourceAgent.shown \in Lists /\ sourceAgent.got \in Lists
      BY <2>0 DEF Queries
    <3>8. LibraryFits(library.shown)' = LibraryFits(library.shown)' /\ (Clean' <=> Clean)
      BY <3>1 DEF Clean
    <3>9. ListsFit'
      BY <3>1, <3>6, <3>7, <3>8 DEF ListsFit, LibraryFits, AgentFits, Fits
    <3> QED
      BY <3>1, <3>5, <3>9 DEF AttachesAsItGoes, PreviewFits
  <2>6. ASSUME Data!Add \/ Data!DeleteListed \/ Data!DetachListed \/ Data!AttachSources \/ Data!AttachToAgents
        PROVE  Inv'
    <3>1. \E kind \in {"file", "add", "delete", "detach", "attach", "attachAll"}, s \in Sources \cup {"none"},
             todo \in SUBSET Links : Data!Submit(kind, s, todo)
      <4>1. CASE Data!Add
        <5>1. PICK s \in Sources, kind \in {"file", "add"}, todo \in {{}, {Agent}} : Data!Submit(kind, s, todo \X {s})
          BY <4>1 DEF Data!Add
        <5>2. todo \X {s} \in SUBSET Links
          BY <5>1 DEF Links
        <5> QED
          BY <5>1, <5>2
      <4>2. CASE Data!DeleteListed \/ Data!DetachListed
        <5>1. {} \in SUBSET Links
          OBVIOUS
        <5> QED
          BY <4>2, <5>1 DEF Data!DeleteListed, Data!DetachListed, Data!Listed, Data!Attached
      <4>3. CASE Data!AttachSources
        <5>1. PICK ss \in SUBSET Sources : Data!Submit("attach", "none", {Agent} \X ss)
          BY <4>3 DEF Data!AttachSources, Data!Listed, Data!NoSource
        <5>2. {Agent} \X ss \in SUBSET Links
          BY DEF Links
        <5> QED
          BY <5>1, <5>2
      <4>4. CASE Data!AttachToAgents
        <5>1. PICK s \in Sources, as \in SUBSET Agents : Data!Submit("attachAll", s, as \X {s})
          BY <4>4 DEF Data!AttachToAgents, Data!Listed
        <5>2. as \X {s} \in SUBSET Links
          BY DEF Links
        <5> QED
          BY <5>1, <5>2
      <4> QED
        BY <2>6, <4>1, <4>2, <4>3, <4>4
    <3> QED
      BY <3>1, SubmitKeeps
  <2>7. ASSUME status' \in [Sources -> Statuses], links' \in SUBSET Links,
               sheet' = [sheet EXCEPT !.pc = sheet'.pc], sheet'.pc \in {"put", "link", "done"}, sheet.kind # "attach",
               UNCHANGED <<library, sourceAgent, preview, sheetFailed>>
        PROVE  Inv'
    <3>1. DataTypes'
      BY <2>7 DEF DataTypes
    <3>2. ListsFit'
      BY <2>7 DEF ListsFit, Clean
    <3>3. sheet'.kind = sheet.kind
      BY <2>7 DEF DataTypes
    <3> QED
      BY <2>7, <3>1, <3>2, <3>3 DEF AttachesAsItGoes, PreviewFits
  <2>8. ASSUME sheet' = Data!Closed, UNCHANGED <<status, links, library, sourceAgent, preview>>,
               \/ sheetFailed' = TRUE
               \/ sheet.pc \in {"edit", "sent"} /\ sheetFailed' = sheetFailed
        PROVE  Inv'
    <3>1. sheet' = [kind |-> "none", pc |-> "edit", source |-> "none", todo |-> {}]
      BY <2>8 DEF Data!Closed, Data!NoSource
    <3>2. sheetFailed' \in BOOLEAN
      BY <2>8 DEF DataTypes
    <3>3. DataTypes'
      BY <2>8, <3>1, <3>2 DEF DataTypes
    <3>4. ListsFit'
      BY <2>8, ListsKept DEF Clean
    <3> QED
      BY <2>8, <3>1, <3>3, <3>4 DEF AttachesAsItGoes, PreviewFits
  <2>9. ASSUME Data!Create PROVE Inv'
    <3>1. status' = [status EXCEPT ![sheet.source] = "PENDING"] /\ sheet.kind # "attach"
      BY <2>9 DEF Data!Create
    <3>2. status' \in [Sources -> Statuses]
      BY <2>0, <3>1 DEF Statuses
    <3>3. PICK pc \in {"put", "link"} : sheet' = [sheet EXCEPT !.pc = pc]
      BY <2>9 DEF Data!Create
    <3>4. sheet'.pc = pc
      BY <3>3 DEF DataTypes
    <3> HIDE DEF Inv
    <3> QED
      BY <2>0, <2>7, <2>9, <3>1, <3>2, <3>3, <3>4 DEF Data!Create, Data!queries
  <2>10. ASSUME Data!Complete \/ Data!LinkCreated PROVE Inv'
    <3>1. PICK pc \in {"link", "done"} : sheet' = [sheet EXCEPT !.pc = pc]
      BY <2>10 DEF Data!Complete, Data!LinkCreated
    <3>2. sheet'.pc = pc
      BY <3>1 DEF DataTypes
    <3>3. sheet.kind # "attach" /\ links' \in SUBSET Links
      BY <2>0, <2>10 DEF Data!Complete, Data!LinkCreated, AttachesAsItGoes, DataTypes
    <3>4. UNCHANGED <<status, library, sourceAgent, preview, sheetFailed>>
      BY <2>10 DEF Data!Complete, Data!LinkCreated, Data!queries
    <3> HIDE DEF Inv
    <3> QED
      BY <2>0, <2>7, <3>1, <3>2, <3>3, <3>4
  <2>11. ASSUME Data!AttachNext PROVE Inv'
    <3>1. UNCHANGED <<status, preview, sheetFailed>> /\ sheet.kind = "attach" /\ sheet.pc = "sent"
      BY <2>11 DEF Data!AttachNext, AttachesAsItGoes
    <3>2. PICK l \in sheet.todo :
              \/ /\ links' = links \cup {l} /\ Data!InvalidateKnowledgeAndAgents
                 /\ sheet' = Data!Closed \/ sheet' = [sheet EXCEPT !.todo = sheet.todo \ {l}]
              \/ sheet' = Data!Closed /\ UNCHANGED <<links, library, sourceAgent>>
      BY <2>11 DEF Data!AttachNext, Data!queries
    <3>3. CASE sheet' = Data!Closed /\ UNCHANGED <<links, library, sourceAgent>>
      BY <2>8, <3>1, <3>3
    <3>4. CASE /\ links' = links \cup {l} /\ Data!InvalidateKnowledgeAndAgents
               /\ sheet' = Data!Closed \/ sheet' = [sheet EXCEPT !.todo = sheet.todo \ {l}]
      <4>1. /\ library' \in Queries /\ sourceAgent' \in Queries
            /\ library'.fetch = "sent" /\ sourceAgent'.fetch = "sent"
        BY <2>0, <3>4, QueryFacts, RowsFit DEF Data!InvalidateKnowledgeAndAgents
      <4>2. links' \in SUBSET Links
        BY <2>0, <3>4 DEF DataTypes
      <4>3. sheet' = [kind |-> "none", pc |-> "edit", source |-> "none", todo |-> {}]
            \/ sheet' = [sheet EXCEPT !.todo = sheet.todo \ {l}]
        BY <3>4 DEF Data!Closed, Data!NoSource
      <4>4. DataTypes' /\ AttachesAsItGoes'
        BY <3>1, <4>1, <4>2, <4>3 DEF DataTypes, Queries, AttachesAsItGoes
      <4> QED
        BY <3>1, <4>1, <4>4 DEF ListsFit, PreviewFits
    <3> QED
      BY <3>2, <3>3, <3>4
  <2>12. ASSUME Data!AttachEach PROVE Inv'
    <3> DEFINE fine == {l \in sheet.todo : Data!Attachable(l)}
    <3>1. /\ links' = links \cup fine /\ sheet.kind = "attachAll"
          /\ UNCHANGED <<status, library, sourceAgent, preview>>
      BY <2>12 DEF Data!AttachEach, Data!queries
    <3>2. links' \in SUBSET Links
      BY <2>0, <3>1 DEF DataTypes
    <3>3. CASE fine = sheet.todo
      <4>1. sheet' = [sheet EXCEPT !.pc = "done"] /\ (sheetFailed' <=> sheetFailed)
        BY <2>12, <3>3 DEF Data!AttachEach
      <4>2. sheetFailed' = sheetFailed
        BY <2>12, <3>3, <4>1 DEF Data!AttachEach, DataTypes
      <4>3. sheet'.pc = "done"
        BY <4>1 DEF DataTypes
      <4> HIDE DEF Inv
      <4> QED
        BY <2>0, <2>7, <3>1, <3>2, <4>1, <4>2, <4>3
    <3>4. CASE fine # sheet.todo
      <4>1. sheet' = [kind |-> "none", pc |-> "edit", source |-> "none", todo |-> {}] /\ sheetFailed' = TRUE
        BY <2>12, <3>4 DEF Data!AttachEach, Data!Closed, Data!NoSource
      <4>2. DataTypes'
        BY <3>1, <3>2, <4>1 DEF DataTypes
      <4> QED
        BY <3>1, <4>1, <4>2 DEF ListsFit, Clean, AttachesAsItGoes, PreviewFits
    <3> QED
      BY <3>3, <3>4
  <2>13. ASSUME Data!Remove \/ Data!Detach PROVE Inv'
    <3>1. sheet.kind # "attach" /\ sheet.pc = "sent" /\ UNCHANGED <<library, sourceAgent, preview, sheetFailed>>
      BY <2>13 DEF Data!Remove, Data!Detach, Data!queries
    <3>2. CASE sheet' = Data!Closed /\ UNCHANGED <<status, links>>
      BY <2>8, <3>1, <3>2
    <3>3. CASE /\ sheet' = [sheet EXCEPT !.pc = "done"] /\ links' \subseteq links
               /\ status' = [status EXCEPT ![sheet.source] = "none"] \/ status' = status
      <4>1. status' \in [Sources -> Statuses] /\ links' \in SUBSET Links
        BY <2>0, <3>3 DEF Statuses
      <4>2. sheet'.pc = "done"
        BY <3>3 DEF DataTypes
      <4> HIDE DEF Inv
      <4> QED
        BY <2>0, <2>7, <3>1, <3>3, <4>1, <4>2
    <3> QED
      BY <2>13, <3>2, <3>3 DEF Data!Remove, Data!Detach, Data!server, Data!NoSource
  <2>14. ASSUME Data!Finish PROVE Inv'
    <3>1. UNCHANGED <<status, links, preview, sheetFailed>> /\ Data!InvalidateKnowledgeAndAgents
          /\ sheet' = [kind |-> "none", pc |-> "edit", source |-> "none", todo |-> {}]
      BY <2>14 DEF Data!Finish, Data!server, Data!Closed, Data!NoSource
    <3>2. /\ library' \in Queries /\ sourceAgent' \in Queries
          /\ library'.fetch = "sent" /\ sourceAgent'.fetch = "sent"
      BY <2>0, <3>1, QueryFacts, RowsFit DEF Data!InvalidateKnowledgeAndAgents
    <3>3. DataTypes'
      BY <3>1, <3>2 DEF DataTypes, Queries
    <3> QED
      BY <3>1, <3>2, <3>3 DEF ListsFit, AttachesAsItGoes, PreviewFits
  <2>15. ASSUME Data!FailCall PROVE Inv'
    <3>1. sheetFailed' = TRUE /\ UNCHANGED <<status, links, preview>>
      BY <2>15 DEF Data!FailCall, Data!server
    <3>2. CASE sheet' = Data!Closed /\ UNCHANGED <<library, sourceAgent>>
      BY <2>8, <3>1, <3>2
    <3>3. CASE UNCHANGED sheet /\ library' \in Queries /\ sourceAgent' \in Queries
      <4>1. DataTypes'
        BY <3>1, <3>3 DEF DataTypes, Queries
      <4> QED
        BY <3>1, <3>3, <4>1 DEF ListsFit, Clean, AttachesAsItGoes, PreviewFits
    <3>4. Data!Failed(library) \in Queries /\ Data!Failed(sourceAgent) \in Queries
      BY <2>0, QueryFacts, RowsFit
    <3> HIDE DEF Inv
    <3> QED
      BY <2>0, <2>15, <3>2, <3>3, <3>4 DEF Data!FailCall, Data!queries
  <2>16. ASSUME Data!ClosePreview \/ (\E s \in Sources : Data!Preview(s) \/ Data!UrlAnswered(s)) PROVE Inv'
    <3>1. UNCHANGED <<status, links, library, sourceAgent, sheet, sheetFailed>>
      BY <2>16 DEF Data!ClosePreview, Data!Preview, Data!UrlAnswered, Data!server, Data!queries
    <3> DEFINE Previews == [source : Sources \cup {"none"}, url : Sources \cup {"none"}, asked : SUBSET Sources]
    <3>2. preview' \in Previews /\ PreviewFits'
      <4>1. preview \in Previews /\ PreviewFits
        BY DEF DataTypes
      <4>2. CASE Data!ClosePreview
        BY <4>1, <4>2 DEF Data!ClosePreview, Data!NoSource, PreviewFits
      <4>3. ASSUME NEW s \in Sources, Data!Preview(s) PROVE preview' \in Previews /\ PreviewFits'
        BY <4>1, <4>3 DEF Data!Preview, Data!NoSource, PreviewFits
      <4>4. ASSUME NEW s \in Sources, Data!UrlAnswered(s) PROVE preview' \in Previews /\ PreviewFits'
        <5>1. preview' = [source |-> preview.source, url |-> IF preview.source = s THEN s ELSE preview.url,
                          asked |-> preview.asked \ {s}]
          BY <4>1, <4>4 DEF Data!UrlAnswered
        <5> QED
          BY <4>1, <5>1 DEF PreviewFits
      <4> QED
        BY <2>16, <4>2, <4>3, <4>4
    <3>3. DataTypes'
      BY <3>1, <3>2 DEF DataTypes
    <3>4. ListsFit'
      BY <3>1, ListsKept DEF Clean
    <3> QED
      BY <3>1, <3>2, <3>3, <3>4 DEF AttachesAsItGoes
  <2> HIDE DEF Inv
  <2> QED
    BY <1>2, <2>2, <2>3, <2>4, <2>5, <2>6, <2>9, <2>10, <2>11, <2>12, <2>13, <2>14, <2>15, <2>16
       DEF Data!SourcesNext
<1> QED
  BY <1>1, <1>2 DEF Next, ServicesNext

\* When no sheet is open, no call failed and no answer is awaited, both pages show the
\* links and the statuses that the rows have, or a status that they poll: every mutation
\* ends in the invalidation of each query it made stale.  And the document previewed is the
\* one that was opened.
THEOREM SpecPagesCatchUp == Spec => []PagesCatchUp
<1>1. DataInv => PagesCatchUp
  <2> SUFFICES ASSUME DataInv, part = "data" PROVE Data!PagesCatchUp
    BY DEF PagesCatchUp
  <2>1. DataTypes /\ ListsFit /\ PreviewFits
    BY DEF DataInv
  <2>2. ASSUME sheet = Data!Closed, ~ sheetFailed PROVE Clean
    BY <2>1, <2>2 DEF Clean, Data!Closed, DataTypes
  <2>3. ASSUME Clean, library.fetch = "none"
        PROVE  library.shown.links = links /\ \A s \in Sources : Data!UpToDate(library, s)
    BY <2>1, <2>3 DEF ListsFit, LibraryFits, Fits, Data!UpToDate, Data!NoSource
  <2>4. ASSUME Clean, sourceAgent.fetch = "none"
        PROVE  /\ sourceAgent.shown.links = Data!AgentRows.links
               /\ \A s \in Data!Attached(Data!Rows) : Data!UpToDate(sourceAgent, s)
    BY <2>1, <2>4 DEF ListsFit, AgentFits, Fits, Data!UpToDate, Data!NoSource, Data!AgentRows,
                     Data!Attached, Data!Rows
  <2> QED
    BY <2>1, <2>2, <2>3, <2>4 DEF Data!PagesCatchUp, PreviewFits, Data!NoSource
<1> QED
  BY <1>1, DataStart, DataStep, PTL DEF Spec

-----------------------------------------------------------------------------
(* The page of conversations.                                                *)

InboxTypes ==
    /\ threads \in SUBSET Threads /\ started \in SUBSET Threads /\ threads \subseteq started
    /\ list \in [shown : SUBSET started, fetch : {"none", "sent", "answered"}, got : SUBSET started]
    /\ active \in list.shown \cup {NoThread} /\ selected \in SUBSET list.shown
    /\ dialog \in [ids : SUBSET Threads, active : Threads \cup {NoThread},
                   pc : {"closed", "asked", "sent", "done"}]
    /\ details \in [Threads -> {"none", "sent", "loaded", "error"}]
    /\ failed \in BOOLEAN
\* Unless rows were deleted and the page does not know it, or a call failed, what is
\* listed, or was answered and is not rendered yet, exists.
ListedExist ==
    failed = FALSE /\ dialog.pc # "done" =>
        /\ list.fetch = "none" => list.shown \subseteq threads
        /\ list.fetch = "answered" => list.got \subseteq threads
\* Only threads that were started are opened, and only those that are gone fail.
ErrorsAreGone ==
    \A t \in Threads :
        /\ details[t] # "none" => t \in started
        /\ failed = FALSE /\ details[t] = "error" => t \notin threads
InboxInv == part = "inbox" => InboxTypes /\ ListedExist /\ ErrorsAreGone

\* The page starts with its list asked for, and with no conversation opened.
LEMMA InboxStart == Init => InboxInv
<1> SUFFICES ASSUME Init, part = "inbox" PROVE InboxTypes /\ ListedExist /\ ErrorsAreGone
  BY DEF InboxInv
<1>1. Box!InboxInit
  BY DEF Init
<1>2. /\ threads \in SUBSET Threads /\ started = threads /\ active = NoThread /\ selected = {}
      /\ failed = FALSE
  BY <1>1 DEF Box!InboxInit
<1>3. list = [shown |-> {}, fetch |-> "sent", got |-> {}]
  BY <1>1 DEF Box!InboxInit, Box!Query, Box!Invalidated
<1>4. dialog = [ids |-> {}, active |-> NoThread, pc |-> "closed"]
  BY <1>1 DEF Box!InboxInit, Box!NoDialog
<1>5. details = [t \in Threads |-> "none"]
  BY <1>1 DEF Box!InboxInit
<1>6. InboxTypes
  BY <1>2, <1>3, <1>4, <1>5 DEF InboxTypes
<1> QED
  BY <1>2, <1>3, <1>5, <1>6 DEF ListedExist, ErrorsAreGone

\* A thread that the list holds is opened, and others forgotten or not.
LEMMA OpenedKeeps ==
    ASSUME InboxTypes, ErrorsAreGone, NEW a \in started \cup {NoThread},
           NEW ds \in [Threads -> {"none", "sent", "loaded", "error"}],
           \A t \in Threads : ds[t] \in {"none", details[t]},
           details' = ds \/ details' = Box!Opened(ds, a)
    PROVE  /\ details' \in [Threads -> {"none", "sent", "loaded", "error"}]
           /\ \A t \in Threads : /\ details'[t] # "none" => t \in started
                                 /\ failed = FALSE /\ details'[t] = "error" => t \notin threads
<1>1. details' = ds \/ (details' = [ds EXCEPT ![a] = "sent"] /\ a # NoThread)
  <2>1. CASE a = NoThread \/ ds[a] = "loaded"
    BY <2>1 DEF Box!Opened
  <2>2. CASE ~ (a = NoThread \/ ds[a] = "loaded")
    BY <2>2 DEF Box!Opened
  <2> QED
    BY <2>1, <2>2
<1>2. details' \in [Threads -> {"none", "sent", "loaded", "error"}]
  BY <1>1
<1>3. \A t \in Threads : details'[t] = ds[t] \/ (details'[t] = "sent" /\ t \in started)
  BY <1>1
<1> QED
  BY <1>2, <1>3 DEF ErrorsAreGone

\* Every step of the page of conversations keeps its invariant.
LEMMA InboxStep == ASSUME InboxInv, [Next]_vars PROVE InboxInv'
<1> DEFINE Inv == InboxTypes /\ ListedExist /\ ErrorsAreGone
<1> SUFFICES ASSUME part = "inbox" PROVE Inv'
  BY DEF InboxInv, Next, vars, ServicesNext, services
<1>0. InboxTypes /\ ListedExist /\ ErrorsAreGone
  BY DEF InboxInv
<1>1. CASE UNCHANGED vars
  BY <1>0, <1>1 DEF vars, inbox, InboxTypes, ListedExist, ErrorsAreGone
<1>2. CASE Box!InboxNext
  <2> USE <1>0 DEF InboxTypes, ListedExist, ErrorsAreGone
  <2>1. ASSUME NEW t \in Threads, Box!Chat(t) PROVE Inv'
    BY <2>1 DEF Box!Chat, Box!view
  <2>2. ASSUME NEW t \in Threads, Box!AnswerDetail(t) PROVE Inv'
    BY <2>2 DEF Box!AnswerDetail, Box!rowsOf, Box!view
  <2>3. ASSUME NEW t \in Threads, Box!OpenRow(t) PROVE Inv'
    <3>1. UNCHANGED <<threads, started, list, selected, dialog, failed>> /\ active' = t /\ t \in list.shown
      BY <2>3 DEF Box!OpenRow, Box!rowsOf, Box!Listed
    <3>2. details' = details \/ details' = Box!Opened(details, t)
      BY <2>3 DEF Box!OpenRow
    <3>3. t \in started
      BY <3>1
    <3>4. /\ details' \in [Threads -> {"none", "sent", "loaded", "error"}]
          /\ \A u \in Threads : /\ details'[u] # "none" => u \in started
                                /\ failed = FALSE /\ details'[u] = "error" => u \notin threads
      BY <3>2, <3>3, OpenedKeeps
    <3> QED
      BY <3>1, <3>4
  <2>4. ASSUME Box!AnswerList PROVE Inv'
    BY <2>4 DEF Box!AnswerList, Box!Answered, Box!rowsOf, Box!view
  <2>5. ASSUME Box!RenderList PROVE Inv'
    <3>1. /\ UNCHANGED <<threads, started, dialog, failed>> /\ list.fetch = "answered"
          /\ list' = [list EXCEPT !.fetch = "none", !.shown = list.got]
          /\ selected' = selected \cap list.got
      BY <2>5 DEF Box!RenderList, Box!Rendered, Box!rowsOf
    <3>2. PICK b \in Box!StillActive(list.got, active) :
              active' = b /\ (details' = details \/ details' = Box!Opened(details, b))
      BY <2>5 DEF Box!RenderList, Box!Show
    <3>3. b \in list.got \cup {NoThread}
      BY <3>2 DEF Box!StillActive
    <3>4. b \in started \cup {NoThread}
      BY <3>3
    <3>5. /\ details' \in [Threads -> {"none", "sent", "loaded", "error"}]
          /\ \A u \in Threads : /\ details'[u] # "none" => u \in started
                                /\ failed = FALSE /\ details'[u] = "error" => u \notin threads
      BY <3>2, <3>4, OpenedKeeps
    <3>6. list'.shown = list.got /\ list'.fetch = "none"
      BY <3>1
    <3>7. InboxTypes'
      BY <3>1, <3>2, <3>3, <3>5, <3>6
    <3>8. ListedExist'
      BY <3>1, <3>6
    <3> QED
      BY <3>1, <3>5, <3>7, <3>8
  <2>6. ASSUME Box!Refresh PROVE Inv'
    BY <2>6 DEF Box!Refresh, Box!Invalidated, Box!rowsOf, Box!view
  <2>7. ASSUME Box!ToggleSelectionMode PROVE Inv'
    BY <2>7 DEF Box!ToggleSelectionMode, Box!rowsOf
  <2>8. ASSUME Box!Select PROVE Inv'
    BY <2>8 DEF Box!Select, Box!rowsOf, Box!Listed
  <2>9. ASSUME Box!AskDelete PROVE Inv'
    BY <2>9 DEF Box!AskDelete, Box!rowsOf, Box!view, Box!NoDialog
  <2>10. ASSUME Box!CancelDelete PROVE Inv'
    BY <2>10 DEF Box!CancelDelete, Box!rowsOf, Box!view, Box!NoDialog
  <2>11. ASSUME Box!ConfirmDelete PROVE Inv'
    BY <2>11 DEF Box!ConfirmDelete, Box!rowsOf, Box!view
  <2>12. ASSUME Box!RemoveMany PROVE Inv'
    BY <2>12 DEF Box!RemoveMany, Box!view
  <2>13. ASSUME Box!Deleted PROVE Inv'
    <3> DEFINE kept == [t \in Threads |-> IF t \in dialog.ids THEN "none" ELSE details[t]]
    <3>1. /\ UNCHANGED <<threads, started, failed>> /\ selected' = {}
          /\ list' = [list EXCEPT !.fetch = "sent", !.got = list.shown]
          /\ dialog' = [ids |-> {}, active |-> NoThread, pc |-> "closed"]
      BY <2>13 DEF Box!Deleted, Box!AfterDelete, Box!Invalidated, Box!rowsOf, Box!NoDialog
    <3>2. PICK b : /\ b \in list.shown \cup {NoThread}
                   /\ active' = b /\ details' = Box!Opened(kept, b)
      BY <2>13 DEF Box!Deleted, Box!AfterDelete, Box!Listed, Box!StillActive
    <3>3. b \in started \cup {NoThread}
      BY <3>2
    <3>4. /\ kept \in [Threads -> {"none", "sent", "loaded", "error"}]
          /\ \A t \in Threads : kept[t] \in {"none", details[t]}
      OBVIOUS
    <3> HIDE DEF kept
    <3>5. /\ details' \in [Threads -> {"none", "sent", "loaded", "error"}]
          /\ \A u \in Threads : /\ details'[u] # "none" => u \in started
                                /\ failed = FALSE /\ details'[u] = "error" => u \notin threads
      BY <3>2, <3>3, <3>4, OpenedKeeps
    <3>6. list'.shown = list.shown /\ list'.fetch = "sent"
      BY <3>1
    <3>7. InboxTypes'
      BY <3>1, <3>2, <3>5, <3>6
    <3> QED
      BY <3>1, <3>5, <3>6, <3>7
  <2>14. ASSUME Box!FailCall PROVE Inv'
    BY <2>14 DEF Box!FailCall, Box!rowsOf, Box!view, Box!Failed
  <2> HIDE DEF Inv
  <2> QED
    BY <1>2, <2>1, <2>2, <2>3, <2>4, <2>5, <2>6, <2>7, <2>8, <2>9, <2>10, <2>11, <2>12, <2>13, <2>14
       DEF Box!InboxNext
<1> QED
  BY <1>1, <1>2 DEF Next, ServicesNext

\* Once no deletion is being handled and no answer awaited, and unless a call failed, the
\* open panel and every row that is listed or selected are of conversations that exist.
THEOREM SpecPanelShowsAnExistingThread == Spec => []PanelShowsAnExistingThread
<1>1. InboxInv => PanelShowsAnExistingThread
  BY DEF InboxInv, InboxTypes, ListedExist, ErrorsAreGone, PanelShowsAnExistingThread,
         Box!PanelShowsAnExistingThread, Box!Listed, Box!NoDialog
<1> QED
  BY <1>1, InboxStart, InboxStep, PTL DEF Spec

-----------------------------------------------------------------------------
(* The playground: the form, and the preview.                                *)

FormTypes ==
    LET texts == Texts \cup {Default}
        versions == [text : texts, training : BOOLEAN] IN
    /\ row \in versions
    /\ agent \in [shown : versions, fetch : {"none", "sent", "answered"}, got : versions]
    /\ form \in [value : texts, base : texts]
    /\ save \in [text : texts, pc : {"none", "sent", "done"}]
    /\ saveFailed \in BOOLEAN
\* Until a save is handled the form's base is what the agent has, and so is an answer
\* that will reset it; from then until its answer, the agent has what was saved.
BaseIsSaved ==
    saveFailed = FALSE =>
        /\ save.pc # "done" => form.base = row.text /\ (agent.fetch = "answered" => agent.got.text = row.text)
        /\ save.pc = "done" => row.text = save.text
FormInv == part = "playground" => FormTypes /\ BaseIsSaved

\* The form starts from the instructions that the agent has.
LEMMA FormStart == Init => FormInv
<1> SUFFICES ASSUME Init, part = "playground" PROVE FormTypes /\ BaseIsSaved
  BY DEF FormInv
<1>1. Play!PlaygroundInit
  BY DEF Init
<1>2. /\ row \in [text : Texts, training : BOOLEAN] /\ saveFailed = FALSE
      /\ agent = [shown |-> row, fetch |-> "none", got |-> row]
      /\ form = [value |-> row.text, base |-> row.text]
      /\ save = [text |-> Default, pc |-> "none"]
  BY <1>1 DEF Play!PlaygroundInit, Play!Query, Play!NoSave
<1>3. FormTypes
  BY <1>2 DEF FormTypes
<1> QED
  BY <1>2, <1>3 DEF BaseIsSaved

\* Every step of the form keeps its invariant; a step of the preview touches nothing of it.
LEMMA FormStep == ASSUME FormInv, [Next]_vars PROVE FormInv'
<1> SUFFICES ASSUME part = "playground" PROVE FormTypes' /\ BaseIsSaved'
  BY DEF FormInv, Next, vars, ServicesNext, services
<1>0. FormTypes /\ BaseIsSaved
  BY DEF FormInv
<1>1. ASSUME UNCHANGED Play!settings PROVE FormTypes' /\ BaseIsSaved'
  BY <1>0, <1>1 DEF Play!settings, FormTypes, BaseIsSaved
<1>2. CASE UNCHANGED vars
  BY <1>1, <1>2 DEF vars, playground, Play!settings
<1>3. CASE Play!PlaygroundNext
  <2> USE <1>0 DEF FormTypes, BaseIsSaved
  <2>1. ASSUME Play!Train PROVE FormTypes' /\ BaseIsSaved'
    <3>1. row' = [row EXCEPT !.training = ~ row.training] /\ UNCHANGED <<agent, form, save, saveFailed>>
      BY <2>1 DEF Play!Train
    <3>2. row'.text = row.text
      BY <3>1
    <3>3. FormTypes'
      BY <3>1, ZenonT(30)
    <3>4. BaseIsSaved'
      BY <3>1, <3>2
    <3> HIDE DEF FormTypes, BaseIsSaved
    <3> QED
      BY <3>3, <3>4
  <2>2. ASSUME Play!Poll PROVE FormTypes' /\ BaseIsSaved'
    BY <2>2 DEF Play!Poll, Play!Invalidated
  <2>3. ASSUME Play!AnswerAgent PROVE FormTypes' /\ BaseIsSaved'
    BY <2>3 DEF Play!AnswerAgent, Play!Answered
  <2>4. ASSUME Play!RenderAgent PROVE FormTypes' /\ BaseIsSaved'
    BY <2>4 DEF Play!RenderAgent, Play!Rendered, Play!ResetTo
  <2>5. ASSUME NEW text \in Texts, Play!Edit(text) PROVE FormTypes' /\ BaseIsSaved'
    BY <2>5 DEF Play!Edit
  <2>6. ASSUME Play!Save PROVE FormTypes' /\ BaseIsSaved'
    BY <2>6 DEF Play!Save, Play!NoSave
  <2>7. ASSUME Play!Update PROVE FormTypes' /\ BaseIsSaved'
    BY <2>7 DEF Play!Update
  <2>8. ASSUME Play!Saved PROVE FormTypes' /\ BaseIsSaved'
    BY <2>8 DEF Play!Saved, Play!Invalidated, Play!ResetTo, Play!NoSave
  <2>9. ASSUME Play!FailSettings PROVE FormTypes' /\ BaseIsSaved'
    <3>1. saveFailed' = TRUE /\ UNCHANGED <<row, form>>
      BY <2>9 DEF Play!FailSettings
    <3>2. CASE save' = Play!NoSave /\ UNCHANGED agent
      BY <3>1, <3>2 DEF Play!NoSave
    <3>3. CASE agent' = Play!Failed(agent) /\ UNCHANGED save
      BY <3>1, <3>3 DEF Play!Failed
    <3> QED
      BY <2>9, <3>2, <3>3 DEF Play!FailSettings
  <2>10. ASSUME Play!Send \/ Play!Reset \/ (\E t \in Play!Turns : Play!Meta(t) \/ Play!End(t))
         PROVE  UNCHANGED Play!settings
    BY <2>10 DEF Play!Send, Play!Reset, Play!Cleared, Play!Meta, Play!End, Play!settings
  <2> HIDE DEF FormTypes, BaseIsSaved
  <2> QED
    BY <1>1, <1>3, <2>1, <2>2, <2>3, <2>4, <2>5, <2>6, <2>7, <2>8, <2>9, <2>10 DEF Play!PlaygroundNext
<1> QED
  BY <1>2, <1>3 DEF Next, ServicesNext

\* Unless a save is in flight or failed, a form without unsaved edits shows what the agent
\* has, whatever answers overlapped the saves before.
THEOREM SpecFormShowsSavedAgent == Spec => []FormShowsSavedAgent
<1>1. FormInv => FormShowsSavedAgent
  BY DEF FormInv, FormTypes, BaseIsSaved, FormShowsSavedAgent, Play!FormShowsSavedAgent,
         Play!Dirty, Play!NoSave
<1> QED
  BY <1>1, FormStart, FormStep, PTL DEF Spec

-----------------------------------------------------------------------------

ChatTypes ==
    /\ stream \in [Play!Turns -> [pc : {"idle", "open", "meta", "over"}, sent : Nat, thread : Nat]]
    /\ thread \in Nat /\ turns \in 0 .. MaxTurns
    /\ messages \in SUBSET Play!Turns
    /\ isStreaming \in BOOLEAN
\* One turn streams at a time, and the thread is the one it was sent to until it names one.
OneTurnStreams ==
    \A t \in Play!Turns :
        /\ stream[t].pc \in {"open", "meta"} => isStreaming = TRUE /\ t = turns
        /\ stream[t].pc = "open" => stream[t].sent = thread /\ stream[t].thread = 0
        /\ t > turns => stream[t].pc = "idle" /\ stream[t].thread = 0
ChatInv == part = "playground" => ChatTypes /\ OneTurnStreams /\ Play!PreviewIsOneConversation

\* The preview starts with no turn.
LEMMA ChatStart == Init => ChatInv
<1> SUFFICES ASSUME Init, part = "playground" PROVE ChatTypes /\ OneTurnStreams /\ Play!PreviewIsOneConversation
  BY DEF ChatInv
<1>1. Play!PlaygroundInit
  BY DEF Init
<1>2. /\ stream = [t \in Play!Turns |-> [pc |-> "idle", sent |-> 0, thread |-> 0]]
      /\ messages = {} /\ thread = 0 /\ isStreaming = FALSE /\ turns = 0
  BY <1>1 DEF Play!PlaygroundInit
<1>3. stream \in [Play!Turns -> [pc : {"idle", "open", "meta", "over"}, sent : Nat, thread : Nat]]
  BY <1>2
<1>4. ChatTypes
  <2>1. thread \in Nat /\ turns \in 0 .. MaxTurns
    BY <1>2, TurnsAssumption
  <2>2. messages \in SUBSET Play!Turns /\ isStreaming \in BOOLEAN
    BY <1>2
  <2> QED
    BY <1>3, <2>1, <2>2 DEF ChatTypes
<1> QED
  BY <1>2, <1>4 DEF OneTurnStreams, Play!PreviewIsOneConversation

\* Every step of the preview keeps its invariant; a step of the form touches nothing of it.
LEMMA ChatStep == ASSUME ChatInv, [Next]_vars PROVE ChatInv'
<1> DEFINE Inv == ChatTypes /\ OneTurnStreams /\ Play!PreviewIsOneConversation
<1> SUFFICES ASSUME part = "playground" PROVE Inv'
  BY DEF ChatInv, Next, vars, ServicesNext, services
<1>0. Inv
  BY DEF ChatInv
<1>1. ASSUME UNCHANGED Play!preview PROVE Inv'
  BY <1>0, <1>1 DEF Play!preview, ChatTypes, OneTurnStreams, Play!PreviewIsOneConversation
<1>2. CASE UNCHANGED vars
  BY <1>1, <1>2 DEF vars, playground, Play!preview
<1>3. CASE Play!PlaygroundNext
  <2> USE <1>0, TurnsAssumption DEF ChatTypes, OneTurnStreams, Play!PreviewIsOneConversation, Play!Turns
  <2>1. ASSUME Play!Train \/ Play!Poll \/ Play!AnswerAgent \/ Play!RenderAgent
               \/ (\E text \in Texts : Play!Edit(text))
               \/ Play!Save \/ Play!Update \/ Play!Saved \/ Play!FailSettings
        PROVE  UNCHANGED Play!preview
    BY <2>1 DEF Play!Train, Play!Poll, Play!AnswerAgent, Play!RenderAgent, Play!Edit, Play!Save, Play!Update,
                Play!Saved, Play!FailSettings
  <2>2. ASSUME Play!Send PROVE Inv'
    <3>1. /\ isStreaming = FALSE /\ turns < MaxTurns /\ turns' = turns + 1
          /\ messages' = messages \cup {turns + 1} /\ isStreaming' = TRUE /\ thread' = thread
          /\ stream' = [stream EXCEPT ![turns + 1].pc = "open", ![turns + 1].sent = thread]
      BY <2>2 DEF Play!Send
    <3>9. turns + 1 \in Play!Turns /\ stream[turns + 1].thread = 0
      BY <3>1
    <3>2. \A t \in Play!Turns : t # turns + 1 => stream'[t] = stream[t]
      BY <3>1
    <3>3. stream'[turns + 1].pc = "open" /\ stream'[turns + 1].sent = thread /\ stream'[turns + 1].thread = 0
      BY <3>1, <3>9
    <3>4. ChatTypes'
      BY <3>1, <3>9, SMTT(30)
    <3>5. OneTurnStreams'
      BY <3>1, <3>2, <3>3
    <3>6. Play!PreviewIsOneConversation'
      BY <3>1, <3>2, <3>3
    <3> QED
      BY <3>4, <3>5, <3>6
  <2>3. ASSUME Play!Reset PROVE Inv'
    <3>1. /\ isStreaming = FALSE /\ messages' = {} /\ thread' = 0 /\ isStreaming' = FALSE /\ turns' = turns
      BY <2>3 DEF Play!Reset, Play!Cleared
    <3>2. \A t \in Play!Turns : stream[t].pc \notin {"open", "meta"}
      BY <3>1
    <3>3. stream' = stream
      BY <2>3, <3>1, <3>2 DEF Play!Reset, Play!Cleared
    <3> QED
      BY <3>1, <3>2, <3>3
  <2>4. ASSUME NEW t \in Play!Turns, Play!Meta(t) PROVE Inv'
    <3> DEFINE its == IF stream[t].sent = 0 THEN t ELSE stream[t].sent
    <3>1. /\ stream[t].pc = "open" /\ thread' = its /\ UNCHANGED <<messages, isStreaming, turns>>
          /\ stream' = [stream EXCEPT ![t].pc = "meta", ![t].thread = its]
      BY <2>4 DEF Play!Meta
    <3>2. \A u \in Play!Turns : u # t => stream'[u] = stream[u]
      BY <3>1
    <3>3. stream'[t].pc = "meta" /\ stream'[t].thread = its
      BY <3>1
    <3>4. \A u \in messages : u # t /\ stream[u].thread # 0 => stream[u].thread = its
      BY <3>1
    <3>5. ChatTypes'
      BY <3>1
    <3>6. OneTurnStreams'
      BY <3>1, <3>2, <3>3
    <3>7. Play!PreviewIsOneConversation'
      BY <3>1, <3>2, <3>3, <3>4
    <3> QED
      BY <3>5, <3>6, <3>7
  <2>5. ASSUME NEW t \in Play!Turns, Play!End(t) PROVE Inv'
    <3>1. /\ stream[t].pc \in {"open", "meta"} /\ isStreaming' = FALSE /\ UNCHANGED <<messages, thread, turns>>
          /\ stream' = [stream EXCEPT ![t].pc = "over"]
      BY <2>5 DEF Play!End
    <3>2. \A u \in Play!Turns : u # t => stream'[u] = stream[u]
      BY <3>1
    <3>3. stream'[t].pc = "over" /\ stream'[t].thread = stream[t].thread
      BY <3>1
    <3>4. ChatTypes'
      BY <3>1
    <3>5. OneTurnStreams'
      BY <3>1, <3>2, <3>3
    <3>6. Play!PreviewIsOneConversation'
      BY <3>1, <3>2, <3>3
    <3> QED
      BY <3>4, <3>5, <3>6
  <2> HIDE DEF Inv
  <2> QED
    BY <1>1, <1>3, <2>1, <2>2, <2>3, <2>4, <2>5 DEF Play!PlaygroundNext
<1> QED
  BY <1>2, <1>3 DEF Next, ServicesNext

\* The turns of the preview that named a thread are of the one that the next turn is sent
\* to, whenever the user resets it and however late a stream ends.
THEOREM SpecPreviewIsOneConversation == Spec => []PreviewIsOneConversation
<1>1. ChatInv => PreviewIsOneConversation
  BY DEF ChatInv, PreviewIsOneConversation
<1> QED
  BY <1>1, ChatStart, ChatStep, PTL DEF Spec

-----------------------------------------------------------------------------
(* The workspace of a page.                                                  *)

Rows == [Workspaces -> Slugs \cup {Nothing}]
TabRecords == [slug : Slugs \cup {Nothing, Routes!Home}, goto : Slugs \cup {Nothing, Routes!Home, Routes!Still},
               loaded : BOOLEAN, shown : Rows, fetch : {"none", "sent", "answered"}, got : Rows]
Kinds == {"create", "accept", "rename", "delete"}
Changes == [kind : Kinds \cup {"none"}, of : Workspaces \cup {Nothing},
            slug : Slugs \cup {Nothing}, pc : {"none", "sent", "done"}, here : BOOLEAN]
RouteTypes ==
    /\ slug \in Rows
    /\ tab \in [Tabs -> TabRecords]
    /\ change \in [Tabs -> Changes]
    /\ astray \in BOOLEAN
\* A navigation leaves the page it starts from, and so will the one that a change ends in
\* whose page is still open; a creation or an update may have lost its page.
EndsElsewhere(b, c) ==
    IF c.here
      THEN /\ c.kind \in {"create", "accept"} => b.slug = Nothing /\ c.slug \in Slugs
           /\ c.kind = "rename" => b.slug \in Slugs /\ c.slug \in Slugs \ {b.slug}
           /\ c.kind = "delete" => b.slug \in Slugs
      ELSE c.kind \in {"create", "rename"}
Leaves(b, c) ==
    /\ b.goto # Routes!Still => b.goto # b.slug
    /\ c # Routes!NoChange =>
          /\ b.goto = Routes!Still
          /\ b.slug \in Slugs \cup {Nothing}
          /\ c.kind # "none"
          /\ EndsElsewhere(b, c)
NavigationsLeave == \A t \in Tabs : Leaves(tab[t], change[t])
RouteInv == part = "routes" => RouteTypes /\ NavigationsLeave /\ Routes!ReadyIsStored

\* The workspace of a page is one of the list it renders, found by the page's slug alone.
LEMMA ActiveFacts ==
    ASSUME NEW b \in TabRecords, NEW c \in TabRecords
    PROVE  /\ Routes!Active(b) # Nothing => b.slug \in Slugs
           /\ b.slug = c.slug /\ b.shown = c.shown => Routes!Active(b) = Routes!Active(c)
<1>1. Routes!Active(b) # Nothing => b.slug \in Slugs
  <2> SUFFICES ASSUME Routes!Active(b) # Nothing PROVE b.slug \in Slugs
    OBVIOUS
  <2>1. Routes!Found(b) # {}
    BY DEF Routes!Active
  <2>2. PICK w \in Workspaces : b.slug # Nothing /\ b.shown[w] = b.slug
    BY <2>1 DEF Routes!Found
  <2> QED
    BY <2>2 DEF TabRecords, Rows
<1>2. ASSUME b.slug = c.slug, b.shown = c.shown PROVE Routes!Active(b) = Routes!Active(c)
  <2>1. Routes!Found(b) = Routes!Found(c)
    BY <1>2 DEF Routes!Found
  <2> QED
    BY <2>1 DEF Routes!Active
<1> QED
  BY <1>1, <1>2

\* The initial states: no tab has rendered a workspace, so none is stored as ready.
LEMMA RouteStart == Init => RouteInv
<1> SUFFICES ASSUME Init, part = "routes" PROVE RouteTypes /\ NavigationsLeave /\ Routes!ReadyIsStored
  BY DEF RouteInv
<1>1. Routes!PagesInit
  BY DEF Init
<1>2. slug \in Rows
  BY <1>1 DEF Routes!PagesInit, Rows
<1>3. tab = [t \in Tabs |-> [slug |-> Routes!Home, goto |-> Routes!Still, loaded |-> FALSE,
                             shown |-> Routes!NoRows, fetch |-> "sent", got |-> Routes!NoRows]]
  BY <1>1 DEF Routes!PagesInit
<1>4. change = [t \in Tabs |-> Routes!NoChange]
  BY <1>1 DEF Routes!PagesInit
<1>5. Routes!NoRows \in Rows /\ Routes!NoChange \in Changes
  BY DEF Routes!NoRows, Rows, Routes!NoChange, Changes
<1>6. tab \in [Tabs -> TabRecords] /\ change \in [Tabs -> Changes]
  BY <1>3, <1>4, <1>5 DEF TabRecords
<1>a. astray \in BOOLEAN
  BY <1>1 DEF Routes!PagesInit
<1>7. NavigationsLeave
  BY <1>3, <1>4 DEF NavigationsLeave, Leaves
<1>8. Routes!ReadyIsStored
  BY <1>3, SlugsAssumption DEF Routes!ReadyIsStored, Routes!Home
<1> QED
  BY <1>2, <1>6, <1>a, <1>7, <1>8 DEF RouteTypes

\* The only tab is rendered again: what it stores is its page's workspace.
LEMMA RerenderKeeps ==
    ASSUME \A s, u \in Tabs : s = u,
           RouteTypes, NavigationsLeave, Routes!ReadyIsStored, UNCHANGED slug,
           NEW t \in Tabs, NEW b \in TabRecords, NEW c \in Changes, Routes!Rerender(t, b),
           change' = [change EXCEPT ![t] = c], Leaves(b, c),
           b.goto = Routes!Still /\ b.slug = tab[t].slug => tab[t].goto = Routes!Still
    PROVE  RouteTypes' /\ NavigationsLeave' /\ Routes!ReadyIsStored'
<1>1. tab' = [tab EXCEPT ![t] = b] /\ tab'[t] = b /\ change'[t] = c
  BY DEF Routes!Rerender, RouteTypes
<1>2. RouteTypes'
  BY <1>1 DEF RouteTypes, Routes!Rerender
<1>3. NavigationsLeave'
  BY <1>1 DEF NavigationsLeave
<1>4. ASSUME b.goto = Routes!Still, b.slug \in Slugs, b.loaded = TRUE, ~ astray'
      PROVE  stored' = Routes!Active(b)
  <2>1. CASE Routes!EffectsRun(t, b)
    <3>1. stored' = Routes!Synced(b)
      BY <2>1 DEF Routes!Rerender
    <3> QED
      BY <3>1, <1>4 DEF Routes!Synced
  <2>2. CASE ~ Routes!EffectsRun(t, b)
    <3>1. stored' = stored /\ ~ astray
      BY <2>2, <1>4 DEF Routes!Rerender
    <3>2. tab[t].loaded /\ tab[t].slug \in Slugs /\ tab[t].goto = Routes!Still
      BY <1>4, <2>2 DEF Routes!EffectsRun
    <3> QED
      BY <3>1, <3>2, <2>2 DEF Routes!ReadyIsStored, Routes!EffectsRun
  <2> QED
    BY <2>1, <2>2
<1>5. Routes!ReadyIsStored'
  <2> SUFFICES ASSUME NEW u \in Tabs,
                      (tab[u].goto = Routes!Still /\ tab[u].slug \in Slugs /\ tab[u].loaded /\ ~ astray)'
               PROVE stored' = Routes!Active(tab'[u])
    BY DEF Routes!ReadyIsStored, Routes!Active, Routes!Found
  <2>1. u = t
    OBVIOUS
  <2>2. b.goto = Routes!Still /\ b.slug \in Slugs /\ b.loaded = TRUE
    BY <2>1, <1>1 DEF TabRecords
  <2> QED
    BY <2>1, <2>2, <1>1, <1>4
<1> QED
  BY <1>2, <1>3, <1>5

\* The only tab's list or its change is touched; what it renders is not.
LEMMA QuietKeeps ==
    ASSUME \A s, u \in Tabs : s = u,
           RouteTypes, NavigationsLeave, Routes!ReadyIsStored, slug' \in Rows,
           NEW t \in Tabs, NEW b \in TabRecords, NEW c \in Changes,
           tab' = [tab EXCEPT ![t] = b], change' = [change EXCEPT ![t] = c], Leaves(b, c),
           b.slug = tab[t].slug, b.shown = tab[t].shown, b.loaded = tab[t].loaded,
           astray' \in BOOLEAN,
           b.goto = Routes!Still =>
               tab[t].goto = Routes!Still /\ (astray' \/ UNCHANGED <<stored, astray>>)
    PROVE  RouteTypes' /\ NavigationsLeave' /\ Routes!ReadyIsStored'
<1>1. tab'[t] = b /\ change'[t] = c
  BY DEF RouteTypes
<1>2. RouteTypes'
  BY DEF RouteTypes
<1>3. NavigationsLeave'
  BY <1>1 DEF NavigationsLeave
<1>4. Routes!Active(b) = Routes!Active(tab[t])
  BY ActiveFacts DEF RouteTypes
<1>5. Routes!ReadyIsStored'
  <2> SUFFICES ASSUME NEW u \in Tabs,
                      (tab[u].goto = Routes!Still /\ tab[u].slug \in Slugs /\ tab[u].loaded /\ ~ astray)'
               PROVE stored' = Routes!Active(tab'[u])
    BY DEF Routes!ReadyIsStored, Routes!Active, Routes!Found
  <2>1. u = t
    OBVIOUS
  <2> QED
    BY <2>1, <1>1, <1>4 DEF Routes!ReadyIsStored
<1> QED
  BY <1>2, <1>3, <1>5

\* Every step of a single tab keeps the invariant.
LEMMA RouteStep ==
    ASSUME \A s, u \in Tabs : s = u, RouteInv, [Next]_vars
    PROVE  RouteInv'
<1> DEFINE Inv == RouteTypes /\ NavigationsLeave /\ Routes!ReadyIsStored
<1> SUFFICES ASSUME part = "routes" PROVE Inv'
  BY DEF RouteInv, Next, vars, ServicesNext, services
<1>0. RouteTypes /\ NavigationsLeave /\ Routes!ReadyIsStored
  BY DEF RouteInv
<1>1. ASSUME UNCHANGED <<slug, stored, astray, tab, change>> PROVE Inv'
  BY <1>0, <1>1 DEF RouteTypes, NavigationsLeave, Routes!ReadyIsStored, Routes!Active, Routes!Found
<1>2. CASE UNCHANGED vars
  BY <1>1, <1>2 DEF vars, routes
<1>3. CASE Routes!PagesNext
  <2>1. PICK t \in Tabs :
            \/ Routes!AnswerList(t) \/ Routes!RenderList(t) \/ Routes!Mount(t) \/ Routes!Switch(t)
            \/ Routes!Arrive(t) \/ Routes!Redirect(t) \/ Routes!Join(t) \/ Routes!Rename(t) \/ Routes!Delete(t)
            \/ Routes!Handle(t) \/ Routes!Answer(t) \/ Routes!Send(t)
            \/ \E w \in Workspaces : Routes!Replay(t, w) \/ Routes!AnswerCall(t, w)
    BY <1>3 DEF Routes!PagesNext
  <2> DEFINE b == tab[t]
             c == change[t]
  <2>2. b \in TabRecords /\ c \in Changes /\ Leaves(b, c) /\ slug \in Rows
    BY <1>0 DEF RouteTypes, NavigationsLeave
  <2>3. tab = [tab EXCEPT ![t] = b] /\ change = [change EXCEPT ![t] = c]
    BY <1>0 DEF RouteTypes
  <2>4. CASE Routes!AnswerList(t)
    <3> DEFINE n == [b EXCEPT !.fetch = "answered", !.got = slug]
    <3>1. tab' = [tab EXCEPT ![t] = n] /\ UNCHANGED <<slug, stored, astray, change>>
      BY <2>4 DEF Routes!AnswerList, Routes!Answered, Routes!server
    <3>2. /\ n \in TabRecords /\ n.slug = b.slug /\ n.shown = b.shown /\ n.loaded = b.loaded
          /\ n.goto = b.goto
      BY <2>2 DEF TabRecords
    <3>3. Leaves(n, c) /\ change' = [change EXCEPT ![t] = c] /\ slug' \in Rows
      BY <2>2, <2>3, <3>1, <3>2 DEF Leaves, EndsElsewhere
    <3>4. astray' \in BOOLEAN
      BY <1>0, <3>1 DEF RouteTypes
    <3> HIDE DEF n, c
    <3> QED
      BY <1>0, <2>2, <3>1, <3>2, <3>3, <3>4, QuietKeeps
  <2>5. CASE Routes!RenderList(t)
    <3> DEFINE n == [Routes!Rendered(b) EXCEPT !.loaded = TRUE]
    <3>1. Routes!Rerender(t, n) /\ UNCHANGED <<slug, change>>
      BY <2>5 DEF Routes!RenderList, Routes!server
    <3>2. n = [b EXCEPT !.fetch = "none", !.shown = b.got, !.loaded = TRUE]
      BY <2>2 DEF Routes!Rendered, TabRecords
    <3>3. n \in TabRecords /\ n.slug = b.slug /\ n.goto = b.goto
      BY <2>2, <3>2 DEF TabRecords
    <3>4. Leaves(n, c)
      BY <2>2, <3>3 DEF Leaves, EndsElsewhere
    <3> HIDE DEF n
    <3>5. change' = [change EXCEPT ![t] = c]
      BY <2>3, <3>1
    <3> QED
      BY <1>0, <2>2, <3>1, <3>3, <3>4, <3>5, RerenderKeeps
  <2>6. CASE Routes!Mount(t)
    <3>1. stored' = Routes!Active(b) /\ astray' = FALSE /\ UNCHANGED <<slug, tab, change>>
      BY <2>6 DEF Routes!Mount, Routes!Synced, Routes!server
    <3>2. Routes!ReadyIsStored'
      <4> SUFFICES ASSUME NEW u \in Tabs PROVE stored' = Routes!Active(tab'[u])
        BY DEF Routes!ReadyIsStored, Routes!Active, Routes!Found
      <4>1. u = t
        OBVIOUS
      <4> QED
        BY <3>1, <4>1
    <3> QED
      BY <1>0, <3>1, <3>2 DEF RouteTypes, NavigationsLeave
  <2>7. ASSUME NEW s \in Slugs \cup {Nothing}, s # b.slug, b.goto = Routes!Still, NEW d \in Changes,
               d = Routes!NoChange \/ (d.kind \in {"create", "rename"} /\ d.here = FALSE),
               change' = [change EXCEPT ![t] = d],
               Routes!Rerender(t, [b EXCEPT !.slug = s]), UNCHANGED slug
        PROVE  Inv'
    <3> DEFINE n == [b EXCEPT !.slug = s]
    <3>1. n \in TabRecords /\ n.slug = s /\ n.goto = b.goto
      BY <2>2, <2>7 DEF TabRecords
    <3>2. Leaves(n, d)
      BY <2>7, <3>1 DEF Leaves, EndsElsewhere
    <3> HIDE DEF n
    <3> QED
      BY <1>0, <2>7, <3>1, <3>2, RerenderKeeps DEF n
  <2>8. CASE Routes!Switch(t)
    <3> DEFINE d == IF c = Routes!NoChange THEN c ELSE [c EXCEPT !.here = FALSE]
    <3>1. PICK s \in ({b.shown[w] : w \in Workspaces} \cup {Nothing}) \ {b.slug} :
              Routes!Rerender(t, [b EXCEPT !.slug = s])
      BY <2>8 DEF Routes!Switch
    <3>2. s \in Slugs \cup {Nothing} /\ s # b.slug
      BY <2>2, <3>1 DEF TabRecords, Rows
    <3>3. b.goto = Routes!Still /\ c.kind \notin {"accept", "delete"} /\ slug' = slug
      BY <2>8 DEF Routes!Switch, Routes!server
    <3>4. change' = [change EXCEPT ![t] = d]
      BY <2>8, <2>3 DEF Routes!Switch
    <3>5. d \in Changes /\ (d = Routes!NoChange \/ (d.kind = c.kind /\ d.here = FALSE))
      BY <2>2 DEF Changes
    <3>6. c # Routes!NoChange => c.kind \in {"create", "rename"}
      BY <2>2, <3>3 DEF Leaves, Changes, Kinds
    <3>7. d = Routes!NoChange \/ (d.kind \in {"create", "rename"} /\ d.here = FALSE)
      BY <3>5, <3>6
    <3> HIDE DEF d, c
    <3> QED
      BY <2>7, <3>1, <3>2, <3>3, <3>4, <3>5, <3>7
  <2>9. CASE Routes!Redirect(t)
    <3>1. b.slug = Routes!Home /\ b.goto = Routes!Still /\ UNCHANGED <<slug, change>>
      BY <2>9 DEF Routes!Redirect, Routes!server
    <3>2. PICK s \in {b.shown[w] : w \in Workspaces} \cup {Nothing} : Routes!Rerender(t, [b EXCEPT !.slug = s])
      BY <2>9 DEF Routes!Redirect
    <3>3. s \in Slugs \cup {Nothing}
      BY <2>2, <3>2 DEF TabRecords, Rows
    <3>4. b.slug \notin Slugs \cup {Nothing}
      BY <3>1, SlugsAssumption DEF Routes!Home
    <3>5. c = Routes!NoChange
      BY <2>2, <3>4 DEF Leaves
    <3>6. change' = [change EXCEPT ![t] = c]
      BY <2>3, <3>1
    <3> HIDE DEF c
    <3> QED
      BY <2>2, <2>7, <3>1, <3>2, <3>3, <3>4, <3>5, <3>6
  <2>10. CASE Routes!Arrive(t)
    <3> DEFINE n == [b EXCEPT !.slug = b.goto, !.goto = Routes!Still]
    <3>1. b.goto # Routes!Still /\ Routes!Rerender(t, n) /\ UNCHANGED <<slug, change>>
      BY <2>10 DEF Routes!Arrive, Routes!server
    <3>2. n \in TabRecords /\ n.slug = b.goto /\ n.goto = Routes!Still
      BY <2>2, <3>1 DEF TabRecords
    <3>3. b.goto # b.slug /\ c = Routes!NoChange
      BY <2>2, <3>1 DEF Leaves
    <3>4. Leaves(n, c) /\ change' = [change EXCEPT ![t] = c]
      BY <2>3, <3>1, <3>2, <3>3 DEF Leaves
    <3> HIDE DEF n
    <3> QED
      BY <1>0, <2>2, <3>1, <3>2, <3>3, <3>4, RerenderKeeps
  <2>11. ASSUME NEW kind \in Kinds, NEW w \in Workspaces, NEW s \in Slugs \cup {Nothing},
                Routes!Submit(t, kind, w, s),
                kind \in {"create", "accept"} => b.slug = Nothing /\ s \in Slugs,
                kind = "rename" => b.slug \in Slugs /\ s \in Slugs \ {b.slug},
                kind = "delete" => b.slug \in Slugs
         PROVE  Inv'
    <3> DEFINE n == [kind |-> kind, of |-> w, slug |-> s, pc |-> "sent", here |-> TRUE]
    <3>1. /\ b.goto = Routes!Still /\ change' = [change EXCEPT ![t] = n]
          /\ UNCHANGED <<slug, stored, astray, tab>>
      BY <2>11 DEF Routes!Submit
    <3>2. n \in Changes /\ Leaves(b, n)
      BY <2>11, <3>1 DEF Changes, Kinds, Leaves, EndsElsewhere
    <3>3. tab' = [tab EXCEPT ![t] = b] /\ slug' \in Rows /\ astray' \in BOOLEAN
      BY <1>0, <2>2, <2>3, <3>1 DEF RouteTypes
    <3> HIDE DEF n
    <3> QED
      BY <1>0, <2>2, <3>1, <3>2, <3>3, QuietKeeps
  <2>12. CASE Routes!Join(t)
    <3>1. PICK kind \in {"create", "accept"}, w \in Workspaces, s \in Slugs :
              b.slug = Nothing /\ Routes!Submit(t, kind, w, s)
      BY <2>12 DEF Routes!Join
    <3> QED
      BY <2>11, <3>1 DEF Kinds
  <2>13. CASE Routes!Rename(t) \/ Routes!Delete(t)
    <3>1. Routes!Active(b) # Nothing
      BY <2>13 DEF Routes!Rename, Routes!Delete
    <3>2. b.slug \in Slugs
      BY <2>2, <3>1, ActiveFacts
    <3>3. Routes!Active(b) \in Workspaces
      <4>1. Routes!Found(b) # {} /\ Routes!Found(b) \subseteq Workspaces
        BY <3>1 DEF Routes!Active, Routes!Found
      <4> QED
        BY <4>1 DEF Routes!Active
    <3>4. CASE Routes!Rename(t)
      <4>1. PICK s \in Slugs \ {b.slug} : Routes!Submit(t, "rename", Routes!Active(b), s)
        BY <3>4 DEF Routes!Rename
      <4> QED
        BY <2>11, <3>2, <3>3, <4>1 DEF Kinds
    <3>5. CASE Routes!Delete(t)
      <4>1. Routes!Submit(t, "delete", Routes!Active(b), Nothing)
        BY <3>5 DEF Routes!Delete
      <4> QED
        BY <2>11, <3>2, <3>3, <4>1 DEF Kinds
    <3> QED
      BY <2>13, <3>4, <3>5
  <2>14. CASE Routes!Handle(t)
    <3>1. c.pc = "sent" /\ UNCHANGED <<stored, astray, tab>> /\ astray \in BOOLEAN
      BY <2>14, <1>0 DEF Routes!Handle, RouteTypes
    <3>2. tab' = [tab EXCEPT ![t] = b]
      BY <2>3, <3>1
    <3>3. CASE slug' = slug /\ change' = [change EXCEPT ![t] = Routes!NoChange]
      <4>1. Routes!NoChange \in Changes /\ Leaves(b, Routes!NoChange)
        BY <2>2 DEF Routes!NoChange, Changes, Leaves
      <4> QED
        BY <1>0, <2>2, <3>1, <3>2, <3>3, <4>1, QuietKeeps
    <3>4. CASE slug' = [slug EXCEPT ![c.of] = c.slug] /\ change' = [change EXCEPT ![t].pc = "done"]
      <4> DEFINE n == [c EXCEPT !.pc = "done"]
      <4>1. /\ n \in Changes /\ n.kind = c.kind /\ n.slug = c.slug /\ n.pc = "done"
            /\ n.here = c.here
        BY <2>2 DEF Changes
      <4>2. change' = [change EXCEPT ![t] = n]
        BY <3>4, <1>0 DEF RouteTypes
      <4>3. c # Routes!NoChange
        BY <3>1 DEF Routes!NoChange
      <4>4. Leaves(b, n)
        BY <2>2, <4>1, <4>3 DEF Leaves, EndsElsewhere
      <4>5. slug' \in Rows
        BY <2>2, <3>4 DEF Rows, Changes
      <4> HIDE DEF n
      <4> QED
        BY <1>0, <2>2, <3>1, <3>2, <4>1, <4>2, <4>4, <4>5, QuietKeeps
    <3> QED
      BY <2>14, <3>3, <3>4 DEF Routes!Handle
  <2>15. CASE Routes!Answer(t)
    <3> DEFINE to == IF ~ c.here THEN b.goto ELSE IF c.kind = "delete" THEN Routes!Home ELSE c.slug
               n == [Routes!Invalidated(b) EXCEPT !.goto = to]
    <3>1. c.pc = "done" /\ slug' = slug /\ tab' = [tab EXCEPT ![t] = n]
          /\ change' = [change EXCEPT ![t] = Routes!NoChange]
      BY <2>15 DEF Routes!Answer, Routes!server
    <3>2. c # Routes!NoChange
      BY <3>1 DEF Routes!NoChange
    <3>3. b.goto = Routes!Still /\ EndsElsewhere(b, c) /\ c.kind \in Kinds
      BY <2>2, <3>2 DEF Leaves, Changes
    <3>4. IF c.here THEN to \in Slugs \cup {Routes!Home} /\ to # b.slug ELSE to = Routes!Still
      BY <2>2, <3>3, SlugsAssumption DEF EndsElsewhere, Kinds, Routes!Home
    <3>5. c.here => to # Routes!Still
      BY <3>4, SlugsAssumption DEF Routes!Home, Routes!Still
    <3>6. /\ astray' \in BOOLEAN
          /\ ~ c.here => astray' \/ UNCHANGED <<stored, astray>>
      BY <1>0, <2>2, <2>15 DEF Routes!Answer, RouteTypes, Changes
    <3> HIDE DEF to
    <3>7. n = [b EXCEPT !.fetch = "sent", !.got = b.shown, !.goto = to]
      BY <2>2 DEF Routes!Invalidated, TabRecords
    <3>8. /\ n \in TabRecords /\ n.slug = b.slug /\ n.shown = b.shown /\ n.loaded = b.loaded
          /\ n.goto = to
      BY <2>2, <3>4, <3>7 DEF TabRecords
    <3> HIDE DEF n
    <3>9. Leaves(n, Routes!NoChange) /\ Routes!NoChange \in Changes
      BY <3>4, <3>8 DEF Leaves, Routes!NoChange, Changes
    <3>10. n.goto = Routes!Still => b.goto = Routes!Still /\ (astray' \/ UNCHANGED <<stored, astray>>)
      BY <3>3, <3>5, <3>6, <3>8
    <3>11. slug' \in Rows
      BY <2>2, <3>1
    <3> HIDE DEF b, c
    <3> QED
      BY <1>0, <3>1, <3>6, <3>8, <3>9, <3>10, <3>11, QuietKeeps DEF b
  <2>16. CASE Routes!Send(t) \/ (\E w \in Workspaces : Routes!Replay(t, w) \/ Routes!AnswerCall(t, w))
    <3>1. UNCHANGED <<slug, stored, astray, tab, change>>
      BY <2>16 DEF Routes!Send, Routes!Replay, Routes!AnswerCall, Routes!server
    <3> QED
      BY <1>1, <3>1
  <2> HIDE DEF Inv
  <2> QED
    BY <2>1, <2>4, <2>5, <2>6, <2>8, <2>9, <2>10, <2>12, <2>13, <2>14, <2>15, <2>16
<1> QED
  BY <1>2, <1>3 DEF Next, ServicesNext

\* With one tab a page that is ready has its own workspace in the store that the calls of
\* its children read.  With two the store is the last tab's: the run WorkspaceHeader shows
\* what is sent then, and MCDashboard's run has one.
THEOREM OneTabReadyIsStored ==
    ASSUME \A s, u \in Tabs : s = u
    PROVE  Spec => []ReadyIsStored
<1>1. RouteInv => ReadyIsStored
  BY DEF RouteInv, ReadyIsStored
<1>2. RouteInv /\ [Next]_vars => RouteInv'
  BY RouteStep
<1> QED
  BY <1>1, <1>2, RouteStart, PTL DEF Spec

-----------------------------------------------------------------------------
(* The page of members.                                                      *)

Roles == {"none", "OWNER", "ADMIN", "MEMBER"}
TeamTypes ==
    /\ me \in Staff!People
    /\ member \in [Staff!People -> [role : Roles, row : Nat]]
    /\ members \in [Staff!People -> [role : Roles, row : Nat]]
    /\ rank \in Roles
    /\ call \in [kind : {"none", "remove", "invite", "resend", "cancel"}, user : Staff!People, row : Nat,
                 rank : Roles, end : {"none", "done", "gone", "rank"}, behind : BOOLEAN]
\* A row that was listed is behind by whole rows only: while it lives its role stays.
ListBehindByRows ==
    \A u \in Staff!People :
        /\ members[u].row <= member[u].row
        /\ members[u].row = member[u].row /\ members[u].role # "none" /\ member[u].role # "none"
               => members[u].role = member[u].role
\* A call was offered to a manager, and a removal for a row that this rank may remove.
AskedAsAllowed ==
    /\ call.kind # "none" => call.rank \in Staff!Managers
    /\ call.kind = "remove" =>
          /\ call.user # me
          /\ call.row <= member[call.user].row
          /\ member[call.user].row = call.row /\ member[call.user].role # "none" =>
                /\ member[call.user].role # "OWNER"
                /\ member[call.user].role = "ADMIN" => call.rank = "OWNER"
TeamInv ==
    part = "team" => TeamTypes /\ ListBehindByRows /\ AskedAsAllowed /\ Staff!RefusedForRankOnlyIfBehind

\* The page starts from an answer that has every member as the row is.
LEMMA TeamStart == Init => TeamInv
<1> SUFFICES ASSUME Init, part = "team"
             PROVE TeamTypes /\ ListBehindByRows /\ AskedAsAllowed /\ Staff!RefusedForRankOnlyIfBehind
  BY DEF TeamInv
<1>1. Staff!TeamInit
  BY DEF Init
<1>2. /\ me \in Staff!People
      /\ member \in [Staff!People -> [role : {"OWNER", "ADMIN", "MEMBER"}, row : {1}]]
      /\ members = member /\ rank = member[me].role
  BY <1>1 DEF Staff!TeamInit
<1>3. call = [kind |-> "none", user |-> Owner, row |-> 0, rank |-> "none", end |-> "none", behind |-> FALSE]
  BY <1>1 DEF Staff!TeamInit, Staff!NoCall
<1>4. TeamTypes
  BY <1>2, <1>3 DEF TeamTypes, Roles, Staff!People
<1>5. ListBehindByRows
  BY <1>2 DEF ListBehindByRows
<1> QED
  BY <1>3, <1>4, <1>5 DEF AskedAsAllowed, Staff!RefusedForRankOnlyIfBehind

\* A call that ends: nothing of it is left but how it ended.
Over(how, behind) == [kind |-> "none", user |-> Owner, row |-> 0, rank |-> "none", end |-> how, behind |-> behind]
\* A call that ends keeps the invariant, if a refusal for a rank is of a page that is behind.
LEMMA EndsKeeps ==
    ASSUME TeamTypes, ListBehindByRows, UNCHANGED <<me, member, rank, members>>,
           NEW how \in {"done", "gone", "rank"}, NEW behind \in BOOLEAN,
           Staff!Ends(how, behind), how = "rank" => behind
    PROVE  (TeamTypes /\ ListBehindByRows /\ AskedAsAllowed /\ Staff!RefusedForRankOnlyIfBehind)'
<1>1. call' = Over(how, behind)
  BY DEF Staff!Ends, Staff!NoCall, Over
<1>2. TeamTypes'
  BY <1>1 DEF TeamTypes, Over, Roles, Staff!People
<1>3. ListBehindByRows'
  BY DEF ListBehindByRows
<1> QED
  BY <1>1, <1>2, <1>3 DEF Over, AskedAsAllowed, Staff!RefusedForRankOnlyIfBehind

\* A call is refused for a rank only when the page offered it for another.
LEMMA RefusedKeeps ==
    ASSUME TeamTypes, ListBehindByRows, UNCHANGED <<me, member, rank, members>>,
           NEW permitted \in BOOLEAN, Staff!Refused(permitted),
           permitted \/ Staff!MyRank = "none" \/ call.rank # Staff!MyRank
    PROVE  (TeamTypes /\ ListBehindByRows /\ AskedAsAllowed /\ Staff!RefusedForRankOnlyIfBehind)'
<1>1. CASE Staff!MyRank = "none" \/ permitted
  <2>1. PICK behind \in BOOLEAN : Staff!Ends("gone", behind)
    BY <1>1 DEF Staff!Refused
  <2> QED
    BY <2>1, EndsKeeps
<1>2. CASE ~ (Staff!MyRank = "none" \/ permitted)
  <2>1. Staff!Ends("rank", TRUE)
    BY <1>2 DEF Staff!Refused
  <2> QED
    BY <2>1, EndsKeeps
<1> QED
  BY <1>1, <1>2

\* Every step of the page of members keeps its invariant.
LEMMA TeamStep == ASSUME TeamInv, [Next]_vars PROVE TeamInv'
<1> DEFINE Inv == TeamTypes /\ ListBehindByRows /\ AskedAsAllowed /\ Staff!RefusedForRankOnlyIfBehind
<1> SUFFICES ASSUME part = "team" PROVE Inv'
  BY DEF TeamInv, Next, vars, ServicesNext, services
<1> Inv
  BY DEF TeamInv
<1>1. CASE UNCHANGED vars
  BY <1>1 DEF vars, team, TeamTypes, ListBehindByRows, AskedAsAllowed, Staff!RefusedForRankOnlyIfBehind
<1>2. CASE Staff!TeamNext
  <2> USE DEF TeamTypes, Roles, ListBehindByRows, AskedAsAllowed, Staff!RefusedForRankOnlyIfBehind,
              Staff!server, Staff!Managers
  <2>1. ASSUME Staff!Read PROVE Inv'
    <3>1. UNCHANGED <<me, member, call>>
      BY <2>1 DEF Staff!Read
    <3>2. rank' \in Roles /\ (members' = members \/ members' = member)
      BY <2>1 DEF Staff!Read
    <3> QED
      BY <3>1, <3>2
  <2>2. ASSUME NEW u \in Staff!People, Staff!Accept(u) PROVE Inv'
    <3>1. PICK r \in {"ADMIN", "MEMBER"} :
              member' = [member EXCEPT ![u] = [role |-> r, row |-> member[u].row + 1]]
      BY <2>2 DEF Staff!Accept
    <3>2. UNCHANGED <<me, rank, members, call>>
      BY <2>2 DEF Staff!Accept
    <3>3. \A v \in Staff!People : v # u => member'[v] = member[v]
      BY <3>1
    <3>4. member'[u].row = member[u].row + 1
      BY <3>1
    <3>5. TeamTypes'
      BY <3>1, <3>2
    <3>6. ListBehindByRows'
      BY <3>2, <3>3, <3>4
    <3>7. AskedAsAllowed'
      BY <3>2, <3>3, <3>4
    <3> QED
      BY <3>2, <3>5, <3>6, <3>7
  <2>3. ASSUME NEW u \in Staff!People, Staff!OwnerElsewhere(u) PROVE Inv'
    <3>1. UNCHANGED <<me, rank, members, call>>
      BY <2>3 DEF Staff!OwnerElsewhere
    <3>2. CASE member' = [member EXCEPT ![u].role = "none"]
      <4>1. \A v \in Staff!People : member'[v].row = member[v].row /\ member'[v].role \in {"none", member[v].role}
        BY <3>2
      <4>2. TeamTypes'
        BY <3>1, <3>2
      <4>3. ListBehindByRows'
        BY <3>1, <4>1
      <4>4. AskedAsAllowed'
        BY <3>1, <4>1
      <4> QED
        BY <3>1, <4>2, <4>3, <4>4
    <3>3. CASE UNCHANGED member
      BY <3>1, <3>3
    <3> QED
      BY <2>3, <3>2, <3>3 DEF Staff!OwnerElsewhere
  <2>4. ASSUME NEW u \in Staff!People, Staff!AskRemove(u) PROVE Inv'
    <3>1. /\ rank \in Staff!Managers /\ members[u].role \notin {"none", "OWNER"} /\ u # me
          /\ members[u].role = "ADMIN" => rank = "OWNER"
      BY <2>4 DEF Staff!AskRemove, Staff!CanRemove, Staff!CanManage
    <3>2. call' = [kind |-> "remove", user |-> u, row |-> members[u].row, rank |-> rank,
                   end |-> "none", behind |-> FALSE]
      BY <2>4 DEF Staff!AskRemove, Staff!Ask, Staff!NoCall
    <3>3. UNCHANGED <<me, member, rank, members>>
      BY <2>4 DEF Staff!AskRemove, Staff!Ask
    <3> QED
      BY <3>1, <3>2, <3>3
  <2>5. ASSUME NEW u \in Staff!People, Staff!AskInvite(u) \/ Staff!AskInvitation(u) PROVE Inv'
    <3>1. PICK kind \in {"invite", "resend", "cancel"} : Staff!Ask(kind, u, 0)
      BY <2>5 DEF Staff!AskInvite, Staff!AskInvitation
    <3>2. call' = [kind |-> kind, user |-> u, row |-> 0, rank |-> rank, end |-> "none", behind |-> FALSE]
      BY <3>1 DEF Staff!Ask, Staff!NoCall
    <3>3. UNCHANGED <<me, member, rank, members>> /\ rank \in Staff!Managers
      BY <2>5 DEF Staff!AskInvite, Staff!AskInvitation, Staff!Ask, Staff!CanManage
    <3> QED
      BY <3>2, <3>3
  <2>6. ASSUME Staff!RemoveMember PROVE Inv'
    <3> DEFINE u == call.user
               found == member[u].role # "none" /\ member[u].row = call.row
               permitted == /\ Staff!MyRank \in Staff!Managers
                            /\ found => /\ member[u].role # "OWNER" /\ u # me
                                        /\ member[u].role = "ADMIN" => Staff!MyRank = "OWNER"
    <3>1. UNCHANGED <<me, rank, members>>
      BY <2>6 DEF Staff!RemoveMember, Staff!Remove
    <3>2. call.kind = "remove" /\ u \in Staff!People
      BY <2>6 DEF Staff!RemoveMember, Staff!Remove
    <3>3. CASE permitted /\ found
      <4>1. member' = [member EXCEPT ![u].role = "none"] /\ Staff!Ends("done", FALSE)
        BY <2>6, <3>3 DEF Staff!RemoveMember, Staff!Remove
      <4>2. call' = Over("done", FALSE)
        BY <4>1 DEF Staff!Ends, Staff!NoCall, Over
      <4>3. \A v \in Staff!People : member'[v].row = member[v].row /\ member'[v].role \in {"none", member[v].role}
        BY <4>1, <3>2
      <4>4. TeamTypes'
        BY <3>1, <4>1, <4>2, <3>2 DEF Over, Staff!People
      <4>5. ListBehindByRows'
        BY <3>1, <4>3
      <4> QED
        BY <4>2, <4>4, <4>5 DEF Over
    <3>4. CASE ~ (permitted /\ found)
      <4>1. UNCHANGED member /\ Staff!Refused(permitted)
        BY <2>6, <3>4 DEF Staff!RemoveMember, Staff!Remove
      <4>2. permitted \/ Staff!MyRank = "none" \/ call.rank # Staff!MyRank
        BY <3>2
      <4> QED
        BY <3>1, <4>1, <4>2, RefusedKeeps
    <3> QED
      BY <3>3, <3>4
  <2>7. ASSUME Staff!HandleInvitation PROVE Inv'
    <3>1. UNCHANGED <<me, member, rank, members>>
      BY <2>7 DEF Staff!HandleInvitation
    <3>2. call.rank \in Staff!Managers
      BY <2>7 DEF Staff!HandleInvitation
    <3>3. Staff!Ends("done", FALSE) \/ Staff!Refused(Staff!MyRank \in Staff!Managers)
      BY <2>7 DEF Staff!HandleInvitation
    <3>4. CASE Staff!Ends("done", FALSE)
      BY <3>1, <3>4, EndsKeeps
    <3>5. CASE Staff!Refused(Staff!MyRank \in Staff!Managers)
      <4> DEFINE permitted == Staff!MyRank \in Staff!Managers
      <4>1. permitted \in BOOLEAN /\ (permitted \/ call.rank # Staff!MyRank)
        BY <3>2
      <4>2. Staff!Refused(permitted)
        BY <3>5
      <4> HIDE DEF permitted
      <4> QED
        BY <3>1, <4>1, <4>2, RefusedKeeps
    <3> QED
      BY <3>3, <3>4, <3>5
  <2>8. ASSUME Staff!LoseCall PROVE Inv'
    <3>1. call' = [kind |-> "none", user |-> Owner, row |-> 0, rank |-> "none", end |-> "none", behind |-> FALSE]
      BY <2>8 DEF Staff!LoseCall, Staff!NoCall
    <3>2. UNCHANGED <<me, member, rank, members>>
      BY <2>8 DEF Staff!LoseCall
    <3> QED
      BY <3>1, <3>2 DEF Staff!People
  <2> QED
    BY <1>2, <2>1, <2>2, <2>3, <2>4, <2>5, <2>6, <2>7, <2>8 DEF Staff!TeamNext
<1> QED
  BY <1>1, <1>2 DEF Next, ServicesNext

\* A call that the page of members offers is refused for the caller's rank only when what
\* the page knew was behind the rows.
THEOREM SpecRefusedForRankOnlyIfBehind == Spec => []RefusedForRankOnlyIfBehind
<1>1. TeamInv => RefusedForRankOnlyIfBehind
  BY DEF TeamInv, RefusedForRankOnlyIfBehind
<1> QED
  BY <1>1, TeamStart, TeamStep, PTL DEF Spec

-----------------------------------------------------------------------------
(* The verification of an address.                                           *)

MailTypes ==
    /\ verified \in BOOLEAN
    /\ handler \in [Requests -> [pc : Mail!Pcs, link : MailLinks \cup {NoLink}]]
    /\ drawn \in Seq(MailLinks)
\* What an opening drops is an expired link, and only one of a verified address tidies up.
DeletionsExcused ==
    \A r \in Requests : /\ handler[r].pc = "drop" => handler[r].link \in expired
                        /\ handler[r].pc = "tidy" => verified = TRUE
MailInv == part = "mail" => MailTypes /\ DeletionsExcused /\ Mail!NewestLinkWorks

\* The initial states: no link was drawn and no request is being handled.
LEMMA MailStart == Init => MailInv
<1> SUFFICES ASSUME Init, part = "mail" PROVE MailTypes /\ DeletionsExcused /\ Mail!NewestLinkWorks
  BY DEF MailInv
<1>1. Mail!VerificationInit
  BY DEF Init
<1>2. handler = [r \in Requests |-> [pc |-> "idle", link |-> NoLink]]
  BY <1>1 DEF Mail!VerificationInit, Mail!Free
<1>3. drawn = << >> /\ verified \in BOOLEAN
  BY <1>1 DEF Mail!VerificationInit
<1>5. MailTypes
  BY <1>2, <1>3 DEF MailTypes, Mail!Pcs
<1>4. DeletionsExcused
  BY <1>2 DEF DeletionsExcused
<1> QED
  BY <1>3, <1>4, <1>5 DEF Mail!NewestLinkWorks, Mail!Newest

\* Every step of the verification of an address keeps its invariant.
LEMMA MailStep == ASSUME MailInv, [Next]_vars PROVE MailInv'
<1> DEFINE Inv == MailTypes /\ DeletionsExcused /\ Mail!NewestLinkWorks
<1> SUFFICES ASSUME part = "mail" PROVE Inv'
  BY DEF MailInv, Next, vars, ServicesNext, services
<1>1. CASE UNCHANGED vars
  BY <1>1 DEF MailInv, vars, verification, MailTypes, DeletionsExcused,
             Mail!NewestLinkWorks, Mail!Newest, Mail!Replaced, Mail!Pcs
<1>2. CASE Mail!VerificationNext
  <2> USE <1>2 DEF MailInv, MailTypes, DeletionsExcused, Mail!NewestLinkWorks, Mail!Newest, Mail!Replaced,
                   Mail!Step, Mail!End, Mail!Free, Mail!Pcs, Mail!rows, Mail!mail
  <2>1. ASSUME NEW r \in Requests, Mail!Register(r) PROVE Inv'
    BY <2>1 DEF Mail!Register
  <2>2. ASSUME NEW r \in Requests, Mail!CreateUser(r) PROVE Inv'
    <3>1. CASE Mail!Step(r, "clear")
      BY <2>2, <3>1 DEF Mail!CreateUser
    <3>2. CASE Mail!End(r)
      BY <2>2, <3>2 DEF Mail!CreateUser
    <3> QED
      BY <2>2, <3>1, <3>2 DEF Mail!CreateUser
  <2>3. ASSUME NEW r \in Requests, Mail!Resend(r) PROVE Inv'
    BY <2>3 DEF Mail!Resend
  <2>4. ASSUME NEW r \in Requests, Mail!ClearTokens(r) PROVE Inv'
    <3>1. drawn # << >> => Mail!Newest \in MailLinks
      BY DEF Mail!Last
    <3>2. Mail!Newest \in MailLinks \cup {NoLink} /\ Mail!Newest' = Mail!Newest
      BY <2>4, <3>1 DEF Mail!ClearTokens
    <3>3. handler' = [handler EXCEPT ![r] = [pc |-> "draw", link |-> Mail!Newest]] /\ drawn' = drawn /\ verified' = verified
      BY <2>4 DEF Mail!ClearTokens
    <3> HIDE DEF Mail!Newest
    <3>4. MailTypes' /\ DeletionsExcused'
      BY <2>4, <3>2, <3>3 DEF Mail!ClearTokens
    <3>5. Mail!Replaced(Mail!Newest)'
      BY <3>2, <3>3
    <3> QED
      BY <3>4, <3>5
  <2>5. ASSUME NEW r \in Requests, Mail!CreateToken(r) PROVE Inv'
    <3>1. PICK l \in MailLinks : /\ drawn' = Append(drawn, l)
                                 /\ tokens' = tokens \cup {l}
                                 /\ handler' = [handler EXCEPT ![r] = [pc |-> "enqueue", link |-> l]]
      BY <2>5 DEF Mail!CreateToken
    <3>2. drawn' \in Seq(MailLinks) /\ Mail!Newest' = l
      BY <3>1 DEF Mail!Newest, Mail!Last
    <3> QED
      BY <2>5, <3>1, <3>2 DEF Mail!CreateToken
  <2>6. ASSUME NEW r \in Requests, Mail!Enqueue(r) PROVE Inv'
    BY <2>6 DEF Mail!Enqueue
  <2>7. ASSUME NEW r \in Requests, Mail!DropExpired(r) PROVE Inv'
    BY <2>7 DEF Mail!DropExpired
  <2>8. ASSUME NEW r \in Requests, Mail!Tidy(r) PROVE Inv'
    BY <2>8 DEF Mail!Tidy
  <2>9. ASSUME NEW r \in Requests, Mail!CommitVerified(r) PROVE Inv'
    BY <2>9 DEF Mail!CommitVerified
  <2>10. ASSUME NEW r \in Requests, Mail!CrashHandler(r) PROVE Inv'
    BY <2>10 DEF Mail!CrashHandler
  <2>11. ASSUME NEW r \in Requests, NEW l \in MailLinks, Mail!Open(r, l) PROVE Inv'
    BY <2>11 DEF Mail!Open
  <2>12. ASSUME NEW l \in MailLinks, Mail!Deliver(l) \/ Mail!FailAttempt(l) PROVE Inv'
    BY <2>12 DEF Mail!Deliver, Mail!FailAttempt
  <2>13. ASSUME NEW l \in MailLinks, Mail!Expire(l) PROVE Inv'
    BY <2>13 DEF Mail!Expire
  <2> QED
    BY <2>1, <2>2, <2>3, <2>4, <2>5, <2>6, <2>7, <2>8, <2>9, <2>10, <2>11, <2>12, <2>13
       DEF Mail!VerificationNext
<1> QED
  BY <1>1, <1>2 DEF Next, ServicesNext

\* However registrations, resends and openings overlap, whatever other links expired and
\* whichever handlers died, the token of the link drawn last is there until it expires, the
\* address is verified, or a handler that goes on to draw another, or died there, deleted it.
THEOREM SpecNewestLinkWorks == Spec => []NewestLinkWorks
<1>1. MailInv => NewestLinkWorks
  BY DEF MailInv, NewestLinkWorks
<1> QED
  BY <1>1, MailStart, MailStep, PTL DEF Spec

-----------------------------------------------------------------------------
(* The public API's window of a key.                                         *)

Records == [pc : {"out", "find", "window", "incr", "expire", "ttl", "refused"},
            key : Keys \cup {"none"}, agent : Agents \cup {"none"}, origin : Origins \cup {NoOrigin},
            window : Api!Windows, retryAt : Nat, sure : BOOLEAN]
Counters == [count : Nat, dies : Nat \cup {Api!NoTtl}]
GateTypes ==
    /\ clock \in 0 .. MaxClock
    /\ created \in SUBSET Keys
    /\ counter \in [Keys -> [Api!Windows -> Counters]]
    /\ onTime \in [Keys -> [Api!Windows -> Nat]]
    /\ request \in [Requests -> Records]
\* A counter outlives its window: its expiry is set for a later one.
Outlives(c, w) == c.dies # Api!NoTtl => Api!Window(c.dies) > w
CountersOutlive == \A k \in Keys, w \in Api!Windows : Outlives(counter[k][w], w)
\* What a request inside the guard has read is still so, or behind.
Placed(q) ==
    /\ q.pc \in {"find", "window", "incr", "expire", "ttl"} => q.key \in Keys
    /\ q.pc \in {"incr", "expire", "ttl"} => q.window <= Api!Window(clock)
    /\ q.pc \in {"expire", "ttl"} => counter[q.key][q.window].count > 0
    /\ q.sure = TRUE => q.pc = "refused" /\ Api!Window(q.retryAt + Api!HalfSecond) > q.window
RequestsPlaced == \A r \in Requests : Placed(request[r])
\* While a window lasts its counter holds every request admitted in it, and the one that
\* is between INCR and EXPIRE, of which there is one at most.
Between(q, k, w) == q.pc = "expire" /\ q.key = k /\ q.window = w
Current(w) == Api!Window(clock) <= w
AdmittedAreCounted ==
    \A k \in Keys, w \in Api!Windows :
        /\ onTime[k][w] <= Rpm
        /\ Current(w) =>
            /\ onTime[k][w] <= counter[k][w].count
            /\ \A r \in Requests : Between(request[r], k, w) =>
                  /\ onTime[k][w] < counter[k][w].count /\ onTime[k][w] < Rpm
                  /\ \A s \in Requests : Between(request[s], k, w) => s = r
GateInv == part = "api" => GateTypes /\ CountersOutlive /\ RequestsPlaced /\ AdmittedAreCounted

\* A window is not empty, and half a second does not go back in time.
LEMMA SpanFacts ==
    /\ Api!Span \in Nat \ {0} /\ Api!HalfSecond \in Nat
    /\ 0 \in Api!Windows /\ \A w \in Api!Windows : w \in Nat
<1>1. Api!Span \in Nat \ {0}
  BY RateAssumption DEF Api!Span
<1>2. Api!HalfSecond \in Nat
  BY RateAssumption DEF Api!HalfSecond
<1>3. MaxClock \div Api!Span \in Nat
  BY <1>1, RateAssumption
<1> QED
  BY <1>1, <1>2, <1>3 DEF Api!Windows

\* The number of the window of a time: it grows with the time, by one in the span of a window.
LEMMA WindowFacts ==
    ASSUME NEW s \in Nat, NEW t \in Nat
    PROVE  /\ Api!Window(t) \in Nat
           /\ s <= t => Api!Window(s) <= Api!Window(t)
           /\ Api!Window(s) < Api!Window(t) => s < t
           /\ Api!Window(t + Api!Span) = Api!Window(t) + 1
BY SpanFacts DEF Api!Window

\* The clock is a number.
LEMMA ClockFacts == ASSUME GateTypes PROVE clock \in Nat
BY RateAssumption DEF GateTypes

\* The window of every time up to the bound is one that has a counter.
LEMMA WindowOfClock ==
    ASSUME clock \in 0 .. MaxClock
    PROVE  Api!Window(clock) \in Api!Windows
BY SpanFacts, RateAssumption DEF Api!Window, Api!Windows

\* Counting from now, the seconds that TTL answers end half a second early at most.
LEMMA SecondsFacts ==
    ASSUME NEW t \in Nat
    PROVE  Api!Seconds(t) \in Nat /\ t <= TicksPerSec * Api!Seconds(t) + Api!HalfSecond
<1> DEFINE s == Api!Seconds(t)
<1>1. TicksPerSec \in Nat \ {0} /\ 2 * TicksPerSec \in Nat \ {0} /\ 2 * t + TicksPerSec \in Nat
  BY RateAssumption
<1>2. \A a \in Nat, b \in Nat \ {0} : a \div b \in Nat /\ a < b * (a \div b) + b
  OBVIOUS
<1>3. s \in Nat /\ 2 * t + TicksPerSec < (2 * TicksPerSec) * s + 2 * TicksPerSec
  BY <1>1, <1>2 DEF Api!Seconds
<1> HIDE DEF s
<1>4. PICK p \in Nat : p = TicksPerSec * s
  BY <1>1, <1>3
<1>5. (2 * TicksPerSec) * s = 2 * p
  BY <1>1, <1>3, <1>4
<1>6. 2 * t < 2 * p + TicksPerSec
  BY <1>1, <1>3, <1>4, <1>5
<1>7. t <= p + ((TicksPerSec - 1) \div 2)
  BY <1>1, <1>4, <1>6
<1> QED
  BY <1>3, <1>4, <1>7 DEF s, Api!HalfSecond

\* EXPIRE keeps the count, and leaves a counter that outlives its window.
LEMMA ExpiringFacts ==
    ASSUME NEW c \in Counters, NEW w \in Nat, Outlives(c, w), clock \in Nat, w <= Api!Window(clock)
    PROVE  Api!Expiring(c) \in Counters /\ Api!Expiring(c).count = c.count /\ Outlives(Api!Expiring(c), w)
<1>1. clock + Api!Span \in Nat
  BY SpanFacts
<1>2. Api!Window(clock) \in Nat /\ Api!Window(clock + Api!Span) = Api!Window(clock) + 1
  BY WindowFacts
<1>3. Api!Window(clock + Api!Span) > w
  BY <1>2
<1> QED
  BY <1>1, <1>3 DEF Api!Expiring, Counters, Outlives

\* The initial states: no counter, and no request inside the guard.
LEMMA GateStart == Init => GateInv
<1> SUFFICES ASSUME Init, part = "api"
             PROVE  GateTypes /\ CountersOutlive /\ RequestsPlaced /\ AdmittedAreCounted
  BY DEF GateInv
<1>1. Api!PublicInit
  BY DEF Init
<1>2. /\ created = {} /\ clock = 0
      /\ counter = [k \in Keys |-> [w \in Api!Windows |-> [count |-> 0, dies |-> Api!NoTtl]]]
      /\ onTime = [k \in Keys |-> [w \in Api!Windows |-> 0]]
  BY <1>1 DEF Api!PublicInit
<1>3. request = [r \in Requests |-> [pc |-> "out", key |-> "none", agent |-> "none", origin |-> NoOrigin,
                                     window |-> 0, retryAt |-> 0, sure |-> FALSE]]
  BY <1>1 DEF Api!PublicInit, Api!Outside
<1>4. clock \in 0 .. MaxClock /\ created \in SUBSET Keys /\ 0 \in Api!Windows
  BY <1>2, RateAssumption, SpanFacts
<1>5. request \in [Requests -> Records]
  BY <1>3, <1>4 DEF Records
<1>6. counter \in [Keys -> [Api!Windows -> Counters]] /\ onTime \in [Keys -> [Api!Windows -> Nat]]
  BY <1>2 DEF Counters
<1>7. CountersOutlive
  BY <1>2 DEF CountersOutlive, Outlives
<1>8. RequestsPlaced
  BY <1>3 DEF RequestsPlaced, Placed
<1>9. AdmittedAreCounted
  BY <1>2, <1>3, RateAssumption DEF AdmittedAreCounted, Between
<1> QED
  BY <1>4, <1>5, <1>6, <1>7, <1>8, <1>9 DEF GateTypes

\* A request moves, and the counters do not.
LEMMA RequestMoves ==
    ASSUME GateTypes, CountersOutlive, RequestsPlaced, AdmittedAreCounted,
           NEW r \in Requests, NEW h \in Records, Placed(h), h.pc # "expire",
           request' = [request EXCEPT ![r] = h], UNCHANGED <<created, clock, counter, onTime>>
    PROVE  (GateTypes /\ CountersOutlive /\ RequestsPlaced /\ AdmittedAreCounted)'
<1>1. request'[r] = h /\ \A s \in Requests : s # r => request'[s] = request[s]
  BY DEF GateTypes
<1>2. GateTypes'
  BY DEF GateTypes
<1>3. CountersOutlive'
  BY DEF CountersOutlive
<1>4. RequestsPlaced'
  BY <1>1 DEF RequestsPlaced, Placed
<1>5. AdmittedAreCounted'
  <2>1. \A s \in Requests, k \in Keys, w \in Api!Windows :
            Between(request'[s], k, w) => Between(request[s], k, w)
    BY <1>1 DEF Between
  <2> QED
    BY <2>1 DEF AdmittedAreCounted, Current
<1> QED
  BY <1>2, <1>3, <1>4, <1>5

\* A request changes its window's counter, and is admitted (n is one more) or not.
LEMMA CounterMoves ==
    ASSUME GateTypes, CountersOutlive, RequestsPlaced, AdmittedAreCounted,
           NEW r \in Requests, NEW h \in Records, NEW k \in Keys, NEW w \in Api!Windows,
           NEW c \in Counters, NEW n \in Nat,
           request' = [request EXCEPT ![r] = h],
           counter' = [counter EXCEPT ![k][w] = c],
           onTime' = [onTime EXCEPT ![k][w] = n],
           UNCHANGED <<created, clock>>,
           Outlives(c, w), c.count > 0, n <= Rpm,
           h.pc \in {"out", "expire", "ttl"}, h.sure = FALSE,
           h.pc # "out" => h.key = k /\ h.window = w /\ w <= Api!Window(clock),
           Current(w) =>
              /\ n <= c.count
              /\ h.pc = "expire" => /\ n < c.count /\ n < Rpm
                                    /\ \A s \in Requests : s # r => ~ Between(request[s], k, w)
              /\ \A s \in Requests : s # r /\ Between(request[s], k, w) => n < c.count /\ n < Rpm
    PROVE  (GateTypes /\ CountersOutlive /\ RequestsPlaced /\ AdmittedAreCounted)'
<1>1. request'[r] = h /\ \A s \in Requests : s # r => request'[s] = request[s]
  BY DEF GateTypes
<1>2. /\ counter'[k][w] = c
      /\ \A l \in Keys, v \in Api!Windows : l # k \/ v # w => counter'[l][v] = counter[l][v]
  BY DEF GateTypes
<1>3. /\ onTime'[k][w] = n
      /\ \A l \in Keys, v \in Api!Windows : l # k \/ v # w => onTime'[l][v] = onTime[l][v]
  BY DEF GateTypes
<1>4. GateTypes'
  BY DEF GateTypes
<1>5. CountersOutlive'
  BY <1>2 DEF CountersOutlive, Outlives
<1>6. RequestsPlaced'
  <2> SUFFICES ASSUME NEW s \in Requests PROVE Placed(request[s])'
    BY DEF RequestsPlaced
  <2>1. CASE s = r
    BY <2>1, <1>1, <1>2 DEF Placed
  <2>2. CASE s # r
    <3>1. request'[s] = request[s] /\ Placed(request[s]) /\ request[s] \in Records
      BY <2>2, <1>1 DEF RequestsPlaced, GateTypes
    <3>2. request[s].pc \in {"expire", "ttl"} => counter'[request[s].key][request[s].window].count > 0
      BY <3>1, <1>2 DEF Placed, Records
    <3> QED
      BY <3>1, <3>2 DEF Placed
  <2> QED
    BY <2>1, <2>2
<1>7. AdmittedAreCounted'
  <2> SUFFICES ASSUME NEW l \in Keys, NEW v \in Api!Windows
               PROVE (/\ onTime[l][v] <= Rpm
                      /\ Current(v) =>
                          /\ onTime[l][v] <= counter[l][v].count
                          /\ \A s \in Requests : Between(request[s], l, v) =>
                                /\ onTime[l][v] < counter[l][v].count /\ onTime[l][v] < Rpm
                                /\ \A t \in Requests : Between(request[t], l, v) => t = s)'
    BY DEF AdmittedAreCounted
  <2>1. CASE l = k /\ v = w
    <3>1. Current(w)' => Current(w)
      BY DEF Current
    <3>2. \A s \in Requests : s # r => (Between(request'[s], k, w) <=> Between(request[s], k, w))
      BY <1>1 DEF Between
    <3>3. Between(request'[r], k, w) => h.pc = "expire"
      BY <1>1 DEF Between
    <3>4. Current(w) => \A s, t \in Requests : Between(request[s], k, w) /\ Between(request[t], k, w) => t = s
      BY DEF AdmittedAreCounted
    <3> QED
      BY <2>1, <3>1, <3>2, <3>3, <3>4, <1>2, <1>3
  <2>2. CASE l # k \/ v # w
    <3>1. counter'[l][v] = counter[l][v] /\ onTime'[l][v] = onTime[l][v]
      BY <2>2, <1>2, <1>3
    <3>2. \A s \in Requests : Between(request'[s], l, v) => Between(request[s], l, v)
      BY <2>2, <1>1 DEF Between
    <3>3. Current(v)' => Current(v)
      BY DEF Current
    <3> QED
      BY <3>1, <3>2, <3>3 DEF AdmittedAreCounted
  <2> QED
    BY <2>1, <2>2
<1> QED
  BY <1>4, <1>5, <1>6, <1>7

\* INCR in a window that lasts adds one to the count, and starts a counter only at zero.
LEMMA IncrementedFacts ==
    ASSUME GateTypes, CountersOutlive, NEW k \in Keys, NEW w \in Api!Windows
    PROVE  /\ Api!Incremented(counter[k][w]) \in Counters
           /\ Api!Incremented(counter[k][w]).count > 0
           /\ Outlives(Api!Incremented(counter[k][w]), w)
           /\ Current(w) => Api!Incremented(counter[k][w]).count = counter[k][w].count + 1
<1> DEFINE c == counter[k][w]
<1>1. c \in Counters /\ Outlives(c, w) /\ clock \in Nat /\ w \in Nat
  BY SpanFacts, ClockFacts DEF GateTypes, CountersOutlive
<1>2. CASE Api!Alive(c)
  <2>1. Api!Incremented(c) = [count |-> c.count + 1, dies |-> c.dies]
    BY <1>1, <1>2 DEF Api!Incremented, Counters
  <2> QED
    BY <1>1, <2>1 DEF Counters, Outlives
<1>3. CASE ~ Api!Alive(c)
  <2>1. Api!Incremented(c) = [count |-> 1, dies |-> Api!NoTtl]
    BY <1>3 DEF Api!Incremented
  <2>2. Current(w) => c.count = 0
    <3> SUFFICES ASSUME Current(w), c.count # 0 PROVE FALSE
      OBVIOUS
    <3>1. c.dies # Api!NoTtl /\ c.dies <= clock /\ c.dies \in Nat
      BY <1>1, <1>3 DEF Api!Alive, Counters
    <3>2. Api!Window(c.dies) > w /\ Api!Window(clock) <= w
      BY <1>1, <3>1 DEF Outlives, Current
    <3> QED
      BY <1>1, <3>1, <3>2, WindowFacts
  <2> QED
    BY <1>1, <2>1, <2>2 DEF Counters, Outlives
<1> QED
  BY <1>2, <1>3

\* INCR lets the request proceed or refuses it, or starts a counter whose expiry must be set.
LEMMA IncrKeeps ==
    ASSUME GateTypes, CountersOutlive, RequestsPlaced, AdmittedAreCounted, NEW r \in Requests, Api!Incr(r)
    PROVE  (GateTypes /\ CountersOutlive /\ RequestsPlaced /\ AdmittedAreCounted)'
<1> DEFINE q == request[r]
           k == q.key
           w == q.window
           c == Api!Incremented(counter[k][w])
<1>1. q.pc = "incr" /\ q \in Records /\ k \in Keys /\ w \in Api!Windows /\ w <= Api!Window(clock) /\ q.sure = FALSE
  BY DEF Api!Incr, GateTypes, RequestsPlaced, Placed, Records
<1>2. /\ c \in Counters /\ c.count > 0 /\ Outlives(c, w)
      /\ Current(w) => c.count = counter[k][w].count + 1
  BY <1>1, IncrementedFacts
<1>3. counter' = [counter EXCEPT ![k][w] = c] /\ UNCHANGED <<created, clock>>
  BY DEF Api!Incr, Api!rows
<1>4. onTime[k][w] \in Nat /\ onTime[k][w] <= Rpm /\ counter[k][w].count \in Nat /\ c.count \in Nat
  BY <1>1, <1>2 DEF GateTypes, AdmittedAreCounted, Counters
<1>5. onTime = [onTime EXCEPT ![k][w] = onTime[k][w]]
  BY <1>1 DEF GateTypes
<1>6. Current(w) => /\ onTime[k][w] <= counter[k][w].count
                    /\ \A s \in Requests : Between(request[s], k, w) =>
                          onTime[k][w] < counter[k][w].count /\ onTime[k][w] < Rpm
  BY <1>1 DEF AdmittedAreCounted
<1> HIDE DEF c
<1>7. CASE c.count = 1
  <2> DEFINE h == [q EXCEPT !.pc = "expire"]
             n == onTime[k][w]
  <2>1. request' = [request EXCEPT ![r] = h] /\ onTime' = onTime
    BY <1>7, <1>1 DEF Api!Incr, c, GateTypes
  <2>2. h \in Records /\ h.pc = "expire" /\ h.key = k /\ h.window = w /\ h.sure = FALSE
    BY <1>1 DEF Records
  <2>3. onTime' = [onTime EXCEPT ![k][w] = n]
    BY <1>5, <2>1
  <2>5. n \in Nat /\ n <= Rpm
    BY <1>4
  <2>4. Current(w) => /\ n < c.count /\ n < Rpm /\ n <= c.count
                      /\ \A s \in Requests : ~ Between(request[s], k, w)
    BY <1>2, <1>4, <1>6, <1>7, RateAssumption
  <2> HIDE DEF h, n, q, k, w
  <2> QED
    BY <1>1, <1>2, <1>3, <2>1, <2>2, <2>3, <2>4, <2>5, CounterMoves, ZenonT(30)
<1>8. CASE c.count # 1 /\ c.count > Rpm
  <2> DEFINE h == [q EXCEPT !.pc = "ttl"]
             n == onTime[k][w]
  <2>1. request' = [request EXCEPT ![r] = h] /\ onTime' = onTime
    BY <1>8, <1>1 DEF Api!Incr, Api!Proceed, c, GateTypes
  <2>2. h \in Records /\ h.pc = "ttl" /\ h.key = k /\ h.window = w /\ h.sure = FALSE
    BY <1>1 DEF Records
  <2>3. onTime' = [onTime EXCEPT ![k][w] = n]
    BY <1>5, <2>1
  <2>5. n \in Nat /\ n <= Rpm
    BY <1>4
  <2>4. Current(w) => /\ n <= c.count
                      /\ \A s \in Requests : Between(request[s], k, w) => n < c.count /\ n < Rpm
    BY <1>2, <1>4, <1>6, SMTT(30)
  <2> HIDE DEF h, n, q, k, w
  <2> QED
    BY <1>1, <1>2, <1>3, <2>1, <2>2, <2>3, <2>4, <2>5, CounterMoves, ZenonT(30)
<1>9. CASE c.count # 1 /\ c.count <= Rpm
  <2> DEFINE n == IF Api!Window(clock) = w THEN onTime[k][w] + 1 ELSE onTime[k][w]
  <2>1. request' = [request EXCEPT ![r] = Api!Outside]
    BY <1>9, <1>4, RateAssumption DEF Api!Incr, Api!Proceed, c
  <2>2. onTime' = IF Api!Window(clock) = w THEN [onTime EXCEPT ![k][w] = onTime[k][w] + 1] ELSE onTime
    BY <1>9, <1>4, RateAssumption DEF Api!Incr, Api!Proceed, c
  <2>3. onTime' = [onTime EXCEPT ![k][w] = n]
    BY <1>5, <2>2
  <2>4. Api!Outside \in Records /\ Api!Outside.pc = "out" /\ Api!Outside.sure = FALSE
    BY SpanFacts DEF Records, Api!Outside
  <2>5. Current(w) <=> Api!Window(clock) = w
    <3>1. w \in Nat /\ clock \in Nat
      BY <1>1, SpanFacts, ClockFacts
    <3>2. Api!Window(clock) \in Nat
      BY <3>1, WindowFacts
    <3> QED
      BY <1>1, <3>1, <3>2 DEF Current
  <2>6. n \in Nat /\ n <= Rpm
    BY <1>2, <1>4, <1>6, <1>9, <2>5, RateAssumption
  <2>7. Current(w) => /\ n <= c.count
                      /\ \A s \in Requests : Between(request[s], k, w) => n < c.count /\ n < Rpm
    BY <1>2, <1>4, <1>6, <1>9, <2>5, RateAssumption, SMTT(30)
  <2> HIDE DEF n, q, k, w
  <2> QED
    BY <1>1, <1>2, <1>3, <1>4, <2>1, <2>3, <2>4, <2>6, <2>7, CounterMoves
<1> QED
  BY <1>4, <1>7, <1>8, <1>9, RateAssumption

\* EXPIRE finds the counter or not, and the request that started it proceeds.
LEMMA SetExpiryKeeps ==
    ASSUME GateTypes, CountersOutlive, RequestsPlaced, AdmittedAreCounted, NEW r \in Requests, Api!SetExpiry(r)
    PROVE  (GateTypes /\ CountersOutlive /\ RequestsPlaced /\ AdmittedAreCounted)'
<1> DEFINE q == request[r]
           k == q.key
           w == q.window
           old == counter[k][w]
           c == Api!Expiring(old)
           n == IF Api!Window(clock) = w THEN onTime[k][w] + 1 ELSE onTime[k][w]
<1>1. q.pc = "expire" /\ k \in Keys /\ w \in Api!Windows /\ w <= Api!Window(clock)
  BY DEF Api!SetExpiry, GateTypes, RequestsPlaced, Placed, Records
<1>2. old \in Counters /\ Outlives(old, w) /\ clock \in Nat /\ w \in Nat
  BY <1>1, SpanFacts, ClockFacts DEF GateTypes, CountersOutlive
<1>3. counter' = [counter EXCEPT ![k][w] = c]
  BY <1>1 DEF Api!SetExpiry, GateTypes
<1>4. c \in Counters /\ c.count = old.count /\ Outlives(c, w)
  BY <1>1, <1>2, ExpiringFacts
<1>5. request' = [request EXCEPT ![r] = Api!Outside] /\ UNCHANGED <<created, clock>>
  BY RateAssumption DEF Api!SetExpiry, Api!Proceed, Api!rows
<1>6. onTime' = [onTime EXCEPT ![k][w] = n]
  <2>1. onTime' = IF Api!Window(clock) = w THEN [onTime EXCEPT ![k][w] = onTime[k][w] + 1] ELSE onTime
    BY RateAssumption DEF Api!SetExpiry, Api!Proceed
  <2> QED
    BY <2>1, <1>1 DEF GateTypes
<1>7. Api!Outside \in Records /\ Api!Outside.pc = "out" /\ Api!Outside.sure = FALSE
  BY SpanFacts DEF Records, Api!Outside
<1>8. Current(w) <=> Api!Window(clock) = w
  BY <1>1, <1>2, WindowFacts DEF Current
<1>9. Current(w) => /\ onTime[k][w] < old.count /\ onTime[k][w] < Rpm
                    /\ \A s \in Requests : Between(request[s], k, w) => s = r
  BY <1>1 DEF AdmittedAreCounted, Between
<1>10. onTime[k][w] \in Nat /\ onTime[k][w] <= Rpm /\ old.count \in Nat
  BY <1>1, <1>2 DEF GateTypes, AdmittedAreCounted, Counters
<1>11. n \in Nat /\ n <= Rpm /\ (Current(w) => n <= c.count)
  BY <1>4, <1>8, <1>9, <1>10, RateAssumption, SMTT(30)
<1>12. c.count > 0
  BY <1>1, <1>4 DEF RequestsPlaced, Placed
<1> HIDE DEF c, n, q, k, w
<1> QED
  BY <1>1, <1>3, <1>4, <1>5, <1>6, <1>7, <1>9, <1>11, <1>12, CounterMoves

\* A call to Redis that fails ends the request; INCR may have counted it, or EXPIRE have
\* set the counter's end, all the same.
LEMMA RedisFailsKeeps ==
    ASSUME GateTypes, CountersOutlive, RequestsPlaced, AdmittedAreCounted, NEW r \in Requests, Api!RedisFails(r)
    PROVE  (GateTypes /\ CountersOutlive /\ RequestsPlaced /\ AdmittedAreCounted)'
<1> DEFINE q == request[r]
           k == q.key
           w == q.window
           c == Api!Incremented(counter[k][w])
           n == onTime[k][w]
<1>1. request' = [request EXCEPT ![r] = Api!Outside] /\ UNCHANGED <<created, clock, onTime>>
  BY DEF Api!RedisFails, Api!rows
<1>2. Api!Outside \in Records /\ Api!Outside.pc = "out" /\ Api!Outside.sure = FALSE
  BY SpanFacts DEF Records, Api!Outside
<1>3. CASE UNCHANGED counter
  <2>1. Placed(Api!Outside)
    BY DEF Placed, Api!Outside
  <2> QED
    BY <1>1, <1>2, <1>3, <2>1, RequestMoves
<1>4. CASE q.pc = "incr" /\ counter' = [counter EXCEPT ![k][w] = c]
  <2>1. k \in Keys /\ w \in Api!Windows
    BY <1>4 DEF GateTypes, RequestsPlaced, Placed, Records
  <2>2. /\ c \in Counters /\ c.count > 0 /\ Outlives(c, w)
        /\ Current(w) => c.count = counter[k][w].count + 1
    BY <2>1, IncrementedFacts
  <2>3. n \in Nat /\ n <= Rpm /\ counter[k][w].count \in Nat /\ onTime' = [onTime EXCEPT ![k][w] = n]
    BY <1>1, <2>1 DEF GateTypes, AdmittedAreCounted, Counters
  <2>4. Current(w) => /\ n <= counter[k][w].count
                      /\ \A s \in Requests : Between(request[s], k, w) => n < counter[k][w].count /\ n < Rpm
    BY <2>1 DEF AdmittedAreCounted
  <2>5. Current(w) => /\ n <= c.count
                      /\ \A s \in Requests : Between(request[s], k, w) => n < c.count /\ n < Rpm
    <3>1. c.count \in Nat
      BY <2>2 DEF Counters
    <3> HIDE DEF c, n, k, w, q
    <3> QED
      BY <2>2, <2>3, <2>4, <3>1, SMTT(30)
  <2>6. counter' = [counter EXCEPT ![k][w] = c]
    BY <1>4
  <2> HIDE DEF c, n, q, k, w
  <2> QED
    BY <1>1, <1>2, <2>1, <2>2, <2>3, <2>5, <2>6, CounterMoves
<1>5. CASE q.pc = "expire" /\ counter' = [counter EXCEPT ![k][w] = Api!Expiring(@)]
  <2> DEFINE e == Api!Expiring(counter[k][w])
  <2>1. k \in Keys /\ w \in Api!Windows /\ w <= Api!Window(clock) /\ counter[k][w].count > 0
    BY <1>5 DEF GateTypes, RequestsPlaced, Placed, Records
  <2>2. counter[k][w] \in Counters /\ Outlives(counter[k][w], w) /\ clock \in Nat /\ w \in Nat
    BY <2>1, SpanFacts, ClockFacts DEF GateTypes, CountersOutlive
  <2>3. e \in Counters /\ e.count = counter[k][w].count /\ Outlives(e, w)
    BY <2>1, <2>2, ExpiringFacts
  <2>4. n \in Nat /\ n <= Rpm /\ onTime' = [onTime EXCEPT ![k][w] = n]
    BY <1>1, <2>1 DEF GateTypes, AdmittedAreCounted
  <2>5. Current(w) => /\ n <= counter[k][w].count
                      /\ \A s \in Requests : Between(request[s], k, w) => n < counter[k][w].count /\ n < Rpm
    BY <2>1 DEF AdmittedAreCounted
  <2>6. counter' = [counter EXCEPT ![k][w] = e]
    BY <1>5, <2>1 DEF GateTypes
  <2> HIDE DEF e, c, n, q, k, w
  <2>7. e.count > 0 /\ (Current(w) => /\ n <= e.count
                                       /\ \A s \in Requests : Between(request[s], k, w) => n < e.count /\ n < Rpm)
    BY <2>1, <2>3, <2>5
  <2> QED
    BY <1>1, <1>2, <2>1, <2>3, <2>4, <2>6, <2>7, CounterMoves
<1> QED
  BY <1>3, <1>4, <1>5 DEF Api!RedisFails

\* A request that is refused learns from TTL when its counter ends, to half a second, and
\* that is after its window.
LEMMA TooManyKeeps ==
    ASSUME GateTypes, CountersOutlive, RequestsPlaced, AdmittedAreCounted, NEW r \in Requests, Api!TooMany(r)
    PROVE  (GateTypes /\ CountersOutlive /\ RequestsPlaced /\ AdmittedAreCounted)'
<1> DEFINE q == request[r]
           c == counter[q.key][q.window]
           ttl == IF ~ Api!Alive(c) THEN -2 ELSE IF c.dies = Api!NoTtl THEN Api!NoTtl ELSE Api!Seconds(c.dies - clock)
           at == clock + TicksPerSec * (IF ttl > 1 THEN ttl ELSE 1)
           told == ttl # Api!NoTtl
           h == [q EXCEPT !.pc = "refused", !.retryAt = at, !.sure = told]
<1>1. q.pc = "ttl" /\ q \in Records /\ q.key \in Keys /\ q.window \in Api!Windows /\ q.window <= Api!Window(clock)
      /\ c.count > 0
  BY DEF Api!TooMany, GateTypes, RequestsPlaced, Placed, Records
<1>2. c \in Counters /\ Outlives(c, q.window) /\ clock \in Nat /\ q.window \in Nat
  BY <1>1, SpanFacts, ClockFacts DEF GateTypes, CountersOutlive
<1>3. request' = [request EXCEPT ![r] = h] /\ UNCHANGED <<created, clock, counter, onTime>>
  <2>1. request' = [request EXCEPT ![r].pc = "refused", ![r].retryAt = at, ![r].sure = told]
    BY DEF Api!TooMany
  <2> QED
    BY <2>1 DEF Api!TooMany, Api!rows, Api!redis, GateTypes
<1>4. ttl \in Int /\ at \in Nat /\ at >= clock
  <2>1. Api!Alive(c) /\ c.dies # Api!NoTtl => c.dies - clock \in Nat
    BY <1>2 DEF Counters, Api!Alive
  <2>2. ttl \in Int
    BY <2>1, SecondsFacts DEF Api!NoTtl
  <2> HIDE DEF ttl
  <2>3. TicksPerSec * (IF ttl > 1 THEN ttl ELSE 1) \in Nat
    BY <2>2, RateAssumption
  <2> QED
    BY <1>2, <2>2, <2>3
<1>5. told => c.dies \in Nat /\ c.dies # Api!NoTtl /\ c.dies <= at + Api!HalfSecond
  <2>1. CASE ~ Api!Alive(c)
    <3>1. c.count > 0 /\ c.dies # Api!NoTtl /\ c.dies <= clock /\ c.dies \in Nat
      BY <1>1, <1>2, <2>1 DEF Counters, Api!NoTtl, Api!Alive
    <3> HIDE DEF at
    <3> QED
      BY <1>2, <1>4, <3>1, SpanFacts
  <2>2. CASE Api!Alive(c) /\ c.dies = Api!NoTtl
    <3>1. ~ told
      BY <2>2
    <3> QED
      BY <3>1
  <2>3. CASE Api!Alive(c) /\ c.dies # Api!NoTtl
    <3>1. ttl = Api!Seconds(c.dies - clock) /\ c.dies \in Nat /\ c.dies - clock \in Nat
      BY <1>2, <2>3 DEF Counters, Api!Alive
    <3>2. ttl \in Nat /\ c.dies - clock <= TicksPerSec * ttl + Api!HalfSecond
      BY <3>1, SecondsFacts
    <3> HIDE DEF ttl, c
    <3>3. TicksPerSec * ttl <= TicksPerSec * (IF ttl > 1 THEN ttl ELSE 1)
      BY <3>2, RateAssumption
    <3>4. TicksPerSec * ttl \in Nat /\ TicksPerSec * (IF ttl > 1 THEN ttl ELSE 1) \in Nat
      BY <3>2, RateAssumption
    <3>5. c.dies <= at + Api!HalfSecond
      BY <1>2, <3>1, <3>2, <3>3, <3>4, SpanFacts
    <3> QED
      BY <2>3, <3>1, <3>5
  <2> QED
    BY <2>1, <2>2, <2>3
<1>6. told => Api!Window(at + Api!HalfSecond) > q.window
  <2> SUFFICES ASSUME told PROVE Api!Window(at + Api!HalfSecond) > q.window
    OBVIOUS
  <2>1. at + Api!HalfSecond \in Nat
    BY <1>4, SpanFacts
  <2>2. /\ Api!Window(c.dies) > q.window /\ Api!Window(c.dies) \in Nat
        /\ Api!Window(at + Api!HalfSecond) \in Nat
        /\ Api!Window(c.dies) <= Api!Window(at + Api!HalfSecond)
    BY <1>2, <1>5, <2>1, WindowFacts DEF Outlives
  <2> HIDE DEF at, c, q
  <2> QED
    BY <1>2, <2>2, SMTT(30)
<1> HIDE DEF at, told
<1>7. h \in Records /\ h.pc = "refused" /\ h.window = q.window /\ h.retryAt = at /\ h.sure = told
  <2>1. told \in BOOLEAN
    BY DEF told
  <2> QED
    BY <1>1, <1>4, <2>1 DEF Records
<1> HIDE DEF h, q
<1>8. Placed(h)
  BY <1>6, <1>7 DEF Placed
<1> QED
  BY <1>3, <1>7, <1>8, RequestMoves

\* Every step of the public API keeps the invariant of the windows.
LEMMA GateStep == ASSUME GateInv, [Next]_vars PROVE GateInv'
<1> DEFINE Inv == GateTypes /\ CountersOutlive /\ RequestsPlaced /\ AdmittedAreCounted
<1> SUFFICES ASSUME part = "api" PROVE Inv'
  BY DEF GateInv, Next, vars, ServicesNext, services
<1>0. GateTypes /\ CountersOutlive /\ RequestsPlaced /\ AdmittedAreCounted
  BY DEF GateInv
<1>1. ASSUME UNCHANGED <<clock, counter, request, onTime>>, created' \in SUBSET Keys PROVE Inv'
  BY <1>0, <1>1 DEF GateTypes, CountersOutlive, RequestsPlaced, AdmittedAreCounted, Placed, Current
<1>2. CASE UNCHANGED vars
  BY <1>0, <1>1, <1>2 DEF vars, public, GateTypes
<1>3. CASE Api!PublicNext
  <2>0. Api!Outside \in Records /\ Api!Outside.pc = "out" /\ Placed(Api!Outside)
    BY SpanFacts DEF Records, Api!Outside, Placed
  <2>1. ASSUME NEW r \in Requests, Api!Arrive(r) PROVE Inv'
    <3>1. PICK k \in created, a \in Agents, o \in Origins \cup {NoOrigin} :
              request' = [request EXCEPT ![r] = [Api!Outside EXCEPT !.pc = "find", !.key = k, !.agent = a, !.origin = o]]
      BY <2>1 DEF Api!Arrive
    <3> DEFINE h == [Api!Outside EXCEPT !.pc = "find", !.key = k, !.agent = a, !.origin = o]
    <3>2. k \in Keys
      BY <1>0 DEF GateTypes
    <3>3. h \in Records /\ h.pc = "find" /\ Placed(h)
      BY <2>0, <3>2 DEF Records, Placed, Api!Outside
    <3>4. UNCHANGED <<created, clock, counter, onTime>>
      BY <2>1 DEF Api!Arrive, Api!rows, Api!redis
    <3> HIDE DEF h
    <3> QED
      BY <1>0, <3>1, <3>3, <3>4, RequestMoves DEF h
  <2>2. ASSUME NEW r \in Requests, Api!Find(r) PROVE Inv'
    <3>1. PICK h : h = (IF Api!Acceptable(request[r])
                        THEN [request[r] EXCEPT !.pc = "window", !.agent = "none", !.origin = NoOrigin]
                        ELSE Api!Outside)
      OBVIOUS
    <3>2. request[r] \in Records /\ request[r].pc = "find" /\ Placed(request[r])
      BY <1>0, <2>2 DEF Api!Find, GateTypes, RequestsPlaced
    <3>3. h \in Records /\ h.pc # "expire" /\ Placed(h)
      <4>1. CASE h = Api!Outside
        BY <2>0, <4>1
      <4>2. CASE h = [request[r] EXCEPT !.pc = "window", !.agent = "none", !.origin = NoOrigin]
        <5>1. h \in Records /\ h.pc = "window" /\ h.key = request[r].key /\ h.sure = request[r].sure
          BY <3>2, <4>2 DEF Records
        <5> QED
          BY <3>2, <5>1 DEF Placed
      <4> QED
        BY <3>1, <4>1, <4>2
    <3>4. request' = [request EXCEPT ![r] = h] /\ UNCHANGED <<created, clock, counter, onTime>>
      BY <2>2, <3>1 DEF Api!Find, Api!rows, Api!redis
    <3> QED
      BY <1>0, <3>3, <3>4, RequestMoves
  <2>3. ASSUME NEW r \in Requests, Api!ReadClock(r) PROVE Inv'
    <3>1. PICK h : h = [request[r] EXCEPT !.pc = "incr", !.window = Api!Window(clock)]
      OBVIOUS
    <3>2. request[r] \in Records /\ request[r].pc = "window" /\ Placed(request[r])
      BY <1>0, <2>3 DEF Api!ReadClock, GateTypes, RequestsPlaced
    <3>3. Api!Window(clock) \in Api!Windows /\ Api!Window(clock) \in Nat
      BY <1>0, WindowOfClock, SpanFacts DEF GateTypes
    <3>4. /\ h \in Records /\ h.pc = "incr" /\ h.key = request[r].key /\ h.sure = request[r].sure
          /\ h.window = Api!Window(clock)
      BY <3>1, <3>2, <3>3 DEF Records
    <3>5. Placed(h)
      BY <3>2, <3>3, <3>4 DEF Placed
    <3>6. request' = [request EXCEPT ![r] = h] /\ UNCHANGED <<created, clock, counter, onTime>>
      BY <1>0, <2>3, <3>1 DEF Api!ReadClock, Api!rows, Api!redis, GateTypes
    <3> QED
      BY <1>0, <3>4, <3>5, <3>6, RequestMoves
  <2>4. ASSUME NEW r \in Requests, Api!Incr(r) PROVE Inv'
    BY <1>0, <2>4, IncrKeeps
  <2>5. ASSUME NEW r \in Requests, Api!SetExpiry(r) PROVE Inv'
    BY <1>0, <2>5, SetExpiryKeeps
  <2>6. ASSUME NEW r \in Requests, Api!TooMany(r) PROVE Inv'
    BY <1>0, <2>6, TooManyKeeps
  <2>7. ASSUME NEW r \in Requests, Api!Leave(r) PROVE Inv'
    <3>1. request' = [request EXCEPT ![r] = Api!Outside] /\ UNCHANGED <<created, clock, counter, onTime>>
      BY <2>7 DEF Api!Leave, Api!rows, Api!redis
    <3> QED
      BY <1>0, <2>0, <3>1, RequestMoves
  <2>8. ASSUME NEW r \in Requests, Api!RedisFails(r) PROVE Inv'
    BY <1>0, <2>8, RedisFailsKeeps
  <2>9. ASSUME Api!Tick PROVE Inv'
    <3>1. clock' = clock + 1 /\ clock < MaxClock /\ UNCHANGED <<created, counter, request, onTime>>
      BY <2>9 DEF Api!Tick, Api!rows, Api!gate
    <3>2. clock \in Nat /\ clock' \in 0 .. MaxClock
      BY <1>0, <3>1, RateAssumption DEF GateTypes
    <3>3. Api!Window(clock) <= Api!Window(clock') /\ Api!Window(clock) \in Nat /\ Api!Window(clock') \in Nat
      BY <3>1, <3>2, WindowFacts
    <3>4. GateTypes'
      BY <1>0, <3>1, <3>2 DEF GateTypes
    <3>5. CountersOutlive'
      BY <1>0, <3>1 DEF CountersOutlive
    <3>6. RequestsPlaced'
      <4> SUFFICES ASSUME NEW r \in Requests PROVE Placed(request[r])'
        BY DEF RequestsPlaced
      <4>1. Placed(request[r]) /\ request[r].window \in Nat
        BY <1>0, SpanFacts DEF RequestsPlaced, GateTypes, Records
      <4>2. Api!Window(clock)' = Api!Window(clock')
        BY DEF Api!Window
      <4> QED
        BY <3>1, <3>3, <4>1, <4>2 DEF Placed
    <3>7. AdmittedAreCounted'
      <4>1. \A w \in Api!Windows : Current(w)' => Current(w)
        <5>1. Api!Window(clock)' = Api!Window(clock')
          BY DEF Api!Window
        <5>2. \A w \in Api!Windows : w \in Nat
          BY SpanFacts
        <5> QED
          BY <3>3, <5>1, <5>2 DEF Current
      <4> QED
        BY <1>0, <3>1, <4>1 DEF AdmittedAreCounted
    <3> QED
      BY <3>4, <3>5, <3>6, <3>7
  <2>10. ASSUME Api!CreateKey PROVE Inv'
    BY <1>0, <1>1, <2>10 DEF Api!CreateKey, Api!redis, Api!gate, GateTypes
  <2>11. ASSUME Api!ToggleAgent \/ Api!OpenPage \/ Api!SubmitCreate \/ Api!ShowSecret \/ Api!HideSecret
                \/ (\E k \in Keys : Api!ConfirmRevoke(k))
                \/ Api!RevokeKey \/ Api!RevokeAnswered \/ Api!AnswerList \/ Api!RenderList \/ Api!LoseCall
         PROVE Inv'
    <3>1. UNCHANGED <<created, clock, counter, request, onTime>>
      BY <2>11 DEF Api!ToggleAgent, Api!OpenPage, Api!SubmitCreate, Api!ShowSecret, Api!HideSecret,
                   Api!ConfirmRevoke, Api!RevokeKey, Api!RevokeAnswered, Api!AnswerList, Api!RenderList,
                   Api!LoseCall, Api!rows, Api!redis, Api!gate
    <3> QED
      BY <1>0, <1>1, <3>1 DEF GateTypes
  <2> HIDE DEF Inv
  <2> QED
    BY <1>3, <2>1, <2>2, <2>3, <2>4, <2>5, <2>6, <2>7, <2>8, <2>9, <2>10, <2>11 DEF Api!PublicNext
<1> QED
  BY <1>2, <1>3 DEF Next, ServicesNext

\* In each window a key admits no more of the requests it counted on time than its rate,
\* and a client that waits as it is told is counted in a later window, or comes back in the
\* last half second of this one.
THEOREM SpecWindowsAreFixed == Spec => []WindowsAreFixed
<1>1. GateInv => WindowsAreFixed
  BY DEF GateInv, GateTypes, Records, RequestsPlaced, Placed, AdmittedAreCounted,
         WindowsAreFixed, Api!WindowsAreFixed
<1> QED
  BY <1>1, GateStart, GateStep, PTL DEF Spec

-----------------------------------------------------------------------------
(* The page of keys.                                                         *)

PageTypes ==
    /\ created \in SUBSET Keys /\ revoked \in SUBSET Keys /\ errors \in Nat
    /\ page \in [open : BOOLEAN, shown : SUBSET Keys, fetch : {"none", "sent", "answered"},
                 got : SUBSET Keys, secret : Keys \cup {"none"},
                 create : {"none", "sent", "done"}, fresh : Keys \cup {"none"},
                 revoke : {"none", "sent", "done"}, target : Keys \cup {"none"}]
\* Unless a change is on its way to the page, the list it shows, or the answer it has
\* not rendered yet, has the keys that work.
ListKnown ==
    errors = 0 /\ page.open /\ page.create # "done" /\ page.revoke # "done"
        => /\ page.fetch = "none" => page.shown = created \ revoked
           /\ page.fetch = "answered" => page.got = created \ revoked
ClosedIsEmpty == ~ page.open => page.shown = {} /\ page.create = "none" /\ page.revoke = "none" /\ page.fetch = "none"
PageInv == part = "api" => PageTypes /\ ListKnown /\ ClosedIsEmpty

\* The page starts closed, with no key.
LEMMA PageStart == Init => PageInv
<1> SUFFICES ASSUME Init, part = "api" PROVE PageTypes /\ ListKnown /\ ClosedIsEmpty
  BY DEF PageInv
<1>1. Api!PublicInit
  BY DEF Init
<1>2. created = {} /\ revoked = {} /\ errors = 0 /\ page = Api!ClosedPage
  BY <1>1 DEF Api!PublicInit
<1> QED
  BY <1>2 DEF PageTypes, ListKnown, ClosedIsEmpty, Api!ClosedPage

\* Every step of the public API keeps the invariant of the page of keys.
LEMMA PageStep == ASSUME PageInv, [Next]_vars PROVE PageInv'
<1> DEFINE Inv == PageTypes /\ ListKnown /\ ClosedIsEmpty
<1> SUFFICES ASSUME part = "api" PROVE Inv'
  BY DEF PageInv, Next, vars, ServicesNext, services
<1>1. CASE UNCHANGED vars
  BY <1>1 DEF PageInv, vars, public, PageTypes, ListKnown, ClosedIsEmpty
<1>2. CASE Api!PublicNext
  <2> USE DEF PageInv, PageTypes, ListKnown, ClosedIsEmpty, Api!rows, Api!redis, Api!gate,
              Api!CreateSettled, Api!RevokeSettled, Api!Invalidated, Api!Answered, Api!Rendered, Api!Failed
  <2>1. ASSUME NEW r \in Requests, Api!Arrive(r) PROVE UNCHANGED <<created, revoked, errors, page>>
    BY <2>1 DEF Api!Arrive, Api!rows
  <2>2. ASSUME NEW r \in Requests, Api!Find(r) PROVE UNCHANGED <<created, revoked, errors, page>>
    BY <2>2 DEF Api!Find, Api!rows
  <2>3. ASSUME NEW r \in Requests, Api!ReadClock(r) PROVE UNCHANGED <<created, revoked, errors, page>>
    BY <2>3 DEF Api!ReadClock, Api!rows
  <2>4. ASSUME NEW r \in Requests, Api!Incr(r) PROVE UNCHANGED <<created, revoked, errors, page>>
    BY <2>4 DEF Api!Incr, Api!rows
  <2>5. ASSUME NEW r \in Requests, Api!SetExpiry(r) PROVE UNCHANGED <<created, revoked, errors, page>>
    BY <2>5 DEF Api!SetExpiry, Api!rows
  <2>6. ASSUME NEW r \in Requests, Api!TooMany(r) PROVE UNCHANGED <<created, revoked, errors, page>>
    BY <2>6 DEF Api!TooMany, Api!rows
  <2>7. ASSUME NEW r \in Requests, Api!Leave(r) PROVE UNCHANGED <<created, revoked, errors, page>>
    BY <2>7 DEF Api!Leave, Api!rows
  <2>8. ASSUME NEW r \in Requests, Api!RedisFails(r) PROVE Inv'
    BY <2>8 DEF Api!RedisFails, Api!rows
  <2>9. ASSUME Api!Tick \/ Api!ToggleAgent PROVE UNCHANGED <<created, revoked, errors, page>>
    BY <2>9 DEF Api!Tick, Api!ToggleAgent, Api!rows
  <2>10. ASSUME Api!OpenPage PROVE Inv'
    BY <2>10 DEF Api!OpenPage
  <2>11. ASSUME Api!SubmitCreate PROVE Inv'
    BY <2>11 DEF Api!SubmitCreate
  <2>12. ASSUME Api!CreateKey PROVE Inv'
    BY <2>12 DEF Api!CreateKey
  <2>13. ASSUME Api!ShowSecret PROVE Inv'
    BY <2>13 DEF Api!ShowSecret
  <2>14. ASSUME Api!HideSecret PROVE Inv'
    BY <2>14 DEF Api!HideSecret
  <2>15. ASSUME Api!RevokeKey PROVE Inv'
    BY <2>15, ZenonT(30) DEF Api!RevokeKey
  <2>16. ASSUME Api!RevokeAnswered PROVE Inv'
    BY <2>16 DEF Api!RevokeAnswered
  <2>17. ASSUME Api!AnswerList PROVE Inv'
    BY <2>17 DEF Api!AnswerList
  <2>18. ASSUME Api!RenderList PROVE Inv'
    BY <2>18 DEF Api!RenderList
  <2>19. ASSUME Api!LoseCall PROVE Inv'
    <3>1. errors' # 0 /\ errors' \in Nat /\ UNCHANGED <<created, revoked>>
      BY <2>19 DEF Api!LoseCall
    <3>2. CASE page.create # "none" /\ page' = Api!CreateSettled(page)
      BY <3>1, <3>2
    <3>4. CASE page.revoke # "none" /\ page' = Api!RevokeSettled(page)
      BY <3>1, <3>4
    <3>3. CASE page.fetch # "none" /\ page' = Api!Failed(page)
      BY <3>1, <3>3
    <3> QED
      BY <2>19, <3>2, <3>3, <3>4 DEF Api!LoseCall
  <2>20. ASSUME NEW k \in Keys, Api!ConfirmRevoke(k) PROVE Inv'
    BY <2>20 DEF Api!ConfirmRevoke
  <2>21. ASSUME UNCHANGED <<created, revoked, errors, page>> PROVE Inv'
    BY <2>21
  <2> QED
    BY <1>2, <2>1, <2>2, <2>3, <2>4, <2>5, <2>6, <2>7, <2>8, <2>9, <2>10, <2>11,
       <2>12, <2>13, <2>14, <2>15, <2>16, <2>17, <2>18, <2>19, <2>20, <2>21
       DEF Api!PublicNext
<1> QED
  BY <1>1, <1>2 DEF Next, ServicesNext

\* With nothing in flight and no call lost, the open page lists the keys that were created
\* and not revoked.
THEOREM SpecPageIsCurrent == Spec => []PageIsCurrent
<1>1. PageInv => PageIsCurrent
  BY DEF PageInv, ListKnown, PageTypes, PageIsCurrent, Api!PageIsCurrent
<1> QED
  BY <1>1, PageStart, PageStep, PTL DEF Spec
=============================================================================
