------------------------------ MODULE MCDashboard ------------------------------
(* Five pages of the dashboard, the public API with its page of keys, and the   *)
(* verification of an address, beside the services of MCServices: parts that    *)
(* share no state, checked one beside the other.  A behaviour is one of the     *)
(* part chosen at the start, and the variables of the others are fixed.         *)
EXTENDS MCServices, TLC

CONSTANTS
    Agents, Agent,
    Threads, NoThread,
    Texts, Default, MaxSaves, MaxTurns,
    Workspaces, Slugs, Tabs, MaxCalls,
    Owner, Others, MaxRows,
    MaxSheets, MaxMoves,
    MailLinks, NoLink, Requests, Attempts, MaxCrashes, MaxExpired,
    Keys, Origins, NoOrigin, Rpm, TicksPerSec, WindowSec, MaxClock, MaxServed, MaxErrors

\* What a router names besides slugs is none: the page without one, and no navigation.
ASSUME SlugsAssumption ==
    Nothing \notin Slugs /\ {"dashboard", "still"} \cap (Slugs \cup {Nothing}) = {}
ASSUME TurnsAssumption == MaxTurns \in Nat
\* A key admits a request and a window is not empty.
ASSUME RateAssumption ==
    Rpm \in Nat \ {0} /\ TicksPerSec \in Nat \ {0} /\ WindowSec \in Nat \ {0} /\ MaxClock \in Nat

VARIABLES
    status, queued, links, library, sourceAgent, sheet, preview, sheets, sheetFailed,
    threads, started, list, active, selecting, selected, dialog, details, failed,
    row, agent, form, save, saves, saveFailed, stream, messages, thread, isStreaming,
    abortable, turns,
    slug, stored, astray, tab, change, read, moves, calls,
    me, member, invited, rank, members, invites, call,
    users, verified, tokens, expired, jobs, mailbox, handler, drawn, dropped, crashes,
    created, revoked, origins, running, clock, counter, request, onTime, served, errors, page

Data == INSTANCE SourcesPage
            WITH agent <- sourceAgent, changes <- sheets, failed <- sheetFailed, MaxChanges <- MaxSheets
Box == INSTANCE Inbox
Play == INSTANCE Playground WITH failed <- saveFailed
Routes == INSTANCE WorkspacePages WITH call <- read, changes <- moves, MaxChanges <- MaxMoves
Staff == INSTANCE MembersPage
Mail == INSTANCE EmailVerification WITH Links <- MailLinks, inbox <- mailbox
Api == INSTANCE PublicApi WITH active <- running

data == <<status, queued, links, library, sourceAgent, sheet, preview, sheets, sheetFailed>>
inbox == <<threads, started, list, active, selecting, selected, dialog, details, failed>>
playground ==
    <<row, agent, form, save, saves, saveFailed, stream, messages, thread, isStreaming,
      abortable, turns>>
routes == <<slug, stored, astray, tab, change, read, moves, calls>>
team == <<me, member, invited, rank, members, invites, call>>
verification == <<users, verified, tokens, expired, jobs, mailbox, handler, drawn, dropped, crashes>>
public ==
    <<created, revoked, origins, running, clock, counter, request, onTime, served, errors, page>>
vars == <<services, data, inbox, playground, routes, team, verification, public>>

NoData ==
    /\ status = 0 /\ queued = 0 /\ links = 0 /\ library = 0 /\ sourceAgent = 0 /\ sheet = 0
    /\ preview = 0 /\ sheets = 0 /\ sheetFailed = 0
NoInbox ==
    /\ threads = 0 /\ started = 0 /\ list = 0 /\ active = 0 /\ selecting = 0 /\ selected = 0
    /\ dialog = 0 /\ details = 0 /\ failed = 0
NoPlayground ==
    /\ row = 0 /\ agent = 0 /\ form = 0 /\ save = 0 /\ saves = 0 /\ saveFailed = 0
    /\ stream = 0 /\ messages = 0 /\ thread = 0 /\ isStreaming = 0 /\ abortable = 0 /\ turns = 0
NoRoutes ==
    /\ slug = 0 /\ stored = 0 /\ astray = 0 /\ tab = 0 /\ change = 0 /\ read = 0 /\ moves = 0 /\ calls = 0
NoTeam ==
    /\ me = 0 /\ member = 0 /\ invited = 0 /\ rank = 0 /\ members = 0 /\ invites = 0 /\ call = 0
NoMail ==
    /\ users = 0 /\ verified = 0 /\ tokens = 0 /\ expired = 0 /\ jobs = 0 /\ mailbox = 0
    /\ handler = 0 /\ drawn = 0 /\ dropped = 0 /\ crashes = 0
NoApi ==
    /\ created = 0 /\ revoked = 0 /\ origins = 0 /\ running = 0 /\ clock = 0 /\ counter = 0
    /\ request = 0 /\ onTime = 0 /\ served = 0 /\ errors = 0 /\ page = 0

Init ==
    /\ part \in {"crawl", "retrieve", "stream",
                 "data", "inbox", "playground", "routes", "team", "mail", "api"}
    /\ ServicesInit
    /\ IF part = "data" THEN Data!SourcesInit ELSE NoData
    /\ IF part = "inbox" THEN Box!InboxInit ELSE NoInbox
    /\ IF part = "playground" THEN Play!PlaygroundInit ELSE NoPlayground
    /\ IF part = "routes" THEN Routes!PagesInit ELSE NoRoutes
    /\ IF part = "team" THEN Staff!TeamInit ELSE NoTeam
    /\ IF part = "mail" THEN Mail!VerificationInit ELSE NoMail
    /\ IF part = "api" THEN Api!PublicInit ELSE NoApi

Next ==
    \/ /\ ServicesNext
       /\ UNCHANGED <<data, inbox, playground, routes, team, verification, public>>
    \/ /\ UNCHANGED services
       /\ \/ /\ part = "data" /\ Data!SourcesNext
             /\ UNCHANGED <<inbox, playground, routes, team, verification, public>>
          \/ /\ part = "inbox" /\ Box!InboxNext
             /\ UNCHANGED <<data, playground, routes, team, verification, public>>
          \/ /\ part = "playground" /\ Play!PlaygroundNext
             /\ UNCHANGED <<data, inbox, routes, team, verification, public>>
          \/ /\ part = "routes" /\ Routes!PagesNext
             /\ UNCHANGED <<data, inbox, playground, team, verification, public>>
          \/ /\ part = "team" /\ Staff!TeamNext
             /\ UNCHANGED <<data, inbox, playground, routes, verification, public>>
          \/ /\ part = "mail" /\ Mail!VerificationNext
             /\ UNCHANGED <<data, inbox, playground, routes, team, public>>
          \/ /\ part = "api" /\ Api!PublicNext
             /\ UNCHANGED <<data, inbox, playground, routes, team, verification>>

Spec == Init /\ [][Next]_vars

\* Sources and requests differ in their names only, and every property is an invariant.
Symmetry == Permutations(Sources) \cup Permutations(Requests)

\* Bound of the runs: no document is previewed beside or after the last sheet.
PreviewsBefore == part = "data" => sheets < MaxSheets \/ preview = Data!NoPreview

\* The pages of sources are right, or visibly busy, when nothing of theirs is in flight,
\* and a preview is of its document.
PagesCatchUp == part = "data" => Data!PagesCatchUp
\* The panel of conversations settles on a thread that exists.
PanelShowsAnExistingThread == part = "inbox" => Box!PanelShowsAnExistingThread
\* A form without unsaved edits shows what the agent has.
FormShowsSavedAgent == part = "playground" => Play!FormShowsSavedAgent
\* The preview chat shows one conversation.
PreviewIsOneConversation == part = "playground" => Play!PreviewIsOneConversation
\* The stored workspace is that of the page, unless a creation left behind was answered.
ReadyIsStored == part = "routes" => Routes!ReadyIsStored
\* The members page offers what the API allows.
RefusedForRankOnlyIfBehind == part = "team" => Staff!RefusedForRankOnlyIfBehind
\* The newest link of an address works until it expires or one worked.
NewestLinkWorks == part = "mail" => Mail!NewestLinkWorks
\* A key admits its rate in each window, and who waits as told is counted in another or
\* at the end of this one.
WindowsAreFixed == part = "api" => Api!WindowsAreFixed
\* The page of keys lists the keys that work.
PageIsCurrent == part = "api" => Api!PageIsCurrent
=============================================================================
