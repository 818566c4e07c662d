---------------------------- MODULE WorkspacePages ----------------------------
(***************************************************************************)
(* The workspace that a page of the dashboard is about: the slug in its    *)
(* URL, looked up in a cached list; the id in localStorage, which every    *)
(* tab of the browser shares and which becomes the x-workspace-id header   *)
(* of the page's calls; and the pages that create, join, rename, delete    *)
(* and switch workspaces.                                                  *)
(***************************************************************************)
EXTENDS Naturals, FiniteSets, QueryCache

CONSTANTS
    Workspaces, Slugs,
    Nothing,     \* no slug, no id, no row
    Tabs,
    MaxChanges,  \* bound: workspaces created, joined, renamed or deleted
    MaxCalls     \* bound: calls of pages

VARIABLES
    slug,      \* Workspace.slug of the workspaces the user is a member of
    stored,    \* localStorage's workspace id
    astray,    \* history: it was stored by the answer to a creation whose page had been left
    tab,       \* a tab: the slug of its URL, where its router is going, its list
    change,    \* the mutation in flight in a tab (bound: one), and whether its page is still open
    call,      \* a tab's read for a workspace, by the key of its query
    changes, calls

server == <<slug, changes>>
pages == <<server, stored, astray, tab, change, call, calls>>

Home == "dashboard"   \* the page that redirects to the first workspace
Still == "still"
NoRows == [w \in Workspaces |-> Nothing]
NoChange == [kind |-> "none", of |-> Nothing, slug |-> Nothing, pc |-> "none", here |-> TRUE]
NoCall == [pc |-> "none", header |-> Nothing]

Mine == {w \in Workspaces : slug[w] # Nothing}

PagesInit ==
    /\ \E ws \in SUBSET Workspaces, s \in [Workspaces -> Slugs] :
          /\ \A v, w \in Workspaces : s[v] = s[w] => v = w
          /\ slug = [w \in Workspaces |-> IF w \in ws THEN s[w] ELSE Nothing]
    /\ stored = Nothing /\ astray = FALSE
    /\ tab = [t \in Tabs |-> [slug |-> Home, goto |-> Still, loaded |-> FALSE,
                              shown |-> NoRows, fetch |-> "sent", got |-> NoRows]]
    /\ change = [t \in Tabs |-> NoChange]
    /\ call = [t \in Tabs |-> [w \in Workspaces |-> NoCall]]
    /\ changes = 0 /\ calls = 0

-----------------------------------------------------------------------------
(* useActiveWorkspace.                                                       *)

\* The workspace of a tab: the one in its list with the slug of its URL.
Found(b) == {w \in Workspaces : b.slug # Nothing /\ b.shown[w] = b.slug}
Active(b) == IF Found(b) = {} THEN Nothing ELSE CHOOSE w \in Found(b) : TRUE

\* The layout effect stores a workspace that was found; the other effect clears the id
\* when a loaded list has no such slug.
SyncedOnce(b) ==
    IF Active(b) # Nothing THEN (IF stored = Nothing THEN Active(b) ELSE stored)
    ELSE IF b.slug \in Slugs /\ b.loaded THEN Nothing ELSE stored
Synced(b) ==
    IF Active(b) # Nothing THEN Active(b)
    ELSE IF b.slug \in Slugs /\ b.loaded THEN Nothing ELSE stored

\* The effects run when what they depend on changed, and not every run stores something.
EffectsRun(t, b) ==
    Active(b) # Active(tab[t]) \/ b.slug # tab[t].slug \/ b.loaded # tab[t].loaded
Stores(b) == Active(b) # Nothing \/ (b.slug \in Slugs /\ b.loaded)

\* The tab is rendered as b.
Rerender(t, b) ==
    /\ tab' = [tab EXCEPT ![t] = b]
    /\ stored' = IF EffectsRun(t, b) THEN Synced(b) ELSE stored
    /\ astray' = (astray /\ ~ (EffectsRun(t, b) /\ Stores(b)))

AnswerList(t) ==
    /\ tab[t].fetch = "sent"
    /\ tab' = [tab EXCEPT ![t] = Answered(@, slug)]
    /\ UNCHANGED <<server, stored, astray, change, call, calls>>

RenderList(t) ==
    /\ tab[t].fetch = "answered"
    /\ Rerender(t, [Rendered(tab[t]) EXCEPT !.loaded = TRUE])
    /\ UNCHANGED <<server, change, call, calls>>

\* Another component with the hook is mounted: its effects run.
Mount(t) ==
    /\ Active(tab[t]) # Nothing /\ tab[t].goto = Still
    /\ stored' = Synced(tab[t]) /\ astray' = FALSE
    /\ UNCHANGED <<server, tab, change, call, calls>>

-----------------------------------------------------------------------------
(* Routes.                                                                   *)

\* WorkspaceSwitcher's links: a listed workspace, or the page that creates one.  They
\* work while a creation or an update is pending, whose component they unmount; a page
\* that accepts has no sidebar, and the dialog of a deletion is modal.
Switch(t) ==
    /\ tab[t].goto = Still /\ change[t].kind \notin {"accept", "delete"}
    /\ \E s \in ({tab[t].shown[w] : w \in Workspaces} \cup {Nothing}) \ {tab[t].slug} :
          Rerender(t, [tab[t] EXCEPT !.slug = s])
    /\ change' = IF change[t] = NoChange THEN change ELSE [change EXCEPT ![t].here = FALSE]
    /\ UNCHANGED <<server, call, calls>>

\* router.push or router.replace takes effect.
Arrive(t) ==
    /\ tab[t].goto # Still
    /\ Rerender(t, [tab[t] EXCEPT !.slug = tab[t].goto, !.goto = Still])
    /\ UNCHANGED <<server, change, call, calls>>

\* /dashboard redirects to the first workspace of the list, however old the list is.
Redirect(t) ==
    /\ tab[t].slug = Home /\ tab[t].loaded /\ tab[t].goto = Still
    /\ LET listed == {tab[t].shown[w] : w \in Workspaces} \ {Nothing} IN
       \E s \in (IF listed = {} THEN {Nothing} ELSE listed) :
          Rerender(t, [tab[t] EXCEPT !.slug = s])
    /\ UNCHANGED <<server, change, call, calls>>

-----------------------------------------------------------------------------
(* Changes.                                                                  *)

Submit(t, kind, w, s) ==
    /\ change[t] = NoChange /\ tab[t].goto = Still
    /\ changes < MaxChanges
    /\ changes' = changes + 1
    /\ change' = [change EXCEPT ![t] = [kind |-> kind, of |-> w, slug |-> s, pc |-> "sent",
                                      here |-> TRUE]]
    /\ UNCHANGED <<slug, stored, astray, tab, call, calls>>

\* CreateWorkspaceCard, and the page that accepts an invitation.
Join(t) ==
    /\ tab[t].slug = Nothing
    /\ \E kind \in {"create", "accept"}, w \in Workspaces \ Mine, s \in Slugs : Submit(t, kind, w, s)

\* GeneralSettingsView: a new slug, or the deletion of the workspace.
Rename(t) ==
    Active(tab[t]) # Nothing /\ \E s \in Slugs \ {tab[t].slug} : Submit(t, "rename", Active(tab[t]), s)
Delete(t) == Active(tab[t]) # Nothing /\ Submit(t, "delete", Active(tab[t]), Nothing)

\* WorkspaceService.create, InvitationService.accept, WorkspaceService.update and
\* deleteById; a slug that is taken or a workspace that is gone is refused.
Handle(t) ==
    LET c == change[t] IN
    /\ c.pc = "sent"
    /\ IF /\ c.kind \in {"create", "accept"} <=> slug[c.of] = Nothing
          /\ c.slug = Nothing \/ \A w \in Workspaces : slug[w] # c.slug
       THEN /\ slug' = [slug EXCEPT ![c.of] = c.slug]
            /\ change' = [change EXCEPT ![t].pc = "done"]
       ELSE change' = [change EXCEPT ![t] = NoChange] /\ UNCHANGED slug
    /\ UNCHANGED <<stored, astray, tab, call, changes, calls>>

\* onSuccess reads the list again, and stores a new workspace whether or not its card is
\* still there.  The callbacks of the call itself need the component: the page of a new
\* workspace is opened, a renamed one's replaced by that of its new slug.  A deleted one
\* is forgotten and /dashboard opened.
Answer(t) ==
    LET c == change[t] IN
    /\ c.pc = "done"
    /\ change' = [change EXCEPT ![t] = NoChange]
    /\ tab' = [tab EXCEPT ![t] =
                 [Invalidated(tab[t]) EXCEPT !.goto = IF ~ c.here THEN tab[t].goto
                                                      ELSE IF c.kind = "delete" THEN Home ELSE c.slug]]
    /\ IF c.kind = "rename" THEN UNCHANGED <<stored, astray>>
       ELSE /\ stored' = IF c.kind = "delete" THEN Nothing ELSE c.of
            /\ astray' = ~ c.here
    /\ UNCHANGED <<server, call, calls>>

-----------------------------------------------------------------------------
(* The calls of a page, under a key with the workspace's id in it.           *)

\* The request interceptor sets the header from localStorage.
Send(t) ==
    LET w == Active(tab[t]) IN
    /\ w # Nothing
    /\ call[t][w] = NoCall
    /\ calls < MaxCalls
    /\ calls' = calls + 1
    /\ call' = [call EXCEPT ![t][w] = [pc |-> "sent", header |-> stored]]
    /\ UNCHANGED <<server, stored, astray, tab, change>>

\* A 401: the session is refreshed and the call replayed through the interceptor, which
\* sets the header again unless nothing is stored.
Replay(t, w) ==
    /\ call[t][w].pc = "sent"
    /\ call' = [call EXCEPT ![t][w].pc = "again",
                            ![t][w].header = IF stored = Nothing THEN @ ELSE stored]
    /\ UNCHANGED <<server, stored, astray, tab, change, calls>>

\* WorkspaceGuard takes the workspace from the header; the rows go under the key.
AnswerCall(t, w) ==
    /\ call[t][w].pc \in {"sent", "again"}
    /\ call' = [call EXCEPT ![t][w] = NoCall]
    /\ UNCHANGED <<server, stored, astray, tab, change, calls>>

PagesNext ==
    \E t \in Tabs :
        \/ AnswerList(t) \/ RenderList(t) \/ Mount(t) \/ Switch(t) \/ Arrive(t) \/ Redirect(t)
        \/ Join(t) \/ Rename(t) \/ Delete(t) \/ Handle(t) \/ Answer(t) \/ Send(t)
        \/ \E w \in Workspaces : Replay(t, w) \/ AnswerCall(t, w)

PagesSpec == PagesInit /\ [][PagesNext]_pages

-----------------------------------------------------------------------------

\* In a browser with one tab, a page that found its workspace has that id in
\* localStorage, and one whose slug is not listed has none: across creation, joining,
\* renaming, deletion and lists that are behind.  The one exception is a creation whose
\* page was left before it was answered: its id stays until the next effect or mutation
\* stores another.
ReadyIsStored ==
    \A t \in Tabs : tab[t].goto = Still /\ tab[t].slug \in Slugs /\ tab[t].loaded /\ ~ astray =>
        stored = Active(tab[t])

\* A call is answered for the workspace whose page sent it.
CallsReachTheirWorkspace ==
    \A t \in Tabs, w \in Workspaces : call[t][w].pc # "none" => call[t][w].header \in {w, Nothing}
=============================================================================
