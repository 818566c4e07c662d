--------------------------- MODULE EmailVerification ---------------------------
(***************************************************************************)
(* Registration and e-mail verification of one address: createUser,        *)
(* resendVerification and verifyEmail of AuthService, await by await, and  *)
(* the e-mail worker between the token and its link.                       *)
(***************************************************************************)
EXTENDS Naturals, Sequences, FiniteSets, Functions, SequencesExt

CONSTANTS
    Links,        \* tokens that randomBytes() may draw
    NoLink,
    Requests,     \* handlers that may run at the same time
    Attempts,     \* attempts of an e-mail job
    MaxCrashes,   \* bound: handlers that die
    MaxExpired    \* bound: links that expire

VARIABLES
    users,     \* the User rows of the address
    verified,  \* emailVerifiedAt is set
    tokens,    \* the UserToken rows
    expired,   \* links older than VERIFICATION_EXPIRATION_HOURS
    jobs,      \* attempts left of each link's e-mail job; 0: none
    inbox,     \* links that were delivered to the address
    handler,   \* the requests: the link drawn or opened, or the newest link that one deleted
    drawn,     \* history: links drawn, in the order of their rows
    dropped,   \* history: newest links deleted by a handler that died before drawing another
    crashes    \* history: handlers that died

mail == <<jobs, inbox>>
rows == <<users, verified, tokens>>
verification == <<rows, expired, mail, handler, drawn, dropped, crashes>>

Pcs == {"idle", "hash", "clear", "draw", "enqueue", "drop", "tidy", "commit"}
Free == [pc |-> "idle", link |-> NoLink]

VerificationInit ==
    /\ users = 0 /\ verified = FALSE /\ tokens = {} /\ expired = {}
    /\ jobs = [l \in Links |-> 0] /\ inbox = {}
    /\ handler = [r \in Requests |-> Free]
    /\ drawn = <<>> /\ dropped = {} /\ crashes = 0

Step(r, pc) == handler' = [handler EXCEPT ![r].pc = pc]
End(r) == handler' = [handler EXCEPT ![r] = Free]

\* The link drawn last.
Newest == IF drawn = <<>> THEN NoLink ELSE Last(drawn)

-----------------------------------------------------------------------------
(* createUser and resendVerification.                                        *)

\* A second registration is refused at once when the address is known.
Register(r) ==
    /\ handler[r] = Free
    /\ users = 0
    /\ Step(r, "hash")
    /\ UNCHANGED <<rows, expired, mail, drawn, dropped, crashes>>

\* user.create: the unique index answers P2002 to the second of two registrations.
CreateUser(r) ==
    /\ handler[r].pc = "hash"
    /\ \/ users = 0 /\ users' = 1 /\ Step(r, "clear")
       \/ users > 0 /\ End(r) /\ UNCHANGED users
    /\ UNCHANGED <<verified, tokens, expired, mail, drawn, dropped, crashes>>

\* A signed-in user asks for another link: emailVerifiedAt is read here.
Resend(r) ==
    /\ handler[r] = Free
    /\ users > 0 /\ ~ verified
    /\ Len(drawn) < Cardinality(Links)
    /\ Step(r, "clear")
    /\ UNCHANGED <<rows, expired, mail, drawn, dropped, crashes>>

\* enqueueVerificationEmail: every older token goes, and one is created and mailed.
ClearTokens(r) ==
    /\ handler[r].pc = "clear"
    /\ tokens' = {}
    /\ handler' = [handler EXCEPT ![r] = [pc |-> "draw", link |-> Newest]]
    /\ UNCHANGED <<users, verified, expired, mail, drawn, dropped, crashes>>

CreateToken(r) ==
    /\ handler[r].pc = "draw"
    /\ \E l \in Links \ Range(drawn) :
          /\ drawn' = Append(drawn, l)
          /\ tokens' = tokens \cup {l}
          /\ handler' = [handler EXCEPT ![r] = [pc |-> "enqueue", link |-> l]]
    /\ UNCHANGED <<users, verified, expired, mail, dropped, crashes>>

\* The older tokens are deleted after the new one is created.
EnqueueThenClear(r) ==
    /\ handler[r].pc = "enqueue"
    /\ tokens' = tokens \cap {handler[r].link}
    /\ jobs' = [jobs EXCEPT ![handler[r].link] = Attempts]
    /\ End(r)
    /\ UNCHANGED <<users, verified, expired, inbox, drawn, dropped, crashes>>

Enqueue(r) ==
    /\ handler[r].pc = "enqueue"
    /\ jobs' = [jobs EXCEPT ![handler[r].link] = Attempts]
    /\ End(r)
    /\ UNCHANGED <<rows, expired, inbox, drawn, dropped, crashes>>

-----------------------------------------------------------------------------
(* EmailProcessor: an attempt may fail after the mail has left.               *)

Deliver(l) ==
    /\ jobs[l] > 0
    /\ inbox' = inbox \cup {l}
    /\ jobs' = [jobs EXCEPT ![l] = 0]
    /\ UNCHANGED <<rows, expired, handler, drawn, dropped, crashes>>

FailAttempt(l) ==
    /\ jobs[l] > 0
    /\ jobs' = [jobs EXCEPT ![l] = @ - 1]
    /\ \/ inbox' = inbox \cup {l}
       \/ UNCHANGED inbox
    /\ UNCHANGED <<rows, expired, handler, drawn, dropped, crashes>>

Expire(l) ==
    /\ l \in Range(drawn) \ expired
    /\ Cardinality(expired) < MaxExpired
    /\ expired' = expired \cup {l}
    /\ UNCHANGED <<rows, mail, handler, drawn, dropped, crashes>>

-----------------------------------------------------------------------------
(* verifyEmail: a link is opened, by whom ever reads the inbox.              *)

\* A token without a row is a 400 and changes nothing.
Open(r, l) ==
    /\ handler[r] = Free
    /\ l \in inbox /\ l \in tokens
    /\ handler' = [handler EXCEPT ![r] =
                     [pc |-> IF l \in expired THEN "drop" ELSE IF verified THEN "tidy" ELSE "commit",
                      link |-> l]]
    /\ UNCHANGED <<rows, expired, mail, drawn, dropped, crashes>>

\* An expired one is deleted; P2025 when it is gone already.
DropExpired(r) ==
    /\ handler[r].pc = "drop"
    /\ tokens' = tokens \ {handler[r].link}
    /\ End(r)
    /\ UNCHANGED <<users, verified, expired, mail, drawn, dropped, crashes>>

Tidy(r) ==
    /\ handler[r].pc = "tidy"
    /\ tokens' = {}
    /\ End(r)
    /\ UNCHANGED <<users, verified, expired, mail, drawn, dropped, crashes>>

CommitVerified(r) ==
    /\ handler[r].pc = "commit"
    /\ verified' = TRUE
    /\ tokens' = {}
    /\ End(r)
    /\ UNCHANGED <<users, expired, mail, drawn, dropped, crashes>>

\* The API process dies between two awaits.
CrashHandler(r) ==
    /\ handler[r].pc # "idle"
    /\ crashes < MaxCrashes
    /\ crashes' = crashes + 1
    /\ dropped' = IF handler[r].pc = "draw" THEN dropped \cup {handler[r].link} ELSE dropped
    /\ End(r)
    /\ UNCHANGED <<rows, expired, mail, drawn>>

VerificationNext ==
    \/ \E r \in Requests :
          \/ Register(r) \/ CreateUser(r) \/ Resend(r) \/ ClearTokens(r) \/ CreateToken(r) \/ Enqueue(r)
          \/ DropExpired(r) \/ Tidy(r) \/ CommitVerified(r) \/ CrashHandler(r)
          \/ \E l \in Links : Open(r, l)
    \/ \E l \in Links : Deliver(l) \/ FailAttempt(l) \/ Expire(l)

VerificationSpec == VerificationInit /\ [][VerificationNext]_verification

-----------------------------------------------------------------------------

\* However registrations, resends and openings overlap, the link drawn last works until
\* it expires or the address is verified: neither another request nor the expiry of another
\* link deletes its token.  It is gone only while the handler that deleted it to draw
\* another one has not done so, or when that handler died there.
Replaced(l) ==
    l \in dropped \/ \E r \in Requests : handler[r].pc = "draw" /\ handler[r].link = l
NewestLinkWorks ==
    Newest # NoLink /\ ~ verified /\ Newest \notin expired /\ ~ Replaced(Newest)
        => Newest \in tokens
=============================================================================
