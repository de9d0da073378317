----------------------------- MODULE DesktopApp -----------------------------
(***************************************************************************)
(* The desktop application: its screens, the sign-ins it starts (AuthDb),  *)
(* and the session it keeps in the operating system's keyring.             *)
(*                                                                         *)
(* The interface runs on one thread: a handler, or the end of a sign-in,   *)
(* is one step, and that step saves the session and shows it.  A session   *)
(* stands for the sign-in that made it.                                    *)
(***************************************************************************)
EXTENDS AuthDb

CONSTANTS
    NoSession,
    Engine,        \* the sign-ins that others ask the engine for
    MayLock,       \* whether the keyring may refuse a write
    MaxStarts      \* bound: the processes the application has

ASSUME DesktopAssumption ==
    /\ NoSession \notin Req
    /\ Engine \subseteq Req
    /\ MayLock \in BOOLEAN /\ MaxStarts \in Nat

VARIABLES
    screen,   \* AppState::screen, or "closed"
    toggled,  \* AppState::is_toggled
    busy,     \* AppState::auth_busy
    session,  \* AppState::session; on the splash screen the one that was loaded
    cached,   \* the fallback copy in SecureSessionStore
    keyring,  \* the entry in the keyring
    expired,  \* the sessions whose time is over
    left,     \* the sessions the user has logged out of
    locked,   \* whether the keyring has refused a write
    starts    \* processes so far

uiVars == <<screen, toggled, busy, session, cached, keyring, expired, left,
            locked, starts>>
vars   == <<dbVars, uiVars>>

Init ==
    /\ AuthInit
    /\ screen = "closed" /\ toggled = FALSE /\ busy = FALSE
    /\ session = NoSession /\ cached = NoSession /\ keyring = NoSession
    /\ expired = {} /\ left = {} /\ locked = FALSE
    /\ starts = 0

-----------------------------------------------------------------------------
(* The keyring *)

\* set_password and delete_credential, whose errors are ignored.
WriteKeyring(s) ==
    \/ keyring' = s /\ UNCHANGED locked
    \/ MayLock /\ locked' = TRUE /\ UNCHANGED keyring

save_session(s) == cached' = s /\ WriteKeyring(s)

\* Wrong variant: only the copy in memory is cleared.
ClearCopy == cached' = NoSession /\ UNCHANGED <<keyring, locked>>

clear_session == cached' = NoSession /\ WriteKeyring(NoSession)

-----------------------------------------------------------------------------
(* The life of the application *)

\* SherdApp::new loads the session; one that is over is cleared.
Open ==
    /\ screen = "closed" /\ starts < MaxStarts
    /\ starts' = starts + 1
    /\ screen' = "splash"
    /\ IF keyring \in expired
         THEN session' = NoSession /\ clear_session
         ELSE session' = keyring /\ UNCHANGED <<cached, keyring, locked>>
    /\ UNCHANGED <<dbVars, toggled, busy, expired, left>>

\* Two seconds later.
SplashEnds ==
    /\ screen = "splash"
    /\ screen' = IF session = NoSession THEN "auth" ELSE "toggle"
    /\ UNCHANGED <<dbVars, toggled, busy, session, cached, keyring, expired, left,
                   locked, starts>>

\* The process ends, and every sign-in with it, between two statements.
Close ==
    /\ screen # "closed"
    /\ screen' = "closed" /\ toggled' = FALSE /\ busy' = FALSE
    /\ session' = NoSession /\ cached' = NoSession
    /\ job' = [r \in Req |-> IF job[r].at \in Over THEN job[r]
                             ELSE [job[r] EXCEPT !.at = "dropped"]]
    /\ UNCHANGED <<users, identities, challenges, keyring, expired, left, locked,
                   starts>>

\* JWT_EXPIRE_MINUTES are over.
SessionExpires(r) ==
    /\ job[r].at = "signedIn"
    /\ expired' = expired \cup {r}
    /\ UNCHANGED <<dbVars, screen, toggled, busy, session, cached, keyring, left,
                   locked, starts>>

-----------------------------------------------------------------------------
(* The authentication screen *)

Started(r) ==
    /\ r \notin Engine
    /\ screen = "auth"
    /\ busy' = TRUE
    /\ UNCHANGED <<users, identities, challenges, screen, toggled, session, cached,
                   keyring, expired, left, locked, starts>>

\* The button is dead while busy; the Enter key is not.
SubmitEmail(r) ==
    /\ Started(r)
    /\ \E mail \in Mail, secret \in Secret :
         AskLogin(r, mail, secret) \/ AskRegister(r, mail, secret)

ClickProvider(r) ==
    /\ Started(r) /\ ~busy
    /\ \E account \in Account : AskOAuth(r, account)

ClickWallet(r) ==
    /\ Started(r) /\ ~busy
    /\ AskWallet(r)

\* set_session: whatever the user is looking at by now.
SignedIn(r) ==
    /\ job[r].at = "ready" /\ r \notin Engine
    /\ Go(r, "signedIn")
    /\ save_session(r)
    /\ session' = r /\ screen' = "toggle" /\ busy' = FALSE
    /\ UNCHANGED <<users, identities, challenges, toggled, expired, left, starts>>

\* Wrong variant: an error leaves the spinner on.
SignInFailsBusy(r) ==
    /\ job[r].at = "failed" /\ r \notin Engine
    /\ Go(r, "refused")
    /\ UNCHANGED <<users, identities, challenges, uiVars>>

SignInFails(r) ==
    /\ job[r].at = "failed" /\ r \notin Engine
    /\ Go(r, "refused")
    /\ busy' = FALSE
    /\ UNCHANGED <<users, identities, challenges, screen, toggled, session, cached,
                   keyring, expired, left, locked, starts>>

-----------------------------------------------------------------------------
(* The other screens *)

Toggle ==
    /\ screen = "toggle"
    /\ toggled' = ~toggled
    /\ UNCHANGED <<dbVars, screen, busy, session, cached, keyring, expired, left,
                   locked, starts>>

Continue ==
    /\ screen = "toggle" /\ toggled
    /\ screen' = "mesh"
    /\ UNCHANGED <<dbVars, toggled, busy, session, cached, keyring, expired, left,
                   locked, starts>>

Logout ==
    /\ screen = "mesh"
    /\ clear_session
    /\ session' = NoSession /\ toggled' = FALSE /\ screen' = "auth"
    /\ left' = left \cup {session}
    /\ UNCHANGED <<dbVars, busy, expired, starts>>

-----------------------------------------------------------------------------
\* A caller of the engine beside the interface.
Verify(r) ==
    /\ r \in Engine /\ screen # "closed"
    /\ \E t \in Req : AskAgain(r, t)
    /\ UNCHANGED <<users, identities, challenges, uiVars>>

Next ==
    \/ Open \/ SplashEnds \/ Close
    \/ Toggle \/ Continue \/ Logout
    \/ \E r \in Req :
         \/ AuthStep(r) /\ UNCHANGED uiVars
         \/ Expire(r) /\ UNCHANGED uiVars
         \/ SubmitEmail(r) \/ ClickProvider(r) \/ ClickWallet(r) \/ Verify(r)
         \/ SignedIn(r) \/ SignInFails(r) \/ SessionExpires(r)

Spec == Init /\ [][Next]_vars

\* Statements end, the browser and the providers are waited for with a timeout,
\* and the interface polls its tasks.
LiveSpec ==
    /\ Spec
    /\ \A r \in Req : /\ WF_vars(AuthStep(r) /\ UNCHANGED uiVars)
                      /\ WF_vars(SignedIn(r)) /\ WF_vars(SignInFails(r))

-----------------------------------------------------------------------------
(* Properties *)

Sessions == Req \cup {NoSession}
Stage == Statement \cup Outside \cup Over \cup {"ready", "refused"}
Row == [id : Req, mail : Mail \cup {NoMail}, secret : Secret \cup {NoSecret}]

TypeOK ==
    /\ users \subseteq Row
    /\ \A u, v \in users : u.id = v.id => u = v
    /\ identities \in Seq([user : Req, key : Key])
    /\ challenges \in [Req -> {"none", "open", "consumed", "expired"}]
    /\ \A r \in Req : /\ job[r].at \in Stage
                      /\ job[r].user \in Req \cup {NoUser}
                      /\ job[r].key \in Key \cup {NoMail}
    /\ screen \in {"closed", "splash", "auth", "toggle", "mesh"}
    /\ {toggled, busy, locked} \subseteq BOOLEAN
    /\ {session, cached, keyring} \subseteq Sessions
    /\ (screen \in {"toggle", "mesh"}) => session # NoSession
    /\ expired \subseteq Req /\ left \subseteq Req
    /\ starts \in 0..MaxStarts

Answered(r) == job[r].at \in {"ready", "signedIn"}

\* However two sign-ins by one spelling of an address interleave, statement by
\* statement, and whichever of them dies or fails half way, both that succeed
\* are the same user's, linked if there is an account among them
\* (create_user_with_email, find_or_create_user_from_provider).  An account
\* whose address the provider may withhold is not linked, and not meant; nor is
\* one whose provider spells the address otherwise than Lower does (db.rs:197).
OneUserPerAddress ==
    \A r, s \in Req :
        /\ Answered(r) /\ Answered(s)
        /\ job[r].mail = job[s].mail /\ job[r].mail # NoMail
        /\ {job[r].key, job[s].key} \cap Shy = {}
        => job[r].user = job[s].user

\* "Atomically consume challenge from DB" (solana.rs:117): of the callers that
\* present one challenge at the same time, at most one is let in.
ChallengeLetsOneIn ==
    \A r, s \in Req :
        /\ r # s /\ Answered(r) /\ Answered(s)
        /\ job[r].kind = "wallet" /\ job[s].kind = "wallet"
        => job[r].key # job[s].key

\* Whatever session is shown or kept, after whichever failures, restarts and
\* sign-ins that came in between, belongs to a user of the table (and the state
\* is well typed: the mesh screen has a session).
SessionHasUser ==
    /\ TypeOK
    /\ \A s \in {session, cached, keyring} \ {NoSession} :
          \E u \in users : u.id = job[s].user

\* A session the user has logged out of does not come back, not after a restart
\* either, unless the keyring has refused a write (storage.rs clear_session,
\* main.rs Logout).
LoggedOutStaysOut == ~locked => session \notin left

\* The authentication screen does not stay busy: every sign-in has an end, and
\* its end is noticed (main.rs:130, 156, 181).
BusyEnds == busy ~> ~busy
=============================================================================
