------------------------------- MODULE AuthDb -------------------------------
(***************************************************************************)
(* The sign-ins of the desktop application: AuthEngine, its email, wallet  *)
(* and OAuth services, and the tables of AuthDb.                           *)
(*                                                                         *)
(* A sign-in is a task of its own; several run at the same time and only   *)
(* a single SQL statement is atomic: no transaction spans two of them.  An *)
(* action is one statement, or one answer from outside, with what the code *)
(* decides on it.  A user's id is fresh, and stands here for the sign-in   *)
(* that inserts the user; so do a wallet and the nonce of its challenge,   *)
(* which the application makes anew for each sign-in by wallet.            *)
(***************************************************************************)
EXTENDS Naturals, Sequences

CONSTANTS
    Req,        \* the sign-ins
    NoUser,     \* no user yet
    Mail,       \* mail addresses, in every spelling
    Lower,      \* the same address trimmed and in lower case
    NoMail,     \* NULL
    Secret,     \* passwords; a hash stands for the only one that verifies
    NoSecret,   \* NULL
    Account,    \* accounts at Google and GitHub
    MailOf,     \* the address of each account, as the provider spells it
    Shy         \* the accounts whose address the provider may withhold

Key == Mail \cup Account \cup Req   \* an identity: address, account or wallet

ASSUME AuthAssumption ==
    /\ NoUser \notin Req /\ NoMail \notin Mail /\ NoSecret \notin Secret
    /\ Mail \cap Account = {} /\ Req \cap (Mail \cup Account) = {}
    /\ Lower \in [Mail -> Mail] /\ \A mail \in Mail : Lower[Lower[mail]] = Lower[mail]
    /\ MailOf \in [Account -> Mail]
    /\ Shy \subseteq Account

VARIABLES
    users,       \* the table users
    identities,  \* the table auth_identities, in the order of insertion
    challenges,  \* the table solana_challenges: what became of each nonce
    job          \* the sign-ins: what each wants and how far it is

dbVars == <<users, identities, challenges, job>>

Idle == [kind |-> "none", mail |-> NoMail, secret |-> NoSecret, key |-> NoMail,
         at |-> "idle", user |-> NoUser]

AuthInit ==
    /\ users = {}
    /\ identities = <<>>
    /\ challenges = [r \in Req |-> "none"]
    /\ job = [r \in Req |-> Idle]

\* What a stage waits for: a statement, or somebody outside.
Statement == {"register", "login", "find", "findMail", "addUser", "addIdentity",
              "challenge", "consume", "providers"}
Outside   == {"browser", "exchange"}
Over      == {"idle", "signedIn", "failed", "refused", "dropped"}

Go(r, stage) == job' = [job EXCEPT ![r].at = stage]

\* UNIQUE(email), which NULL does not count for.
Taken(mail) == mail # NoMail /\ \E u \in users : u.mail = mail

\* The first identity with this key in the order of the table, if any.
FirstWith(key) ==
    {i \in DOMAIN identities :
        /\ identities[i].key = key
        /\ \A j \in DOMAIN identities : identities[j].key = key => i <= j}

-----------------------------------------------------------------------------
(* What is asked for *)

Asks(r, kind, mail, secret, key, stage) ==
    /\ job[r] = Idle
    /\ job' = [job EXCEPT ![r] = [kind |-> kind, mail |-> mail, secret |-> secret,
                                  key |-> key, at |-> stage, user |-> NoUser]]

\* Register and login lower-case the address the user typed.
AskRegister(r, mail, secret) ==
    Asks(r, "register", Lower[mail], secret, Lower[mail], "register")
AskLogin(r, mail, secret) ==
    Asks(r, "login", Lower[mail], secret, Lower[mail], "login")

AskOAuth(r, account)         == Asks(r, "oauth", NoMail, NoSecret, account, "browser")
AskWallet(r)                 == Asks(r, "wallet", NoMail, NoSecret, r, "challenge")

\* A caller of the engine that verifies a challenge somebody else was given.
AskAgain(r, t) ==
    /\ r # t /\ challenges[t] # "none"
    /\ Asks(r, "wallet", NoMail, NoSecret, t, "consume")

-----------------------------------------------------------------------------
(* Email *)

\* create_user_with_email: first the address is looked for.
Register(r) ==
    /\ job[r].at = "register"
    /\ Go(r, IF Taken(job[r].mail) THEN "failed" ELSE "addUser")
    /\ UNCHANGED <<users, identities, challenges>>

\* get_user_by_email, and the password is compared with the hash, if any.
Login(r) ==
    LET match == {u \in users : u.mail = job[r].mail /\ u.secret = job[r].secret}
    IN /\ job[r].at = "login"
       /\ \/ /\ match = {}
             /\ Go(r, "failed")
          \/ \E u \in match :
               job' = [job EXCEPT ![r].at = "providers", ![r].user = u.id]
       /\ UNCHANGED <<users, identities, challenges>>

-----------------------------------------------------------------------------
(* OAuth *)

\* The browser comes back with a code, or the wait of 120 s ends, or what came
\* back is no code of this sign-in.
Callback(r) ==
    /\ job[r].at = "browser"
    /\ \E stage \in {"exchange", "failed"} : Go(r, stage)
    /\ UNCHANGED <<users, identities, challenges>>

\* The provider is asked for the profile, and its spelling of the address is
\* kept; GitHub's second call, for a private address, may fail without failing
\* the sign-in.
Exchange(r) ==
    /\ job[r].at = "exchange"
    /\ \/ Go(r, "failed")
       \/ \E mail \in {MailOf[job[r].key]}
                        \cup (IF job[r].key \in Shy THEN {NoMail} ELSE {}) :
            job' = [job EXCEPT ![r].at = "find", ![r].mail = mail]
    /\ UNCHANGED <<users, identities, challenges>>

-----------------------------------------------------------------------------
(* Wallets *)

CreateChallenge(r) ==
    /\ job[r].at = "challenge"
    /\ challenges' = [challenges EXCEPT ![r] = "open"]
    /\ Go(r, "consume")
    /\ UNCHANGED <<users, identities>>

\* Wrong variant: consumed_at is not in the condition of the update.
ConsumeAgain(r) ==
    /\ job[r].at = "consume"
    /\ IF challenges[job[r].key] \in {"open", "consumed"}
         THEN /\ challenges' = [challenges EXCEPT ![job[r].key] = "consumed"]
              /\ \E stage \in {"find", "failed"} : Go(r, stage)
         ELSE Go(r, "failed") /\ UNCHANGED challenges
    /\ UNCHANGED <<users, identities>>

\* One update takes the challenge, if it is open and has not expired.  Then its
\* message is read and the signature looked at: a query that fails, or a wrong
\* signature, has used the challenge up.
Consume(r) ==
    /\ job[r].at = "consume"
    /\ IF challenges[job[r].key] = "open"
         THEN /\ challenges' = [challenges EXCEPT ![job[r].key] = "consumed"]
              /\ \E stage \in {"find", "failed"} : Go(r, stage)
         ELSE Go(r, "failed") /\ UNCHANGED challenges
    /\ UNCHANGED <<users, identities>>

\* challenge_ttl_secs are over.
Expire(t) ==
    /\ challenges[t] = "open"
    /\ challenges' = [challenges EXCEPT ![t] = "expired"]
    /\ UNCHANGED <<users, identities, job>>

-----------------------------------------------------------------------------
(* find_or_create_user_from_provider, and the inserts it shares *)

Find(r) ==
    /\ job[r].at = "find"
    /\ \/ /\ FirstWith(job[r].key) = {}
          /\ Go(r, IF job[r].mail = NoMail THEN "addUser" ELSE "findMail")
       \/ \E i \in FirstWith(job[r].key) :
            job' = [job EXCEPT ![r].at = "providers", ![r].user = identities[i].user]
    /\ UNCHANGED <<users, identities, challenges>>

\* Who has the address already gets the new identity too.
FindMail(r) ==
    LET match == {u \in users : u.mail = job[r].mail}
    IN /\ job[r].at = "findMail"
       /\ \/ match = {} /\ Go(r, "addUser")
          \/ \E u \in match :
               job' = [job EXCEPT ![r].at = "addIdentity", ![r].user = u.id]
       /\ UNCHANGED <<users, identities, challenges>>

NewUser(r) == [id |-> r, mail |-> job[r].mail, secret |-> job[r].secret]

\* Wrong variant: users.email is not UNIQUE.
InsertUserAnyway(r) ==
    /\ job[r].at = "addUser"
    /\ users' = users \cup {NewUser(r)}
    /\ job' = [job EXCEPT ![r].at = "addIdentity", ![r].user = r]
    /\ UNCHANGED <<identities, challenges>>

\* Wrong variant: an insert that fails is not noticed.
InsertUserUnchecked(r) ==
    /\ job[r].at = "addUser"
    /\ users' = IF Taken(job[r].mail) THEN users ELSE users \cup {NewUser(r)}
    /\ job' = [job EXCEPT ![r].at = "addIdentity", ![r].user = r]
    /\ UNCHANGED <<identities, challenges>>

InsertUser(r) ==
    /\ job[r].at = "addUser"
    /\ IF Taken(job[r].mail)
         THEN Go(r, "failed") /\ UNCHANGED users
         ELSE /\ users' = users \cup {NewUser(r)}
              /\ job' = [job EXCEPT ![r].at = "addIdentity", ![r].user = r]
    /\ UNCHANGED <<identities, challenges>>

InsertIdentity(r) ==
    /\ job[r].at = "addIdentity"
    /\ identities' = Append(identities, [user |-> job[r].user, key |-> job[r].key])
    /\ Go(r, IF job[r].kind = "register" THEN "ready" ELSE "providers")
    /\ UNCHANGED <<users, challenges>>

\* load_providers_internal, and the token: the task has its answer.
LoadProviders(r) ==
    /\ job[r].at = "providers"
    /\ Go(r, "ready")
    /\ UNCHANGED <<users, identities, challenges>>

\* A statement fails; what was committed before it stays.
StatementFails(r) ==
    /\ job[r].at \in Statement
    /\ Go(r, "failed")
    /\ UNCHANGED <<users, identities, challenges>>

AuthStep(r) ==
    \/ Register(r) \/ Login(r)
    \/ Callback(r) \/ Exchange(r)
    \/ CreateChallenge(r) \/ Consume(r)
    \/ Find(r) \/ FindMail(r)
    \/ InsertUser(r) \/ InsertIdentity(r) \/ LoadProviders(r)
    \/ StatementFails(r)
=============================================================================
