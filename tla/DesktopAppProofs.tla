-------------------------- MODULE DesktopAppProofs --------------------------
(***************************************************************************)
(* What holds of the desktop's accounts and sessions for every number of   *)
(* sign-ins, addresses, accounts and restarts, proved.                     *)
(***************************************************************************)
EXTENDS DesktopApp, SequenceTheorems, TLAPS

(* Where a sign-in stands: before it may insert a user, when it must have a *)
(* user, and when a wallet's challenge has let it in.                      *)
Before == {"idle", "register", "login", "challenge", "consume", "browser",
           "exchange", "find", "findMail", "addUser"}
Has    == {"addIdentity", "providers", "ready", "signedIn"}
LetIn  == Has \cup {"find", "findMail", "addUser"}

JobType == [kind : {"none", "register", "login", "oauth", "wallet"},
            mail : Mail \cup {NoMail}, secret : Secret \cup {NoSecret},
            key : Key \cup {NoMail}, at : Stage, user : Req \cup {NoUser}]

(* A sign-in is in the stages of its kind, with the address and the key of  *)
(* its kind.                                                               *)
JobsInv ==
  /\ job \in [Req -> JobType]
  /\ \A r \in Req : LET c == job[r] IN
       /\ c.at # "idle" => c.kind # "none"
       /\ c.at = "register" => c.kind = "register"
       /\ c.at = "login" => c.kind = "login"
       /\ c.at \in {"browser", "exchange"} => c.kind = "oauth"
       /\ c.at \in {"challenge", "consume"} => c.kind = "wallet"
       /\ c.at \in {"find", "findMail"} => c.kind \in {"oauth", "wallet"}
       /\ c.at = "addUser" => c.kind # "login"
       /\ c.kind \in {"register", "login"} => c.key \in Mail /\ c.mail = c.key
       /\ c.kind = "wallet" => c.key \in Req /\ c.mail = NoMail
       /\ c.kind = "oauth" => c.key \in Account
       /\ c.kind = "oauth" /\ c.at \in LetIn =>
            c.mail = MailOf[c.key] \/ (c.key \in Shy /\ c.mail = NoMail)

(* Users are inserted once, and have their addresses for themselves.        *)
UsersInv ==
  /\ users \subseteq Row
  /\ \A u, v \in users : u.id = v.id \/ (u.mail = v.mail /\ u.mail # NoMail) => u = v
  /\ \A u \in users : job[u.id].at \notin Before

(* A user with this key has the address that the key stands for.            *)
Fits(u, key) ==
  /\ key \in Mail => u.mail = key
  /\ key \in Account \ Shy => u.mail = MailOf[key]

(* Every identity is of a user that it fits, and so is every sign-in that   *)
(* has found or inserted its user.                                         *)
LinksInv ==
  /\ identities \in Seq([user : Req, key : Key])
  /\ \A i \in DOMAIN identities : \E u \in users :
        u.id = identities[i].user /\ Fits(u, identities[i].key)
  /\ \A r \in Req : job[r].at \in Has =>
        \E u \in users : u.id = job[r].user /\ Fits(u, job[r].key)

(* A challenge that has let a sign-in in is used up, and by this one only.  *)
ChallengesInv ==
  /\ challenges \in [Req -> {"none", "open", "consumed", "expired"}]
  /\ \A r \in Req : challenges[r] # "none" => job[r].at \notin {"idle", "challenge"}
  /\ \A r \in Req : job[r].kind = "wallet" /\ job[r].at \in LetIn =>
        /\ challenges[job[r].key] = "consumed"
        /\ \A s \in Req : /\ s # r /\ job[s].kind = "wallet" /\ job[s].at \in LetIn
                          => job[s].key # job[r].key

(* Sessions are of sign-ins that were answered, and the ones that were left *)
(* are neither shown nor kept.                                             *)
SessionsInv ==
  /\ screen \in {"closed", "splash", "auth", "toggle", "mesh"}
  /\ {session, cached, keyring} \subseteq Sessions
  /\ screen \in {"toggle", "mesh"} => session # NoSession
  /\ expired \subseteq Req /\ left \subseteq Req
  /\ starts \in 0..MaxStarts
  /\ \A s \in ({session, cached, keyring} \ {NoSession}) \cup left : job[s].at = "signedIn"
  /\ ~locked => {session, keyring} \cap left = {}

(* The switches are Booleans. *)
SwitchesInv == toggled \in BOOLEAN /\ busy \in BOOLEAN /\ locked \in BOOLEAN

IInv == JobsInv /\ UsersInv /\ LinksInv /\ ChallengesInv /\ SessionsInv /\ SwitchesInv

-----------------------------------------------------------------------------
(* A row of the table of identities has a user and a key. *)
LEMMA RowTyped ==
  ASSUME identities \in Seq([user : Req, key : Key]), NEW i \in DOMAIN identities
  PROVE  identities[i].user \in Req /\ identities[i].key \in Key
<1>1. i \in 1..Len(identities)
  OBVIOUS
<1>2. identities[i] \in [user : Req, key : Key]
  BY <1>1, ElementOfSeq
<1> QED
  BY <1>2

(* A sign-in that has found its user is still well typed. *)
LEMMA JobTyped ==
  ASSUME job \in [Req -> JobType], NEW r \in Req, NEW w \in Req
  PROVE  [job EXCEPT ![r].at = "providers", ![r].user = w] \in [Req -> JobType]
<1>1. job[r] \in JobType /\ "providers" \in Stage
  BY DEF Stage, Statement
<1>2. ASSUME NEW j \in JobType PROVE [j EXCEPT !.at = "providers", !.user = w] \in JobType
  BY <1>1 DEF JobType
<1>3. [job[r] EXCEPT !.at = "providers", !.user = w] \in JobType
  BY <1>1, <1>2
<1> QED
  BY <1>3

(* No step takes a sign-in out of the stages of its kind. *)

LEMMA JobsStep == ASSUME IInv, [Next]_vars PROVE JobsInv'
<1>0. \A i \in DOMAIN identities : identities[i].user \in Req
  BY RowTyped DEF IInv, LinksInv
<1> USE AuthAssumption
    DEF IInv, JobsInv, JobType, Stage, Statement, Outside, Over, Has, LetIn, Key
<1>1. ASSUME NEW r \in Req, Register(r) PROVE JobsInv'
  BY <1>1 DEF Register, Go
<1>2. ASSUME NEW r \in Req, Login(r) PROVE JobsInv'
  BY <1>2 DEF Login, Go, UsersInv, Row
<1>3. ASSUME NEW r \in Req, Callback(r) PROVE JobsInv'
  BY <1>3 DEF Callback, Go
<1>4. ASSUME NEW r \in Req, Exchange(r) PROVE JobsInv'
  BY <1>4 DEF Exchange, Go
<1>5. ASSUME NEW r \in Req, CreateChallenge(r) PROVE JobsInv'
  BY <1>5 DEF CreateChallenge, Go
<1>6. ASSUME NEW r \in Req, Consume(r) PROVE JobsInv'
  BY <1>6 DEF Consume, Go
<1>7. ASSUME NEW r \in Req, Find(r) PROVE JobsInv'
  <2>1. CASE FirstWith(job[r].key) = {}
    BY <1>7, <2>1 DEF Find, Go
  <2>2. CASE FirstWith(job[r].key) # {}
    <3>1. PICK i \in DOMAIN identities :
            job' = [job EXCEPT ![r].at = "providers", ![r].user = identities[i].user]
      BY <1>7, <2>2 DEF Find, FirstWith
    <3>2. job[r].at = "find"
      BY <1>7 DEF Find
    <3>3. identities[i].user \in Req
      BY <1>0
    <3> DEFINE w == identities[i].user
    <3>4. job' = [job EXCEPT ![r].at = "providers", ![r].user = w] /\ w \in Req
      BY <3>1, <3>3
    <3> HIDE DEF w
    <3>5. job' \in [Req -> JobType]
      BY <3>4, JobTyped
    <3>6. /\ \A q \in Req : /\ job'[q].kind = job[q].kind /\ job'[q].mail = job[q].mail
                            /\ job'[q].key = job[q].key
          /\ \A q \in Req : job'[q].at = job[q].at \/ (q = r /\ job'[q].at = "providers")
      BY <3>4
    <3> QED
      BY <3>2, <3>5, <3>6
  <2> QED
    BY <2>1, <2>2
<1>8. ASSUME NEW r \in Req, FindMail(r) PROVE JobsInv'
  BY <1>8 DEF FindMail, Go, UsersInv, Row
<1>9. ASSUME NEW r \in Req, InsertUser(r) PROVE JobsInv'
  BY <1>9 DEF InsertUser, Go
<1>10. ASSUME NEW r \in Req, InsertIdentity(r) PROVE JobsInv'
  BY <1>10 DEF InsertIdentity, Go
<1>11. ASSUME NEW r \in Req, LoadProviders(r) \/ StatementFails(r) PROVE JobsInv'
  BY <1>11 DEF LoadProviders, StatementFails, Go
<1>12. ASSUME NEW r \in Req, SubmitEmail(r) PROVE JobsInv'
  BY <1>12 DEF SubmitEmail, AskLogin, AskRegister, Asks, Idle
<1>13. ASSUME NEW r \in Req, ClickProvider(r) \/ ClickWallet(r) PROVE JobsInv'
  BY <1>13 DEF ClickProvider, ClickWallet, AskOAuth, AskWallet, Asks, Idle
<1>14. ASSUME NEW r \in Req, Verify(r) PROVE JobsInv'
  BY <1>14 DEF Verify, AskAgain, Asks, Idle
<1>15. ASSUME NEW r \in Req, SignedIn(r) \/ SignInFails(r) PROVE JobsInv'
  BY <1>15 DEF SignedIn, SignInFails, Go
<1>16. CASE Close
  BY <1>16 DEF Close
<1>17. CASE UNCHANGED job
  BY <1>17
<1> QED
  BY <1>1, <1>2, <1>3, <1>4, <1>5, <1>6, <1>7, <1>8, <1>9, <1>10, <1>11, <1>12,
     <1>13, <1>14, <1>15, <1>16, <1>17
  DEF Next, AuthStep, vars, dbVars, Open, SplashEnds, Toggle, Continue, Logout,
      Expire, SessionExpires

(* InsertUser alone inserts, under an id and an address nobody has. *)
LEMMA UsersStep == ASSUME IInv, [Next]_vars PROVE UsersInv'
<1> USE AuthAssumption
    DEF IInv, JobsInv, JobType, UsersInv, Row, Stage, Statement, Outside, Over, Before, Has
<1>1. ASSUME NEW r \in Req, InsertUser(r) PROVE UsersInv'
  <2>1. CASE Taken(job[r].mail)
    BY <1>1, <2>1 DEF InsertUser, Go
  <2>2. CASE ~Taken(job[r].mail)
    <3>1. /\ users' = users \cup {NewUser(r)} /\ job[r].at = "addUser"
          /\ job' = [job EXCEPT ![r].at = "addIdentity", ![r].user = r]
      BY <1>1, <2>2 DEF InsertUser
    <3>2. \A u \in users : u.id # r
      BY <3>1
    <3>3. \A u \in users : job[r].mail # NoMail => u.mail # job[r].mail
      BY <2>2 DEF Taken
    <3>4. NewUser(r) \in Row /\ NewUser(r).id = r /\ NewUser(r).mail = job[r].mail
      BY DEF NewUser
    <3>5. users' \subseteq Row
      BY <3>1, <3>4
    <3>6. \A u, v \in users' : u.id = v.id \/ (u.mail = v.mail /\ u.mail # NoMail) => u = v
      BY <3>1, <3>2, <3>3, <3>4
    <3>7. \A u \in users' : job'[u.id].at \notin Before
      <4>1. job'[r].at = "addIdentity"
        BY <3>1
      <4>2. \A s \in Req \ {r} : job'[s] = job[s]
        BY <3>1
      <4> QED
        BY <3>1, <3>2, <3>4, <4>1, <4>2
    <3> QED
      BY <3>5, <3>6, <3>7
  <2> QED
    BY <2>1, <2>2
<1>2. CASE users' = users /\ \A r \in Req : job[r].at \notin Before => job'[r].at \notin Before
  BY <1>2
<1>3. ASSUME NEW r \in Req, AuthStep(r), ~InsertUser(r)
      PROVE  users' = users /\ \A s \in Req : job[s].at \notin Before => job'[s].at \notin Before
  <2>1. CASE Register(r) \/ Login(r) \/ Callback(r) \/ Exchange(r)
    BY <2>1 DEF Register, Login, Callback, Exchange, Go
  <2>2. CASE CreateChallenge(r) \/ Consume(r)
    BY <2>2 DEF CreateChallenge, Consume, Go
  <2>3. CASE Find(r) \/ FindMail(r)
    BY <2>3 DEF Find, FindMail, Go
  <2>4. CASE InsertIdentity(r) \/ LoadProviders(r) \/ StatementFails(r)
    BY <2>4 DEF InsertIdentity, LoadProviders, StatementFails, Go
  <2> QED
    BY <1>3, <2>1, <2>2, <2>3, <2>4 DEF AuthStep
<1>4. ASSUME NEW r \in Req, SubmitEmail(r) \/ ClickProvider(r) \/ ClickWallet(r) \/ Verify(r)
      PROVE  users' = users /\ \A s \in Req : job[s].at \notin Before => job'[s].at \notin Before
  BY <1>4 DEF SubmitEmail, ClickProvider, ClickWallet, Verify, Started, AskLogin, AskRegister,
     AskOAuth, AskWallet, AskAgain, Asks, Idle
<1>5. ASSUME NEW r \in Req, SignedIn(r) \/ SignInFails(r)
      PROVE  users' = users /\ \A s \in Req : job[s].at \notin Before => job'[s].at \notin Before
  BY <1>5 DEF SignedIn, SignInFails, Go
<1>6. ASSUME Close
      PROVE  users' = users /\ \A s \in Req : job[s].at \notin Before => job'[s].at \notin Before
  BY <1>6 DEF Close
<1>7. CASE UNCHANGED <<users, job>>
  BY <1>7
<1> QED
  BY <1>1, <1>2, <1>3, <1>4, <1>5, <1>6, <1>7
  DEF Next, vars, dbVars, Open, SplashEnds, Toggle, Continue, Logout, Expire, SessionExpires

(* Consume takes a challenge that is open; no other step lets a sign-in in. *)
LEMMA ChallengesStep == ASSUME IInv, [Next]_vars PROVE ChallengesInv'
<1> USE AuthAssumption
    DEF IInv, JobsInv, JobType, ChallengesInv, Stage, Statement, Outside, Over, Has, LetIn
<1>1. ASSUME NEW r \in Req, CreateChallenge(r) PROVE ChallengesInv'
  BY <1>1 DEF CreateChallenge, Go
<1>2. ASSUME NEW r \in Req, Consume(r) PROVE ChallengesInv'
  BY <1>2 DEF Consume, Go
<1>3. ASSUME NEW r \in Req, Expire(r) PROVE ChallengesInv'
  BY <1>3 DEF Expire
<1>4. ASSUME NEW r \in Req, AuthStep(r), ~CreateChallenge(r), ~Consume(r)
      PROVE  ChallengesInv'
  <2>1. challenges' = challenges
    BY <1>4 DEF AuthStep, Register, Login, Callback, Exchange, Find, FindMail, InsertUser,
       InsertIdentity, LoadProviders, StatementFails
  <2>2. /\ \A s \in Req : job'[s].kind = job[s].kind /\ job'[s].key = job[s].key
        /\ \A s \in Req : job'[s].at \in {"idle", "challenge"} => job[s].at = job'[s].at
        /\ \A s \in Req : job[s].kind = "wallet" /\ job'[s].at \in LetIn => job[s].at \in LetIn
    <3>1. CASE Register(r) \/ Login(r) \/ Callback(r) \/ Exchange(r)
      BY <3>1 DEF Register, Login, Callback, Exchange, Go
    <3>2. CASE Find(r) \/ FindMail(r)
      BY <3>2 DEF Find, FindMail, Go
    <3>3. CASE InsertUser(r) \/ InsertIdentity(r)
      BY <3>3 DEF InsertUser, InsertIdentity, Go
    <3>4. CASE LoadProviders(r) \/ StatementFails(r)
      BY <3>4 DEF LoadProviders, StatementFails, Go
    <3> QED
      BY <1>4, <3>1, <3>2, <3>3, <3>4 DEF AuthStep
  <2> QED
    BY <2>1, <2>2
<1>5. ASSUME NEW r \in Req, SubmitEmail(r) \/ ClickProvider(r) \/ ClickWallet(r)
      PROVE  ChallengesInv'
  BY <1>5 DEF SubmitEmail, ClickProvider, ClickWallet, Started, AskLogin, AskRegister,
     AskOAuth, AskWallet, Asks, Idle
<1>6. ASSUME NEW r \in Req, Verify(r) PROVE ChallengesInv'
  BY <1>6 DEF Verify, AskAgain, Asks, Idle
<1>7. ASSUME NEW r \in Req, SignedIn(r) \/ SignInFails(r) PROVE ChallengesInv'
  BY <1>7 DEF SignedIn, SignInFails, Go
<1>8. CASE Close
  BY <1>8 DEF Close
<1>9. CASE UNCHANGED <<job, challenges>>
  BY <1>9
<1> QED
  BY <1>1, <1>2, <1>3, <1>4, <1>5, <1>6, <1>7, <1>8, <1>9
  DEF Next, vars, dbVars, Open, SplashEnds, Toggle, Continue, Logout, SessionExpires

(* Only an answered sign-in becomes the session, and a logout clears it. *)
LEMMA SessionsStep == ASSUME IInv, [Next]_vars PROVE SessionsInv'
<1> USE AuthAssumption, DesktopAssumption
    DEF IInv, JobsInv, JobType, SessionsInv, Sessions, Over, WriteKeyring, save_session,
        clear_session, uiVars
<1>1. CASE Open
  BY <1>1 DEF Open, dbVars
<1>2. CASE SplashEnds
  BY <1>2 DEF SplashEnds, dbVars
<1>3. CASE Close
  BY <1>3 DEF Close
<1>4. CASE Toggle \/ Continue
  BY <1>4 DEF Toggle, Continue, dbVars
<1>5. CASE Logout
  BY <1>5 DEF Logout, dbVars
<1>6. ASSUME NEW r \in Req, AuthStep(r), UNCHANGED uiVars PROVE SessionsInv'
  <2>1. \A s \in Req : job[s].at = "signedIn" => job'[s].at = "signedIn"
    <3>1. CASE Register(r) \/ Login(r) \/ Callback(r) \/ Exchange(r)
      BY <3>1 DEF Register, Login, Callback, Exchange, Go
    <3>2. CASE CreateChallenge(r) \/ Consume(r)
      BY <3>2 DEF CreateChallenge, Consume, Go
    <3>3. CASE Find(r) \/ FindMail(r)
      BY <3>3 DEF Find, FindMail, Go
    <3>4. CASE InsertUser(r) \/ InsertIdentity(r) \/ LoadProviders(r) \/ StatementFails(r)
      BY <3>4 DEF InsertUser, InsertIdentity, LoadProviders, StatementFails, Statement, Go
    <3> QED
      BY <1>6, <3>1, <3>2, <3>3, <3>4 DEF AuthStep
  <2> QED
    BY <1>6, <2>1
<1>7. ASSUME NEW r \in Req, Expire(r), UNCHANGED uiVars PROVE SessionsInv'
  BY <1>7 DEF Expire
<1>8. ASSUME NEW r \in Req, SubmitEmail(r) \/ ClickProvider(r) \/ ClickWallet(r)
      PROVE  SessionsInv'
  BY <1>8 DEF SubmitEmail, ClickProvider, ClickWallet, Started, AskLogin, AskRegister,
     AskOAuth, AskWallet, Asks, Idle
<1>9. ASSUME NEW r \in Req, Verify(r) PROVE SessionsInv'
  BY <1>9 DEF Verify, AskAgain, Asks, Idle
<1>10. ASSUME NEW r \in Req, SignedIn(r) PROVE SessionsInv'
  <2>1. /\ job[r].at = "ready" /\ r \notin left /\ r # NoSession
        /\ job' = [job EXCEPT ![r].at = "signedIn"]
        /\ session' = r /\ cached' = r /\ screen' = "toggle" /\ busy' = FALSE
        /\ UNCHANGED <<toggled, expired, left, starts>>
    BY <1>10 DEF SignedIn, Go
  <2>2. \/ keyring' = r /\ locked' = locked
        \/ keyring' = keyring /\ locked' = TRUE
    BY <1>10 DEF SignedIn
  <2>3. \A s \in Req : job[s].at = "signedIn" \/ s = r => job'[s].at = "signedIn"
    BY <2>1
  <2>4. {session', cached', keyring'} \subseteq {r, keyring} /\ {r, keyring} \subseteq Sessions
    BY <2>1, <2>2
  <2>5. \A s \in ({session', cached', keyring'} \ {NoSession}) \cup left' : job'[s].at = "signedIn"
    BY <2>1, <2>3, <2>4
  <2>6. ~locked' => {session', keyring'} \cap left' = {}
    BY <2>1, <2>2
  <2> QED
    BY <2>1, <2>4, <2>5, <2>6
<1>11. ASSUME NEW r \in Req, SignInFails(r) PROVE SessionsInv'
  BY <1>11 DEF SignInFails, Go
<1>12. ASSUME NEW r \in Req, SessionExpires(r) PROVE SessionsInv'
  BY <1>12 DEF SessionExpires, dbVars
<1>13. CASE UNCHANGED vars
  BY <1>13 DEF vars, dbVars
<1> QED
  BY <1>1, <1>2, <1>3, <1>4, <1>5, <1>6, <1>7, <1>8, <1>9, <1>10, <1>11, <1>12, <1>13
  DEF Next

(* The switches stay Booleans. *)
LEMMA SwitchesStep == ASSUME IInv, [Next]_vars PROVE SwitchesInv'
<1> USE DEF IInv, SwitchesInv, uiVars
<1>1. CASE Open \/ SplashEnds \/ Close \/ Toggle \/ Continue \/ Logout
  BY <1>1 DEF Open, SplashEnds, Close, Toggle, Continue, Logout, clear_session, WriteKeyring
<1>2. ASSUME NEW r \in Req, SubmitEmail(r) \/ ClickProvider(r) \/ ClickWallet(r) \/ Verify(r)
      PROVE  SwitchesInv'
  BY <1>2 DEF SubmitEmail, ClickProvider, ClickWallet, Started, Verify
<1>3. ASSUME NEW r \in Req, SignedIn(r) \/ SignInFails(r) \/ SessionExpires(r)
      PROVE  SwitchesInv'
  BY <1>3 DEF SignedIn, SignInFails, SessionExpires, save_session, WriteKeyring
<1>4. CASE UNCHANGED uiVars
  BY <1>4
<1> QED
  BY <1>1, <1>2, <1>3, <1>4 DEF Next, vars

(* What is found or inserted fits the sign-in; all else keeps its user. *)
LEMMA LinksKept ==
  ASSUME LinksInv, users \subseteq users', identities' = identities,
         \A r \in Req : job'[r].at \in Has =>
            \/ job[r].at \in Has /\ job'[r].user = job[r].user /\ job'[r].key = job[r].key
            \/ \E u \in users' : u.id = job'[r].user /\ Fits(u, job'[r].key)
  PROVE  LinksInv'
  BY DEF LinksInv, Fits

(* Every sign-in finds or inserts a user that fits it, and links it. *)
LEMMA LinksStep == ASSUME IInv, [Next]_vars PROVE LinksInv'
<1> USE DEF IInv, JobsInv, JobType, Has, LetIn
<1>1. ASSUME NEW r \in Req, Login(r) PROVE LinksInv'
  <2>1. \/ job' = [job EXCEPT ![r].at = "failed"]
        \/ \E u \in users : /\ u.mail = job[r].mail
                            /\ job' = [job EXCEPT ![r].at = "providers", ![r].user = u.id]
    BY <1>1 DEF Login, Go
  <2>2. job[r].key \in Mail /\ job[r].mail = job[r].key /\ job[r].at = "login"
    BY <1>1 DEF Login
  <2>3. \A u \in users : u.mail = job[r].mail => Fits(u, job[r].key)
    BY <2>2, AuthAssumption DEF Fits
  <2> QED
    BY <1>1, <2>1, <2>2, <2>3, LinksKept DEF Login
<1>2. ASSUME NEW r \in Req, Find(r) PROVE LinksInv'
  <2>1. \/ \E where \in {"addUser", "findMail"} : job' = [job EXCEPT ![r].at = where]
        \/ \E i \in DOMAIN identities :
              /\ identities[i].key = job[r].key
              /\ job' = [job EXCEPT ![r].at = "providers", ![r].user = identities[i].user]
    BY <1>2 DEF Find, FirstWith, Go
  <2>2. \A i \in DOMAIN identities : \E u \in users :
           u.id = identities[i].user /\ Fits(u, identities[i].key)
    BY DEF LinksInv
  <2>3. users' = users /\ identities' = identities
    BY <1>2 DEF Find
  <2> QED
    BY <2>1, <2>2, <2>3, LinksKept
<1>3. ASSUME NEW r \in Req, FindMail(r) PROVE LinksInv'
  <2>1. \/ job' = [job EXCEPT ![r].at = "addUser"]
        \/ \E u \in users : /\ u.mail = job[r].mail
                            /\ job' = [job EXCEPT ![r].at = "addIdentity", ![r].user = u.id]
    BY <1>3 DEF FindMail, Go
  <2>2. \A u \in users : u.mail = job[r].mail => Fits(u, job[r].key)
    BY <1>3, AuthAssumption DEF FindMail, Fits, Key
  <2> QED
    BY <1>3, <2>1, <2>2, LinksKept DEF FindMail
<1>4. ASSUME NEW r \in Req, InsertUser(r) PROVE LinksInv'
  <2>1. \/ users' = users /\ job' = [job EXCEPT ![r].at = "failed"]
        \/ /\ users' = users \cup {NewUser(r)}
           /\ job' = [job EXCEPT ![r].at = "addIdentity", ![r].user = r]
    BY <1>4 DEF InsertUser, Go
  <2>2. NewUser(r).id = r /\ Fits(NewUser(r), job[r].key)
    BY <1>4, AuthAssumption DEF InsertUser, NewUser, Fits, Key
  <2>3. identities' = identities
    BY <1>4 DEF InsertUser
  <2> QED
    BY <2>1, <2>2, <2>3, LinksKept
<1>5. ASSUME NEW r \in Req, InsertIdentity(r) PROVE LinksInv'
  <2> DEFINE row == [user |-> job[r].user, key |-> job[r].key]
  <2>1. /\ identities' = Append(identities, row) /\ users' = users
        /\ job[r].at = "addIdentity"
        /\ \E where \in {"ready", "providers"} : job' = [job EXCEPT ![r].at = where]
    BY <1>5 DEF InsertIdentity, Go
  <2>2. PICK u \in users : u.id = job[r].user /\ Fits(u, job[r].key)
    BY <2>1 DEF LinksInv
  <2>3. row \in [user : Req, key : Key]
    <3>1. u.id \in Req
      BY DEF UsersInv, Row
    <3>2. job[r].key \in Key
      BY <2>1 DEF Key
    <3> QED
      BY <2>2, <3>1, <3>2
  <2>4. identities \in Seq([user : Req, key : Key])
    BY DEF LinksInv
  <2>5. identities' \in Seq([user : Req, key : Key])
    BY <2>1, <2>3, <2>4
  <2>6. \A i \in DOMAIN identities' : \E v \in users' :
           v.id = identities'[i].user /\ Fits(v, identities'[i].key)
    <3> SUFFICES ASSUME NEW i \in DOMAIN identities'
                 PROVE  \E v \in users : v.id = identities'[i].user /\ Fits(v, identities'[i].key)
      BY <2>1
    <3>1. CASE i \in DOMAIN identities
      <4>1. identities'[i] = identities[i]
        BY <2>1, <2>4, <3>1
      <4> QED
        BY <3>1, <4>1 DEF LinksInv
    <3>2. CASE i \notin DOMAIN identities
      <4>1. identities'[i] = row
        BY <2>1, <2>4, <3>2
      <4> QED
        BY <2>2, <4>1
    <3> QED
      BY <3>1, <3>2
  <2>7. \A s \in Req : job'[s].at \in Has => \E v \in users' :
           v.id = job'[s].user /\ Fits(v, job'[s].key)
    BY <2>1 DEF LinksInv
  <2> QED
    BY <2>5, <2>6, <2>7 DEF LinksInv, Fits
<1>6. ASSUME NEW r \in Req, AuthStep(r), ~Login(r), ~Find(r), ~FindMail(r), ~InsertUser(r),
             ~InsertIdentity(r)
      PROVE  LinksInv'
  BY <1>6, LinksKept DEF AuthStep, Register, Callback, Exchange, CreateChallenge, Consume,
     LoadProviders, StatementFails, Go
<1>7. ASSUME NEW r \in Req, SubmitEmail(r) \/ ClickProvider(r) \/ ClickWallet(r) PROVE LinksInv'
  BY <1>7, LinksKept DEF SubmitEmail, ClickProvider, ClickWallet, Started, AskLogin, AskRegister,
     AskOAuth, AskWallet, Asks, Idle
<1>8. ASSUME NEW r \in Req, Verify(r) PROVE LinksInv'
  BY <1>8, LinksKept DEF Verify, AskAgain, Asks, Idle
<1>9. ASSUME NEW r \in Req, SignedIn(r) \/ SignInFails(r) PROVE LinksInv'
  BY <1>9, LinksKept DEF SignedIn, SignInFails, uiVars, Go
<1>10. CASE Close
  BY <1>10, LinksKept DEF Close
<1>11. CASE UNCHANGED <<users, identities, job>>
  BY <1>11, LinksKept
<1> QED
  BY <1>1, <1>2, <1>3, <1>4, <1>5, <1>6, <1>7, <1>8, <1>9, <1>10, <1>11
  DEF Next, vars, dbVars, Open, SplashEnds, Toggle, Continue, Logout, Expire, SessionExpires

-----------------------------------------------------------------------------
(* The theorems *)

(* The inductive invariant: sign-ins are in stages of their kind, users have *)
(* their addresses for themselves, identities and sign-ins fit their users,  *)
(* a challenge lets one in, and sessions are of answered sign-ins.           *)
THEOREM Invariance == Spec => []IInv
<1>1. Init => IInv
  <2> SUFFICES ASSUME Init PROVE IInv
    OBVIOUS
  <2> USE DEF Init, AuthInit, Idle
  <2>1. JobsInv
    BY DEF JobsInv, JobType, Stage, Over, LetIn, Has
  <2>2. UsersInv /\ LinksInv
    BY DEF UsersInv, LinksInv, Has, Row
  <2>3. ChallengesInv
    BY DEF ChallengesInv, LetIn, Has
  <2>4. SessionsInv
    BY DesktopAssumption DEF SessionsInv, Sessions
  <2>5. SwitchesInv
    BY DEF SwitchesInv
  <2> QED
    BY <2>1, <2>2, <2>3, <2>4, <2>5 DEF IInv
<1>2. IInv /\ [Next]_vars => IInv'
  BY JobsStep, UsersStep, LinksStep, ChallengesStep, SessionsStep, SwitchesStep DEF IInv
<1> QED
  BY <1>1, <1>2, PTL DEF Spec

(* However sign-ins by one spelling of a mail address interleave, statement  *)
(* by statement, those that succeed are the same user's, whichever spellings *)
(* the providers give (db.rs create_user_with_email,                         *)
(* find_or_create_user_from_provider).                                       *)
THEOREM OneUserPerAddressHolds == Spec => []OneUserPerAddress
<1>1. IInv => OneUserPerAddress
  <2> SUFFICES ASSUME IInv, NEW r \in Req, NEW s \in Req, Answered(r), Answered(s),
                      job[r].mail = job[s].mail, job[r].mail # NoMail,
                      {job[r].key, job[s].key} \cap Shy = {}
               PROVE  job[r].user = job[s].user
    BY DEF OneUserPerAddress
  <2>1. ASSUME NEW q \in Req, Answered(q), job[q].mail # NoMail, job[q].key \notin Shy
        PROVE  \E u \in users : u.id = job[q].user /\ u.mail = job[q].mail
    <3>1. PICK u \in users : u.id = job[q].user /\ Fits(u, job[q].key)
      BY <2>1 DEF IInv, LinksInv, Answered, Has
    <3>2. u.mail = job[q].mail
      BY <2>1, <3>1 DEF IInv, JobsInv, JobType, Fits, Answered, Has, LetIn
    <3> QED
      BY <3>1, <3>2
  <2> QED
    BY <2>1 DEF IInv, UsersInv
<1> QED
  BY <1>1, Invariance, PTL

(* Of those who present one challenge, at whatever moments, at most one is   *)
(* let in (db.rs consume_solana_challenge, solana.rs verify_signature).      *)
THEOREM ChallengeLetsOneInHolds == Spec => []ChallengeLetsOneIn
<1>1. IInv => ChallengeLetsOneIn
  BY DEF IInv, ChallengesInv, ChallengeLetsOneIn, Answered, Has, LetIn
<1> QED
  BY <1>1, Invariance, PTL

(* Every session that is shown or kept belongs to a user of the table, and   *)
(* the state is well typed (main.rs set_session, storage.rs).                *)
THEOREM SessionHasUserHolds == Spec => []SessionHasUser
<1>1. IInv => TypeOK
  <2> SUFFICES ASSUME IInv PROVE TypeOK
    OBVIOUS
  <2>1. /\ users \subseteq Row
        /\ \A u, v \in users : u.id = v.id => u = v
        /\ identities \in Seq([user : Req, key : Key])
        /\ challenges \in [Req -> {"none", "open", "consumed", "expired"}]
    BY DEF IInv, UsersInv, LinksInv, ChallengesInv
  <2>2. \A r \in Req : /\ job[r].at \in Stage
                       /\ job[r].user \in Req \cup {NoUser}
                       /\ job[r].key \in Key \cup {NoMail}
    BY DEF IInv, JobsInv, JobType
  <2>3. /\ screen \in {"closed", "splash", "auth", "toggle", "mesh"}
        /\ {session, cached, keyring} \subseteq Sessions
        /\ screen \in {"toggle", "mesh"} => session # NoSession
        /\ expired \subseteq Req /\ left \subseteq Req
        /\ starts \in 0..MaxStarts
    BY DEF IInv, SessionsInv
  <2>4. {toggled, busy, locked} \subseteq BOOLEAN
    BY DEF IInv, SwitchesInv
  <2> QED
    BY <2>1, <2>2, <2>3, <2>4 DEF TypeOK
<1>2. IInv => \A s \in {session, cached, keyring} \ {NoSession} :
                 \E u \in users : u.id = job[s].user
  BY DEF IInv, SessionsInv, LinksInv, Sessions, Has
<1> QED
  BY <1>1, <1>2, Invariance, PTL DEF SessionHasUser

(* A session the user has logged out of does not come back, not after a      *)
(* restart either, unless the keyring has refused a write (main.rs Logout,   *)
(* storage.rs clear_session).                                                *)
THEOREM LoggedOutStaysOutHolds == Spec => []LoggedOutStaysOut
<1>1. IInv => LoggedOutStaysOut
  BY DEF IInv, SessionsInv, LoggedOutStaysOut
<1> QED
  BY <1>1, Invariance, PTL
=============================================================================
