SPECIFICATION LiveSpec
CONSTANTS
  r1 = r1  r2 = r2  r3 = r3
  m = m  um = um
  g = g  h = h  k = k
  p = p
  Req = {r1, r2, r3}
  Engine = {r3}
  NoUser = NoUser  NoMail = NoMail  NoSecret = NoSecret  NoSession = NoSession
  Mail = {m, um}
  Lower <- ToLower
  Secret = {p}
  Account = {g, h, k}
  MailOf <- OneMailbox
  Shy = {h}
  MayLock = TRUE
  MaxStarts = 2
INVARIANTS OneUserPerAddress ChallengeLetsOneIn SessionHasUser LoggedOutStaysOut
PROPERTY BusyEnds
CHECK_DEADLOCK FALSE
