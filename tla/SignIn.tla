------------------------------- MODULE SignIn -------------------------------
(***************************************************************************)
(* Signing in, and the password of one account: the login, forgot-password *)
(* and reset-password pages of a browser, what its cached /auth/me says,   *)
(* and the sessions and mailed reset links on the server.  Requests of this*)
(* browser and of another device run in any interleaving of their          *)
(* statements; a transaction commits in one step, after the row it locked. *)
(***************************************************************************)
EXTENDS Naturals, Sequences, FiniteSets, Tab

CONSTANTS MaxSessions, MaxLinks, MaxPasswords

VARIABLES password,  \* how often it was changed
          sessions,  \* live session rows, each with the password it was started with
          started,   \* how many sessions were ever started
          links,     \* reset links, in the order they were mailed
          cookie,    \* this browser's session, 0 for none
          me,        \* this browser's cached /auth/me: "unknown", "in" or "out"
          signing      \* requests under way

signVars == <<password, sessions, started, links, cookie, me, signing>>

NoCall == [op |-> "free"]
Calling == {s \in Slots : signing[s] # NoCall}
Is(s, op, stage) == signing[s] # NoCall /\ signing[s].op = op /\ signing[s].stage = stage
Pending(op) == \E s \in Calling : signing[s].op = op /\ signing[s].here
Live(id) == \E x \in sessions : x.id = id
SignedIn == me = "in"

SignInit ==
    /\ password = 0
    /\ sessions = {} /\ started = 0
    /\ links = <<>>
    /\ cookie = 0
    /\ me = "unknown"
    /\ signing = [s \in Slots |-> NoCall]

-----------------------------------------------------------------------------
(* The pages *)

Send(op, here, arg) ==
    /\ \E s \in Slots \ Calling :
          signing' = [signing EXCEPT ![s] =
              [op |-> op, stage |-> "sent", here |-> here, arg |-> arg, read |-> 0]]
    /\ UNCHANGED <<password, sessions, started, links, cookie, me>>

\* LoginPage: signing in and registering are one form, disabled while its own mode waits.
SubmitLogin == ~Pending("login") /\ Send("login", TRUE, 0)
LoginElsewhere == Send("login", FALSE, 0)

SubmitForgot == Send("forgot", TRUE, 0)

\* Any link ever mailed may be followed; its page is disabled while it waits, but the same
\* link may be open twice.
SubmitReset(n) == n \in DOMAIN links /\ Send("reset", TRUE, n)

ClickLogout == SignedIn /\ cookie # 0 /\ Send("logout", TRUE, cookie)

SubmitChange == SignedIn /\ ~Pending("change") /\ cookie # 0 /\ Send("change", TRUE, cookie)

-----------------------------------------------------------------------------
(* The server *)

Move(s, stage) == [signing EXCEPT ![s].stage = stage]

\* handleLogin reads the hash and compares; the typed password is the one of that moment.
VerifyLogin(s) ==
    /\ Is(s, "login", "sent")
    /\ signing' = [signing EXCEPT ![s].stage = "verified", ![s].read = password]
    /\ UNCHANGED <<password, sessions, started, links, cookie, me>>

StartSession(s) ==
    /\ Is(s, "login", "verified")
    /\ started < MaxSessions
    /\ started' = started + 1
    /\ sessions' = sessions \cup
                     {[id |-> started + 1, pw |-> signing[s].read,
                       late |-> signing[s].read # password]}
    /\ cookie' = IF signing[s].here THEN started + 1 ELSE cookie
    /\ signing' = IF signing[s].here THEN Move(s, "answered") ELSE [signing EXCEPT ![s] = NoCall]
    /\ UNCHANGED <<password, links, me>>

\* CreatePasswordReset: the live links are retired, then the new one is inserted.
RetireLinks(s) ==
    /\ Is(s, "forgot", "sent")
    /\ \A n \in DOMAIN links : links[n].lock = Nothing
    /\ Len(links) < MaxLinks
    /\ links' = [n \in DOMAIN links |-> [links[n] EXCEPT !.live = FALSE]]
    /\ signing' = Move(s, "retired")
    /\ UNCHANGED <<password, sessions, started, cookie, me>>

InsertLink(s) ==
    /\ Is(s, "forgot", "retired")
    /\ Len(links) < MaxLinks
    /\ links' = Append(links, [live |-> TRUE, lock |-> Nothing, spent |-> 0])
    /\ signing' = [signing EXCEPT ![s] = NoCall]
    /\ UNCHANGED <<password, sessions, started, cookie, me>>

\* Mutant: the link is read without its lock.
LockLinkOnlyReads(s) ==
    LET n == signing[s].arg IN
    /\ Is(s, "reset", "sent")
    /\ UNCHANGED links
    /\ signing' = IF links[n].live THEN Move(s, "locked") ELSE [signing EXCEPT ![s] = NoCall]
    /\ UNCHANGED <<password, sessions, started, cookie, me>>

\* ConsumePasswordReset: SELECT ... FOR UPDATE waits for the row, then reads it.
LockLink(s) ==
    LET n == signing[s].arg IN
    /\ Is(s, "reset", "sent")
    /\ links[n].lock = Nothing
    /\ IF links[n].live
       THEN /\ links' = [links EXCEPT ![n].lock = s]
            /\ signing' = Move(s, "locked")
       ELSE /\ UNCHANGED links
            /\ signing' = [signing EXCEPT ![s] = NoCall]          \* invalid_token
    /\ UNCHANGED <<password, sessions, started, cookie, me>>

\* Mutant: the sessions of before stay.
RevokedNone(kept) == sessions

\* The link is spent, the hash replaced and every session deleted.
Revoked(kept) == {x \in sessions : x.id = kept}

SpendLink(s) ==
    /\ Is(s, "reset", "locked")
    /\ password < MaxPasswords
    /\ links' = [links EXCEPT ![signing[s].arg] = [live |-> FALSE, lock |-> Nothing, spent |-> @.spent + 1]]
    /\ password' = password + 1
    /\ sessions' = Revoked(0)
    /\ signing' = [signing EXCEPT ![s] = NoCall]
    /\ UNCHANGED <<started, cookie, me>>

\* requireAuth finds the caller's session and the handler compares the current password;
\* the hash is replaced later, by a transaction that looks at neither again.
VerifyChange(s) ==
    /\ Is(s, "change", "sent")
    /\ signing' = IF Live(signing[s].arg) THEN Move(s, "verified")
                ELSE [signing EXCEPT ![s] = NoCall]              \* 401
    /\ UNCHANGED <<password, sessions, started, links, cookie, me>>

\* ChangePassword keeps the caller's own session.
ChangePassword(s) ==
    /\ Is(s, "change", "verified")
    /\ password < MaxPasswords
    /\ password' = password + 1
    /\ sessions' = {[x EXCEPT !.pw = password + 1] : x \in Revoked(signing[s].arg)}
    /\ signing' = [signing EXCEPT ![s] = NoCall]
    /\ UNCHANGED <<started, links, cookie, me>>

DeleteSession(s) ==
    /\ Is(s, "logout", "sent")
    /\ sessions' = {x \in sessions : x.id # signing[s].arg}
    /\ cookie' = 0
    /\ signing' = Move(s, "answered")
    /\ UNCHANGED <<password, started, links, me>>

\* A session or a link reaches its expires_at.
Expire ==
    /\ \/ \E x \in sessions : sessions' = sessions \ {x} /\ UNCHANGED links
       \/ \E n \in DOMAIN links :
             links[n].live /\ links[n].lock = Nothing
             /\ links' = [links EXCEPT ![n].live = FALSE] /\ UNCHANGED sessions
    /\ UNCHANGED <<password, started, cookie, me, signing>>

\* Wrong password, too many attempts, no network.
RefuseCall(s) ==
    /\ signing[s] # NoCall /\ signing[s].stage = "sent"
    /\ signing' = [signing EXCEPT ![s] = NoCall]
    /\ UNCHANGED <<password, sessions, started, links, cookie, me>>

-----------------------------------------------------------------------------
(* What the browser thinks *)

\* A stale profile is asked for again when a page mounts; a 401 is an answer like another.
ReadMe ==
    /\ me' = IF Live(cookie) THEN "in" ELSE "out"
    /\ me' # me
    /\ UNCHANGED <<password, sessions, started, links, cookie, signing>>

\* onSuccess of useLogin and useLogout writes the cache.
LandLogin(s) == Is(s, "login", "answered") /\ me' = "in"
LandLogout(s) == Is(s, "logout", "answered") /\ me' = "out"

LandCall(s) ==
    /\ LandLogin(s) \/ LandLogout(s)
    /\ signing' = [signing EXCEPT ![s] = NoCall]
    /\ UNCHANGED <<password, sessions, started, links, cookie>>

Submit ==
    \/ SubmitLogin
    \/ LoginElsewhere
    \/ SubmitForgot
    \/ \E n \in DOMAIN links : SubmitReset(n)
    \/ ClickLogout
    \/ SubmitChange

SignNext ==
    \/ Submit
    \/ \E s \in Slots :
          \/ VerifyLogin(s)
          \/ StartSession(s)
          \/ RetireLinks(s)
          \/ InsertLink(s)
          \/ LockLink(s)
          \/ SpendLink(s)
          \/ VerifyChange(s)
          \/ ChangePassword(s)
          \/ DeleteSession(s)
          \/ RefuseCall(s)
          \/ LandCall(s)
    \/ Expire
    \/ ReadMe

SignSpec == SignInit /\ [][SignNext]_signVars

-----------------------------------------------------------------------------
(* Properties *)

\* ConsumePasswordReset: a link sets a password once, however many submits race for it.
SingleUse == \A n \in DOMAIN links : links[n].spent <= 1

\* A session outlives the password it was started with only if its sign-in had compared the
\* password before it was changed, or it is the one a change kept.
SessionsFollowThePassword == \A x \in sessions : x.pw = password \/ x.late
=============================================================================
