----------------------------- MODULE Newsletter -----------------------------
(***************************************************************************)
(* One address's newsletter subscription: the footer form, the settings    *)
(* switch, the two pages the emailed links open, and the row the server    *)
(* keeps.  Only the press of a button on a page an emailed link opened     *)
(* makes the subscription live; a fresh token replaces the row's when an   *)
(* address that is not live subscribes.                                    *)
(***************************************************************************)
EXTENDS Naturals, FiniteSets

CONSTANTS MaxTokens,   \* bound on the subscribe requests of a behaviour
          Posts        \* bound on the requests under way: identities for them

VARIABLES row,       \* the subscriber's row, NoRow before the first attempt
          fresh,     \* tokens generated so far
          mailed,    \* tokens in confirmation mails
          posts,     \* requests under way
          footer,    \* the footer form: "form", "pending" or "sent"
          consented  \* HISTORY: the last accepted press was "confirm", not "unsubscribe"

newsVars == <<row, fresh, mailed, posts, footer, consented>>

Tokens == 1..MaxTokens
NoRow == [token |-> 0, confirmed |-> FALSE, left |-> FALSE]
Live(r) == r.confirmed /\ ~r.left

NoPost == [stage |-> "free"]
NewsInit ==
    /\ row = NoRow
    /\ fresh = 0
    /\ mailed = {}
    /\ posts = [p \in Posts |-> NoPost]
    /\ footer = "form"
    /\ consented = FALSE

-----------------------------------------------------------------------------
(* Pages *)

Waiting(from) == \E p \in Posts : posts[p] # NoPost /\ posts[p].from = from

SendPost(op, token, from) ==
    \E p \in Posts :
        /\ posts[p] = NoPost
        /\ posts' = [posts EXCEPT ![p] =
              [stage |-> "sent", op |-> op, token |-> token, from |-> from]]

\* The footer's form goes away once its request succeeds and its button waits for it.
SubmitFooter ==
    /\ footer = "form"
    /\ footer' = "pending"
    /\ SendPost("subscribe", 0, "footer")
    /\ UNCHANGED <<row, fresh, mailed, consented>>

\* Typing resets the mutation: the form is there again, and an answer on its way is unheard.
EditFooter ==
    /\ footer = "pending"
    /\ footer' = "form"
    /\ posts' = [p \in Posts |-> IF posts[p] # NoPost /\ posts[p].from = "footer"
                                 THEN [posts[p] EXCEPT !.from = "before"] ELSE posts[p]]
    /\ UNCHANGED <<row, fresh, mailed, consented>>

\* The settings switch is off while one of its two requests is pending.
FlipSwitch ==
    /\ ~Waiting("switch")
    /\ SendPost("subscribe", 0, "switch") \/ SendPost("off", 0, "switch")
    /\ UNCHANGED <<row, fresh, mailed, footer, consented>>

\* The pages behind the emailed links: nothing is sent until the button is pressed.
PressConfirm(t) ==
    /\ t \in mailed
    /\ SendPost("confirm", t, "page")
    /\ UNCHANGED <<row, fresh, mailed, footer, consented>>

PressUnsubscribe(t) ==
    /\ t \in mailed
    /\ SendPost("leave", t, "page")
    /\ UNCHANGED <<row, fresh, mailed, footer, consented>>

-----------------------------------------------------------------------------
(* The server *)

Stored(p, stage) == posts' = [posts EXCEPT ![p].stage = stage]

\* Mutant: a row that was left keeps its confirmation.
UpsertKeepsProof(r, t) ==
    [token |-> IF Live(r) THEN r.token ELSE t,
     confirmed |-> r.confirmed,
     left |-> FALSE]

\* SubscribeNewsletter: one upsert. A live row is left alone and gets no mail; a row that
\* was left loses its confirmation.
Upsert(r, t) ==
    [token |-> IF Live(r) THEN r.token ELSE t,
     confirmed |-> r.confirmed /\ ~r.left,
     left |-> FALSE]

NeedsMail(r) == ~r.confirmed

\* The token generated for the request travels with it to the mail.
Subscribe(p) ==
    /\ posts[p].stage = "sent" /\ posts[p].op = "subscribe"
    /\ fresh < MaxTokens
    /\ fresh' = fresh + 1
    /\ row' = Upsert(row, fresh')
    /\ posts' = [posts EXCEPT ![p].stage = IF NeedsMail(row') THEN "stored" ELSE "answered",
                              ![p].token = fresh']
    /\ UNCHANGED <<mailed, footer, consented>>

\* A mail that cannot be sent is logged; the answer is the same.
Mail(p) ==
    /\ posts[p].stage = "stored"
    /\ mailed' = mailed \cup {posts[p].token} \/ UNCHANGED mailed
    /\ Stored(p, "answered")
    /\ UNCHANGED <<row, fresh, footer, consented>>

\* ConfirmNewsletter: idempotent, and it revives a row that was left.
Confirm(p) ==
    /\ posts[p].stage = "sent" /\ posts[p].op = "confirm"
    /\ IF posts[p].token = row.token
       THEN row' = [row EXCEPT !.confirmed = TRUE, !.left = FALSE] /\ consented' = TRUE
       ELSE UNCHANGED <<row, consented>>
    /\ Stored(p, "answered")
    /\ UNCHANGED <<fresh, mailed, footer>>

\* UnsubscribeNewsletter by token, and by the signed-in account's address.
Leave(p) ==
    /\ posts[p].stage = "sent" /\ posts[p].op \in {"leave", "off"}
    /\ IF row # NoRow /\ (posts[p].op = "off" \/ posts[p].token = row.token)
       THEN row' = [row EXCEPT !.left = TRUE] /\ consented' = FALSE
       ELSE UNCHANGED <<row, consented>>
    /\ Stored(p, "answered")
    /\ UNCHANGED <<fresh, mailed, footer>>

\* A malformed address, the rate limit or a failure: nothing is stored.
Reject(p) ==
    /\ posts[p].stage = "sent"
    /\ posts' = [posts EXCEPT ![p] = NoPost]
    /\ footer' = IF posts[p].from = "footer" THEN "form" ELSE footer
    /\ UNCHANGED <<row, fresh, mailed, consented>>

Answered(p) ==
    /\ posts[p].stage = "answered"
    /\ posts' = [posts EXCEPT ![p] = NoPost]
    /\ footer' = IF posts[p].from = "footer" THEN "sent" ELSE footer
    /\ UNCHANGED <<row, fresh, mailed, consented>>

NewsNext ==
    \/ SubmitFooter
    \/ EditFooter
    \/ FlipSwitch
    \/ \E t \in Tokens : PressConfirm(t) \/ PressUnsubscribe(t)
    \/ \E p \in Posts : Subscribe(p) \/ Mail(p) \/ Confirm(p) \/ Leave(p) \/ Reject(p) \/ Answered(p)

NewsSpec == NewsInit /\ [][NewsNext]_newsVars

-----------------------------------------------------------------------------
\* Double opt-in: the subscription is live only while the last accepted press on an emailed
\* page was "confirm"; coming back after leaving needs a new one.
LiveByConsent == Live(row) => consented

=============================================================================
