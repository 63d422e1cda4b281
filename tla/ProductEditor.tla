---------------------------- MODULE ProductEditor ----------------------------
(***************************************************************************)
(* One product in the back office: its active switch and its metadata      *)
(* form, the copy tabs, the curated panel and a variant's line, over the   *)
(* reads they start from, while customers buy and a colleague edits.       *)
(* (The gallery has a module of its own.)                                  *)
(***************************************************************************)
EXTENDS Naturals

CONSTANTS MaxStock, Nothing, Idle, Sent

RQ == INSTANCE ReactQuery

VARIABLES panel,   \* the section a behaviour stays in
          saved,   \* the product's rows
          pageQ,   \* what the section has read: the product as the ENGLISH page shows it
          tab,     \* the language of the copy tab
          draft,   \* what was typed, Nothing where the field still shows what was read
          writes   \* requests of the switch and of the save button

editorVars == <<panel, saved, pageQ, tab, draft, writes>>

Panels == {"metadata", "copy", "related", "variant"}
Languages == {"en", "hy"}
Texts == {"first", "second"}
Blank == "blank"

\* notes: lab batch, cold-chain flag and the four notes, written together.
Merge(fields, row) == [f \in DOMAIN row |-> IF f \in DOMAIN fields THEN fields[f] ELSE row[f]]

NoWrite == [stage |-> "none", post |-> <<>>]

EditorInit ==
    /\ panel \in Panels
    /\ saved = [active |-> TRUE, notes |-> "first", en |-> "first", hy |-> "second",
                picks |-> "first", price |-> "first", stock |-> MaxStock]
    /\ pageQ = RQ!Ask(RQ!Fresh)
    /\ tab = "en"
    /\ draft = Nothing
    /\ writes = [b \in {"switch", "save"} |-> NoWrite]

Read == pageQ.data
Or(typed, other) == IF typed = Nothing THEN other ELSE typed

\* The curated list is drawn after a failed read too, as an empty selection; the other
\* sections need their data.
Rendered == RQ!Loaded(pageQ) \/ (panel = "related" /\ ~RQ!Fetching(pageQ))

\* What a save sends.  Every tab of the copy shows the page's own English read, and a
\* variant's line keeps the price and the stock it was mounted with.
Sends ==
    CASE panel = "metadata" -> [active |-> Read.active, notes |-> Or(draft, Read.notes)]
      [] panel = "copy"     -> [l \in {tab} |-> Or(draft, Read.en)]
      [] panel = "related"  -> [picks |-> Or(draft, IF RQ!Loaded(pageQ) THEN Read.picks ELSE Blank)]
      [] panel = "variant"  -> draft

-----------------------------------------------------------------------------
(* The page.                                                               *)

Type(t) ==
    /\ Rendered
    /\ draft' = IF panel = "variant" THEN [draft EXCEPT !.price = t] ELSE t
    /\ UNCHANGED <<panel, saved, pageQ, tab, writes>>

\* key={locale}: the form of another language is a new one.
PickTab(l) ==
    /\ panel = "copy" /\ l # tab
    /\ tab' = l
    /\ draft' = Nothing
    /\ UNCHANGED <<panel, saved, pageQ, writes>>

Send(b, fields) ==
    /\ writes[b].stage = "none"
    /\ writes' = [writes EXCEPT ![b] = [stage |-> "sent", post |-> fields]]
    /\ UNCHANGED <<panel, saved, pageQ, tab, draft>>

\* A variant's line has its save button only while it differs from what was read.
Save ==
    /\ Rendered
    /\ panel = "variant" => draft.price # Read.price \/ draft.stock # Read.stock
    /\ Send("save", Sends)

\* The row's switch sends the four fields it has; handleUpdateProduct reads the ones left
\* out as empty, and UpdateProduct writes them all.
ToggleActive ==
    /\ panel = "metadata" /\ RQ!Loaded(pageQ)
    /\ Send("switch", [active |-> ~Read.active, notes |-> Blank])

-----------------------------------------------------------------------------
(* The server, and the answers.                                            *)

Serve(b) ==
    /\ writes[b].stage = "sent"
    /\ saved' = Merge(writes[b].post, saved)
    /\ writes' = [writes EXCEPT ![b].stage = "ok"]
    /\ UNCHANGED <<panel, pageQ, tab, draft>>

WriteFails(b) ==
    /\ writes[b].stage = "sent"
    /\ writes' = [writes EXCEPT ![b] = NoWrite]
    /\ UNCHANGED <<panel, saved, pageQ, tab, draft>>

\* The cached reads go; no draft does.
LandWrite(b) ==
    /\ writes[b].stage = "ok"
    /\ pageQ' = RQ!Invalidate(pageQ)
    /\ writes' = [writes EXCEPT ![b] = NoWrite]
    /\ UNCHANGED <<panel, saved, tab, draft>>

\* A variant's line takes its draft from the first read and from no later one.
LoadProduct ==
    /\ pageQ.fetch = Sent
    /\ pageQ' = RQ!Store(RQ!Answer(pageQ, saved))
    /\ draft' = IF panel = "variant" /\ draft = Nothing
                THEN [price |-> saved.price, stock |-> saved.stock] ELSE draft
    /\ UNCHANGED <<panel, saved, tab, writes>>

LoadFails ==
    /\ pageQ.fetch = Sent
    /\ pageQ' = RQ!GiveUp(pageQ)
    /\ UNCHANGED <<panel, saved, tab, draft, writes>>

FocusEditor ==
    /\ ~RQ!Fetching(pageQ)
    /\ pageQ' = RQ!Ask(pageQ)
    /\ UNCHANGED <<panel, saved, tab, draft, writes>>

\* A customer buys a jar.
Sell ==
    /\ panel = "variant" /\ saved.stock > 0
    /\ saved' = [saved EXCEPT !.stock = @ - 1]
    /\ UNCHANGED <<panel, pageQ, tab, draft, writes>>

\* A colleague saves another metadata form.
Colleague(t) ==
    /\ panel = "metadata" /\ saved.notes # t
    /\ saved' = [saved EXCEPT !.notes = t]
    /\ UNCHANGED <<panel, pageQ, tab, draft, writes>>

EditorNext ==
    \/ \E t \in Texts : Type(t) \/ Colleague(t)
    \/ \E l \in Languages : PickTab(l)
    \/ Save
    \/ ToggleActive
    \/ \E b \in DOMAIN writes : Serve(b) \/ WriteFails(b) \/ LandWrite(b)
    \/ LoadProduct
    \/ LoadFails
    \/ FocusEditor
    \/ Sell

-----------------------------------------------------------------------------
(* Properties *)

\* The metadata fields are "optional on the wire, so the existing calls that only toggle
\* is_active keep working unchanged" (types.ts, UpdateProduct): switching a product off and on
\* leaves its notes, and its cold-chain flag, alone.
ToggleKeepsNotes ==
    [][writes["switch"].stage = "sent" /\ writes'["switch"].stage = "ok"
         => saved'.notes = saved.notes]_editorVars
=============================================================================
