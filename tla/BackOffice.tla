----------------------------- MODULE BackOffice -----------------------------
(***************************************************************************)
(* The lists of the back office: promo codes and categories with the one   *)
(* form they share with creation, and the rows of orders, payments,        *)
(* reviews and users with their buttons.  Every list is a cached read and  *)
(* every write goes by what it showed, while a colleague works on the      *)
(* same rows.                                                              *)
(***************************************************************************)
EXTENDS Naturals, Sequences, FiniteSets, SequencesExt

CONSTANTS MaxRows, Nothing, Idle, Sent

RQ == INSTANCE ReactQuery

VARIABLES desk,    \* the page a behaviour stays on
          rows,    \* the server's rows by id, Nothing where there is none
          rowsQ,   \* the page's cached list
          form,    \* the form drawn: the row it is for, and the fields
          saving,  \* the form's request, and whether its form is still the one drawn
          pressed  \* the request of a row's button, and the status the list showed

officeVars == <<desk, rows, rowsQ, form, saving, pressed>>

Ids == 1..MaxRows
New == 0
Forms == {"promos", "categories"}
Tables == {"orders", "payments", "reviews", "users"}
Typed == "second"   \* what is typed over a row's terms

\* terms: everything a form shows but the two fields named here.
Row(terms, active, pos, status) ==
    [terms |-> terms, active |-> active, pos |-> pos, status |-> status]

\* The arrows of domain/order.go and domain/checkout.go.
Arrows(d, status) ==
    CASE d = "orders" /\ status = "pending" -> {"confirmed", "cancelled"}
      [] d = "orders" /\ status = "confirmed" -> {"shipped", "cancelled"}
      [] d = "orders" /\ status = "shipped" -> {"delivered"}
      [] d = "payments" /\ status = "unpaid" -> {"paid"}
      [] d = "payments" /\ status = "paid" -> {"refunded"}
      [] OTHER -> {}

\* nextStatuses and nextPayments, the copy the orders page draws its buttons from, and the
\* buttons of the other tables.
nextStatuses ==
    [pending |-> {"confirmed", "cancelled"}, confirmed |-> {"shipped", "cancelled"},
     shipped |-> {"delivered"}, delivered |-> {}, cancelled |-> {}]
nextPayments == [unpaid |-> {"paid"}, paid |-> {"refunded"}, refunded |-> {}]

\* Mutant: the mirror still offers to cancel a parcel under way.
OffersCancelOnShipped(d, status) ==
    CASE d = "orders" -> nextStatuses[status] \cup (IF status = "shipped" THEN {"cancelled"} ELSE {})
      [] d = "payments" -> nextPayments[status]
      [] d = "reviews" -> {"published", "rejected"} \ {status}
      [] d = "users" -> {"admin", "customer"} \ {status}
      [] OTHER -> {}

Offered(d, status) ==
    CASE d = "orders" -> nextStatuses[status]
      [] d = "payments" -> nextPayments[status]
      [] d = "reviews" -> {"published", "rejected"} \ {status}
      [] d = "users" -> {"admin", "customer"} \ {status}
      [] OTHER -> {}

FirstStatus(d) == CASE d = "orders" -> "pending" [] d = "payments" -> "unpaid"
                    [] d = "reviews" -> "pending" [] d = "users" -> "admin" [] OTHER -> "none"

Stored(rs) == {i \in Ids : rs[i] # Nothing}

\* The order of a list: sort_order, then id.
Listing(rs) == SetToSortSeq(Stored(rs),
                            LAMBDA i, j : rs[i].pos < rs[j].pos \/ (rs[i].pos = rs[j].pos /\ i < j))

NoForm == [row |-> Nothing, fields |-> Nothing]
NewForm == [row |-> New, fields |-> Row("first", TRUE, 0, "none")]
NoSave == [stage |-> "none", row |-> New, fields |-> Nothing, drawn |-> FALSE]
NoPress == [stage |-> "none", kind |-> "none", row |-> New, saw |-> Nothing, post |-> Nothing]

\* The promo page opens without a form, the category page with an empty one.
Closed == IF desk = "promos" THEN NoForm ELSE NewForm

OfficeInit ==
    /\ desk \in Forms \cup Tables
    /\ rows = [i \in Ids |-> 
                IF i < MaxRows \/ desk \in Tables THEN Row("first", TRUE, i, FirstStatus(desk))
                                                  ELSE Nothing]
    /\ rowsQ = RQ!Ask(RQ!Fresh)
    /\ form = Closed
    /\ saving = NoSave
    /\ pressed = NoPress

Shown == rowsQ.data
Has(i) == RQ!Loaded(rowsQ) /\ i \in Stored(Shown)

-----------------------------------------------------------------------------
(* The form: key={id or 'new'} makes it a new one for every other row.     *)

OpenForm(i) ==
    /\ desk \in Forms /\ Has(i) /\ form.row # i
    /\ form' = [row |-> i, fields |-> Shown[i]]
    /\ saving' = [saving EXCEPT !.drawn = FALSE]
    /\ UNCHANGED <<desk, rows, rowsQ, pressed>>

OpenNewPromo ==
    /\ desk = "promos" /\ RQ!Loaded(rowsQ) /\ form = NoForm
    /\ form' = NewForm
    /\ UNCHANGED <<desk, rows, rowsQ, saving, pressed>>

\* Cancel, which the category page draws only while it edits.
CloseForm ==
    /\ desk \in Forms /\ form.row # Closed.row
    /\ form' = Closed
    /\ saving' = [saving EXCEPT !.drawn = FALSE]
    /\ UNCHANGED <<desk, rows, rowsQ, pressed>>

TypeField ==
    /\ desk \in Forms /\ form # NoForm /\ form.fields.terms # Typed
    /\ form' = [form EXCEPT !.fields.terms = Typed]
    /\ UNCHANGED <<desk, rows, rowsQ, saving, pressed>>

\* Bound: the page has one request under way at a time.
Quiet == saving.stage = "none" /\ pressed.stage = "none"

\* The whole form is sent, sort_order and active as they were when it opened.
Submit ==
    /\ desk \in Forms /\ form # NoForm /\ Quiet
    /\ saving' = [stage |-> "sent", row |-> form.row, fields |-> form.fields, drawn |-> TRUE]
    /\ UNCHANGED <<desk, rows, rowsQ, form, pressed>>

\* Whole-value writes: CreateCategory, CreatePromo, UpdateCategory, UpdatePromo.
ServeForm ==
    /\ saving.stage = "sent"
    /\ saving.row = New => Stored(rows) # Ids                \* bound
    /\ LET i == IF saving.row = New THEN Min(Ids \ Stored(rows)) ELSE saving.row IN
       IF saving.row # New /\ rows[i] = Nothing
       THEN saving' = [saving EXCEPT !.stage = "refused"] /\ UNCHANGED rows
       ELSE /\ rows' = [rows EXCEPT ![i] = saving.fields]
            /\ saving' = [saving EXCEPT !.stage = "ok"]
    /\ UNCHANGED <<desk, rowsQ, form, pressed>>

\* The hook refreshes the list in any case; onDone belongs to the form that asked, and is
\* not called once that form is gone.
LandForm ==
    /\ saving.stage \in {"ok", "refused"}
    /\ rowsQ' = IF saving.stage = "ok" THEN RQ!Invalidate(rowsQ) ELSE rowsQ
    /\ form' = IF saving.stage = "ok" /\ saving.drawn THEN Closed ELSE form
    /\ saving' = NoSave
    /\ UNCHANGED <<desk, rows, pressed>>

-----------------------------------------------------------------------------
(* The buttons of the rows.                                                *)

Press(kind, i, post) ==
    /\ Quiet
    /\ pressed' = [stage |-> "sent", kind |-> kind, row |-> i,
                   saw |-> IF kind = "mark" THEN Shown[i].status ELSE Nothing, post |-> post]
    /\ UNCHANGED <<desk, rows, rowsQ, form, saving>>

\* The whole promo as the list shows it, its flag turned.
TogglePromo(i) ==
    desk = "promos" /\ Has(i) /\ Press("write", i, [Shown[i] EXCEPT !.active = ~@])

DeleteCategory(i) == desk = "categories" /\ Has(i) /\ Press("delete", i, Nothing)

\* The list's ids with two neighbours swapped.
MoveCategory(k) ==
    /\ desk = "categories" /\ RQ!Loaded(rowsQ) /\ k + 1 \in DOMAIN Listing(Shown)
    /\ LET l == Listing(Shown) IN
       Press("order", New, [l EXCEPT ![k] = l[k + 1], ![k + 1] = l[k]])

Mark(i, to) ==
    /\ desk \in Tables /\ Has(i) /\ to \in Offered(desk, Shown[i].status)
    /\ Press("mark", i, to)

\* UpdateOrderStatus and its siblings judge the row as it is now; nobody demotes the last
\* administrator; a moderation is always taken.
Accepted ==
    LET i == pressed.row IN
    CASE pressed.kind = "order" -> \A k \in DOMAIN pressed.post : rows[pressed.post[k]] # Nothing
      [] pressed.kind = "mark" ->
           CASE desk = "reviews" -> TRUE
             [] desk = "users" -> pressed.post = "admin"
                                    \/ \E j \in Stored(rows) \ {i} : rows[j].status = "admin"
             [] OTHER -> pressed.post \in Arrows(desk, rows[i].status)
      [] OTHER -> rows[i] # Nothing

ServePress ==
    /\ pressed.stage = "sent"
    /\ IF ~Accepted
       THEN pressed' = [pressed EXCEPT !.stage = "refused"] /\ UNCHANGED rows
       ELSE /\ pressed' = [pressed EXCEPT !.stage = "ok"]
            /\ rows' = LET p == pressed.post IN
                 CASE pressed.kind = "order" ->
                        [i \in Ids |-> IF Contains(p, i)
                                       THEN [rows[i] EXCEPT !.pos = CHOOSE k \in DOMAIN p : p[k] = i]
                                       ELSE rows[i]]
                   [] pressed.kind = "mark" -> [rows EXCEPT ![pressed.row].status = p]
                   [] OTHER -> [rows EXCEPT ![pressed.row] = p]
    /\ UNCHANGED <<desk, rowsQ, form, saving>>

\* A category with products is not deleted.
CategoryInUse ==
    /\ pressed.stage = "sent" /\ pressed.kind = "delete"
    /\ pressed' = [pressed EXCEPT !.stage = "refused"]
    /\ UNCHANGED <<desk, rows, rowsQ, form, saving>>

LandPress ==
    /\ pressed.stage \in {"ok", "refused"}
    /\ rowsQ' = IF pressed.stage = "ok" THEN RQ!Invalidate(rowsQ) ELSE rowsQ
    /\ pressed' = NoPress
    /\ UNCHANGED <<desk, rows, form, saving>>

-----------------------------------------------------------------------------
(* The list, and the colleague.                                            *)

LoadRows ==
    /\ rowsQ.fetch = Sent
    /\ rowsQ' = RQ!Store(RQ!Answer(rowsQ, rows))
    /\ UNCHANGED <<desk, rows, form, saving, pressed>>

FocusOffice ==
    /\ ~RQ!Fetching(rowsQ)
    /\ rowsQ' = RQ!Ask(rowsQ)
    /\ UNCHANGED <<desk, rows, form, saving, pressed>>

\* A colleague deletes a category, or marks a row.
Colleague(i) ==
    /\ rows[i] # Nothing
    /\ \/ desk = "categories" /\ rows' = [rows EXCEPT ![i] = Nothing]
       \/ desk = "reviews" /\ \E to \in {"published", "rejected"} :
                                  rows' = [rows EXCEPT ![i].status = to]
       \/ \E to \in Arrows(desk, rows[i].status) : rows' = [rows EXCEPT ![i].status = to]
    /\ UNCHANGED <<desk, rowsQ, form, saving, pressed>>

OfficeNext ==
    \/ \E i \in Ids : OpenForm(i) \/ TogglePromo(i) \/ DeleteCategory(i) \/ MoveCategory(i)
                        \/ Colleague(i)
    \/ OpenNewPromo
    \/ CloseForm
    \/ TypeField
    \/ Submit
    \/ ServeForm
    \/ LandForm
    \/ \E i \in Ids : Has(i) /\ \E to \in Offered(desk, Shown[i].status) : Mark(i, to)
    \/ ServePress
    \/ CategoryInUse
    \/ LandPress
    \/ LoadRows
    \/ FocusOffice

-----------------------------------------------------------------------------
(* Properties *)

\* The server refuses a button of the orders page only when somebody was faster: what the
\* page offers for a status, the state machine allows, whatever list it was drawn from.
RefusedMeansOvertaken ==
    pressed.stage = "refused" /\ desk \in {"orders", "payments"}
        => rows[pressed.row].status # pressed.saw
=============================================================================
