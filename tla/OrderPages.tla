----------------------------- MODULE OrderPages -----------------------------
(***************************************************************************)
(* The customer's order pages: the list with its filter pills, featured    *)
(* order and pages of rows, and one order with the cancel button that asks  *)
(* twice, while the shop moves the orders on.                              *)
(***************************************************************************)
EXTENDS Naturals, Sequences, FiniteSets, SequencesExt

CONSTANTS MaxOrders, RowsPerPage, Nothing, Idle, Sent

RQ == INSTANCE ReactQuery

VARIABLES pane,     \* "list" or "detail": a behaviour stays on one of the two pages
          orders,   \* the server: the statuses, newest first
          ordersQ,  \* the cached answer of the page: the list, or the list of the one order
          filter, page,
          arming,   \* the cancel button asks again
          cancel    \* its request: "none", "sent", "ok" or "conflict" (the server's answer
                    \* under way), "done", or the error shown: "tooLate" or "failed"

orderVars == <<pane, orders, ordersQ, filter, page, arming, cancel>>
listVars == <<filter, page>>
cancelVars == <<arming, cancel>>

Active == {"pending", "confirmed", "shipped"}
Filters == {"all", "active", "delivered"}

\* Where the state machine lets an order go.
Following(status) == CASE status = "pending" -> {"confirmed", "cancelled"}
                       [] status = "confirmed" -> {"shipped", "cancelled"}
                       [] status = "shipped" -> {"delivered"}
                       [] OTHER -> {}

OrdersInit ==
    /\ pane \in {"list", "detail"}
    /\ orders \in IF pane = "detail" THEN {<<"pending">>} ELSE {<<>>, <<"pending", "pending">>}
    /\ ordersQ = RQ!Ask(RQ!Fresh)
    /\ filter = "all" /\ page = 1
    /\ arming = FALSE /\ cancel = "none"

-----------------------------------------------------------------------------
(* The list *)

All == ordersQ.data
Passes(o) == filter = "all" \/ (IF filter = "active" THEN o \in Active
                                ELSE o = "delivered")
ActivePlaces == {i \in 1..Len(All) : All[i] \in Active}

\* The newest live order has the card of its own, on every page of its filter.
FeaturedAt == IF ActivePlaces = {} THEN 0 ELSE Min(ActivePlaces)
ShowsFeatured == FeaturedAt # 0 /\ Passes(All[FeaturedAt])

Rows == SelectSeq([i \in 1..Len(All) |-> i], LAMBDA i : Passes(All[i]) /\ i # FeaturedAt)
PageCount == IF Len(Rows) = 0 THEN 1 ELSE (Len(Rows) + RowsPerPage - 1) \div RowsPerPage
VisibleRows == {Rows[k] : k \in {k \in 1..Len(Rows) : (k - 1) \div RowsPerPage = page - 1}}

\* A pill that would filter to nothing is not there.
HasPill(f) == /\ Len(All) > 0
              /\ f = "active" => ActivePlaces # {}
              /\ f = "delivered" => \E i \in 1..Len(All) : All[i] = "delivered"

\* One mover for both: the page starts again with the filter.
PickFilter(f) ==
    /\ pane = "list" /\ RQ!Loaded(ordersQ) /\ HasPill(f)
    /\ filter' = f
    /\ page' = 1
    /\ UNCHANGED <<pane, orders, ordersQ, cancelVars>>

\* The pager draws pageCount numbers, and only where there are rows.
SetPage(n) ==
    /\ pane = "list" /\ RQ!Loaded(ordersQ)
    /\ VisibleRows # {} /\ PageCount > 1
    /\ n \in 1..PageCount /\ n # page
    /\ page' = n
    /\ UNCHANGED <<pane, orders, ordersQ, filter, cancelVars>>

-----------------------------------------------------------------------------
(* One order *)

Shown == ordersQ.data[1]
UnderWay == {"sent", "ok", "conflict"}
CancelRendered == pane = "detail" /\ RQ!Loaded(ordersQ) /\ Shown = "pending"

\* The first press arms the button for three seconds; the second sends and disarms.
PressCancel ==
    /\ CancelRendered /\ cancel \notin UnderWay
    /\ IF arming THEN arming' = FALSE /\ cancel' = "sent"
                 ELSE arming' = TRUE /\ UNCHANGED cancel
    /\ UNCHANGED <<pane, orders, ordersQ, listVars>>

Disarm ==
    /\ arming
    /\ arming' = FALSE
    /\ UNCHANGED <<pane, orders, ordersQ, listVars, cancel>>

CancelOrder ==
    /\ cancel = "sent"
    /\ IF orders[1] = "pending"
       THEN orders' = <<"cancelled">> /\ cancel' = "ok"
       ELSE cancel' = "conflict" /\ UNCHANGED orders
    /\ UNCHANGED <<pane, ordersQ, listVars, arming>>

\* Success and the 409 both drop the cached orders.
RefreshAfterSuccess == IF cancel = "ok" THEN RQ!Invalidate(ordersQ) ELSE ordersQ
RefreshOrders == RQ!Invalidate(ordersQ)

LandCancel ==
    /\ cancel \in {"ok", "conflict"}
    /\ cancel' = IF ~CancelRendered THEN "none" ELSE IF cancel = "ok" THEN "done" ELSE "tooLate"
    /\ ordersQ' = RefreshOrders
    /\ UNCHANGED <<pane, orders, listVars, arming>>

\* The request never reached the server.
CancelFails ==
    /\ cancel = "sent"
    /\ cancel' = "failed"
    /\ UNCHANGED <<pane, orders, ordersQ, listVars, arming>>

-----------------------------------------------------------------------------
(* The shop and the cache *)

\* A worker moves an order; another tab places one.
MoveOrder(i) ==
    /\ \E status \in Following(orders[i]) :
          orders' = [orders EXCEPT ![i] = status]
    /\ UNCHANGED <<pane, ordersQ, listVars, cancelVars>>

PlaceAnother ==
    /\ pane = "list" /\ Len(orders) < MaxOrders
    /\ orders' = <<"pending">> \o orders
    /\ UNCHANGED <<pane, ordersQ, listVars, cancelVars>>

Focus ==
    /\ ~RQ!Fetching(ordersQ)
    /\ ordersQ' = RQ!Ask(ordersQ)
    /\ UNCHANGED <<pane, orders, listVars, cancelVars>>

\* An answer is stored.  Nothing else writes the entry, so it may be stored as it is read.
\* With an order that is no longer pending the cancel control, its timer and its error go.
Store ==
    /\ ordersQ.fetch = Sent
    /\ ordersQ' = RQ!Store(RQ!Answer(ordersQ, orders))
    /\ IF pane = "detail" /\ ordersQ'.data[1] # "pending"
       THEN arming' = FALSE /\ cancel' = IF cancel \in UnderWay THEN cancel ELSE "none"
       ELSE UNCHANGED <<arming, cancel>>
    /\ UNCHANGED <<pane, orders, filter, page>>

OrdersNext ==
    \/ \E f \in Filters : PickFilter(f)
    \/ \E n \in 1..MaxOrders : SetPage(n)
    \/ PressCancel
    \/ Disarm
    \/ CancelOrder
    \/ LandCancel
    \/ CancelFails
    \/ \E i \in 1..Len(orders) : MoveOrder(i)
    \/ PlaceAnother
    \/ Focus
    \/ Store

-----------------------------------------------------------------------------
(* Properties *)

\* The control that was refused because the shop was faster does not stand on a page that
\* has heard of it: once the refetch is over, a "too late" is never beside a button that
\* still offers to cancel.
TooLateEndsTheOffer ==
    cancel = "tooLate" /\ ~RQ!Fetching(ordersQ) => ~CancelRendered
=============================================================================
